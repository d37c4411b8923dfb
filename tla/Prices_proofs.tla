--------------------------- MODULE Prices_proofs ---------------------------
(***************************************************************************)
(* What holds of prices and of configs for all constants.  Medians: what a *)
(* majority bounds.  The aggregate of a quorum, its moving average and the *)
(* averages over time; the trades a market uses; and who signed the config *)
(* that a key set accepts.                                                 *)
(***************************************************************************)
EXTENDS AggregateFeed, ConfigApproval, FiniteSetTheorems, WellFoundedInduction, TLAPS

-----------------------------------------------------------------------------
(* Medians *)

\* A sample of integers that some publishers, or some markets, have a value in.
Sample(f) == IsFiniteSet(DOMAIN f) /\ \A p \in DOMAIN f : f[p] \in Int

Below(f, x) == {p \in DOMAIN f : f[p] < x}
UpTo(f, x) == {p \in DOMAIN f : f[p] <= x}

LEMMA Counted ==
  ASSUME NEW f, Sample(f), NEW S \in SUBSET DOMAIN f
  PROVE  IsFiniteSet(S) /\ Cardinality(S) \in Nat /\ Cardinality(S) <= Cardinality(DOMAIN f)
BY FS_Subset, FS_CardinalityType DEF Sample

LEMMA Fewest ==
  ASSUME NEW T \in SUBSET Nat, T # {}
  PROVE  \E n \in T : \A m \in T : n <= m
<1> DEFINE Less == {ns \in Nat \X Nat : ns[1] < ns[2]}
<1>1. IsWellFoundedOn(Less, Nat)
  BY NatLessThanWellFounded DEF OpToRel
<1>2. PICK n \in T : \A m \in T : <<m, n>> \notin Less
  <2> HIDE DEF Less
  <2> QED BY <1>1, WFMin
<1>3. \A m \in T : ~(m < n)
  BY <1>2
<1> QED BY <1>3

\* Counts rise with the value.
LEMMA CountsRise ==
  ASSUME NEW f, Sample(f), NEW p \in DOMAIN f, NEW q \in DOMAIN f, f[p] < f[q]
  PROVE  Cardinality(UpTo(f, f[p])) < Cardinality(UpTo(f, f[q]))
<1>1. UpTo(f, f[p]) \in SUBSET UpTo(f, f[q])
  BY DEF UpTo, Sample
<1>2. q \in UpTo(f, f[q]) /\ q \notin UpTo(f, f[p])
  BY DEF UpTo, Sample
<1>3. UpTo(f, f[q]) \in SUBSET DOMAIN f /\ UpTo(f, f[p]) \in SUBSET DOMAIN f
  BY DEF UpTo
<1>4. IsFiniteSet(UpTo(f, f[q])) /\ Cardinality(UpTo(f, f[q])) \in Nat /\ Cardinality(UpTo(f, f[p])) \in Nat
  BY <1>3, Counted
<1>5. Cardinality(UpTo(f, f[p])) <= Cardinality(UpTo(f, f[q]))
      /\ Cardinality(UpTo(f, f[p])) # Cardinality(UpTo(f, f[q]))
  BY <1>1, <1>2, <1>4, FS_Subset
<1> QED BY <1>4, <1>5

LEMMA LowestOf ==
  ASSUME NEW f, Sample(f), NEW S \in SUBSET DOMAIN f, S # {}
  PROVE  \E p \in S : \A q \in S : f[p] <= f[q]
<1> DEFINE count(p) == Cardinality(UpTo(f, f[p]))
           T == {count(p) : p \in S}
<1>1. \A p \in S : UpTo(f, f[p]) \in SUBSET DOMAIN f
  BY DEF UpTo
<1>2. T \in SUBSET Nat /\ T # {}
  BY <1>1, Counted
<1>3. PICK n \in T : \A m \in T : n <= m
  BY <1>2, Fewest
<1>4. PICK p \in S : n = count(p)
  BY <1>3
<1>5. ASSUME NEW q \in S, ~(f[p] <= f[q]) PROVE FALSE
  <2>1. f[q] < f[p]
    BY <1>5 DEF Sample
  <2>2. count(q) < count(p)
    BY <2>1, CountsRise
  <2>3. count(p) <= count(q) /\ count(p) \in Nat /\ count(q) \in Nat
    BY <1>2, <1>3, <1>4
  <2> QED BY <2>2, <2>3
<1> QED BY <1>5

LEMMA HighestOf ==
  ASSUME NEW f, Sample(f), NEW S \in SUBSET DOMAIN f, S # {}
  PROVE  \E p \in S : \A q \in S : f[q] <= f[p]
<1> DEFINE g == [p \in DOMAIN f |-> -f[p]]
<1>1. Sample(g) /\ DOMAIN g = DOMAIN f
  BY DEF Sample
<1>2. PICK p \in S : \A q \in S : g[p] <= g[q]
  BY <1>1, LowestOf
<1>3. \A q \in S : f[q] \in Int /\ g[q] = -f[q]
  BY DEF Sample
<1> HIDE DEF g
<1>4. \A q \in S : f[q] <= f[p]
  BY <1>2, <1>3
<1> QED BY <1>4

\* The k-th of the sorted values is there: fewer than k are below it and at least k
\* are not above it.
LEMMA RankedIs ==
  ASSUME NEW f, Sample(f), NEW k \in 1..Cardinality(DOMAIN f)
  PROVE  /\ Ranked(f, k) \in Int
         /\ Cardinality(Below(f, Ranked(f, k))) < k
         /\ k <= Cardinality(UpTo(f, Ranked(f, k)))
<1> DEFINE S == {p \in DOMAIN f : k <= Cardinality(UpTo(f, f[p]))}
<1>1. DOMAIN f # {}
  <2>1. Cardinality({}) = 0
    BY FS_EmptySet
  <2> QED BY <2>1
<1>2. S # {}
  <2>1. PICK p \in DOMAIN f : \A q \in DOMAIN f : f[q] <= f[p]
    BY <1>1, HighestOf
  <2>2. UpTo(f, f[p]) = DOMAIN f
    BY <2>1 DEF UpTo
  <2>3. p \in S
    BY <2>2
  <2> QED BY <2>3
<1>3. PICK p \in S : \A q \in S : f[p] <= f[q]
  BY <1>2, LowestOf
<1>4. f[p] \in Int /\ k <= Cardinality(UpTo(f, f[p])) /\ k \in Nat
  BY DEF Sample
<1>5. Below(f, f[p]) \in SUBSET DOMAIN f
  BY DEF Below
<1>6. Cardinality(Below(f, f[p])) \in Nat
  BY <1>5, Counted
<1>7. ASSUME ~(Cardinality(Below(f, f[p])) < k) PROVE FALSE
  <2>1. Below(f, f[p]) # {}
    <3>1. Cardinality({}) = 0
      BY FS_EmptySet
    <3> QED BY <3>1, <1>7
  <2>2. PICK q \in Below(f, f[p]) : \A r \in Below(f, f[p]) : f[r] <= f[q]
    BY <1>5, <2>1, HighestOf
  <2>3. f[q] < f[p] /\ q \in DOMAIN f /\ f[q] \in Int
    BY <2>2 DEF Below, Sample
  <2>4. UpTo(f, f[q]) = Below(f, f[p])
    BY <1>4, <2>2, <2>3 DEF UpTo, Below, Sample
  <2>5. q \in S
    BY <1>4, <1>6, <1>7, <2>3, <2>4
  <2>6. f[p] <= f[q]
    BY <1>3, <2>5
  <2> QED BY <1>4, <2>3, <2>6
<1> DEFINE Fits(x) == Cardinality({r \in DOMAIN f : f[r] < x}) < k /\ k <= Cardinality({r \in DOMAIN f : f[r] <= x})
           V == {f[r] : r \in DOMAIN f}
<1>8. Ranked(f, k) = CHOOSE x \in V : Fits(x)
  BY DEF Ranked
<1>9. \E x \in V : Fits(x)
  <2>1. f[p] \in V
    OBVIOUS
  <2>2. Fits(f[p])
    BY <1>4, <1>6, <1>7 DEF Below, UpTo
  <2> QED BY <2>1, <2>2
<1>10. Ranked(f, k) \in V /\ Fits(Ranked(f, k))
  <2> HIDE DEF V, Fits
  <2> QED BY <1>8, <1>9
<1> QED BY <1>10 DEF Below, UpTo, Sample

\* Two parts of a sample that are together larger than it share a member.
LEMMA Shared ==
  ASSUME NEW f, Sample(f), NEW A \in SUBSET DOMAIN f, NEW B \in SUBSET DOMAIN f,
         Cardinality(A) + Cardinality(B) > Cardinality(DOMAIN f)
  PROVE  \E p \in A : p \in B
<1>1. A \cap B # {}
  BY FS_MajoritiesIntersect DEF Sample
<1> QED BY <1>1

\* Some of a part of the sample are up to the k-th value, and some from it.
LEMMA RankedBetween ==
  ASSUME NEW f, Sample(f), NEW M \in SUBSET DOMAIN f, NEW k \in 1..Cardinality(DOMAIN f)
  PROVE  /\ Cardinality(M) + k > Cardinality(DOMAIN f) => \E p \in M : f[p] <= Ranked(f, k)
         /\ Cardinality(M) >= k => \E p \in M : Ranked(f, k) <= f[p]
<1> DEFINE r == Ranked(f, k)
           from == DOMAIN f \ Below(f, r)
<1>1. /\ r \in Int /\ Cardinality(Below(f, r)) < k /\ k <= Cardinality(UpTo(f, r))
  BY RankedIs
<1> HIDE DEF r
<1>2. /\ Below(f, r) \in SUBSET DOMAIN f /\ UpTo(f, r) \in SUBSET DOMAIN f /\ from \in SUBSET DOMAIN f
      /\ \A p \in from : r <= f[p]
  BY <1>1 DEF Below, UpTo, Sample
<1>3. /\ Cardinality(Below(f, r)) \in Nat /\ Cardinality(UpTo(f, r)) \in Nat
      /\ Cardinality(from) \in Nat /\ Cardinality(M) \in Nat /\ Cardinality(DOMAIN f) \in Nat
  BY <1>2, Counted
<1>4. Cardinality(from) = Cardinality(DOMAIN f) - Cardinality(Below(f, r))
  <2>1. DOMAIN f \cap Below(f, r) = Below(f, r)
    BY <1>2
  <2> QED BY <2>1, FS_Difference DEF Sample
<1>5. ASSUME Cardinality(M) + k > Cardinality(DOMAIN f) PROVE \E p \in M : f[p] <= r
  <2>1. Cardinality(M) + Cardinality(UpTo(f, r)) > Cardinality(DOMAIN f)
    BY <1>1, <1>3, <1>5
  <2>2. \E p \in M : p \in UpTo(f, r)
    BY <1>2, <2>1, Shared
  <2> QED BY <2>2 DEF UpTo
<1>6. ASSUME Cardinality(M) >= k PROVE \E p \in M : r <= f[p]
  <2>1. Cardinality(M) + Cardinality(from) > Cardinality(DOMAIN f)
    BY <1>1, <1>3, <1>4, <1>6
  <2>2. \E p \in M : p \in from
    BY <1>2, <2>1, Shared
  <2> QED BY <1>2, <2>2
<1> QED BY <1>5, <1>6 DEF r

LEMMA RankedRise ==
  ASSUME NEW f, Sample(f), NEW k \in Nat, k \in 1..Cardinality(DOMAIN f), k + 1 \in 1..Cardinality(DOMAIN f)
  PROVE  Ranked(f, k) <= Ranked(f, k + 1)
<1> DEFINE a == Ranked(f, k)
           b == Ranked(f, k + 1)
<1>1. /\ a \in Int /\ Cardinality(Below(f, a)) < k
      /\ b \in Int /\ k + 1 <= Cardinality(UpTo(f, b))
  BY RankedIs
<1>2. SUFFICES ASSUME b < a PROVE FALSE
  BY <1>1
<1> HIDE DEF a, b
<1>3. UpTo(f, b) \in SUBSET Below(f, a) /\ Below(f, a) \in SUBSET DOMAIN f /\ UpTo(f, b) \in SUBSET DOMAIN f
  BY <1>1, <1>2 DEF UpTo, Below, Sample
<1>4. /\ IsFiniteSet(Below(f, a)) /\ Cardinality(Below(f, a)) \in Nat
      /\ Cardinality(UpTo(f, b)) \in Nat
  BY <1>3, Counted
<1>5. Cardinality(UpTo(f, b)) <= Cardinality(Below(f, a))
  BY <1>3, <1>4, FS_Subset
<1> QED BY <1>1, <1>4, <1>5

\* The median lies between two values of any majority.
LEMMA MedianBetween ==
  ASSUME NEW f, Sample(f), NEW M \in SUBSET DOMAIN f,
         2 * Cardinality(M) > Cardinality(DOMAIN f)
  PROVE  /\ Median(f) \in Int
         /\ \E p, q \in M : f[p] <= Median(f) /\ Median(f) <= f[q]
<1> DEFINE n == Cardinality(DOMAIN f)
           m == Cardinality(M)
           mid == n \div 2
<1>1. n \in Nat /\ m \in Nat /\ m <= n /\ 2 * m > n
  BY Counted
<1>2. Median(f) = IF n % 2 = 1 THEN Ranked(f, mid + 1)
                  ELSE (Ranked(f, mid) + Ranked(f, mid + 1)) \div 2
  BY DEF Median
<1>3. /\ \A p \in M : f[p] \in Int
      /\ \A k \in 1..n : Ranked(f, k) \in Int
  BY RankedIs DEF Sample
<1>4. \A k \in 1..n : /\ m + k > n => \E p \in M : f[p] <= Ranked(f, k)
                      /\ m >= k => \E p \in M : Ranked(f, k) <= f[p]
  BY RankedBetween
<1> HIDE DEF n, m
<1>5. CASE n % 2 = 1
  <2>1. mid + 1 \in 1..n /\ m + (mid + 1) > n /\ m >= mid + 1
    BY <1>1, <1>5
  <2> QED BY <1>2, <1>3, <1>4, <1>5, <2>1
<1>6. CASE n % 2 # 1
  <2>1. mid \in 1..n /\ mid + 1 \in 1..n /\ m + mid > n /\ m >= mid + 1
    BY <1>1, <1>6
  <2> DEFINE a == Ranked(f, mid)
             b == Ranked(f, mid + 1)
  <2>2. a \in Int /\ b \in Int
    BY <1>3, <2>1
  <2>3. PICK p \in M : f[p] <= a
    BY <1>4, <2>1
  <2>4. PICK q \in M : b <= f[q]
    BY <1>4, <2>1
  <2>5. a <= b
    BY <2>1, RankedRise DEF n
  <2>6. a <= (a + b) \div 2 /\ (a + b) \div 2 <= b /\ (a + b) \div 2 \in Int
    <3> HIDE DEF a, b
    <3> QED BY <2>2, <2>5
  <2> QED BY <1>2, <1>3, <1>6, <2>2, <2>3, <2>4, <2>6
<1> QED BY <1>5, <1>6

-----------------------------------------------------------------------------
(* Moving averages *)

LEMMA Products ==
  ASSUME NEW a \in Nat, NEW b \in Nat, NEW c \in Nat
  PROVE  /\ a * b \in Nat
         /\ a <= c => a * b <= c * b
OBVIOUS

\* A part of a number, rounded down, is between nothing and the number.
LEMMA PartOf ==
  ASSUME NEW b \in Nat, NEW d \in Nat, NEW w \in Nat \ {0}, d <= w
  PROVE  (b * d) \div w \in 0..b
<1> DEFINE q == (b * d) \div w
<1>1. b * d \in Nat /\ d * b <= w * b /\ b * d = d * b
  BY Products
<1> DEFINE x == b * d
<1>2. \A y \in Nat : y \div w \in Nat /\ (y \div w) * w <= y
  OBVIOUS
<1>3. q \in Nat /\ q * w <= b * d
  BY <1>1, <1>2
<1>4. ASSUME ~(q <= b) PROVE FALSE
  <2>1. b + 1 <= q /\ b + 1 \in Nat
    BY <1>3, <1>4
  <2>2. (b + 1) * w <= q * w
    BY <1>3, <2>1, Products
  <2>3. (b + 1) * w = b * w + w /\ w * b = b * w /\ b * w \in Nat /\ q * w \in Nat
    BY <1>3
  <2> HIDE DEF q
  <2> QED BY <1>1, <1>3, <2>2, <2>3
<1> QED BY <1>3, <1>4

\* An average moves toward the value and not past it.
LEMMA EmaToward ==
  ASSUME NEW ema \in Int, NEW value \in Int, NEW dt \in Nat \ {0}, NEW tau \in Nat \ {0}
  PROVE  LET new == NextEma(ema, value, dt, tau)
         IN /\ new \in Int
            /\ Abs(value - new) <= Abs(value - ema)
            /\ (value - ema) * (value - new) >= 0
<1> DEFINE b == value - ema
           w == dt + tau
           move == Truncated(b * dt, w)
           new == NextEma(ema, value, dt, tau)
<1>1. /\ b \in Int /\ w \in Nat \ {0} /\ dt <= w /\ dt \in Nat
      /\ new = ema + move
  BY DEF NextEma
<1>2. CASE b >= 0
  <2>1. b \in Nat /\ b * dt \in Nat
    BY <1>1, <1>2, Products
  <2>2. move = (b * dt) \div w
    BY <2>1 DEF Truncated
  <2>3. move \in 0..b
    BY <1>1, <2>1, <2>2, PartOf
  <2> HIDE DEF move
  <2>4. new \in Int /\ value - new = b - move /\ b - move \in Nat /\ b - move <= b
    BY <1>1, <1>2, <2>3
  <2>5. b * (b - move) >= 0
    BY <2>1, <2>4, Products
  <2> QED BY <2>1, <2>4, <2>5 DEF Abs
<1>3. CASE b < 0
  <2>1. -b \in Nat \ {0} /\ (-b) * dt \in Nat /\ b * dt = -((-b) * dt) /\ (-b) * dt # 0
    <3>1. -b \in Nat \ {0}
      BY <1>1, <1>3
    <3>2. \A c \in Nat \ {0} : c * dt \in Nat /\ c * dt # 0 /\ (-c) * dt = -(c * dt)
      BY Products
    <3>3. b = -(-b)
      BY <1>1
    <3> QED BY <3>1, <3>2, <3>3
  <2>2. b * dt < 0 /\ -(b * dt) = (-b) * dt
    BY <2>1
  <2>3. move = -(((-b) * dt) \div w)
    BY <2>2 DEF Truncated
  <2>4. ((-b) * dt) \div w \in 0..(-b)
    BY <1>1, <2>1, PartOf
  <2>5. -move \in 0..(-b) /\ move \in Int
    BY <1>1, <2>3, <2>4
  <2> HIDE DEF move
  <2>6. /\ new \in Int /\ value - new = b - move
        /\ -(b - move) \in Nat /\ -(b - move) <= -b
    BY <1>1, <2>5
  <2>7. b * (b - move) >= 0
    <3> DEFINE c == -b
               r == -(b - move)
    <3>1. c \in Nat /\ r \in Nat /\ b = -c /\ b - move = -r
      BY <1>1, <2>1, <2>5, <2>6
    <3>2. c * r >= 0 /\ c * r \in Nat
      BY <3>1, Products
    <3> HIDE DEF c, r
    <3>3. (-c) * (-r) = c * r
      BY <3>1
    <3> QED BY <3>1, <3>2, <3>3
  <2>8. Abs(value - new) = -(b - move) /\ Abs(value - ema) = -b
    BY <1>1, <1>3, <2>6 DEF Abs
  <2> QED BY <2>6, <2>7, <2>8
<1> QED BY <1>1, <1>2, <1>3

-----------------------------------------------------------------------------
(* Lists in the order of time *)

Sorted(list) == \A i, j \in DOMAIN list : i < j => list[i].at < list[j].at

LEMMA LastAtIs ==
  ASSUME NEW R, \A r \in R : r.at \in Nat, NEW list \in Seq(R), Sorted(list)
  PROVE  /\ LastAt(list) \in Nat
         /\ \A n \in DOMAIN list : list[n].at \in Nat /\ list[n].at <= LastAt(list)
<1>1. CASE list = <<>>
  BY <1>1 DEF LastAt
<1>2. CASE list # <<>>
  <2>1. Len(list) \in DOMAIN list /\ LastAt(list) = list[Len(list)].at
    BY <1>2 DEF LastAt
  <2>2. \A n \in DOMAIN list : list[n].at \in Nat /\ n \in Nat /\ n <= Len(list)
    BY DEF Sorted
  <2>3. \A n \in DOMAIN list : n < Len(list) => list[n].at < list[Len(list)].at
    BY <2>1 DEF Sorted
  <2> QED BY <2>1, <2>2, <2>3
<1> QED BY <1>1, <1>2

LEMMA Longer ==
  ASSUME NEW R, \A r \in R : r.at \in Nat, NEW list \in Seq(R), Sorted(list),
         NEW item \in R, LastAt(list) < item.at
  PROVE  Append(list, item) \in Seq(R) /\ Sorted(Append(list, item))
<1> DEFINE longer == Append(list, item)
<1>1. /\ longer \in Seq(R) /\ DOMAIN longer = 1..(Len(list) + 1) /\ DOMAIN list = 1..Len(list)
      /\ Len(list) \in Nat /\ longer[Len(list) + 1] = item
      /\ \A n \in DOMAIN list : longer[n] = list[n]
  OBVIOUS
<1>2. ASSUME NEW i \in DOMAIN longer, NEW j \in DOMAIN longer, i < j
      PROVE  longer[i].at < longer[j].at
  <2>1. i \in DOMAIN list /\ longer[i] = list[i]
    BY <1>1, <1>2
  <2>2. CASE j \in DOMAIN list
    BY <1>1, <1>2, <2>1, <2>2 DEF Sorted
  <2>3. CASE j \notin DOMAIN list
    <3>1. j = Len(list) + 1
      BY <1>1, <2>3
    <3>2. list[i].at \in Nat /\ list[i].at <= LastAt(list) /\ LastAt(list) \in Nat
      BY <2>1, LastAtIs
    <3> QED BY <1>1, <2>1, <3>1, <3>2
  <2> QED BY <2>2, <2>3
<1> QED BY <1>1, <1>2 DEF Sorted

LEMMA Items ==
  ASSUME NEW R, NEW list \in Seq(R)
  PROVE  /\ DOMAIN list = 1..Len(list) /\ Len(list) \in Nat
         /\ \A n \in DOMAIN list : list[n] \in R
OBVIOUS

LEMMA NoItems == ASSUME NEW R PROVE <<>> \in Seq(R) /\ Sorted(<<>>)
BY DEF Sorted

-----------------------------------------------------------------------------
(* The state of a feed *)

QuoteItem == [at : Nat, bid : Int, ask : Int, depth : Int \cup {None}]
TradeItem == [at : Nat, price : Int, qty : Int]
PriceItem == [at : Nat, price : Int]

\* Me's market data is in the order of its arrival.
MarketInv ==
  /\ clock \in Nat
  /\ quotes \in Seq(QuoteItem) /\ Sorted(quotes)
  /\ trades \in Seq(TradeItem) /\ Sorted(trades)

\* What Me's markets are priced at.
VenuesInv ==
  /\ method \in Method \cup {None}
  /\ venues \in Seq(Range(venues))
  /\ \A n \in DOMAIN venues : venues[n].price \in Nat \ {0}

\* Observations and updates.
UpdatesInv ==
  /\ DOMAIN sample \subseteq Publisher /\ \A p \in DOMAIN sample : sample[p] \in Int
  /\ update # None => update.price \in Int /\ update.ema \in Int
  /\ history \in Seq(PriceItem) /\ Sorted(history)

LEMMA MarketInitial == Init => MarketInv
BY NoItems DEF Init, MarketInv

LEMMA MarketStep == MarketInv /\ [Next]_vars => MarketInv'
<1> SUFFICES ASSUME MarketInv, [Next]_vars PROVE MarketInv'
  OBVIOUS
<1> USE DEF MarketInv
<1>1. CASE Passes
  BY <1>1 DEF Passes
<1>2. CASE QuoteArrives
  <2>1. PICK q \in QuoteSet :
          quotes' = Append(quotes, [at |-> clock, bid |-> q.bid, ask |-> q.ask, depth |-> q.depth])
    BY <1>2 DEF QuoteArrives
  <2>2. [at |-> clock, bid |-> q.bid, ask |-> q.ask, depth |-> q.depth] \in QuoteItem
    BY AggregateAssumption DEF QuoteItem
  <2>3. LastAt(quotes) < clock /\ UNCHANGED <<clock, trades>>
    BY <1>2 DEF QuoteArrives
  <2>4. \A r \in QuoteItem : r.at \in Nat
    BY DEF QuoteItem
  <2>5. quotes' \in Seq(QuoteItem) /\ Sorted(quotes')
    BY <2>1, <2>2, <2>3, <2>4, Longer
  <2> QED BY <2>3, <2>5
<1>3. CASE TradeArrives
  <2>1. PICK t \in TradeSet : trades' = Append(trades, [at |-> clock, price |-> t.price, qty |-> t.qty])
    BY <1>3 DEF TradeArrives
  <2>2. [at |-> clock, price |-> t.price, qty |-> t.qty] \in TradeItem
    BY AggregateAssumption DEF TradeItem
  <2>3. LastAt(trades) < clock /\ UNCHANGED <<clock, quotes>>
    BY <1>3 DEF TradeArrives
  <2>4. \A r \in TradeItem : r.at \in Nat
    BY DEF TradeItem
  <2>5. trades' \in Seq(TradeItem) /\ Sorted(trades')
    BY <2>1, <2>2, <2>3, <2>4, Longer
  <2> QED BY <2>3, <2>5
<1>4. CASE HeartbeatArrives
  BY <1>4 DEF HeartbeatArrives
<1>5. CASE MeasureMarket
  <2>1. clock' = 1 /\ quotes' = <<>> /\ trades' = <<>>
    BY <1>5 DEF MeasureMarket
  <2> QED BY <2>1, NoItems
<1>6. CASE MeasureOther \/ ObserveOwn \/ Aggregated \/ \E p \in Publisher : Observe(p)
  BY <1>6 DEF MeasureOther, ObserveOwn, Aggregated, Observe, market
<1>7. CASE UNCHANGED vars
  BY <1>7 DEF vars, market
<1> QED BY <1>1, <1>2, <1>3, <1>4, <1>5, <1>6, <1>7 DEF Next

LEMMA VenuesInitial == Init => VenuesInv
BY DEF Init, VenuesInv, Range

LEMMA VenuesStep == VenuesInv /\ [Next]_vars => VenuesInv'
<1> SUFFICES ASSUME VenuesInv, [Next]_vars PROVE VenuesInv'
  OBVIOUS
<1>1. ASSUME UNCHANGED <<method, venues>> PROVE VenuesInv'
  BY <1>1 DEF VenuesInv
<1>2. CASE MeasureMarket
  <2>1. PICK price : venues' = <<price>> /\ price.price \in Nat \ {0} /\ method' = method
    BY <1>2 DEF MeasureMarket
  <2>2. Range(venues') = {price}
    BY <2>1 DEF Range
  <2> QED BY <2>1, <2>2 DEF VenuesInv
<1>3. CASE MeasureOther
  <2>1. PICK v \in MarketSet : venues' = Append(venues, v) /\ method' = method
    BY <1>3 DEF MeasureOther
  <2>2. v.price \in Nat \ {0}
    BY AggregateAssumption
  <2>3. venues \in Seq(Range(venues) \cup {v})
    BY DEF VenuesInv
  <2>4. /\ DOMAIN venues' = 1..(Len(venues) + 1) /\ DOMAIN venues = 1..Len(venues)
        /\ Len(venues) \in Nat /\ venues'[Len(venues) + 1] = v
        /\ \A n \in DOMAIN venues : venues'[n] = venues[n]
        /\ venues' \in Seq(Range(venues) \cup {v}) /\ Len(venues') = Len(venues) + 1
    BY <2>1, <2>3
  <2>5. \A n \in DOMAIN venues' : venues'[n].price \in Nat \ {0}
    BY <2>2, <2>4 DEF VenuesInv
  <2>6. venues' \in Seq(Range(venues'))
    BY <2>4 DEF Range
  <2> QED BY <2>1, <2>5, <2>6 DEF VenuesInv
<1>4. CASE ObserveOwn
  <2>1. method' = None /\ venues' = <<>>
    BY <1>4 DEF ObserveOwn
  <2> QED BY <2>1 DEF VenuesInv, Range
<1>5. CASE Passes \/ QuoteArrives \/ TradeArrives \/ HeartbeatArrives
  BY <1>1, <1>5 DEF Passes, QuoteArrives, TradeArrives, HeartbeatArrives
<1>6. CASE Aggregated \/ \E p \in Publisher : Observe(p)
  BY <1>1, <1>6 DEF Aggregated, Observe
<1>7. CASE UNCHANGED vars
  BY <1>1, <1>7 DEF vars
<1> QED BY <1>2, <1>3, <1>4, <1>5, <1>6, <1>7 DEF Next

\* A quorum's observations, without those of any set of faulty publishers, are a
\* majority of them.
LEMMA HonestMajority ==
  ASSUME UpdatesInv, Cardinality(DOMAIN sample) >= Quorum,
         NEW Faulty \in SUBSET Publisher, 3 * Cardinality(Faulty) < N
  PROVE  Sample(sample) /\ 2 * Cardinality(DOMAIN sample \ Faulty) > Cardinality(DOMAIN sample)
<1> DEFINE D == DOMAIN sample
<1>1. Sample(sample) /\ IsFiniteSet(D) /\ IsFiniteSet(Faulty) /\ IsFiniteSet(D \ Faulty)
      /\ IsFiniteSet(D \cap Faulty) /\ IsFiniteSet(Publisher)
  BY AggregateAssumption, FS_Subset, FS_Difference, FS_Intersection DEF UpdatesInv, Sample
<1>2. Cardinality(D \ Faulty) = Cardinality(D) - Cardinality(D \cap Faulty)
  BY <1>1, FS_Difference
<1>3. Cardinality(D \cap Faulty) <= Cardinality(Faulty)
  BY <1>1, FS_Intersection
<1>4. /\ Cardinality(D) \in Nat /\ Cardinality(Faulty) \in Nat /\ Cardinality(D \cap Faulty) \in Nat
      /\ Cardinality(D \ Faulty) \in Nat /\ N \in Nat
  BY <1>1, FS_CardinalityType DEF N
<1> HIDE DEF D
<1>5. Cardinality(D) >= (2 * N) \div 3 + 1
  BY DEF D, Quorum
<1>6. 2 * Cardinality(D \ Faulty) > Cardinality(D)
  BY <1>2, <1>3, <1>4, <1>5
<1> QED BY <1>1, <1>6 DEF D

\* The median of a quorum's observations is a number.
LEMMA AggregateIs ==
  ASSUME UpdatesInv, Cardinality(DOMAIN sample) >= Quorum
  PROVE  Median(sample) \in Int
<1>1. Sample(sample) /\ Cardinality(DOMAIN sample) \in Nat
  BY AggregateAssumption, FS_Subset, FS_CardinalityType DEF UpdatesInv, Sample
<1>2. N \in Nat
  BY AggregateAssumption, FS_CardinalityType DEF N
<1>3. Quorum >= 1 /\ Quorum \in Nat
  BY <1>2 DEF Quorum
<1>4. 2 * Cardinality(DOMAIN sample) > Cardinality(DOMAIN sample)
  BY <1>1, <1>3
<1> QED BY <1>1, <1>4, MedianBetween

LEMMA UpdatesInitial == Init => UpdatesInv
BY NoItems DEF Init, UpdatesInv

LEMMA UpdatesStep == UpdatesInv /\ [Next]_vars => UpdatesInv'
<1> SUFFICES ASSUME UpdatesInv, [Next]_vars PROVE UpdatesInv'
  OBVIOUS
<1>1. ASSUME UNCHANGED <<sample, update, history>> PROVE UpdatesInv'
  BY <1>1 DEF UpdatesInv
<1>2. CASE ObserveOwn
  <2>1. PICK price \in Nat \ {0} : sample' = [p \in {Me} |-> price]
    BY <1>2 DEF ObserveOwn
  <2>2. UNCHANGED <<update, history>>
    BY <1>2 DEF ObserveOwn, feed
  <2> QED BY <2>1, <2>2, AggregateAssumption DEF UpdatesInv
<1>3. ASSUME NEW p \in Publisher, Observe(p) PROVE UpdatesInv'
  <2>1. PICK x \in Value : sample' = [q \in DOMAIN sample \cup {p} |-> IF q = p THEN x ELSE sample[q]]
    BY <1>3 DEF Observe
  <2>2. UNCHANGED <<update, history>>
    BY <1>3 DEF Observe, feed
  <2>3. x \in Int
    BY AggregateAssumption
  <2> QED BY <2>1, <2>2, <2>3 DEF UpdatesInv
<1>4. CASE Aggregated
  <2> DEFINE price == Median(sample)
  <2>1. PICK dt \in Gap :
          /\ update' = [price |-> price,
                        ema |-> IF update = None THEN price
                                ELSE NextEma(update.ema, price, dt, Tau)]
          /\ history' = Append(history, [at |-> LastAt(history) + dt, price |-> price])
    BY <1>4 DEF Aggregated
  <2>2. Cardinality(DOMAIN sample) >= Quorum /\ sample' = [p \in {} |-> 0]
    BY <1>4 DEF Aggregated
  <2>3. price \in Int
    BY <2>2, AggregateIs
  <2>4. dt \in Nat \ {0} /\ Tau \in Nat \ {0}
    BY AggregateAssumption
  <2> HIDE DEF price
  <2>5. update # None => NextEma(update.ema, price, dt, Tau) \in Int
    BY <2>3, <2>4, EmaToward DEF UpdatesInv
  <2>6. update'.price \in Int /\ update'.ema \in Int
    BY <2>1, <2>3, <2>5
  <2>7. \A r \in PriceItem : r.at \in Nat
    BY DEF PriceItem
  <2>8. LastAt(history) \in Nat
    BY <2>7, LastAtIs DEF UpdatesInv
  <2> DEFINE item == [at |-> LastAt(history) + dt, price |-> price]
  <2>9. item \in PriceItem /\ LastAt(history) < item.at
    BY <2>3, <2>4, <2>8 DEF PriceItem
  <2>10. history' \in Seq(PriceItem) /\ Sorted(history')
    BY <2>1, <2>7, <2>9, Longer DEF UpdatesInv
  <2> QED BY <2>2, <2>6, <2>10 DEF UpdatesInv
<1>5. CASE Passes \/ QuoteArrives \/ TradeArrives \/ HeartbeatArrives
  BY <1>1, <1>5 DEF Passes, QuoteArrives, TradeArrives, HeartbeatArrives, feed
<1>6. CASE MeasureMarket \/ MeasureOther
  BY <1>1, <1>6 DEF MeasureMarket, MeasureOther, feed
<1>7. CASE UNCHANGED vars
  BY <1>1, <1>7 DEF vars, feed
<1> QED BY <1>2, <1>3, <1>4, <1>5, <1>6, <1>7 DEF Next

\* The price of an update lies between those of honest publishers, whoever is faulty,
\* and its average moves toward the price, not past it.
THEOREM MedianSafe == Spec => AggregateSound
<1>1. UpdatesInv /\ [Next]_vars =>
        [update' # update =>
           LET price == update'.price
               before == IF update = None THEN 0 ELSE price - update.ema
               after == price - update'.ema
           IN /\ \A Faulty \in SUBSET Publisher : 3 * Cardinality(Faulty) < N =>
                   \E p, q \in DOMAIN sample \ Faulty : sample[p] <= price /\ price <= sample[q]
              /\ Abs(after) <= Abs(before)
              /\ before * after >= 0]_vars
  <2> SUFFICES ASSUME UpdatesInv, Next, update' # update
               PROVE  LET price == update'.price
                          before == IF update = None THEN 0 ELSE price - update.ema
                          after == price - update'.ema
                      IN /\ \A Faulty \in SUBSET Publisher : 3 * Cardinality(Faulty) < N =>
                              \E p, q \in DOMAIN sample \ Faulty : sample[p] <= price /\ price <= sample[q]
                         /\ Abs(after) <= Abs(before)
                         /\ before * after >= 0
    OBVIOUS
  <2>1. Aggregated
    BY DEF Next, Passes, QuoteArrives, TradeArrives, HeartbeatArrives, MeasureMarket,
           MeasureOther, ObserveOwn, Observe, feed
  <2> DEFINE price == Median(sample)
  <2>2. Cardinality(DOMAIN sample) >= Quorum
    BY <2>1 DEF Aggregated
  <2>3. PICK dt \in Gap :
          update' = [price |-> price,
                     ema |-> IF update = None THEN price
                             ELSE NextEma(update.ema, price, dt, Tau)]
    BY <2>1 DEF Aggregated
  <2>4. price \in Int /\ dt \in Nat \ {0} /\ Tau \in Nat \ {0}
    BY <2>2, AggregateIs, AggregateAssumption
  <2>5. ASSUME NEW Faulty \in SUBSET Publisher, 3 * Cardinality(Faulty) < N
        PROVE  \E p, q \in DOMAIN sample \ Faulty : sample[p] <= price /\ price <= sample[q]
    BY <2>2, <2>5, HonestMajority, MedianBetween
  <2> HIDE DEF price
  <2>6. CASE update = None
    <3>1. update'.price = price /\ update'.ema = price
      BY <2>3, <2>6
    <3> QED BY <2>4, <2>5, <2>6, <3>1 DEF Abs
  <2>7. CASE update # None
    <3>1. update'.price = price /\ update'.ema = NextEma(update.ema, price, dt, Tau)
      BY <2>3, <2>7
    <3>2. update.ema \in Int
      BY <2>7 DEF UpdatesInv
    <3> QED BY <2>4, <2>5, <2>7, <3>1, <3>2, EmaToward
  <2> QED BY <2>6, <2>7
<1> QED BY <1>1, UpdatesInitial, UpdatesStep, PTL DEF Spec, AggregateSound

-----------------------------------------------------------------------------
(* The markets of a feed *)

\* A price near another, as Kept asks.
Near(x, y, bps) == Abs(x - y) * 10000 <= bps * y

\* A market that agrees with one below the median and one above it is near the median.
LEMMA NearMedian ==
  ASSUME NEW low \in Nat, NEW high \in Nat, NEW first \in Int, NEW x \in Nat, NEW bps \in Nat,
         low <= first, first <= high, Near(high, x, bps), Near(x, low, bps)
  PROVE  Near(x, first, bps)
<1> USE DEF Near
<1>0. first \in Nat /\ bps * x \in Nat /\ bps * low \in Nat /\ bps * first \in Nat
  BY Products
<1>1. CASE x <= first
  <2>1. bps * x <= bps * first
    <3>1. x * bps <= first * bps
      BY <1>0, <1>1, Products
    <3> QED BY <1>0, <3>1
  <2>2. Abs(x - first) <= Abs(high - x) /\ Abs(x - first) \in Nat /\ Abs(high - x) \in Nat
    BY <1>0, <1>1 DEF Abs
  <2> QED BY <1>0, <2>1, <2>2
<1>2. CASE x > first
  <2>1. bps * low <= bps * first
    <3>1. low * bps <= first * bps
      BY <1>0, Products
    <3> QED BY <1>0, <3>1
  <2>2. Abs(x - first) <= Abs(x - low) /\ Abs(x - first) \in Nat /\ Abs(x - low) \in Nat
    BY <1>0, <1>2 DEF Abs
  <2> QED BY <1>0, <2>1, <2>2
<1> QED BY <1>0, <1>1, <1>2

\* Markets that agree, a majority, are all kept and bound the median of what is kept.
LEMMA Outvoted ==
  ASSUME VenuesInv, method # None, NEW M \in SUBSET DOMAIN venues,
         2 * Cardinality(M) > Len(venues), method.maxDeviationBps # None,
         Combine(method, venues) # None,
         \A m, n \in M :
           Abs(venues[m].price - venues[n].price) * 10000 <= method.maxDeviationBps * venues[n].price
  PROVE  \E m, n \in M : /\ venues[m].price <= Combine(method, venues).price
                         /\ Combine(method, venues).price <= venues[n].price
<1> DEFINE all == [n \in DOMAIN venues |-> venues[n].price]
           bps == method.maxDeviationBps
           first == Median(all)
           K == {n \in DOMAIN venues : Abs(venues[n].price - first) * 10000 <= bps * first}
           some == [n \in K |-> venues[n].price]
<1>1. /\ bps \in Nat /\ method.minVenues \in Nat
      /\ Len(venues) \in Nat /\ DOMAIN venues = 1..Len(venues)
      /\ \A n \in DOMAIN venues : venues[n].price \in Nat
  BY AggregateAssumption DEF VenuesInv
<1>2. IsFiniteSet(DOMAIN venues) /\ Cardinality(DOMAIN venues) = Len(venues)
  <2>1. \A n \in Nat : IsFiniteSet(1..n) /\ Cardinality(1..n) = n
    BY FS_Interval
  <2> QED BY <1>1, <2>1
<1>3. Sample(all) /\ DOMAIN all = DOMAIN venues
  BY <1>1, <1>2 DEF Sample
<1>4. /\ first \in Int
      /\ \E m, n \in M : venues[m].price <= first /\ first <= venues[n].price
  <2>1. /\ Median(all) \in Int
        /\ \E m, n \in M : all[m] <= Median(all) /\ Median(all) <= all[n]
    <3> HIDE DEF all
    <3> QED BY <1>2, <1>3, MedianBetween
  <2>2. \A m \in M : all[m] = venues[m].price
    OBVIOUS
  <2>3. first = Median(all)
    OBVIOUS
  <2> HIDE DEF all, first
  <2> QED BY <2>1, <2>2, <2>3
<1> HIDE DEF first
<1>5. PICK low \in M, high \in M : venues[low].price <= first /\ first <= venues[high].price
  BY <1>4
<1>6. ASSUME NEW m \in M PROVE m \in K
  <2>1. /\ Abs(venues[high].price - venues[m].price) * 10000 <= bps * venues[m].price
        /\ Abs(venues[m].price - venues[low].price) * 10000 <= bps * venues[low].price
    OBVIOUS
  <2>2. /\ venues[m].price \in Nat /\ venues[low].price \in Nat /\ venues[high].price \in Nat
        /\ bps \in Nat
    BY <1>1
  <2> HIDE DEF bps
  <2> DEFINE x == venues[m].price
             l == venues[low].price
             h == venues[high].price
  <2>3. /\ x \in Nat /\ l \in Nat /\ h \in Nat /\ first \in Int /\ l <= first /\ first <= h
        /\ Near(h, x, bps) /\ Near(x, l, bps)
    BY <1>4, <1>5, <2>1, <2>2 DEF Near
  <2> HIDE DEF x, l, h
  <2>4. Near(x, first, bps)
    BY <2>2, <2>3, NearMedian
  <2> QED BY <2>4 DEF x, bps, Near
<1>7. Combine(method, venues).price = Median(some)
  <2> DEFINE kept == IF Len(venues) < method.minVenues THEN <<>> ELSE Kept(method, venues)
  <2>1. Combine(method, venues) =
          IF Count(kept) < method.minVenues THEN None
          ELSE [price |-> Median(Each(kept, LAMBDA v : v.price)),
                conf |-> Conf(kept, Median(Each(kept, LAMBDA v : v.price)))]
    BY DEF Combine
  <2>2. Count(<<>>) = 0
    <3>1. DOMAIN <<>> = {}
      OBVIOUS
    <3> QED BY <3>1, FS_EmptySet DEF Count
  <2>3. kept = Kept(method, venues)
    <3>1. ASSUME Len(venues) < method.minVenues PROVE FALSE
      <4>1. Count(kept) = 0
        BY <2>2, <3>1
      <4>2. Count(kept) < method.minVenues
        BY <1>1, <3>1, <4>1
      <4> QED BY <2>1, <4>2
    <3> QED BY <3>1
  <2>4. Kept(method, venues) = [n \in K |-> venues[n]]
    <3>1. Each(venues, LAMBDA v : v.price) = all
      BY DEF Each
    <3> QED BY <3>1 DEF Kept, Where, Each, first
  <2>5. Each(Kept(method, venues), LAMBDA v : v.price) = some
    BY <2>4 DEF Each
  <2> QED BY <2>1, <2>3, <2>5
<1>8. K \in SUBSET DOMAIN all /\ M \in SUBSET K
  BY <1>6
<1> HIDE DEF K
<1>9. Sample(some) /\ DOMAIN some = K
  BY <1>1, <1>2, <1>8, FS_Subset DEF Sample
<1>10. 2 * Cardinality(M) > Cardinality(K)
  <2>1. Cardinality(K) <= Len(venues) /\ Cardinality(K) \in Nat /\ Cardinality(M) \in Nat
    BY <1>2, <1>3, <1>8, Counted
  <2> QED BY <1>1, <2>1
<1>11. \E m, n \in M : some[m] <= Median(some) /\ Median(some) <= some[n]
  <2> HIDE DEF some
  <2> QED BY <1>8, <1>9, <1>10, MedianBetween
<1>12. \A m \in M : some[m] = venues[m].price
  BY <1>8
<1> HIDE DEF some
<1> QED BY <1>7, <1>11, <1>12

\* Markets that agree, a majority, bound the price a publisher observes.
THEOREM MajorityPrices == Spec => []VenuesOutvoted
<1>1. VenuesInv => VenuesOutvoted
  BY Outvoted DEF VenuesOutvoted
<1> QED BY <1>1, VenuesInitial, VenuesStep, PTL DEF Spec

-----------------------------------------------------------------------------
(* Averages over time *)

\* A publisher that holds what there is of the window up to its newest update computes
\* the average of one that holds everything, or none.
LEMMA SameAverage ==
  ASSUME UpdatesInv, NEW tick \in Boundaries, NEW held \in SUBSET DOMAIN history,
         NEW latest \in 0..Newest, Whole(held, latest, tick)
  PROVE  Twap([n \in held |-> history[n]], latest, tick) \in {None, Twap(history, Newest, tick)}
<1> DEFINE some == [n \in held |-> history[n]]
           w == TwapWindow(tick, TwapTicks)
           In(p) == w.from < p.at /\ p.at <= w.to
           Used(list) == Where(list, LAMBDA p : w.from < p.at /\ p.at <= w.to)
<1>1. /\ LastAt(history) \in Nat
      /\ \A n \in DOMAIN history : history[n].at \in Nat
  <2>1. \A r \in PriceItem : r.at \in Nat
    BY DEF PriceItem
  <2> QED BY <2>1, LastAtIs DEF UpdatesInv
<1>2. /\ Newest \in Nat /\ latest \in Nat /\ tick \in Nat /\ tick <= Newest + 2
      /\ w.from \in Int /\ w.to \in Int /\ w.to = tick - 2
  BY <1>1, AggregateAssumption DEF Newest, Boundaries, TwapWindow
<1> HIDE DEF w
<1>3. SUFFICES ASSUME Twap(some, latest, tick) # None
               PROVE  Twap(some, latest, tick) = Twap(history, Newest, tick)
  OBVIOUS
<1>4. DOMAIN some = held /\ \A n \in held : some[n] = history[n]
  OBVIOUS
<1> HIDE DEF some
<1>5. ~(latest < w.to)
  BY <1>3 DEF Twap, ComputeTwap, w
<1>6. ~(Newest < w.to)
  BY <1>2
<1>7. Used(some) = Used(history)
  <2>1. \A n \in DOMAIN history : In(history[n]) => n \in held
    BY <1>1, <1>2, <1>5 DEF Whole, w
  <2>2. {n \in DOMAIN some : In(some[n])} = {n \in DOMAIN history : In(history[n])}
    BY <1>4, <2>1
  <2>3. \A n \in {m \in DOMAIN some : In(some[m])} : some[n] = history[n]
    BY <1>4
  <2> QED BY <2>2, <2>3 DEF Where
<1> QED BY <1>5, <1>6, <1>7 DEF Twap, ComputeTwap, w

\* When fewer than a third observe anything but `average`, a quorum's median is it.
LEMMA AverageStands ==
  ASSUME UpdatesInv, Cardinality(DOMAIN sample) >= Quorum, NEW average,
         3 * Cardinality({p \in DOMAIN sample : sample[p] # average}) < N
  PROVE  Median(sample) = average
<1> DEFINE other == {p \in DOMAIN sample : sample[p] # average}
           same == DOMAIN sample \ other
<1>1. other \in SUBSET Publisher
  BY DEF UpdatesInv
<1>2. Sample(sample) /\ 2 * Cardinality(same) > Cardinality(DOMAIN sample)
  <2> HIDE DEF other
  <2> QED BY <1>1, HonestMajority DEF other
<1>3. \A p \in same : sample[p] = average
  OBVIOUS
<1> HIDE DEF same
<1>4. same \in SUBSET DOMAIN sample
  BY DEF same
<1>5. PICK p, q \in same : /\ Median(sample) \in Int
                          /\ sample[p] <= Median(sample) /\ Median(sample) <= sample[q]
  BY <1>2, <1>4, MedianBetween
<1>6. sample[p] \in Int /\ sample[p] = average /\ sample[q] = average
  BY <1>2, <1>3, <1>4 DEF Sample
<1> QED BY <1>5, <1>6

\* Publishers without a gap in the window never compute different averages for a
\* boundary, and fewer than a third with gaps do not change the committee's.
THEOREM AveragesAgree == Spec => []TwapAgreed
<1>1. UpdatesInv => TwapAgreed
  BY SameAverage, AverageStands DEF TwapAgreed
<1> QED BY <1>1, UpdatesInitial, UpdatesStep, PTL DEF Spec

-----------------------------------------------------------------------------
(* Trades and the book *)

\* A part of a list that has everything before what it has is its beginning.
LEMMA Beginning ==
  ASSUME NEW n \in Nat, NEW S \in SUBSET (1..n), \A i \in S : \A j \in 1..n : j <= i => j \in S
  PROVE  Cardinality(S) \in 0..n /\ S = 1..Cardinality(S)
<1>1. CASE S = {}
  <2>1. Cardinality(S) = 0 /\ 1..0 = {}
    BY <1>1, FS_EmptySet
  <2> QED BY <1>1, <2>1
<1>2. CASE S # {}
  <2> DEFINE f == [i \in 1..n |-> i]
  <2>1. Sample(f) /\ DOMAIN f = 1..n /\ \A i \in 1..n : f[i] = i
    BY FS_Interval DEF Sample
  <2> HIDE DEF f
  <2>2. PICK k \in S : \A i \in S : f[i] <= f[k]
    BY <1>2, <2>1, HighestOf
  <2>3. k \in 1..n /\ \A i \in S : i <= k
    BY <2>1, <2>2
  <2>4. S = 1..k
    <3>1. \A i \in S : i \in 1..k
      BY <2>3
    <3>2. \A i \in 1..k : i \in 1..n /\ i <= k
      BY <2>3
    <3> QED BY <2>2, <3>1, <3>2
  <2>5. Cardinality(1..k) = k
    BY <2>3, FS_Interval
  <2> QED BY <2>3, <2>4, <2>5
<1> QED BY <1>1, <1>2

LEMMA QuoteItems ==
  ASSUME MarketInv
  PROVE  /\ DOMAIN quotes = 1..Len(quotes) /\ Len(quotes) \in Nat
         /\ \A n \in DOMAIN quotes : quotes[n].at \in Nat /\ quotes[n] # None
         /\ \A i, j \in DOMAIN quotes : i < j => quotes[i].at < quotes[j].at
<1>1. \A q \in QuoteItem : q.at \in Nat /\ q # None
  BY AggregateAssumption DEF QuoteItem
<1> QED BY <1>1, Items DEF MarketInv, Sorted

Earlier(x) == {n \in DOMAIN quotes : quotes[n].at <= x}

\* The book in force at a time is the last of those earlier.
LEMMA InForceIs ==
  ASSUME MarketInv, NEW x \in Int
  PROVE  /\ Cardinality(Earlier(x)) \in 0..Len(quotes)
         /\ Earlier(x) = 1..Cardinality(Earlier(x))
         /\ LatestQuote(quotes, x) =
              IF Cardinality(Earlier(x)) = 0 THEN None ELSE quotes[Cardinality(Earlier(x))]
<1> DEFINE S == Earlier(x)
           c == Cardinality(S)
<1>1. /\ DOMAIN quotes = 1..Len(quotes) /\ Len(quotes) \in Nat
      /\ \A n \in DOMAIN quotes : quotes[n].at \in Nat
  BY QuoteItems
<1>2. S \in SUBSET (1..Len(quotes))
  BY <1>1 DEF Earlier
<1>3. \A i \in S : \A j \in 1..Len(quotes) : j <= i => j \in S
  BY <1>1, <1>2 DEF Earlier, MarketInv, Sorted
<1>4. c \in 0..Len(quotes) /\ S = 1..c
  BY <1>1, <1>2, <1>3, Beginning
<1>5. LatestQuote(quotes, x) =
        IF S = {} THEN None ELSE quotes[CHOOSE n \in S : \A m \in S : m <= n]
  BY DEF LatestQuote, Earlier
<1> HIDE DEF c, S
<1>6. S = {} <=> c = 0
  BY <1>4
<1>7. ASSUME c # 0 PROVE (CHOOSE n \in S : \A m \in S : m <= n) = c
  <2>1. c \in S /\ \A m \in S : m <= c
    BY <1>4, <1>7
  <2>2. \A n \in S : (\A m \in S : m <= n) => n = c
    BY <1>4, <2>1
  <2> QED BY <2>1, <2>2
<1> QED BY <1>4, <1>5, <1>6, <1>7 DEF c, S

InsideQuote(t, q, slack) == q.bid - slack <= t.price /\ t.price <= q.ask + slack

\* The pass over both lists finds just the trades that some book in force within the
\* tolerance explains.
LEMMA BookFound ==
  ASSUME MarketInv, NEW t \in TradeItem, NEW tolerance \in Nat, NEW slack
  PROVE  (\E n \in DOMAIN quotes :
            /\ n >= Cardinality(Earlier(t.at - tolerance))
            /\ n = Cardinality(Earlier(t.at - tolerance)) \/ quotes[n].at <= t.at + tolerance
            /\ InsideQuote(t, quotes[n], slack))
         <=> (\E moment \in (t.at - tolerance)..(t.at + tolerance) :
                /\ LatestQuote(quotes, moment) # None
                /\ InsideQuote(t, LatestQuote(quotes, moment), slack))
<1> DEFINE Fits(q) == InsideQuote(t, q, slack)
           Number(x) == Cardinality(Earlier(x))
           from == t.at - tolerance
           to == t.at + tolerance
<1>1. /\ DOMAIN quotes = 1..Len(quotes) /\ Len(quotes) \in Nat
      /\ \A n \in DOMAIN quotes : quotes[n].at \in Nat /\ quotes[n] # None
      /\ \A i, j \in DOMAIN quotes : i < j => quotes[i].at < quotes[j].at
  BY QuoteItems
<1>2. from \in Int /\ to \in Int /\ from <= to
  BY DEF TradeItem
<1>3. \A x \in Int : /\ Number(x) \in 0..Len(quotes)
                     /\ \A n \in DOMAIN quotes : quotes[n].at <= x <=> n <= Number(x)
                     /\ LatestQuote(quotes, x) = IF Number(x) = 0 THEN None ELSE quotes[Number(x)]
  <2> TAKE x \in Int
  <2>1. /\ Number(x) \in 0..Len(quotes) /\ Earlier(x) = 1..Number(x)
        /\ LatestQuote(quotes, x) = IF Number(x) = 0 THEN None ELSE quotes[Number(x)]
    BY InForceIs
  <2>2. \A n \in DOMAIN quotes : quotes[n].at <= x <=> n \in Earlier(x)
    BY DEF Earlier
  <2> HIDE DEF Number
  <2>3. \A n \in DOMAIN quotes : n \in Earlier(x) <=> n <= Number(x)
    BY <1>1, <2>1
  <2> QED BY <2>1, <2>2, <2>3
<1> HIDE DEF Number, from, to, Fits
<1>4. ASSUME NEW n \in DOMAIN quotes, n >= Number(from), n = Number(from) \/ quotes[n].at <= to,
             Fits(quotes[n])
      PROVE  \E moment \in from..to :
               LatestQuote(quotes, moment) # None /\ Fits(LatestQuote(quotes, moment))
  <2>1. CASE n = Number(from)
    <3>1. LatestQuote(quotes, from) = quotes[n]
      BY <1>1, <1>2, <1>3, <2>1
    <3> QED BY <1>1, <1>2, <1>4, <3>1
  <2>2. CASE n # Number(from)
    <3> DEFINE moment == quotes[n].at
    <3>1. moment \in from..to
      <4>1. ~(n <= Number(from)) /\ quotes[n].at \in Nat
        BY <1>1, <1>2, <1>3, <1>4, <2>2
      <4>2. ~(quotes[n].at <= from)
        BY <1>2, <1>3, <4>1
      <4> QED BY <1>2, <1>4, <2>2, <4>1, <4>2
    <3>2. Number(moment) = n
      <4>1. /\ moment \in Nat /\ Number(moment) \in 0..Len(quotes)
            /\ \A k \in DOMAIN quotes : quotes[k].at <= moment <=> k <= Number(moment)
        <5>1. moment \in Nat /\ moment \in Int
          BY <1>1
        <5> HIDE DEF moment
        <5> QED BY <1>3, <5>1
      <4>2. n <= Number(moment)
        <5>1. quotes[n].at <= moment
          BY <4>1
        <5> QED BY <4>1, <5>1
      <4>3. Number(moment) \in DOMAIN quotes
        BY <1>1, <4>1, <4>2
      <4>4. quotes[Number(moment)].at <= moment
        <5> HIDE DEF moment
        <5>1. Number(moment) <= Number(moment)
          BY <4>1
        <5> QED BY <4>1, <4>3, <5>1
      <4> QED BY <1>1, <4>1, <4>2, <4>3, <4>4
    <3>3. LatestQuote(quotes, moment) = quotes[n]
      <4>1. moment \in Int /\ n # 0
        BY <1>1
      <4>2. LatestQuote(quotes, moment) = IF Number(moment) = 0 THEN None ELSE quotes[Number(moment)]
        BY <1>3, <4>1
      <4> QED BY <3>2, <4>1, <4>2
    <3> QED BY <1>1, <1>4, <3>1, <3>3
  <2> QED BY <2>1, <2>2
<1>5. ASSUME NEW moment \in from..to,
             LatestQuote(quotes, moment) # None, Fits(LatestQuote(quotes, moment))
      PROVE  \E n \in DOMAIN quotes :
               n >= Number(from) /\ (n = Number(from) \/ quotes[n].at <= to) /\ Fits(quotes[n])
  <2> DEFINE n == Number(moment)
  <2>0. /\ moment \in Int /\ from <= moment /\ moment <= to
        /\ n \in 0..Len(quotes)
        /\ \A i \in DOMAIN quotes : quotes[i].at <= moment <=> i <= n
        /\ LatestQuote(quotes, moment) = IF n = 0 THEN None ELSE quotes[n]
    <3>1. moment \in Int /\ from <= moment /\ moment <= to
      BY <1>2
    <3> QED BY <1>3, <3>1
  <2> HIDE DEF n
  <2>1. n \in DOMAIN quotes /\ LatestQuote(quotes, moment) = quotes[n]
    BY <1>1, <1>5, <2>0
  <2>2. quotes[n].at <= moment /\ quotes[n].at <= to
    <3>1. quotes[n].at <= moment /\ quotes[n].at \in Nat
      BY <1>1, <2>0, <2>1
    <3> QED BY <1>2, <2>0, <3>1
  <2>3. n >= Number(from)
    <3>1. CASE Number(from) = 0
      BY <2>0, <3>1
    <3>2. CASE Number(from) # 0
      <4>1. Number(from) \in DOMAIN quotes /\ quotes[Number(from)].at <= from
        BY <1>1, <1>2, <1>3, <3>2
      <4>2. quotes[Number(from)].at <= moment
        BY <1>1, <1>2, <2>0, <4>1
      <4> QED BY <1>1, <2>0, <4>1, <4>2
    <3> QED BY <3>1, <3>2
  <2> QED BY <1>5, <2>1, <2>2, <2>3
<1> QED BY <1>4, <1>5 DEF Number, from, to, Fits

\* The trades a market's VWAP uses are those that some book in force within the
\* tolerance of the trade explains.
THEOREM TradesExplained == Spec => []InsideBook
<1>1. MarketInv => InsideBook
  <2> SUFFICES ASSUME MarketInv, NEW tolerance \in {0, 1}, NEW slack \in {0, 1}
               PROVE  TradesInsideBook(trades, quotes, tolerance, slack) =
                        Where(trades, LAMBDA t :
                          \E moment \in (t.at - tolerance)..(t.at + tolerance) :
                            LET q == LatestQuote(quotes, moment)
                            IN IF q = None THEN FALSE
                               ELSE q.bid - slack <= t.price /\ t.price <= q.ask + slack)
    BY DEF InsideBook
  <2> DEFINE Found(t) ==
               \E n \in DOMAIN quotes :
                 /\ n >= Cardinality(Earlier(t.at - tolerance))
                 /\ n = Cardinality(Earlier(t.at - tolerance)) \/ quotes[n].at <= t.at + tolerance
                 /\ quotes[n].bid - slack <= t.price /\ t.price <= quotes[n].ask + slack
             Explained(t) ==
               \E moment \in (t.at - tolerance)..(t.at + tolerance) :
                 LET q == LatestQuote(quotes, moment)
                 IN IF q = None THEN FALSE
                    ELSE q.bid - slack <= t.price /\ t.price <= q.ask + slack
  <2>1. ASSUME NEW n \in DOMAIN trades PROVE Found(trades[n]) <=> Explained(trades[n])
    <3> DEFINE t == trades[n]
               Fits(q) == InsideQuote(t, q, slack)
    <3>1. t \in TradeItem /\ tolerance \in Nat
      BY Items DEF MarketInv
    <3>2. (\E m \in DOMAIN quotes :
             /\ m >= Cardinality(Earlier(t.at - tolerance))
             /\ m = Cardinality(Earlier(t.at - tolerance)) \/ quotes[m].at <= t.at + tolerance
             /\ Fits(quotes[m]))
           <=> (\E moment \in (t.at - tolerance)..(t.at + tolerance) :
                  LatestQuote(quotes, moment) # None /\ Fits(LatestQuote(quotes, moment)))
      <4> HIDE DEF t
      <4> QED BY <3>1, BookFound
    <3> QED BY <3>2 DEF InsideQuote
  <2>2. TradesInsideBook(trades, quotes, tolerance, slack) =
          [n \in {m \in DOMAIN trades : Found(trades[m])} |-> trades[n]]
    BY DEF TradesInsideBook, Where, Earlier
  <2>3. {m \in DOMAIN trades : Found(trades[m])} = {m \in DOMAIN trades : Explained(trades[m])}
    BY <2>1
  <2> QED BY <2>2, <2>3 DEF Where
<1> QED BY <1>1, MarketInitial, MarketStep, PTL DEF Spec

-----------------------------------------------------------------------------
(* Configs and their signatures *)

ApprovalType ==
  /\ made \subseteq [index : Index, key : Key]
  /\ file \in FileType \cup {None}

\* Every signature of a bundle was made.
FromMade(bundle) == \A i \in DOMAIN bundle : [index |-> i, key |-> bundle[i]] \in made

\* Whatever the file holds was made by its signers.
ApprovalInv ==
  /\ ApprovalType
  /\ file # None =>
       /\ FromMade(file.signatures)
       /\ \A s \in DOMAIN file.approvals : FromMade(file.approvals[s])

\* A merged bundle holds signatures that were made.
LEMMA BundleMade ==
  ASSUME ApprovalType, NEW part \in SUBSET made
  PROVE  Bundle(part) \in BundleType /\ FromMade(Bundle(part))
<1> DEFINE Signed == {a.index : a \in part}
<1>1. ASSUME NEW i \in Signed
      PROVE  /\ (CHOOSE a \in part : a.index = i) \in part
             /\ (CHOOSE a \in part : a.index = i).index = i
  OBVIOUS
<1>2. Signed \subseteq Index
  BY DEF ApprovalType
<1>3. \A a \in part : a.key \in Key /\ a = [index |-> a.index, key |-> a.key]
  BY DEF ApprovalType
<1>4. Bundle(part) \in [Signed -> Key]
  BY <1>1, <1>3 DEF Bundle
<1>5. ASSUME NEW i \in Signed PROVE [index |-> i, key |-> Bundle(part)[i]] \in made
  <2>1. Bundle(part)[i] = (CHOOSE a \in part : a.index = i).key
    BY DEF Bundle
  <2> QED BY <2>1, <1>1, <1>3
<1>6. DOMAIN Bundle(part) = Signed
  BY DEF Bundle
<1>7. Bundle(part) \in BundleType
  BY <1>2, <1>4 DEF BundleType
<1> QED BY <1>5, <1>6, <1>7 DEF FromMade

LEMMA WithApprovalIs ==
  ASSUME NEW f \in FileType, NEW s \in SetIndex, NEW bundle \in BundleType
  PROVE  /\ WithApproval(f, s, bundle) \in FileType
         /\ WithApproval(f, s, bundle).signatures = f.signatures
         /\ DOMAIN WithApproval(f, s, bundle).approvals = DOMAIN f.approvals \cup {s}
         /\ \A t \in DOMAIN f.approvals \cup {s} :
              WithApproval(f, s, bundle).approvals[t] = IF t = s THEN bundle ELSE f.approvals[t]
<1> DEFINE more == [t \in DOMAIN f.approvals \cup {s} |-> IF t = s THEN bundle ELSE f.approvals[t]]
           ApprovalsType == UNION {[ss -> BundleType] : ss \in SUBSET SetIndex}
<1>1. /\ WithApproval(f, s, bundle) = [f EXCEPT !.approvals = more]
  BY DEF WithApproval, FileType
<1>2. PICK ss \in SUBSET SetIndex : f.approvals \in [ss -> BundleType]
  BY DEF FileType
<1>3. more \in [ss \cup {s} -> BundleType] /\ ss \cup {s} \in SUBSET SetIndex
  BY <1>2
<1>4. more \in ApprovalsType
  BY <1>3
<1> HIDE DEF more
<1>5. /\ [f EXCEPT !.approvals = more] \in FileType
      /\ [f EXCEPT !.approvals = more].signatures = f.signatures
      /\ [f EXCEPT !.approvals = more].approvals = more
  BY <1>4 DEF FileType
<1> QED BY <1>1, <1>5 DEF more

LEMMA ApprovalInitial == ApprovalInit => ApprovalInv
BY DEF ApprovalInit, ApprovalInv, ApprovalType

LEMMA SignedType ==
  ASSUME NEW s \in SetIndex, NEW i \in DOMAIN KeySets[s], NEW k \in Key, ApprovalType
  PROVE  made \cup {[index |-> i, key |-> k]} \subseteq [index : Index, key : Key]
<1>1. i \in Index
  BY DEF Index
<1> QED BY <1>1 DEF ApprovalType

LEMMA SetKeys ==
  ASSUME NEW s \in SetIndex
  PROVE  KeySets[s] \in Seq(Key) /\ \A i \in DOMAIN KeySets[s] : KeySets[s][i] \in Key
<1>1. KeySets[s] \in Seq(Key)
  BY ConfigApprovalAssumption DEF SetIndex
<1> QED BY <1>1

LEMMA ApprovalNextInv == ApprovalInv /\ [ApprovalNext]_approvalVars => ApprovalInv'
<1> SUFFICES ASSUME ApprovalInv, [ApprovalNext]_approvalVars PROVE ApprovalInv'
  OBVIOUS
<1>1. ASSUME made \subseteq made', made' \subseteq [index : Index, key : Key], file' = file
      PROVE  ApprovalInv'
  BY <1>1 DEF ApprovalInv, ApprovalType, FromMade
<1>2. CASE SignConfig
  <2>1. PICK s \in SetIndex : \E i \in DOMAIN KeySets[s] :
          made' = made \cup {[index |-> i, key |-> KeySets[s][i]]} /\ file' = file
    BY <1>2 DEF SignConfig
  <2> QED BY <1>1, <2>1, SetKeys, SignedType DEF ApprovalInv
<1>3. CASE SignAnyway
  <2>1. PICK k \in Liar, s \in SetIndex : \E i \in DOMAIN KeySets[s] :
          made' = made \cup {[index |-> i, key |-> k]} /\ file' = file
    BY <1>3 DEF SignAnyway
  <2>2. k \in Key
    BY ConfigApprovalAssumption
  <2> QED BY <1>1, <2>1, <2>2, SignedType DEF ApprovalInv
<1>4. CASE WriteFile
  <2>1. PICK part \in SUBSET made :
          file' = [signatures |-> Bundle(part), approvals |-> <<>>] /\ made' = made
    BY <1>4 DEF WriteFile
  <2>2. Bundle(part) \in BundleType /\ FromMade(Bundle(part))
    BY BundleMade DEF ApprovalInv
  <2>3. <<>> \in [{} -> BundleType] /\ {} \in SUBSET SetIndex
    OBVIOUS
  <2>4. <<>> \in UNION {[ss -> BundleType] : ss \in SUBSET SetIndex}
    BY <2>3
  <2>5. file' \in FileType
    BY <2>1, <2>2, <2>4 DEF FileType
  <2>6. file'.signatures = Bundle(part) /\ DOMAIN file'.approvals = {}
    BY <2>1
  <2> QED BY <2>1, <2>2, <2>5, <2>6 DEF ApprovalInv, ApprovalType, FromMade
<1>5. CASE AddApproval
  <2>1. PICK s \in SetIndex, part \in SUBSET made :
          /\ file # None
          /\ file' = WithApproval(file, s, Bundle(part)) /\ made' = made
    BY <1>5 DEF AddApproval
  <2>2. Bundle(part) \in BundleType /\ FromMade(Bundle(part)) /\ file \in FileType
    BY <2>1, BundleMade DEF ApprovalInv, ApprovalType
  <2>3. /\ file' \in FileType
        /\ file'.signatures = file.signatures
        /\ DOMAIN file'.approvals = DOMAIN file.approvals \cup {s}
        /\ \A t \in DOMAIN file.approvals \cup {s} :
              file'.approvals[t] = IF t = s THEN Bundle(part) ELSE file.approvals[t]
    BY <2>1, <2>2, WithApprovalIs
  <2>4. FromMade(file.signatures) /\ \A t \in DOMAIN file.approvals : FromMade(file.approvals[t])
    BY <2>1 DEF ApprovalInv
  <2>5. \A t \in DOMAIN file'.approvals : FromMade(file'.approvals[t])
    BY <2>2, <2>3, <2>4
  <2> QED BY <2>1, <2>3, <2>4, <2>5 DEF ApprovalInv, ApprovalType, FromMade
<1>6. CASE UNCHANGED approvalVars
  BY <1>6 DEF ApprovalInv, ApprovalType, FromMade, approvalVars
<1> QED BY <1>2, <1>3, <1>4, <1>5, <1>6 DEF ApprovalNext

\* Every signature verifyThreshold counts is of another member of the set.
LEMMA ThresholdSigned ==
  ASSUME ApprovalType, NEW bundle, FromMade(bundle), NEW s \in SetIndex, VerifyThreshold(bundle, s)
  PROVE  Cardinality({k \in Member(s) : \E a \in made : a.key = k}) >= SetQuorum(s)
<1> DEFINE D == DOMAIN bundle
           K == {k \in Member(s) : \E a \in made : a.key = k}
           signer == [i \in D |-> KeySets[s][i]]
<1>1. /\ KeySets[s] \in Seq(Key) /\ D \subseteq DOMAIN KeySets[s]
      /\ \A i \in D : KeySets[s][i] = bundle[i]
      /\ Cardinality(D) >= SetQuorum(s) /\ SetQuorum(s) \in Nat
  <2>1. KeySets[s] \in Seq(Key)
    BY SetKeys
  <2>2. Len(KeySets[s]) \in Nat /\ SetQuorum(s) \in Nat
    <3>1. Len(KeySets[s]) \in Nat
      BY <2>1
    <3>2. \A n \in Nat : (2 * n) \div 3 + 1 \in Nat
      OBVIOUS
    <3> QED BY <3>1, <3>2 DEF SetQuorum
  <2>3. /\ Cardinality(D) \in SetQuorum(s)..Len(KeySets[s])
        /\ \A i \in D : i \in DOMAIN KeySets[s] /\ KeySets[s][i] = bundle[i]
    BY DEF VerifyThreshold
  <2>4. Cardinality(D) >= SetQuorum(s)
    BY <2>2, <2>3
  <2> QED BY <2>1, <2>2, <2>3, <2>4
<1>2. IsFiniteSet(DOMAIN KeySets[s])
  BY <1>1, FS_Interval
<1>3. IsFiniteSet(D) /\ IsFiniteSet(Member(s))
  <2>1. IsFiniteSet(D)
    BY <1>1, <1>2, FS_Subset
  <2>2. Member(s) = {KeySets[s][i] : i \in DOMAIN KeySets[s]}
    BY DEF Member
  <2>3. IsFiniteSet({KeySets[s][i] : i \in DOMAIN KeySets[s]})
    <3> DEFINE g == [i \in DOMAIN KeySets[s] |-> KeySets[s][i]]
    <3>1. g \in Surjection(DOMAIN KeySets[s], {KeySets[s][i] : i \in DOMAIN KeySets[s]})
      BY DEF Surjection
    <3> QED BY <1>2, <3>1, FS_Surjection DEF ExistsSurjection
  <2> QED BY <2>1, <2>2, <2>3
<1>4. IsFiniteSet(K)
  BY <1>3, FS_Subset
<1>5. ASSUME NEW i \in D PROVE KeySets[s][i] \in K
  <2>1. KeySets[s][i] \in Member(s)
    BY <1>1 DEF Member
  <2>2. [index |-> i, key |-> bundle[i]] \in made
    BY DEF FromMade
  <2> QED BY <1>1, <2>1, <2>2
<1>6. signer \in Injection(D, K)
  <2>1. \A i, j \in D : KeySets[s][i] = KeySets[s][j] => i = j
    BY <1>1, ConfigApprovalAssumption DEF SetIndex
  <2> QED BY <1>5, <2>1 DEF Injection, IsInjective
<1>7. Cardinality(D) <= Cardinality(K)
  BY <1>3, <1>4, <1>6, FS_Injection DEF ExistsInjection
<1>8. Cardinality(D) \in Nat /\ Cardinality(K) \in Nat
  BY <1>3, <1>4, FS_CardinalityType
<1> HIDE DEF D, K
<1>9. Cardinality(K) >= SetQuorum(s)
  BY <1>1, <1>7, <1>8
<1> QED BY <1>9 DEF K

\* Whichever key set accepts a config, a quorum of that very set signed it.
THEOREM QuorumSigned == ApprovalSpec => []QuorumOfSet
<1>1. ApprovalInv => QuorumOfSet
  <2> SUFFICES ASSUME ApprovalInv, NEW s \in SetIndex, Accepted(file, s)
               PROVE  Cardinality({k \in Member(s) : \E a \in made : a.key = k}) >= SetQuorum(s)
    BY DEF QuorumOfSet
  <2>1. file # None /\ VerifyThreshold(ApprovalFor(file, s), s)
    BY DEF Accepted
  <2>2. FromMade(ApprovalFor(file, s))
    BY <2>1 DEF ApprovalInv, ApprovalFor
  <2> QED BY <2>1, <2>2, ThresholdSigned DEF ApprovalInv
<1> QED BY <1>1, ApprovalInitial, ApprovalNextInv, PTL DEF ApprovalSpec

\* A set that accepts the file goes on accepting it, whatever is added to the file.
THEOREM ApprovalStays == ApprovalSpec => ApprovalKept
<1>1. ApprovalInv /\ [ApprovalNext]_approvalVars =>
        [\A s \in SetIndex : Accepted(file, s) => Accepted(file', s)]_approvalVars
  <2> SUFFICES ASSUME ApprovalInv, ApprovalNext, NEW s \in SetIndex, Accepted(file, s)
               PROVE  Accepted(file', s)
    OBVIOUS
  <2>1. file \in FileType /\ file # None
    BY DEF Accepted, ApprovalInv, ApprovalType
  <2>2. CASE file' = file
    BY <2>2
  <2>3. CASE AddApproval
    <3>1. PICK t \in SetIndex, part \in SUBSET made :
            /\ VerifyThreshold(Bundle(part), t)
            /\ file' = WithApproval(file, t, Bundle(part))
      BY <2>3 DEF AddApproval
    <3>2. Bundle(part) \in BundleType
      BY BundleMade DEF ApprovalInv
    <3>3. /\ file' \in FileType
          /\ file'.signatures = file.signatures
          /\ DOMAIN file'.approvals = DOMAIN file.approvals \cup {t}
          /\ \A u \in DOMAIN file.approvals \cup {t} :
                file'.approvals[u] = IF u = t THEN Bundle(part) ELSE file.approvals[u]
      BY <2>1, <3>1, <3>2, WithApprovalIs
    <3>4. ApprovalFor(file', s) = IF s = t THEN Bundle(part) ELSE ApprovalFor(file, s)
      BY <3>3 DEF ApprovalFor
    <3>5. file' # None
      BY <3>3, NoFileAssumption
    <3> QED BY <3>1, <3>4, <3>5 DEF Accepted
  <2> QED BY <2>1, <2>2, <2>3 DEF ApprovalNext, SignConfig, SignAnyway, WriteFile
<1> QED BY <1>1, ApprovalInitial, ApprovalNextInv, PTL DEF ApprovalSpec, ApprovalKept
=============================================================================
