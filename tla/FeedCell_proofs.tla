-------------------------- MODULE FeedCell_proofs --------------------------
(***************************************************************************)
(* What feed cells hold, what consumers accept and what the SDK builds, for*)
(* any committees, feed cells and transactions.                            *)
(***************************************************************************)
EXTENDS FeedClient, Governance_proofs, WellFoundedInduction

-----------------------------------------------------------------------------
(* The leader of a transaction *)

\* A non-empty set of numbers has a least one.
LEMMA Least ==
  ASSUME NEW S \in SUBSET Nat, S # {}
  PROVE  \E i \in S : \A j \in S : ~(j < i)
<1>1. IsWellFoundedOn(OpToRel(<, Nat), Nat)
  BY NatLessThanWellFounded
<1>2. \E i \in S : \A j \in S : <<j, i>> \notin OpToRel(<, Nat)
  BY <1>1, WFMin
<1> QED
  BY <1>2 DEF OpToRel

\* The leader of a continuing cell is a continuing cell of the same group.
LEMMA LeaderMoved ==
  ASSUME NEW s \in Inputs, NEW moved, NEW x \in moved, \E i \in DOMAIN s : s[i] = x,
         NEW g, Group(x) = g
  PROVE  /\ LeaderOf(s, moved, g) \in DOMAIN s
         /\ s[LeaderOf(s, moved, g)] \in moved
         /\ Group(s[LeaderOf(s, moved, g)]) = g
<1> DEFINE S == {i \in DOMAIN s : Group(s[i]) = g /\ s[i] \in moved}
<1>1. DOMAIN s \subseteq Nat
  BY DEF Inputs
<1>2. S # {} /\ S \subseteq Nat
  BY <1>1
<1>3. PICK i \in S : \A j \in S : ~(j < i)
  BY <1>2, Least
<1>4. \E k \in DOMAIN s :
        /\ Group(s[k]) = g /\ s[k] \in moved
        /\ \A j \in DOMAIN s : j < k => Group(s[j]) # g \/ s[j] \notin moved
  BY <1>3
<1> QED
  BY <1>4 DEF LeaderOf

\* The transaction that spends some cells and moves some of them with updates that
\* verify.
Verified(spent, moved, update) ==
  /\ spent \subseteq Live
  /\ moved \subseteq spent
  /\ \A x \in moved : /\ update[x].time > feed[x].time
                      /\ VerifyHeader(update[x], feed[x].committee)
  /\ feed' = [x \in Feed |->
       IF x \notin spent THEN feed[x]
       ELSE IF x \notin moved THEN None
       ELSE [committee |-> feed[x].committee, set |-> update[x].set, time |-> update[x].time]]
  /\ basis' = [x \in Feed |->
       IF x \notin moved THEN basis[x]
       ELSE [signed |-> update[x].signed, nonce |-> cell[feed[x].committee].nonce]]
  /\ burned' = burned \cup (spent \ moved)
  /\ UNCHANGED <<now, governance, typed>>

\* Every cell a transaction moves takes an update that verifies for its committee,
\* though only the leader's script verified it.
LEMMA SharedVerification ==
  ASSUME TypeOK, Move
  PROVE  \E spent \in SUBSET Feed, moved \in SUBSET Feed :
           \E update \in [moved -> Update] : Verified(spent, moved, update)
<1>1. PICK s \in Inputs :
        LET spent == {s[i] : i \in DOMAIN s}
        IN /\ spent \subseteq Live
           /\ \E moved \in SUBSET spent :
                LET leader == [x \in moved |-> LeaderOf(s, moved, Group(x))]
                IN \E witness \in [{leader[x] : x \in moved} -> Update] :
                     LET update == [x \in moved |-> witness[leader[x]]]
                     IN /\ \A x \in moved : Accepts(x, update[x], s[leader[x]] = x)
                        /\ feed' = [x \in Feed |->
                             IF x \notin spent THEN feed[x]
                             ELSE IF x \notin moved THEN None
                             ELSE [committee |-> feed[x].committee, set |-> update[x].set,
                                   time |-> update[x].time]]
                        /\ basis' = [x \in Feed |->
                             IF x \notin moved THEN basis[x]
                             ELSE [signed |-> update[x].signed,
                                   nonce |-> cell[feed[x].committee].nonce]]
                /\ burned' = burned \cup (spent \ moved)
           /\ UNCHANGED <<now, governance, typed>>
  BY DEF Move
<1> DEFINE spent == {s[i] : i \in DOMAIN s}
<1>2. PICK moved \in SUBSET spent :
        LET leader == [x \in moved |-> LeaderOf(s, moved, Group(x))]
        IN /\ \E witness \in [{leader[x] : x \in moved} -> Update] :
                LET update == [x \in moved |-> witness[leader[x]]]
                IN /\ \A x \in moved : Accepts(x, update[x], s[leader[x]] = x)
                   /\ feed' = [x \in Feed |->
                        IF x \notin spent THEN feed[x]
                        ELSE IF x \notin moved THEN None
                        ELSE [committee |-> feed[x].committee, set |-> update[x].set,
                              time |-> update[x].time]]
                   /\ basis' = [x \in Feed |->
                        IF x \notin moved THEN basis[x]
                        ELSE [signed |-> update[x].signed,
                              nonce |-> cell[feed[x].committee].nonce]]
           /\ burned' = burned \cup (spent \ moved)
  BY <1>1
<1> DEFINE leader == [x \in moved |-> LeaderOf(s, moved, Group(x))]
<1>3. PICK witness \in [{leader[x] : x \in moved} -> Update] :
        LET update == [x \in moved |-> witness[leader[x]]]
        IN /\ \A x \in moved : Accepts(x, update[x], s[leader[x]] = x)
           /\ feed' = [x \in Feed |->
                IF x \notin spent THEN feed[x]
                ELSE IF x \notin moved THEN None
                ELSE [committee |-> feed[x].committee, set |-> update[x].set,
                      time |-> update[x].time]]
           /\ basis' = [x \in Feed |->
                IF x \notin moved THEN basis[x]
                ELSE [signed |-> update[x].signed, nonce |-> cell[feed[x].committee].nonce]]
  BY <1>2
<1> DEFINE update == [x \in moved |-> witness[leader[x]]]
<1>4. update \in [moved -> Update]
  OBVIOUS
<1>5. ASSUME NEW x \in moved
      PROVE  update[x].time > feed[x].time /\ VerifyHeader(update[x], feed[x].committee)
  <2> DEFINE c == feed[x].committee
             g == Group(x)
             y == s[LeaderOf(s, moved, g)]
  <2>1. \E i \in DOMAIN s : s[i] = x
    OBVIOUS
  <2>2. y \in moved /\ Group(y) = g /\ feed[y].committee = c
    <3>1. y \in moved /\ Group(y) = g
      BY <2>1, LeaderMoved
    <3> HIDE DEF y
    <3> QED
      BY <3>1 DEF Group
  <2>3. leader[x] = LeaderOf(s, moved, g) /\ leader[y] = LeaderOf(s, moved, g)
    BY <2>2
  <2>4. update[y] = update[x] /\ s[leader[y]] = y
    <3>1. update[x] = witness[leader[x]]
      OBVIOUS
    <3>2. update[y] = witness[leader[y]]
      BY <2>2
    <3> HIDE DEF update, leader
    <3> QED
      BY <2>3, <3>1, <3>2
  <2>5. Accepts(y, update[y], TRUE)
    <3>1. \A z \in moved : Accepts(z, update[z], s[leader[z]] = z)
      BY <1>3, Zenon
    <3> HIDE DEF update, leader, y
    <3> QED
      BY <2>2, <2>4, <3>1
  <2>6. VerifyHeader(update[x], c)
    BY <2>2, <2>4, <2>5 DEF Accepts
  <2>7. update[x].time > feed[x].time
    BY <1>3 DEF Accepts
  <2> QED
    BY <2>6, <2>7
<1>6. spent \in SUBSET Live /\ UNCHANGED <<now, governance, typed>>
  BY <1>1
<1>7. feed' = [x \in Feed |->
        IF x \notin spent THEN feed[x]
        ELSE IF x \notin moved THEN None
        ELSE [committee |-> feed[x].committee, set |-> update[x].set, time |-> update[x].time]]
      /\ basis' = [x \in Feed |->
        IF x \notin moved THEN basis[x]
        ELSE [signed |-> update[x].signed, nonce |-> cell[feed[x].committee].nonce]]
  BY <1>3
<1>8. burned' = burned \cup (spent \ moved)
  BY <1>2
<1>9. Verified(spent, moved, update)
  <2> HIDE DEF spent, leader, update
  <2> QED
    BY <1>5, <1>6, <1>7, <1>8 DEF Verified
<1> QED
  BY <1>4, <1>6, <1>9 DEF Live

-----------------------------------------------------------------------------
(* Rotations in the log *)

\* As long as the set a rotation made is current, the previous set's bound is the
\* rotation's, or the previous set is revoked.
SwitchSound(c) ==
  \A i \in 1..Len(log[c]) :
    LET e == log[c][i]
    IN e.op = "rotate" =>
         /\ e.next.index = e.old.index + 1
         /\ e.next.until <= e.at + MaxUntilAhead
         /\ cell[c].index = e.next.index => cell[c].until \in {0, e.next.until}

LEMMA FeedsApart == Next => [GovernanceNext]_govern
BY DEF Next, GovernanceNext, Create, Move, govern

LEMMA SwitchStep ==
  ASSUME GovernanceInv, GovernanceTypeOK', [GovernanceNext]_govern, NEW c \in Committee, SwitchSound(c)
  PROVE  SwitchSound(c)'
<1>1. CASE UNCHANGED governance
  BY <1>1 DEF SwitchSound, governance
<1>2. ASSUME NEW d \in Governing, Govern(d), d # c
      PROVE  SwitchSound(c)'
  <2>1. log'[c] = log[c]
    BY <1>2 DEF Govern, GovernanceInv, GovernanceTypeOK
  <2>2. cell'[c] = cell[c]
    BY <1>2 DEF Govern, GovernanceInv, GovernanceTypeOK
  <2> QED
    BY <2>1, <2>2 DEF SwitchSound
<1>3. CASE Govern(c)
  <2> DEFINE n == Len(log[c])
  <2>1. PICK op \in Operation, next \in PublisherSetData :
          /\ CheckTransition(cell[c], next, op)
          /\ op = "rotate" => Mature(c) /\ next.until <= now + MaxUntilAhead
          /\ cell' = [cell EXCEPT ![c] = next]
          /\ Len(log'[c]) = n + 1
          /\ \A i \in 1..n : log'[c][i] = log[c][i]
          /\ log'[c][n + 1] = [op |-> op, old |-> cell[c], next |-> next, at |-> now]
    BY <1>3, GovernLog DEF GovernanceInv
  <2>2. cell'[c] = next /\ cell[c] \in PublisherSetData /\ n \in Nat
    BY <2>1 DEF GovernanceInv, GovernanceTypeOK
  <2>3. /\ cell[c].index \in Nat /\ cell[c].until \in Nat
        /\ next.index \in Nat /\ next.until \in Nat
    BY <2>2, DataType
  <2>4. ASSUME NEW i \in 1..n, log[c][i].op = "rotate"
        PROVE  /\ log[c][i].next.index = log[c][i].old.index + 1
               /\ log[c][i].next.until <= log[c][i].at + MaxUntilAhead
               /\ next.index = log[c][i].next.index => next.until \in {0, log[c][i].next.until}
    <3>1. /\ log[c][i].next.index = log[c][i].old.index + 1
          /\ log[c][i].next.until <= log[c][i].at + MaxUntilAhead
          /\ cell[c].index = log[c][i].next.index => cell[c].until \in {0, log[c][i].next.until}
      BY <2>4 DEF SwitchSound
    <3>2. log[c][i].next.index <= cell[c].index /\ log[c][i].next.index \in Nat
      <4>1. log[c] \in Seq(LogEntry)
        BY DEF GovernanceInv, GovernanceTypeOK
      <4>2. log[c][i] \in LogEntry
        BY <4>1
      <4>3. log[c][i].next \in PublisherSetData
        BY <4>2 DEF LogEntry
      <4> QED
        BY <4>3, DataType DEF GovernanceInv, LogSound
    <3>3. CASE next.index = cell[c].index
      <4>1. next.until \in {0, cell[c].until}
        BY <2>1, <2>3, <3>3 DEF CheckTransition, NextSet, SameSets
      <4> QED
        BY <3>1, <3>3, <4>1
    <3>4. CASE next.index # cell[c].index
      <4>1. next.index = cell[c].index + 1
        BY <2>1, <2>3, <3>4 DEF CheckTransition, NextSet, SameSets
      <4> QED
        BY <2>3, <3>1, <3>2, <4>1
    <3> QED
      BY <3>3, <3>4
  <2>5. op = "rotate" => next.index = cell[c].index + 1 /\ next.until <= now + MaxUntilAhead
    BY <2>1 DEF CheckTransition, NextSet
  <2>6. ASSUME NEW i \in 1..n + 1, log'[c][i].op = "rotate"
        PROVE  /\ log'[c][i].next.index = log'[c][i].old.index + 1
               /\ log'[c][i].next.until <= log'[c][i].at + MaxUntilAhead
               /\ next.index = log'[c][i].next.index => next.until \in {0, log'[c][i].next.until}
    <3>1. CASE i \in 1..n
      BY <2>1, <2>4, <2>6, <3>1
    <3>2. CASE i = n + 1
      BY <2>1, <2>5, <2>6, <3>2
    <3> QED
      BY <2>2, <3>1, <3>2
  <2> QED
    BY <2>1, <2>2, <2>6 DEF SwitchSound
<1> QED
  BY <1>1, <1>2, <1>3, CommitteeCellAssumption DEF GovernanceNext, Block, govern, governance

-----------------------------------------------------------------------------
(* The invariant *)

\* Price f, verified on basis b, of a feed cell whose committee cell is d after the
\* operations lg: PricesAuthentic and RetiredBounded for one cell.
PriceSound(lg, d, f, b) ==
  f.time # 0 =>
    /\ b.nonce <= Len(lg)
    /\ b.signed
    /\ LET then == IF b.nonce = Len(lg) THEN d ELSE lg[b.nonce + 1].old
       IN ~then.paused /\ SetFor(then, f.set, f.time)
    /\ \A i \in 1..Len(lg) :
         lg[i].op = "rotate" /\ f.set = lg[i].old.index /\ b.nonce >= i
         => f.time < lg[i].next.until /\ f.time < lg[i].at + MaxUntilAhead

PricesSound ==
  \A x \in Live : PriceSound(log[feed[x].committee], cell[feed[x].committee], feed[x], basis[x])

FeedInv ==
  /\ TypeOK
  /\ GovernanceInv
  /\ \A c \in Committee : SwitchSound(c)
  /\ Live \cap burned = {}
  /\ PricesSound

\* Feed cells as typed records.
LEMMA LiveType ==
  ASSUME TypeOK, NEW x \in Live
  PROVE  /\ feed[x] \in PriceFeedData /\ feed[x].committee \in Committee
         /\ feed[x].set \in Nat /\ feed[x].time \in Nat
         /\ basis[x].nonce \in Nat
BY CommitteeCellAssumption DEF TypeOK, Live, PriceFeedData, Index

LEMMA FeedInitial == Init => FeedInv
<1> SUFFICES ASSUME Init PROVE FeedInv
  OBVIOUS
<1>1. GovernanceInv
  BY GovernanceInitial DEF Init
<1>2. Live = {}
  BY DEF Init, Live
<1>3. TypeOK
  BY <1>1, CommitteeCellAssumption DEF Init, TypeOK, GovernanceInv, Index
<1>4. \A c \in Committee : SwitchSound(c)
  <2>1. \A c \in Committee : log[c] = <<>>
    BY DEF Init, GovernanceInit
  <2> QED
    BY <2>1 DEF SwitchSound
<1> QED
  BY <1>1, <1>2, <1>3, <1>4 DEF FeedInv, PricesSound

LEMMA FeedTypeStep ==
  ASSUME TypeOK, Next, GovernanceTypeOK'
  PROVE  TypeOK'
<1>1. CASE UNCHANGED feeds
  BY <1>1 DEF TypeOK, feeds
<1>2. ASSUME NEW x \in Feed, Create(x)
      PROVE  TypeOK'
  <2>1. PICK c \in Committee : feed' = [feed EXCEPT ![x] = [committee |-> c, set |-> 0, time |-> 0]]
    BY <1>2 DEF Create
  <2>2. [committee |-> c, set |-> 0, time |-> 0] \in PriceFeedData
    BY CommitteeCellAssumption DEF PriceFeedData, Index
  <2> QED
    BY <1>2, <2>1, <2>2 DEF Create, TypeOK
<1>3. CASE Move
  <2>1. PICK spent \in SUBSET Feed, moved \in SUBSET Feed :
          \E update \in [moved -> Update] : Verified(spent, moved, update)
    BY <1>3, SharedVerification
  <2> PICK update \in [moved -> Update] : Verified(spent, moved, update)
    BY <2>1
  <2>2. \A x \in moved :
          /\ [committee |-> feed[x].committee, set |-> update[x].set, time |-> update[x].time] \in PriceFeedData
          /\ [signed |-> update[x].signed, nonce |-> cell[feed[x].committee].nonce] \in [signed : BOOLEAN, nonce : Index]
    <3> TAKE x \in moved
    <3>1. feed[x].committee \in Committee
      BY LiveType DEF Verified
    <3>2. update[x].set \in Index /\ update[x].time \in 0..MaxTime /\ update[x].signed \in BOOLEAN
      BY CommitteeCellAssumption DEF Update
    <3>3. cell[feed[x].committee].nonce \in Index
      BY <3>1 DEF TypeOK, GovernanceTypeOK, PublisherSetData
    <3> QED
      BY <3>1, <3>2, <3>3 DEF PriceFeedData
  <2>3. feed' \in [Feed -> PriceFeedData \cup {None}]
    BY <2>2 DEF TypeOK, Verified
  <2>4. basis' \in [Feed -> [signed : BOOLEAN, nonce : Index]]
    BY <2>2 DEF TypeOK, Verified
  <2> QED
    BY <2>3, <2>4 DEF TypeOK, Live, Verified
<1> QED
  BY <1>1, <1>2, <1>3 DEF Next

-----------------------------------------------------------------------------
(* Governance and the prices already stored *)

\* The log of a committee only grows, and the cell it had is in it.
LEMMA PastKept ==
  ASSUME GovernanceInv, [GovernanceNext]_govern, NEW c \in Committee
  PROVE  /\ Len(log[c]) \in Nat
         /\ \/ log'[c] = log[c] /\ cell'[c] = cell[c]
            \/ /\ Len(log'[c]) = Len(log[c]) + 1
               /\ \A i \in 1..Len(log[c]) : log'[c][i] = log[c][i]
               /\ log'[c][Len(log[c]) + 1].old = cell[c]
<1>1. Len(log[c]) \in Nat
  BY DEF GovernanceInv, GovernanceTypeOK
<1>2. CASE Govern(c)
  <2>1. PICK op \in Operation, next \in PublisherSetData :
          /\ Len(log'[c]) = Len(log[c]) + 1
          /\ \A i \in 1..Len(log[c]) : log'[c][i] = log[c][i]
          /\ log'[c][Len(log[c]) + 1] = [op |-> op, old |-> cell[c], next |-> next, at |-> now]
    BY <1>2, GovernLog DEF GovernanceInv
  <2> QED
    BY <1>1, <2>1
<1>3. ASSUME NEW d \in Governing, Govern(d), d # c
      PROVE  log'[c] = log[c] /\ cell'[c] = cell[c]
  BY <1>3 DEF Govern, GovernanceInv, GovernanceTypeOK
<1>4. CASE UNCHANGED governance
  BY <1>1, <1>4 DEF governance
<1>5. CASE GovernanceNext
  <2>1. CASE Block
    BY <1>4, <2>1 DEF Block
  <2>2. CASE \E d \in Governing : Govern(d)
    BY <1>1, <1>2, <1>3, <2>2
  <2> QED
    BY <1>5, <2>1, <2>2 DEF GovernanceNext
<1>6. CASE UNCHANGED govern
  BY <1>4, <1>6 DEF govern
<1> QED
  BY <1>5, <1>6

\* A sound price stays sound whatever the committee does.
LEMMA PriceKept ==
  ASSUME GovernanceInv, [GovernanceNext]_govern, NEW c \in Committee,
         NEW f, NEW b, b.nonce \in Nat, PriceSound(log[c], cell[c], f, b)
  PROVE  PriceSound(log'[c], cell'[c], f, b)
<1> SUFFICES ASSUME f.time # 0
             PROVE  PriceSound(log'[c], cell'[c], f, b)
  BY DEF PriceSound
<1> DEFINE n == Len(log[c])
<1>1. n \in Nat /\ b.nonce <= n
  BY PastKept DEF PriceSound
<1>2. CASE log'[c] = log[c] /\ cell'[c] = cell[c]
  BY <1>2
<1>3. CASE /\ Len(log'[c]) = n + 1
           /\ \A i \in 1..n : log'[c][i] = log[c][i]
           /\ log'[c][n + 1].old = cell[c]
  <2> DEFINE before == IF b.nonce = n THEN cell[c] ELSE log[c][b.nonce + 1].old
             after == IF b.nonce = n + 1 THEN cell'[c] ELSE log'[c][b.nonce + 1].old
  <2>1. after = before
    <3>1. CASE b.nonce = n
      BY <1>1, <1>3, <3>1
    <3>2. CASE b.nonce # n
      <4>1. b.nonce + 1 \in 1..n /\ b.nonce # n + 1
        BY <1>1, <3>2
      <4> QED
        BY <1>3, <3>2, <4>1
    <3> QED
      BY <3>1, <3>2
  <2>2. b.signed /\ ~after.paused /\ SetFor(after, f.set, f.time)
    BY <2>1 DEF PriceSound
  <2>3. b.nonce <= n + 1
    BY <1>1
  <2>4. ASSUME NEW i \in 1..n + 1, log'[c][i].op = "rotate",
               f.set = log'[c][i].old.index, b.nonce >= i
        PROVE  f.time < log'[c][i].next.until /\ f.time < log'[c][i].at + MaxUntilAhead
    <3>1. i \in 1..n
      BY <1>1, <2>4
    <3> QED
      BY <1>3, <2>4, <3>1 DEF PriceSound
  <2> QED
    BY <1>3, <2>2, <2>3, <2>4 DEF PriceSound
<1> QED
  BY <1>2, <1>3, PastKept

\* A price that verifies is sound.
LEMMA PriceMoved ==
  ASSUME GovernanceInv, NEW c \in Committee, SwitchSound(c),
         NEW u \in Update, VerifyHeader(u, c)
  PROVE  PriceSound(log[c], cell[c],
                    [committee |-> c, set |-> u.set, time |-> u.time],
                    [signed |-> u.signed, nonce |-> cell[c].nonce])
<1> DEFINE n == Len(log[c])
<1>1. n = cell[c].nonce /\ n \in Nat /\ log[c] \in Seq(LogEntry)
  BY DEF GovernanceInv, GovernanceTypeOK, LogSound
<1>2. u.set \in Nat /\ u.time \in Nat /\ cell[c] \in PublisherSetData
  BY CommitteeCellAssumption DEF Update, Index, GovernanceInv, GovernanceTypeOK
<1>3. ASSUME NEW i \in 1..n, log[c][i].op = "rotate", u.set = log[c][i].old.index
      PROVE  u.time < log[c][i].next.until /\ u.time < log[c][i].at + MaxUntilAhead
  <2>1. log[c][i] \in LogEntry
    BY <1>1
  <2>2. log[c][i].next \in PublisherSetData /\ log[c][i].at \in Nat
    BY <2>1 DEF LogEntry
  <2>3. /\ log[c][i].next.index = log[c][i].old.index + 1
        /\ log[c][i].next.until <= log[c][i].at + MaxUntilAhead
        /\ cell[c].index = log[c][i].next.index => cell[c].until \in {0, log[c][i].next.until}
    BY <1>3 DEF SwitchSound
  <2>4. log[c][i].next.index <= cell[c].index
    BY DEF GovernanceInv, LogSound
  <2>5. /\ cell[c].index \in Nat /\ cell[c].until \in Nat
        /\ log[c][i].next.index \in Nat /\ log[c][i].next.until \in Nat
    BY <1>2, <2>2, DataType
  <2>6. u.set # cell[c].index
    BY <1>2, <1>3, <2>3, <2>4, <2>5
  <2>7. cell[c].until # 0 /\ u.set = cell[c].index - 1 /\ u.time < cell[c].until
    BY <2>6 DEF VerifyHeader, SetFor
  <2>8. cell[c].index = log[c][i].next.index
    BY <1>2, <1>3, <2>3, <2>5, <2>7
  <2>9. cell[c].until = log[c][i].next.until
    BY <2>3, <2>7, <2>8
  <2>10. u.time < log[c][i].next.until
    BY <2>7, <2>9
  <2>11. MaxUntilAhead \in Nat /\ log[c][i].at + MaxUntilAhead \in Nat
    BY <2>2, CommitteeCellAssumption
  <2> QED
    BY <1>2, <2>3, <2>5, <2>10, <2>11
<1> QED
  BY <1>1, <1>2, <1>3 DEF PriceSound, VerifyHeader

-----------------------------------------------------------------------------
(* Every step *)

LEMMA FeedStep ==
  ASSUME FeedInv, [Next]_vars
  PROVE  FeedInv'
<1>1. [GovernanceNext]_govern
  BY FeedsApart DEF vars, govern
<1>2. GovernanceInv'
  BY <1>1, GovernanceStep DEF FeedInv
<1>3. TypeOK'
  <2>1. CASE Next
    BY <1>2, <2>1, FeedTypeStep DEF FeedInv, GovernanceInv
  <2>2. CASE UNCHANGED vars
    BY <2>2 DEF FeedInv, TypeOK, GovernanceTypeOK, vars, feeds, governance
  <2> QED
    BY <2>1, <2>2
<1>4. \A c \in Committee : SwitchSound(c)'
  BY <1>1, <1>2, SwitchStep DEF FeedInv, GovernanceInv
<1>5. ASSUME NEW x \in Live, feed'[x] = feed[x], basis'[x] = basis[x]
      PROVE  PriceSound(log'[feed'[x].committee], cell'[feed'[x].committee], feed'[x], basis'[x])
  <2>1. feed[x].committee \in Committee /\ basis[x].nonce \in Nat
    BY LiveType DEF FeedInv
  <2>2. PriceSound(log[feed[x].committee], cell[feed[x].committee], feed[x], basis[x])
    BY DEF FeedInv, PricesSound
  <2>3. PriceSound(log'[feed[x].committee], cell'[feed[x].committee], feed[x], basis[x])
    BY <1>1, <2>1, <2>2, PriceKept DEF FeedInv
  <2> QED
    BY <1>5, <2>3
<1>6. CASE UNCHANGED feeds
  <2>1. Live' = Live /\ burned' = burned
    BY <1>6 DEF Live, feeds
  <2>2. PricesSound'
    BY <1>5, <1>6, <2>1 DEF PricesSound, feeds
  <2> QED
    BY <1>2, <1>3, <1>4, <2>1, <2>2 DEF FeedInv
<1>7. ASSUME NEW x \in Feed, Create(x)
      PROVE  FeedInv'
  <2>1. PICK c \in Committee : feed' = [feed EXCEPT ![x] = [committee |-> c, set |-> 0, time |-> 0]]
    BY <1>7 DEF Create
  <2>2. x \notin Live \cup burned /\ burned' = burned /\ basis' = basis
    BY <1>7 DEF Create
  <2>3. \A y \in Live' : y # x => y \in Live /\ feed'[y] = feed[y]
    BY <2>1 DEF Live, FeedInv, TypeOK
  <2>4. Live' \cap burned' = {}
    BY <2>2, <2>3 DEF FeedInv
  <2>5. ASSUME NEW y \in Live'
        PROVE  PriceSound(log'[feed'[y].committee], cell'[feed'[y].committee], feed'[y], basis'[y])
    <3>1. CASE y = x
      <4>1. feed'[x] = [committee |-> c, set |-> 0, time |-> 0]
        BY <2>1 DEF FeedInv, TypeOK
      <4> QED
        BY <3>1, <4>1 DEF PriceSound
    <3>2. CASE y # x
      BY <1>5, <2>2, <2>3, <3>2
    <3> QED
      BY <3>1, <3>2
  <2> QED
    BY <1>2, <1>3, <1>4, <2>4, <2>5 DEF FeedInv, PricesSound
<1>8. CASE Move
  <2>1. PICK spent \in SUBSET Feed, moved \in SUBSET Feed :
          \E update \in [moved -> Update] : Verified(spent, moved, update)
    BY <1>8, SharedVerification DEF FeedInv
  <2> PICK update \in [moved -> Update] : Verified(spent, moved, update)
    BY <2>1
  <2>2. \A y \in Live' :
          /\ y \in Live /\ y \notin spent \ moved
          /\ y \notin moved => feed'[y] = feed[y] /\ basis'[y] = basis[y]
    BY DEF Verified, Live
  <2>3. Live' \cap burned' = {}
    <3>1. burned' = burned \cup (spent \ moved)
      BY DEF Verified
    <3>2. Live \cap burned = {}
      BY DEF FeedInv
    <3> QED
      BY <2>2, <3>1, <3>2
  <2>4. ASSUME NEW y \in Live'
        PROVE  PriceSound(log'[feed'[y].committee], cell'[feed'[y].committee], feed'[y], basis'[y])
    <3>1. CASE y \in moved
      <4> DEFINE c == feed[y].committee
      <4>1. c \in Committee
        <5>1. TypeOK /\ y \in Live
          BY <2>2, <2>4 DEF FeedInv
        <5> QED
          BY <5>1, LiveType
      <4>2. /\ feed'[y] = [committee |-> c, set |-> update[y].set, time |-> update[y].time]
            /\ basis'[y] = [signed |-> update[y].signed, nonce |-> cell[c].nonce]
            /\ log' = log /\ cell' = cell
            /\ VerifyHeader(update[y], c) /\ update[y] \in Update
        BY <3>1 DEF Verified, governance
      <4>3. PriceSound(log[c], cell[c],
                       [committee |-> c, set |-> update[y].set, time |-> update[y].time],
                       [signed |-> update[y].signed, nonce |-> cell[c].nonce])
        BY <4>1, <4>2, PriceMoved DEF FeedInv
      <4>4. feed'[y].committee = c
        BY <4>2
      <4> QED
        BY <4>2, <4>3, <4>4
    <3>2. CASE y \notin moved
      <4>1. y \in Live /\ feed'[y] = feed[y] /\ basis'[y] = basis[y]
        BY <2>2, <2>4, <3>2
      <4> QED
        BY <1>5, <4>1
    <3> QED
      BY <3>1, <3>2
  <2> QED
    BY <1>2, <1>3, <1>4, <2>3, <2>4 DEF FeedInv, PricesSound
<1>9. CASE UNCHANGED vars
  BY <1>6, <1>9 DEF vars
<1>10. CASE Next
  BY <1>6, <1>7, <1>8, <1>10 DEF Next
<1> QED
  BY <1>9, <1>10

-----------------------------------------------------------------------------
(* Theorems *)

LEMMA FeedInvariant == Spec => []FeedInv
<1>1. Init => FeedInv
  BY FeedInitial
<1>2. ASSUME FeedInv, [Next]_vars PROVE FeedInv'
  BY <1>2, FeedStep, Zenon
<1> QED
  BY <1>1, <1>2, PTL DEF Spec

\* The prices of live cells, one by one and all together.
LEMMA SoundPrices == FeedInv => PricesAuthentic /\ RetiredBounded
<1> SUFFICES ASSUME FeedInv, NEW x \in Live, feed[x].time # 0
             PROVE  LET c == feed[x].committee
                        then == CellAt(c, basis[x].nonce)
                    IN /\ basis[x].signed /\ ~then.paused /\ SetFor(then, feed[x].set, feed[x].time)
                       /\ \A i \in DOMAIN log[c] :
                            log[c][i].op = "rotate" /\ feed[x].set = log[c][i].old.index /\ basis[x].nonce >= i
                            => /\ feed[x].time < log[c][i].next.until
                               /\ feed[x].time < log[c][i].at + MaxUntilAhead
  BY DEF PricesAuthentic, RetiredBounded
<1> DEFINE c == feed[x].committee
<1>1. log[c] \in Seq(LogEntry)
  BY LiveType DEF FeedInv, GovernanceInv, GovernanceTypeOK
<1>2. DOMAIN log[c] = 1..Len(log[c])
  BY <1>1
<1>3. PriceSound(log[c], cell[c], feed[x], basis[x])
  BY DEF FeedInv, PricesSound
<1> QED
  BY <1>2, <1>3 DEF PriceSound, CellAt

\* Every stored price had a quorum and a committee cell that allowed it.
THEOREM Authentic == Spec => []PricesAuthentic
BY FeedInvariant, SoundPrices, PTL

\* A routinely retired set adds only prices from before the switch.
THEOREM Bounded == Spec => []RetiredBounded
BY FeedInvariant, SoundPrices, PTL

\* What a consumer accepts was never of a set dropped before.
THEOREM NotUsable == Spec => []DroppedUnusable
<1>1. FeedInv => DroppedUnusable
  <2> SUFFICES ASSUME FeedInv, NEW x \in Live, feed[x].set \in Trusted(cell[feed[x].committee]),
                      NEW i \in DOMAIN log[feed[x].committee],
                      feed[x].set <= log[feed[x].committee][i].next.index
               PROVE  feed[x].set \in Trusted(log[feed[x].committee][i].next)
    BY DEF DroppedUnusable, Usable
  <2> DEFINE c == feed[x].committee
  <2>1. c \in Committee /\ feed[x].set \in Nat
    BY LiveType DEF FeedInv
  <2>2. LogSound(c) /\ log[c] \in Seq(LogEntry)
    BY <2>1 DEF FeedInv, GovernanceInv, GovernanceTypeOK
  <2>3. i \in 1..Len(log[c]) /\ log[c][i] \in LogEntry
    BY <2>2
  <2>4. log[c][i].next.index \in Nat
    BY <2>3, DataType DEF LogEntry
  <2>5. feed[x].set \in 0..log[c][i].next.index
    BY <2>1, <2>4
  <2> QED
    BY <2>2, <2>3, <2>5 DEF LogSound
<1> QED
  BY <1>1, FeedInvariant, PTL

\* A feed cell's price only moves forward, for its committee, until it is burned.
THEOREM Forward == Spec => FeedsForward
<1>1. ASSUME FeedInv, FeedInv', [Next]_vars
      PROVE  [\A x \in Feed :
                /\ x \in burned => feed'[x] = None
                /\ x \in Live /\ feed'[x] # None /\ feed'[x] # feed[x] =>
                     feed'[x].committee = feed[x].committee /\ feed'[x].time > feed[x].time]_vars
  <2> SUFFICES ASSUME NEW x \in Feed, Next
               PROVE  /\ x \in burned => feed'[x] = None
                      /\ x \in Live /\ feed'[x] # None /\ feed'[x] # feed[x] =>
                           feed'[x].committee = feed[x].committee /\ feed'[x].time > feed[x].time
    BY <1>1
  <2>1. burned \subseteq burned'
    BY DEF Next, Create, Move, feeds
  <2>2. x \in burned => feed'[x] = None
    BY <1>1, <2>1 DEF FeedInv, Live
  <2>3. ASSUME x \in Live, feed'[x] # None, feed'[x] # feed[x]
        PROVE  feed'[x].committee = feed[x].committee /\ feed'[x].time > feed[x].time
    <3>1. CASE UNCHANGED feeds
      BY <2>3, <3>1 DEF feeds
    <3>2. ASSUME NEW y \in Feed, Create(y)
          PROVE  FALSE
      BY <1>1, <2>3, <3>2 DEF Create, FeedInv, TypeOK
    <3>3. CASE Move
      <4>1. PICK spent \in SUBSET Feed, moved \in SUBSET Feed :
              \E update \in [moved -> Update] : Verified(spent, moved, update)
        BY <1>1, <3>3, SharedVerification DEF FeedInv
      <4> PICK update \in [moved -> Update] : Verified(spent, moved, update)
        BY <4>1
      <4>2. x \in moved
        BY <2>3 DEF Verified
      <4>3. feed'[x] = [committee |-> feed[x].committee, set |-> update[x].set, time |-> update[x].time]
        BY <4>2 DEF Verified
      <4> QED
        BY <4>2, <4>3 DEF Verified
    <3> QED
      BY <3>1, <3>2, <3>3 DEF Next
  <2> QED
    BY <2>2, <2>3
<1> QED
  BY <1>1, FeedInvariant, PTL DEF Spec, FeedsForward

-----------------------------------------------------------------------------
(* The SDK and the contracts *)

\* Both sides name the sets of a committee cell alike.
LEMMA SetsAgree ==
  ASSUME NEW d \in PublisherSetData, NEW set \in Nat, NEW time \in Nat
  PROVE  /\ (set = d.index \/ (d.until > time /\ set + 1 = d.index)) <=> SetFor(d, set, time)
         /\ TrustsSet(d, set) <=> set \in Trusted(d)
BY DataType DEF SetFor, TrustsSet, Trusted

LEMMA FirstInput ==
  ASSUME NEW s \in Inputs
  PROVE  1 \in DOMAIN s /\ DOMAIN s \subseteq Nat \ {0}
BY DEF Inputs

LEMMA PricesTrusted ==
  ASSUME TypeOK, NEW x \in Feed
  PROVE  PriceTrusted(x) <=> Usable(x)
<1>1. CASE x \in Live
  <2> DEFINE d == cell[feed[x].committee]
  <2>1. feed[x].set \in Nat /\ feed[x].time \in Nat /\ d \in PublisherSetData
    BY <1>1, LiveType DEF TypeOK, GovernanceTypeOK
  <2>2. TrustsSet(d, feed[x].set) <=> feed[x].set \in Trusted(d)
    BY <2>1, SetsAgree
  <2> QED BY <2>1, <2>2 DEF PriceTrusted, Usable
<1>2. CASE x \notin Live
  BY <1>2 DEF PriceTrusted, Usable
<1> QED BY <1>1, <1>2

\* The builder's verification of one feed is the contract's, of the same committee.
LEMMA HeadersAgree ==
  ASSUME TypeOK, NEW u \in Update, NEW c \in Committee
  PROVE  VerifyPriceUpdate(u, c, cell[c]) <=> VerifyHeader(u, c)
<1>1. cell[c] \in PublisherSetData /\ u.set \in Nat /\ u.time \in Nat
  BY DEF TypeOK, GovernanceTypeOK, Update, Index
<1>2. SetForTick(cell[c], u) <=> SetFor(cell[c], u.set, u.time)
  BY <1>1, SetsAgree DEF SetForTick
<1> QED BY <1>2 DEF VerifyPriceUpdate, VerifyHeader

LEMMA BuiltIsTaken ==
  ASSUME TypeOK, NEW s \in Inputs, NEW u \in Update
  PROVE  Built(s, u) <=> Taken(s, u) /\ Served(s)
<1> DEFINE spent == {s[i] : i \in DOMAIN s}
           c == feed[s[1]].committee
           g == Group(s[1])
           Alike == \A x \in spent : x \in Live /\ Group(x) = g
<1>1. 1 \in DOMAIN s /\ DOMAIN s \subseteq Nat \ {0} /\ s[1] \in spent
  BY FirstInput
<1>2. Alike => c \in Committee
  BY <1>1, LiveType
<1>3. ASSUME Alike PROVE LeaderOf(s, spent, g) = 1
  <2> HIDE DEF g
  <2>1. LeaderOf(s, spent, g) \in DOMAIN s
    BY <1>1, <1>3, LeaderMoved
  <2>2. \A i \in DOMAIN s : Group(s[i]) = g /\ s[i] \in spent
    BY <1>3
  <2>3. \E i \in DOMAIN s :
          /\ Group(s[i]) = g /\ s[i] \in spent
          /\ \A j \in DOMAIN s : j < i => Group(s[j]) # g \/ s[j] \notin spent
    <3>1. \A j \in DOMAIN s : ~(j < 1)
      BY <1>1
    <3> QED BY <1>1, <2>2, <3>1
  <2>4. \A j \in DOMAIN s : j < LeaderOf(s, spent, g) => Group(s[j]) # g \/ s[j] \notin spent
    BY <2>3 DEF LeaderOf
  <2>5. ~(1 < LeaderOf(s, spent, g))
    BY <1>1, <2>2, <2>4
  <2> QED BY <1>1, <2>1, <2>5
<1>4. ASSUME Taken(s, u) PROVE Alike
  <2>1. ASSUME NEW x \in spent PROVE x \in Live /\ LeaderOf(s, spent, Group(x)) = 1
    BY <1>4 DEF Taken
  <2>2. ASSUME NEW x \in spent PROVE Group(x) = g
    <3>1. \E i \in DOMAIN s : s[i] = x
      OBVIOUS
    <3> HIDE DEF spent
    <3>2. Group(s[LeaderOf(s, spent, Group(x))]) = Group(x)
      BY <3>1, LeaderMoved
    <3> QED BY <2>1, <3>2
  <2> QED BY <2>1, <2>2
<1>5. \A x \in spent : Group(x) = g => feed[x].committee = c
  BY DEF Group
<1>6. Built(s, u) <=>
        Served(s) /\ Alike /\ VerifyHeader(u, c) /\ \A x \in spent : u.time > feed[x].time
  <2>1. Built(s, u) <=>
          Served(s) /\ Alike /\ (\A x \in spent : VerifyPriceUpdate(u, c, cell[c]) /\ u.time > feed[x].time)
    <3>1. Alike <=> /\ \A i \in DOMAIN s : s[i] \in Live
                    /\ \A i \in DOMAIN s : feed[s[i]].committee = c
                    /\ \A i \in DOMAIN s : typed[s[i]].code = typed[s[1]].code
      BY DEF Group
    <3>2. (\A i \in DOMAIN s : feed[s[i]].committee = c) =>
            ((\A x \in spent : VerifyPriceUpdate(u, c, cell[c]) /\ u.time > feed[x].time) <=>
             (\A i \in DOMAIN s : /\ VerifyPriceUpdate(u, feed[s[i]].committee, cell[c])
                                  /\ u.time > feed[s[i]].time))
      OBVIOUS
    <3> QED BY <3>1, <3>2 DEF Built, Served
  <2>2. Alike => (VerifyPriceUpdate(u, c, cell[c]) <=> VerifyHeader(u, c))
    BY <1>2, HeadersAgree
  <2> QED BY <1>1, <2>1, <2>2
<1>7. Taken(s, u) <=> Alike /\ VerifyHeader(u, c) /\ \A x \in spent : u.time > feed[x].time
  <2>1. ASSUME Alike
        PROVE  Taken(s, u) <=> \A x \in spent : Accepts(x, u, s[1] = x)
    BY <1>3, <2>1 DEF Taken
  <2>2. ASSUME Alike
        PROVE  (\A x \in spent : Accepts(x, u, s[1] = x))
                 <=> VerifyHeader(u, c) /\ \A x \in spent : u.time > feed[x].time
    <3> HIDE DEF g, spent
    <3> QED BY <1>1, <1>5, <2>2 DEF Accepts, VerifyHeader
  <2> QED BY <1>4, <2>1, <2>2
<1> QED BY <1>6, <1>7

\* The builder builds nothing the contract would reject, and refuses what it takes only
\* for its own limits, whatever the cells, their order, the update and the deployment
\* record; and the SDK trusts the prices a consumer does (updateFeedCells,
\* isFeedPriceTrusted).
THEOREM SdkFollows == Spec => []SdkAgrees
<1>1. FeedInv => SdkAgrees
  BY BuiltIsTaken, PricesTrusted DEF FeedInv, SdkAgrees
<1> QED BY <1>1, FeedInvariant, PTL
=============================================================================
