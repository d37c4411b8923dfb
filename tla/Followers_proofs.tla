-------------------------- MODULE Followers_proofs --------------------------
(***************************************************************************)
(* What those who follow a committee cell know of it: the mirror's key     *)
(* sets, what the SDK's client verifies with the cell it holds, and what   *)
(* the mirror's API lets through and lets others cache.                    *)
(***************************************************************************)
EXTENDS MirrorCommittee, OracleClient, MirrorApi, MirrorQuery, Governance_proofs, FiniteSetTheorems

-----------------------------------------------------------------------------
(* The cells of a log *)

\* Of one index, a later cell keeps the previous set's bound or drops it.
Falls(old, next) ==
  /\ old.index <= next.index
  /\ next.index = old.index => next.until \in {0, old.until}

\* Each operation made the cell that the next one found.
LogTells(c) ==
  /\ \A i \in 1..Len(log[c]) :
       /\ log[c][i].next = CellAt(c, i)
       /\ CheckTransition(log[c][i].old, log[c][i].next, log[c][i].op)
  /\ \A m, n \in 0..Len(log[c]) : m <= n => Falls(CellAt(c, m), CellAt(c, n))

\* Governance leaves the cells of the past, and the times of its operations.
Grows(c) ==
  /\ now <= now'
  /\ Len(log[c]) <= Len(log'[c])
  /\ \A n \in 0..Len(log[c]) : CellAt(c, n)' = CellAt(c, n)
  /\ \A i \in 1..Len(log'[c]) :
       IF i <= Len(log[c]) THEN log'[c][i] = log[c][i] ELSE log'[c][i].at = now

\* Any cell there was is a state.
LEMMA CellType ==
  ASSUME GovernanceTypeOK, NEW c \in Committee, NEW n \in 0..Len(log[c])
  PROVE  CellAt(c, n) \in PublisherSetData
<1>1. log[c] \in Seq(LogEntry) /\ cell[c] \in PublisherSetData
  BY DEF GovernanceTypeOK
<1>2. CASE n = Len(log[c])
  BY <1>1, <1>2 DEF CellAt
<1>3. CASE n # Len(log[c])
  <2>1. n + 1 \in 1..Len(log[c])
    BY <1>1, <1>3
  <2>2. log[c][n + 1] \in LogEntry
    BY <1>1, <2>1
  <2> QED
    BY <1>3, <2>2 DEF CellAt, LogEntry
<1> QED
  BY <1>2, <1>3

LEMMA TransitionFalls ==
  ASSUME NEW old \in PublisherSetData, NEW next \in PublisherSetData,
         NEW op \in Operation, CheckTransition(old, next, op)
  PROVE  Falls(old, next)
BY DataType DEF CheckTransition, NextSet, SameSets, Falls

LEMMA FallsFurther ==
  ASSUME NEW d \in PublisherSetData, NEW e \in PublisherSetData, NEW f \in PublisherSetData,
         Falls(d, e), Falls(e, f)
  PROVE  Falls(d, f)
BY DataType DEF Falls

\* An operation of c adds a cell to its log.
LEMMA GovernGrows ==
  ASSUME GovernanceInv, NEW c \in Committee, LogTells(c), Govern(c), GovernanceTypeOK'
  PROVE  LogTells(c)' /\ Grows(c)
<1> GovernanceTypeOK
  BY DEF GovernanceInv
<1>0. PICK n \in Nat : n = Len(log[c])
  BY DEF GovernanceTypeOK
<1>1. PICK op \in Operation, next \in PublisherSetData :
        /\ CheckTransition(cell[c], next, op)
        /\ now' = now
        /\ cell' = [cell EXCEPT ![c] = next]
        /\ Len(log'[c]) = n + 1
        /\ \A i \in 1..n : log'[c][i] = log[c][i]
        /\ log'[c][n + 1] = [op |-> op, old |-> cell[c], next |-> next, at |-> now]
  BY <1>0, GovernLog
<1>2. now \in Nat /\ cell[c] \in PublisherSetData
  BY CommitteeCellAssumption DEF GovernanceInv, GovernanceTypeOK
<1>3. cell'[c] = next
  BY <1>1 DEF GovernanceInv, GovernanceTypeOK
<1>4. CellAt(c, n) = cell[c]
  BY <1>0 DEF CellAt
<1>5. CellAt(c, n + 1)' = next
  BY <1>1, <1>3 DEF CellAt
<1>6. ASSUME NEW m \in 0..n
      PROVE  CellAt(c, m)' = CellAt(c, m)
  <2>1. m # n + 1
    OBVIOUS
  <2>2. CellAt(c, m)' = log'[c][m + 1].old
    BY <1>1, <2>1 DEF CellAt
  <2>3. CASE m = n
    BY <1>1, <1>4, <2>2, <2>3
  <2>4. CASE m # n
    <3>1. m + 1 \in 1..n
      BY <1>2, <2>4
    <3> QED
      BY <1>0, <1>1, <2>2, <2>4, <3>1 DEF CellAt
  <2> QED
    BY <2>3, <2>4
<1>7. Grows(c)
  <2>1. \A i \in 1..n + 1 : IF i <= n THEN log'[c][i] = log[c][i] ELSE log'[c][i].at = now
    <3> TAKE i \in 1..n + 1
    <3>1. CASE i \in 1..n
      BY <1>1, <1>2, <3>1
    <3>2. CASE i = n + 1
      BY <1>1, <1>2, <3>2
    <3> QED
      BY <1>2, <3>1, <3>2
  <2> QED
    BY <1>0, <1>1, <1>2, <1>6, <2>1 DEF Grows
<1>8. ASSUME NEW i \in 1..n + 1
      PROVE  /\ log'[c][i].next = CellAt(c, i)'
             /\ CheckTransition(log'[c][i].old, log'[c][i].next, log'[c][i].op)
  <2>1. CASE i \in 1..n
    <3>1. i \in 0..n /\ log'[c][i] = log[c][i]
      BY <1>1, <1>2, <2>1
    <3> QED
      BY <1>0, <1>6, <2>1, <3>1 DEF LogTells
  <2>2. CASE i = n + 1
    BY <1>1, <1>5, <2>2
  <2> QED
    BY <1>2, <2>1, <2>2
<1>9. ASSUME NEW m \in 0..n + 1, NEW k \in 0..n + 1, m <= k
      PROVE  Falls(CellAt(c, m)', CellAt(c, k)')
  <2>1. Falls(cell[c], next)
    BY <1>1, <1>2, TransitionFalls
  <2>2. CASE m \in 0..n /\ k \in 0..n
    BY <1>0, <1>6, <1>9, <2>2 DEF LogTells
  <2>3. CASE m \in 0..n /\ k = n + 1
    <3>1. CellAt(c, m) \in PublisherSetData
      BY <1>0, <2>3, CellType DEF GovernanceInv
    <3>2. n \in 0..n /\ m <= n
      BY <1>2, <2>3
    <3>3. Falls(CellAt(c, m), cell[c])
      BY <1>0, <1>4, <2>3, <3>2 DEF LogTells
    <3>4. Falls(CellAt(c, m), next)
      BY <1>2, <2>1, <3>1, <3>3, FallsFurther
    <3> QED
      BY <1>5, <1>6, <2>3, <3>4
  <2>4. CASE m = n + 1 /\ k = n + 1
    <3>1. next.index \in Nat /\ next.until \in Nat
      BY DataType
    <3>2. Falls(next, next)
      BY <3>1 DEF Falls
    <3> QED
      BY <1>5, <2>4, <3>2
  <2> QED
    BY <1>2, <1>9, <2>2, <2>3, <2>4
<1>10. LogTells(c)'
  BY <1>1, <1>8, <1>9 DEF LogTells
<1> QED
  BY <1>7, <1>10

\* A step that leaves the log of c leaves its cells.
LEMMA SameLog ==
  ASSUME GovernanceTypeOK, NEW c \in Committee, LogTells(c),
         log'[c] = log[c], cell'[c] = cell[c], now' \in Nat, now <= now'
  PROVE  LogTells(c)' /\ Grows(c)
<1>1. Len(log[c]) \in Nat
  BY DEF GovernanceTypeOK
<1>2. \A n \in 0..Len(log[c]) : CellAt(c, n)' = CellAt(c, n)
  BY DEF CellAt
<1>3. LogTells(c)'
  BY DEF LogTells, CellAt
<1> QED
  BY <1>1, <1>2, <1>3 DEF Grows

LEMMA ChainStep ==
  ASSUME GovernanceInv, NEW c \in Committee, LogTells(c), [GovernanceNext]_govern
  PROVE  GovernanceInv' /\ LogTells(c)' /\ Grows(c)
<1>1. GovernanceInv'
  BY GovernanceStep
<1>2. now \in Nat
  BY CommitteeCellAssumption DEF GovernanceInv, GovernanceTypeOK
<1>3. CASE UNCHANGED govern
  <2>1. log'[c] = log[c] /\ cell'[c] = cell[c] /\ now' = now
    BY <1>3 DEF govern, governance
  <2> QED
    BY <1>1, <1>2, <2>1, SameLog DEF GovernanceInv
<1>4. CASE Block
  <2>1. log'[c] = log[c] /\ cell'[c] = cell[c] /\ now' \in Nat /\ now <= now'
    BY <1>2, <1>4 DEF Block, governance
  <2> QED
    BY <1>1, <2>1, SameLog DEF GovernanceInv
<1>5. ASSUME NEW d \in Governing, Govern(d)
      PROVE  LogTells(c)' /\ Grows(c)
  <2>1. CASE d = c
    BY <1>1, <1>5, <2>1, GovernGrows DEF GovernanceInv
  <2>2. CASE d # c
    <3>1. d \in Committee
      BY CommitteeCellAssumption
    <3>2. now' = now /\ log'[c] = log[c] /\ cell'[c] = cell[c]
      BY <1>5, <2>2, <3>1 DEF Govern, GovernanceInv, GovernanceTypeOK
    <3> QED
      BY <1>2, <3>2, SameLog DEF GovernanceInv
  <2> QED
    BY <2>1, <2>2
<1> QED
  BY <1>1, <1>3, <1>4, <1>5 DEF GovernanceNext

LEMMA ChainInitial ==
  ASSUME GovernanceInit, NEW c \in Committee
  PROVE  GovernanceInv /\ LogTells(c)
<1>1. GovernanceInv
  BY GovernanceInitial
<1>2. log[c] = <<>> /\ cell[c] \in PublisherSetData
  BY <1>1 DEF GovernanceInit, GovernanceInv, GovernanceTypeOK
<1>3. cell[c].index \in Nat /\ cell[c].until \in Nat
  BY <1>2, DataType
<1>4. Len(log[c]) = 0
  BY <1>2
<1>5. \A m, n \in 0..Len(log[c]) : Falls(CellAt(c, m), CellAt(c, n))
  BY <1>3, <1>4 DEF CellAt, Falls
<1> QED
  BY <1>1, <1>4, <1>5 DEF LogTells

-----------------------------------------------------------------------------
(* The mirror's key sets *)

\* What the last cell the mirror observed tells of the sets.
AsLast(n) ==
  LET d == CellAt(Followed, n)
  IN /\ \A m \in read : m <= n
     /\ paused = d.paused
     /\ sets[d.index] = Open
     /\ d.index # 0 => \/ sets[d.index - 1] = d.until
                       \/ d.until = 0 /\ sets[d.index - 1] = Unknown
     /\ \A i \in Index : i > d.index => sets[i] = Unknown

\* The set before a cell's current one is bounded at least as that cell said.
Kept(m) ==
  LET d == CellAt(Followed, m)
  IN d.index # 0 => \/ d.until = 0 /\ sets[d.index - 1] = Unknown
                    \/ sets[d.index - 1] \in Nat /\ sets[d.index - 1] <= d.until

ViewInv ==
  /\ sets \in [Index -> Nat \cup {Unknown, Open}]
  /\ read \subseteq 0..Len(log[Followed])
  /\ read = {} => \A i \in Index : sets[i] = Unknown
  /\ read # {} => \E n \in read : AsLast(n)
  /\ \A m \in read : Kept(m)

SetsInv == GovernanceInv /\ LogTells(Followed) /\ ViewInv

\* Governance does not touch the view, nor the cells it was read from.
LEMMA ViewStays ==
  ASSUME MirrorCommitteeAssumption, SetsInv, Grows(Followed), GovernanceTypeOK', UNCHANGED view
  PROVE  ViewInv'
<1>1. /\ sets' = sets /\ paused' = paused /\ read' = read
      /\ Followed \in Committee
  BY CommitteeCellAssumption DEF view, MirrorCommitteeAssumption
<1>2. Len(log[Followed]) \in Nat /\ Len(log'[Followed]) \in Nat
  BY <1>1 DEF SetsInv, GovernanceInv, GovernanceTypeOK
<1>3. \A n \in read : n \in 0..Len(log'[Followed]) /\ CellAt(Followed, n)' = CellAt(Followed, n)
  BY <1>2 DEF SetsInv, ViewInv, Grows
<1>4. ASSUME NEW n \in read, AsLast(n)
      PROVE  AsLast(n)'
  BY <1>1, <1>3, <1>4 DEF AsLast
<1>5. ASSUME NEW m \in read
      PROVE  Kept(m)'
  <2>1. Kept(m)
    BY DEF SetsInv, ViewInv
  <2> QED
    BY <1>1, <1>3, <2>1 DEF Kept
<1> QED
  BY <1>1, <1>3, <1>4, <1>5 DEF SetsInv, ViewInv

\* What observe makes of a set, by the cell that is read.
LEMMA ObservedSets ==
  ASSUME MirrorCommitteeAssumption, NEW d \in PublisherSetData, NEW clock \in Nat,
         sets \in [Index -> Nat \cup {Unknown, Open}]
  PROVE  /\ Observed(d, clock) \in [Index -> Nat \cup {Unknown, Open}]
         /\ Observed(d, clock)[d.index] = Open
         /\ d.index # 0 =>
              LET s == sets[d.index - 1]
                  o == Observed(d, clock)[d.index - 1]
              IN /\ s = Unknown => o = (IF d.until # 0 THEN d.until ELSE Unknown)
                 /\ s = Open => o = d.until
                 /\ s \in Nat => o = (IF d.until < s THEN d.until ELSE s)
         /\ \A i \in Index : i \notin {d.index, d.index - 1} =>
              LET s == sets[i]
                  o == Observed(d, clock)[i]
              IN /\ s = Unknown => o = Unknown
                 /\ s \in Nat => o = s
<1>1. d.until \in Nat /\ d.index \in Index /\ Unknown # Open /\ Unknown \notin Nat /\ Open \notin Nat
  BY DataType DEF PublisherSetData, MirrorCommitteeAssumption
<1>2. Index \subseteq Nat
  BY DEF Index
<1>3. \A i \in Index : sets[i] \in Nat \cup {Unknown, Open}
  OBVIOUS
<1>4. Observed(d, clock) \in [Index -> Nat \cup {Unknown, Open}]
  BY <1>1, <1>3 DEF Observed
<1>5. Observed(d, clock)[d.index] = Open
  BY <1>1 DEF Observed
<1>6. ASSUME d.index # 0
      PROVE  LET s == sets[d.index - 1]
                 o == Observed(d, clock)[d.index - 1]
             IN /\ s = Unknown => o = (IF d.until # 0 THEN d.until ELSE Unknown)
                /\ s = Open => o = d.until
                /\ s \in Nat => o = (IF d.until < s THEN d.until ELSE s)
  <2>1. d.index - 1 \in Index /\ d.index - 1 # d.index
    BY <1>1, <1>6, CommitteeCellAssumption DEF Index
  <2> QED
    BY <1>1, <2>1 DEF Observed
<1>7. ASSUME NEW i \in Index, i \notin {d.index, d.index - 1}
      PROVE  LET s == sets[i]
                 o == Observed(d, clock)[i]
             IN (s = Unknown => o = Unknown) /\ (s \in Nat => o = s)
  BY <1>1, <1>7 DEF Observed
<1> QED
  BY <1>4, <1>5, <1>6, <1>7

\* A read of the cell of moment n, not before the last one read.
LEMMA RefreshView ==
  ASSUME MirrorCommitteeAssumption, SetsInv,
         NEW n \in Index, NEW clock \in Nat,
         n <= Len(log[Followed]),
         \A m \in read : m <= n,
         sets' = Observed(CellAt(Followed, n), clock),
         paused' = CellAt(Followed, n).paused,
         read' = read \cup {n},
         UNCHANGED <<now, governance>>
  PROVE  ViewInv'
<1> DEFINE d == CellAt(Followed, n)
<1>1. Followed \in Committee /\ GovernanceTypeOK /\ Unknown # Open /\ Unknown \notin Nat /\ Open \notin Nat
  BY CommitteeCellAssumption DEF MirrorCommitteeAssumption, SetsInv, GovernanceInv
<1>2. Len(log[Followed]) \in Nat /\ n \in 0..Len(log[Followed])
  BY <1>1 DEF GovernanceTypeOK, Index
<1>3. /\ d \in PublisherSetData /\ d.index \in Nat /\ d.until \in Nat /\ d.index \in Index
      /\ d.index # 0 => d.index - 1 \in Index
  <2>1. d \in PublisherSetData
    BY <1>1, <1>2, CellType
  <2>2. d.index \in Index
    BY <2>1 DEF PublisherSetData
  <2> QED
    BY <2>1, <2>2, DataType, CommitteeCellAssumption DEF Index
<1>4. \A m \in 0..Len(log[Followed]) : CellAt(Followed, m)' = CellAt(Followed, m)
  BY DEF CellAt, governance
<1>5. read \subseteq 0..Len(log[Followed]) /\ \A m \in read : CellAt(Followed, m) \in PublisherSetData
  BY <1>1, CellType DEF SetsInv, ViewInv
<1>6. \A m \in read : Falls(CellAt(Followed, m), d)
  BY <1>2, <1>5 DEF SetsInv, LogTells
<1> HIDE DEF d
<1>7. sets' \in [Index -> Nat \cup {Unknown, Open}] /\ sets'[d.index] = Open
  BY <1>3, ObservedSets DEF SetsInv, ViewInv, d
<1>8. ASSUME d.index # 0
      PROVE  /\ sets[d.index - 1] = Unknown =>
                  sets'[d.index - 1] = (IF d.until # 0 THEN d.until ELSE Unknown)
             /\ sets[d.index - 1] = Open => sets'[d.index - 1] = d.until
             /\ sets[d.index - 1] \in Nat =>
                  sets'[d.index - 1] = (IF d.until < sets[d.index - 1] THEN d.until ELSE sets[d.index - 1])
  BY <1>3, <1>8, ObservedSets DEF SetsInv, ViewInv, d
<1>9. ASSUME NEW i \in Index, i \notin {d.index, d.index - 1}
      PROVE  (sets[i] = Unknown => sets'[i] = Unknown) /\ (sets[i] \in Nat => sets'[i] = sets[i])
  BY <1>3, <1>9, ObservedSets DEF SetsInv, ViewInv, d
<1>10. ASSUME NEW i \in Index, i > d.index
       PROVE  sets[i] = Unknown
  <2>1. CASE read = {}
    BY <2>1 DEF SetsInv, ViewInv
  <2>2. CASE read # {}
    <3>1. PICK m \in read : AsLast(m)
      BY <2>2 DEF SetsInv, ViewInv
    <3>2. CellAt(Followed, m).index <= d.index /\ CellAt(Followed, m).index \in Nat
      BY <1>5, <1>6, <3>1, DataType DEF Falls
    <3>3. i > CellAt(Followed, m).index
      BY <1>3, <1>10, <3>2 DEF Index
    <3> QED
      BY <3>1, <3>3 DEF AsLast
  <2> QED
    BY <2>1, <2>2
\* The set before the current one was bounded by the same value, or not at all.
<1>11. ASSUME d.index # 0, sets[d.index - 1] \in Nat
       PROVE  d.until \in {0, sets[d.index - 1]}
  <2>1. read # {}
    BY <1>1, <1>3, <1>11 DEF SetsInv, ViewInv
  <2>2. PICK m \in read : AsLast(m)
    BY <2>1 DEF SetsInv, ViewInv
  <2> DEFINE e == CellAt(Followed, m)
  <2>3. Falls(e, d) /\ e.index \in Nat /\ e.until \in Nat
    BY <1>5, <1>6, <2>2, DataType
  <2>4. /\ sets[e.index] = Open
        /\ e.index # 0 => \/ sets[e.index - 1] = e.until
                          \/ e.until = 0 /\ sets[e.index - 1] = Unknown
        /\ \A i \in Index : i > e.index => sets[i] = Unknown
    BY <2>2 DEF AsLast
  <2> HIDE DEF e
  <2>5. e.index = d.index
    <3>1. ~(d.index - 1 > e.index) /\ d.index - 1 # e.index
      BY <1>1, <1>3, <1>11, <2>4
    <3> QED
      BY <1>3, <2>3, <3>1 DEF Falls
  <2>6. sets[d.index - 1] = e.until
    BY <1>1, <1>11, <2>4, <2>5
  <2> QED
    BY <2>3, <2>5, <2>6 DEF Falls
<1>12. d.index # 0 => \/ sets'[d.index - 1] = d.until
                      \/ d.until = 0 /\ sets'[d.index - 1] = Unknown
  <2> SUFFICES ASSUME d.index # 0
               PROVE  \/ sets'[d.index - 1] = d.until
                      \/ d.until = 0 /\ sets'[d.index - 1] = Unknown
    OBVIOUS
  <2>1. sets[d.index - 1] \in Nat \cup {Unknown, Open}
    BY <1>3 DEF SetsInv, ViewInv
  <2>2. CASE sets[d.index - 1] \in Nat
    BY <1>3, <1>8, <1>11, <2>2
  <2>3. CASE sets[d.index - 1] \in {Unknown, Open}
    BY <1>8, <2>3
  <2> QED
    BY <2>1, <2>2, <2>3
<1>13. AsLast(n)'
  <2>1. \A m \in read' : m <= n
    BY DEF Index
  <2>2. ASSUME NEW i \in Index, i > d.index
        PROVE  sets'[i] = Unknown
    <3>1. i \notin {d.index, d.index - 1}
      BY <1>3, <2>2 DEF Index
    <3> QED
      BY <1>9, <1>10, <2>2, <3>1
  <2>3. CellAt(Followed, n)' = d /\ paused' = d.paused
    BY <1>2, <1>4 DEF d
  <2> QED
    BY <1>7, <1>12, <2>1, <2>2, <2>3 DEF AsLast
<1>14. ASSUME NEW m \in read
       PROVE  Kept(m)'
  <2> DEFINE e == CellAt(Followed, m)
  <2>1. Falls(e, d) /\ e.index \in Nat /\ e.until \in Nat /\ e.index \in Index
    BY <1>5, <1>6, DataType DEF PublisherSetData
  <2>2. CellAt(Followed, m)' = e
    BY <1>4, <1>5
  <2>3. e.index # 0 => \/ e.until = 0 /\ sets[e.index - 1] = Unknown
                       \/ sets[e.index - 1] \in Nat /\ sets[e.index - 1] <= e.until
    BY DEF SetsInv, ViewInv, Kept
  <2> HIDE DEF e
  <2>4. ASSUME e.index # 0
        PROVE  \/ e.until = 0 /\ sets'[e.index - 1] = Unknown
               \/ sets'[e.index - 1] \in Nat /\ sets'[e.index - 1] <= e.until
    <3>1. CASE e.index = d.index
      <4>1. d.until \in {0, e.until}
        BY <2>1, <3>1 DEF Falls
      <4> QED
        BY <1>3, <1>8, <2>1, <2>3, <2>4, <3>1, <4>1
    <3>2. CASE e.index # d.index
      <4>1. e.index - 1 \in Index /\ e.index - 1 \notin {d.index, d.index - 1}
        <5>1. e.index < d.index /\ e.index \in 0..MaxNonce
          BY <1>3, <2>1, <3>2 DEF Falls, Index
        <5>2. e.index - 1 \in Nat /\ e.index - 1 <= MaxNonce
          BY <2>1, <2>4, <5>1, CommitteeCellAssumption
        <5>3. e.index - 1 # d.index /\ e.index - 1 # d.index - 1
          BY <1>3, <2>1, <5>1
        <5> QED
          BY <5>2, <5>3, CommitteeCellAssumption DEF Index
      <4> QED
        BY <1>9, <2>3, <2>4, <4>1
    <3> QED
      BY <3>1, <3>2
  <2> QED
    BY <2>2, <2>4 DEF Kept
<1>15. Kept(n)'
  <2>1. CellAt(Followed, n)' = d
    BY <1>2, <1>4 DEF d
  <2> QED
    BY <1>3, <1>12, <2>1 DEF Kept
<1>16. read' # {} /\ read' \subseteq 0..Len(log'[Followed])
  BY <1>2, <1>5 DEF governance
<1> QED
  BY <1>7, <1>13, <1>14, <1>15, <1>16 DEF ViewInv

\* What the sets tell is what the chain would take, for the cell last read.
LEMMA ViewTells == ASSUME MirrorCommitteeAssumption, SetsInv PROVE AsOnChain
<1> SUFFICES ASSUME NEW n \in read, \A m \in read : m <= n,
                    NEW set \in Index, NEW time \in 1..MaxTime,
                    set \in {CellAt(Followed, n).index, CellAt(Followed, n).index - 1}
             PROVE  Verifies(set, time) <=>
                      ~CellAt(Followed, n).paused /\ SetFor(CellAt(Followed, n), set, time)
  BY DEF AsOnChain
<1> DEFINE d == CellAt(Followed, n)
<1>1. Followed \in Committee /\ GovernanceTypeOK /\ Unknown # Open /\ Unknown \notin Nat /\ Open \notin Nat
  BY CommitteeCellAssumption DEF MirrorCommitteeAssumption, SetsInv, GovernanceInv
<1>2. n \in 0..Len(log[Followed]) /\ Len(log[Followed]) \in Nat
  BY <1>1 DEF SetsInv, ViewInv, GovernanceTypeOK
<1>3. AsLast(n)
  <2>1. PICK m \in read : AsLast(m)
    BY DEF SetsInv, ViewInv
  <2>2. m \in 0..Len(log[Followed]) /\ n <= m /\ m <= n
    BY <2>1 DEF SetsInv, ViewInv, AsLast
  <2>3. m = n
    BY <1>2, <2>2
  <2> QED
    BY <2>1, <2>3
<1>4. d \in PublisherSetData
  BY <1>1, <1>2, CellType
<1>5. d.until \in Nat /\ d.index \in Nat
  BY <1>4, DataType
<1>6. /\ paused = d.paused
      /\ sets[d.index] = Open
      /\ d.index # 0 => \/ sets[d.index - 1] = d.until
                        \/ d.until = 0 /\ sets[d.index - 1] = Unknown
  BY <1>3 DEF AsLast
<1> HIDE DEF d
<1>7. ASSUME set = d.index
      PROVE  Verifies(set, time) <=> ~d.paused /\ SetFor(d, set, time)
  BY <1>1, <1>6, <1>7 DEF Verifies, SetFor
<1>8. ASSUME set # d.index
      PROVE  Verifies(set, time) <=> ~d.paused /\ SetFor(d, set, time)
  <2>1. set = d.index - 1 /\ d.index # 0
    BY <1>5, <1>8 DEF d, Index
  <2> QED
    BY <1>1, <1>5, <1>6, <1>8, <2>1 DEF Verifies, SetFor
<1> QED
  BY <1>7, <1>8 DEF d

\* What an observed operation retired stays retired.
LEMMA ViewKeeps == ASSUME MirrorCommitteeAssumption, SetsInv PROVE RetirementKept
<1> SUFFICES ASSUME NEW i \in DOMAIN log[Followed], i \in read, NEW time \in 1..MaxTime
             PROVE  LET e == log[Followed][i]
                    IN /\ e.op = "rotate" /\ Verifies(e.old.index, time) => time < e.next.until
                       /\ e.op = "rotate_revoke" => ~Verifies(e.old.index, time)
                       /\ e.op = "revoke_previous" => ~Verifies(e.old.index - 1, time)
  BY DEF RetirementKept
<1> DEFINE e == log[Followed][i]
<1>1. Followed \in Committee /\ GovernanceTypeOK /\ Unknown # Open /\ Unknown \notin Nat /\ Open \notin Nat
  BY CommitteeCellAssumption DEF MirrorCommitteeAssumption, SetsInv, GovernanceInv
<1>2. i \in 1..Len(log[Followed]) /\ e \in LogEntry
  BY <1>1 DEF GovernanceTypeOK
<1>3. /\ e.op \in Operation /\ e.old \in PublisherSetData /\ e.next \in PublisherSetData
      /\ e.next = CellAt(Followed, i)
      /\ CheckTransition(e.old, e.next, e.op)
  BY <1>2 DEF SetsInv, LogTells, LogEntry
<1>4. e.next.index # 0 =>
        \/ e.next.until = 0 /\ sets[e.next.index - 1] = Unknown
        \/ sets[e.next.index - 1] \in Nat /\ sets[e.next.index - 1] <= e.next.until
  BY <1>3 DEF SetsInv, ViewInv, Kept
<1>5. /\ e.old.index \in Nat /\ e.old.until \in Nat /\ e.next.until \in Nat
      /\ e.old.until # 0 => e.old.index # 0
  BY <1>3, DataType
<1> HIDE DEF e
<1>6. ASSUME e.op = "rotate", Verifies(e.old.index, time)
      PROVE  time < e.next.until
  <2>1. e.next.index = e.old.index + 1 /\ e.next.until > e.old.until
    BY <1>3, <1>6 DEF CheckTransition, NextSet
  <2>2. sets[e.old.index] \in Nat /\ sets[e.old.index] <= e.next.until
    BY <1>4, <1>5, <2>1
  <2>3. time < sets[e.old.index]
    BY <1>1, <1>6, <2>2 DEF Verifies
  <2> QED
    BY <1>5, <2>2, <2>3
<1>7. ASSUME e.op = "rotate_revoke"
      PROVE  ~Verifies(e.old.index, time)
  <2>1. e.next.index = e.old.index + 1 /\ e.next.until = 0
    BY <1>3, <1>7 DEF CheckTransition, NextSet
  <2>2. sets[e.old.index] = Unknown \/ sets[e.old.index] = 0
    BY <1>4, <1>5, <2>1
  <2> QED
    BY <1>1, <2>2 DEF Verifies
<1>8. ASSUME e.op = "revoke_previous"
      PROVE  ~Verifies(e.old.index - 1, time)
  <2>1. e.next.index = e.old.index /\ e.old.until # 0 /\ e.next.until = 0
    BY <1>3, <1>8 DEF CheckTransition
  <2>2. sets[e.old.index - 1] = Unknown \/ sets[e.old.index - 1] = 0
    BY <1>4, <1>5, <2>1
  <2> QED
    BY <1>1, <2>2 DEF Verifies
<1> QED
  BY <1>6, <1>7, <1>8 DEF e

LEMMA SetsInvariant == ASSUME MirrorCommitteeAssumption PROVE Spec => []SetsInv
<1>0. Followed \in Committee
  BY CommitteeCellAssumption DEF MirrorCommitteeAssumption
<1>1. Init => SetsInv
  <2> SUFFICES ASSUME Init PROVE SetsInv
    OBVIOUS
  <2>1. GovernanceInv /\ LogTells(Followed)
    BY <1>0, ChainInitial DEF Init
  <2>2. ViewInv
    BY DEF Init, ViewInv
  <2> QED
    BY <2>1, <2>2 DEF SetsInv
<1>2. SetsInv /\ [Next]_vars => SetsInv'
  <2> SUFFICES ASSUME SetsInv, [Next]_vars PROVE SetsInv'
    OBVIOUS
  <2>1. CASE [GovernanceNext]_govern /\ UNCHANGED view
    <3>1. GovernanceInv' /\ LogTells(Followed)' /\ Grows(Followed)
      BY <1>0, <2>1, ChainStep DEF SetsInv
    <3>2. ViewInv'
      BY <2>1, <3>1, ViewStays DEF GovernanceInv
    <3> QED
      BY <3>1, <3>2 DEF SetsInv
  <2>2. CASE UNCHANGED govern /\ ViewInv'
    <3>1. GovernanceInv' /\ LogTells(Followed)'
      BY <1>0, <2>2, ChainStep DEF SetsInv
    <3> QED
      BY <2>2, <3>1 DEF SetsInv
  <2>3. CASE Refresh
    <3>1. now \in Nat
      BY CommitteeCellAssumption DEF SetsInv, GovernanceInv, GovernanceTypeOK
    <3>2. PICK n \in Index, clock \in now..MaxTime :
            /\ n <= Len(log[Followed])
            /\ \A m \in read : m <= n
            /\ sets' = Observed(CellAt(Followed, n), clock)
            /\ paused' = CellAt(Followed, n).paused
            /\ read' = read \cup {n}
            /\ UNCHANGED <<now, governance>>
      BY <2>3 DEF Refresh
    <3>3. clock \in Nat
      BY <3>1, CommitteeCellAssumption
    <3>4. ViewInv'
      BY <3>2, <3>3, RefreshView
    <3> QED
      BY <2>2, <3>2, <3>4 DEF govern
  <2>4. CASE Restart
    <3>1. ViewInv'
      BY <2>4 DEF Restart, ViewInv
    <3> QED
      BY <2>2, <2>4, <3>1 DEF Restart, govern
  <2>5. CASE UNCHANGED vars
    BY <2>1, <2>5 DEF vars, govern
  <2>6. CASE Block /\ UNCHANGED view
    BY <2>1, <2>6 DEF GovernanceNext
  <2>7. ASSUME NEW c \in Governing, Govern(c), UNCHANGED view
        PROVE  SetsInv'
    BY <2>1, <2>7 DEF GovernanceNext
  <2> QED
    BY <2>3, <2>4, <2>5, <2>6, <2>7 DEF Next
<1> QED
  BY <1>1, <1>2, PTL DEF Spec

\* For any interval, bound and operations, read in any subset and across restarts, a
\* mirror takes of its sets what the chain would take next to the cell it last read,
\* and of what it saw retired no more than was left (Committee.observe, verify).
THEOREM MirrorFollows == ASSUME MirrorCommitteeAssumption PROVE Spec => []SetsTrue
<1>1. SetsInv => SetsTrue
  BY ViewTells, ViewKeeps DEF SetsTrue
<1> QED
  BY <1>1, SetsInvariant, PTL

-----------------------------------------------------------------------------
(* The client's cell *)

asking == <<now, governance, client>>

\* Nonce n was the newest until a delay before t, or is.
Since(n, t) ==
  /\ n \in 0..Newest
  /\ n < Newest => log[Asked][n + 1].at + Delay >= t

CacheSound ==
  /\ cached.at \in Nat /\ cached.at <= now
  /\ Since(cached.nonce, cached.at)

ClientInv ==
  /\ \A r \in reads : r.until \in Nat /\ r.until <= now + Delay /\ Since(r.nonce, r.until)
  /\ cached # Nothing => CacheSound
  /\ request # Nothing /\ request.phase = "get" =>
       /\ CacheSound
       /\ request.until \in Nat
       /\ request.until <= cached.at + CacheTime + Timeout

HoldsInv == GovernanceInv /\ LogTells(Asked) /\ ClientInv

LEMMA HoldsTypes ==
  ASSUME OracleClientAssumption, HoldsInv
  PROVE  /\ Asked \in Committee
         /\ now \in Nat /\ Newest \in Nat
         /\ CacheTime \in Nat /\ Delay \in Nat /\ Timeout \in Nat
         /\ \A i \in 1..Newest : log[Asked][i].at \in Nat
<1>1. Asked \in Committee /\ CacheTime \in Nat /\ Delay \in Nat /\ Timeout \in Nat
  BY CommitteeCellAssumption DEF OracleClientAssumption
<1>2. now \in Nat /\ log[Asked] \in Seq(LogEntry)
  BY <1>1, CommitteeCellAssumption DEF HoldsInv, GovernanceInv, GovernanceTypeOK
<1>3. Newest \in Nat /\ \A i \in 1..Newest : log[Asked][i] \in LogEntry
  BY <1>2 DEF Newest
<1>4. \A i \in 1..Newest : log[Asked][i].at \in Nat
  BY <1>3, CommitteeCellAssumption DEF LogEntry
<1> QED
  BY <1>1, <1>2, <1>3, <1>4

\* What was newest stays so, or was until now.
LEMMA SinceStays ==
  ASSUME OracleClientAssumption, HoldsInv, Grows(Asked), (Newest \in Nat)',
         NEW n, NEW t \in Nat, Since(n, t), t <= now + Delay
  PROVE  Since(n, t)'
<1>1. /\ Newest \in Nat /\ Newest' \in Nat /\ Newest <= Newest'
      /\ n \in 0..Newest /\ now \in Nat /\ Delay \in Nat
  BY HoldsTypes DEF Grows, Newest, Since
<1>2. \A i \in 1..Newest' :
        IF i <= Newest THEN log'[Asked][i] = log[Asked][i] ELSE log'[Asked][i].at = now
  BY DEF Grows, Newest
<1>3. ASSUME n < Newest'
      PROVE  log'[Asked][n + 1].at + Delay >= t
  <2>1. n + 1 \in 1..Newest'
    BY <1>1, <1>3
  <2>2. CASE n < Newest
    <3>1. log'[Asked][n + 1] = log[Asked][n + 1]
      BY <1>1, <1>2, <2>1, <2>2
    <3> QED
      BY <2>2, <3>1 DEF Since
  <2>3. CASE n = Newest
    <3>1. log'[Asked][n + 1].at = now
      BY <1>1, <1>2, <2>1, <2>3
    <3> QED
      BY <3>1
  <2> QED
    BY <1>1, <2>2, <2>3
<1> QED
  BY <1>1, <1>3 DEF Since

\* Time passes and governance acts: what is held only gets older.
LEMMA ClientStays ==
  ASSUME OracleClientAssumption, HoldsInv, Grows(Asked), (Newest \in Nat)', (now \in Nat)',
         UNCHANGED client
  PROVE  ClientInv'
<1>1. cached' = cached /\ reads' = reads /\ request' = request
  BY DEF client
<1>2. now \in Nat /\ Delay \in Nat /\ now <= now'
  BY HoldsTypes DEF Grows
<1>3. CacheSound => CacheSound'
  <2> SUFFICES ASSUME CacheSound PROVE CacheSound'
    OBVIOUS
  <2>1. cached.at \in Nat /\ cached.at <= now /\ cached.at <= now + Delay
    BY <1>2 DEF CacheSound
  <2>2. Since(cached.nonce, cached.at)
    BY DEF CacheSound
  <2>3. PICK nn, tt : nn = cached.nonce /\ tt = cached.at
    OBVIOUS
  <2>4. Since(nn, tt)'
    BY <2>1, <2>2, <2>3, SinceStays
  <2>5. cached'.nonce = nn /\ cached'.at = tt
    BY <1>1, <2>3
  <2>6. Since(cached.nonce, cached.at)'
    BY <2>4, <2>5 DEF Since
  <2>7. cached'.at \in Nat /\ cached'.at <= now'
    BY <1>1, <1>2, <2>1
  <2> QED
    BY <2>6, <2>7 DEF CacheSound
<1>4. ASSUME NEW r \in reads
      PROVE  r.until \in Nat /\ r.until <= now' + Delay /\ Since(r.nonce, r.until)'
  <2>1. r.until \in Nat /\ r.until <= now + Delay /\ Since(r.nonce, r.until)
    BY DEF HoldsInv, ClientInv
  <2>2. Since(r.nonce, r.until)'
    BY <2>1, SinceStays
  <2> QED
    BY <1>2, <2>1, <2>2
<1>5. \A r \in reads' : (r.until \in Nat /\ r.until <= now + Delay /\ Since(r.nonce, r.until))'
  BY <1>1, <1>4
<1> QED
  BY <1>1, <1>3, <1>5 DEF HoldsInv, ClientInv

\* The client's own steps, next to a cell and at a time that stay.
LEMMA ClientStep ==
  ASSUME OracleClientAssumption, HoldsInv, ClientNext
  PROVE  UNCHANGED govern /\ ClientInv'
<1> DEFINE ReadSound(r) == r.until \in Nat /\ r.until <= now + Delay /\ Since(r.nonce, r.until)
           Fresh(until) == until \in Nat /\ until <= cached.at + CacheTime + Timeout
<1>1. /\ now \in Nat /\ Newest \in Nat
      /\ CacheTime \in Nat /\ Delay \in Nat /\ Timeout \in Nat
      /\ \A i \in 1..Newest : log[Asked][i].at \in Nat
  BY HoldsTypes
<1>2. UNCHANGED govern
  BY DEF ClientNext, GetCommittee, Received, ReadFails, LatestPrices, Answered, govern
<1>3. now' = now /\ log' = log
  BY <1>2 DEF govern, governance
<1>4. /\ \A r \in reads : ReadSound(r)
      /\ cached # Nothing => CacheSound
      /\ request # Nothing /\ request.phase = "get" => CacheSound /\ Fresh(request.until)
  BY DEF HoldsInv, ClientInv
<1>5. \A n, t : Since(n, t)' <=> Since(n, t)
  BY <1>3 DEF Since, Newest
<1>6. \A r : r \in reads \/ r = [nonce |-> Newest, until |-> now + Delay, awaited |-> r.awaited] => ReadSound(r)
  <2>1. Since(Newest, now + Delay)
    BY <1>1 DEF Since
  <2> QED
    BY <1>1, <1>4, <2>1
\* The invariant, of a step that leaves what is cached.
<1>7. ASSUME cached' = cached,
             \A r \in reads' : ReadSound(r),
             request' # Nothing /\ request'.phase = "get" => CacheSound /\ Fresh(request'.until)
      PROVE  ClientInv'
  <2>1. CacheSound' <=> CacheSound
    BY <1>3, <1>5, <1>7 DEF CacheSound
  <2>2. \A r \in reads' : r.until \in Nat /\ r.until <= now' + Delay /\ Since(r.nonce, r.until)'
    BY <1>3, <1>5, <1>7
  <2> QED
    BY <1>4, <1>7, <2>1, <2>2 DEF ClientInv
<1> HIDE DEF ReadSound
<1>8. ASSUME NEW awaited, Reading(awaited)
      PROVE  \A r \in reads' : ReadSound(r)
  BY <1>6, <1>8 DEF Reading
<1>9. CASE GetCommittee
  BY <1>2, <1>4, <1>7, <1>8, <1>9 DEF GetCommittee
<1>10. CASE Received
  <2>1. PICK r \in reads :
          /\ now <= r.until
          /\ reads' = reads \ {r}
          /\ cached' = [nonce |-> r.nonce, at |-> now]
          /\ request' = IF r.awaited THEN [phase |-> "get", until |-> now + Timeout] ELSE request
    BY <1>10 DEF Received
  <2>2. cached'.nonce = r.nonce /\ cached'.at = now
    BY <2>1
  <2>3. Since(r.nonce, now)
    <3>1. r.until \in Nat /\ Since(r.nonce, r.until)
      BY <1>4 DEF ReadSound
    <3>2. ASSUME r.nonce < Newest
          PROVE  log[Asked][r.nonce + 1].at + Delay >= now
      <4>1. r.nonce + 1 \in 1..Newest /\ log[Asked][r.nonce + 1].at + Delay >= r.until
        BY <1>1, <3>1, <3>2 DEF Since
      <4>2. log[Asked][r.nonce + 1].at \in Nat
        BY <1>1, <4>1
      <4> QED
        BY <1>1, <2>1, <3>1, <4>1, <4>2
    <3> QED
      BY <3>1, <3>2 DEF Since
  <2>4. CacheSound'
    BY <1>1, <1>3, <1>5, <2>2, <2>3 DEF CacheSound
  <2>5. \A q \in reads' : q.until \in Nat /\ q.until <= now' + Delay /\ Since(q.nonce, q.until)'
    BY <1>3, <1>4, <1>5, <2>1 DEF ReadSound
  <2>6. ASSUME request' # Nothing, request'.phase = "get"
        PROVE  request'.until \in Nat /\ request'.until <= cached'.at + CacheTime + Timeout
    <3>1. CASE r.awaited
      <4>1. request'.until = now + Timeout
        BY <2>1, <3>1
      <4> QED
        BY <1>1, <2>2, <4>1
    <3>2. CASE ~r.awaited
      <4>1. request' = request
        BY <2>1, <3>2
      <4>2. CacheSound /\ Fresh(request.until)
        BY <1>4, <2>6, <4>1
      <4>3. cached.at \in Nat /\ cached.at <= now
        BY <4>2 DEF CacheSound
      <4> QED
        BY <1>1, <2>2, <4>1, <4>2, <4>3
    <3> QED
      BY <3>1, <3>2
  <2> QED
    BY <1>2, <2>4, <2>5, <2>6 DEF ClientInv
<1>11. CASE ReadFails
  <2>1. /\ reads' \subseteq reads /\ cached' = cached
        /\ request' = Nothing \/ request' = request
    BY <1>11 DEF ReadFails
  <2> QED
    BY <1>2, <1>4, <1>7, <2>1
<1>12. CASE LatestPrices
  <2>1. CASE Stale
    <3>1. /\ Reading(TRUE) /\ cached' = cached
          /\ request' = [phase |-> "verifiable", until |-> now + Delay]
      BY <1>12, <2>1 DEF LatestPrices
    <3>2. request'.phase # "get"
      BY <3>1
    <3> QED
      BY <1>2, <1>7, <1>8, <3>1, <3>2
  <2>2. CASE ~Stale
    <3>1. /\ reads' = reads /\ cached' = cached
          /\ request' = [phase |-> "get", until |-> now + Timeout]
      BY <1>12, <2>2 DEF LatestPrices
    <3>2. CacheSound /\ ~(now - cached.at > CacheTime)
      BY <1>4, <2>2 DEF Stale
    <3>3. Fresh(now + Timeout)
      BY <1>1, <3>2 DEF CacheSound
    <3>4. request'.until = now + Timeout
      BY <3>1
    <3> QED
      BY <1>2, <1>4, <1>7, <3>1, <3>2, <3>3, <3>4
  <2> QED
    BY <2>1, <2>2
<1>13. CASE Answered
  BY <1>2, <1>4, <1>7, <1>13 DEF Answered
<1> QED
  BY <1>9, <1>10, <1>11, <1>12, <1>13 DEF ClientNext

LEMMA HoldsInvariant == ASSUME OracleClientAssumption PROVE OracleSpec => []HoldsInv
<1>0. Asked \in Committee /\ Asked \in Governing
  BY CommitteeCellAssumption DEF OracleClientAssumption
<1>1. OracleInit => HoldsInv
  <2> SUFFICES ASSUME OracleInit PROVE HoldsInv
    OBVIOUS
  <2>1. GovernanceInv /\ LogTells(Asked)
    BY <1>0, ChainInitial DEF OracleInit
  <2>2. ClientInv
    BY DEF OracleInit, ClientInit, ClientInv
  <2> QED
    BY <2>1, <2>2 DEF HoldsInv
<1>2. HoldsInv /\ [OracleNext]_asking => HoldsInv'
  <2> SUFFICES ASSUME HoldsInv, [OracleNext]_asking PROVE HoldsInv'
    OBVIOUS
  <2>1. CASE [GovernanceNext]_govern /\ UNCHANGED client
    <3>1. GovernanceInv' /\ LogTells(Asked)' /\ Grows(Asked)
      BY <1>0, <2>1, ChainStep DEF HoldsInv
    <3>2. (Newest \in Nat)' /\ (now \in Nat)'
      BY <1>0, <3>1, CommitteeCellAssumption DEF GovernanceInv, GovernanceTypeOK, Newest
    <3>3. ClientInv'
      BY <2>1, <3>1, <3>2, ClientStays
    <3> QED
      BY <3>1, <3>3 DEF HoldsInv
  <2>2. CASE ClientNext
    <3>1. UNCHANGED govern /\ ClientInv'
      BY <2>2, ClientStep
    <3>2. GovernanceInv' /\ LogTells(Asked)'
      BY <1>0, <3>1, ChainStep DEF HoldsInv
    <3> QED
      BY <3>1, <3>2 DEF HoldsInv
  <2>3. CASE UNCHANGED asking
    BY <2>1, <2>3 DEF asking, govern
  <2>4. CASE Block /\ UNCHANGED client
    BY <2>1, <2>4 DEF GovernanceNext
  <2>5. CASE Govern(Asked) /\ UNCHANGED client
    BY <1>0, <2>1, <2>5 DEF GovernanceNext
  <2> QED
    BY <2>2, <2>3, <2>4, <2>5 DEF OracleNext
<1> QED
  BY <1>1, <1>2, PTL DEF OracleSpec, asking

\* The cell that is held witnesses it: it was the newest until a delay before it came.
LEMMA HeldIsRecent == ASSUME OracleClientAssumption, HoldsInv PROVE VerifiedRecently
<1> SUFFICES ASSUME Pending, NEW set \in Index, NEW time \in 1..MaxTime, Checked(set, time)
             PROVE  \E n \in 0..Newest :
                      /\ n < Newest => log[Asked][n + 1].at + CacheTime + Delay + Timeout >= now
                      /\ ~CellAt(Asked, n).paused
                      /\ SetFor(CellAt(Asked, n), set, time)
  BY DEF VerifiedRecently
<1>1. /\ now \in Nat /\ Newest \in Nat
      /\ CacheTime \in Nat /\ Delay \in Nat /\ Timeout \in Nat
      /\ \A i \in 1..Newest : log[Asked][i].at \in Nat
  BY HoldsTypes
<1>2. /\ CacheSound
      /\ request.until \in Nat /\ now <= request.until
      /\ request.until <= cached.at + CacheTime + Timeout
  BY DEF Pending, HoldsInv, ClientInv
<1>3. cached.at \in Nat /\ Since(cached.nonce, cached.at)
  BY <1>2 DEF CacheSound
<1>4. PICK n \in 0..Newest : n = cached.nonce
  BY <1>3 DEF Since
<1>5. ~CellAt(Asked, n).paused /\ SetFor(CellAt(Asked, n), set, time)
  BY <1>4 DEF Checked
<1>6. ASSUME n < Newest
      PROVE  log[Asked][n + 1].at + CacheTime + Delay + Timeout >= now
  <2>1. log[Asked][n + 1].at \in Nat
    BY <1>1, <1>6
  <2>2. log[Asked][n + 1].at + Delay >= cached.at
    BY <1>3, <1>4, <1>6 DEF Since
  <2> QED
    BY <1>1, <1>2, <1>3, <2>1, <2>2
<1> QED
  BY <1>5, <1>6

\* For any cache time, delays and operations, and any reads that overlap and overtake
\* each other: what the client verifies, the chain would have taken a bounded time ago
\* (verifiable, checked).
THEOREM ClientRecent == ASSUME OracleClientAssumption PROVE OracleSpec => []VerifiedRecently
<1>1. HoldsInv => VerifiedRecently
  BY HeldIsRecent
<1> QED
  BY <1>1, HoldsInvariant, PTL


-----------------------------------------------------------------------------
(* The mirror's API *)

Buckets == [tokens : Nat, updated : Nat, streams : Nat]

\* When the bucket's tokens were counted, and how many: a bucket that is not there is full.
Counted == IF bucket = NoBucket THEN step ELSE bucket.updated
Tokens == IF bucket = NoBucket THEN Burst ELSE bucket.tokens

ApiTypeOK ==
  /\ step \in Nat /\ granted \in Seq(Nat)
  /\ bucket \in Buckets \cup {NoBucket}
  /\ bucket # NoBucket => bucket.tokens <= Burst /\ bucket.updated <= step

\* From any request on, what was let through and what is left is within the burst and
\* what the time until it was counted brings.
Bounded(g, at, left) ==
  \A i \in DOMAIN g :
    /\ g[i] <= at
    /\ (Len(g) - i + 1) * Cost * SweepAfter + left * SweepAfter
         <= Burst * SweepAfter + (at - g[i]) * Sustained

ApiInv == ApiTypeOK /\ Bounded(granted, Counted, Tokens) /\ RequestsBounded

LEMMA ApiConstants ==
  /\ Cost \in Nat /\ Burst \in Nat /\ SweepAfter \in Nat
  /\ NoBucket \notin Buckets
BY MirrorApiAssumption DEF Buckets

LEMMA SustainedAtLeast == Sustained \in Nat /\ SweepAfter <= Sustained /\ Burst <= Sustained
BY ApiConstants DEF Sustained

LEMMA Times ==
  ASSUME NEW a \in Int, NEW b \in Int, NEW c \in Nat
  PROVE  /\ a * c \in Int
         /\ (a + b) * c = a * c + b * c
         /\ a <= b => a * c <= b * c
         /\ a >= 0 => a * c >= 0
         /\ a * c = c * a
OBVIOUS

LEMMA CountedType ==
  ASSUME ApiTypeOK
  PROVE  Counted \in Nat /\ Counted <= step /\ Tokens \in Nat /\ Tokens <= Burst
BY ApiConstants DEF ApiTypeOK, Buckets, Counted, Tokens

\* What the bound says of one request, with its products named.
Within(spent, at, left, from) ==
  spent + left * SweepAfter <= Burst * SweepAfter + (at - from) * Sustained

\* The tokens are counted later, and time brought no more than itself.
LEMMA BoundedLater ==
  ASSUME NEW g \in Seq(Nat), NEW at \in Nat, NEW left \in Nat, Bounded(g, at, left),
         NEW later \in Nat, at <= later, NEW more \in Nat, more <= left + (later - at)
  PROVE  Bounded(g, later, more)
<1> SUFFICES ASSUME NEW i \in DOMAIN g
             PROVE  /\ g[i] <= later
                    /\ Within((Len(g) - i + 1) * Cost * SweepAfter, later, more, g[i])
  BY DEF Bounded, Within
<1> DEFINE spent == (Len(g) - i + 1) * Cost * SweepAfter
           d == later - at
<1>1. spent \in Int /\ g[i] \in Nat /\ d \in Nat /\ later = at + d
  BY ApiConstants
<1>2. g[i] <= at /\ spent + left * SweepAfter <= Burst * SweepAfter + (at - g[i]) * Sustained
  BY DEF Bounded
<1> HIDE DEF spent, d
<1>3. more * SweepAfter <= left * SweepAfter + d * SweepAfter
  <2>1. more * SweepAfter <= (left + d) * SweepAfter
    BY <1>1, Times, ApiConstants
  <2> QED
    BY <1>1, <2>1, Times, ApiConstants
<1>4. d * SweepAfter <= d * Sustained
  BY <1>1, Times, ApiConstants, SustainedAtLeast
<1>5. (later - g[i]) * Sustained = (at - g[i]) * Sustained + d * Sustained
  <2>1. later - g[i] = (at - g[i]) + d /\ at - g[i] \in Int
    BY <1>1
  <2> QED
    BY <1>1, <2>1, Times, SustainedAtLeast
<1>6. /\ more * SweepAfter \in Int /\ left * SweepAfter \in Int /\ d * SweepAfter \in Int
      /\ d * Sustained \in Int /\ (at - g[i]) * Sustained \in Int /\ Burst * SweepAfter \in Int
  BY <1>1, ApiConstants, SustainedAtLeast
<1>7. Within(spent, later, more, g[i])
  <2> DEFINE m == more * SweepAfter
             l == left * SweepAfter
             b == Burst * SweepAfter
             x == (at - g[i]) * Sustained
             y == d * Sustained
             z == (later - g[i]) * Sustained
  <2>1. m <= l + y /\ z = x + y /\ spent + l <= b + x
    BY <1>2, <1>3, <1>4, <1>5, <1>6
  <2>2. m \in Int /\ l \in Int /\ b \in Int /\ x \in Int /\ y \in Int /\ spent \in Int
    BY <1>1, <1>6
  <2> HIDE DEF m, l, b, x, y, z
  <2>3. spent + m <= b + z
    BY <2>1, <2>2
  <2> QED
    BY <2>3 DEF Within, m, b, z
<1> QED
  BY <1>1, <1>2, <1>7 DEF spent

\* A bucket that is forgotten comes back full, but not before SweepAfter.
LEMMA BoundedAnew ==
  ASSUME NEW g \in Seq(Nat), NEW at \in Nat, NEW left \in Nat, Bounded(g, at, left),
         NEW later \in Nat, at + SweepAfter <= later
  PROVE  Bounded(g, later, Burst)
<1> SUFFICES ASSUME NEW i \in DOMAIN g
             PROVE  /\ g[i] <= later
                    /\ Within((Len(g) - i + 1) * Cost * SweepAfter, later, Burst, g[i])
  BY DEF Bounded, Within
<1> DEFINE spent == (Len(g) - i + 1) * Cost * SweepAfter
           d == later - at
<1>1. spent \in Int /\ g[i] \in Nat /\ d \in Nat /\ later = at + d /\ SweepAfter <= d
  BY ApiConstants
<1>2. g[i] <= at /\ spent + left * SweepAfter <= Burst * SweepAfter + (at - g[i]) * Sustained
  BY DEF Bounded
<1> HIDE DEF spent, d
<1>3. Burst * SweepAfter <= d * Sustained
  <2>1. Burst * SweepAfter <= Sustained * SweepAfter
    BY Times, ApiConstants, SustainedAtLeast
  <2>2. SweepAfter * Sustained <= d * Sustained
    BY <1>1, Times, ApiConstants, SustainedAtLeast
  <2>3. Sustained * SweepAfter = SweepAfter * Sustained
    BY Times, ApiConstants, SustainedAtLeast
  <2> QED
    BY <1>1, <2>1, <2>2, <2>3, ApiConstants, SustainedAtLeast
<1>4. (later - g[i]) * Sustained = (at - g[i]) * Sustained + d * Sustained
  <2>1. later - g[i] = (at - g[i]) + d /\ at - g[i] \in Int
    BY <1>1
  <2> QED
    BY <1>1, <2>1, Times, SustainedAtLeast
<1>5. /\ left * SweepAfter >= 0 /\ left * SweepAfter \in Int /\ d * Sustained \in Int
      /\ (at - g[i]) * Sustained \in Int /\ Burst * SweepAfter \in Int
  BY <1>1, Times, ApiConstants, SustainedAtLeast
<1>6. Within(spent, later, Burst, g[i])
  BY <1>1, <1>2, <1>3, <1>4, <1>5 DEF Within
<1> QED
  BY <1>1, <1>2, <1>6, ApiConstants DEF spent

\* A request is let through, of tokens counted at that time.
LEMMA BoundedTaken ==
  ASSUME NEW g \in Seq(Nat), NEW at \in Nat, NEW left \in Nat, Bounded(g, at, left), Cost <= left, left <= Burst
  PROVE  Bounded(Append(g, at), at, left - Cost)
<1> DEFINE h == Append(g, at)
<1>1. /\ Len(g) \in Nat /\ Len(h) = Len(g) + 1 /\ DOMAIN g = 1..Len(g) /\ DOMAIN h = 1..(Len(g) + 1)
      /\ \A i \in DOMAIN g : h[i] = g[i] /\ g[i] \in Nat
      /\ h[Len(g) + 1] = at
  OBVIOUS
<1> HIDE DEF h
<1>2. (left - Cost) * SweepAfter + Cost * SweepAfter = left * SweepAfter /\ left - Cost \in Nat
  BY Times, ApiConstants
<1>3. left * SweepAfter <= Burst * SweepAfter
  BY Times, ApiConstants
<1>4. /\ left * SweepAfter \in Int /\ Burst * SweepAfter \in Int /\ Cost * SweepAfter \in Int
      /\ (left - Cost) * SweepAfter \in Int
  BY <1>2, Times, ApiConstants
<1> SUFFICES ASSUME NEW i \in DOMAIN h
             PROVE  /\ h[i] <= at
                    /\ Within((Len(h) - i + 1) * Cost * SweepAfter, at, left - Cost, h[i])
  BY DEF Bounded, Within, h
<1>5. CASE i = Len(g) + 1
  <2>1. (Len(h) - i + 1) * Cost * SweepAfter = Cost * SweepAfter /\ (at - h[i]) * Sustained = 0 /\ h[i] = at
    BY <1>1, <1>5, ApiConstants, SustainedAtLeast
  <2> QED
    BY <1>2, <1>3, <1>4, <2>1 DEF Within
<1>6. CASE i \in DOMAIN g
  <2>1. h[i] = g[i] /\ g[i] \in Nat /\ Len(h) - i + 1 = (Len(g) - i + 1) + 1 /\ Len(g) - i + 1 \in Int
    BY <1>1, <1>6
  <2>2. /\ g[i] <= at
        /\ (Len(g) - i + 1) * Cost * SweepAfter + left * SweepAfter <= Burst * SweepAfter + (at - g[i]) * Sustained
    BY <1>6 DEF Bounded
  <2>3. \A n \in Int : /\ n * Cost * SweepAfter \in Int
                       /\ (n + 1) * Cost * SweepAfter = n * Cost * SweepAfter + Cost * SweepAfter
    <3> TAKE n \in Int
    <3>1. (n + 1) * Cost = n * Cost + Cost /\ n * Cost \in Int
      BY ApiConstants
    <3> QED
      BY <3>1, Times, ApiConstants
  <2> DEFINE spent == (Len(g) - i + 1) * Cost * SweepAfter
             more == (Len(h) - i + 1) * Cost * SweepAfter
             brought == (at - g[i]) * Sustained
  <2>4. spent \in Int /\ more = spent + Cost * SweepAfter /\ brought \in Int
    <3>1. spent \in Int /\ ((Len(g) - i + 1) + 1) * Cost * SweepAfter = spent + Cost * SweepAfter
      <4>1. Len(g) - i + 1 \in Int
        BY <2>1
      <4> QED
        BY <2>3, <4>1
    <3>2. brought \in Int
      BY <2>1, SustainedAtLeast
    <3> QED
      BY <2>1, <3>1, <3>2
  <2>5. spent + left * SweepAfter <= Burst * SweepAfter + brought
    BY <2>2
  <2> HIDE DEF spent, more, brought
  <2>6. more + (left - Cost) * SweepAfter <= Burst * SweepAfter + brought
    BY <1>2, <1>4, <2>4, <2>5
  <2> QED
    BY <2>1, <2>2, <2>6 DEF Within, more, brought
<1> QED
  BY <1>1, <1>5, <1>6

\* The bucket, refilled: counted now, with no more than time brought.
LEMMA Refilled ==
  ASSUME ApiInv
  PROVE  \E left \in Nat, n \in Nat :
           /\ Bucket = [tokens |-> left, updated |-> step, streams |-> n]
           /\ left <= Burst /\ Bounded(granted, step, left)
<1>1. ApiTypeOK /\ step \in Nat /\ granted \in Seq(Nat) /\ Bounded(granted, Counted, Tokens)
  BY DEF ApiInv, ApiTypeOK
<1>2. CASE bucket = NoBucket
  <2>1. Bucket = [tokens |-> Burst, updated |-> step, streams |-> 0] /\ Counted = step /\ Tokens = Burst
    BY <1>2 DEF Bucket, Counted, Tokens
  <2> QED
    BY <1>1, <2>1, ApiConstants
<1>3. CASE bucket # NoBucket
  <2>1. PICK a \in Nat, b \in Nat, n \in Nat : bucket = [tokens |-> a, updated |-> b, streams |-> n]
    BY <1>1, <1>3 DEF ApiTypeOK, Buckets
  <2>2. bucket.tokens = a /\ bucket.updated = b /\ b <= step /\ Tokens = a /\ Counted = b
    BY <1>1, <1>3, <2>1 DEF ApiTypeOK, Tokens, Counted
  <2> DEFINE left == Least(Burst, a + (step - b))
  <2>3. Bucket = [[tokens |-> a, updated |-> b, streams |-> n] EXCEPT !.tokens = left, !.updated = step]
    BY <1>3, <2>1, <2>2 DEF Bucket
  <2>4. left \in Nat /\ left <= Burst /\ left <= a + (step - b)
    BY <1>1, <2>2, ApiConstants DEF Least
  <2> HIDE DEF left
  <2>5. Bucket = [tokens |-> left, updated |-> step, streams |-> n]
    BY <2>3
  <2>6. Bounded(granted, step, left)
    BY <1>1, <2>2, <2>4, BoundedLater
  <2> QED
    BY <2>4, <2>5, <2>6
<1> QED
  BY <1>2, <1>3

\* A bucket with those tokens, counted now.
LEMMA BucketKeeps ==
  ASSUME ApiInv, UNCHANGED <<step, granted>>, NEW left \in Nat, left <= Burst, Bounded(granted, step, left),
         NEW n \in Nat, bucket' = [tokens |-> left, updated |-> step, streams |-> n]
  PROVE  ApiInv'
<1>1. step \in Nat /\ granted \in Seq(Nat)
  BY DEF ApiInv, ApiTypeOK
<1>2. bucket' \in Buckets /\ bucket' # NoBucket /\ bucket'.tokens = left /\ bucket'.updated = step
  BY <1>1, ApiConstants DEF Buckets
<1>3. ApiTypeOK'
  BY <1>1, <1>2 DEF ApiTypeOK
<1>4. Counted' = step /\ Tokens' = left
  BY <1>2 DEF Counted, Tokens
<1>5. RequestsBounded'
  BY DEF ApiInv, RequestsBounded
<1>6. Bounded(granted, step, left)' <=> Bounded(granted, step, left)
  BY DEF Bounded
<1>7. Bounded(granted, Counted, Tokens)'
  BY <1>4 DEF Bounded
<1> QED
  BY <1>3, <1>5, <1>7 DEF ApiInv

LEMMA TakeKeeps == ASSUME ApiInv, Take PROVE ApiInv'
<1>1. PICK left \in Nat, n \in Nat :
        /\ Bucket = [tokens |-> left, updated |-> step, streams |-> n]
        /\ left <= Burst /\ Bounded(granted, step, left)
  BY Refilled
<1>2. step' = step /\ step \in Nat /\ granted \in Seq(Nat)
  BY DEF Take, ApiInv, ApiTypeOK
<1>3. CASE left < Cost
  <2>1. bucket' = [tokens |-> left, updated |-> step, streams |-> n] /\ granted' = granted
    BY <1>1, <1>3, ApiConstants DEF Take
  <2> QED
    BY <1>1, <1>2, <2>1, BucketKeeps
<1>4. CASE Cost <= left
  <2>1. bucket' = [Bucket EXCEPT !.tokens = @ - Cost] /\ granted' = Append(granted, step)
    BY <1>1, <1>4, ApiConstants DEF Take
  <2>2. bucket' = [tokens |-> left - Cost, updated |-> step, streams |-> n]
    BY <1>1, <2>1
  <2>3. left - Cost \in Nat /\ left - Cost <= Burst
    BY <1>1, <1>4, ApiConstants
  <2>4. bucket' \in Buckets /\ bucket' # NoBucket /\ bucket'.tokens = left - Cost /\ bucket'.updated = step
    BY <1>2, <2>2, <2>3, ApiConstants DEF Buckets
  <2>5. granted' \in Seq(Nat)
    BY <1>2, <2>1
  <2>6. ApiTypeOK'
    BY <1>2, <2>3, <2>4, <2>5 DEF ApiTypeOK
  <2>7. Bounded(granted', step, left - Cost)
    BY <1>1, <1>2, <1>4, <2>1, BoundedTaken
  <2>8. Counted' = step /\ Tokens' = left - Cost
    BY <2>4 DEF Counted, Tokens
  <2>9. Bounded(granted, Counted, Tokens)'
    BY <2>7, <2>8 DEF Bounded
  <2>10. /\ Len(granted) \in Nat /\ Len(granted') = Len(granted) + 1
         /\ DOMAIN granted = 1..Len(granted) /\ DOMAIN granted' = 1..(Len(granted) + 1)
         /\ \A i \in DOMAIN granted : granted'[i] = granted[i]
         /\ granted'[Len(granted) + 1] = step
    BY <1>2, <2>1
  <2>11. RequestsBounded'
    <3> SUFFICES ASSUME NEW i \in DOMAIN granted', NEW j \in DOMAIN granted', i <= j
                 PROVE  (j - i + 1) * Cost * SweepAfter
                          <= Burst * SweepAfter + (granted'[j] - granted'[i]) * Sustained
      BY DEF RequestsBounded
    <3>1. CASE j = Len(granted) + 1
      <4>1. (j - i + 1) * Cost * SweepAfter + (left - Cost) * SweepAfter
              <= Burst * SweepAfter + (step - granted'[i]) * Sustained
        BY <2>7, <2>10, <3>1 DEF Bounded
      <4>2. granted'[i] \in Nat /\ j - i + 1 \in Int
        BY <2>5, <2>10
      <4>3. (j - i + 1) * Cost \in Int
        BY <4>2, ApiConstants
      <4> DEFINE spent == (j - i + 1) * Cost * SweepAfter
                 brought == (step - granted'[i]) * Sustained
                 rest == (left - Cost) * SweepAfter
      <4>4. spent \in Int /\ brought \in Int /\ rest \in Int /\ rest >= 0 /\ Burst * SweepAfter \in Int
        BY <1>2, <2>3, <4>2, <4>3, Times, ApiConstants, SustainedAtLeast
      <4>5. spent + rest <= Burst * SweepAfter + brought
        BY <4>1
      <4> HIDE DEF spent, brought, rest
      <4>6. spent <= Burst * SweepAfter + brought
        BY <4>4, <4>5
      <4> QED
        BY <2>10, <3>1, <4>6 DEF spent, brought
    <3>2. CASE j \in DOMAIN granted
      <4>1. i \in DOMAIN granted
        BY <2>10, <3>2
      <4> QED
        BY <2>10, <3>2, <4>1 DEF ApiInv, RequestsBounded
    <3> QED
      BY <2>10, <3>1, <3>2
  <2> QED
    BY <2>6, <2>9, <2>11 DEF ApiInv
<1> QED
  BY <1>3, <1>4, <1>1, ApiConstants

\* A stream's slot is taken of the refilled bucket, or given back to it as it is.
LEMMA SlotKeeps ==
  ASSUME ApiInv, UNCHANGED <<step, granted>>,
         \/ bucket' = Bucket
         \/ bucket' = [Bucket EXCEPT !.streams = @ + 1]
         \/ bucket # NoBucket /\ bucket' = Released
         \/ bucket' = bucket
  PROVE  ApiInv'
<1>1. PICK left \in Nat, n \in Nat :
        /\ Bucket = [tokens |-> left, updated |-> step, streams |-> n]
        /\ left <= Burst /\ Bounded(granted, step, left)
  BY Refilled
<1>2. CASE bucket' = Bucket
  BY <1>1, <1>2, BucketKeeps
<1>3. CASE bucket' = [Bucket EXCEPT !.streams = @ + 1]
  <2>1. bucket' = [tokens |-> left, updated |-> step, streams |-> n + 1]
    BY <1>1, <1>3
  <2> QED
    BY <1>1, <2>1, BucketKeeps
<1>4. ASSUME ApiTypeOK', Counted' = Counted, Tokens' = Tokens
      PROVE  ApiInv'
  <2>1. Bounded(granted, Counted, Tokens)' /\ RequestsBounded'
    BY <1>4 DEF ApiInv, Bounded, RequestsBounded
  <2> QED
    BY <1>4, <2>1 DEF ApiInv
<1>5. CASE bucket # NoBucket /\ bucket' = Released
  <2>1. PICK a \in Nat, b \in Nat, k \in Nat : bucket = [tokens |-> a, updated |-> b, streams |-> k]
    BY <1>5 DEF ApiInv, ApiTypeOK, Buckets
  <2>2. bucket' = [tokens |-> a, updated |-> b, streams |-> IF k = 0 THEN 0 ELSE k - 1]
    BY <1>5, <2>1 DEF Released
  <2>3. bucket' \in Buckets /\ bucket' # NoBucket /\ bucket'.tokens = bucket.tokens /\ bucket'.updated = bucket.updated
    BY <2>1, <2>2, ApiConstants DEF Buckets
  <2>4. ApiTypeOK'
    BY <1>5, <2>3 DEF ApiInv, ApiTypeOK
  <2>5. Counted' = Counted /\ Tokens' = Tokens
    BY <1>5, <2>3 DEF Counted, Tokens
  <2> QED
    BY <1>4, <2>4, <2>5
<1>6. CASE bucket' = bucket
  <2>1. ApiTypeOK' /\ Counted' = Counted /\ Tokens' = Tokens
    BY <1>6 DEF ApiInv, ApiTypeOK, Counted, Tokens
  <2> QED
    BY <1>4, <2>1
<1> QED
  BY <1>2, <1>3, <1>5, <1>6

LEMMA SweepKeeps == ASSUME ApiInv, Sweep PROVE ApiInv'
<1>1. /\ bucket # NoBucket /\ step - bucket.updated > SweepAfter
      /\ bucket' = NoBucket /\ UNCHANGED <<step, granted>>
  BY DEF Sweep
<1>2. /\ ApiTypeOK /\ step \in Nat /\ granted \in Seq(Nat) /\ Bounded(granted, Counted, Tokens)
      /\ Counted \in Nat /\ Tokens \in Nat
  BY CountedType DEF ApiInv, ApiTypeOK
<1>3. Counted + SweepAfter <= step
  BY <1>1, <1>2, ApiConstants DEF Counted
<1>4. Bounded(granted, step, Burst)
  BY <1>2, <1>3, BoundedAnew
<1>5. Counted' = step /\ Tokens' = Burst
  BY <1>1 DEF Counted, Tokens
<1>6. Bounded(granted, Counted, Tokens)' /\ RequestsBounded'
  BY <1>1, <1>4, <1>5 DEF ApiInv, Bounded, RequestsBounded
<1>7. ApiTypeOK'
  BY <1>1, <1>2 DEF ApiTypeOK
<1> QED
  BY <1>6, <1>7 DEF ApiInv

LEMMA StepKeeps == ASSUME ApiInv, Step PROVE ApiInv'
<1>1. step' = step + 1 /\ UNCHANGED <<bucket, granted>>
  BY DEF Step
<1>2. /\ ApiTypeOK /\ step \in Nat /\ granted \in Seq(Nat) /\ Bounded(granted, Counted, Tokens)
      /\ Counted \in Nat /\ Tokens \in Nat
  BY CountedType DEF ApiInv, ApiTypeOK
<1>3. ApiTypeOK'
  BY <1>1, <1>2 DEF ApiTypeOK, Buckets
<1>4. Tokens' = Tokens /\ Counted' \in Nat /\ Counted <= Counted'
  BY <1>1, <1>2 DEF Tokens, Counted
<1>5. Bounded(granted, Counted', Tokens)
  BY <1>2, <1>4, BoundedLater
<1>6. Bounded(granted, Counted, Tokens)' /\ RequestsBounded'
  BY <1>1, <1>4, <1>5 DEF ApiInv, Bounded, RequestsBounded
<1> QED
  BY <1>3, <1>6 DEF ApiInv

LEMMA ApiKeeps == ASSUME ApiInv, [ApiNext]_apiVars PROVE ApiInv'
<1>1. CASE Take
  BY <1>1, TakeKeeps
<1>2. CASE Sweep
  BY <1>2, SweepKeeps
<1>3. CASE Step
  BY <1>3, StepKeeps
<1>4. CASE Notice
  BY <1>4, SlotKeeps DEF Notice
<1>5. ASSUME NEW s \in Stream, Connect(s) \/ Abort(s) PROVE ApiInv'
  BY <1>5, SlotKeeps DEF Connect, Abort
<1>6. ASSUME NEW s \in Stream, Lose(s) \/ Close(s) PROVE ApiInv'
  BY <1>6, SlotKeeps DEF Lose, Close
<1>7. CASE UNCHANGED apiVars
  BY <1>7, SlotKeeps DEF apiVars
<1> QED
  BY <1>1, <1>2, <1>3, <1>4, <1>5, <1>6, <1>7 DEF ApiNext

\* The server's sockets of the client have their slots.
SlotsInv ==
  /\ bucket \in Buckets \cup {NoBucket}
  /\ streams \in [Stream -> {"waiting", "open", "closed"}] /\ gone \in Nat
  /\ IF bucket = NoBucket THEN Held = 0 ELSE Held <= bucket.streams /\ bucket.streams <= MaxStreams

LEMMA OpenType == IsFiniteSet(OpenStreams) /\ Cardinality(OpenStreams) \in Nat
<1>1. OpenStreams \subseteq Stream /\ IsFiniteSet(Stream)
  BY MirrorApiAssumption DEF OpenStreams
<1> QED
  BY <1>1, FS_Subset, FS_CardinalityType

\* The open streams when one changes.
LEMMA OneChanges ==
  ASSUME SlotsInv, NEW s \in Stream, NEW to \in {"waiting", "open", "closed"}, streams' = [streams EXCEPT ![s] = to]
  PROVE  /\ streams' \in [Stream -> {"waiting", "open", "closed"}]
         /\ Cardinality(OpenStreams') =
              Cardinality(OpenStreams) + (IF to = "open" THEN 1 ELSE 0) - (IF streams[s] = "open" THEN 1 ELSE 0)
<1>1. streams \in [Stream -> {"waiting", "open", "closed"}]
  BY DEF SlotsInv
<1>2. CASE to = "open"
  <2>1. OpenStreams' = OpenStreams \cup {s} /\ (s \in OpenStreams <=> streams[s] = "open")
    BY <1>1, <1>2 DEF OpenStreams
  <2>2. Cardinality(OpenStreams \cup {s}) = IF s \in OpenStreams THEN Cardinality(OpenStreams) ELSE Cardinality(OpenStreams) + 1
    BY OpenType, FS_AddElement
  <2>3. streams' \in [Stream -> {"waiting", "open", "closed"}]
    BY <1>1
  <2> QED
    BY <1>2, <2>1, <2>2, <2>3, OpenType
<1>3. CASE to # "open"
  <2>1. OpenStreams' = OpenStreams \ {s} /\ (s \in OpenStreams <=> streams[s] = "open")
    BY <1>1, <1>3 DEF OpenStreams
  <2>2. Cardinality(OpenStreams \ {s}) = IF s \in OpenStreams THEN Cardinality(OpenStreams) - 1 ELSE Cardinality(OpenStreams)
    BY OpenType, FS_RemoveElement
  <2>3. streams' \in [Stream -> {"waiting", "open", "closed"}]
    BY <1>1
  <2> QED
    BY <1>3, <2>1, <2>2, <2>3, OpenType
<1> QED
  BY <1>2, <1>3

\* Refilling leaves the slots as they are.
LEMMA RefilledSlots ==
  ASSUME SlotsInv, step \in Nat, bucket # NoBucket => bucket.updated <= step
  PROVE  \E left \in Nat, n \in Nat :
           /\ Bucket = [tokens |-> left, updated |-> step, streams |-> n]
           /\ Held <= n /\ n <= MaxStreams
<1>1. CASE bucket = NoBucket
  <2>1. Bucket = [tokens |-> Burst, updated |-> step, streams |-> 0] /\ Held = 0 /\ MaxStreams \in Nat
    BY <1>1, MirrorApiAssumption DEF Bucket, SlotsInv
  <2> QED
    BY <2>1, ApiConstants
<1>2. CASE bucket # NoBucket
  <2>1. PICK a \in Nat, b \in Nat, n \in Nat : bucket = [tokens |-> a, updated |-> b, streams |-> n]
    BY <1>2 DEF SlotsInv, Buckets
  <2>2. bucket.tokens = a /\ bucket.updated = b /\ b <= step /\ bucket.streams = n
    BY <1>2, <2>1
  <2> DEFINE left == Least(Burst, a + (step - b))
  <2>3. Bucket = [[tokens |-> a, updated |-> b, streams |-> n] EXCEPT !.tokens = left, !.updated = step]
    BY <1>2, <2>1, <2>2 DEF Bucket
  <2>4. left \in Nat
    BY <2>2, ApiConstants DEF Least
  <2> HIDE DEF left
  <2>5. Bucket = [tokens |-> left, updated |-> step, streams |-> n]
    BY <2>3
  <2> QED
    BY <1>2, <2>2, <2>4, <2>5 DEF SlotsInv
<1> QED
  BY <1>1, <1>2

LEMMA SlotsKept == ASSUME ApiInv, SlotsInv, [ApiNext]_apiVars PROVE SlotsInv'
<1> DEFINE Count == Cardinality(OpenStreams)
<1>1. /\ Count \in Nat /\ gone \in Nat /\ Held = Count + gone /\ MaxStreams \in Nat
      /\ streams \in [Stream -> {"waiting", "open", "closed"}]
  BY OpenType, MirrorApiAssumption DEF Held, SlotsInv
<1>2. step \in Nat /\ (bucket # NoBucket => bucket.updated <= step)
  BY DEF ApiInv, ApiTypeOK
<1>3. PICK left \in Nat, n \in Nat : /\ Bucket = [tokens |-> left, updated |-> step, streams |-> n]
                                     /\ Held <= n /\ n <= MaxStreams
  BY <1>2, RefilledSlots
<1>4. ASSUME NEW k \in Nat, NEW l \in Nat, NEW t \in Nat, bucket' = [tokens |-> l, updated |-> t, streams |-> k],
             streams' \in [Stream -> {"waiting", "open", "closed"}], gone' \in Nat,
             Held' <= k, k <= MaxStreams
      PROVE  SlotsInv'
  <2>1. bucket' \in Buckets /\ bucket' # NoBucket /\ bucket'.streams = k
    BY <1>4, ApiConstants DEF Buckets
  <2> QED
    BY <1>4, <2>1 DEF SlotsInv
<1>5. ASSUME UNCHANGED <<streams, gone>> PROVE Held' = Held
  BY <1>5 DEF Held, OpenStreams
<1>6. ASSUME bucket' = bucket, Held' = Held, streams' \in [Stream -> {"waiting", "open", "closed"}], gone' \in Nat
      PROVE  SlotsInv'
  BY <1>6 DEF SlotsInv
<1>7. CASE Take
  <2>1. (bucket' = [Bucket EXCEPT !.tokens = @ - Cost] /\ Cost <= left) \/ bucket' = Bucket
    BY <1>3, <1>7, ApiConstants DEF Take
  <2>2. \/ bucket' = [tokens |-> left - Cost, updated |-> step, streams |-> n] /\ left - Cost \in Nat
        \/ bucket' = [tokens |-> left, updated |-> step, streams |-> n]
    BY <1>3, <2>1, ApiConstants
  <2>3. UNCHANGED <<streams, gone>>
    BY <1>7 DEF Take
  <2> QED
    BY <1>1, <1>2, <1>3, <1>4, <1>5, <2>2, <2>3
<1>8. CASE Sweep
  <2>1. bucket # NoBucket /\ bucket.streams = 0 /\ bucket' = NoBucket /\ UNCHANGED <<streams, gone>>
    BY <1>8 DEF Sweep
  <2>2. Held <= 0
    BY <2>1 DEF SlotsInv
  <2> QED
    BY <1>1, <1>5, <2>1, <2>2 DEF SlotsInv
<1>9. CASE Step \/ UNCHANGED apiVars
  <2>1. bucket' = bucket /\ UNCHANGED <<streams, gone>>
    BY <1>9 DEF Step, apiVars
  <2> QED
    BY <1>1, <1>5, <1>6, <2>1
<1>10. CASE Notice
  <2>1. gone > 0 /\ gone' = gone - 1 /\ streams' = streams /\ bucket' = IF bucket = NoBucket THEN NoBucket ELSE Released
    BY <1>10 DEF Notice
  <2>2. Held' = Held - 1 /\ gone' \in Nat
    BY <1>1, <2>1 DEF Held, OpenStreams
  <2>3. bucket # NoBucket /\ bucket' = Released
    BY <1>1, <2>1 DEF SlotsInv
  <2>4. PICK a \in Nat, b \in Nat, k \in Nat : bucket = [tokens |-> a, updated |-> b, streams |-> k]
    BY <2>3 DEF SlotsInv, Buckets
  <2>5. bucket.streams = k /\ Held <= k /\ k <= MaxStreams
    BY <2>3, <2>4 DEF SlotsInv
  <2>6. bucket' = [tokens |-> a, updated |-> b, streams |-> k - 1]
    BY <1>1, <2>1, <2>3, <2>4, <2>5 DEF Released
  <2>7. k - 1 \in Nat /\ Held' <= k - 1 /\ k - 1 <= MaxStreams
    BY <1>1, <2>1, <2>2, <2>5
  <2> QED
    BY <1>1, <1>4, <2>1, <2>2, <2>6, <2>7
<1>11. ASSUME NEW s \in Stream, Connect(s) PROVE SlotsInv'
  <2>1. streams[s] = "waiting" /\ gone' = gone
    BY <1>11 DEF Connect
  <2>2. CASE n < MaxStreams
    <3>1. bucket' = [Bucket EXCEPT !.streams = @ + 1] /\ streams' = [streams EXCEPT ![s] = "open"]
      BY <1>3, <1>11, <2>2 DEF Connect
    <3>2. bucket' = [tokens |-> left, updated |-> step, streams |-> n + 1]
      BY <1>3, <3>1
    <3>3. streams' \in [Stream -> {"waiting", "open", "closed"}] /\ Cardinality(OpenStreams') = Count + 1
      <4>1. /\ streams' \in [Stream -> {"waiting", "open", "closed"}]
            /\ Cardinality(OpenStreams') =
                 Cardinality(OpenStreams) + (IF "open" = "open" THEN 1 ELSE 0) - (IF streams[s] = "open" THEN 1 ELSE 0)
        BY <3>1, OneChanges, Zenon
      <4> QED
        BY <1>1, <2>1, <4>1
    <3>4. Held' = Held + 1
      BY <1>1, <2>1, <3>3 DEF Held
    <3> QED
      BY <1>1, <1>2, <1>3, <1>4, <2>1, <2>2, <3>2, <3>3, <3>4
  <2>3. CASE ~(n < MaxStreams)
    <3>1. bucket' = Bucket /\ UNCHANGED <<streams, gone>>
      BY <1>3, <1>11, <2>3 DEF Connect
    <3> QED
      BY <1>1, <1>2, <1>3, <1>4, <1>5, <3>1
  <2> QED
    BY <2>2, <2>3
<1>12. ASSUME NEW s \in Stream, Abort(s) PROVE SlotsInv'
  <2>1. UNCHANGED <<streams, gone>>
    BY <1>12 DEF Abort
  <2>2. CASE n < MaxStreams
    <3>1. bucket' = [Bucket EXCEPT !.streams = @ + 1]
      BY <1>3, <1>12, <2>2 DEF Abort
    <3>2. bucket' = [tokens |-> left, updated |-> step, streams |-> n + 1]
      BY <1>3, <3>1
    <3> QED
      BY <1>1, <1>2, <1>3, <1>4, <1>5, <2>1, <2>2, <3>2
  <2>3. CASE ~(n < MaxStreams)
    <3>1. bucket' = Bucket
      BY <1>3, <1>12, <2>3 DEF Abort
    <3> QED
      BY <1>1, <1>2, <1>3, <1>4, <1>5, <2>1, <3>1
  <2> QED
    BY <2>2, <2>3
<1>13. ASSUME NEW s \in Stream, Lose(s) \/ Close(s) PROVE SlotsInv'
  <2>1. PICK to \in {"waiting", "closed"} : streams' = [streams EXCEPT ![s] = to]
    BY <1>13 DEF Lose, Close
  <2>2. gone' = (IF streams[s] = "open" THEN gone + 1 ELSE gone) /\ bucket' = bucket
    BY <1>13 DEF Lose, Close
  <2>3. /\ streams' \in [Stream -> {"waiting", "open", "closed"}]
        /\ Cardinality(OpenStreams') = Count - (IF streams[s] = "open" THEN 1 ELSE 0)
    <3>1. to \in {"waiting", "open", "closed"}
      OBVIOUS
    <3>2. /\ streams' \in [Stream -> {"waiting", "open", "closed"}]
          /\ Cardinality(OpenStreams') =
               Cardinality(OpenStreams) + (IF to = "open" THEN 1 ELSE 0) - (IF streams[s] = "open" THEN 1 ELSE 0)
      BY <2>1, <3>1, OneChanges, Zenon
    <3> QED
      BY <1>1, <3>2
  <2>4. Held' = Held /\ gone' \in Nat
    BY <1>1, <2>2, <2>3 DEF Held
  <2> QED
    BY <1>6, <2>2, <2>3, <2>4
<1> QED
  BY <1>7, <1>8, <1>9, <1>10, <1>11, <1>12, <1>13 DEF ApiNext

\* For any rate, burst, number of slots and age at which buckets are forgotten, and for any
\* streams that open, close, break and abort: no stretch of time sees more requests let
\* through than the burst and what it brings, where a burst of more than that age refills
\* may come back once in that age; and the server holds no more sockets than slots
\* (RateLimiter).
THEOREM RateHolds == ApiSpec => []LimitsKept
<1>1. ApiInit => ApiInv /\ SlotsInv
  <2> SUFFICES ASSUME ApiInit PROVE ApiInv /\ SlotsInv
    OBVIOUS
  <2>1. ApiInv
    BY ApiConstants DEF ApiInit, ApiInv, ApiTypeOK, Bounded, RequestsBounded
  <2>2. OpenStreams = {}
    BY DEF ApiInit, OpenStreams
  <2>3. Held = 0
    BY <2>2, FS_EmptySet DEF ApiInit, Held
  <2> QED
    BY <2>1, <2>3 DEF ApiInit, SlotsInv
<1>2. ApiInv /\ SlotsInv /\ [ApiNext]_apiVars => ApiInv' /\ SlotsInv'
  BY ApiKeeps, SlotsKept
<1>3. ApiInv /\ SlotsInv => LimitsKept
  <2> SUFFICES ASSUME ApiInv, SlotsInv PROVE StreamsBounded
    BY DEF ApiInv, LimitsKept
  <2>1. MaxStreams \in Nat /\ (bucket # NoBucket => bucket.streams \in Nat)
    BY MirrorApiAssumption DEF SlotsInv, Buckets
  <2>2. Held \in Nat
    BY OpenType DEF Held, SlotsInv
  <2> QED
    BY <2>1, <2>2 DEF SlotsInv, StreamsBounded
<1> QED
  BY <1>1, <1>2, <1>3, PTL DEF ApiSpec

-----------------------------------------------------------------------------
(* Its answers *)

\* What any mirror answers about a tick: rows that its query found.
LEMMA Answer ==
  ASSUME NEW m, NEW ids, NEW t, NEW c, NEW body \in AnswersAt(m, ids, t, c)
  PROVE  \E r \in [ids -> Certified \cup {None}] :
           /\ body = Grouped(r)
           /\ \A f \in ids : r[f] = None \/ r[f] \in AtOrAfter(m, f, t, c)
<1>1. PICK r \in Found(ids, LAMBDA f : AtOrAfter(m, f, t, c)) : body = Grouped(r)
  BY DEF AnswersAt
<1>2. /\ r \in [ids -> Certified \cup {None}]
      /\ \A f \in ids : r[f] = None \/ r[f] \in AtOrAfter(m, f, t, c)
  BY <1>1 DEF Found
<1> QED
  BY <1>1, <1>2

\* One committee's row of a tick is that tick's update.
LEMMA RowOfTick ==
  ASSUME NEW m, held[m] \subseteq Certified, NEW f, NEW c, c # None, NEW u \in Rows(m, f, c)
  PROVE  u \in Certified /\ f \in Prices(u) /\ u = [committee |-> c, tick |-> u.tick]
BY DEF Rows, Certified

\* What is kept: one update, with every feed that was asked for.
KeptExact(kept) ==
  LET update == [committee |-> kept.committee, tick |-> kept.t]
  IN /\ kept.t \in Tick
     /\ kept.ids \subseteq Prices(update)
     /\ kept.body.updates = {[update |-> update, prices |-> kept.ids]}

HeldCertified == \A m \in Mirror : held[m] \subseteq Certified

AnswersInv ==
  /\ DOMAIN held = Mirror
  /\ HeldCertified
  /\ cache # None /\ cache.committee # None => KeptExact(cache)

LEMMA ExactKept ==
  ASSUME AnswersInv, NEW m \in Mirror, NEW ids, ids # {}, NEW t \in Tick, NEW c, c # None,
         NEW body \in AnswersAt(m, ids, t, c), Exact(body, t)
  PROVE  KeptExact([ids |-> ids, t |-> t, committee |-> c, body |-> body])
<1> DEFINE u == [committee |-> c, tick |-> t]
<1>1. PICK r \in [ids -> Certified \cup {None}] :
        /\ body = Grouped(r)
        /\ \A f \in ids : r[f] = None \/ r[f] \in AtOrAfter(m, f, t, c)
  BY Answer
<1>2. /\ body.missing = {f \in ids : r[f] = None}
      /\ body.updates = {[update |-> r[f], prices |-> {g \in ids : r[g] = r[f]} \cap Prices(r[f])] :
                           f \in {g \in ids : r[g] # None}}
  BY <1>1 DEF Grouped
<1>3. \A f \in ids : r[f] # None
  BY <1>2 DEF Exact
<1>4. ASSUME NEW f \in ids PROVE r[f] = u /\ f \in Prices(u)
  <2>1. r[f] \in AtOrAfter(m, f, t, c)
    BY <1>1, <1>3
  <2>2. r[f] \in Rows(m, f, c)
    BY <2>1 DEF AtOrAfter, First
  <2>3. r[f] = [committee |-> c, tick |-> r[f].tick] /\ f \in Prices(r[f])
    BY <2>2, RowOfTick DEF AnswersInv, HeldCertified
  <2>4. [update |-> r[f], prices |-> {g \in ids : r[g] = r[f]} \cap Prices(r[f])] \in body.updates
    BY <1>2, <1>3
  <2>5. r[f].tick = t
    BY <2>4 DEF Exact
  <2> QED
    BY <2>3, <2>5
<1> HIDE DEF u
<1>5. ids \subseteq Prices(u)
  BY <1>4
<1>6. \A f \in ids : {g \in ids : r[g] = r[f]} \cap Prices(r[f]) = ids
  BY <1>4, <1>5
<1>7. body.updates = {[update |-> u, prices |-> ids]}
  <2> DEFINE x == [update |-> u, prices |-> ids]
             row(f) == [update |-> r[f], prices |-> {g \in ids : r[g] = r[f]} \cap Prices(r[f])]
  <2>1. {g \in ids : r[g] # None} = ids
    BY <1>3
  <2>2. body.updates = {row(f) : f \in ids}
    BY <1>2, <2>1
  <2>3. \A f \in ids : row(f) = x
    BY <1>4, <1>6
  <2> HIDE DEF x, row
  <2>4. body.updates = {x}
    BY <2>2, <2>3
  <2> QED
    BY <2>4 DEF x
<1> QED
  BY <1>5, <1>7 DEF KeptExact, u

\* For any mirrors, with any gaps and horizons, and any committees that price common
\* feeds: what is kept for ever of a committee's tick has every feed that was asked for,
\* and no mirror ever tells another update of it (`exact` in handle and pullAndUpdate).
THEOREM ExactStays == QuerySpec => []ExactStable
<1>1. QueryInit => AnswersInv
  BY DEF QueryInit, AnswersInv, HeldCertified
<1>2. AnswersInv /\ [QueryNext]_queryVars => AnswersInv'
  <2> SUFFICES ASSUME AnswersInv, [QueryNext]_queryVars PROVE AnswersInv'
    OBVIOUS
  <2>1. CASE Insert
    <3>1. PICK m \in Mirror, u \in Certified : held' = [held EXCEPT ![m] = @ \cup {u}] /\ UNCHANGED cache
      BY <2>1 DEF Insert
    <3>2. DOMAIN held' = Mirror /\ \A n \in Mirror : held'[n] \subseteq held[n] \cup {u}
      BY <3>1 DEF AnswersInv
    <3> QED
      BY <3>1, <3>2 DEF AnswersInv, HeldCertified, KeptExact, Prices
  <2>2. CASE Prune
    <3>1. PICK m \in Mirror, before \in Tick :
            held' = [held EXCEPT ![m] = {u \in @ : u.tick >= before}] /\ UNCHANGED cache
      BY <2>2 DEF Prune
    <3>2. DOMAIN held' = Mirror /\ \A n \in Mirror : held'[n] \subseteq held[n]
      BY <3>1 DEF AnswersInv
    <3> QED
      BY <3>1, <3>2 DEF AnswersInv, HeldCertified, KeptExact, Prices
  <2>3. CASE At
    <3>1. PICK m \in Mirror, ids \in (SUBSET FeedId) \ {{}}, t \in Tick, c \in Source \cup {None} :
            \E body \in AnswersAt(m, ids, t, c) :
              /\ Exact(body, t)
              /\ cache' = [ids |-> ids, t |-> t, committee |-> c, body |-> body]
              /\ UNCHANGED held
      BY <2>3 DEF At
    <3> PICK body \in AnswersAt(m, ids, t, c) :
            /\ Exact(body, t)
            /\ cache' = [ids |-> ids, t |-> t, committee |-> c, body |-> body]
            /\ UNCHANGED held
      BY <3>1
    <3>2. cache'.committee = c
      BY <3>1
    <3>3. c # None => KeptExact(cache)'
      <4>1. c # None => KeptExact([ids |-> ids, t |-> t, committee |-> c, body |-> body])
        BY <3>1, ExactKept
      <4> QED
        BY <3>1, <4>1 DEF KeptExact, Prices
    <3> QED
      BY <3>1, <3>2, <3>3 DEF AnswersInv, HeldCertified
  <2>4. CASE UNCHANGED queryVars
    BY <2>4 DEF queryVars, AnswersInv, HeldCertified, KeptExact, Prices
  <2> QED
    BY <2>1, <2>2, <2>3, <2>4 DEF QueryNext
<1>3. AnswersInv => ExactStable
  <2> SUFFICES ASSUME AnswersInv, cache # None, cache.committee # None PROVE ExactStable
    BY DEF ExactStable
  <2> DEFINE t == cache.t
             c == cache.committee
             u == [committee |-> c, tick |-> t]
  <2>1. cache.body.updates = {[update |-> u, prices |-> cache.ids]}
    BY DEF AnswersInv, KeptExact
  <2>2. cache.ids = UNION {v.prices : v \in cache.body.updates}
    <3> DEFINE x == [update |-> u, prices |-> cache.ids]
    <3>1. x.prices = cache.ids
      OBVIOUS
    <3>2. cache.body.updates = {x}
      BY <2>1
    <3> HIDE DEF x
    <3>3. {v.prices : v \in cache.body.updates} = {cache.ids}
      BY <3>1, <3>2
    <3> QED
      BY <3>3
  <2>3. Settled(cache.body, t) = {u}
    <3> DEFINE x == [update |-> u, prices |-> cache.ids]
    <3>1. x.update = u /\ u.tick = t
      OBVIOUS
    <3>2. cache.body.updates = {x}
      BY <2>1
    <3> HIDE DEF x, u, t
    <3>3. {v \in cache.body.updates : v.update.tick = t} = {x}
      BY <3>1, <3>2
    <3> QED
      BY <3>1, <3>3 DEF Settled
  <2>4. ASSUME NEW m \in Mirror, NEW f \in cache.ids
        PROVE  /\ \A body \in AnswersAt(m, {f}, t, c) : Settled(body, t) \subseteq {u}
               /\ InRange(m, f, t, t, 1, c) \subseteq {u}
               /\ {v \in Latest(m, f, c) : v.tick = t} \subseteq {u}
    <3>1. \A v \in Rows(m, f, c) : v.tick = t => v = u
      BY RowOfTick DEF AnswersInv, HeldCertified
    <3>2. ASSUME NEW body \in AnswersAt(m, {f}, t, c), NEW v \in Settled(body, t)
          PROVE  v = u
      <4>1. PICK r \in [{f} -> Certified \cup {None}] :
              /\ body = Grouped(r)
              /\ \A g \in {f} : r[g] = None \/ r[g] \in AtOrAfter(m, g, t, c)
        BY Answer
      <4>2. PICK w \in body.updates : w.update.tick = t /\ v = w.update
        BY <3>2 DEF Settled
      <4>3. w.update = r[f] /\ r[f] # None
        <5>1. DOMAIN r = {f}
          BY <4>1
        <5>2. body.updates = {[update |-> r[g], prices |-> {h \in DOMAIN r : r[h] = r[g]} \cap Prices(r[g])] :
                                g \in {h \in DOMAIN r : r[h] # None}}
          BY <4>1 DEF Grouped
        <5>3. PICK g \in {f} :
                r[g] # None /\ w = [update |-> r[g], prices |-> {h \in DOMAIN r : r[h] = r[g]} \cap Prices(r[g])]
          BY <4>2, <5>1, <5>2
        <5> QED
          BY <5>3
      <4>4. r[f] \in Rows(m, f, c)
        BY <4>1, <4>3 DEF AtOrAfter, First
      <4> QED
        BY <3>1, <4>2, <4>3, <4>4
    <3>3. ASSUME NEW v \in InRange(m, f, t, t, 1, c) PROVE v = u
      <4>1. v \in Rows(m, f, c) /\ t <= v.tick /\ v.tick <= t
        BY DEF InRange
      <4>2. v.tick \in Nat /\ t \in Nat
        BY <4>1, RowOfTick DEF AnswersInv, HeldCertified, KeptExact, Certified, Tick
      <4> QED
        BY <3>1, <4>1, <4>2
    <3>4. ASSUME NEW v \in Latest(m, f, c), v.tick = t PROVE v = u
      BY <3>1, <3>4 DEF Latest
    <3> QED
      BY <3>2, <3>3, <3>4
  <2> QED
    BY <2>2, <2>3, <2>4 DEF ExactStable
<1> QED
  BY <1>1, <1>2, <1>3, PTL DEF QuerySpec
=============================================================================
