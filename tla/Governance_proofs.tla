------------------------- MODULE Governance_proofs -------------------------
(***************************************************************************)
(* The committee cell's properties, for any interval, bound and number of  *)
(* operations.                                                             *)
(***************************************************************************)
EXTENDS CommitteeCell, SequenceTheorems, TLAPS

govern == <<now, governance>>

-----------------------------------------------------------------------------
(* Transitions *)

\* A state in PublisherSetData, unfolded.
LEMMA DataType ==
  ASSUME NEW d \in PublisherSetData
  PROVE  /\ d.nonce \in Nat /\ d.index \in Nat /\ d.until \in Nat
         /\ d.paused \in BOOLEAN
         /\ d.until # 0 => d.index # 0
BY CommitteeCellAssumption DEF PublisherSetData, Index

\* An operation adds one to the nonce, never lowers the index, and trusts no set
\* of the past that was not trusted before.
LEMMA TransitionNarrows ==
  ASSUME NEW old \in PublisherSetData, NEW next \in PublisherSetData,
         NEW op \in Operation, CheckTransition(old, next, op)
  PROVE  /\ next.nonce = old.nonce + 1
         /\ old.index <= next.index
         /\ \A set \in 0..old.index : set \in Trusted(next) => set \in Trusted(old)
BY DataType DEF CheckTransition, NextSet, SameSets, Trusted, Operation

-----------------------------------------------------------------------------
(* The invariant *)

\* What the log holds of committee c: one entry per operation, in the order of
\* their nonces and times, each trusting at least what the cell trusts of its past.
LogSound(c) ==
  /\ Len(log[c]) = cell[c].nonce
  /\ created[c] <= now
  /\ \A i \in 1..Len(log[c]) :
       LET e == log[c][i]
       IN /\ e.old.nonce = i - 1
          /\ e.at <= created[c]
          /\ e.next.index <= cell[c].index
          /\ \A set \in 0..e.next.index : set \in Trusted(cell[c]) => set \in Trusted(e.next)

GovernanceInv ==
  /\ GovernanceTypeOK
  /\ \A c \in Committee : LogSound(c)
  /\ DroppedForGood
  /\ RotationsSpaced

LEMMA GovernanceInitial == GovernanceInit => GovernanceInv
<1> SUFFICES ASSUME GovernanceInit PROVE GovernanceInv
  OBVIOUS
<1>1. GovernanceTypeOK
  BY CommitteeCellAssumption
  DEF GovernanceInit, GovernanceTypeOK, PublisherSetData, Index
<1>2. ASSUME NEW c \in Committee
      PROVE  log[c] = <<>> /\ created[c] = 0 /\ now = 0 /\ cell[c].nonce = 0
  BY DEF GovernanceInit
<1>3. Len(<<>>) = 0 /\ DOMAIN <<>> = {}
  OBVIOUS
<1>4. ASSUME NEW c \in Committee
      PROVE  LogSound(c)
  BY <1>2, <1>3 DEF LogSound
<1>5. ASSUME NEW c \in Committee
      PROVE  DOMAIN log[c] = {}
  BY <1>2, <1>3
<1>6. DroppedForGood /\ RotationsSpaced
  BY <1>5 DEF DroppedForGood, RotationsSpaced
<1> QED
  BY <1>1, <1>4, <1>6 DEF GovernanceInv

\* What an operation of committee c does to its log.
LEMMA GovernLog ==
  ASSUME GovernanceTypeOK, NEW c \in Committee, Govern(c)
  PROVE  \E op \in Operation, next \in PublisherSetData :
           /\ CheckTransition(cell[c], next, op)
           /\ op = "rotate" => Mature(c) /\ next.until <= now + MaxUntilAhead
           /\ now' = now
           /\ cell' = [cell EXCEPT ![c] = next]
           /\ created' = [created EXCEPT ![c] = now]
           /\ Len(log'[c]) = Len(log[c]) + 1
           /\ \A i \in 1..Len(log[c]) : log'[c][i] = log[c][i]
           /\ log'[c][Len(log[c]) + 1] = [op |-> op, old |-> cell[c], next |-> next, at |-> now]
           /\ log'[c] \in Seq(LogEntry)
           /\ \A d \in Committee \ {c} : log'[d] = log[d]
<1>1. PICK op \in Operation, next \in PublisherSetData :
        /\ CheckTransition(cell[c], next, op)
        /\ op = "rotate" => Mature(c) /\ next.until <= now + MaxUntilAhead
        /\ cell' = [cell EXCEPT ![c] = next]
        /\ created' = [created EXCEPT ![c] = now]
        /\ log' = [log EXCEPT ![c] = Append(@, [op |-> op, old |-> cell[c], next |-> next, at |-> now])]
        /\ now' = now
  BY DEF Govern
<1> DEFINE e == [op |-> op, old |-> cell[c], next |-> next, at |-> now]
<1>2. e \in LogEntry
  BY DEF LogEntry, GovernanceTypeOK
<1>3. log[c] \in Seq(LogEntry) /\ log'[c] = Append(log[c], e)
  BY <1>1 DEF GovernanceTypeOK
<1>4. /\ Append(log[c], e) \in Seq(LogEntry)
      /\ Len(Append(log[c], e)) = Len(log[c]) + 1
      /\ \A i \in 1..Len(log[c]) : Append(log[c], e)[i] = log[c][i]
      /\ Append(log[c], e)[Len(log[c]) + 1] = e
  BY <1>2, <1>3, AppendProperties
<1>5. \A d \in Committee \ {c} : log'[d] = log[d]
  BY <1>1 DEF GovernanceTypeOK
<1> QED
  BY <1>1, <1>3, <1>4, <1>5

\* An operation keeps the log sound, appending an entry whose state is the cell's.
LEMMA GovernKeepsLog ==
  ASSUME GovernanceInv, NEW c \in Committee, Govern(c), GovernanceTypeOK'
  PROVE  /\ \A d \in Committee : LogSound(d)'
         /\ DroppedForGood'
         /\ RotationsSpaced'
<1> DEFINE n == Len(log[c])
<1>1. PICK op \in Operation, next \in PublisherSetData :
        /\ CheckTransition(cell[c], next, op)
        /\ op = "rotate" => Mature(c)
        /\ now' = now
        /\ cell' = [cell EXCEPT ![c] = next]
        /\ created' = [created EXCEPT ![c] = now]
        /\ Len(log'[c]) = n + 1
        /\ \A i \in 1..n : log'[c][i] = log[c][i]
        /\ log'[c][n + 1] = [op |-> op, old |-> cell[c], next |-> next, at |-> now]
        /\ \A d \in Committee \ {c} : log'[d] = log[d]
  BY GovernLog DEF GovernanceInv
<1>2. /\ now \in Nat
      /\ cell[c] \in PublisherSetData /\ cell[c].index \in Nat /\ cell[c].nonce \in Nat
      /\ created[c] \in Nat
      /\ n \in Nat
      /\ \A i \in 1..n : /\ log[c][i] \in LogEntry
                         /\ log[c][i].next.index \in Nat
                         /\ log[c][i].at \in Nat
      /\ cell'[c] = next /\ created'[c] = now
      /\ \A d \in Committee \ {c} : cell'[d] = cell[d] /\ created'[d] = created[d]
  <2>1. log[c] \in Seq(LogEntry) /\ cell[c] \in PublisherSetData
    BY DEF GovernanceInv, GovernanceTypeOK
  <2>2. n \in Nat /\ \A i \in 1..n : log[c][i] \in LogEntry
    BY <2>1
  <2>3. \A i \in 1..n : log[c][i].next \in PublisherSetData /\ log[c][i].at \in Nat
    BY <2>2 DEF LogEntry
  <2>4. now \in Nat /\ created[c] \in Nat
    BY CommitteeCellAssumption DEF GovernanceInv, GovernanceTypeOK
  <2>5. /\ cell'[c] = next /\ created'[c] = now
        /\ \A d \in Committee \ {c} : cell'[d] = cell[d] /\ created'[d] = created[d]
    BY <1>1 DEF GovernanceInv, GovernanceTypeOK
  <2> QED
    BY <2>1, <2>2, <2>3, <2>4, <2>5, DataType
<1>3. /\ next.nonce = cell[c].nonce + 1
      /\ cell[c].index <= next.index
      /\ next.index \in Nat
      /\ \A set \in 0..cell[c].index : set \in Trusted(next) => set \in Trusted(cell[c])
  BY <1>1, <1>2, TransitionNarrows, DataType
<1>4. /\ n = cell[c].nonce
      /\ created[c] <= now
      /\ \A i \in 1..n :
           /\ log[c][i].old.nonce = i - 1
           /\ log[c][i].at <= created[c]
           /\ log[c][i].next.index <= cell[c].index
           /\ \A set \in 0..log[c][i].next.index :
                set \in Trusted(cell[c]) => set \in Trusted(log[c][i].next)
  BY DEF GovernanceInv, LogSound
<1>5. \A i \in 1..n :
        /\ log[c][i].at <= now
        /\ log[c][i].next.index <= next.index
        /\ \A set \in 0..log[c][i].next.index :
             set \in Trusted(next) => set \in Trusted(log[c][i].next)
  <2> TAKE i \in 1..n
  <2>1. log[c][i].at <= now /\ log[c][i].next.index <= next.index
    <3>1. /\ log[c][i].at <= created[c] /\ created[c] <= now
          /\ log[c][i].next.index <= cell[c].index /\ cell[c].index <= next.index
      BY <1>3, <1>4
    <3>2. /\ log[c][i].at \in Nat /\ created[c] \in Nat /\ now \in Nat
          /\ log[c][i].next.index \in Nat /\ cell[c].index \in Nat /\ next.index \in Nat
      BY <1>2, <1>3, CommitteeCellAssumption DEF GovernanceInv, GovernanceTypeOK
    <3> QED
      BY <3>1, <3>2
  <2>2. ASSUME NEW set \in 0..log[c][i].next.index, set \in Trusted(next)
        PROVE  set \in Trusted(log[c][i].next)
    <3>1. set \in 0..cell[c].index
      BY <1>2, <1>4
    <3>2. set \in Trusted(cell[c])
      BY <1>3, <2>2, <3>1
    <3> QED
      BY <1>4, <3>2
  <2> QED
    BY <2>1, <2>2
<1>6. LogSound(c)'
  <2>1. Len(log'[c]) = cell'[c].nonce /\ created'[c] <= now'
    BY <1>1, <1>2, <1>3, <1>4
  <2>2. ASSUME NEW i \in 1..n + 1
        PROVE  LET e == log'[c][i]
               IN /\ e.old.nonce = i - 1
                  /\ e.at <= created'[c]
                  /\ e.next.index <= cell'[c].index
                  /\ \A set \in 0..e.next.index : set \in Trusted(cell'[c]) => set \in Trusted(e.next)
    <3>1. CASE i \in 1..n
      BY <1>1, <1>2, <1>4, <1>5, <3>1
    <3>2. CASE i = n + 1
      BY <1>1, <1>2, <1>3, <1>4, <3>2
    <3> QED
      BY <1>2, <3>1, <3>2
  <2> QED
    BY <1>1, <2>1, <2>2 DEF LogSound
<1>7. ASSUME NEW d \in Committee \ {c}
      PROVE  LogSound(d)'
  <2>1. LogSound(d)
    BY DEF GovernanceInv
  <2>2. log'[d] = log[d] /\ cell'[d] = cell[d] /\ created'[d] = created[d] /\ now' = now
    BY <1>1, <1>2
  <2> QED
    BY <2>1, <2>2 DEF LogSound
<1>8. ASSUME NEW d \in Committee, d # c
      PROVE  DOMAIN log'[d] = DOMAIN log[d] /\ log'[d] = log[d]
  BY <1>1, <1>8
<1>9. DOMAIN log[c] = 1..n /\ DOMAIN log'[c] = 1..n + 1
  <2>1. log[c] \in Seq(LogEntry) /\ log'[c] \in Seq(LogEntry)
    BY DEF GovernanceInv, GovernanceTypeOK
  <2> QED
    BY <1>1, <2>1
<1>10. DroppedForGood'
  <2> SUFFICES ASSUME NEW d \in Committee, NEW i \in DOMAIN log'[d], NEW j \in DOMAIN log'[d], i < j,
                      NEW set \in 0..log'[d][i].next.index, set \in Trusted(log'[d][j].next)
               PROVE  set \in Trusted(log'[d][i].next)
    BY DEF DroppedForGood, Trusted
  <2>1. CASE d # c
    BY <1>8, <2>1 DEF GovernanceInv, DroppedForGood
  <2>2. CASE d = c /\ j = n + 1
    <3>1. i \in 1..n
      BY <1>2, <1>9, <2>2
    <3> QED
      BY <1>1, <1>2, <1>5, <2>2, <3>1
  <2>3. CASE d = c /\ j # n + 1
    <3>1. i \in 1..n + 1 /\ j \in 1..n + 1
      BY <1>9, <2>3
    <3>2. i \in 1..n /\ j \in 1..n
      BY <1>2, <2>3, <3>1
    <3> QED
      BY <1>1, <1>9, <2>3, <3>2 DEF GovernanceInv, DroppedForGood
  <2> QED
    BY <2>1, <2>2, <2>3
<1>11. RotationsSpaced'
  <2> SUFFICES ASSUME NEW d \in Committee, NEW i \in DOMAIN log'[d], NEW j \in DOMAIN log'[d], i < j,
                      log'[d][i].op = "rotate", log'[d][j].op = "rotate"
               PROVE  log'[d][j].at >= log'[d][i].at + Interval
    BY DEF RotationsSpaced
  <2>1. CASE d # c
    BY <1>8, <2>1 DEF GovernanceInv, RotationsSpaced
  <2>2. CASE d = c /\ j = n + 1
    <3>1. i \in 1..n /\ log'[c][i] = log[c][i]
      BY <1>1, <1>2, <1>9, <2>2
    <3>2. op = "rotate" /\ log'[c][j].at = now
      BY <1>1, <2>2
    <3>3. now >= created[c] + Interval
      BY <1>1, <3>2 DEF Mature
    <3>4. /\ log[c][i].at <= created[c] /\ log[c][i].at \in Nat
          /\ created[c] \in Nat /\ now \in Nat /\ Interval \in Nat
      BY <1>2, <1>4, <3>1, CommitteeCellAssumption
    <3>5. now >= log[c][i].at + Interval
      BY <3>3, <3>4
    <3> QED
      BY <2>2, <3>1, <3>2, <3>5
  <2>3. CASE d = c /\ j # n + 1
    <3>1. i \in 1..n + 1 /\ j \in 1..n + 1
      BY <1>9, <2>3
    <3>2. i \in 1..n /\ j \in 1..n
      BY <1>2, <2>3, <3>1
    <3> QED
      BY <1>1, <1>9, <2>3, <3>2 DEF GovernanceInv, RotationsSpaced
  <2> QED
    BY <2>1, <2>2, <2>3
<1> QED
  BY <1>6, <1>7, <1>10, <1>11

LEMMA GovernanceTypeStep ==
  ASSUME GovernanceTypeOK, [GovernanceNext]_govern
  PROVE  GovernanceTypeOK'
<1>1. CASE UNCHANGED govern
  BY <1>1 DEF govern, governance, GovernanceTypeOK
<1>2. CASE Block
  BY <1>2, CommitteeCellAssumption DEF Block, governance, GovernanceTypeOK
<1>3. ASSUME NEW c \in Governing, Govern(c)
      PROVE  GovernanceTypeOK'
  <2>1. c \in Committee
    BY CommitteeCellAssumption
  <2>2. PICK op \in Operation, next \in PublisherSetData :
          /\ now' = now
          /\ cell' = [cell EXCEPT ![c] = next]
          /\ created' = [created EXCEPT ![c] = now]
          /\ log'[c] \in Seq(LogEntry)
          /\ \A d \in Committee \ {c} : log'[d] = log[d]
    BY <1>3, <2>1, GovernLog
  <2>3. DOMAIN log' = Committee /\ log' = [d \in Committee |-> log'[d]]
    BY <1>3 DEF Govern, GovernanceTypeOK
  <2>4. \A d \in Committee : log'[d] \in Seq(LogEntry)
    BY <2>2 DEF GovernanceTypeOK
  <2> QED
    BY <2>2, <2>3, <2>4 DEF GovernanceTypeOK
<1> QED
  BY <1>1, <1>2, <1>3 DEF GovernanceNext

LEMMA GovernanceStep ==
  ASSUME GovernanceInv, [GovernanceNext]_govern
  PROVE  GovernanceInv'
<1>1. GovernanceTypeOK'
  BY GovernanceTypeStep DEF GovernanceInv
<1>2. CASE UNCHANGED governance /\ now' \in Nat /\ now' >= now
  <2>1. \A c \in Committee : LogSound(c)'
    <3> TAKE c \in Committee
    <3>1. created[c] \in Nat /\ now \in Nat
      BY CommitteeCellAssumption DEF GovernanceInv, GovernanceTypeOK
    <3>2. LogSound(c)
      BY DEF GovernanceInv
    <3> QED
      BY <1>2, <3>1, <3>2 DEF LogSound, governance
  <2>2. DroppedForGood' /\ RotationsSpaced'
    BY <1>2 DEF GovernanceInv, DroppedForGood, RotationsSpaced, governance
  <2> QED
    BY <1>1, <2>1, <2>2 DEF GovernanceInv
<1>3. CASE UNCHANGED govern
  <2>1. now \in Nat
    BY CommitteeCellAssumption DEF GovernanceInv, GovernanceTypeOK
  <2> QED
    BY <1>2, <1>3, <2>1 DEF govern, governance
<1>4. CASE Block
  <2>1. now \in Nat
    BY CommitteeCellAssumption DEF GovernanceInv, GovernanceTypeOK
  <2> QED
    BY <1>2, <1>4, <2>1 DEF Block
<1>5. ASSUME NEW c \in Governing, Govern(c)
      PROVE  GovernanceInv'
  BY <1>1, <1>5, GovernKeepsLog, CommitteeCellAssumption DEF GovernanceInv
<1> QED
  BY <1>3, <1>4, <1>5 DEF GovernanceNext

\* The log numbers operations by nonce, so no authorization fits two of them.
LEMMA SpentFromLog == GovernanceInv => AuthorizationSpent
<1> SUFFICES ASSUME GovernanceInv, NEW c \in Committee, NEW i \in DOMAIN log[c], NEW j \in DOMAIN log[c],
                    log[c][i].old = log[c][j].old
             PROVE  i = j
  BY DEF AuthorizationSpent
<1>1. log[c] \in Seq(LogEntry) /\ LogSound(c)
  BY DEF GovernanceInv, GovernanceTypeOK
<1>2. i \in 1..Len(log[c]) /\ j \in 1..Len(log[c]) /\ Len(log[c]) \in Nat
  BY <1>1
<1>3. i - 1 = log[c][i].old.nonce /\ j - 1 = log[c][j].old.nonce
  BY <1>1, <1>2 DEF LogSound
<1> QED
  BY <1>2, <1>3

-----------------------------------------------------------------------------
(* Theorems *)

LEMMA GovernanceInvariant == GovernanceSpec => []GovernanceInv
<1>1. GovernanceInit => GovernanceInv
  BY GovernanceInitial
<1>2. GovernanceInv /\ [GovernanceNext]_govern => GovernanceInv'
  BY GovernanceStep
<1> QED
  BY <1>1, <1>2, PTL DEF GovernanceSpec, govern

\* An authorization of a quorum moves the committee cell at most once.
THEOREM AuthorizedOnce == GovernanceSpec => []AuthorizationSpent
BY GovernanceInvariant, SpentFromLog, PTL

\* A set the committee dropped is never trusted or allowed to sign again.
THEOREM NeverBack == GovernanceSpec => []DroppedForGood
<1>1. GovernanceInv => DroppedForGood
  BY DEF GovernanceInv
<1> QED
  BY <1>1, GovernanceInvariant, PTL

\* Routine rotations are an interval apart.
THEOREM Spaced == GovernanceSpec => []RotationsSpaced
<1>1. GovernanceInv => RotationsSpaced
  BY DEF GovernanceInv
<1> QED
  BY <1>1, GovernanceInvariant, PTL
=============================================================================
