-------------------------- MODULE MirrorCommittee --------------------------
(***************************************************************************)
(* The key sets a mirror knows of the committee it follows, from reads of  *)
(* the committee cell (apps/mirror/src/committee.ts).                      *)
(*                                                                         *)
(* A read takes up to ten seconds and reads are thirty apart, so they are  *)
(* answered in order (refreshMs is not below the timeout), each with the   *)
(* cell of some moment; any number of operations may lie between two.      *)
(***************************************************************************)
EXTENDS CommitteeCell

CONSTANTS
  Followed,   \* the committee
  Unknown,    \* a set the mirror does not know, or no current set
  Open        \* a set not seen to retire

\* What an instance assumes of the constants.
MirrorCommitteeAssumption ==
  /\ Followed \in Governing
  /\ Unknown # Open
  /\ Unknown \notin Nat
  /\ Open \notin Nat

VARIABLES
  sets,       \* [index -> Unknown, Open or retiredAtMs]
  current,    \* currentIndex
  paused,
  read        \* nonces of the cells observed since the start

view == <<sets, current, paused, read>>
vars == <<now, governance, view>>

\* Mutant: a known set is bounded by the wall clock, as sets that aged out are.
ObservedByClock(d, clock) ==
  [i \in Index |->
     IF i = d.index THEN Open
     ELSE IF sets[i] = Unknown THEN
       IF d.until # 0 /\ i = d.index - 1 THEN d.until ELSE Unknown
     ELSE IF sets[i] = Open \/ clock < sets[i] THEN clock
     ELSE sets[i]]

\* The sets after observe(d). Bounds only get lower; the one of the set before the
\* current is the cell's, 0 when the cell does not keep it.
Observed(d, clock) ==
  [i \in Index |->
     IF i = d.index THEN Open
     ELSE IF sets[i] = Unknown THEN
       IF d.until # 0 /\ i = d.index - 1 THEN d.until ELSE Unknown
     ELSE LET bound == IF i = d.index - 1 THEN d.until
                       ELSE IF sets[i] = Open THEN clock ELSE sets[i]
          IN IF sets[i] = Open \/ bound < sets[i] THEN bound ELSE sets[i]]

-----------------------------------------------------------------------------
(* Steps *)

\* refresh: the cell of any moment since the last one observed. The mirror's clock
\* is not behind the chain's.
Refresh ==
  \E n \in Index, clock \in now..MaxTime :
    LET d == CellAt(Followed, n)
    IN /\ n <= Len(log[Followed])
       /\ \A m \in read : m <= n
       /\ current # Unknown => d.index >= current
       /\ sets' = Observed(d, clock)
       /\ current' = d.index
       /\ paused' = d.paused
       /\ read' = read \cup {n}
       /\ UNCHANGED <<now, governance>>

\* A new process: the sets are memory.
Restart ==
  /\ read # {}
  /\ sets' = [i \in Index |-> Unknown]
  /\ current' = Unknown
  /\ paused' = FALSE
  /\ read' = {}
  /\ UNCHANGED <<now, governance>>

Init ==
  /\ GovernanceInit
  /\ sets = [i \in Index |-> Unknown]
  /\ current = Unknown
  /\ paused = FALSE
  /\ read = {}

Next ==
  \/ Block /\ UNCHANGED view
  \/ \E c \in Governing : Govern(c) /\ UNCHANGED view
  \/ Refresh
  \/ Restart

Spec == Init /\ [][Next]_vars

-----------------------------------------------------------------------------
(* What verifies *)

\* verify of an update that a quorum of the set signed.
Verifies(set, time) ==
  /\ ~paused
  /\ sets[set] # Unknown
  /\ sets[set] = Open \/ time < sets[set]

-----------------------------------------------------------------------------
(* Properties *)

\* For its current set and the one before, the mirror takes exactly what a feed
\* cell would take next to the committee cell it last read, whatever operations it
\* missed before and whether or not it was restarted (committee.ts header: the same
\* rule the feed contract applies).
AsOnChain ==
  \A n \in read :
    (\A m \in read : m <= n) =>
      LET d == CellAt(Followed, n)
      IN \A set \in Index, time \in 1..MaxTime :
           set \in {d.index - 1, d.index} =>
             (Verifies(set, time) <=> ~d.paused /\ SetFor(d, set, time))

\* What the mirror saw an operation do to a set stays: after a routine rotation the
\* set signs only before the switch, after the set's own revocation nothing, however
\* many operations follow (observe: bounds only get lower).
RetirementKept ==
  \A i \in DOMAIN log[Followed] : i \in read =>
    LET e == log[Followed][i]
    IN \A time \in 1..MaxTime :
         /\ e.op = "rotate" /\ Verifies(e.old.index, time) => time < e.next.until
         /\ e.op = "rotate_revoke" => ~Verifies(e.old.index, time)
         /\ e.op = "revoke_previous" => ~Verifies(e.old.index - 1, time)

\* A mirror takes of each set what the chain would and, of what it saw retired, no
\* more than was left to it (Committee.observe and verify).
SetsTrue == AsOnChain /\ RetirementKept
=============================================================================
