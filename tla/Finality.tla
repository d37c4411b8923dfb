------------------------------ MODULE Finality ------------------------------
(***************************************************************************)
(* What a committee promises about its updates (docs/oracle-design.md,     *)
(* section 5): one header per tick is ever final; each publisher keeps only*)
(* final headers, learns them in any order and may drop old ones.          *)
(***************************************************************************)
CONSTANTS
  Publisher,   \* publishers that follow the protocol
  Tick,
  Header,
  None         \* no header

VARIABLES
  chosen,      \* [tick -> the header a quorum signed, if any]
  kept         \* [publisher -> [tick -> the header it holds as finalized]]

Init ==
  /\ chosen = [t \in Tick |-> None]
  /\ kept = [p \in Publisher |-> [t \in Tick |-> None]]

\* A quorum signs a header of a tick that has none.
Choose(t) ==
  /\ UNCHANGED kept
  /\ chosen[t] = None
  /\ chosen'[t] \in Header
  /\ chosen' = [chosen EXCEPT ![t] = chosen'[t]]

\* A publisher's history changes, of any number of ticks at once.
Rewrite(p) ==
  /\ kept'[p] # kept[p]
  /\ kept' = [kept EXCEPT ![p] = [t \in Tick |-> kept'[p][t]]]
  /\ UNCHANGED chosen

\* It comes to hold chosen headers it did not hold.
Learn(p) ==
  /\ Rewrite(p)
  /\ \A t \in Tick :
       kept'[p][t] = kept[p][t] \/ (kept[p][t] = None /\ kept'[p][t] = chosen[t])

\* It drops old history.
Drop(p) ==
  /\ Rewrite(p)
  /\ \A t \in Tick : kept'[p][t] \in {kept[p][t], None}

Next == (\E t \in Tick : Choose(t)) \/ (\E p \in Publisher : Learn(p) \/ Drop(p))

Spec == Init /\ [][Next]_<<chosen, kept>>
=============================================================================
