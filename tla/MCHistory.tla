----------------------------- MODULE MCHistory -----------------------------
(***************************************************************************)
(* Two correct publishers over several ticks whose rounds overlap, with a  *)
(* restart, history sync and pruning. p1 leads odd ticks, p2 even ones.    *)
(*                                                                         *)
(* The run starts with tick 1 observed; p1 may restart once it has signed  *)
(* both ticks and p2 alone has the update of tick 1.                       *)
(***************************************************************************)
EXTENDS PublisherNode, Aggregation

CONSTANTS p1, p2, f

Priced(x) == [g \in {f} |-> x]

MCView == {Priced(x) : x \in Price}

MCSees(p, t) == MCView

MCLeader(t, a, r) == IF t % 2 = 1 THEN p1 ELSE p2

NoOffset == [p \in Publisher |-> 0]

\* Tick 1 has fired and the observations of it are received.
Exchanged ==
  LET view == Priced(1)
  IN /\ now = 1
     /\ restarts = 0
     /\ armed = [i \in Correct |-> 2]
     /\ fired = [i \in Correct |-> {1}]
     /\ mem = [i \in Correct |-> [t \in Tick |->
                 IF t = 1 THEN [EmptyTick EXCEPT !.obs = [p \in Publisher |-> view], !.own = view]
                 ELSE EmptyTick]]
     /\ signing = [i \in Correct |-> {}]
     /\ signed = [i \in Correct |-> [t \in Tick |-> None]]
     /\ final = [i \in Correct |-> [t \in Tick |-> None]]
     /\ feedTick = [i \in Correct |-> [g \in Feed |-> 0]]
     /\ msgs = {[type |-> "observation", from |-> i, tick |-> 1, view |-> view] : i \in Correct}

HistorySpec == Exchanged /\ [][Next]_vars

\* The restart that is followed.
EarlyRestart ==
  restarts' # restarts =>
    /\ mem'[p2] = mem[p2]
    /\ now = 2
    /\ \A t \in Tick : signed[p1][t] # None
    /\ final[p1][1] = None
    /\ final[p2][1] # None
=============================================================================
