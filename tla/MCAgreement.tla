---------------------------- MODULE MCAgreement ----------------------------
(***************************************************************************)
(* One tick of four publishers. p1, the primary, is faulty: it signs every *)
(* header, and leaves itself out of the observations it chooses or does    *)
(* not, so that it proposes two bodies. p2 is the backup. The run starts   *)
(* when the correct publishers have exchanged their observations.          *)
(***************************************************************************)
EXTENDS PublisherNode, Aggregation, TLC

CONSTANTS p1, p2, p3, p4, f

Priced(x) == [g \in {f} |-> x]

MCView == {Priced(x) : x \in Price}

MCSees(p, t) ==
  CASE p \in {p1, p2} -> {Priced(1)}
    [] OTHER -> {Priced(2)}

\* The sets of observations p1 chooses.
EveryOneOrOthers == {Publisher, {p2, p3, p4}}

MCLeader(t, a, r) == IF r = 0 THEN p1 ELSE p2

NoOffset == [p \in Publisher |-> 0]

Symmetry34 == Permutations({p3, p4})

\* All observations are sent and received, nothing is proposed, and both slots
\* are open.
Exchanged ==
  LET view(p) == CHOOSE v \in Sees(p, 1) : TRUE
  IN /\ now = 2
     /\ restarts = 0
     /\ armed = [i \in Correct |-> 0]
     /\ fired = [i \in Correct |-> {1}]
     /\ mem = [i \in Correct |-> [t \in Tick |->
                 [EmptyTick EXCEPT !.obs = [p \in Publisher |-> view(p)],
                                   !.own = view(i)]]]
     /\ signing = [i \in Correct |-> {}]
     /\ signed = [i \in Correct |-> [t \in Tick |-> None]]
     /\ final = [i \in Correct |-> [t \in Tick |-> None]]
     /\ feedTick = [i \in Correct |-> [g \in Feed |-> 0]]
     /\ msgs = {[type |-> "observation", from |-> i, tick |-> 1, view |-> view(i)] : i \in Correct}

AgreementSpec == Exchanged /\ [][Next]_vars
=============================================================================
