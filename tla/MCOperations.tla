---------------------------- MODULE MCOperations ----------------------------
(***************************************************************************)
(* What operators run.  The governance of a committee: three operators and *)
(* a key nobody holds.  The deployment: two builds of each contract and a  *)
(* committee, five transactions.  A draft completed from up to three cells.*)
(* The shadow of a committee in which a set rotates: two feeds, two ticks. *)
(* And one tick of four publishers that may crash, with their timers at    *)
(* their times, while the clocks of the leaders agree with the others' or  *)
(* are behind.                                                             *)
(*                                                                         *)
(* Beside them a market polled over REST: three trades of two contents in  *)
(* answers of two, two book states, two polls in flight; the last unit of  *)
(* time, which lets quotes age, is for behaviours of one trade.            *)
(*                                                                         *)
(* None of these reads what another one writes, so each behaviour is of    *)
(* one of them, and the rest stays as it was.                              *)
(***************************************************************************)
EXTENDS Ceremony, Deployment, Shadow, PolledVenue

CONSTANTS
  c1, k1, k2, k3, typo,
  MaxCells, MaxCapacity, MaxDraft, BaseFee, InputFee, ChangeFee, MinChange,
  Crew, Primary, Backup, Slot, Grace, Prepare, Apart, Delay, End

VARIABLES
  cells, leftover, draft, fuel, added, net, result,
  clock, turn, late, up, timers, round, link

completed == <<cells, leftover, draft, fuel, added, net, result>>
timed == <<clock, turn, late, up, timers, round, link>>

Fee == INSTANCE FeeCompletion

\* The primary, the backup, then the others.
InOrder ==
  CHOOSE s \in [1..4 -> Crew] :
    s[1] = Primary /\ s[2] = Backup /\ {s[i] : i \in 1..4} = Crew

\* The others' clocks are right.
LeadersBehind ==
  {[p \in Crew |-> IF p \in behind THEN Apart ELSE 0] : behind \in SUBSET {Primary, Backup}}

Timed == INSTANCE TickRound WITH
  Publisher <- Crew, Leading <- InOrder, Deadline <- Slot, Skew <- Apart, Clocks <- LeadersBehind,
  MaxTime <- End

ASSUME OperationsAssumption ==
  Fee!FeeCompletionAssumption /\ Timed!TickRoundAssumption

OperationsInit == Init /\ DeployInit /\ Fee!Init /\ ShadowInit /\ Timed!Init /\ PolledInit

\* Nothing happened to a part. Drafts of one kind stand for none,
\* and so do clocks that agree.
NotGoverned == now = 0 /\ document = {}
NotDeployed == txs = <<>>
NotCompleted == cells = <<>> /\ leftover /\ draft = 0 /\ added = 0 /\ result = None
NotShadowed == tick = 0
NotPolled == time = 0 /\ started = -1 /\ made = <<>> /\ shown = 0
NotTimed ==
  clock = 0 /\ turn = 1 /\ up = Crew /\ \A p \in Crew : timers[p] = {} /\ late[p] = 0

Governed ==
  /\ NotDeployed /\ NotCompleted /\ NotShadowed /\ NotTimed /\ NotPolled
  /\ Next
  /\ UNCHANGED <<deployVars, completed, shadowVars, timed, polledVars>>

Deployed ==
  /\ NotGoverned /\ NotCompleted /\ NotShadowed /\ NotTimed /\ NotPolled
  /\ DeployNext
  /\ UNCHANGED <<vars, completed, shadowVars, timed, polledVars>>

Completed ==
  /\ NotGoverned /\ NotDeployed /\ NotShadowed /\ NotTimed /\ NotPolled
  /\ Fee!Next
  /\ UNCHANGED <<vars, deployVars, shadowVars, timed, polledVars>>

Shadowed ==
  /\ NotGoverned /\ NotDeployed /\ NotCompleted /\ NotTimed /\ NotPolled
  /\ ShadowNext
  /\ UNCHANGED <<vars, deployVars, completed, timed, polledVars>>

Ticked ==
  /\ NotGoverned /\ NotDeployed /\ NotCompleted /\ NotShadowed /\ NotPolled
  /\ Timed!Next
  /\ UNCHANGED <<vars, deployVars, completed, shadowVars, polledVars>>

Polled ==
  /\ NotGoverned /\ NotDeployed /\ NotCompleted /\ NotShadowed /\ NotTimed
  /\ PolledNext
  /\ (time' = MaxPollTime => Len(made') <= 1)
  /\ UNCHANGED <<vars, deployVars, completed, shadowVars, timed>>

OperationsNext == Governed \/ Deployed \/ Completed \/ Shadowed \/ Ticked \/ Polled

OperationsSpec ==
  OperationsInit /\ [][OperationsNext]_<<vars, deployVars, completed, shadowVars, timed, polledVars>>

-----------------------------------------------------------------------------
(* The properties of FeeCompletion and TickRound *)

\* No completion with fewer inputs than it took would do (completeFee).
FewestInputs == Fee!FewestInputs

\* A tick is final in time though a leader crashes (fire, maybePropose).
FinalInTime == Timed!FinalInTime
=============================================================================
