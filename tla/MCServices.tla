----------------------------- MODULE MCServices -----------------------------
(***************************************************************************)
(* What keeps publishers running.  The rollout of configs and a rotation:  *)
(* two publishers, two versions.  The connection between two publishers of *)
(* three, one of them in both key sets at different indexes.  The recorder *)
(* of market data: five lines over three hours, a queue of one line, a cap  *)
(* of two.  None of these reads what another one writes, so each behaviour *)
(* is of one of them, and the rest stays as it was.                        *)
(***************************************************************************)
EXTENDS ConfigRollout, PeerTransport

CONSTANTS
  p1, p2,
  HighWater, MaxLines, Inbound, MaxHour, MaxWrites,
  None

Switch == <<0, 2>>
Switches == <<0, 1, 2>>
Keys == << <<"a", "b", "c">>, <<"b", "a">> >>
Lines == {<<"a", "b">>}

VARIABLES
  hourNow, writes, asked, files, hour, gzip, blocked, failed, closed, closing, resolved,
  listening, links, state

recorded ==
  <<hourNow, writes, asked, files, hour, gzip, blocked, failed, closed, closing, resolved,
    listening, links, state>>

Record == INSTANCE Recorder WITH now <- hourNow, current <- gzip, process <- state

ASSUME ServicesAssumption == Record!RecorderAssumption

ServicesInit == Init /\ TransportInit /\ Record!Init

\* Nothing happened to a part.
NotRolledOut ==
  now = 0 /\ current = 0 /\ \A p \in Publisher : placed[p] = {} /\ ~Up(p)
NotConnected == counts.starts = 0
NotRecorded == hourNow = 1 /\ writes = 0 /\ ~asked /\ links = {} /\ state = "running"

RollsOut == NotConnected /\ NotRecorded /\ UNCHANGED <<transportVars, recorded>>
Connects == NotRolledOut /\ NotRecorded /\ UNCHANGED <<vars, recorded>>
Records == NotRolledOut /\ NotConnected /\ UNCHANGED <<vars, transportVars>>

ServicesNext ==
  \/ RollsOut /\ Next
  \/ Connects /\ TransportNext
  \/ Records /\ Record!Next

\* The fairness of each part, while the behaviour is of that part.
ServicesFairness ==
  /\ \A p \in Publisher :
       /\ WF_vars(RollsOut /\ Start(p))
       /\ WF_vars(RollsOut /\ PickUp(p))
       /\ WF_vars(RollsOut /\ Watch(p))
  /\ \A l \in Line :
       /\ WF_transportVars(Connects /\ Dial(l))
       /\ WF_transportVars(Connects /\ Challenged(l))
       /\ WF_transportVars(Connects /\ Answered(l))
       /\ WF_transportVars(Connects /\ Closed(l))
       /\ WF_transportVars(Connects /\ Message(l))
       /\ WF_transportVars(Connects /\ Left(l))
  /\ WF_recorded(Records /\ Record!Flush)
  /\ WF_recorded(Records /\ Record!FileCloses)
  /\ WF_recorded(Records /\ Record!CloseTransport)
  /\ WF_recorded(Records /\ Record!Exit)

ServicesSpec ==
  ServicesInit /\ [][ServicesNext]_<<vars, transportVars, recorded>> /\ ServicesFairness

-----------------------------------------------------------------------------
(* Recorder's property *)

\* A publisher told to stop ends, with the open file flushed (Recorder.close).
LiveExit == Record!LiveExit
=============================================================================
