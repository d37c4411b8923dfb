-------------------------- MODULE MCMirrorCommittee --------------------------
(***************************************************************************)
(* One committee cell and a follower of it: a mirror, or a client of the   *)
(* SDK.  Neither changes what the chain or the other one does, so each     *)
(* behaviour has one of them, and the other stays as it was.               *)
(*                                                                         *)
(* Or the mirror's API next to a client: two streams and two slots, one of *)
(* which an aborted upgrade may take, and a burst of more than is refilled *)
(* until a bucket is forgotten.  Or its answers: two mirrors, two          *)
(* committees that price a common feed, three ticks.                       *)
(***************************************************************************)
EXTENDS MirrorCommittee, OracleClient, MirrorApi, MirrorQuery

CONSTANTS c1

\* "alts" prices ETH too, at the first tick alone.
MCCarried ==
  [c \in Source |-> IF c = "majors" THEN << {"BTC", "ETH"}, {"BTC"}, {"BTC", "ETH"} >>
                   ELSE << {"ETH"}, {}, {} >>]

ASSUME FollowersAssumption == MirrorCommitteeAssumption /\ OracleClientAssumption

FollowersInit == Init /\ ClientInit /\ ApiInit /\ QueryInit

\* Nothing happened to a follower of that kind, to the chain or to a part of the API.
NotMirrored == read = {}
NotAsked == cached = Nothing /\ reads = {} /\ request = Nothing
NotGoverned == now = 0 /\ log = [c \in Committee |-> <<>>]
NotServed == step = 0 /\ bucket = NoBucket /\ aborts = 0 /\ streams = [s \in Stream |-> "waiting"]
NotAnswered == held = [m \in Mirror |-> {}] /\ cache = None

Follow ==
  /\ NotServed /\ NotAnswered
  /\ \/ GovernanceNext /\ UNCHANGED <<view, client>>
     \/ NotAsked /\ (Refresh \/ Restart) /\ UNCHANGED client
     \/ NotMirrored /\ ClientNext /\ UNCHANGED view
  /\ UNCHANGED <<apiVars, queryVars>>

Serve ==
  /\ NotGoverned /\ NotMirrored /\ NotAsked
  /\ \/ NotAnswered /\ ApiNext /\ UNCHANGED queryVars
     \/ NotServed /\ QueryNext /\ UNCHANGED apiVars
  /\ UNCHANGED <<now, governance, view, client>>

FollowersSpec == FollowersInit /\ [][Follow \/ Serve]_<<now, governance, view, client, apiVars, queryVars>>
=============================================================================
