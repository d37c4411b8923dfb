----------------------------- MODULE MCFeedCell -----------------------------
(***************************************************************************)
(* Two committees and two feed cells that either may be anchored to; the   *)
(* quorum of c1 governs.  The deployment record knows c1 and the newer     *)
(* version of the feed script.                                             *)
(*                                                                         *)
(* Or a tick's update of up to five feeds is assembled and shortened, two  *)
(* odd levels above one another.  Or the watchdog checks a mirror and its  *)
(* committee over two days; a publisher is checked as the mirror is.       *)
(* Behaviours of the three kinds are apart.                                *)
(***************************************************************************)
EXTENDS FeedClient, PriceProof, Watchdog

CONSTANTS c1, c2, x1, x2

\* Two feeds of one version, or one feed in cells of two versions, the older retired in
\* the deployment record.
MCTypes ==
  {[x \in Feed |-> IF x = x1 THEN [code |-> "v2", id |-> "btc"] ELSE other] :
     other \in {[code |-> "v2", id |-> "eth"], [code |-> "v1", id |-> "btc"]}}

CellsInit == Init /\ ProofInit /\ WatchInit

\* Nothing happened to a part.

Unassembled == messages = {}

Unchained ==
  now = 0 /\ feed = [x \in Feed |-> None] /\ burned = {} /\ \A c \in Committee : log[c] = <<>>

Unwatched ==
  watchdogVars = <<Key, 0, TRUE, 0, 0, [k \in Key |-> 0], [k \in Key |-> FALSE], NoAnswer, 0,
              [k \in Key |-> "well"], NoAnswer, 0, 0, NoAnswer, 0>>

Watches == Unchained /\ Unassembled /\ UNCHANGED <<vars, proofVars>>

CellsNext ==
  \/ Unassembled /\ Unwatched /\ Next /\ UNCHANGED <<proofVars, watchdogVars>>
  \/ Unchained /\ Unwatched /\ ProofNext /\ UNCHANGED <<vars, watchdogVars>>
  \/ Watches /\ WatchNext

CellsSpec ==
  CellsInit /\ [][CellsNext]_<<vars, proofVars, watchdogVars>> /\ WF_watchdogVars(Watches /\ Round)
=============================================================================
