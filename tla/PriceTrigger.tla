----------------------------- MODULE PriceTrigger -----------------------------
(***************************************************************************)
(* The price-triggered release: the lock of                                *)
(* examples/price_trigger_lock/src/main.rs, and the script of              *)
(* examples/price-trigger-ts/index.mjs that takes it through its steps,    *)
(* next to the feed cells and committee cells of FeedCell.                 *)
(*                                                                         *)
(* A price is one that meets the strike: the script sets the strike one    *)
(* percent below the price of the moment.  A block carries the time `now`. *)
(* Others move their feed cells, and the committee acts, between any two   *)
(* steps.  The script's own update is of an honest mirror: any update that *)
(* verifies.                                                               *)
(***************************************************************************)
EXTENDS FeedClient

CONSTANTS
  Pinned,     \* the script's feed cell
  Anchor      \* "majors", the committee it names

VARIABLES
  step,       \* of the script
  lockedAt,   \* time of the block the funds were locked in
  release     \* the transaction of step 5: its cell deps and header deps, and what it pays

script == <<step, lockedAt, release>>

\* The script's cell is of the current version and names the one feed there is.
OneType == {[x \in Feed |-> [code |-> "current", id |-> "price"]]}

-----------------------------------------------------------------------------
(* The lock *)

\* trigger of a transaction, at the cells there are now.
Trigger(tx) ==
  /\ Pinned \in tx.cellDeps
  /\ Anchor \in tx.cellDeps
  /\ feed[Pinned] # None /\ feed[Pinned].committee = Anchor
  /\ Usable(Pinned)
  /\ lockedAt \in tx.headerDeps
  /\ feed[Pinned].time > lockedAt
  /\ tx.pays

-----------------------------------------------------------------------------
(* The script *)

\* 2. createFeedCell, unless there is one.
CreateFeed ==
  /\ step = "feed"
  /\ IF Pinned \in Live THEN UNCHANGED <<now, governance, feeds>>
     ELSE Create(Pinned) /\ feed'[Pinned].committee = Anchor
  /\ step' = "lock"
  /\ UNCHANGED <<lockedAt, release>>

\* 3. The funds are locked in a block of this time.
Lock ==
  /\ step = "lock"
  /\ lockedAt' = now
  /\ step' = "update"
  /\ UNCHANGED <<now, governance, feeds, release>>

\* 4. pullAndUpdate until there is a price of after that block.
PullAndUpdate ==
  /\ step = "update"
  /\ \E u \in Update :
       /\ Built(<<Pinned>>, u) /\ u.time > lockedAt
       /\ feed' = [feed EXCEPT ![Pinned].set = u.set, ![Pinned].time = u.time]
       /\ basis' = [basis EXCEPT ![Pinned] =
            [signed |-> u.signed, nonce |-> cell[Anchor].nonce]]
  /\ step' = "release"
  /\ UNCHANGED <<now, governance, typed, burned, lockedAt, release>>

\* 5. The keeper's transaction: the lock's code is a cell dep that never changes.
Release ==
  /\ step = "release" /\ Pinned \in Live
  /\ release' = [cellDeps |-> {Pinned}, headerDeps |-> {lockedAt}, pays |-> TRUE]
  /\ step' = "sent"
  /\ UNCHANGED <<now, governance, feeds, lockedAt>>

ScriptInit == step = "feed" /\ lockedAt = 0 /\ release = None

ScriptNext == CreateFeed \/ Lock \/ PullAndUpdate \/ Release

TriggerSpec ==
  /\ Init /\ ScriptInit
  /\ [][(Next /\ UNCHANGED script) \/ ScriptNext]_<<vars, script>>

-----------------------------------------------------------------------------
(* Properties *)

\* What the README of the example says of a run: it "updates the feed cell and
\* releases the funds". As long as the price in the feed cell is one that a consumer
\* may use, and of after the lock's block, the lock takes the script's release.
Released ==
  step = "sent" /\ Usable(Pinned) /\ feed[Pinned].committee = Anchor /\ feed[Pinned].time > lockedAt
    => Trigger(release)
=============================================================================
