------------------------------- MODULE Shadow -------------------------------
(***************************************************************************)
(* Shadow mode (apps/publisher/src/shadow.ts): an operator prices every    *)
(* tick as a member would, signs nothing, and some time later compares with*)
(* the committee's update from a mirror, keeping that update as history.   *)
(*                                                                         *)
(* The committee certifies at most one update of a tick, by one of its key *)
(* sets; it has a price of some of the feeds.  The mirror comes to hold an *)
(* update at any time after its tick, in any order, or never: one may be   *)
(* filled in long after.  Its answer to /v1/updates/at is, of each feed,   *)
(* the first update held at or after the tick (api.ts, store.ts).  Answers *)
(* arrive in any order, or not at all.  Of the shadow's own prices only    *)
(* their presence matters: the deviation itself is of no interest here.    *)
(***************************************************************************)
EXTENDS Integers, FiniteSets

CONSTANTS
  Feed, Price,
  MaxTick,
  Sets,       \* number of key sets of the committee in turn; the shadow has the first
  None

ASSUME ShadowAssumption ==
  /\ {MaxTick, Sets} \subseteq Nat
  /\ None \notin Price

VARIABLES
  tick,        \* the last tick fired, 0 at first
  certified,   \* of a tick up to that one: the committee's update, or None
  held,        \* ticks whose update the mirror holds
  own,         \* of a tick: the feeds the shadow has a price of, while a comparison is to come
  asked,       \* of a tick: the answer under way to its comparison
  compared,    \* comparisons counted: [feed, tick, ours, theirs]
  kept,        \* ticks of the updates stored as history
  state        \* of a feed: the tick its FeedState is of, 0 without one

shadowVars == <<tick, certified, held, own, asked, compared, kept, state>>

Prices == [Feed -> Price \cup {None}]

Has(t, f) == certified[t] # None /\ certified[t].prices[f] # None

-----------------------------------------------------------------------------
(* The mirror's answer *)

\* atOrAfter, feedQuery: of a feed, the ticks of the update found: one or none.
AtOrAfter(f, t) ==
  {u \in held : u >= t /\ Has(u, f) /\ \A v \in held : v >= t /\ Has(v, f) => u <= v}

\* grouped: every update once, with the feeds asked for that were found in it.
Answer(t) == {[tick |-> u, feeds |-> {f \in Feed : u \in AtOrAfter(f, t)}] : u \in UNION {AtOrAfter(f, t) : f \in Feed}}

-----------------------------------------------------------------------------
(* The shadow *)

\* tick: observe as a member does; the comparison comes later. The committee certifies
\* an update of the tick or fails to.
Tick ==
  /\ tick < MaxTick
  /\ tick' = tick + 1
  /\ \E priced \in SUBSET Feed : own' = [own EXCEPT ![tick + 1] = priced]
  /\ \E prices \in Prices, set \in 1..Sets :
       /\ \A t \in 1..tick : certified[t] # None => certified[t].set <= set
       /\ certified' = [certified EXCEPT ![tick + 1] =
            IF \A f \in Feed : prices[f] = None THEN None ELSE [set |-> set, prices |-> prices]]
  /\ UNCHANGED <<held, asked, compared, kept, state>>

\* Ingested, or filled in from another publisher.
MirrorLearns ==
  \E t \in 1..tick :
    /\ t \notin held /\ certified[t] # None
    /\ held' = held \cup {t}
    /\ UNCHANGED <<tick, certified, own, asked, compared, kept, state>>

\* compare, fetchReference: after compareDelayMs.
Compare(t) ==
  /\ own[t] # None /\ asked[t] = None
  /\ asked' = [asked EXCEPT ![t] = Answer(t)]
  /\ UNCHANGED <<tick, certified, held, own, compared, kept, state>>

\* Mutant: the first update after the tick will do.
CountsAny(u, t) == TRUE

\* fetchReference: only exact-tick matches count.
Counts(u, t) == u.tick = t

\* saveFinalized: FeedState only moves to newer ticks.
Newer(f, t) == IF t > state[f] THEN t ELSE state[f]

\* keep: not stored twice, and only what the set known at the start has signed.
Keeps(u) == certified[u.tick].set = 1 /\ u.tick \notin kept

Compared(t) ==
  LET matches == {u \in asked[t] : Counts(u, t)}
      new == {u.tick : u \in {v \in matches : Keeps(v)}}
      Theirs(f) == {certified[u.tick].prices[f] : u \in {v \in matches : f \in v.feeds}}
  IN /\ asked[t] # None
     /\ compared' = compared \cup
          {[feed |-> f, tick |-> t, ours |-> f \in own[t],
            theirs |-> IF Theirs(f) = {} THEN None ELSE CHOOSE p \in Theirs(f) : TRUE] : f \in Feed}
     /\ kept' = kept \cup new
     /\ state' = [f \in Feed |-> IF \E u \in new : Has(u, f) THEN Newer(f, CHOOSE u \in new : Has(u, f)) ELSE state[f]]
     /\ own' = [own EXCEPT ![t] = None]
     /\ asked' = [asked EXCEPT ![t] = None]
     /\ UNCHANGED <<tick, certified, held>>

\* shadow.reference_failed: the tick is neither compared nor kept.
Failed(t) ==
  /\ asked[t] # None
  /\ own' = [own EXCEPT ![t] = None]
  /\ asked' = [asked EXCEPT ![t] = None]
  /\ UNCHANGED <<tick, certified, held, compared, kept, state>>

ShadowInit ==
  /\ tick = 0
  /\ certified = [t \in 1..MaxTick |-> None]
  /\ held = {}
  /\ own = [t \in 1..MaxTick |-> None]
  /\ asked = [t \in 1..MaxTick |-> None]
  /\ compared = {}
  /\ kept = {}
  /\ state = [f \in Feed |-> 0]

ShadowNext == Tick \/ MirrorLearns \/ \E t \in 1..MaxTick : Compare(t) \/ Compared(t) \/ Failed(t)

ShadowSpec == ShadowInit /\ [][ShadowNext]_shadowVars

-----------------------------------------------------------------------------
(* Properties *)

\* What counts as the committee's price is its price of the very tick the shadow
\* priced, though the mirror answers with later updates when it has no other, and may
\* hold the tick's own only afterwards (fetchReference).
ComparedTrue ==
  \A c \in compared : c.theirs # None => certified[c.tick] # None /\ certified[c.tick].prices[c.feed] = c.theirs

\* The operator joins with updates of the set it knew, among them every one of that set
\* it compared with, and of each feed with the state of the newest of them, however
\* late the answers were (keep, saveFinalized).
HistoryJoins ==
  /\ \A t \in kept : certified[t] # None /\ certified[t].set = 1
  /\ \A c \in compared : c.theirs # None /\ certified[c.tick].set = 1 => c.tick \in kept
  /\ \A f \in Feed : \A t \in kept : Has(t, f) => t <= state[f]

\* What a shadow says of the committee, and the history it would join with, are true
\* for whatever order of ticks, answers and rotations (fetchReference, keep).
ShadowTrue == ComparedTrue /\ HistoryJoins
=============================================================================
