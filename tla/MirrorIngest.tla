---------------------------- MODULE MirrorIngest ----------------------------
(***************************************************************************)
(* A mirror collects the final updates of one committee from several       *)
(* publishers (apps/mirror/src/ingest.ts, store.ts, retention.ts).         *)
(*                                                                         *)
(* Per publisher it follows a stream and, at start, at every connection    *)
(* and every minute, pages over HTTP through what is newer than a cursor.  *)
(* A page is requested, answered and taken at three different moments,     *)
(* and frames arrive in between.                                           *)
(***************************************************************************)
EXTENDS Integers, Sequences

CONSTANTS
  Source,       \* publishers followed
  Faulty,       \* those that send anything
  Headers,      \* what tells updates of one tick apart
  Certified,    \* updates a quorum of some key set signed
  Views,        \* sets of updates that Committee.verify takes at some time
  NoUpdate,         \* no update
  MaxTick,      \* bound on ticks
  Page,         \* updates of a full answer
  MaxBreaks     \* bound on failures, restarts and changes of the committee view

Tick == 1..MaxTick
SignedUpdate == [tick : Tick, header : Headers]

ASSUME MirrorIngestAssumption ==
  /\ Faulty \subseteq Source
  /\ Certified \subseteq SignedUpdate
  /\ Views \subseteq SUBSET Certified
  /\ NoUpdate \notin Headers
  /\ MaxTick \in Nat /\ Page \in Nat \ {0} /\ MaxBreaks \in Nat

Correct == Source \ Faulty

VARIABLES
  history,        \* [Correct -> finalized updates of the publisher]
  connected,      \* [Correct -> whether the stream is open]
  wire,           \* [Correct -> frames under way]
  fetch,          \* [Correct -> the request of backfill; no request is no syncing]
  cursor,         \* [Source -> cursor]
  updates,        \* table updates: [Tick -> header or NoUpdate]
  equivocations,  \* table equivocations
  verifiable,     \* what Committee.verify takes now
  horizon,        \* ticks before it have been pruned
  verified,       \* not in the code: every update ever verified
  breaks

sources == <<history, connected, wire, fetch>>
stored == <<updates, equivocations, verified>>
ingestVars == <<sources, cursor, stored, verifiable, horizon, breaks>>

Idle == [step |-> "idle"]
Asked(after) == [step |-> "asked", after |-> after]
Answered(page) == [step |-> "answered", page |-> page]

Request ==
  {Idle} \cup [step : {"asked"}, after : 0..MaxTick]
         \cup [step : {"answered"}, page : Seq(Certified)]

IngestTypeOK ==
  /\ history \in [Correct -> SUBSET Certified]
  /\ connected \in [Correct -> BOOLEAN]
  /\ wire \in [Correct -> Seq(Certified)]
  /\ fetch \in [Correct -> Request]
  /\ cursor \in [Source -> 0..MaxTick]
  /\ updates \in [Tick -> Headers \cup {NoUpdate}]
  /\ equivocations \subseteq SignedUpdate
  /\ verifiable \in SUBSET Certified
  /\ horizon \in 0..MaxTick
  /\ verified \subseteq SignedUpdate
  /\ breaks \in 0..MaxBreaks

-----------------------------------------------------------------------------
(* Ingestion: the effect of several blobs taken one after the other *)

\* Places of the blobs that verify.
Good(blobs) == {i \in DOMAIN blobs : blobs[i] \in verifiable}

GoodAt(blobs, t) == {i \in Good(blobs) : blobs[i].tick = t}

\* insert: the first copy stays.
Stored(blobs) ==
  [t \in Tick |->
     IF updates[t] # NoUpdate \/ GoodAt(blobs, t) = {} THEN updates[t]
     ELSE LET first == CHOOSE i \in GoodAt(blobs, t) : \A j \in GoodAt(blobs, t) : i <= j
          IN blobs[first].header]

\* Mutant: the first copy is not made evidence.
ConflictingSecond(blobs) ==
  {u \in SignedUpdate : u.header # updates[u.tick] /\ updates[u.tick] # NoUpdate
                  /\ \E i \in GoodAt(blobs, u.tick) : blobs[i].header = u.header}

\* insert: with a second header of a tick, both are evidence.
Conflicting(blobs) ==
  LET copies == [t \in Tick |-> {blobs[i].header : i \in GoodAt(blobs, t)} \cup ({updates[t]} \ {NoUpdate})]
  IN {u \in SignedUpdate : u.header \in copies[u.tick] /\ \E h \in copies[u.tick] : h # u.header}

\* accept: the cursor follows ticks of verified updates.
Reached(s, blobs) == {cursor[s]} \cup {blobs[i].tick : i \in Good(blobs)}

\* accept, for each blob in turn.
Accept(s, blobs) ==
  /\ updates' = Stored(blobs)
  /\ equivocations' = equivocations \cup Conflicting(blobs)
  /\ verified' = verified \cup {blobs[i] : i \in Good(blobs)}
  /\ \E newest \in Reached(s, blobs) :
       /\ \A t \in Reached(s, blobs) : t <= newest
       /\ cursor' = [cursor EXCEPT ![s] = newest]

-----------------------------------------------------------------------------
(* Publishers *)

\* A publisher stores a final update, of any tick it has none of, and sends it to
\* the streams open then.
Finalize(s) ==
  \E u \in Certified :
    /\ \A v \in history[s] : v.tick # u.tick
    /\ history' = [history EXCEPT ![s] = @ \cup {u}]
    /\ wire' = [wire EXCEPT ![s] = IF connected[s] THEN Append(@, u) ELSE @]
    /\ UNCHANGED <<connected, fetch, cursor, stored, verifiable, horizon, breaks>>

\* finalizedAfter: the oldest updates newer than `after`, in order, at most a page.
Pages(s, after) ==
  LET newer == {u \in history[s] : u.tick > after}
  IN {page \in UNION {[1..n -> newer] : n \in 0..Page} :
        /\ \A i, j \in DOMAIN page : i < j => page[i].tick < page[j].tick
        /\ \A u \in newer :
             \/ \E i \in DOMAIN page : page[i] = u
             \/ Len(page) = Page /\ \A i \in DOMAIN page : page[i].tick < u.tick}

Answer(s) ==
  /\ fetch[s].step = "asked"
  /\ \E page \in Pages(s, fetch[s].after) : fetch' = [fetch EXCEPT ![s] = Answered(page)]
  /\ UNCHANGED <<history, connected, wire, cursor, stored, verifiable, horizon, breaks>>

\* A faulty publisher streams or answers anything.
Lie(s) ==
  \E u, v \in SignedUpdate : \E blobs \in {<<u>>, <<u, v>>} :
    /\ Accept(s, blobs)
    /\ UNCHANGED <<sources, verifiable, horizon, breaks>>

-----------------------------------------------------------------------------
(* The mirror *)

\* backfill unless it runs (syncing).
Backfill(s, after) == IF fetch[s] = Idle THEN Asked(after) ELSE fetch[s]

Resync(s) ==
  /\ fetch[s] = Idle
  /\ fetch' = [fetch EXCEPT ![s] = Backfill(s, cursor[s])]
  /\ UNCHANGED <<history, connected, wire, cursor, stored, verifiable, horizon, breaks>>

StreamOpens(s) ==
  /\ ~connected[s]
  /\ connected' = [connected EXCEPT ![s] = TRUE]
  /\ fetch' = [fetch EXCEPT ![s] = Backfill(s, cursor[s])]
  /\ UNCHANGED <<history, wire, cursor, stored, verifiable, horizon, breaks>>

Frame(s) ==
  /\ wire[s] # <<>>
  /\ Accept(s, <<Head(wire[s])>>)
  /\ wire' = [wire EXCEPT ![s] = Tail(@)]
  /\ UNCHANGED <<history, connected, fetch, verifiable, horizon, breaks>>

\* The loop of backfill takes a page, and asks for the next after a full one.
TakePage(s) ==
  /\ fetch[s].step = "answered"
  /\ Accept(s, fetch[s].page)
  /\ fetch' = [fetch EXCEPT ![s] = IF Len(fetch[s].page) < Page THEN Idle ELSE Asked(cursor'[s])]
  /\ UNCHANGED <<history, connected, wire, verifiable, horizon, breaks>>

Break == breaks < MaxBreaks /\ breaks' = breaks + 1

\* Mutant: syncing is not reset when backfill throws.
FailSyncing(s) ==
  /\ Break
  /\ fetch[s] # Idle
  /\ fetch' = [fetch EXCEPT ![s] = [step |-> "failed"]]
  /\ UNCHANGED <<history, connected, wire, cursor, stored, verifiable, horizon>>

\* backfill throws: no answer in time, or an answer that cannot be read.
Fail(s) ==
  /\ Break
  /\ fetch[s] # Idle
  /\ fetch' = [fetch EXCEPT ![s] = Idle]
  /\ UNCHANGED <<history, connected, wire, cursor, stored, verifiable, horizon>>

Close(s) ==
  /\ Break
  /\ connected[s]
  /\ connected' = [connected EXCEPT ![s] = FALSE]
  /\ wire' = [wire EXCEPT ![s] = <<>>]
  /\ UNCHANGED <<history, fetch, cursor, stored, verifiable, horizon>>

\* The committee is read again: paused or not, with other key sets.
Refresh ==
  /\ Break
  /\ verifiable' \in Views \ {verifiable}
  /\ UNCHANGED <<sources, cursor, stored, horizon>>

\* prune: evidence stays.
Prune ==
  /\ horizon' \in horizon+1..MaxTick
  /\ updates' = [t \in Tick |-> IF t < horizon' THEN NoUpdate ELSE updates[t]]
  /\ UNCHANGED <<sources, cursor, equivocations, verified, verifiable, breaks>>

Ticks == {0} \cup {t \in Tick : updates[t] # NoUpdate}

\* A new process: every cursor starts at the newest tick stored.
Restart ==
  /\ Break
  /\ connected' = [s \in Correct |-> FALSE]
  /\ wire' = [s \in Correct |-> <<>>]
  /\ \E newest \in Ticks :
       /\ \A t \in Ticks : t <= newest
       /\ cursor' = [s \in Source |-> newest]
       /\ fetch' = [s \in Correct |-> Asked(newest)]
  /\ verifiable' \in Views
  /\ UNCHANGED <<history, stored, horizon>>

IngestInit ==
  /\ history = [s \in Correct |-> {}]
  /\ connected = [s \in Correct |-> FALSE]
  /\ wire = [s \in Correct |-> <<>>]
  /\ fetch = [s \in Correct |-> Asked(0)]
  /\ cursor = [s \in Source |-> 0]
  /\ updates = [t \in Tick |-> NoUpdate]
  /\ equivocations = {}
  /\ verifiable \in Views
  /\ horizon = 0
  /\ verified = {}
  /\ breaks = 0

IngestNext ==
  \/ \E s \in Correct :
       \/ Finalize(s) \/ Answer(s) \/ Resync(s) \/ StreamOpens(s)
       \/ Frame(s) \/ TakePage(s) \/ Fail(s) \/ Close(s)
  \/ \E s \in Faulty : Lie(s)
  \/ Refresh \/ Prune \/ Restart

IngestSpec == IngestInit /\ [][IngestNext]_ingestVars

\* Timers, the event loop and the network go on; failures are bounded by MaxBreaks.
IngestFairness ==
  \A s \in Correct :
    /\ WF_ingestVars(Answer(s))
    /\ WF_ingestVars(Resync(s))
    /\ WF_ingestVars(StreamOpens(s))
    /\ WF_ingestVars(Frame(s))
    /\ WF_ingestVars(TakePage(s))

IngestFairSpec == IngestSpec /\ IngestFairness

-----------------------------------------------------------------------------
(* Properties *)

\* A cursor is at a tick the mirror verified an update of and stored: no publisher
\* moves a cursor, its own or over a restart those of others, past final updates
\* (PublisherSource.accept, constructor).
CursorGrounded ==
  \A s \in Source : cursor[s] # 0 => updates[cursor[s]] # NoUpdate \/ cursor[s] < horizon

\* Two verified headers of a tick are both evidence, from whichever publishers, by
\* stream or page, and in whichever order they came, unless the first was pruned
\* before the second came (MirrorStore.insert).
ConflictsKept ==
  \A u, v \in verified :
    u.tick = v.tick /\ u # v /\ u.tick >= horizon => {u, v} \subseteq equivocations

OnlyPruned ==
  \A t \in Tick : updates[t] # NoUpdate =>
    /\ updates'[t] \in {updates[t], NoUpdate}
    /\ updates'[t] = NoUpdate => t < horizon'

\* An update that is served for a tick is never replaced, only pruned
\* (MirrorStore.insert: the first copy stays canonical).
CanonicalKept == [][OnlyPruned]_ingestVars

\* A mirror gets, in the end and for good, at least as far as any correct publisher
\* it follows, whatever other publishers send, however its connection and requests
\* failed before, if the committee view settles on one that takes all its updates
\* (backfill every RESYNC_MS; ingest.ts header).
CatchesUp ==
  <>[](verifiable = Certified) =>
    \A s \in Correct : \A u \in Certified :
      [](u \in history[s] => <>(cursor[s] >= u.tick))

\* Everything a correct publisher finalized is stored in the end (ingest.ts:86,
\* "Page through everything newer than the cursor"; ingest.ts:118, "anything
\* finalized while we were away").
Complete ==
  [](verifiable = Certified /\ horizon = 0) =>
    \A s \in Correct : \A u \in Certified :
      [](u \in history[s] => <>(updates[u.tick] # NoUpdate))
=============================================================================
