--------------------------- MODULE PublisherNode ---------------------------
(***************************************************************************)
(* The publishers of one committee agreeing on one price update per tick   *)
(* (apps/publisher/src/node.ts, store.ts, scheduler.ts, leaderOrder.ts).   *)
(*                                                                         *)
(* Network.  msgs only grows: a message in it may be received late, in any *)
(* order, more than once or never.  Observations, proposals and signatures *)
(* carry their author's signature and may be relayed, so a message has an  *)
(* author but no addressee; a tick_request or obs_request only makes a     *)
(* peer send again what is already in msgs, so neither is a message here.  *)
(*                                                                         *)
(* Time.  One integer clock; publisher p reads now + Offset[p].            *)
(*                                                                         *)
(* Identity.  A header hash identifies what it hashes, so a header is the  *)
(* record of what the committee signed; an observation hash is the         *)
(* observation.  A feed's EMA is a function of the chain of updates its    *)
(* prev field names, so prev stands for it.                                *)
(*                                                                         *)
(* Crash.  TickState (mem), the calls suspended on the key signer (signing)*)
(* and the timers are lost; the SQLite store (signed, final, feedTick) is  *)
(* kept.                                                                   *)
(***************************************************************************)
EXTENDS Integers, FiniteSets

CONSTANTS
  Publisher,        \* the key set
  Faulty,           \* publishers that may send anything and sign anything
  Tick,             \* tick boundaries, positive numbers on the clock
  Feed,             \* feeds of the committee config
  Price,            \* prices a feed may have
  View,             \* what a publisher may measure: feeds it prices -> price
  Sees(_, _),       \* publisher, tick -> views it may send, None for nothing
  FaultyPicks,      \* bound on the sets of publishers a faulty leader chooses
  None,             \* no value
  Period,           \* tickPeriodMs
  Deadline,         \* observationDeadlineMs
  Skew,             \* clock skew tolerated on a proposer's slot
  MaxSigningLag,    \* maxSigningLagMs
  Retention,        \* store history kept, 0 keeps everything
  KeepMemory,       \* per-tick memory kept (60 s)
  SyncBatch,        \* updates in one sync_response
  SyncEvery,        \* syncEveryTicks: firings between two housekeepings
  Tolerance,        \* toleranceBps
  Offset,           \* clock offset of each publisher
  MaxTime,          \* bound on the clock
  MaxRestarts,      \* bound on restarts
  Aggregate(_),     \* a sample of a feed -> its price
  Near(_, _, _),    \* aggregate, own price, tolerance -> may be signed
  Leader(_, _, _)   \* tick, anchor tick, rank -> publisher

Correct == Publisher \ Faulty
N == Cardinality(Publisher)

\* floor(2n/3) + 1.
Quorum == (2 * N) \div 3 + 1

\* Backup ranks beyond the primary.
MaxRank == N - Quorum
Rank == 0..MaxRank

ASSUME CommitteeAssumption ==
  /\ IsFiniteSet(Publisher)
  /\ Faulty \subseteq Publisher
  /\ FaultyPicks \subseteq SUBSET Publisher
  /\ 3 * Cardinality(Faulty) < Cardinality(Publisher)

ASSUME TimeAssumption ==
  /\ Tick \subseteq Nat \ {0}
  /\ Period \in Nat \ {0}
  /\ Deadline \in Nat
  /\ Skew \in Nat
  /\ MaxSigningLag \in Nat
  /\ Retention \in Nat
  /\ KeepMemory \in Nat
  /\ SyncBatch \in Nat
  /\ SyncEvery \in Nat \ {0}
  /\ MaxTime \in Nat
  /\ MaxRestarts \in Nat
  /\ Offset \in [Publisher -> Int]

\* What store.prune asks of its caller and config.ts takes for granted: history
\* is kept at least as long as a tick can be signed.
RetentionSafe == Retention # 0 => MaxSigningLag <= Retention

ASSUME ViewAssumption ==
  /\ View \subseteq UNION {[fs -> Price] : fs \in SUBSET Feed}
  /\ None \notin View
  /\ \A p \in Publisher, t \in Tick : Sees(p, t) \subseteq View \cup {None}
  /\ \A v \in UNION {[ps -> Price] : ps \in (SUBSET Publisher) \ {{}}} :
       Aggregate(v) \in Price

\* leaderOrder is a permutation of the key set.
ASSUME LeaderAssumption ==
  \A t \in Tick, a \in Tick \cup {0} :
    /\ \A r \in Rank : Leader(t, a, r) \in Publisher
    /\ \A r, q \in Rank : Leader(t, a, r) = Leader(t, a, q) => r = q

VARIABLES
  now,       \* the clock
  restarts,  \* restarts so far
  armed,     \* [publisher -> tick its scheduler waits for, 0 for none]
  fired,     \* [publisher -> ticks its scheduler fired since it started]
  mem,       \* [publisher -> [tick -> TickState]], lost in a crash
  signing,   \* [publisher -> calls suspended on the key signer]
  signed,    \* [publisher -> [tick -> header]], table signed_ticks
  final,     \* [publisher -> [tick -> header]], table finalized
  feedTick,  \* [publisher -> [feed -> tick]], table feed_state
  msgs       \* every message sent

disk == <<signed, final, feedTick>>
vars == <<now, restarts, armed, fired, mem, signing, signed, final, feedTick,
          msgs>>

-----------------------------------------------------------------------------
(* What is stored and sent *)

Message == [price : Price, num : 1..N, prev : Tick \cup {0}]

Header ==
  [tick : Tick, feeds : UNION {[fs -> Message] : fs \in SUBSET Feed}]

ASSUME NoneAssumption == None \notin Header

HeaderOrNone == Header \cup {None}

AnchorRecord == [tick : Tick \cup {0}, header : HeaderOrNone]

ChosenViews == UNION {[ps -> View] : ps \in SUBSET Publisher}

Proposal ==
  [rank : Rank, proposer : Publisher, tick : Tick, anchor : AnchorRecord,
   prev : Tick \cup {0}, chosen : ChosenViews]

TickState ==
  [obs : [Publisher -> View \cup {None}],       \* observations held
   own : View \cup {None},                       \* the observation it made
   best : Proposal \cup {None},                  \* lowest-ranked valid proposal
   proposed : SUBSET Rank,                       \* proposedRanks
   asked : BOOLEAN,                              \* requestedTick
   pending : SUBSET Proposal,                    \* waiting for observations
   rerun : SUBSET Proposal,                      \* taken from pending, to re-check
   early : BOOLEAN,                              \* proposeEarly owed after rerun
   derived : SUBSET Header,                      \* headers derived here
   finalized : BOOLEAN]

EmptyTick ==
  [obs |-> [p \in Publisher |-> None], own |-> None, best |-> None,
   proposed |-> {}, asked |-> FALSE, pending |-> {}, rerun |-> {},
   early |-> FALSE, derived |-> {}, finalized |-> FALSE]

SigningCall ==
  [op : {"observation"}, tick : Tick, view : View]
    \cup [op : {"proposal"}, proposal : Proposal]
    \cup [op : {"header"}, header : Header]

Msg ==
  [type : {"observation"}, from : Publisher, tick : Tick, view : View]
    \cup [type : {"proposal"}, proposal : Proposal]
    \cup [type : {"signature"}, from : Publisher, header : Header]
    \cup [type : {"sync_request"}, after : Tick \cup {0}]
    \cup [type : {"sync_response"}, updates : SUBSET Header]

TypeOK ==
  /\ now \in Nat
  /\ restarts \in Nat
  /\ armed \in [Correct -> Tick \cup {0}]
  /\ fired \in [Correct -> SUBSET Tick]
  /\ mem \in [Correct -> [Tick -> TickState]]
  /\ signing \in [Correct -> SUBSET SigningCall]
  /\ signed \in [Correct -> [Tick -> HeaderOrNone]]
  /\ final \in [Correct -> [Tick -> HeaderOrNone]]
  /\ feedTick \in [Correct -> [Feed -> Tick \cup {0}]]
  /\ msgs \subseteq Msg

-----------------------------------------------------------------------------
(* Reading the store and the clock *)

Now(i) == now + Offset[i]

\* The largest of a set of ticks, 0 when there is none.
Last(ticks) ==
  LET top == {t \in ticks : \A u \in ticks : u <= t}
  IN IF top = {} THEN 0 ELSE CHOOSE t \in top : TRUE

Finalized(i) == {t \in Tick : final[i][t] # None}

\* latestFinalizedTick() ?? 0.
Latest(i) == Last(Finalized(i))

\* A later tick is finalized and this one is not: it is abandoned.
Passed(i, t) == Latest(i) >= t /\ t \notin Finalized(i)

\* Latest finalized update at or before t - 2 periods.
Anchor(i, t) ==
  LET a == Last({u \in Finalized(i) : u <= t - 2 * Period})
  IN [tick |-> a, header |-> IF a = 0 THEN None ELSE final[i][a]]

Leads(i, p, t, r) == Leader(t, Anchor(i, t).tick, r) = p

SlotOpens(t, r) == t + r * Deadline

\* The next boundary strictly after clock reading x (0: beyond the model).
NextTick(x) ==
  LET next == {t \in Tick : t > x /\ \A u \in Tick : u > x => t <= u}
  IN IF next = {} THEN 0 ELSE CHOOSE t \in next : TRUE

\* Publisher p sent this observation; a faulty one sends different ones at will.
Sent(p, t, v) ==
  IF p \in Faulty THEN v \in Sees(p, t) \ {None}
  ELSE [type |-> "observation", from |-> p, tick |-> t, view |-> v] \in msgs

HasSigned(p, h) ==
  p \in Faulty \/ [type |-> "signature", from |-> p, header |-> h] \in msgs

SignedHeaders == {m.header : m \in {k \in msgs : k.type = "signature"}}

\* A quorum signed h: whoever holds those signatures can prove it.
Certified(h) == Cardinality({p \in Publisher : HasSigned(p, h)}) >= Quorum

-----------------------------------------------------------------------------
(* Deriving the header from observations and history *)

Pricing(f, chosen) == {p \in DOMAIN chosen : f \in DOMAIN chosen[p]}

\* A feed is in the update when a quorum of the chosen observations price it.
Derive(i, t, chosen) ==
  [tick |-> t,
   feeds |->
     [f \in {g \in Feed : Cardinality(Pricing(g, chosen)) >= Quorum} |->
        [price |-> Aggregate([p \in Pricing(f, chosen) |-> chosen[p][f]]),
         num |-> Cardinality(Pricing(f, chosen)),
         prev |-> feedTick[i][f]]]]

\* Every price it also measured is within tolerance of its own. A publisher
\* with no observation of its own for the tick has nothing to compare.
Tolerable(s, h) ==
  s.own # None =>
    \A f \in DOMAIN h.feeds \cap DOMAIN s.own :
      Near(h.feeds[f].price, s.own[f], Tolerance)

-----------------------------------------------------------------------------
(* Steps shared by the handlers. s is the tick's state as the handler has    *)
(* changed it so far, out the messages and calls the suspended calls it      *)
(* leaves.                                                                   *)

Become(i, t, s, out, calls) ==
  /\ mem' = [mem EXCEPT ![i][t] = s]
  /\ msgs' = msgs \cup out
  /\ signing' = [signing EXCEPT ![i] = calls]

\* Mutant: the update saved last becomes its feeds' state.
SaveLastWins(i, new) ==
  LET fresh == {h \in new : final[i][h.tick] = None}
  IN /\ final' = [final EXCEPT ![i] = [t \in Tick |->
                    IF \E h \in fresh : h.tick = t
                    THEN CHOOSE h \in fresh : h.tick = t ELSE @[t]]]
     /\ feedTick' = [feedTick EXCEPT ![i] = [f \in Feed |->
                    IF \E h \in fresh : f \in DOMAIN h.feeds
                    THEN Last({h.tick : h \in {g \in fresh : f \in DOMAIN g.feeds}}) ELSE @[f]]]

\* saveFinalized: ignored when the tick is stored; a feed's state only advances.
Save(i, new) ==
  LET fresh == {h \in new : final[i][h.tick] = None}
  IN /\ final' = [final EXCEPT ![i] = [t \in Tick |->
                    IF \E h \in fresh : h.tick = t
                    THEN CHOOSE h \in fresh : h.tick = t ELSE @[t]]]
     /\ feedTick' = [feedTick EXCEPT ![i] = [f \in Feed |->
                    Last({@[f]} \cup {h.tick : h \in {g \in fresh : f \in DOMAIN g.feeds}})]]

\* A peer still works on a tick finalized here: send it the update.
ShareFinalized(i, t) ==
  IF mem[i][t].finalized /\ final[i][t] # None
  THEN {[type |-> "sync_response", updates |-> {final[i][t]}]}
  ELSE {}

SyncRequest(i) == [type |-> "sync_request", after |-> Latest(i)]

-----------------------------------------------------------------------------
(* onProposal *)

\* The proposal's anchor is ours and its proposer may speak now.
SlotOk(i, p) ==
  /\ p.anchor = Anchor(i, p.tick)
  /\ Leads(i, p.proposer, p.tick, p.rank)
  /\ Now(i) + Skew >= SlotOpens(p.tick, p.rank)
  /\ p.tick >= Now(i) - MaxSigningLag
  /\ p.tick <= Now(i) + Period

\* The proposer has finalized more than this publisher.
Behind(i, p) ==
  \/ p.anchor.tick > Anchor(i, p.tick).tick
  \/ SlotOk(i, p) /\ p.prev > Latest(i)

Admissible(i, p) ==
  /\ SlotOk(i, p)
  /\ p.prev = Latest(i)
  /\ Cardinality(DOMAIN p.chosen) >= Quorum

\* Only a leader-validated proposal may become the one backups re-propose.
Best(s, p) == IF s.best = None \/ p.rank < s.best.rank THEN p ELSE s.best

Missing(s, p) == {q \in DOMAIN p.chosen : s.obs[q] = None}

Matches(s, p) == \A q \in DOMAIN p.chosen : s.obs[q] = p.chosen[q]

\* Mutant: a header signed before for the tick is replaced.
DerivedResigned(i, s, h, out, calls) ==
  LET sign == IF Tolerable(s, h) THEN {[op |-> "header", header |-> h]} ELSE {}
  IN /\ Become(i, h.tick, [s EXCEPT !.derived = @ \cup {h}], out, calls \cup sign)
     /\ signed' = IF sign = {} THEN signed ELSE [signed EXCEPT ![i][h.tick] = h]
     /\ UNCHANGED <<final, feedTick>>

\* Mutant: the row is read but not written before the signer is called.
DerivedUnreserved(i, s, h, out, calls) ==
  LET sign == IF Tolerable(s, h) /\ signed[i][h.tick] \in {None, h}
              THEN {[op |-> "header", header |-> h]} ELSE {}
  IN /\ Become(i, h.tick, [s EXCEPT !.derived = @ \cup {h}], out, calls \cup sign)
     /\ UNCHANGED disk

\* The header is derived, and signed when it is tolerable and no other header
\* of the tick was signed before (reserveSignature). Signatures on it that
\* arrived earlier finalize it here in the code; see OnSignature.
Derived(i, s, h, out, calls) ==
  LET guard == IF Tolerable(s, h) /\ signed[i][h.tick] = None THEN h ELSE signed[i][h.tick]
      sign == IF Tolerable(s, h) /\ guard = h THEN {[op |-> "header", header |-> h]} ELSE {}
  IN /\ Become(i, h.tick, [s EXCEPT !.derived = @ \cup {h}], out, calls \cup sign)
     /\ signed' = [signed EXCEPT ![i][h.tick] = guard]
     /\ UNCHANGED <<final, feedTick>>

OnProposal(i, s, p, out, calls) ==
  LET t == p.tick
      open == ~s.finalized /\ ~Passed(i, t)
      ready == open /\ Admissible(i, p)
      b == [s EXCEPT !.best = Best(s, p)]
      h == Derive(i, t, p.chosen)
  IN \/ /\ ~ready
        /\ Become(i, t, s, out \cup (IF open /\ Behind(i, p) THEN {SyncRequest(i)} ELSE {}), calls)
        /\ UNCHANGED disk
     \/ /\ ready
        /\ Missing(s, p) # {}
        /\ Become(i, t, [b EXCEPT !.pending = @ \cup {p}], out, calls)
        /\ UNCHANGED disk
     \/ /\ ready
        /\ Missing(s, p) = {}
        /\ ~Matches(s, p) \/ DOMAIN h.feeds = {}
        /\ Become(i, t, b, out, calls)
        /\ UNCHANGED disk
     \/ /\ ready
        /\ Matches(s, p)
        /\ DOMAIN h.feeds # {}
        /\ Derived(i, b, h, out, calls)

-----------------------------------------------------------------------------
(* maybePropose *)

Held(s) == {p \in Publisher : s.obs[p] # None}

\* The best proposal already seen, so signatures already given still count;
\* failing that, every observation held.
Body(i, t, s, r) ==
  IF s.best # None THEN [s.best EXCEPT !.rank = r, !.proposer = i]
  ELSE [rank |-> r, proposer |-> i, tick |-> t, anchor |-> Anchor(i, t),
        prev |-> Latest(i), chosen |-> [p \in Held(s) |-> s.obs[p]]]

\* leaders(t).indexOf(i), among the ranks it has not proposed for and whose
\* slot is open.
OpenRank(i, t, s) ==
  {r \in Rank : /\ Leads(i, i, t, r)
                /\ r \notin s.proposed
                /\ Now(i) >= SlotOpens(t, r)
                /\ ~s.finalized
                /\ ~Passed(i, t)}

MaybePropose(i, t, s, out, calls) ==
  \/ /\ OpenRank(i, t, s) = {}
     /\ Become(i, t, s, out, calls)
  \/ \E r \in OpenRank(i, t, s) :
       LET ask == r > 0 /\ ~s.asked /\ s.best = None
           able == s.best # None \/ Cardinality(Held(s)) >= Quorum
       IN \/ ask /\ Become(i, t, [s EXCEPT !.asked = TRUE], out, calls)
          \/ ~ask /\ ~able /\ Become(i, t, s, out, calls)
          \/ /\ ~ask
             /\ able
             /\ Become(i, t, [s EXCEPT !.proposed = @ \cup {r}], out,
                       calls \cup {[op |-> "proposal", proposal |-> Body(i, t, s, r)]})

\* Rank 0 proposes at once when it holds every publisher's observation.
ProposeEarly(i, t, s, out, calls) ==
  \/ Held(s) = Publisher /\ Leads(i, i, t, 0) /\ MaybePropose(i, t, s, out, calls)
  \/ ~(Held(s) = Publisher /\ Leads(i, i, t, 0)) /\ Become(i, t, s, out, calls)

-----------------------------------------------------------------------------
(* Scheduler and timers *)

Advance ==
  /\ now < MaxTime
  /\ now' = now + 1
  /\ UNCHANGED <<restarts, armed, fired, mem, signing, disk, msgs>>

\* node.prune: per-tick memory is dropped; a handler that is re-checking
\* pending proposals keeps its own list.
Forget(i, ticks) ==
  [t \in Tick |-> IF t \in ticks
                  THEN [EmptyTick EXCEPT !.rerun = mem[i][t].rerun, !.early = mem[i][t].early]
                  ELSE mem[i][t]]

\* The timer fires: measure the tick, every SyncEvery firings ask peers for
\* history and drop old memory, then wait for the next boundary.
Fire(i) ==
  LET t == armed[i]
      housekeeping == (Cardinality(fired[i] \cup {t})) % SyncEvery = 0
  IN /\ t # 0
     /\ Now(i) >= t
     /\ \E v \in Sees(i, t) :
          signing' = [signing EXCEPT ![i] = @ \cup
                        (IF v = None THEN {}
                         ELSE {[op |-> "observation", tick |-> t, view |-> v]})]
     /\ fired' = [fired EXCEPT ![i] = @ \cup {t}]
     /\ armed' = [armed EXCEPT ![i] = NextTick(Now(i))]
     /\ msgs' = msgs \cup (IF housekeeping THEN {SyncRequest(i)} ELSE {})
     /\ mem' = IF housekeeping
               THEN [mem EXCEPT ![i] = Forget(i, {u \in Tick : u < Now(i) - KeepMemory})]
               ELSE mem
     /\ UNCHANGED <<now, restarts, disk>>

\* A maybePropose timer of a fired tick: the grace period, a backup slot, or
\* the second call of a backup slot.
Timer(i) ==
  /\ \E t \in fired[i] :
       OpenRank(i, t, mem[i][t]) # {} /\ MaybePropose(i, t, mem[i][t], {}, signing[i])
  /\ UNCHANGED <<now, restarts, armed, fired, disk>>

-----------------------------------------------------------------------------
(* The key signer answers. A call it refuses or never answers stays suspended:*)
(* a rejection ends the call, or the process (Restart).                      *)

ObservationSigned(i) ==
  \E c \in signing[i] :
    /\ c.op = "observation"
    /\ ProposeEarly(i, c.tick,
         [mem[i][c.tick] EXCEPT !.own = c.view, !.obs[i] = c.view],
         {[type |-> "observation", from |-> i, tick |-> c.tick, view |-> c.view]},
         signing[i] \ {c})
    /\ UNCHANGED <<now, restarts, armed, fired, disk>>

ProposalSigned(i) ==
  \E c \in signing[i] :
    /\ c.op = "proposal"
    /\ OnProposal(i, mem[i][c.proposal.tick], c.proposal,
         {[type |-> "proposal", proposal |-> c.proposal]}, signing[i] \ {c})
    /\ UNCHANGED <<now, restarts, armed, fired>>

HeaderSigned(i) ==
  \E c \in signing[i] :
    /\ c.op = "header"
    /\ signing' = [signing EXCEPT ![i] = @ \ {c}]
    /\ msgs' = msgs \cup {[type |-> "signature", from |-> i, header |-> c.header]}
    /\ UNCHANGED <<now, restarts, armed, fired, mem, disk>>

-----------------------------------------------------------------------------
(* Messages *)

OnObservation(i) ==
  \E t \in Tick, q \in Publisher, v \in View :
    LET s == mem[i][t]
        held == [s EXCEPT !.obs[q] = v]
    IN /\ Sent(q, t, v)
       /\ s.obs[q] = None
       /\ \/ /\ s.pending = {}
             /\ ProposeEarly(i, t, held, {}, signing[i])
             /\ UNCHANGED disk
          \/ \E p \in s.pending :
               OnProposal(i, [held EXCEPT !.pending = {}, !.early = TRUE,
                                          !.rerun = @ \cup (s.pending \ {p})],
                          p, ShareFinalized(i, t), signing[i])
       /\ UNCHANGED <<now, restarts, armed, fired>>

\* The loop over the pending proposals goes on, or ends with proposeEarly.
\* A proposal's own signing does not hold it up here.
Resume(i) ==
  \E t \in Tick :
    LET s == mem[i][t]
    IN /\ \/ \E p \in s.rerun :
               OnProposal(i, [s EXCEPT !.rerun = @ \ {p}], p, ShareFinalized(i, t), signing[i])
          \/ /\ s.rerun = {}
             /\ s.early
             /\ ProposeEarly(i, t, [s EXCEPT !.early = FALSE], {}, signing[i])
             /\ UNCHANGED disk
       /\ UNCHANGED <<now, restarts, armed, fired>>

\* What a faulty leader may propose: any anchor and history some publisher has,
\* for a rank it leads under that anchor.
FaultyProposal ==
  UNION {{p \in [rank : Rank, proposer : Faulty, tick : {t},
                 anchor : {Anchor(j, t) : j \in Correct},
                 prev : {Latest(j) : j \in Correct},
                 chosen : UNION {{c \in [ps -> View] : \A q \in ps : Sent(q, t, c[q])} :
                                 ps \in FaultyPicks}] :
            Leader(t, p.anchor.tick, p.rank) = p.proposer} :
         t \in Tick}

\* A proposal that is rejected without an answer changes nothing.
Heeded(i, p) ==
  \/ ~(ShareFinalized(i, p.tick) \subseteq msgs)
  \/ /\ ~mem[i][p.tick].finalized
     /\ ~Passed(i, p.tick)
     /\ Admissible(i, p) \/ Behind(i, p)

ReceiveProposal(i) ==
  \E p \in {m.proposal : m \in {k \in msgs : k.type = "proposal"}} \cup FaultyProposal :
    /\ Heeded(i, p)
    /\ OnProposal(i, mem[i][p.tick], p, ShareFinalized(i, p.tick), signing[i])
    /\ UNCHANGED <<now, restarts, armed, fired>>

\* Mutant: one signature short of a quorum.
OnSignatureEarly(i) ==
  \E t \in Tick : \E h \in mem[i][t].derived :
    /\ Cardinality({p \in Publisher : HasSigned(p, h)}) >= Quorum - 1
    /\ ~mem[i][t].finalized
    /\ ~Passed(i, t)
    /\ mem' = [mem EXCEPT ![i][t].finalized = TRUE]
    /\ Save(i, {h})
    /\ UNCHANGED <<now, restarts, armed, fired, signing, signed, msgs>>

\* onSignature, tryFinalize: the signature that completes a quorum on a derived
\* header finalizes it. Earlier ones are only counted, so they may as well
\* arrive together with this one.
OnSignature(i) ==
  \E t \in Tick : \E h \in mem[i][t].derived :
    /\ Certified(h)
    /\ ~mem[i][t].finalized
    /\ ~Passed(i, t)
    /\ mem' = [mem EXCEPT ![i][t].finalized = TRUE]
    /\ Save(i, {h})
    /\ UNCHANGED <<now, restarts, armed, fired, signing, signed, msgs>>

\* A signature on a tick finalized here: its signer is sent the update.
OnLateSignature(i) ==
  \E t \in Tick :
    /\ \E m \in msgs : m.type = "signature" /\ m.header.tick = t /\ m.from # i
    /\ ~(ShareFinalized(i, t) \subseteq msgs)
    /\ msgs' = msgs \cup ShareFinalized(i, t)
    /\ UNCHANGED <<now, restarts, armed, fired, mem, signing, disk>>

\* The first SyncBatch finalized updates after the tick asked for (an empty
\* answer changes nothing).
OnSyncRequest(i) ==
  \E m \in msgs :
    /\ m.type = "sync_request"
    /\ LET after == {t \in Finalized(i) : t > m.after}
           batch == {t \in after : Cardinality({u \in after : u < t}) < SyncBatch}
       IN /\ batch # {}
          /\ msgs' = msgs \cup {[type |-> "sync_response", updates |-> {final[i][t] : t \in batch}]}
    /\ UNCHANGED <<now, restarts, armed, fired, mem, signing, disk>>

\* A faulty peer may send any header as an update, whoever signed it.
FaultyUpdate == IF Faulty = {} THEN {} ELSE {{h} : h \in SignedHeaders}

\* acceptFinalized, for each update of the response.
OnSyncResponse(i) ==
  \E us \in {m.updates : m \in {k \in msgs : k.type = "sync_response"}} \cup FaultyUpdate :
    LET new == {h \in us : Certified(h) /\ final[i][h.tick] = None}
    IN /\ new # {}
       /\ mem' = [mem EXCEPT ![i] = [t \in Tick |->
                    IF t \in {h.tick : h \in new} THEN [@[t] EXCEPT !.finalized = TRUE] ELSE @[t]]]
       /\ Save(i, new)
       /\ UNCHANGED <<now, restarts, armed, fired, signing, signed, msgs>>

-----------------------------------------------------------------------------
(* Store pruning and restarts *)

\* Mutant: the horizon itself is deleted too.
PrunedHorizon(i, table) ==
  [t \in Tick |-> IF Retention # 0 /\ t <= Now(i) - Retention THEN None ELSE table[t]]

\* Rows of ticks older than the retained history are deleted.
Pruned(i, table) ==
  [t \in Tick |-> IF Retention # 0 /\ t < Now(i) - Retention THEN None ELSE table[t]]

Prune(i) ==
  /\ Pruned(i, final[i]) # final[i] \/ Pruned(i, signed[i]) # signed[i]
  /\ final' = [final EXCEPT ![i] = Pruned(i, @)]
  /\ signed' = [signed EXCEPT ![i] = Pruned(i, @)]
  /\ UNCHANGED <<now, restarts, armed, fired, mem, signing, feedTick, msgs>>

\* The process ends (crash, unhandled rejection of the signer, exit(3) on a
\* committee change) and starts again: it asks for history, then prunes.
Restart(i) ==
  /\ restarts < MaxRestarts
  /\ restarts' = restarts + 1
  /\ mem' = [mem EXCEPT ![i] = [t \in Tick |-> EmptyTick]]
  /\ signing' = [signing EXCEPT ![i] = {}]
  /\ fired' = [fired EXCEPT ![i] = {}]
  /\ armed' = [armed EXCEPT ![i] = NextTick(Now(i))]
  /\ msgs' = msgs \cup {SyncRequest(i)}
  /\ final' = [final EXCEPT ![i] = Pruned(i, @)]
  /\ signed' = [signed EXCEPT ![i] = Pruned(i, @)]
  /\ UNCHANGED <<now, feedTick>>

-----------------------------------------------------------------------------
(* The specification *)

Init ==
  /\ now = 0
  /\ restarts = 0
  /\ armed = [i \in Correct |-> NextTick(Now(i))]
  /\ fired = [i \in Correct |-> {}]
  /\ mem = [i \in Correct |-> [t \in Tick |-> EmptyTick]]
  /\ signing = [i \in Correct |-> {}]
  /\ signed = [i \in Correct |-> [t \in Tick |-> None]]
  /\ final = [i \in Correct |-> [t \in Tick |-> None]]
  /\ feedTick = [i \in Correct |-> [f \in Feed |-> 0]]
  /\ msgs = {}

Step(i) ==
  \/ Fire(i)
  \/ Timer(i)
  \/ ObservationSigned(i)
  \/ ProposalSigned(i)
  \/ HeaderSigned(i)
  \/ OnObservation(i)
  \/ Resume(i)
  \/ ReceiveProposal(i)
  \/ OnSignature(i)
  \/ OnLateSignature(i)
  \/ OnSyncRequest(i)
  \/ OnSyncResponse(i)
  \/ Prune(i)
  \/ Restart(i)

Next == Advance \/ \E i \in Correct : Step(i)

Spec == Init /\ [][Next]_vars

-----------------------------------------------------------------------------
(* What the publishers promise together (Finality) *)

CertifiedHeaders == {h \in SignedHeaders : Certified(h)}

CertifiedAt(t) == {h \in CertifiedHeaders : h.tick = t}

\* Of each tick, the header a quorum signed.
Chosen ==
  [t \in Tick |-> LET headers == CertifiedAt(t) IN IF headers = {} THEN None ELSE CHOOSE h \in headers : TRUE]

F == INSTANCE Finality WITH Publisher <- Correct, chosen <- Chosen, kept <- final

\* Every step of the publishers is one of the abstract specification, or none.
Implements == F!Spec

-----------------------------------------------------------------------------
(* Properties *)

\* At most one header of a tick can ever be proven signed by a quorum, whatever
\* faulty leaders propose, publishers forget, or the order messages arrive in
\* (onProposal's double-sign guard and quorum intersection).
UniqueHeader ==
  \A g, h \in CertifiedHeaders : g.tick = h.tick => g = h

\* The headers publisher i signed, or is having signed.
Promised(i) ==
  {m.header : m \in {k \in msgs : k.type = "signature" /\ k.from = i}}
    \cup {c.header : c \in {k \in signing[i] : k.op = "header"}}

\* A correct publisher signs one header per tick, across restarts and pruning of
\* signed_ticks (store.reserveSignature, store.prune).
NoDoubleSign ==
  \A i \in Correct : \A g, h \in Promised(i) : g.tick = h.tick => g = h

\* The guard row of a signed header is there for as long as the tick can be
\* signed: what makes NoDoubleSign inductive.
GuardKept ==
  \A i \in Correct : \A h \in Promised(i) :
    signed[i][h.tick] = h \/ h.tick < Now(i) - MaxSigningLag

\* Whatever a publisher holds as finalized, by its own signatures or from a
\* peer's sync_response, a quorum signed (tryFinalize, acceptFinalized).
FinalCertified ==
  \A i \in Correct, t \in Tick :
    final[i][t] # None => final[i][t].tick = t /\ Certified(final[i][t])

\* prev_publish_time names an earlier update that has the feed: the feed's EMA
\* chain is made of certified updates and goes forward, even where publishers
\* restart, prune and fill gaps in their history (derive, saveFinalized).
ChainGrounded ==
  \A h \in CertifiedHeaders : \A f \in DOMAIN h.feeds :
    LET prev == h.feeds[f].prev
    IN prev # 0 => /\ prev < h.tick
                   /\ \E g \in CertifiedHeaders : g.tick = prev /\ f \in DOMAIN g.feeds

\* A feed's state is the latest update of that feed in the publisher's history,
\* in whatever order finalized updates arrived (saveFinalized).
FeedStateCurrent ==
  \A i \in Correct, f \in Feed :
    /\ \A t \in Finalized(i) : f \in DOMAIN final[i][t].feeds => t <= feedTick[i][f]
    /\ feedTick[i][f] # 0 =>
         \E g \in CertifiedHeaders : g.tick = feedTick[i][f] /\ f \in DOMAIN g.feeds

\* What moving averages are carried on from is sound, at a publisher and along the
\* chain of its updates (derive, saveFinalized).
HistorySound == ChainGrounded /\ FeedStateCurrent
=============================================================================
