# Lean Oracle v2 in TLA+

Specifications of this repository, model-checked with TLC and proved with TLAPS. Every definition is
translated from the source; `PROJECT.json` ("map") gives the lines each one stands for.

## The system

A committee of *n* **publishers** measures prices from exchanges. At every tick boundary each one signs
and broadcasts its observation, a leader proposes which observations to use, every publisher derives the
same price update from them and signs its header, and a header signed by `floor(2n/3)+1` publishers is
final. **Mirrors** collect final updates over WebSocket and serve them. The **SDK client** fetches an
update, verifies it and builds a CKB transaction, where the **price feed cell** scripts verify it again
against the **committee cell**, which governance manages. **Consumers** read the feed cells.

| Component | State | Operations | Talks to |
|---|---|---|---|
| publisher node (`apps/publisher/src/node.ts`, `store.ts`, `scheduler.ts`, `leaderOrder.ts`, `retention.ts`) | per-tick memory (`TickState`), tables `signed_ticks`, `finalized`, `feed_state`, timers, calls waiting for the key signer | `fire`, `observe`, `maybePropose`, `onObservation`, `onProposal`, `onSignature`, `acceptFinalized`, `requestSync`, `shareFinalized`, `prune`, restart | other publishers, key signer, mirrors |
| aggregation (`aggregate.ts`, `fixed.ts`) | `FeedState`, carried in `feed_state` | `median`, `nextEma`, `withinTolerance`, `aggregateMessages` | publisher node |
| methodology and market data (`methodology.ts`, `marketData.ts`, `twap.ts`) | quotes and trades by market | measure a market, combine markets, average a window | sources, publisher node |
| market sources (`sources/`) | polls in flight, connections, books | poll, connect, resync, stall, reconfigure | venues |
| name resolution (`net/resolver.ts`) | cache by host | lookup | DNS over HTTPS |
| recorder (`recorder.ts`) | open file, queue, bytes | write, rotate, snapshot, close | files, shutdown |
| config rollout (`configSchedule.ts`, `config.ts`) | config versions held | load, pick up, choose at a tick | scheduler, committee watch |
| config approval (`protocol/committeeConfig.ts`) | config files with approvals of several sets | validate, sign, merge, add an approval, accept | operators, publishers |
| governance ceremony (`governance.ts`, `tx/committee.ts`) | documents and signatures operators hold | draft, sign, prove possession, merge, send | committee cell |
| publisher service (`main.ts`, `chain.ts`, `keySigner.ts`, `api.ts`) | process, committee seen on chain | start, watch (exit on change), stop | all of the publisher |
| publisher transport (`wsTransport.ts`, `wire.ts`) | sockets | dial, challenge, hello, frames, redial | peers |
| shadow mode (`shadow.ts`) | own prices, pending comparisons, history | tick, fetch, compare, keep | mirror |
| mirror committee view (`apps/mirror/src/committee.ts`, `chain.ts`) | key sets with the time they retired | refresh, verify | chain |
| mirror ingestion and store (`ingest.ts`, `store.ts`, `retention.ts`) | stored updates, evidence, cursors | stream, page, insert, prune | publishers |
| mirror API (`api.ts`, `rateLimit.ts`) | buckets, stream slots | queries, streams, sweep | clients, caches |
| committee cell (`contracts/common/src/publisher_set.rs`, `publisher_set_type`) | nonce, pause flag, current and previous key set, interval | create, rotate, rotate and revoke, revoke the previous set, pause, unpause | feed cells, consumers, mirrors, publishers |
| price feed cell (`price_feed_type`, `price_feed.rs`, `price_update.rs`, `signatures.rs`, `protocol/merkle.ts`) | latest price of one feed | create, update (several cells at once), burn | committee cell, consumers |
| consumer (`consumer.rs`, `examples/`) | none; the example's funds | read a price it may trust, release | feed cell, committee cell |
| SDK client (`packages/sdk/src/client`, `mirror`, `tx`, `ckb`) | committee cache | latest, at a tick, failover, build and complete transactions | mirrors, chain |
| SDK codecs (`packages/sdk/src/protocol`, `internal`) | none | encode, hash, verify | everyone |
| watchdog (`apps/watchdog/src`) | state of each check, baseline of conflicts, summary day | round, alert, summary | publishers, mirror, Telegram |
| deploy (`apps/deploy/src`), presets | the record file | deploy, create a committee, govern, retire, make presets | chain |
| web, always-success lock, measurement scripts | none | | |

What is hard, and what must hold:

- **Publisher node.** Handlers await the key signer and storage in the middle; messages come late,
  reordered, twice or never; fewer than a third of the peers may do anything; rounds of successive ticks
  overlap; a process loses its memory and keeps its tables; tables are pruned by a clock that is not the
  peers'. It must never sign two headers of a tick, two headers of a tick must never both be certified,
  what is stored must be certified, and the chain of `prev_publish_time` must go forward on updates that
  exist. A tick whose leader crashes must still be finalized, by a backup, in time.
- **Prices.** Trades are matched with the book of their own moment; venues that disagree are outvoted;
  fewer than a third of the publishers being wrong, the median lies between honest prices; the moving
  average divides with truncation and must not overshoot; publishers with gaps in their history must not
  sign different averages.
- **Configs and key sets.** Files arrive at different times, are approved by the set that leaves and the
  set that comes, and every publisher restarts by itself. Two publishers must not sign one tick under
  different configs, nor be left without one.
- **Committee and feed cells.** No legal sequence of rotations, revocations and pauses lets a set sign
  outside its time, a feed go backwards, or a consumer trust a price of a revoked set; what operators
  sign, on files of any age, must not leave a committee that nobody can govern.
- **Mirror.** Cursors advance on a stream and on pages; two headers of a tick are evidence, also when
  pruning runs; key sets are read late and several operations at a time; an answer that caches keep for
  ever must stay the only one.
- **Clients, services.** Bounded staleness of a cache; buckets at their limits; connections that are
  half open; alerts whose delivery failed; a tool that dies between a broadcast and its record.

The hazards behind these, each at its line, are listed in `PROJECT.json`.

## Modules

| Module | Models |
|---|---|
| `Finality` | abstract: what the committee promises together. A header of a tick is chosen at most once; a publisher's history gains chosen headers and loses old ones, nothing else |
| `PublisherNode` | the publishers of one committee: all handlers, the scheduler, the store, pruning, restarts, and what faulty peers may send. Ends with `F == INSTANCE Finality WITH ...` and the properties |
| `TickRound` | one tick of publishers that follow the protocol but may crash, with the scheduler's timers at their times |
| `Aggregation` | `median`, `withinTolerance`, `nextEma` as operators |
| `Methodology` | prices of a market and of all markets, and time-weighted averages, as operators |
| `AggregateFeed` | one feed, from quotes and trades to successive updates |
| `ConfigApproval` | rules of a config, its file, its signatures and the sets that accept it |
| `PolledVenue`, `StreamVenue`, `Resolver` | a venue polled over REST; a venue that streams, beside the resolver (which it extends); name resolution |
| `Recorder`, `ConfigRollout`, `PeerTransport` | the recorder and the shutdown; configs and rotations reaching running publishers; connections between them |
| `CommitteeCell` | committee cells and the governance operations on them |
| `Ceremony` | extends `CommitteeCell` with the documents and signatures that lead to an operation |
| `FeedCell` | extends `CommitteeCell` with price feed cells, the transactions that move several of them, and what a consumer accepts |
| `FeedClient`, `PriceTrigger` | extend `FeedCell` with what the SDK builds and trusts; with the example lock and its program |
| `PriceProof` | Merkle trees, selection of feeds and proofs, on hashes as terms |
| `MirrorCommittee`, `OracleClient` | extend `CommitteeCell` with the key sets a mirror learns of it; with the SDK's cache |
| `MirrorIngest` | a mirror's ingestion from several publishers, and its store |
| `MirrorApi`, `MirrorQuery` | rate limits and stream slots; the answers of several mirrors, a cache and the SDK's failover |
| `Deployment`, `FeeCompletion`, `Shadow`, `Watchdog` | the deployment tool and its record; `completeFee`; shadow mode; the watchdog |
| `PublisherNode_proofs` | types; quorums, the double-sign guard and agreement; the publishers implement `Finality`; history and feed states |
| `Prices_proofs` | median, moving and windowed averages, outliers, trades and their book; signatures of configs |
| `Services_proofs` | connections between publishers, config versions in force, the watchdog's count, venues and the resolver |
| `Governance_proofs`, `FeedCell_proofs` | committee cells; feed cells and the SDK that updates them |
| `Ceremony_proofs` | ceremonies, shadow mode, the deployment record |
| `Followers_proofs` | the mirror's key sets and the client's cell; the mirror's limits and answers |
| `MirrorIngest_proofs` | ingestion |

An `MC` module gives constants their values (`PriceTrigger` takes all of its own from its cfg) and brings
its components in by `EXTENDS`. They are either composed because they interact, or are independent, and
then a behaviour is of *one* of them and the state of the others stays initial: their reachable states add
up and do not multiply. Where two components of one module would both say `Init`, their own say
`ResolverInit`, `StreamNext`, `PolledSpec` and so on.

| Instance | Composed | Beside it, apart |
|---|---|---|
| `MCAgreement` | `PublisherNode` with `Aggregation` and `Finality` | |
| `MCHistory` | `PublisherNode` with `Aggregation` | |
| `MCPrices` | `AggregateFeed` with `Methodology`, `Aggregation` | `MCApproval` (`ConfigApproval`, which asks `Methodology` whether a config can be followed) |
| `MCFeedCell` | `FeedClient`, `FeedCell`, `CommitteeCell` | `PriceProof`, `Watchdog` |
| `MCOperations` | `Ceremony`, `CommitteeCell` | `Deployment`, `FeeCompletion`, `Shadow`, `TickRound`, `PolledVenue` |
| `MCMirrorCommittee` | `CommitteeCell` with `MirrorCommittee`, or with `OracleClient` | `MirrorApi`, `MirrorQuery` |
| `MCStreams` | | `MirrorIngest`, `StreamVenue`, `Resolver` |
| `MCMirrorIngest` | `MirrorIngest` | |
| `MCServices` | | `ConfigRollout`, `PeerTransport`, `Recorder` |
| `PriceTrigger` itself | with `FeedClient`, `FeedCell`, `CommitteeCell` | |

### PublisherNode against the code

| Variable | Code |
|---|---|
| `mem[i][t]` | `PublisherNode.ticks`: `TickState` of `node.ts:84`. `best`, `proposed`, `asked`, `pending`, `derived`, `finalized` keep their names (`bestProposal`, `proposedRanks`, `requestedTick`, ...) |
| `mem[i][t].rerun`, `.early` | locals of a suspended `onObservation`: the proposals it took from `pending` and the `proposeEarly` it still owes |
| `signing[i]` | calls suspended at an `await` of the key signer, with what they do when it answers |
| `signed`, `final`, `feedTick` | tables `signed_ticks`, `finalized` and `feed_state` |
| `armed`, `fired` | the scheduler's timer, and the ticks whose `maybePropose` timers are set |
| `msgs` | every frame ever sent |
| `now` + `Offset[i]` | publisher *i*'s clock |

| Action | Code |
|---|---|
| `Fire`, `Timer` | `scheduler.ts` `fire` and the timers it sets; `Fire` includes the housekeeping of every `syncEveryTicks`-th firing (`requestSync`, `prune`) |
| `ObservationSigned`, `ProposalSigned`, `HeaderSigned` | the rest of `observe`, `maybePropose` and `onProposal` once the signer has answered |
| `OnObservation`, `Resume` | `onObservation`: `OnObservation` up to the first pending proposal, `Resume` for each later turn of its loop and the final `proposeEarly` |
| `ReceiveProposal` | `receive` and `onProposal`, with `shareFinalized` |
| `OnSignature`, `OnLateSignature` | `onSignature` and `tryFinalize`; a signature on a tick already finalized |
| `OnSyncRequest`, `OnSyncResponse` | history sync and `acceptFinalized` |
| `Prune` | `retention.ts` and `store.prune` |
| `Restart` | end of the process and `run` of `main.ts` |

A step runs from one `await` to the next, as JavaScript does. `OnProposal` is used by three of them,
since a publisher handles its own proposal by the same code as a peer's.

Abstractions, and why they lose nothing the properties tell apart:

- A hash is what it hashes; a header is the record of what is signed. EMA values are a function of the
  chain of updates named by `prev`, which stands for them; `conf` and `sourceTimeMs` are medians like
  `price`.
- `msgs` only grows, and any message in it may be received at any time or never: this covers loss, delay,
  reordering, repetition and relaying. `tick_request` and `obs_request` make a peer repeat what it sent,
  so they are not messages. Messages have no addressee: what a frame sent to one peer can do, it can do
  here for all.
- Signatures that arrive before the quorum is complete are only counted, so `OnSignature` takes all that
  were sent at once. The one a handler finds already complete when it derives the header is the same
  step, taken after it.
- A faulty publisher sends any observation `Sees` gives it, proposes any set of observations of
  `FaultyPicks` under any anchor and history a correct one has, counts as having signed every header,
  and answers history requests with any header anyone signed.
- A batch of `store.prune` that is interrupted leaves rows the next one deletes; `Prune` deletes all.
- Empty answers to history requests, and proposals rejected without an answer, change nothing and are
  left out.
- A signer that refuses or does not answer leaves its call in `signing`; a refusal that ends the process
  is a `Restart`.

### TickRound against the code

`PublisherNode` lets timers run any number of times at any moment and links lose anything: more than the
code does, right for what must never happen. That a tick is finalized needs the opposite, exact times.

| Definition | Code |
|---|---|
| `round[p]` | `TickState` again; a body is the set of publishers whose observations it chooses, and stands for the header derived from it |
| `Times`, `Timer` | the timers `fire` sets: `observe`, after the grace period, and two per backup rank |
| `OnProposal` ... `OnTickRequest` | the handlers of `node.ts`; each returns the state and what it sends, and a publisher handles its own proposal and signature in the same step |
| `Deliver`, `link` | frames of a connection, in order, each in one to `Delay` units |
| `Crash` | a publisher ends; of what is under way to each peer, some suffix is lost |
| `late`, `Skew` | clocks that are behind, by no more than `skewMs` |
| `turn`, `EndTurn` | time passes when nobody has a timer or a frame overdue |

All publishers share one history, hence agree on leaders, and their prices are within tolerance of each
other. The signer's delay is part of the link's.

### Prices and configs against the code

- `Methodology` works on sequences of quotes and trades, as `MarketData` keeps them, on a grid of
  `SAMPLE_MS`. `AggregateFeed` fills them (`QuoteArrives`, `TradeArrives`, `HeartbeatArrives`), measures
  (`MeasureMarket`), combines with the prices of other markets (`ObserveOwn`), collects a quorum of
  observations of which fewer than a third are inventions (`Observe`), and makes the update and its
  average (`Aggregated`). `history` is what TWAP feeds are averaged over. A publisher holds any part of it
  (`held`) and a latest tick (`latest`) that an update of another feed may have brought, as `computeTwap`
  asks only whether that tick is past the window. All updates of a feed have one exponent here; the code
  leaves out those of another one.
- `ConfigApproval` follows one draft config: `made` are its signatures, each an index and the key that
  made it, `file` is the file with `signatures` (of the set it was made for) and `approvals` (of others).
  `SignConfig` and `AddApproval` validate, as the commands do; `SignAnyway` is an operator who signs
  without the tool.
- `ConfigRollout`: `placed` are the files of each publisher, `process.held` the versions of its
  `ConfigSchedule`; `Start` is strict about every file and `PickUp` skips those it refuses, as in the
  code; `Watch` ends a process when the cell's set is no longer its own; `fired` keeps the last tick, the
  version it was signed under, and whether a version had been passed over (`PassedOver`): one that came
  to a running publisher after a later one, and that `ConfigSchedule.add` refuses from then on.

### Sources and recorder against the code

- `PolledVenue`: `Poll` at an interval whatever is in flight, `Receive` with the de-duplication of trades
  (`NewTrades`) and `MarketData`'s pruning, `Fail` with the backoff. An answer lists the newest `PageLimit`
  trades (`Listed`) of the moment the venue makes it. A trade is its place in the venue's list, and two may
  be equal in time and content, which the code takes for one. `taken` counts how often a trade was given to
  `MarketData`; the code does not keep that.
- `StreamVenue`: `conns` are all connections ever made by the manager, with the phase of each; `Fails`,
  `GoesSilent`, `Stall` and `Connect` are `runner.ts`, `Sync` is `manager.ts`, `NextMessage` is coinbase's
  parser with its book, `book` and `best`, which is kept aside and searched again when the best goes.
- `Resolver`: `lookups` overlap, each with two queries; the cache is written by the last to end.
- `Recorder`: a gzip stream is a queue, a file and whether `end` was called; `blocked` is the drain wait,
  `closing` the promise `close` waits for, `process` the shutdown of `main.ts`, which then closes the
  transport: `listening` is its server, `links` are the connections that peers opened. The server is
  closed when there is none left, and nothing on this side ends one.

### CommitteeCell, FeedCell and their clients against the code

| Definition | Code |
|---|---|
| `cell[c]` | `PublisherSetData` of the one live committee cell of type hash *c*: `governance_nonce`, the paused flag, `current.set_index`, and `previous.until_ms`, 0 for no previous set |
| `created[c]`, `log[c]` | what the chain knows of the cell: its block's time, and the operations that led to it |
| `Govern` | `validate_update` of `publisher_set_type`, with `check_transition`, `check_interval` (`Mature`) and `check_until` |
| `feed[x]`, `burned` | `PriceFeedData` of feed cell *x*; feed cells that were burned (their Type ID cannot come again) |
| `basis[x]` | not in the code: whether a quorum signed the update *x* holds, and the nonce of the committee cell it was verified against |
| `Create` | `validate_create` of `price_feed_type` |
| `Move` | one transaction: `Inputs` lists the feed cells it spends, `LeaderOf` is `find_leader` and `continues`, `Accepts` is `validate_update` of each cell that continues, `VerifyHeader` is `verify_header` |
| `Usable` | `check_feed_cell` |

Abstractions:

- A key set is its index. `validate` forces the previous set's index to be the one before the current,
  and `OP_ROTATE` forces it to be the old current set, so the cell's history determines which keys each
  index has.
- `Govern` supposes the quorum of the current set; an operation without one is no transaction. That an
  old authorization cannot be used again is `AuthorizationSpent`: `update_hash` is of the operation and
  the two states, so the property is that no two log entries agree in these.
- An update is its header and one bit: a quorum of the set it names signed it, or did not. Any header may
  be in any witness, so publishers of retired sets, even with all of their keys, are included. The
  entries are proved against the header by `find_entry`, so the header stands for the prices.
- Time is the newest block's; block times do not decrease. `check_until` takes any existing header, at
  most as new as the block.
- Continuity of the committee cell's lock and capacity are conditions on parts of a transaction that
  nothing here depends on; they are left out. Proof of possession is in `Ceremony`.

What is built on these cells:

- `FeedClient` reads feed cells and, later, the committee cell, and asks of any update whether the SDK
  would build a transaction (`Built`), next to whether the scripts would take it (`Taken`). `typed` is the
  code and arguments of a cell's type script, which make its `Group`. The builder has limits of its own
  (`Served`): `MaxFeedsPerTx` cells, each feed once, one version of the code, a committee and a code its
  deployment record has. That an update lacks a feed asked for is left out on both sides.
- `PriceTrigger` adds the lock and the program of the example: `step` is where the program is, `release`
  the cell deps of the transaction it sends.
- `PriceProof`: a hash is the term that was hashed, so a leaf is never a node; `update` is a copy of the
  update that was cut down any number of times.
- `Ceremony`: `document` are pairs of states with an operation, drafted from any state of the cell there
  ever was; `signed` all signatures anyone made, of updates and of possession. `Send` takes a document
  when enough of them exist, and `Ready` is what `governanceStatus` says.
- `OracleClient`: `cached` is the committee cell the client holds, `reads` the calls in flight, those of
  other calls among them. An answer of a mirror is any update that a quorum of some set signed.
- `FeeCompletion` takes the cells largest first; one `Turn` is one turn of `completeFee`'s loop.
- `Deployment`: `txs` are transactions, committed or not, `tool` the one the running tool waits for.
  `Abandon` is a tool that is killed or gives up while its transaction may still commit. There are three
  contracts (`Contract`): the two scripts, and the lock of committee cells, which a committee keeps when
  its code changes (`LockOf`), so that `GovernCommittee` needs that code found. `presets` is the copy of
  the record the SDK was last built with.

### The mirror and the services against the code

| Definition | Code |
|---|---|
| `sets`, `current`, `paused` | `Committee.sets` (`retiredAtMs`, `Open` while undefined), `currentIndex`, `paused` |
| `Refresh`, `Observed` | `refresh` and `observe` with the cell of any moment since the last read |
| `Verifies` | `verify`, of an update a quorum of its set signed |
| `history`, `Finalize`, `Pages` | a publisher's table `finalized`, `saveFinalized` with its listeners, `finalizedAfter` |
| `connected`, `wire` | the stream of a `PublisherSource` and its frames under way |
| `fetch` | where its `backfill` is: not running, request sent, answer under way. `Idle` is `syncing === false` |
| `cursor` | `PublisherSource.cursor` |
| `updates`, `equivocations`, `horizon` | the store's tables; ticks before `horizon` have been pruned |
| `verifiable` | what `Committee.verify` takes at this moment; `MirrorCommittee` is about how it comes to be |
| `Accept` | `accept`, `ingest` and `insert` for each blob of a page, or a frame |
| `verified` | not in the code: every update that ever verified |

Abstractions:

- A publisher's pages and frames come whole or not at all. `Fail` is a request that times out, an answer
  that cannot be read, or a blob that throws; `Lie` may send any one or two updates at any time, so an
  answer cut short by a blob that throws is among what a faulty publisher does.
- The tables `updates` and `feed_ticks` change together, so one stands for both. Received times and
  signature subsets of a header are left out: an update is identified by its header.
- `Prune` may run at any time up to any tick, `Refresh` may give any of `Views`.

Around the mirror:

- `MirrorApi`: time is in the units in which one token comes back, so nothing is rounded; `granted` are the
  times of requests let through, `gone` the sockets whose client has left without the server knowing yet. An
  upgrade that is cut (`Abort`) keeps its slot.
- `MirrorQuery`: each mirror holds some updates and has pruned some; `At` goes from mirror to mirror, and
  `cache` is an answer that was marked immutable.
- `PeerTransport`: a line is a publisher and a peer it dials; `client` and `server` are the two ends of its
  socket, `channel` what is on its way. Publishers run with the set they were started with (`epoch`).
- `Watchdog`: a `Round` checks, compares and tells; messages may be lost one by one. `told` is what the
  chat knows, `announced` the conflicts that messages which arrived called new, `lost` those of messages that
  Telegram refused, and `total` the number the last summary that arrived spoke of.
- `Shadow`: `certified` and `held` are what the committee made and the mirror came to hold, in any order.

## Runs

| Run | Instance | Shows |
|---|---|---|
| `agreement` | 4 publishers, `p1` primary and faulty, `p2` backup, one tick, two prices | `UniqueHeader`, `NoDoubleSign`, every step implements `Finality` (`Implements`) |
| `history` | 2 publishers, 2 overlapping ticks, a restart, history sync, pruning | moving averages are carried on from updates that exist and are the latest (`HistorySound`), the double-sign row of what can still be signed is kept (`GuardKept`) |
| `prices` | 4 publishers, up to 4 markets, 3 updates; or two key sets sharing members at other indexes approve a config | `InsideBook`, `VenuesOutvoted`, `AggregateSound`, `TwapAgreed`: prices stay between what sound venues and publishers measured, averages agree. `QuorumOfSet`, `ApprovalKept`, `Workable`: which configs come into force |
| `feed_cells` | 2 committees, one governed by 2 operations, 2 feed cells; or a tree of up to 5 feeds; or the watchdog over 2 days | `PricesAuthentic`, `RetiredBounded`, `DroppedUnusable` of what cells hold; `SdkAgrees` of what the SDK builds; `ProofsBind`; `EquivocationsTold`, `LiveTold` |
| `operations` | 3 operators and a mistyped key; or a deployment in 5 transactions; or a draft and 3 cells; or a shadow over 2 ticks and a rotation; or 4 publishers that may crash, with timers at their times; or a venue polled for its 2 newest of 3 trades, with 2 polls in flight | `Governable`, `Reviewed`, `StatusTrue`; `RecordSound`; `FewestInputs`; `ShadowTrue`; a tick whose leader crashes is final in time (`FinalInTime`); `SamplesTrue` |
| `mirror_committee` | a committee cell with 3 operations and a mirror, or a client; or the API, with 2 stream slots and a burst larger than what comes back until a bucket is swept; or 2 mirrors, 2 committees, 3 ticks | `SetsTrue`, `VerifiedRecently`, `LimitsKept`, `ExactStable` |
| `streams` | a mirror and 2 publishers, one faulty, 2 ticks, 2 headers of the first, 2 failures; or a streamed venue with 3 changes of configs and 2 failures, or the resolver | `ConflictsKept`, `CatchesUp`; `SourceTrue`, `LiveFeed` |
| `services` | a rollout with a rotation and a crash; or connections of 3 publishers of two sets; or the recorder, with a peer that dialled | `ScheduleAgreed`, `LiveRollout`; `AddressedOnly`, `LiveConnected`; `LiveExit` |
| `backfill_gap` | `MCMirrorIngest`, one publisher, three ticks, no failure | **violated**: `Complete` |
| `config_switch` | `MCServices`, three versions, one publisher gets the second after the third | **violated**: `SwitchTogether` |
| `example_release` | the example program with one feed cell and one committee | **violated**: `Released` |
| `hour_window` | a config with the longest window, publishers with the shortest retention | **violated**: `WindowKept` |

Distinct states: `agreement` 171,065, `history` 669,307, `prices` 666,752, `feed_cells` 262,248, `operations`
2,220,553, `mirror_committee` 772,962, `streams` 205,707, `services` 250,647.

**Bounds of the publishers.** Four publishers are the smallest committee that tolerates a fault (quorum 3, one
backup rank); that `p1` proposes with and without its own observation gives two headers of the tick to choose
from. The agreement run starts when the correct publishers have exchanged observations and both slots are open.
`history` has two publishers (quorum 2, no backup), where nobody is faulty and everyone's signature is needed;
it starts with tick 1 observed, history and the lag within which a tick may be signed are both one unit long, so
rows become old enough to delete while the run goes on, and one restart happens when `p1` has signed both ticks
and only `p2` has the update of tick 1 (`EarlyRestart`, an action constraint): that is when memory and tables
differ most. One feed is enough because the feeds of an update are derived independently and share one
signature. `SYMMETRY` is used in `agreement` alone, for `p3` and `p4`, who neither lead nor are faulty.

**Times of `FinalInTime`.** `Slot` (observationDeadlineMs) is 4, `Grace` and `Prepare` are 3, clocks are up to
1 apart and a frame takes at most 1. The tick must be final by 13, and one publisher, the most that leave a
quorum, may crash at any moment with any part of what it sent delivered. The order matters, not the
numbers: a question and its answer return within `Prepare`, and `Grace` is below `Slot`. With `Prepare` 2 the
property fails, since the backup proposes before it heard that its peers signed something else. It also
fails with `Slot` at most `Grace`: see "Where the code and its documents part".

**Bounds of the rest.** Three operations (two in `feed_cells`) allow a rotation with a pause or a revocation
around it, a second rotation, or a set that is rotated out and trusted no more, and a mirror or client may miss
any of them. Two feed cells, of the same or of different committees, are the least for which a leader that is
not the cell itself, a burned first input and two leaders occur. Five feeds make a tree with two odd levels
above one another. A page of one update makes a history of two ticks several pages long; two headers of one tick
are what a conflict needs; a failure is a closed stream, a failed request, a pause or a restart, and two are any
two of them in a row. Two polls in flight are what overtaking needs; two prices on each side are what is needed
for the best to go and another to be found; two lookups and times to live under the floor and over the cap meet
all branches of the resolver's cache. Three trades and lists of two are what a trade pushed off between two
answers takes. Two feed cells do not reach the builder's limit of cells, and two conflicts do not pass what one
answer of the mirror lists: only the theorems cover these. Three updates one or two ticks apart fill and leave a
window of three ticks. Configs are the drafts of `MCApproval`: sound, with too few venues, with windows too long
for their feed, and so on. Five transactions deploy two builds, create a committee, move it and retire what it
used. Two shadow ticks with a rotation between give every order of comparison and arrival.

`CHECK_DEADLOCK FALSE` everywhere: with the clock stopped and every message handled the system rests.

**Fairness.** `FinalInTime` needs none: in `TickRound` time cannot pass an overdue timer or frame, which is
what a bound on delays means, and the property speaks of a time. Otherwise, always weak fairness, and
never of faults, of users or of the environment:

| Property | Fair actions | Why the code justifies it |
|---|---|---|
| `CatchesUp` | answers, pages, frames, reopening, `Resync` of correct publishers | `connect` retries after a delay of at most ten seconds and `RESYNC_MS` is an interval; failures are bounded by `MaxBreaks` |
| `LiveFeed` | `Progress` of each connection: opening, reconnecting, the stall timer, messages | timers and socket timeouts of `runner.ts` |
| `LiveRollout` | `Start`, `PickUp`, `Watch` | the container restarts (`--restart unless-stopped`, `apps/publisher/README.md:65`) once the old process has ended, which needs its peers (`LiveExit`); the two others are intervals |
| `LiveConnected` | both ends of each line handle what arrives; redialing; a closed end is noticed | the event loop and the redial timer; breaks are bounded. For a connection that dies silently before the challenge this is generous: the dialer has sent nothing, has no timer for the challenge and no keepalive (`wsTransport.ts:92-108`), and need not notice |
| `LiveExit` | `Flush`, `FileCloses`, `CloseTransport`, `Exit` | the file system goes on or reports an error, and `main.ts` goes on when a promise resolves; that peers let go of their connections is a premise of its second part |
| `LiveTold` | `Round` | an interval; that messages arrive from some time on, and for what only the mirror knows that it answers, are premises of the property |

## What the violated runs show

- `Complete`. `accept` moves the cursor for frames too (`ingest.ts:107`), and `backfill` pages after the
  cursor. The run takes the first page, then a frame of tick 3, and never asks for tick 2. The same
  happens when backfill fails after a reconnection and a frame follows, or when a publisher learns of an
  earlier update while the stream is closed. A restart does not help: the cursor starts at the newest tick
  stored. The code's comments promise everything newer than the cursor and anything finalized while away.
- `Released`. The release transaction of the example program has the code and the feed cell as cell deps,
  but the trigger path of the lock also asks for the committee cell (`price_trigger_lock/src/main.rs:21`),
  so the lock refuses and the funds stay where they are.
- `WindowKept`. A window of one hour passes validation because publishers keep at least an hour of history;
  but the window ends two periods before the tick it is computed for, so its first two updates are
  already pruned at a publisher that keeps exactly an hour.
- `SwitchTogether`. `ConfigSchedule.add` wants every version after the last one it holds
  (`configSchedule.ts:39`), so a publisher that was given version 3 before version 2 never takes version 2,
  while one that is started with both does. At the activation tick of version 2 they follow different
  configs, though they have the same files; `docs/oracle-design.md:81` says that all publishers switch.
  `ScheduleAgreed`, which holds, is about the publishers that passed over no version.

## Where the code and its documents part

Met while modelling; no run is about these, and the models follow the code.

- *Publishers.* `onProposal` compares with the publisher's own observation only `if (state.own)`
  (`node.ts:370`), which is memory: after a restart, or while the signer is busy, it signs whatever the leader
  derives (`docs/oracle-design.md:268` says within tolerance). `requestSync` asks for updates after the *latest*
  finalized tick, so two publishers with the same latest tick may compute different anchors and leaders
  (`leaderOrder.ts:3` says every synced one computes the same). With `observationDeadlineMs` at most the grace
  of 100 ms, the grace timer makes a backup ask and the slot timer of the same moment makes it propose before
  any answer, so `FinalInTime` fails; `docs/oracle-design.md:238` says a backup always asks first, and
  validation only wants a positive deadline below the period. Deployed configs use 400 ms. A timer that is early
  fires a tick twice (`scheduler.ts:46`). A publisher that never saw the proposal of a tick has its update only
  after the next sync.
- *Averages.* `twap.ts:2-3` and `docs/designs/twap60.md:29-34`, `:92-93` promise one mean to every synced
  publisher. Synced is judged by the latest tick of any feed (`twap.ts:49`, `node.ts:154`) and `requestSync` asks
  only for what is after it (`node.ts:227`), so a publisher with a gap inside the window observes another mean
  until the window has passed the gap. `TwapAgreed` says what is left: those without a gap agree, and
  fewer than a third with one do not move the median.
- *Retention.* `maxSigningLagMs` has no upper bound (`config.ts:118`), though the comment at `config.ts:119`
  says pruning never weakens the guard; the proofs take `RetentionSafe` as assumption.
- *Rotations.* Until every publisher has seen the cell, up to 15 s (`main.ts:112`), two sets may certify
  different headers of one tick. A file the next set has not approved, or a peer no longer in the set
  (`config.ts:144`), keeps a publisher from starting; a running one only skips such a file.
  A late version is passed over: see `SwitchTogether` above.
- *Sources.* `stop()` of a polled source leaves polls in flight, so a source that replaces it may count trades
  twice; after a reconnection the book of before it is used until the snapshot; an empty side gives no quote, so
  the last one stays; `marketData.ts` keeps 300 s whatever window is configured. `resolver.ts:7` calls its
  timeout hard; it is one of inactivity. A time to live below 30 s is stretched to 30 s, and when the query for
  AAAA fails IPv4 alone is cached. Of polled venues, trades pushed off the newest 100 between two answers
  (`rest.ts:25`), or listed only by an older answer that comes after a newer one (`rest.ts:105`), are not
  counted, and two trades of one time, price and quantity count as one (`rest.ts:103`).
- *Recorder and shutdown.* The file of the hour before is not awaited at exit; depth is taken of the markets
  known at start. `shutdown` awaits `transport.close()` (`main.ts:132`), which closes the server and waits
  (`wsTransport.ts:63-67`): `ws` 8 calls back when the last connection has ended and ends none of those that
  peers opened. A publisher told to stop, while its peers run on, stays until they go or it is killed.
  `PeerTransport` takes the end of a process as one step, and the fairness of `Start` in `ConfigRollout`
  supposes it.
- *Mirror.* A revoked set is accepted when the mirror read no cell between a rotation and the emergency rotation
  after it (`committee.ts:92`; `docs/oracle-design.md:434` says not for anything new): `SetsTrue` is what does
  hold. A full page of refused updates is asked for again without a pause (`ingest.ts:96`). A stream slot is not
  given back when the handshake is cut (`api.ts:168`). `sweep` forgets buckets that it calls full
  (`rateLimit.ts:63`) but looks only at their age: where the burst is more than a minute's refill, a client that
  waits a minute has the whole burst again. An answer at an exact tick "can never change"
  (`api.ts:125`) only while the tick is not pruned and a committee is named. `docs/oracle-design.md:475` lists
  `/v1/configs`, which `api.ts` does not serve.
- *Client.* `checked` verifies with any committee it knows, with a cell up to the cache's age old, and does not
  look whether an answer is at or after the time asked for; a stream that reconnects misses what was final
  meanwhile.
- *Builder.* `updateFeedCells` refuses, beyond what the scripts ask, more than 32 cells, cells of two versions of
  the code, a feed twice, and a committee or code the deployment record does not have (`feed.ts:95`, `:109`,
  `:114`, `:160`): `Served`.
- *Tools.* `retire:code` looks for cells that use the code as type script of a committee (`actions.ts:160`),
  though `actions.ts:147-151` says that committees on it must be retired first: a version of the lock that is no
  longer current can be retired under the committee cells it locks, and `governCommittee` then has no cell dep
  for it (`tx/committee.ts:109`). `RecordSound` promises of the lock's code only the current version. Two
  deployment tools at once overwrite each other's record; a crash between the broadcast and the
  record of `retire:code` leaves dead code in it; the shortfall `completeFee` reports leaves out the fee of one
  more input.
- *Watchdog and shadow.* A restart forgets the baseline of conflicts, and more than a thousand are not told
  apart; a message that Telegram refuses is dropped (`watchdog/src/main.ts:37`) and only made up for by the
  summary or a reminder. A shadow keeps the set it started with, a failed fetch leaves a hole, and a late mirror
  counts as the committee's miss.

## Proofs

Of the publishers, for every committee, faulty subset of fewer than a third, set of ticks and feeds, clock
offsets and periods:

| Theorem | Statement |
|---|---|
| `PublisherNode_proofs!TypeCorrect` | `Spec => []TypeOK` |
| `PublisherNode_proofs!SignOnce` | `RetentionSafe` gives `Spec => [](GuardKept /\ NoDoubleSign)` |
| `PublisherNode_proofs!OneHeaderPerTick` | `RetentionSafe` gives `Spec => []UniqueHeader` |
| `PublisherNode_proofs!StoresCertified` | `Spec => []FinalCertified` |
| `PublisherNode_proofs!GuardHeld` | `RetentionSafe` gives `Spec => []GuardKept` |
| `PublisherNode_proofs!Refines` | `RetentionSafe` gives `Spec => Implements` |
| `PublisherNode_proofs!HistoryKept` | `RetentionSafe` gives `Spec => []HistorySound` |

`RetentionSafe` says that history is kept longer than a tick can be signed. The code does not check it:
`config.ts` accepts `retentionHours >= 1` and `committeeConfig.ts` any positive `maxSigningLagMs`.
Other assumptions: `CommitteeAssumption`, `TimeAssumption`, `ViewAssumption`, `LeaderAssumption` and
`NoneAssumption` of `PublisherNode`; the runs evaluate them.

The argument. `NoDoubleSign` alone is not inductive: what stops a second signature is the row of
`signed_ticks`, so the invariant must say that the row is there. `GuardKept` says it: for each header
signed, or being signed, by *i* the row of its tick holds that header, or the tick is already too old for
`onProposal` to pass (`h.tick < Now(i) - MaxSigningLag`). `Pruned` deletes only rows older than
`Retention`, hence, by `RetentionSafe`, older than that; and the clock only advances. With `GuardKept` a
new signature of a tick is on the header signed before or on none. `OneHeaderPerTick` then follows by
counting: two sets of `floor(2n/3)+1` of *n* publishers share more than a third of them, hence a correct
one, which signed one header of the tick. `StoresCertified` needs that `OnSignature` and
`acceptFinalized` both check a quorum and that signatures are never unsent. In `Refines`, `chosen[t]` is
*the* certified header of the tick, well defined by `OneHeaderPerTick`; a step that sends a signature may
choose it, `Save` learns it, `Pruned` forgets it, and every other step is a stutter.

`HistorySound` says of certified headers that the update they carry on from exists. Certification happens in a
single step, long after the header was derived, so `HistoryInv` speaks of every header a correct publisher
promised (`PromisesSound`). Not all of those are sound: a publisher that already holds the update of a tick may,
after a restart, derive the tick again from a later state. Such a header has a certified rival (`Superseded`),
so by agreement it is never certified itself. For the others, `derive` takes `prev` from the feed state, which
is of a certified update (`FeedStateCurrent`) earlier than the tick: else the publisher would hold that later
update and name its tick as latest, or would have pruned it (`FeedTickHeld`), and then by `RetentionSafe` the
tick is too old to be signed. That a latest held tick exists needs a bound, as any set of ticks may be given:
promises are finitely many (`PromisesBounded`), and what is held was promised.

Of the cells, for any committees, feed cells, interval, number and order of operations and transactions
(the bounds `MaxNonce`, `MaxTime` and `MaxInputs` are any numbers):

| Theorem | Statement |
|---|---|
| `Governance_proofs!AuthorizedOnce` | `GovernanceSpec => []AuthorizationSpent` |
| `Governance_proofs!NeverBack` | `GovernanceSpec => []DroppedForGood` |
| `Governance_proofs!Spaced` | `GovernanceSpec => []RotationsSpaced` |
| `FeedCell_proofs!Authentic` | `Spec => []PricesAuthentic` |
| `FeedCell_proofs!Bounded` | `Spec => []RetiredBounded` |
| `FeedCell_proofs!NotUsable` | `Spec => []DroppedUnusable` |
| `FeedCell_proofs!Forward` | `Spec => FeedsForward` |
| `FeedCell_proofs!SdkFollows` | `Spec => []SdkAgrees` |
| `Followers_proofs!MirrorFollows` | `MirrorCommitteeAssumption` gives `Spec => []SetsTrue` |
| `Followers_proofs!ClientRecent` | `OracleClientAssumption` gives `OracleSpec => []VerifiedRecently` |

Assumption: `CommitteeCellAssumption`. `GovernanceInv` ties the log to the cell (`LogSound`): entry *i*
is of nonce *i - 1*, so no two entries have one old state; no entry is newer than the cell, so the age
that `Mature` asks for also separates two rotations; and every past state trusts, of the sets there were,
at least what the cell trusts now, which is what makes a dropped set stay dropped. For feed cells,
`SharedVerification` shows that a cell that continues has a leader among the cells that continue, of its
committee, so its update passed `VerifyHeader` though another script ran it; its hypothesis is the type
invariant. `PriceSound` then says of a stored price what the committee cell was when it was verified, and
`PastKept` that this past does not change. `RetiredBounded` needs in addition that the previous set's
bound is the one its rotation set or 0 (`SwitchSound`), because no operation moves it.

`SdkAgrees` relates what two programs compute of one state: the builder verifies every feed, the script the
leader of each group of cells of one type code and arguments. `SetsAgree` shows that both look at the same
sets; every input of a group has the leader's committee, so one verification says as much as all
(`BuiltIsTaken`); and `FirstInput` gives the leader that the converse needs, for what the builder's own limits
let through (`Served`).

Followers see some cells of the log. `LogTells` says of the log that each operation made the cell the next one
found, and that between any two cells of one index the previous set's bound stays or becomes 0 (`Falls`). So
what a mirror kept of the set before the current one is what the next read tells of it, or that is 0: `AsLast`,
of the cell last read, and `Kept`, of every cell read, survive any number of operations missed. Together they
are `ViewInv`; `SetsTrue` follows. For the client, `Since(n, t)` says that cell *n* was the newest until a delay
before *t*, or still is; it holds of every read in flight at the time it must be answered, of what is cached at
the time it arrived, and the request that waits for a mirror was sent while that was fresh. The cached cell
itself is the witness `VerifiedRecently` asks for.

Of a mirror's ingestion, for any publishers, faulty ones among them, ticks, headers, page size and number of
failures:

| Theorem | Statement |
|---|---|
| `MirrorIngest_proofs!TypeCorrect` | `IngestSpec => []IngestTypeOK` |
| `MirrorIngest_proofs!Grounded` | `IngestSpec => []CursorGrounded` |
| `MirrorIngest_proofs!Evidence` | `IngestSpec => []ConflictsKept` |
| `MirrorIngest_proofs!Canonical` | `IngestSpec => CanonicalKept` |

Assumption: `MirrorIngestAssumption`. `ConflictsKept` speaks of pairs, but what `insert` compares with is
only the row that is served; `VerifiedHeld` therefore says that every verified update is that row or is
evidence together with it, and two different headers cannot both be the row. `Least` gives the first
verified blob of a tick in a page, so that `Stored` has the row it names.

Of governance ceremonies, for any keys, founders, number of documents and order of steps:

| Theorem | Statement |
|---|---|
| `Ceremony_proofs!KeysHeld` | `Spec => []Governable` |
| `Ceremony_proofs!ChangesReviewed` | `Spec => []Reviewed` |
| `Ceremony_proofs!StatusTold` | `Spec => []StatusTrue` |

Assumptions: `CeremonyAssumption` and `CommitteeCellAssumption`. A step of `Ceremony` is a step of
`CommitteeCell` or leaves the cell alone, so `GovernanceInv` holds. `CeremonyInv` adds what the two properties
need to survive a step: a document names sets as they are, a signature is by a key somebody holds (so a
possession signature of a key says that it is held), and signatures are never unmade, so a quorum once reached
stays one. `Send` is then the only step that matters: the operation it appends was signed by a quorum, and when
it brings a new set every key of that set signed for itself. `StatusTrue` compares two judges of a document:
`ErrorsAgree` shows that the tool's `transitionError` and the script's `check_transition` refuse the same
changes, `ThresholdIs` that some bundle of signatures reaches the threshold just when a quorum signed, and
`ProofIs` the same of the proofs of possession, which need one index and one key for each (`OfKeys`); for that
`DocumentSound` says that a rotation names a set that is not empty.

Of prices and configs, for any publishers, values, windows and half-lives; any drafts, key sets and signers:

| Theorem | Statement |
|---|---|
| `Prices_proofs!MedianSafe` | `Spec => AggregateSound` |
| `Prices_proofs!MajorityPrices` | `Spec => []VenuesOutvoted` |
| `Prices_proofs!AveragesAgree` | `Spec => []TwapAgreed` |
| `Prices_proofs!TradesExplained` | `Spec => []InsideBook` |
| `Prices_proofs!QuorumSigned` | `ApprovalSpec => []QuorumOfSet` |
| `Prices_proofs!ApprovalStays` | `ApprovalSpec => ApprovalKept` |

Assumptions: `AggregateAssumption`, `ConfigApprovalAssumption` and `NoFileAssumption`. Sorting needs no
induction here, since `Ranked` gives the *k*-th value by counting: fewer than *k* values are below it and at
least *k* are not above it (`RankedIs`). A majority and the values up to the middle are together more than all,
so they share a member, and likewise from the middle on (`MedianBetween`). What is left of a quorum without any
third of the publishers is such a majority (`HonestMajority`), which is `AggregateSound`; markets that agree lie
on both sides of the first median, hence are all near it and kept (`NearMedian`), hence are a majority of what
is kept too (`Outvoted`). `EmaToward` is the arithmetic of `nextEma`: a part of the difference, rounded toward
zero, has its sign and is no larger. For `TwapAgreed`, whoever is not past the window's end gives nothing;
otherwise what is in the window is up to its latest tick, so without a gap there it holds all of it (`Whole`);
and of a quorum fewer than a third of which observe another mean, the median is the mean of the rest. For
`InsideBook`, lists are in the order of time (`MarketInv`), so the quotes up to a time are the beginning of the
list (`Beginning`) and the pass stops at the right one. Of configs, `ApprovalInv` says that whatever the file
holds was made by its signers; each signature `verifyThreshold` counts is then of another member of that set
(`ThresholdSigned`).

Of sources and services, for any number of polls, connections, lookups, publishers, versions, rounds and failures:

| Theorem | Statement |
|---|---|
| `Services_proofs!SamplesKept` | `PolledSpec => []SamplesTrue` |
| `Services_proofs!SourcesTrue` | `StreamSpec /\ ResolverSpec => []SourceTrue` |
| `Services_proofs!DialsRecent` | `ResolverSpec => []AddressesRecent` |
| `Services_proofs!SchedulesAgree` | `Spec => []ScheduleAgreed` |
| `Services_proofs!Addressed` | `TransportSpec => []AddressedOnly` |
| `Services_proofs!ConflictsTold` | `WatchSpec => []EquivocationsTold` |

Assumptions: `PolledVenueAssumption`, `StreamVenueAssumption`, `ResolverAssumption`, `ConfigRolloutAssumption`,
`TransportAssumption`, `WatchdogAssumption`.

- *Polled.* The cursor keeps the newest time received and the contents of that time, and must tell new from old
  for answers that overtake each other and list only the newest trades. It `Describes` what was received, and
  whatever bears its time was counted (`TakenSound`); a trade is given only when it is newer than the cursor or
  new at its time, hence once. Of one that is not given, either an answer past it did not list it any more, or
  an equal one was counted. Of quotes, `QuotesInv` says that what is kept is all that was
  heard without a beginning that is older than the retention, which is why no sample sees the difference.
- *Streamed.* `BookFollows` speaks of a connection that has delivered everything; the invariant speaks of one
  that has not: of each price, the last message on the wire that tells of it says whether the venue has it, and
  where none does the book is right already (`Leads`). A snapshot tells of every price, so it does not matter
  what book it finds. `BestOfBook` is that `best` is what a scan would find, `ScanFinds` that a scan finds the
  best. `OthersQuiet` says of all connections but the manager's that they are stopped and not up.
- *Resolver.* `AddressInv` bounds what is not yet given: each answer of a pending lookup is allowed until the
  other one can come at the latest and the cache has kept it, and what is cached expires before that
  (`KeptLeast`: the least time to live decides).
- *Configs.* `Applies` says which of the versions known is in force at a tick, and `OneApplies` that there is
  only one; `FiredOK` is that a publisher follows that one. It needs that a version which was seen and is not
  held was refused for good (`HeldOK`); a publisher that passed one over is out of the property, as
  `config_switch` shows it must be. The proof corrected what the property takes for known: with activations
  0, 2, 1 the second version is not active at tick 1 and still keeps the third one out where it is held, so
  `Known` has all versions up to the newest that is active, and not the active ones alone.
- *Transport.* `TransportInv` says that what a line carries was sent by the publisher that dials it and that its
  hello was signed for the one it dials (`HelloDigest`), and that whoever holds an end of a line is up and in a
  set that has it (`EndsUp`).
- *Watchdog.* What was announced and what Telegram refused add up to the difference of two counts, the baseline
  and the first one, and the mirror holds at least the baseline (`WatchInv`, `TallyOK`).

Of the mirror's API, shadow mode and the deployment tool, for any rates, clients, updates, feeds, builds and
number of transactions:

| Theorem | Statement |
|---|---|
| `Followers_proofs!RateHolds` | `ApiSpec => []LimitsKept` |
| `Followers_proofs!ExactStays` | `QuerySpec => []ExactStable` |
| `Ceremony_proofs!ShadowTells` | `ShadowSpec => []ShadowTrue` |
| `Ceremony_proofs!RecordRelied` | `DeploySpec => []RecordSound` |

Assumptions: `MirrorApiAssumption`, `MirrorQueryAssumption`, `ShadowAssumption`, `DeploymentAssumption`.
`LimitsKept` bounds the requests let through between any two moments and the sockets held. For the first, the
invariant adds what the bucket could still pay (`Bounded`): from each request let through on, all since and what
is left cost at most the burst and what the time passed brings. A forgotten bucket comes back full; it had been
idle for more than `SweepAfter`, so time brings at most `Sustained` in that time, the refill or, where the burst
is more, the burst. The bound is multiplied by `SweepAfter` to stay with integers, and nothing is assumed of
rate, burst or slots. For the second, `SlotsInv`: every socket the server holds, its client gone or not, has a
slot of the bucket, which is why a bucket with sockets is not swept. `ExactStable` needs that what a mirror
holds is certified, of which there is one of a tick and committee (`HeldCertified`), and that a kept answer
carries what that one carries of the feeds asked for (`KeptExact`); what is backfilled or pruned changes
neither. `ShadowInv` says of an answer under way whose price it is, as the question may be long past.
`DeployInv` ties the record, and the presets made from it, to the chain (`OnChain`), their parts to one another
(`Coherent`, which makes it writable: `CoherentWritable`) and, since a transaction may commit long after its
tool was killed, says of every retirement ever sent that what it takes away has not been in use since
(`Retirements`), and of the one awaited that it was asked of the record as it still is (`Awaited`).

Only model-checked:

- `FinalInTime`: that something has happened by a time, in a protocol of timers, frames in flight, clocks that
  are apart and one crash. Its invariant would have to say of each moment of the tick what every publisher may
  have and what is on each link; it is larger than the model.
- `ProofsBind`: trees of any shape, defined by recursion over their levels; `FewestInputs`: sums over the cells
  chosen and over those not chosen. Both need induction over data, which the provers cannot do.
- `Workable`: a statement about the drafts of `MCApproval`. Of all configs validation accepts it does not hold:
  `hour_window` shows one.
- Liveness (`CatchesUp`, `LiveFeed`, `LiveRollout`, `LiveConnected`, `LiveExit`, `LiveTold`): under fairness,
  which the prover does not reach.

## Not modelled

- Byte layouts, hashes, signatures and JSON (pure codecs, taken by their result: a hash identifies what it
  hashes), strings and numbers parsed from venues, and the messages of each venue beyond snapshot, change
  and quote.
- `key_sets` and history signed by an earlier set in the publisher node, and a switch of configs inside
  `PublisherNode`: rotations and versions are in `ConfigRollout`, where a tick is one step.
- Argument parsing, key generation, KMS, the HTTP health pages, the parameters of the mirror's queries, the
  list of feeds, the store's format check, message texts and the watchdog's committee drift check.
- Continuity of the committee cell's lock and capacity, `price_at_expo`, the cancel path of the example
  lock, wrappers that build a transaction of one cell, scripts and Type IDs.
- What a venue refuses while it is being subscribed to, and the answer for a token that is cut in the middle
  (`venues.ts:11-26`): a connection fails before it is up, or after.
- The mirror that a shadow asks is taken to serve what the committee certified.
- The web site, the code of the always-success lock (it returns 0), generated presets, command line and network
  config of the deployment tool, and the measurement scripts: no state, or a single run without any.

## What could follow

1. `FinalInTime` for any committee, from an invariant by phase of the tick (before the slot, asked, proposed,
   signed), perhaps after a coarser model without links.
2. `TickRound` with two faults among seven publishers, and with a rotation in the middle of the tick.
3. Key sets in `PublisherNode`: what the leaving and the coming set may both certify until all have seen
   the rotation.
