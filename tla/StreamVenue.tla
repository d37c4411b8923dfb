---------------------------- MODULE StreamVenue ----------------------------
(***************************************************************************)
(* A venue that streams over a websocket: the connections to it            *)
(* (apps/publisher/src/sources/runner.ts), the one the source manager      *)
(* keeps for the markets of the held configs (manager.ts), and the top of  *)
(* book that coinbase's parser keeps from a snapshot and changes, shared   *)
(* by all connections of the process (venues.ts).  One market's book is    *)
(* followed; other venues send its top with every message.  The addresses  *)
(* that are dialed are the Resolver's, which goes on by itself.            *)
(***************************************************************************)
EXTENDS Resolver, Sequences

CONSTANTS
  Bid, Ask,     \* prices of buyers and sellers
  MarketSets,   \* sets of the venue's markets a config may name
  MaxSyncs,     \* bound on changes of the configs
  MaxChanges,   \* bound on changes of the venue's book
  MaxFaults     \* bound on failures

ASSUME StreamVenueAssumption ==
  /\ Bid \subseteq Nat /\ Ask \subseteq Nat
  /\ \A b \in Bid, a \in Ask : b < a
  /\ Ask # {} /\ Nothing \notin Bid \cup Ask
  /\ {} \in MarketSets
  /\ {MaxSyncs, MaxChanges, MaxFaults} \subseteq Nat

VARIABLES
  levels,    \* the venue's book: the prices with a size
  wanted,    \* markets of the held configs
  conns,     \* the connections made, [markets, phase, stopped, silent, fed, wire]
  running,   \* the manager's, 0 if none
  book,      \* TopOfBook: the price levels,
  best,      \* and bestBid, bestAsk
  quote,     \* the newest quote given to MarketData
  bounds     \* [syncs, changes, faults] so far

streamVars == <<levels, wanted, conns, running, book, best, quote, bounds>>

Side(p) == IF p \in Bid THEN "buy" ELSE "sell"

-----------------------------------------------------------------------------
(* TopOfBook *)

\* scan: the best price of one side.
Scan(prices, side) ==
  LET mine == {p \in prices : Side(p) = side}
  IN IF mine = {} THEN Nothing
     ELSE CHOOSE p \in mine : \A q \in mine : IF side = "buy" THEN q <= p ELSE p <= q

Better(p, q, side) == q = Nothing \/ (IF side = "buy" THEN p > q ELSE p < q)

Top(b) == IF b["buy"] = Nothing \/ b["sell"] = Nothing THEN Nothing ELSE b

\* snapshot
Snapshot(prices) ==
  /\ book' = prices
  /\ best' = [side \in {"buy", "sell"} |-> Scan(book', side)]

\* Mutant: the best price is given up without a scan.
ChangeUnscanned(p, on) ==
  LET side == Side(p) IN
  /\ book' = IF on THEN book \cup {p} ELSE book \ {p}
  /\ best' = IF on
             THEN IF Better(p, best[side], side) THEN [best EXCEPT ![side] = p] ELSE best
             ELSE IF p = best[side] THEN [best EXCEPT ![side] = Nothing] ELSE best

\* change
Change(p, on) ==
  LET side == Side(p) IN
  /\ book' = IF on THEN book \cup {p} ELSE book \ {p}
  /\ best' = IF on
             THEN IF Better(p, best[side], side) THEN [best EXCEPT ![side] = p] ELSE best
             ELSE IF p = best[side] THEN [best EXCEPT ![side] = Scan(book', side)] ELSE best

-----------------------------------------------------------------------------
(* Connections *)

\* start: the url may have to be asked for first.
Connection(markets) ==
  [markets |-> markets, phase |-> "resolving", stopped |-> FALSE, silent |-> FALSE,
   fed |-> FALSE, wire |-> <<>>]

\* retry, after an error or the close of a socket.
Retry(c) ==
  [c EXCEPT !.phase = IF c.stopped THEN "done" ELSE "waiting",
            !.silent = FALSE, !.fed = FALSE, !.wire = <<>>]

\* stop: a socket is terminated; what is under way sees `stopped` later.
Stop(c) ==
  LET s == [c EXCEPT !.stopped = TRUE]
  IN IF c.phase \in {"handshake", "open"} THEN Retry(s) ELSE s

Becomes(i, c) == conns' = [conns EXCEPT ![i] = c]

Counted(what) == bounds' = [bounds EXCEPT ![what] = @ + 1]

\* SourceManager.sync: a config is added or replaced.
Sync ==
  /\ bounds.syncs < MaxSyncs
  /\ Counted("syncs")
  /\ \E markets \in MarketSets \ {wanted} :
       /\ wanted' = markets
       /\ LET old == [i \in DOMAIN conns |-> IF i = running THEN Stop(conns[i]) ELSE conns[i]]
          IN IF markets = {}
             THEN conns' = old /\ running' = 0
             ELSE /\ conns' = Append(old, Connection(markets))
                  /\ running' = Len(conns) + 1
  /\ UNCHANGED <<levels, book, best, quote>>

\* open, with the url.
Open(i) ==
  /\ conns[i].phase = "resolving"
  /\ Becomes(i, [conns[i] EXCEPT !.phase = IF conns[i].stopped THEN "done" ELSE "handshake"])
  /\ UNCHANGED <<levels, wanted, running, book, best, quote, bounds>>

\* The open event: the venue answers the subscription with a snapshot.
Opened(i) ==
  /\ conns[i].phase = "handshake"
  /\ Becomes(i, [conns[i] EXCEPT !.phase = "open", !.wire = <<[snapshot |-> levels]>>])
  /\ UNCHANGED <<levels, wanted, running, book, best, quote, bounds>>

\* Mutant: nothing follows the close of an open socket.
FailsForGood(i) ==
  /\ conns[i].phase \in {"resolving", "handshake", "open"}
  /\ bounds.faults < MaxFaults
  /\ Counted("faults")
  /\ Becomes(i, [conns[i] EXCEPT !.phase = "done", !.wire = <<>>])
  /\ UNCHANGED <<levels, wanted, running, book, best, quote>>

\* The url is not given, the handshake fails or times out, or the socket closes.
Fails(i) ==
  /\ conns[i].phase \in {"resolving", "handshake", "open"}
  /\ bounds.faults < MaxFaults
  /\ Counted("faults")
  /\ Becomes(i, Retry(conns[i]))
  /\ UNCHANGED <<levels, wanted, running, book, best, quote>>

\* The network goes silent: no message comes and no close.
GoesSilent(i) ==
  /\ conns[i].phase = "open"
  /\ ~conns[i].silent
  /\ bounds.faults < MaxFaults
  /\ Counted("faults")
  /\ \E n \in 0..Len(conns[i].wire) :
       Becomes(i, [conns[i] EXCEPT !.silent = TRUE, !.wire = SubSeq(@, 1, n)])
  /\ UNCHANGED <<levels, wanted, running, book, best, quote>>

\* The stall timer finds no message for STALL_MS.
Stall(i) ==
  /\ conns[i].phase = "open"
  /\ conns[i].silent
  /\ conns[i].wire = <<>>
  /\ Becomes(i, Retry(conns[i]))
  /\ UNCHANGED <<levels, wanted, running, book, best, quote, bounds>>

\* The retry timer: connect.
Connect(i) ==
  /\ conns[i].phase = "waiting"
  /\ Becomes(i, [conns[i] EXCEPT !.phase = IF conns[i].stopped THEN "done" ELSE "resolving"])
  /\ UNCHANGED <<levels, wanted, running, book, best, quote, bounds>>

Whole(m) == DOMAIN m = {"snapshot"}

\* parse: a message moves the book, whose top is quoted if it has both sides.
Parse(m) ==
  /\ IF Whole(m) THEN Snapshot(m.snapshot) ELSE Change(m.price, m.on)
  /\ quote' = IF Top(best') = Nothing THEN quote ELSE Top(best')

\* The next message.
NextMessage(i) ==
  /\ conns[i].phase = "open"
  /\ conns[i].wire # <<>>
  /\ LET m == Head(conns[i].wire)
     IN /\ Parse(m)
        /\ Becomes(i, [conns[i] EXCEPT !.wire = Tail(@), !.fed = @ \/ Whole(m)])
  /\ UNCHANGED <<levels, wanted, running, bounds>>

-----------------------------------------------------------------------------
(* The venue *)

\* A level appears or goes; connections that are served are told.
VenueMoves ==
  /\ bounds.changes < MaxChanges
  /\ Counted("changes")
  /\ \E p \in Bid \cup Ask :
       /\ levels' = IF p \in levels THEN levels \ {p} ELSE levels \cup {p}
       /\ conns' = [i \in DOMAIN conns |->
                      IF conns[i].phase = "open" /\ ~conns[i].silent
                      THEN [conns[i] EXCEPT !.wire =
                              Append(@, [price |-> p, on |-> p \notin levels])]
                      ELSE conns[i]]
  /\ UNCHANGED <<wanted, running, book, best, quote>>

-----------------------------------------------------------------------------
(* The specification *)

StreamInit ==
  /\ levels = Bid \cup Ask
  /\ wanted = {}
  /\ conns = <<>>
  /\ running = 0
  /\ book = {}
  /\ best = [side \in {"buy", "sell"} |-> Nothing]
  /\ quote = Nothing
  /\ bounds = [syncs |-> 0, changes |-> 0, faults |-> 0]

Progress(i) == Open(i) \/ Opened(i) \/ Stall(i) \/ Connect(i) \/ NextMessage(i)

StreamNext ==
  \/ Sync \/ VenueMoves
  \/ \E i \in DOMAIN conns :
       Open(i) \/ Opened(i) \/ Fails(i) \/ GoesSilent(i) \/ Stall(i) \/ Connect(i) \/ NextMessage(i)

\* Timers fire and sockets open or fail within their timeouts.
StreamFairness == \A i \in 1..MaxSyncs : WF_streamVars(i \in DOMAIN conns /\ Progress(i))

StreamSpec == StreamInit /\ [][StreamNext]_streamVars /\ StreamFairness

-----------------------------------------------------------------------------
(* Properties *)

\* A connection that has delivered its snapshot and everything after it leaves
\* MarketData with the top a scan of the venue's book finds, whatever book and best
\* prices another connection left before it (TopOfBook).
BookFollows ==
  \A i \in DOMAIN conns :
    conns[i].phase = "open" /\ conns[i].fed /\ ~conns[i].silent /\ conns[i].wire = <<>> =>
      LET top == Top([side \in {"buy", "sell"} |-> Scan(levels, side)])
      IN top # Nothing => quote = top

\* A wanted venue is quoted again after any failures: errors before the handshake,
\* closes, and connections that fall silent.
Serves(i) == conns[i].phase = "open" /\ conns[i].fed /\ ~conns[i].silent
LiveFeed == (wanted # {}) ~> (IF wanted = {} THEN TRUE ELSE Serves(running))

\* A venue has one source at a time: whatever was under way when the markets changed,
\* no socket of a stopped source stays or comes up, and the one that runs asks for
\* the markets wanted (stop, open, connect, sync).
OneSource ==
  \A i \in DOMAIN conns :
    /\ conns[i].phase \in {"handshake", "open"} => i = running /\ ~conns[i].stopped
    /\ i = running => conns[i].markets = wanted

\* What a streamed venue is measured from is one connection, for the markets wanted,
\* dialed at an address that recent answers allow, and the top of its book is the
\* book's best (SourceManager, DohResolver, TopOfBook).
SourceTrue == OneSource /\ BookFollows /\ AddressesRecent
=============================================================================
