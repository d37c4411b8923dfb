---------------------------- MODULE PolledVenue ----------------------------
(***************************************************************************)
(* One market of a venue polled over REST, as a publisher prices it: the   *)
(* poller (apps/publisher/src/sources/rest.ts), what MarketData keeps of   *)
(* it (marketData.ts) and the book states the methodology samples at a     *)
(* tick (methodology.ts).                                                  *)
(*                                                                         *)
(* A poll starts at every interval whether or not earlier ones have been   *)
(* answered, so polls overlap and are answered in any order.  A book state *)
(* is a version of the venue's book.  A trade is its place in the venue's  *)
(* list; the poller sees only its time and content, which two trades may   *)
(* share, and only the newest trades of the list.                          *)
(***************************************************************************)
EXTENDS Integers, Sequences, FiniteSets

CONSTANTS
  Trade,          \* contents of trades (price, quantity)
  PageLimit,      \* trades an answer lists at most
  Unsound,        \* book states too wide or too thin to be used
  Timeout,        \* of a request
  Backoff,        \* REFUSED_BACKOFF_MS
  Retention,      \* MarketData's retentionMs
  Window,         \* samples a price is the median of, one each unit of time
  MaxQuoteAge,    \* maxQuoteAgeMs
  MaxBookAge,     \* maxBookAgeMs
  MaxPollTime,    \* bound on the clock
  MaxBook,        \* bound on the book states
  MaxTrades,      \* bound on the trades
  MaxOpen,        \* bound on the polls in flight
  Unset           \* nothing yet

\* lastTrade: the newest time, and the trades of that time.
Cursor == [at : Nat, seen : SUBSET Trade]

\* MarketData's constructor asks that it cover the longest configured window; the
\* oldest sample looks a book age further back.
ASSUME PolledVenueAssumption ==
  /\ {Timeout, Backoff, Window, MaxQuoteAge, MaxBookAge, MaxPollTime, MaxBook, MaxOpen,
       MaxTrades, PageLimit} \subseteq Nat
  /\ Retention \in Nat
  /\ Retention + 1 >= Window + MaxBookAge
  /\ Unsound \subseteq 0..MaxBook
  /\ Unset \notin Nat /\ Unset \notin Cursor

VARIABLES
  time,       \* the clock, the venue's and the publisher's
  shown,      \* the venue's book state
  made,       \* the venue's trades, [trade, at], oldest first
  polls,      \* polls in flight
  started,    \* time of the newest poll
  until,      \* backoffUntil
  cursor,     \* lastTrade
  quotes,     \* MarketData: [state, at], oldest first
  taken,      \* how often MarketData was given each trade of made
  lastAlive,  \* MarketData
  heard,      \* every quote ever pushed
  answered    \* what was received, by the newest trade listed: the first answer, and all

venue == <<shown, made>>
poller == <<polls, started, until, cursor>>
data == <<quotes, taken, lastAlive, heard, answered>>
polledVars == <<time, venue, poller, data>>

-----------------------------------------------------------------------------
(* The venue *)

Advance ==
  /\ time < MaxPollTime
  /\ time' = time + 1
  /\ UNCHANGED <<venue, poller, data>>

BookMoves ==
  /\ shown < MaxBook
  /\ shown' = shown + 1
  /\ UNCHANGED <<time, made, poller, data>>

Trades ==
  /\ Len(made) < MaxTrades
  /\ \E t \in Trade : made' = Append(made, [trade |-> t, at |-> time])
  /\ taken' = Append(taken, 0)
  /\ UNCHANGED <<time, shown, poller, quotes, lastAlive, heard, answered>>

\* The trades of an answer given when trade newest was the newest.
Listed(newest) == {n \in 1..newest : n + PageLimit > newest}

-----------------------------------------------------------------------------
(* MarketData *)

\* push: what is older than the retention is dropped from the front.
Push(list, item) ==
  LET all == Append(list, item)
      old == {n \in DOMAIN all : \A k \in 1..n : all[k].at < item.at - Retention}
  IN SubSeq(all, Cardinality(old) + 1, Len(all))

\* latestQuote: the newest pushed at or before a time.
LatestQuote(list, at) ==
  LET before == {n \in DOMAIN list : list[n].at <= at}
  IN IF before = {} THEN Unset
     ELSE list[CHOOSE n \in before : \A k \in before : k <= n]

\* usableQuote.
UsableQuote(list, at, tick) ==
  LET q == LatestQuote(list, at)
  IN IF \/ lastAlive = Unset
        \/ tick - lastAlive > MaxQuoteAge
        \/ q = Unset
     THEN Unset
     ELSE IF at - q.at > MaxBookAge \/ q.state \in Unsound THEN Unset ELSE q

\* marketPrice, method mid: the usable book states of the window, newest first.
Samples(list, tick) ==
  {[at |-> at, quote |-> UsableQuote(list, at, tick)] :
     at \in {a \in (tick - Window + 1)..tick : UsableQuote(list, a, tick) # Unset}}

-----------------------------------------------------------------------------
(* The poller *)

\* poll, pollMarket: at every interval, unless the venue refused lately.
Poll ==
  /\ started < time
  /\ Cardinality(polls) < MaxOpen
  /\ until <= time
  /\ started' = time
  /\ polls' = polls \cup {[start |-> time, book |-> Unset, trades |-> Unset]}
  /\ UNCHANGED <<time, venue, until, cursor, data>>

\* The venue answers one of the two requests of a poll.
VenueAnswers ==
  \E p \in polls :
    /\ \/ p.book = Unset /\ polls' = (polls \ {p}) \cup {[p EXCEPT !.book = shown]}
       \/ p.trades = Unset /\ polls' = (polls \ {p}) \cup {[p EXCEPT !.trades = Len(made)]}
    /\ UNCHANGED <<time, venue, started, until, cursor, data>>

\* Mutant: the trades of the newest time are not remembered.
NewTradesByTime(trades) ==
  IF cursor = Unset THEN {} ELSE {n \in trades : made[n].at >= cursor.at}

\* ingestTrades: what the cursor has not passed. The first poll only sets it.
NewTrades(trades) ==
  IF cursor = Unset THEN {}
  ELSE {n \in trades : \/ made[n].at > cursor.at
                       \/ made[n].at = cursor.at /\ made[n].trade \notin cursor.seen}

NextCursor(trades) ==
  LET before == IF cursor = Unset THEN [at |-> 0, seen |-> {}] ELSE cursor
      times == {made[n].at : n \in trades} \cup {before.at}
      latest == CHOOSE t \in times : \A u \in times : u <= t
      seen == {made[n].trade : n \in {m \in trades : made[m].at = latest}}
  IN [at |-> latest, seen |-> IF latest = before.at THEN before.seen \cup seen ELSE seen]

\* Both requests were answered before their timeout.
InTime(p) == p.book # Unset /\ p.trades # Unset /\ time <= p.start + Timeout

\* The book and the new trades are stamped with the time of their arrival.
Receive ==
  \E p \in polls :
    /\ InTime(p)
    /\ polls' = polls \ {p}
    /\ lastAlive' = time
    /\ quotes' = Push(quotes, [state |-> p.book, at |-> time])
    /\ heard' = Append(heard, [state |-> p.book, at |-> time])
    /\ LET new == NewTrades(Listed(p.trades))
       IN taken' = [n \in DOMAIN made |-> IF n \in new THEN taken[n] + 1 ELSE taken[n]]
    /\ answered' = [first |-> IF cursor = Unset THEN p.trades ELSE answered.first,
                    all |-> answered.all \cup {p.trades}]
    /\ cursor' = NextCursor(Listed(p.trades))
    /\ UNCHANGED <<time, venue, started, until>>

\* A request fails or times out; a refusal (403, 429) leaves the market alone.
Fail ==
  \E p \in polls, refused \in BOOLEAN :
    /\ polls' = polls \ {p}
    /\ until' = IF refused THEN time + Backoff ELSE until
    /\ UNCHANGED <<time, venue, started, cursor, data>>

-----------------------------------------------------------------------------
(* The specification *)

PolledInit ==
  /\ time = 0
  /\ shown = 0
  /\ made = <<>>
  /\ polls = {}
  /\ started = -1
  /\ until = 0
  /\ cursor = Unset
  /\ quotes = <<>>
  /\ taken = <<>>
  /\ lastAlive = Unset
  /\ heard = <<>>
  /\ answered = [first |-> 0, all |-> {}]

PolledNext == Advance \/ BookMoves \/ Trades \/ Poll \/ VenueAnswers \/ Receive \/ Fail

PolledSpec == PolledInit /\ [][PolledNext]_polledVars

-----------------------------------------------------------------------------
(* Properties *)

\* The trades of the first answer, from which no trade is taken.
Backlog == IF cursor = Unset THEN {} ELSE Listed(answered.first)

\* A trade of this time and content was given to MarketData or is of the backlog.
Given(n) ==
  \E k \in DOMAIN made : made[k] = made[n] /\ (taken[k] = 1 \/ k \in Backlog)

\* An answer received reaches to the trade or past it.
Reached(n) == \E newest \in answered.all : n <= newest

\* Of no answer received had newer trades pushed it off the list.
StillListed(n) == \A newest \in answered.all : n <= newest => n \in Listed(newest)

\* However polls overlap, fail, and are answered out of order, MarketData is given no
\* trade twice and none of the first answer's, and misses none made since that the
\* answers reach, but one that PageLimit newer trades had pushed off the list of an answer
\* received, or that equals another in time and content (ingestTrades).
TradesOnce ==
  \A n \in DOMAIN made :
    /\ taken[n] <= (IF n \in Backlog THEN 0 ELSE 1)
    /\ n > answered.first /\ Reached(n) /\ StillListed(n) => Given(n)

\* What MarketData forgets would not have been sampled: a price is the one its whole
\* history gives (push, with the retention its constructor asks for).
HistoryEnough ==
  Samples(quotes, time) = Samples(heard, time)

\* A polled venue is measured from all it showed, once: no trade is counted twice, none
\* is missed that every answer past it still listed, but for one equal to another counted,
\* and no quote a window needs is forgotten (ingestTrades, MarketData).
SamplesTrue == TradesOnce /\ HistoryEnough
=============================================================================
