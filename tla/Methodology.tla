---------------------------- MODULE Methodology ----------------------------
(***************************************************************************)
(* How a publisher prices a feed from its own market data: one price per   *)
(* market (apps/publisher/src/methodology.ts), one of all its markets, and *)
(* a time-weighted average of a feed's finalized prices (twap.ts).         *)
(*                                                                         *)
(* Quotes [at, bid, ask, depth] and trades [at, price, qty] are sequences, *)
(* oldest first, as MarketData keeps them; `depth` is what the smaller of  *)
(* the two tops of the book is worth, None if the venue gives no sizes. A  *)
(* method is a record of the committee config's fields, and `rest` tells   *)
(* whether the market's venue is a polled one; None is an absent field or  *)
(* result. One unit of time is SAMPLE_MS and one unit of value is the      *)
(* smallest the fixed point holds.                                         *)
(***************************************************************************)
EXTENDS Aggregation, Sequences, Functions

CONSTANT None

Among(list, from, to) == SelectSeq(list, LAMBDA item : from < item.at /\ item.at <= to)

\* The time of the newest item, 0 before the first.
LastAt(list) == IF list = <<>> THEN 0 ELSE list[Len(list)].at

\* The newest item at or before a time.
LatestQuote(quotes, at) ==
  LET before == {n \in DOMAIN quotes : quotes[n].at <= at}
  IN IF before = {} THEN None ELSE quotes[CHOOSE n \in before : \A m \in before : m <= n]

\* The items that pass a test, where they are in the list.
Where(list, Test(_)) == [n \in {m \in DOMAIN list : Test(list[m])} |-> list[n]]
Count(list) == Cardinality(DOMAIN list)

Each(list, F(_)) == [n \in DOMAIN list |-> F(list[n])]
SumOf(f) == FoldFunction(+, 0, f)
Total(list, F(_)) == SumOf(Each(list, F))

SpreadBps(q) == ((q.ask - q.bid) * 20000) \div (q.ask + q.bid)
HalfSpread(q) == (q.ask - q.bid) \div 2
Mid(q) == (q.bid + q.ask) \div 2

-----------------------------------------------------------------------------
(* One market *)

\* usableQuote: the state of the book at a time, unless the venue was silent or the
\* state is too old, too wide or too thin.
UsableQuote(quotes, alive, method, at, tick) ==
  LET q == LatestQuote(quotes, at)
  IN IF \/ alive = None
        \/ tick - alive > method.maxQuoteAge
        \/ q = None
     THEN None
     ELSE IF \/ at - q.at > method.maxBookAge
             \/ SpreadBps(q) > method.maxSpreadBps
             \/ method.minTopNotional # None /\ q.depth # None /\ q.depth < method.minTopNotional
     THEN None
     ELSE q

\* Mutant: the quote at the edge of the tolerance is the state before it.
TradesInsideBookFrom(trades, quotes, tolerance, slack) ==
  LET Inside(t, n) == quotes[n].bid - slack <= t.price /\ t.price <= quotes[n].ask + slack
      Before(t) == Cardinality({n \in DOMAIN quotes : quotes[n].at < t.at - tolerance})
  IN Where(trades, LAMBDA t :
       \E n \in DOMAIN quotes :
         /\ n >= Before(t)
         /\ n = Before(t) \/ quotes[n].at <= t.at + tolerance
         /\ Inside(t, n))

\* tradesInsideBook: `lo - 1`, the state in force a tolerance before the trade, and
\* the quotes up to a tolerance after it.
TradesInsideBook(trades, quotes, tolerance, slack) ==
  LET Inside(t, n) == quotes[n].bid - slack <= t.price /\ t.price <= quotes[n].ask + slack
      Before(t) == Cardinality({n \in DOMAIN quotes : quotes[n].at <= t.at - tolerance})
  IN Where(trades, LAMBDA t :
       \E n \in DOMAIN quotes :
         /\ n >= Before(t)
         /\ n = Before(t) \/ quotes[n].at <= t.at + tolerance
         /\ Inside(t, n))

Volume(trades) == Total(trades, LAMBDA t : t.qty)
Notional(trades) == Total(trades, LAMBDA t : t.price * t.qty)

\* The book states clampedVwap judges a window by: those in it, or the one in force.
Window(book, from) ==
  LET inWindow == SelectSeq(book, LAMBDA q : q.at > from)
  IN IF inWindow # <<>> \/ book = <<>> THEN inWindow
     ELSE <<book[Len(book)]>>

ClampedVwap(quotes, method, tick, trades) ==
  LET from == tick - method.window
      reach == IF method.tolerance = None THEN 0 ELSE method.tolerance
      book == Among(quotes, from - reach - method.maxBookAge, tick)
      window == Window(book, from)
      halfSpread == IF window = <<>> THEN None ELSE Median(Each(window, HalfSpread))
      used == IF method.tolerance = None \/ method.rest THEN trades
              ELSE IF halfSpread = None THEN <<>>
              ELSE TradesInsideBook(trades, book, method.tolerance,
                                    (halfSpread * method.slackPct) \div 100)
      price == Notional(used) \div Volume(used)
      bid == Median(Each(window, LAMBDA q : q.bid))
      ask == Median(Each(window, LAMBDA q : q.ask))
  IN IF \/ Volume(used) = 0
        \/ method.minNotional # None /\ Notional(used) < method.minNotional
        \/ method.clamp /\ window = <<>>
     THEN None
     ELSE [price |-> IF ~method.clamp THEN price
                     ELSE IF price < bid THEN bid ELSE IF price > ask THEN ask ELSE price,
           halfSpread |-> IF halfSpread = None THEN 0 ELSE halfSpread,
           gap |-> IF method.clamp THEN Abs(price - (bid + ask) \div 2) ELSE 0]

PlainVwap(quotes, alive, method, tick, trades) ==
  LET q == UsableQuote(quotes, alive, method, tick, tick)
  IN [price |-> Notional(trades) \div Volume(trades),
      halfSpread |-> IF q = None THEN 0 ELSE HalfSpread(q),
      gap |-> 0]

\* The median of the usable book states over the window.
MidPrice(quotes, alive, method, tick) ==
  LET window == IF method.method = "mid" /\ method.maxQuoteAge < method.window
                THEN method.maxQuoteAge ELSE method.window
      Used(at) == UsableQuote(quotes, alive, method, at, tick)
      times == {at \in (tick - window + 1)..tick : Used(at) # None}
  IN IF times = {} THEN None
     ELSE [price |-> Median([at \in times |-> Mid(Used(at))]),
           halfSpread |-> Median([at \in times |-> HalfSpread(Used(at))]),
           gap |-> 0]

UsesV2(method) == method.clamp \/ method.tolerance # None \/ method.minNotional # None

\* marketPrice: a market without usable trades falls back to the mid rule.
MarketPrice(quotes, trades, alive, method, tick) ==
  LET recent == Among(trades, tick - method.window, tick)
      traded == /\ method.method = "vwap"
                /\ recent # <<>>
                /\ alive # None
                /\ tick - alive <= method.maxQuoteAge
      v2 == ClampedVwap(quotes, method, tick, recent)
  IN IF traded /\ ~UsesV2(method) THEN PlainVwap(quotes, alive, method, tick, recent)
     ELSE IF traded /\ v2 # None THEN v2
     ELSE MidPrice(quotes, alive, method, tick)

-----------------------------------------------------------------------------
(* All markets of a feed *)

\* Mutant: outliers are measured from the first market instead of the median.
KeptFirst(method, venues) ==
  IF method.maxDeviationBps = None THEN venues
  ELSE LET first == venues[1].price
       IN Where(venues, LAMBDA v :
            Abs(v.price - first) * 10000 <= method.maxDeviationBps * first)

\* The markets combine keeps: those near the first median.
Kept(method, venues) ==
  IF method.maxDeviationBps = None THEN venues
  ELSE LET first == Median(Each(venues, LAMBDA v : v.price))
       IN Where(venues, LAMBDA v :
            Abs(v.price - first) * 10000 <= method.maxDeviationBps * first)

Conf(kept, price) ==
  LET mad == Median(Each(kept, LAMBDA v : Abs(v.price - price)))
      halfSpread == Median(Each(kept, LAMBDA v : v.halfSpread))
      gap == Median(Each(kept, LAMBDA v : v.gap))
  IN CHOOSE x \in {mad, halfSpread, gap} : x >= mad /\ x >= halfSpread /\ x >= gap

\* combine: fewer markets than minVenues, before or after, give no price.
Combine(method, venues) ==
  LET kept == IF Len(venues) < method.minVenues THEN <<>> ELSE Kept(method, venues)
      price == Median(Each(kept, LAMBDA v : v.price))
  IN IF Count(kept) < method.minVenues THEN None
     ELSE [price |-> price, conf |-> Conf(kept, price)]

\* toExpo: a value as an integer of `unit`s, halves away from zero.
ToExpo(value, unit) ==
  LET size == (Abs(value) * 2 + unit) \div (2 * unit)
  IN IF value < 0 THEN -size ELSE size

-----------------------------------------------------------------------------
(* TWAP feeds *)

\* twapWindow: the two newest ticks are not finalized when the boundary is observed.
TwapWindow(tick, window) == [from |-> tick - 2 - window, to |-> tick - 2]

\* Mutant: a publisher that lacks the window's end takes part.
ComputeTwapUnsynced(points, latest, tick, window, minTicks) ==
  LET w == TwapWindow(tick, window)
      used == Where(points, LAMBDA p : w.from < p.at /\ p.at <= w.to)
      mean == Truncated(Total(used, LAMBDA p : p.price), Count(used))
  IN IF Count(used) < minTicks \/ Count(used) = 0 THEN None
     ELSE IF mean <= 0 THEN None ELSE mean

\* computeTwap over `points`, the finalized prices [at, price] of the source that a
\* publisher holds; `latest` is the tick of its newest update, whether that prices
\* the source or not (0 if it has none).
ComputeTwap(points, latest, tick, window, minTicks) ==
  LET w == TwapWindow(tick, window)
      used == Where(points, LAMBDA p : w.from < p.at /\ p.at <= w.to)
      mean == Truncated(Total(used, LAMBDA p : p.price), Count(used))
  IN IF latest < w.to \/ Count(used) < minTicks \/ Count(used) = 0 THEN None
     ELSE IF mean <= 0 THEN None ELSE mean
=============================================================================
