--------------------------- MODULE AggregateFeed ---------------------------
(***************************************************************************)
(* One feed, from the market data of publisher Me to the feed's updates.   *)
(* First what Me's venue tells it around a tick and the price Me observes  *)
(* (apps/publisher/src/methodology.ts); then the observations of all       *)
(* publishers, some of them the inventions of faulty ones, the aggregate a *)
(* quorum of them gives (aggregate.ts), the moving average carried from    *)
(* one update to the next, and what a TWAP feed makes of the updates       *)
(* (twap.ts).                                                              *)
(***************************************************************************)
EXTENDS Methodology

CONSTANTS
  Publisher,   \* the key set
  Me,          \* the publisher whose market data is modelled
  Method,      \* configurations of the feed
  QuoteSet,    \* [bid, ask, depth] a venue may show
  TradeSet,    \* [price, qty] it may trade
  MarketSet,   \* prices of Me's other markets, as MarketPrice gives them
  MaxMarkets,  \* bound on Me's markets
  MeasuredTick,\* the tick Me's market data is followed up to
  Unit,        \* values in a unit of the feed's exponent
  Value,       \* prices a publisher may send
  Gap,         \* ticks between two updates of the feed: missed ticks make it longer
  Tau,         \* time constant of the moving average
  TwapTicks,   \* window of the TWAP feed
  MinTicks,    \* ticks it must hold
  MaxUpdates   \* bound on the updates

ASSUME AggregateAssumption ==
  /\ IsFiniteSet(Publisher)
  /\ Me \in Publisher
  /\ Value \subseteq Int
  /\ QuoteSet \subseteq [bid : Int, ask : Int, depth : Int \cup {None}]
  /\ TradeSet \subseteq [price : Int, qty : Int]
  /\ \A v \in MarketSet : v.price \in Nat \ {0}
  /\ \A m \in Method : m # None /\ m.maxDeviationBps \in Nat \cup {None} /\ m.minVenues \in Nat
  /\ None \notin [at : Nat, bid : Int, ask : Int, depth : Int \cup {None}]
  /\ Gap \subseteq Nat \ {0}
  /\ {Tau, Unit, TwapTicks} \subseteq Nat \ {0}
  /\ {MinTicks, MaxUpdates, MaxMarkets, MeasuredTick} \subseteq Nat

VARIABLES
  clock,    \* of Me's venue, up to MeasuredTick
  quotes,   \* MarketData: the venue's books
  trades,   \* and trades
  alive,    \* and the last time it sent anything
  method,   \* the configuration of the feed, until Me has observed
  venues,   \* prices of Me's markets
  sample,   \* [publishers whose observation is chosen and prices the feed -> price]
  update,   \* the feed's latest update [price, ema], or None
  history   \* all its updates, [at, price]

market == <<clock, quotes, trades, alive>>
feed == <<update, history>>
vars == <<market, method, venues, sample, feed>>

N == Cardinality(Publisher)
Quorum == (2 * N) \div 3 + 1

Init ==
  /\ clock = 1
  /\ quotes = <<>>
  /\ trades = <<>>
  /\ alive = None
  /\ method \in Method
  /\ venues = <<>>
  /\ sample \in [{} -> Value]
  /\ update = None
  /\ history = <<>>

-----------------------------------------------------------------------------
(* Me's market data and observation *)

Measuring == method # None /\ venues = <<>>

Passes ==
  /\ Measuring
  /\ clock < MeasuredTick
  /\ clock' = clock + 1
  /\ UNCHANGED <<quotes, trades, alive, method, venues, sample, feed>>

\* MarketData.quote, at most one at a time of the clock.
QuoteArrives ==
  /\ Measuring
  /\ LastAt(quotes) < clock
  /\ \E q \in QuoteSet :
       quotes' = Append(quotes, [at |-> clock, bid |-> q.bid, ask |-> q.ask, depth |-> q.depth])
  /\ alive' = clock
  /\ UNCHANGED <<clock, trades, method, venues, sample, feed>>

\* MarketData.trade, likewise.
TradeArrives ==
  /\ Measuring
  /\ LastAt(trades) < clock
  /\ \E t \in TradeSet :
       trades' = Append(trades, [at |-> clock, price |-> t.price, qty |-> t.qty])
  /\ alive' = clock
  /\ UNCHANGED <<clock, quotes, method, venues, sample, feed>>

\* MarketData.alive: a message that is neither.
HeartbeatArrives ==
  /\ Measuring
  /\ alive' = clock
  /\ UNCHANGED <<clock, quotes, trades, method, venues, sample, feed>>

\* aggregate: this market's price, then those of other markets.
MeasureMarket ==
  /\ Measuring
  /\ clock = MeasuredTick
  /\ LET price == MarketPrice(quotes, trades, alive, method, clock)
     IN /\ price # None
        /\ price.price \in Nat \ {0}
        /\ venues' = <<price>>
  /\ clock' = 1
  /\ quotes' = <<>>
  /\ trades' = <<>>
  /\ alive' = None
  /\ UNCHANGED <<method, sample, feed>>

MeasureOther ==
  /\ method # None
  /\ Len(venues) \in 1..(MaxMarkets - 1)
  /\ \E v \in MarketSet : venues' = Append(venues, v)
  /\ UNCHANGED <<market, method, sample, feed>>

\* observeFeeds: Me's entry for the feed, if it has a price.
ObserveOwn ==
  /\ method # None
  /\ LET result == Combine(method, venues)
         price == ToExpo(result.price, Unit)
     IN /\ result # None
        /\ price \in Nat \ {0}
        /\ sample' = [p \in {Me} |-> price]
  /\ method' = None
  /\ venues' = <<>>
  /\ UNCHANGED <<market, feed>>

-----------------------------------------------------------------------------
(* The committee's updates *)

\* Another observation of the feed is among the chosen ones.
Observe(p) ==
  /\ method = None
  /\ p \notin DOMAIN sample
  /\ \E x \in Value : sample' = [q \in DOMAIN sample \cup {p} |-> IF q = p THEN x ELSE sample[q]]
  /\ UNCHANGED <<market, method, venues, feed>>

\* The tick's update has the feed when a quorum prices it.
Aggregated ==
  /\ Cardinality(DOMAIN sample) >= Quorum
  /\ Len(history) < MaxUpdates
  /\ \E dt \in Gap :
       LET price == Median(sample)
       IN /\ update' = [price |-> price,
                        ema |-> IF update = None THEN price
                                ELSE NextEma(update.ema, price, dt, Tau)]
          /\ history' = Append(history, [at |-> LastAt(history) + dt, price |-> price])
  /\ sample' = [p \in {} |-> 0]
  /\ UNCHANGED <<market, method, venues>>

Next ==
  \/ Passes \/ QuoteArrives \/ TradeArrives \/ HeartbeatArrives
  \/ MeasureMarket \/ MeasureOther \/ ObserveOwn
  \/ \E p \in Publisher : Observe(p)
  \/ Aggregated

Spec == Init /\ [][Next]_vars

-----------------------------------------------------------------------------
(* Properties *)

\* The trades a market's VWAP uses are those that some book state in force within
\* the tolerance of the trade explains: the one-pass search over two sorted lists
\* neither misses such a state nor takes one from outside (tradesInsideBook).
InsideBook ==
  \A tolerance \in {0, 1}, slack \in {0, 1} :
    TradesInsideBook(trades, quotes, tolerance, slack) =
      Where(trades, LAMBDA t :
        \E moment \in (t.at - tolerance)..(t.at + tolerance) :
          LET q == LatestQuote(quotes, moment)
          IN IF q = None THEN FALSE
             ELSE q.bid - slack <= t.price /\ t.price <= q.ask + slack)

\* Markets that agree, a majority, bound the observed price, whatever the others
\* say (combine drops outliers by a first median).
VenuesOutvoted ==
  LET result == Combine(method, venues)
      Agree(M) == \A m, n \in M :
        Abs(venues[m].price - venues[n].price) * 10000 <= method.maxDeviationBps * venues[n].price
  IN method # None /\ venues # <<>> /\ result # None =>
       \A M \in SUBSET DOMAIN venues :
         2 * Cardinality(M) > Len(venues) /\ method.maxDeviationBps # None /\ Agree(M) =>
           \E m, n \in M : venues[m].price <= result.price /\ result.price <= venues[n].price

\* Whichever publishers are faulty, fewer than a third, the price of an update lies
\* between those of two honest ones (docs/oracle-design.md, section 5, Median
\* safety), and its average is no further from it than the one before was, and not
\* past it, however long the gap (aggregateMessages; nextEma truncates toward zero).
AggregateSound ==
  [][update' # update =>
       LET price == update'.price
           before == IF update = None THEN 0 ELSE price - update.ema
           after == price - update'.ema
       IN /\ \A Faulty \in SUBSET Publisher : 3 * Cardinality(Faulty) < N =>
               \E p, q \in DOMAIN sample \ Faulty : sample[p] <= price /\ price <= sample[q]
          /\ Abs(after) <= Abs(before)
          /\ before * after >= 0]_vars

\* The committee finalizes a tick more, without the feed, so that the last boundary's
\* window ends where the feed has nothing.
Newest == LastAt(history) + 1
Boundaries == 1..(Newest + 2)
Twap(points, latest, tick) == ComputeTwap(points, latest, tick, TwapTicks, MinTicks)

\* What a publisher holds of the feed's updates has no gap in the window of `tick`: up
\* to its newest update, of any feed, it holds what there is. Before and after the
\* window it may have missed or pruned anything.
Whole(held, latest, tick) ==
  LET w == TwapWindow(tick, TwapTicks)
  IN \A n \in DOMAIN history :
       w.from < history[n].at /\ history[n].at <= w.to /\ history[n].at <= latest => n \in held

\* Publishers without a gap in the window never compute different averages for a
\* boundary, whatever else each has learned, of this feed or of others: one that is not
\* synced through the window's end sits it out, and what is outside the window is not
\* counted (computeTwap; judged when an update was made, as `history` is the same until
\* the next). And fewer than a third that observe anything else, such as the mean of a
\* window with gaps (requestSync asks only for what is after the newest update), do not
\* change the average the committee publishes.
TwapAgreed ==
  /\ DOMAIN sample = {} =>
       \A tick \in Boundaries, held \in SUBSET DOMAIN history, latest \in 0..Newest :
         Whole(held, latest, tick) =>
           Twap([n \in held |-> history[n]], latest, tick) \in {None, Twap(history, Newest, tick)}
  /\ Cardinality(DOMAIN sample) >= Quorum =>
       \A dt \in Gap :
         LET average == Twap(history, Newest, LastAt(history) + dt)
         IN /\ average # None
            /\ 3 * Cardinality({p \in DOMAIN sample : sample[p] # average}) < N
            => Median(sample) = average
=============================================================================
