----------------------------- MODULE MCApproval -----------------------------
EXTENDS ConfigApproval

CONSTANTS k1, k2, k3, k4, bad

Sets == << <<k1, k2, bad>>, <<k2, bad, k3, k4>> >>

Btc == <<"BTC", "USDT", 0>>
TwapSymbol(window) == <<"BTC", "USDT", window>>
Ids == [s \in {Btc} \cup {TwapSymbol(w) : w \in {2, 3, 4, 6}} |-> s[3] + 1]

Market(minVenues, markets) ==
  [symbol |-> Btc, quote |-> "USDT", id |-> 1, expo |-> 0, toleranceBps |-> 1, emaHalfLife |-> 1,
   twap |-> None, window |-> 1, minTopNotional |-> None, clamp |-> None, maxQuoteAge |-> 1, maxBookAge |-> None, maxSpreadBps |-> 1,
   maxDeviationBps |-> 100, tolerance |-> None, slackPct |-> None, minNotional |-> None,
   minVenues |-> minVenues, markets |-> markets]
Average(window, every, minTicks) ==
  [symbol |-> TwapSymbol(window), quote |-> "USDT", id |-> window + 1, expo |-> 0,
   toleranceBps |-> 1, emaHalfLife |-> 1,
   twap |-> [source |-> Btc, window |-> window, every |-> every, minTicks |-> minTicks]]

Config(period, feeds) ==
  [version |-> 1, tickPeriod |-> period, observationDeadline |-> 1, maxSigningLag |-> 1, activation |-> 4,
   feeds |-> feeds]

Drafts ==
  {Config(2, <<Market(m, v)>>) : m \in {1, 2}, v \in
     {<<"okx", "gate">>, <<"okx", "gate", "bybit">>, <<"okx", "okx", "gate">>, <<"okx", "gate", "gate", "bybit">>}}
  \cup {Config(2, <<Market(2, <<"okx", "gate", "bybit">>), Average(w, 2, n)>>) : w \in {3, 4, 6}, n \in {2, 3}}
  \cup {Config(1, <<Market(2, <<"okx", "gate", "bybit">>)>>)}
=============================================================================
