SPECIFICATION PricesSpec
INVARIANTS InsideBook VenuesOutvoted TwapAgreed QuorumOfSet Workable
PROPERTIES AggregateSound ApprovalKept
CHECK_DEADLOCK FALSE
CONSTANTS
  p1 = p1
  p2 = p2
  p3 = p3
  p4 = p4
  None = None
  Publisher = {p1, p2, p3, p4}
  Me = p1
  Method <- MCMethod
  QuoteSet <- MCQuote
  TradeSet <- MCTrade
  MarketSet <- MCMarket
  MaxMarkets = 4
  MeasuredTick = 4
  Unit = 2
  Value <- MCValue
  Gap = {1, 2}
  Tau = 1
  TwapTicks = 3
  MinTicks = 2
  MaxUpdates = 3
  k1 = k1
  k2 = k2
  k3 = k3
  k4 = k4
  bad = bad
  Key = {k1, k2, k3, k4, bad}
  Liar = {bad}
  KeySets <- Sets
  Draft <- Drafts
  FeedId <- Ids
  Venue = {"okx", "gate", "bybit"}
  Hour = 4
  Retention = 8
