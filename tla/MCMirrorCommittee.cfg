SPECIFICATION FollowersSpec
INVARIANTS SetsTrue VerifiedRecently LimitsKept ExactStable
CHECK_DEADLOCK FALSE
CONSTANTS
  c1 = c1
  Unknown = Unknown
  Open = Open
  Nothing = Nothing
  Committee = {c1}
  Governing = {c1}
  Followed = c1
  Asked = c1
  Interval = 2
  MaxUntilAhead = 1
  MaxNonce = 3
  MaxTime = 3
  CacheTime = 1
  Delay = 1
  Timeout = 0
  MaxReads = 2
  Stream = {"s1", "s2"}
  Cost = 3
  Burst = 4
  MaxStreams = 2
  SweepAfter = 2
  LastStep = 8
  MaxLosses = 2
  MaxAborts = 1
  None = None
  NoBucket = NoBucket
  Mirror = {"m1", "m2"}
  Source = {"majors", "alts"}
  FeedId = {"BTC", "ETH"}
  MaxTick = 3
  Carried <- MCCarried
