SPECIFICATION StreamsSpec
INVARIANTS SourceTrue ConflictsKept
PROPERTIES LiveFeed CatchesUp
CHECK_DEADLOCK FALSE
CONSTANTS
  Nothing = Nothing
  Bid = {1, 2}
  Ask = {3, 4}
  MarketSets <- Markets
  Address <- HostAddresses
  MaxSyncs = 3
  MaxChanges = 2
  MaxFaults = 2
  Ttl = {0, 3}
  Floor = 1
  Cap = 2
  QueryTimeout = 1
  Lookup = {l1, l2}
  MaxClock = 3
  NoUpdate = NoUpdate
  s1 = s1
  s2 = s2
  h1 = h1
  h2 = h2
  Source = {s1, s2}
  Faulty = {s2}
  Headers = {h1, h2}
  Certified <- OneConflict
  Views <- PausedOrNot
  MaxTick = 2
  Page = 1
  MaxBreaks = 2
