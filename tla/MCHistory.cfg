SPECIFICATION HistorySpec
INVARIANTS HistorySound GuardKept
ACTION_CONSTRAINT EarlyRestart
CHECK_DEADLOCK FALSE
CONSTANTS
  p1 = p1
  p2 = p2
  f = f
  None = None
  Publisher = {p1, p2}
  Faulty = {}
  Tick = {1, 2}
  Feed = {f}
  Price = {1}
  View <- MCView
  Sees <- MCSees
  FaultyPicks = {}
  Period = 1
  Deadline = 1
  Skew = 0
  MaxSigningLag = 1
  Retention = 1
  KeepMemory = 1
  SyncBatch = 1
  SyncEvery = 9
  Tolerance = 20000
  Offset <- NoOffset
  MaxTime = 3
  MaxRestarts = 1
  Aggregate <- Median
  Near <- WithinTolerance
  Leader <- MCLeader
