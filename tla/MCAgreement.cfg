SPECIFICATION AgreementSpec
INVARIANTS UniqueHeader NoDoubleSign
PROPERTY Implements
CHECK_DEADLOCK FALSE
SYMMETRY Symmetry34
CONSTANTS
  p1 = p1
  p2 = p2
  p3 = p3
  p4 = p4
  f = f
  None = None
  Publisher = {p1, p2, p3, p4}
  Faulty = {p1}
  Tick = {1}
  Feed = {f}
  Price = {1, 2}
  View <- MCView
  Sees <- MCSees
  FaultyPicks <- EveryOneOrOthers
  Period = 1
  Deadline = 1
  Skew = 0
  MaxSigningLag = 3
  Retention = 0
  KeepMemory = 9
  SyncBatch = 2
  SyncEvery = 9
  Tolerance = 20000
  Offset <- NoOffset
  MaxTime = 2
  MaxRestarts = 0
  Aggregate <- Median
  Near <- WithinTolerance
  Leader <- MCLeader
