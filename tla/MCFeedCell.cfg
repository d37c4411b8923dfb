SPECIFICATION CellsSpec
INVARIANTS PricesAuthentic RetiredBounded DroppedUnusable SdkAgrees ProofsBind EquivocationsTold
PROPERTY LiveTold
CHECK_DEADLOCK FALSE
CONSTANTS
  c1 = c1
  c2 = c2
  x1 = x1
  x2 = x2
  None = None
  NoAnswer = NoAnswer
  Committee = {c1, c2}
  Feed = {x1, x2}
  Governing = {c1}
  Types <- MCTypes
  MaxInputs = 2
  MaxFeedsPerTx = 2
  KnownCommittees = {c1}
  KnownCodes = {"v2"}
  Interval = 1
  MaxUntilAhead = 1
  MaxNonce = 2
  MaxTime = 2
  FeedIds = {1, 2, 3, 4, 5}
  Price = {1, 2}
  Watched = {}
  Told = {"mirror:majors"}
  DaySlots = 2
  Days = 2
  Limit = 2
  MaxConflicts = 2
  MaxRestarts = 1
