SPECIFICATION OperationsSpec
INVARIANTS Governable Reviewed StatusTrue RecordSound FewestInputs ShadowTrue FinalInTime
  SamplesTrue
CHECK_DEADLOCK FALSE
CONSTANTS
  c1 = c1
  k1 = k1
  k2 = k2
  k3 = k3
  typo = typo
  Committee = {c1}
  Governing = {c1}
  Subject = c1
  Key = {k1, k2, k3, typo}
  Held = {k1, k2, k3}
  Founders = {k1, k2}
  Interval = 1
  MaxUntilAhead = 1
  MaxAhead = 1
  MaxDocuments = 2
  MaxNonce = 2
  MaxTime = 1
  Build = {"b1", "b2"}
  Name = {"majors"}
  MaxTxs = 5
  None = None
  Absent = Absent
  MaxCells = 3
  MaxCapacity = 5
  MaxDraft = 6
  BaseFee = 1
  InputFee = 1
  ChangeFee = 1
  MinChange = 2
  Feed = {"BTC", "ETH"}
  Price = {1, 2}
  MaxTick = 2
  Sets = 2
  Crew = {"a", "b", "c", "d"}
  Primary = "a"
  Backup = "b"
  Slot = 4
  Grace = 3
  Prepare = 3
  Apart = 1
  Delay = 1
  End = 13
  Unset = Unset
  Trade = {t1, t2}
  PageLimit = 2
  MaxTrades = 3
  Unsound = {1}
  Timeout = 1
  Backoff = 1
  Retention = 2
  Window = 2
  MaxQuoteAge = 2
  MaxBookAge = 1
  MaxPollTime = 3
  MaxBook = 1
  MaxOpen = 2
