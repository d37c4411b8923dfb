SPECIFICATION TriggerSpec
INVARIANT Released
CHECK_DEADLOCK FALSE
CONSTANTS
  None = None
  Committee = {c1}
  Feed = {x1}
  Governing = {c1}
  Pinned = x1
  Anchor = c1
  Types <- OneType
  MaxInputs = 1
  MaxFeedsPerTx = 1
  KnownCommittees = {c1}
  KnownCodes = {"current"}
  Interval = 1
  MaxUntilAhead = 1
  MaxNonce = 2
  MaxTime = 2
