SPECIFICATION ApprovalSpec
INVARIANT WindowKept
CHECK_DEADLOCK FALSE
CONSTANTS
  k1 = k1
  k2 = k2
  k3 = k3
  k4 = k4
  bad = bad
  None = None
  Key = {k1, k2, k3, k4, bad}
  Liar = {bad}
  KeySets <- Sets
  Draft <- Drafts
  FeedId <- Ids
  Venue = {"okx", "gate", "bybit"}
  Hour = 4
  Retention = 4
