SPECIFICATION ServicesSpec
INVARIANT SwitchTogether
CHECK_DEADLOCK FALSE
CONSTANTS
  p1 = p1
  p2 = p2
  Publisher = {p1, p2}
  Activation <- Switches
  MaxSet = 0
  MaxTime = 2
  MaxCrashes = 0
  Peer = {"a", "b", "c"}
  Sets <- Keys
  Line <- Lines
  MaxDetours = 1
  MaxBreaks = 1
  MaxStarts = 0
  HighWater = 1
  MaxLines = 2
  Inbound = {}
  MaxHour = 1
  MaxWrites = 0
  None = None
  Nobody = Nobody
