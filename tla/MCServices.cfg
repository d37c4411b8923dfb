SPECIFICATION ServicesSpec
INVARIANTS ScheduleAgreed AddressedOnly
PROPERTIES LiveRollout LiveConnected LiveExit
CHECK_DEADLOCK FALSE
CONSTANTS
  p1 = p1
  p2 = p2
  Publisher = {p1, p2}
  Activation <- Switch
  MaxSet = 1
  MaxTime = 2
  MaxCrashes = 1
  Peer = {"a", "b", "c"}
  Sets <- Keys
  Line <- Lines
  MaxDetours = 1
  MaxBreaks = 1
  MaxStarts = 4
  HighWater = 1
  MaxLines = 2
  Inbound = {"q"}
  MaxHour = 3
  MaxWrites = 5
  None = None
  Nobody = Nobody
