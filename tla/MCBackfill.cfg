SPECIFICATION IngestFairSpec
PROPERTY Complete
CHECK_DEADLOCK FALSE
CONSTANTS
  s1 = s1
  s2 = s2
  h1 = h1
  h2 = h2
  NoUpdate = NoUpdate
  Source = {s1}
  Faulty = {}
  Headers = {h1}
  Certified <- NoConflict
  Views <- AlwaysAll
  MaxTick = 3
  Page = 1
  MaxBreaks = 0
