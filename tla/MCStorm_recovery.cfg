SPECIFICATION FairStormSpec
CONSTANTS
  Stations = {1, 2}
  Enrolled = {1}
  Keyed = {1}
  MaxLosses = 1
  MaxConn = 3
  MaxPolls = 1
INVARIANTS
  RecoveryCounted
  LiveSessionKept
PROPERTIES
  ComesBack
CHECK_DEADLOCK FALSE
