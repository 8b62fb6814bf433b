SPECIFICATION FairBootSpec
CONSTANTS
  Stations = {1}
  MaxConn = 2
  MaxKeys = 3
  Capable = {1}
  WaveSizes = {1}
  CanaryCounts = {0}
  ThresholdPct = 20
  Manual = TRUE
  MaxRuns = 2
PROPERTIES
  ClosedForCause
  CheckStaysWithItsConnection
  BootSettled
  RunEnds
CHECK_DEADLOCK FALSE
