SPECIFICATION Spec
CONSTANTS
  Stations = {1, 2, 3}
  MaxConn = 1
  MaxKeys = 2
  Capable = {1, 2, 3}
  WaveSizes = {3}
  CanaryCounts = {0}
  ThresholdPct = 50
  Manual = FALSE
  MaxRuns = 2
INVARIANTS
  CountersAddUp
  FailedWaveUndone
CHECK_DEADLOCK FALSE
