SPECIFICATION RestartSpec
CONSTANTS
  Stations = {1}
  MaxConn = 3
  MaxKeys = 3
  Capable = {1}
  WaveSizes = {1}
  CanaryCounts = {1}
  ThresholdPct = 20
  Manual = TRUE
  MaxRuns = 3
  MaxKills = 2
  MaxFails = 1
INVARIANTS
  DiskIsOneMoment
  MigratedSurvives
  HalfMigratedByKillOnly
CHECK_DEADLOCK FALSE
