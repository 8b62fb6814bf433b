SPECIFICATION Spec
CONSTANTS
  Stations = {1, 2, 3}
  MaxConn = 2
  MaxKeys = 2
  Capable = {1, 2}
  WaveSizes = {1}
  CanaryCounts = {1}
  ThresholdPct = 20
  Manual = TRUE
  MaxRuns = 2
INVARIANTS
  MigratedIsProven
  NeverHalfMigrated
  StagedOnlyInWindow
  Containment
  OneRotationSurvived
PROPERTIES
  RotationKeepsIdentity
  RotationRollbackRestores
  ImplementsRollout
CHECK_DEADLOCK FALSE
