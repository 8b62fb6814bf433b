SPECIFICATION FairReportingSpec
CONSTANTS
  MaxConn = 3
  MaxReadings = 3
  QueueCap = 1
  MaxPower = 1
INVARIANTS
  CurrentOnlyInTransaction
  SuspendedIffCurtailed
  QueueIsOfThisTransaction
  NoGhost
  LossesLogged
  PowerIsNewest
PROPERTIES
  NoDuplicate
  RunsOut
CHECK_DEADLOCK FALSE
