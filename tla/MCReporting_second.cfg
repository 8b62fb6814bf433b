SPECIFICATION ReportingSpec
CONSTANTS
  MaxConn = 2
  MaxReadings = 4
  QueueCap = 2
  MaxPower = 1
INVARIANTS
  OneSession
CHECK_DEADLOCK FALSE
