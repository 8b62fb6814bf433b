SPECIFICATION Spec
CONSTANTS
  MaxConn = 3
  MaxTx = 2
  MaxEvents = 4
  MaxKills = 1
  MaxFails = 1
  Names = {"own", "other"}
  Check = "enforce"
INVARIANTS
  SessionRowsTrue
  TransactionRowsTrue
CHECK_DEADLOCK FALSE
