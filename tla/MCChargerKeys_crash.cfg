SPECIFICATION Spec
CONSTANTS
  MaxKeys = 3
  MaxChecks = 4
  Cap = 2
  Ttl = 1
  MaxTime = 2
  KeyDir = TRUE
  MaxAsks = 3
  MaxCrashes = 1
  MaxFailures = 1
INVARIANTS
  KeysOutliveCrash
  AnswersCount
CHECK_DEADLOCK FALSE
