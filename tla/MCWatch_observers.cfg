SPECIFICATION MCSpec
CONSTANTS
  Ring = 3
  Page = 2
  MaxEvents = 4
  MaxPolls = 2
  MaxRestarts = 1
  ChargerStates = {waiting, upgraded}
  KeyIds = {k1, k2}
  MaxRuns = 2
  MaxChanges = 3
INVARIANTS
  MissedForCause
  OnlyNews
PROPERTIES
  EndIsReported
CHECK_DEADLOCK FALSE
