SPECIFICATION Spec
CONSTANTS
  Runs = {1, 2, 3}
  Files = {"demo", "demo_legacy"}
  FlushEvery = 2
  MaxFaults = 1
  Stations = {1, 2, 3}
  Generators = {"demo", "demo_legacy"}
  Fleet <- MCFleet
  Gen <- MCGen
  Name <- MCName
  MaxAttempts = 2
INVARIANTS
  CompleteIsWhole
  NobodyCountedTwice
CHECK_DEADLOCK FALSE
