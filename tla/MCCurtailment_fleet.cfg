SPECIFICATION Spec
CONSTANTS
  Volts = 2
  Stations = {1}
  Rating <- MCRating
  WattsAsked = {0, 15}
  Profiles <- MCProfiles
  MaxCommands = 3
  MaxConn = 2
  MaxTx = 2
INVARIANTS
  AcceptedInForce
  StopHitsNamed
PROPERTIES
  NoLift
CHECK_DEADLOCK FALSE
