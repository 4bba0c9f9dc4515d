SPECIFICATION FairSpec
CONSTANTS
  MaxCommands = 3
  MaxInFlight = 2
INVARIANTS
  TypeOK
  RowCoherent
PROPERTIES
  LatchFallsOnReset
  StoppedIsConfirmed
  CommandSettles
  StopReachesRobot
CHECK_DEADLOCK FALSE
