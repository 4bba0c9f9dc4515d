SPECIFICATION Spec
CONSTANTS
  MaxCommands = 2
  MaxInFlight = 2
INVARIANTS
  IdNamesOneCommand
CHECK_DEADLOCK FALSE
