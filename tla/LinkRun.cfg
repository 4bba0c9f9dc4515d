\* One delivery, two attempts, one message in flight each way.
SPECIFICATION LinkSpec
CONSTANTS
  Bot = Bot
  Robots = {Bot}
  Legacy = {}
  NoRobot = NoRobot
  MaxTasks = 1
  MaxCommands = 2
  MaxInFlight = 1
INVARIANTS
  OneIdentityPerLeg
  

  
CONSTRAINTS
  OneMission
  StopOrOffline
ACTION_CONSTRAINT ReadyToCreate
CHECK_DEADLOCK FALSE
