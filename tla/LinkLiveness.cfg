\* One delivery, two attempts, one message in flight each way.
SPECIFICATION FairLinkSpec
CONSTANTS
  Bot = Bot
  Robots = {Bot}
  Legacy = {}
  NoRobot = NoRobot
  MaxTasks = 1
  MaxCommands = 2
  MaxInFlight = 1
PROPERTIES
  AckedInTheEnd
  DrivenLegEnds
CONSTRAINTS
  OneMission
  Undisturbed
ACTION_CONSTRAINT ReadyToCreate
CHECK_DEADLOCK FALSE
