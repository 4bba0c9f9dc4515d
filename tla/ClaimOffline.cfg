SPECIFICATION Spec
CONSTANTS
  Robots = {"robot01"}
  Legacy = {}
  NoRobot = NoRobot
  MaxTasks = 2
PROPERTIES
  OfflineMissionPreserved
CHECK_DEADLOCK FALSE
