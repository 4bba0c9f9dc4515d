SPECIFICATION Spec
CONSTANTS
  Robots = {"robot01"}
  Legacy = {"robot01"}
  NoRobot = NoRobot
  MaxTasks = 2
PROPERTIES
  NoAssignmentWhileMapping
CHECK_DEADLOCK FALSE
