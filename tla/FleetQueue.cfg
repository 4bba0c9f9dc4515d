SPECIFICATION Spec
CONSTANTS
  r1 = r1
  Robots = {r1}
  Legacy = {r1}
  Quiet = {}
  NoRobot = NoRobot
  MaxTasks = 3
PROPERTIES
  QueueReorderIsLocal
CONSTRAINT NoMapping
CHECK_DEADLOCK FALSE
