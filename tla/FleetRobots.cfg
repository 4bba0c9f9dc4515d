SPECIFICATION Spec
CONSTANTS
  r1 = r1
  r2 = r2
  Robots = {r1, r2}
  Legacy = {}
  Quiet = {r2}
  NoRobot = NoRobot
  MaxTasks = 2
INVARIANTS
  TypeOK
  OneActiveTask
  CurrentIsOwn
  StopInhibitsMission
  
PROPERTIES
  
  CancelHeldUntilConfirmed
  
CONSTRAINT QuietNeighbour
CHECK_DEADLOCK FALSE
