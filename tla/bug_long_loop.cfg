SPECIFICATION ExecSpec
CONSTANTS
  Functions <- LongLoop
  FollowUps <- None
  MaxFunctions = 1
  MaxReach = 16
  MaxClock = 12
  Allowed = {"lostSlot"}
INVARIANTS
  OperandsArrive
CHECK_DEADLOCK FALSE
