SPECIFICATION ExecSpec
CONSTANTS
  Functions <- TwoInPlaceFunctions
  FollowUps <- None
  MaxFunctions = 1
  MaxReach = 16
  MaxClock = 9
  Allowed = {}
INVARIANTS
  LocalsOnStack
CHECK_DEADLOCK FALSE
