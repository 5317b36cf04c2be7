SPECIFICATION ExecSpec
CONSTANTS
  Functions <- UnstructuredFunctions
  FollowUps <- ChainFunctions
  MaxFunctions = 2
  MaxReach = 16
  MaxClock = 9
  Allowed = {}
PROPERTIES
  ImplementsRegMachine
CHECK_DEADLOCK FALSE
