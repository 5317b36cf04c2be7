SPECIFICATION ExecSpec
CONSTANTS
  Functions <- StructuredFunctions
  FollowUps <- None
  MaxFunctions = 1
  MaxReach = 16
  MaxClock = 9
  Allowed = {}
INVARIANTS
  TypeOK
  OnlyHazardsFail
  LocalsKept
  NoUnderflow
  SlotsKept
  LiveValuesInMemory
  SlotsInFrame
  StackEmptyBetweenBlocks
PROPERTIES
  ImplementsRegMachine
CHECK_DEADLOCK FALSE
