SPECIFICATION Spec
CONSTANTS
  Functions <- TwoArguments
  MaxClock = 9
INVARIANTS
  FirstOperandOnTop
CHECK_DEADLOCK FALSE
