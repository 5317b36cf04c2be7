SPECIFICATION Spec
CONSTANTS
  Functions <- MCFunctions
  MaxClock = 9
INVARIANTS
  TypeOK
  ArgumentsNamed
  OnlyHazardsFail
  SlotsInFrame
  StackEmptyBetweenBlocks
PROPERTIES
  ImplementsReversed
CHECK_DEADLOCK FALSE
