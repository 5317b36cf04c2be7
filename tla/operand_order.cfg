SPECIFICATION Spec
CONSTANTS
  MaxDepth = 5
  MemRegs = 2
  MaxUses = 3
INVARIANTS
  OperandsInOrder
  OnlySurvivorsRemain
CHECK_DEADLOCK FALSE
