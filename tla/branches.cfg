SPECIFICATION Spec
CONSTANTS
  N = 4
  MaxBlocks = 10
INVARIANTS
  TypeOK
  SuccessorsAgree
  BranchesKept
  BranchesUnderstood
CHECK_DEADLOCK FALSE
