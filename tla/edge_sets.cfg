SPECIFICATION EdgeSpec
CONSTANTS
  N = 3
  Functions <- MCFunctions
INVARIANTS
  EdgeTypeOK
  SharingEdgesTogether
  OnlyConnectedTogether
PROPERTIES
  MergingEnds
CHECK_DEADLOCK FALSE
