SPECIFICATION Spec
CONSTANTS
  Funcs <- MCFuncs
  Program <- MCProgram
  AllocatedGlobalSlots = 2
  Operands <- MCOperands
  PrefixSizes = {0, 200, 65300}
  Main = "main"
  EntryFP = 128
  Inputs <- MCInputs
  MaxDepth = 9
INVARIANTS
  TypeOK
  NoFault
  TargetsAreDests
  Disciplined
PROPERTIES
  ImplementsProgram
  ImplementsFrames
CHECK_DEADLOCK FALSE
