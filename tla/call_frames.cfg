SPECIFICATION Spec
CONSTANTS
  Funcs <- MCFuncs
  Main = "main"
  memoryFrameSize <- FrameSizes
  StackObjects <- ObjectWords
  GlobalSlots <- TwoGlobals
  EntryFP = 128
  Vals = {7}
  MaxDepth = 3
INVARIANTS
  TypeOK
  FramePointerRestored
  FramesDisjoint
  SavedPointersIntact
PROPERTIES
  ImplementsActivations
