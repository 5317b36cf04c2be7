SPECIFICATION SlotSpec
CONSTANTS
  Regs = {1, 2, 3, 4, 5}
INVARIANTS
  SlotTypeOK
  LiveOwnsItsSlot
  FrameCoversSlots
CHECK_DEADLOCK FALSE
