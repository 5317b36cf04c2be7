----------------------------- MODULE MemorySlots -----------------------------
(***************************************************************************)
(* The memory slots of one function along one path of blocks: registers    *)
(* that must live in memory get a slot at their definition, and at the     *)
(* start of a block the slots of registers with no use ahead are freed.    *)
(* Which registers die at a block start is left open.                      *)
(***************************************************************************)
EXTENDS MemorySlotOps

CONSTANTS Regs   \* the virtual registers of the function

ASSUME RegsAssumption == Regs \subseteq Nat \ {NoReg}

VARIABLES
  memoryAssignment,   \* slot -> register
  memoryFrameSize,    \* slots the function's frame reserves
  slotOf,             \* regAssignments: the slot each register was given
  live                \* the registers that own a slot and are not dead

slotVars == <<memoryAssignment, memoryFrameSize, slotOf, live>>

SlotInit ==
  /\ memoryAssignment = << >>
  /\ memoryFrameSize = 0
  /\ slotOf = [r \in {} |-> 0]
  /\ live = {}

(* handleDef, the "Everything else goes to memory" branch, for the one     *)
(* definition of reg.                                                      *)
DefToMemory(reg) ==
  /\ reg \notin DOMAIN slotOf
  /\ memoryAssignment' = AllocatedMem(memoryAssignment, reg)
  /\ memoryFrameSize' = AllocatedFrame(memoryAssignment, memoryFrameSize)
  /\ slotOf' = [r \in DOMAIN slotOf \cup {reg} |->
                  IF r = reg THEN AllocatedSlot(memoryAssignment) ELSE slotOf[r]]
  /\ live' = live \cup {reg}

(* One deallocateMemorySlot of beginOfBlockUpdates' loop: its occupant is  *)
(* found dead.                                                             *)
FreeSlot(reg) ==
  /\ reg \in Occupants(memoryAssignment)
  /\ memoryAssignment' = DeallocateMemorySlot(memoryAssignment, reg)
  /\ live' = live \ {reg}
  /\ UNCHANGED <<memoryFrameSize, slotOf>>

SlotNext == \E reg \in Regs : DefToMemory(reg) \/ FreeSlot(reg)

SlotSpec == SlotInit /\ [][SlotNext]_slotVars
-----------------------------------------------------------------------------
SlotTypeOK ==
  /\ memoryAssignment \in Seq(Regs \cup {NoReg})
  /\ memoryFrameSize \in Nat
  /\ slotOf \in [DOMAIN slotOf -> Nat]
  /\ DOMAIN slotOf \subseteq Regs
  /\ live \subseteq DOMAIN slotOf

(* A live register's loads and stores, which use the slot recorded at its  *)
(* definition, hit a slot that memoryAssignment still gives to it - so no  *)
(* two live registers share a slot, also when slots are freed and reused,  *)
(* when a register occupies two slots, and when the end is trimmed.        *)
LiveOwnsItsSlot ==
  \A r \in live : slotOf[r] + 1 \in DOMAIN memoryAssignment
                  /\ memoryAssignment[slotOf[r] + 1] = r

(* Every slot ever handed out lies inside the frame that a call sequence   *)
(* of the function skips (getNumAllocatedIndexInFunction), so a callee's   *)
(* frame starts above all of them.                                         *)
FrameCoversSlots ==
  /\ Len(memoryAssignment) <= memoryFrameSize
  /\ \A r \in DOMAIN slotOf : slotOf[r] < memoryFrameSize
=============================================================================
