---------------------------- MODULE MemorySlotOps ----------------------------
(***************************************************************************)
(* memoryAssignment of the stack allocator: element s+1 is the register    *)
(* that occupies memory slot s, NoReg ("here we let 0 represent an empty   *)
(* slot") marking an empty one.                                            *)
(***************************************************************************)
EXTENDS Naturals, Sequences

NoReg == 0

Occupants(mem) == { mem[i] : i \in DOMAIN mem } \ {NoReg}

IsFirst(mem, reg, i) ==
  /\ i \in DOMAIN mem
  /\ mem[i] = reg
  /\ \A j \in 1 .. (i - 1) : mem[j] # reg

FirstIndex(mem, reg) == CHOOSE i \in DOMAIN mem : IsFirst(mem, reg, i)

(* Write reg into the first empty slot, if there is one.                   *)
FillEmpty(mem, reg) ==
  IF \E i \in DOMAIN mem : mem[i] = NoReg
  THEN [mem EXCEPT ![FirstIndex(mem, NoReg)] = reg]
  ELSE mem

(* allocateMemorySlot remembers the slot it filled in a variable whose     *)
(* initial value 0 also means "none found": when slot 0 was empty it is    *)
(* filled AND a new slot is appended, and the new one is returned.         *)
FoundEmpty(mem) ==
  \E i \in DOMAIN mem : mem[i] = NoReg /\ FirstIndex(mem, NoReg) # 1

AllocatedMem(mem, reg) ==
  IF FoundEmpty(mem) THEN FillEmpty(mem, reg) ELSE Append(FillEmpty(mem, reg), reg)

(* Mutant: the index of an appended slot is computed as size() - 1, but    *)
(* before the slot is appended.                                            *)
SlotBeforeAppend(mem) ==
  IF FoundEmpty(mem) THEN FirstIndex(mem, NoReg) - 1 ELSE Len(mem) - 1

AllocatedSlot(mem) ==
  IF FoundEmpty(mem) THEN FirstIndex(mem, NoReg) - 1 ELSE Len(mem)

(* Mutant: the frame is raised to the last slot instead of past it.        *)
FrameToLastSlot(mem, frame) ==
  IF ~FoundEmpty(mem) /\ Len(mem) > frame THEN Len(mem) ELSE frame

(* The frame size is raised only where a slot is appended.                 *)
AllocatedFrame(mem, frame) ==
  IF ~FoundEmpty(mem) /\ Len(mem) + 1 > frame THEN Len(mem) + 1 ELSE frame

(* Drop the empty slots at the end.                                        *)
TrimmedLength(mem) ==
  CHOOSE n \in 0 .. Len(mem) :
    /\ n = 0 \/ mem[n] # NoReg
    /\ \A i \in (n + 1) .. Len(mem) : mem[i] = NoReg

Trim(mem) == SubSeq(mem, 1, TrimmedLength(mem))

(* Mutant: the element is erased, which moves the slots behind it.         *)
EraseSlot(mem, reg) ==
  LET i == FirstIndex(mem, reg)
  IN  SubSeq(mem, 1, i - 1) \o SubSeq(mem, i + 1, Len(mem))

(* Free the first slot that reg occupies; the code is unreachable when     *)
(* there is none.                                                          *)
DeallocateMemorySlot(mem, reg) ==
  Trim([mem EXCEPT ![FirstIndex(mem, reg)] = NoReg])

(* The loop at the end of beginOfBlockUpdates: for each position in turn,  *)
(* as long as it still exists, deallocate its occupant if that is dead.    *)
FreeDeadSlots(mem, dead) ==
  LET sweep[i \in 0 .. Len(mem)] ==
        IF i = 0 THEN mem
        ELSE LET m == sweep[i - 1]
             IN  IF i \in DOMAIN m /\ m[i] \in dead
                 THEN DeallocateMemorySlot(m, m[i])
                 ELSE m
  IN  sweep[Len(mem)]
=============================================================================
