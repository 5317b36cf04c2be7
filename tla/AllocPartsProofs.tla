----------------------------- MODULE AllocPartsProofs -----------------------
(***************************************************************************)
(* Two parts of the stack allocator by themselves.  The memory-slot        *)
(* bookkeeping is right for every set of registers and any number of       *)
(* allocations and deallocations; the operand handlers arrange and clean   *)
(* up right for stacks of any depth and any number of operands, outside    *)
(* the operand patterns that OperandOrder names.                           *)
(***************************************************************************)
EXTENDS MemorySlots, OperandOrder, AllocOpsProofs, FiniteSetTheorems, TLAPS

(* The three invariants together are inductive.                            *)
SlotInv == SlotTypeOK /\ LiveOwnsItsSlot /\ FrameCoversSlots

(* An empty slot table (a pass that has just been initialised) is correct. *)
LEMMA SlotInitInv == SlotInit => SlotInv
<1> SUFFICES ASSUME SlotInit PROVE SlotInv
  OBVIOUS
<1>1. SlotTypeOK
  BY EmptySeq DEF SlotInit, SlotTypeOK
<1>2. LiveOwnsItsSlot
  BY DEF SlotInit, LiveOwnsItsSlot
<1>3. FrameCoversSlots
  BY EmptySeq DEF SlotInit, FrameCoversSlots
<1> QED BY <1>1, <1>2, <1>3 DEF SlotInv

(* handleDef's "Everything else goes to memory" branch keeps the slot      *)
(* table correct.                                                          *)
LEMMA DefToMemoryInv ==
  ASSUME SlotInv, NEW reg \in Regs, DefToMemory(reg)
  PROVE  SlotInv'
<1> DEFINE S == Regs \cup {NoReg}
           slot == AllocatedSlot(memoryAssignment)
<1>1. /\ memoryAssignment' \in Seq(S)
      /\ slot \in Nat /\ memoryFrameSize' \in Nat
      /\ slot + 1 \in DOMAIN memoryAssignment'
      /\ memoryAssignment'[slot + 1] = reg
      /\ \A i \in DOMAIN memoryAssignment :
           memoryAssignment[i] # NoReg =>
             /\ i \in DOMAIN memoryAssignment'
             /\ memoryAssignment'[i] = memoryAssignment[i]
      /\ Len(memoryAssignment') <= memoryFrameSize'
      /\ slot < memoryFrameSize' /\ memoryFrameSize <= memoryFrameSize'
  <2>1. /\ memoryAssignment \in Seq(S) /\ memoryFrameSize \in Nat
        /\ Len(memoryAssignment) <= memoryFrameSize
        /\ NoReg \in S /\ reg \in S
    BY DEF SlotInv, SlotTypeOK, FrameCoversSlots
  <2>2. /\ memoryAssignment' = AllocatedMem(memoryAssignment, reg)
        /\ memoryFrameSize' = AllocatedFrame(memoryAssignment, memoryFrameSize)
    BY DEF DefToMemory
  <2> HIDE DEF S
  <2> QED BY <2>1, <2>2, AllocateProperties DEF GivesSlot, KeepsSlots
<1> HIDE DEF slot
<1>2. /\ DOMAIN slotOf' = DOMAIN slotOf \cup {reg}
      /\ slotOf'[reg] = slot
      /\ \A r \in DOMAIN slotOf : slotOf'[r] = slotOf[r]
      /\ reg \notin DOMAIN slotOf
      /\ slotOf' \in [DOMAIN slotOf \cup {reg} -> Nat]
  BY <1>1 DEF SlotInv, SlotTypeOK, DefToMemory, slot
<1>3. SlotTypeOK'
  <2>1. live' \subseteq DOMAIN slotOf' /\ DOMAIN slotOf' \subseteq Regs
    BY <1>2 DEF SlotInv, SlotTypeOK, DefToMemory
  <2> QED BY <1>1, <1>2, <2>1 DEF SlotTypeOK
<1>4. LiveOwnsItsSlot'
  <2> SUFFICES ASSUME NEW r \in live'
               PROVE  /\ slotOf'[r] + 1 \in DOMAIN memoryAssignment'
                      /\ memoryAssignment'[slotOf'[r] + 1] = r
    BY DEF LiveOwnsItsSlot
  <2>1. CASE r = reg
    BY <2>1, <1>1, <1>2
  <2>2. CASE r \in live /\ r # reg
    <3>1. /\ slotOf[r] + 1 \in DOMAIN memoryAssignment
          /\ memoryAssignment[slotOf[r] + 1] = r
      BY <2>2 DEF SlotInv, LiveOwnsItsSlot
    <3>2. r # NoReg /\ slotOf'[r] = slotOf[r]
      BY <2>2, <1>2, RegsAssumption DEF SlotInv, SlotTypeOK
    <3> QED BY <3>1, <3>2, <1>1
  <2> QED BY <2>1, <2>2 DEF DefToMemory
<1>5. FrameCoversSlots'
  <2> SUFFICES ASSUME NEW r \in DOMAIN slotOf' PROVE slotOf'[r] < memoryFrameSize'
    BY <1>1 DEF FrameCoversSlots
  <2>1. CASE r = reg
    BY <2>1, <1>1, <1>2
  <2>2. CASE r \in DOMAIN slotOf
    <3>1. slotOf[r] < memoryFrameSize /\ slotOf[r] \in Nat /\ memoryFrameSize \in Nat
      BY <2>2 DEF SlotInv, SlotTypeOK, FrameCoversSlots
    <3> QED BY <3>1, <2>2, <1>1, <1>2
  <2> QED BY <2>1, <2>2, <1>2
<1> QED BY <1>3, <1>4, <1>5 DEF SlotInv

(* A deallocateMemorySlot call of beginOfBlockUpdates keeps the slot table *)
(* correct.                                                                *)
LEMMA FreeSlotInv ==
  ASSUME SlotInv, NEW reg \in Regs, FreeSlot(reg)
  PROVE  SlotInv'
<1> DEFINE S == Regs \cup {NoReg}
<1>1. /\ memoryAssignment' \in Seq(S)
      /\ Len(memoryAssignment') <= Len(memoryAssignment)
      /\ \A i \in DOMAIN memoryAssignment :
           (memoryAssignment[i] # reg /\ memoryAssignment[i] # NoReg) =>
             /\ i \in DOMAIN memoryAssignment'
             /\ memoryAssignment'[i] = memoryAssignment[i]
  <2>1. /\ memoryAssignment \in Seq(S)
        /\ NoReg \in S
        /\ \E i \in DOMAIN memoryAssignment : memoryAssignment[i] = reg
    BY DEF SlotInv, SlotTypeOK, FreeSlot, Occupants
  <2>2. memoryAssignment' = DeallocateMemorySlot(memoryAssignment, reg)
    BY DEF FreeSlot
  <2> HIDE DEF S
  <2> QED BY <2>1, <2>2, DeallocateProperties
<1>2. SlotTypeOK'
  BY <1>1 DEF SlotInv, SlotTypeOK, FreeSlot
<1>3. LiveOwnsItsSlot'
  <2> SUFFICES ASSUME NEW r \in live, r # reg
               PROVE  /\ slotOf[r] + 1 \in DOMAIN memoryAssignment'
                      /\ memoryAssignment'[slotOf[r] + 1] = r
    BY DEF LiveOwnsItsSlot, FreeSlot
  <2>1. /\ slotOf[r] + 1 \in DOMAIN memoryAssignment
        /\ memoryAssignment[slotOf[r] + 1] = r
    BY DEF SlotInv, LiveOwnsItsSlot
  <2>2. r # NoReg
    BY RegsAssumption DEF SlotInv, SlotTypeOK
  <2> QED BY <2>1, <2>2, <1>1
<1>4. FrameCoversSlots'
  <2>1. /\ Len(memoryAssignment) \in Nat /\ Len(memoryAssignment') \in Nat
        /\ memoryFrameSize \in Nat
    BY <1>1, LenProperties DEF SlotInv, SlotTypeOK
  <2> QED BY <1>1, <2>1 DEF SlotInv, FrameCoversSlots, FreeSlot
<1> QED BY <1>2, <1>3, <1>4 DEF SlotInv

(* Both operations of the slot table keep the invariant, so it holds after *)
(* any sequence of allocateMemorySlot and deallocateMemorySlot calls.      *)
THEOREM SlotInvariant == SlotSpec => []SlotInv
<1>1. SlotInv /\ [SlotNext]_slotVars => SlotInv'
  <2> SUFFICES ASSUME SlotInv, [SlotNext]_slotVars PROVE SlotInv'
    OBVIOUS
  <2>1. CASE SlotNext
    BY <2>1, DefToMemoryInv, FreeSlotInv DEF SlotNext
  <2>2. CASE UNCHANGED slotVars
    BY <2>2 DEF slotVars, SlotInv, SlotTypeOK, LiveOwnsItsSlot, FrameCoversSlots
  <2> QED BY <2>1, <2>2
<1> QED BY <1>1, SlotInitInv, PTL DEF SlotSpec

(* The state of the slot table stays well typed.                           *)
THEOREM SlotTypes == SlotSpec => []SlotTypeOK
<1>1. SlotInv => SlotTypeOK
  BY DEF SlotInv
<1> QED BY <1>1, SlotInvariant, PTL

(* allocateMemorySlot never hands out the slot of a live register and      *)
(* deallocateMemorySlot never takes one away, for any set of registers.    *)
THEOREM LiveRegistersOwnTheirSlots == SlotSpec => []LiveOwnsItsSlot
<1>1. SlotInv => LiveOwnsItsSlot
  BY DEF SlotInv
<1> QED BY <1>1, SlotInvariant, PTL

(* The frame size that allocateMemorySlot records covers every slot it     *)
(* ever returned, in spite of the slot that is appended needlessly.        *)
THEOREM FrameCoversEverySlot == SlotSpec => []FrameCoversSlots
<1>1. SlotInv => FrameCoversSlots
  BY DEF SlotInv
<1> QED BY <1>1, SlotInvariant, PTL
-----------------------------------------------------------------------------
(* The stack 1, 2, ..., d that the instruction meets.                      *)
Opening(g, d) == Fine(g, d) /\ \A i \in 1 .. d : g.stack[i] = i

(* TwoInPlace as an operator of the operands and the depth.                *)
InPlaceAt(us, d) ==
  /\ Len(us) = 2
  /\ ~us[1].isMemUse /\ ~us[2].isMemUse /\ us[1].isLastUse /\ ~us[2].isLastUse
  /\ us[2].reg = d - 1 /\ us[1].reg # d

LEMMA ConsumeOpening ==
  ASSUME NEW d \in Nat, NEW g, Opening(g, d), NEW us, OperandsOf(us, 1 .. d)
  PROVE  Consumed(ConsumeOperands(g, us), us, 1 .. d, InPlaceAt(us, d))
<1>1. Fine(g, d) /\ Distinct(g.stack, d, 1 .. d)
  BY DEF Opening, Distinct
<1>2. ASSUME InPlace(us, g.stack, d) PROVE InPlaceAt(us, d)
  <2>0. Len(us) = 2 /\ 1 \in 1 .. Len(us) /\ 2 \in 1 .. Len(us)
    BY <1>2 DEF InPlace
  <2>1. us[1].reg \in 1 .. d /\ us[2].reg \in 1 .. d
    BY <1>2, <2>0 DEF InPlace, OperandsOf, UseOf
  <2>2. us[1].reg # us[2].reg
    BY <1>2, <2>0 DEF InPlace, OperandsOf
  <2>3. d \in 1 .. d /\ d - 1 \in 1 .. d
    BY <2>1, <2>2
  <2>4. us[2].reg = d - 1 /\ us[1].reg # d
    BY <1>2, <2>3 DEF Opening, InPlace
  <2> QED BY <1>2, <2>4 DEF InPlace, InPlaceAt
<1>3. InPlaceAt(us, d) \in BOOLEAN
  BY DEF InPlaceAt
<1> QED BY <1>1, <1>2, <1>3, ConsumeRight

LEMMA ListsAreOperands ==
  ASSUME NEW d \in Nat, NEW us \in OperandLists(d)
  PROVE  OperandsOf(us, 1 .. d)
<1> DEFINE regs == 1 .. (d + MemRegs)
           L(k, dying) == { [i \in 1 .. k |-> RegUse(d, rs[i], rs[i] \in dying)] :
                              rs \in [1 .. k -> regs] }
<1>1. MemRegs \in Nat /\ MaxUses \in Nat
  BY OperandBounds
<1>2. us \in UNION { UNION { L(k, dying) : dying \in SUBSET regs } : k \in 0 .. MaxUses }
  BY Zenon DEF OperandLists
<1> HIDE DEF L
<1>3. PICK k \in 0 .. MaxUses : us \in UNION { L(k, dying) : dying \in SUBSET regs }
  BY <1>2, Zenon
<1>4. PICK dying \in SUBSET regs : us \in L(k, dying)
  BY <1>3, Zenon
<1>5. PICK rs \in [1 .. k -> regs] :
        us = [i \in 1 .. k |-> RegUse(d, rs[i], rs[i] \in dying)]
  BY <1>4 DEF L
<1>6. k \in Nat /\ \A i \in 1 .. k : rs[i] \in 1 .. (d + MemRegs)
  BY <1>1, <1>5
<1>7. DOMAIN us = 1 .. k /\ Len(us) = k
  BY <1>5, <1>6
<1>8. ASSUME NEW i \in 1 .. k
      PROVE  /\ us[i].reg = rs[i] /\ us[i].isMemUse = (rs[i] > d)
             /\ us[i].isLastUse = (rs[i] \in dying)
  <2>1. us[i] = RegUse(d, rs[i], rs[i] \in dying)
    BY <1>5
  <2> QED BY <2>1 DEF RegUse
<1>9. ASSUME NEW i \in 1 .. k PROVE UseOf(us[i], 1 .. d)
  <2>1. rs[i] \in Nat /\ (rs[i] > d <=> rs[i] \notin 1 .. d)
    BY <1>1, <1>6
  <2>2. us[i].reg \in Nat /\ (us[i].isMemUse <=> us[i].reg \notin 1 .. d)
    BY <1>8, <2>1, Zenon
  <2>3. (rs[i] > d) \in BOOLEAN /\ (rs[i] \in dying) \in BOOLEAN
    OBVIOUS
  <2>4. us[i].isMemUse \in BOOLEAN /\ us[i].isLastUse \in BOOLEAN
    BY <1>8, <2>3, Zenon
  <2> QED BY <2>2, <2>4, Zenon DEF UseOf
<1>10. ASSUME NEW i \in 1 .. k, NEW j \in 1 .. k, us[i].reg = us[j].reg
      PROVE  us[i].isLastUse = us[j].isLastUse
  <2>1. rs[i] = rs[j]
    BY <1>8, <1>10, Zenon
  <2> QED BY <1>8, <2>1, Zenon
<1> QED BY <1>6, <1>7, <1>9, <1>10, Zenon DEF OperandsOf

(* The inductive invariant.                                                *)
Inv ==
  /\ depth \in Nat /\ OperandsOf(uses, 1 .. depth)
  /\ phase \in {"uses", "clean", "done"}
  /\ phase = "uses" => Opening(gen, depth)
  /\ phase = "clean" => Consumed(gen, uses, 1 .. depth, InPlaceAt(uses, depth))
  /\ phase = "done" => Cleaned(gen, uses, 1 .. depth, InPlaceAt(uses, depth))

LEMMA InitInv == Init => Inv
<1> SUFFICES ASSUME Init PROVE Inv
  OBVIOUS
<1>1. depth \in Nat /\ phase = "uses"
  BY OperandBounds DEF Init
<1>2. OperandsOf(uses, 1 .. depth)
  BY <1>1, ListsAreOperands DEF Init
<1>3. Opening(gen, depth)
  <2>1. PICK st : st = [i \in 1 .. depth |-> i]
    OBVIOUS
  <2>2. st \in Seq(Nat) /\ Len(st) = depth /\ \A i \in 1 .. depth : st[i] = i
    BY <1>1, <2>1
  <2>3. gen = [stack |-> st, code |-> << >>, error |-> NoError]
    BY <2>1 DEF Init, Gen
  <2>4. DOMAIN gen = {"stack", "code", "error"} /\ gen.stack = st /\ gen.error = NoError
    BY <2>3
  <2> QED BY <1>1, <2>2, <2>4 DEF Opening, Fine, IsStack
<1> QED BY <1>1, <1>2, <1>3 DEF Inv

LEMMA NextInv == Inv /\ [Next]_vars => Inv'
<1> SUFFICES ASSUME Inv, [Next]_vars PROVE Inv'
  OBVIOUS
<1>1. CASE HandleUses
  <2>1. /\ depth' = depth /\ uses' = uses /\ phase' = "clean"
        /\ gen' = ConsumeOperands(gen, uses) /\ Opening(gen, depth)
    BY <1>1 DEF HandleUses, Inv
  <2>2. Consumed(gen', uses', 1 .. depth', InPlaceAt(uses', depth'))
    BY <2>1, ConsumeOpening DEF Inv
  <2> QED BY <2>1, <2>2 DEF Inv, OperandsOf, InPlaceAt
<1>2. CASE CleanUpDeadRegisters
  <2>1. /\ depth' = depth /\ uses' = uses /\ phase' = "done"
        /\ gen' = CleanUp(gen, uses) /\ Consumed(gen, uses, 1 .. depth, InPlaceAt(uses, depth)) /\ gen.error = NoError
    BY <1>2 DEF CleanUpDeadRegisters, Inv
  <2>2. Cleaned(gen', uses', 1 .. depth', InPlaceAt(uses', depth'))
    BY <2>1, CleanRight DEF Inv
  <2> QED BY <2>1, <2>2 DEF Inv, OperandsOf, InPlaceAt
<1>3. CASE UNCHANGED vars
  BY <1>3 DEF vars, Inv, OperandsOf, Opening, Consumed, Cleaned, InPlaceAt
<1> QED BY <1>1, <1>2, <1>3 DEF Next

LEMMA Invariance == Spec => []Inv
  BY InitInv, NextInv, PTL DEF Spec

LEMMA InvInOrder == Inv => OperandsInOrder
<1> SUFFICES ASSUME Inv, gen.error # NoError
             PROVE  TwoInPlace \/ RepeatedDying \/ DyingInMemory
  BY DEF OperandsInOrder
<1>1. DOMAIN uses = 1 .. Len(uses)
  BY DEF Inv, OperandsOf
<1>2. InPlaceAt(uses, depth) \/ Repeated(uses) \/ DyingInMem(uses)
  BY DEF Inv, Opening, Fine, Consumed, Cleaned
<1> QED BY <1>1, <1>2, Zenon DEF InPlaceAt, Repeated, DyingInMem, TwoInPlace, RepeatedDying, DyingInMemory

LEMMA CountDistinct ==
  ASSUME NEW st, NEW m, IsStack(st, m), NEW E, Distinct(st, m, E)
  PROVE  Cardinality(E) = m /\ { st[i] : i \in DOMAIN st } = E
<1>1. m \in Nat /\ DOMAIN st = 1 .. m
  BY DEF IsStack
<1>2. { st[i] : i \in DOMAIN st } = E
  BY <1>1 DEF Distinct
<1>3. st \in [1 .. m -> E]
  BY <1>1 DEF Distinct, IsStack
<1>4. st \in Bijection(1 .. m, E)
  BY <1>1, <1>3 DEF Distinct, Bijection, Injection, Surjection, IsInjective
<1>5. ExistsBijection(1 .. m, E)
  BY <1>4 DEF ExistsBijection
<1>6. IsFiniteSet(1 .. m) /\ Cardinality(1 .. m) = m
  BY <1>1, FS_Interval
<1> QED BY <1>2, <1>5, <1>6, FS_Bijection

LEMMA InvSurvivors == Inv => OnlySurvivorsRemain
<1> SUFFICES ASSUME Inv, phase = "done", gen.error = NoError, ~TwoInPlace
             PROVE  StackRegs = Survivors /\ Len(gen.stack) = Cardinality(Survivors)
  BY DEF OnlySurvivorsRemain
<1>1. DOMAIN uses = 1 .. Len(uses)
  BY DEF Inv, OperandsOf
<1>2. ~InPlaceAt(uses, depth)
  BY DEF InPlaceAt, TwoInPlace
<1>3. Survivors = (1 .. depth) \ DeadIn(uses, Len(uses))
  BY <1>1, Zenon DEF Survivors, Dying, DeadIn
<1>4. PICK m \in Nat : Fine(gen, m) /\ Distinct(gen.stack, m, Survivors)
  BY <1>2, <1>3 DEF Inv, Cleaned, Holds
<1>5. Cardinality(Survivors) = m /\ StackRegs = Survivors /\ Len(gen.stack) = m
  BY <1>4, CountDistinct DEF Fine, IsStack, StackRegs
<1> QED BY <1>5

(* For stacks of any depth and instructions with any number of operands,   *)
(* outside the three operand patterns the handlers of EVMStackAlloc never  *)
(* reach an assertion: each popped element is the operand it must be.      *)
THEOREM OperandsAlwaysInOrder == Spec => []OperandsInOrder
  BY Invariance, InvInOrder, PTL

(* An instruction that comes through leaves exactly the registers that are *)
(* still needed on the stack, each once: SWAP at a last use, DUP elsewhere *)
(* and cleanUpDeadRegisters together neither lose nor leak an element.     *)
THEOREM SurvivorsExact == Spec => []OnlySurvivorsRemain
  BY Invariance, InvSurvivors, PTL
=============================================================================
