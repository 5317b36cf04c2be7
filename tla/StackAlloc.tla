----------------------------- MODULE StackAlloc -----------------------------
(***************************************************************************)
(* EVMStackAlloc, the pass that turns a machine function over virtual      *)
(* registers into stack code.  It walks the blocks in layout order and     *)
(* every block's instructions in order, simulating the machine stack       *)
(* symbolically: a register that lives within one block is kept on the     *)
(* stack (L_STACK), any other one in a memory slot (NONSTACK).  (X_STACK,  *)
(* registers carried between blocks on the stack, is switched off in the   *)
(* source by "false &&".)  The memory layout at the end of a block is      *)
(* remembered for the edge set of its out-edges and taken up again at the  *)
(* start of the blocks these lead to.                                      *)
(*                                                                         *)
(* Beyond IsCFG a machine function has                                     *)
(*   args  the registers of its pSTACKARG instructions, the last one on    *)
(*         top of the stack at entry;                                      *)
(*   code  per block, the other instructions: records with the register    *)
(*         defined (NoReg if none) and the sequence of registers used.     *)
(***************************************************************************)
EXTENDS EdgeSets, OperandOps, MemorySlotOps, FiniteSets

CONSTANTS
  MaxFunctions,   \* how many functions the pass object compiles
  FollowUps       \* the functions that may come after another one

VARIABLES
  blk, idx,             \* the block and instruction being analysed
  phase,                \* where analyzeBasicBlock is
  stack,                \* the symbolic stack
  regAssignments,       \* register -> [region, slot]
  memoryAssignment,     \* slot -> register
  memoryFrameSize,
  edgeset2assignment,   \* edge set -> memory layout (its stack part is empty)
  out,                  \* block -> code emitted for it
  defOps,               \* what handleDef inserted right after the instruction
  error,                \* the failed assertion or llvm_unreachable
  compiled,             \* functions compiled so far, this one included
  hazards               \* history: unsupported situations met in this function

allocVars == <<blk, idx, phase, stack, regAssignments, memoryAssignment,
               memoryFrameSize, edgeset2assignment, out, defOps, error,
               compiled, hazards>>
vars == <<edgeVars, allocVars>>

-----------------------------------------------------------------------------
(* What MachineRegisterInfo and LiveIntervals answer.  Instruction k of    *)
(* block b is at <<b, 2k>>, a store inserted right after it at <<b, 2k+1>>.*)

Before(p, q) == p[1] < q[1] \/ (p[1] = q[1] /\ p[2] < q[2])

Sites(f) == UNION { { <<b, 2 * k>> : k \in DOMAIN f.code[b] } : b \in Block(f) }
InstrAt(f, p) == f.code[p[1]][p[2] \div 2]

UseSites(f, reg) == { p \in Sites(f) : reg \in Elems(InstrAt(f, p).uses) }

DefSites(f, reg) ==
  { p \in Sites(f) : InstrAt(f, p).def = reg }
    \cup (IF reg \in Elems(f.args) THEN {<<1, 0>>} ELSE {})

HasOneDef(f, reg) == Cardinality(DefSites(f, reg)) = 1

VRegs(f) == (Elems(f.args) \cup { InstrAt(f, p).def : p \in Sites(f) }) \ {NoReg}

(* Mutant: the block of the uses is not compared.                          *)
DefComesFirst(f, reg, d) == \A u \in UseSites(f, reg) : Before(d, u)

(* The live interval of reg is one segment (so there is no definition but  *)
(* the one at site d) inside the block of that definition.                 *)
DefIsLocal(f, reg, d) ==
  /\ DefSites(f, reg) = {d}
  /\ \A u \in UseSites(f, reg) : u[1] = d[1] /\ Before(d, u)

(* What the pass may assume: the entry block has no predecessor, every     *)
(* argument has a register of its own and a use (EVMArgumentMove gives the *)
(* others a POP_r), and a register that is used is defined, in the entry   *)
(* block before the use.                                                   *)
IsMachineFunction(f) ==
  /\ f.args \in Seq(Nat \ {NoReg})
  /\ \A i, j \in DOMAIN f.args : f.args[i] = f.args[j] => i = j
  /\ f.code \in [Block(f) -> Seq([def : Nat, uses : Seq(Nat \ {NoReg})])]
  /\ f.preds[1] = << >>
  /\ \A reg \in Elems(f.args) : UseSites(f, reg) # {}
  /\ f.args # << >> => f.code[1] # << >>
  /\ \A u \in Sites(f) : \A reg \in Elems(InstrAt(f, u).uses) :
       \E d \in DefSites(f, reg) : u[1] = 1 => Before(d, u)

ASSUME MachineFunctions ==
  \A f \in Functions \cup FollowUps : IsMachineFunction(f) /\ IsCFG(f)

Here == <<blk, 2 * idx>>

(* A pPUTLOCAL_r is a use of the register it stores, from the moment       *)
(* handleDef or tryToAnalyzeStackArgs inserts it.                          *)
StoreSites(reg) ==
  IF reg \in DOMAIN regAssignments /\ regAssignments[reg].region = "NONSTACK"
  THEN { <<d[1], d[2] + 1>> :
           d \in { s \in DefSites(fn, reg) :
                     Before(s, Here) \/ (s = Here /\ phase = "clean") } }
  ELSE {}

AllUses(reg) == UseSites(fn, reg) \cup StoreSites(reg)

(* regIsLastUse: no use later in LAYOUT order, to the end of the function. *)
RegIsLastUse(reg) == \A u \in AllUses(reg) : ~Before(Here, u)

(* Mutant: the successors are not asked.                                   *)
UnusedInMBB(reg) == \A u \in AllUses(reg) : u[1] # blk

(* regIsDeadAtBeginningOfMBB: no use in the block and none from the start  *)
(* of a successor on, again in layout order.                               *)
RegIsDeadAtBeginningOfMBB(reg) ==
  \A u \in AllUses(reg) :
    /\ u[1] # blk
    /\ \A s \in Elems(fn.succs[blk]) : u[1] < s

-----------------------------------------------------------------------------
(* What the registers really need: reg is live at the start of block b iff *)
(* some path from there reaches a use with no definition before it.        *)

Exposed(f, reg, b) ==
  \E u \in UseSites(f, reg) :
    u[1] = b /\ \A d \in DefSites(f, reg) : d[1] = b => ~Before(d, u)

LiveInBlocks(f, reg) ==
  LET defBlocks == { d[1] : d \in DefSites(f, reg) }
      reach[k \in 0 .. f.n] ==
        IF k = 0 THEN { b \in Block(f) : Exposed(f, reg, b) }
        ELSE LET prev == reach[k - 1]
             IN  prev \cup { b \in Block(f) \ defBlocks :
                               Elems(f.succs[b]) \cap prev # {} }
  IN  reach[f.n]

LiveIn(reg) == blk \in LiveInBlocks(fn, reg)

-----------------------------------------------------------------------------
Region == {"L_STACK", "NONSTACK", "NO_ALLOCATION"}

(* Mutant: operator[] instead of insert, so the latest assignment wins.    *)
AssignLatest(map, reg, region, slot) ==
  [r \in DOMAIN map \cup {reg} |->
     IF r = reg THEN [region |-> region, slot |-> slot] ELSE map[r]]

(* DenseMap::insert: an existing assignment is kept.                       *)
Assign(map, reg, region, slot) ==
  [r \in DOMAIN map \cup {reg} |->
     IF r \in DOMAIN map THEN map[r] ELSE [region |-> region, slot |-> slot]]

NoAssignments == [r \in {} |-> [region |-> "L_STACK", slot |-> 0]]

FreshCode(f) == [b \in Block(f) |-> << >>]
FreshLayouts == [e \in {} |-> << >>]

Init ==
  /\ EdgeInit
  /\ blk = 1 /\ idx = 1 /\ phase = "begin"
  /\ stack = << >>
  /\ regAssignments = NoAssignments
  /\ memoryAssignment = << >>
  /\ memoryFrameSize = 0
  /\ edgeset2assignment = FreshLayouts
  /\ out = FreshCode(fn)
  /\ defOps = << >>
  /\ error = NoError
  /\ compiled = 1
  /\ hazards = {}

(* computeEdgeSets comes before the first block is analysed.               *)
ComputeEdgeSets == EdgeNext /\ UNCHANGED allocVars

Running(p) == side = "computed" /\ error = NoError /\ phase = p

(* Mutant: the walk does not stop at the last block.                       *)
NextBlockPastEnd ==
  /\ blk' = blk + 1
  /\ phase' = IF blk <= fn.n THEN "begin" ELSE "done"
  /\ idx' = 1

NextBlock ==
  /\ blk' = IF blk < fn.n THEN blk + 1 ELSE blk
  /\ phase' = IF blk < fn.n THEN "begin" ELSE "done"
  /\ idx' = 1

EnterBlock == phase' = "uses" /\ idx' = 1 /\ blk' = blk

-----------------------------------------------------------------------------
(* analyzeBasicBlock returns at once for an empty block: no layout is      *)
(* taken up and none is stored.                                            *)
IsEmptyBlock == fn.code[blk] = << >>

SkipEmptyBlock ==
  /\ Running("begin")
  /\ IsEmptyBlock
  /\ NextBlock
  /\ UNCHANGED <<edgeVars, stack, regAssignments, memoryAssignment,
                 memoryFrameSize, edgeset2assignment, out, defOps, error,
                 compiled, hazards>>

(* tryToAnalyzeStackArgs, from the top argument down: a local one stays on *)
(* the stack, any other is swapped to the top, stored and popped.  (Its    *)
(* branch for unused arguments is never taken: EVMArgumentMove gives every *)
(* unused argument a POP_r use.)                                           *)
StackArgs ==
  LET n == Len(fn.args)
      take[k \in 0 .. n] ==
        IF k = 0
        THEN [g |-> Gen(fn.args), mem |-> memoryAssignment,
              frame |-> memoryFrameSize, map |-> regAssignments]
        ELSE LET t   == take[k - 1]
                 reg == fn.args[n + 1 - k]
                 top == SwapRegToTop(t.g, reg)
                 slot == AllocatedSlot(t.mem)
             IN  IF DefIsLocal(fn, reg, <<1, 0>>)
                 THEN [t EXCEPT !.map = Assign(@, reg, "L_STACK", 0)]
                 ELSE [g |-> Insert(top, Op("PUTLOCAL", slot), Pop(top.stack)),
                       mem |-> AllocatedMem(t.mem, reg),
                       frame |-> AllocatedFrame(t.mem, t.frame),
                       map |-> Assign(t.map, reg, "NONSTACK", slot)]
  IN  take[n]

BeginEntryBlock ==
  /\ Running("begin")
  /\ blk = 1
  /\ ~IsEmptyBlock
  /\ LET a == StackArgs
     IN  /\ stack' = a.g.stack
         /\ out' = [out EXCEPT ![1] = a.g.code]
         /\ memoryAssignment' = a.mem
         /\ memoryFrameSize' = a.frame
         /\ regAssignments' = a.map
         /\ error' = a.g.error
  /\ EnterBlock
  /\ UNCHANGED <<edgeVars, edgeset2assignment, defOps, compiled, hazards>>

(* edgeset2assignment[...] of a set without an entry is an empty layout.   *)
StoredLayout(set) ==
  IF set \in DOMAIN edgeset2assignment THEN edgeset2assignment[set] ELSE << >>

(* beginOfBlockUpdates: without predecessors nothing is changed.           *)
LayoutAtBegin ==
  IF fn.preds[blk] = << >> THEN memoryAssignment
  ELSE LET mem == StoredLayout(GetEdgeSetIndex(<<fn.preds[blk][1], blk>>))
       IN  FreeDeadSlots(mem, { r \in Occupants(mem) : RegIsDeadAtBeginningOfMBB(r) })

HasSlot(mem, reg) ==
  LET s == regAssignments[reg].slot
  IN  s + 1 \in DOMAIN mem /\ mem[s + 1] = reg

InMemory(reg) ==
  reg \in DOMAIN regAssignments /\ regAssignments[reg].region = "NONSTACK"

(* History: a register live here was not given its slot back, or its       *)
(* definition comes later in layout order.                                 *)
LayoutHazards(mem) ==
  { h \in {"lostSlot", "definedLater"} :
      \E r \in VRegs(fn) :
        /\ LiveIn(r)
        /\ CASE h = "lostSlot" -> InMemory(r) /\ ~HasSlot(mem, r)
             [] h = "definedLater" -> r \notin DOMAIN regAssignments }

BeginBlock ==
  /\ Running("begin")
  /\ blk # 1
  /\ ~IsEmptyBlock
  /\ stack' = << >>
  /\ memoryAssignment' = LayoutAtBegin
  /\ hazards' = hazards \cup LayoutHazards(LayoutAtBegin)
  /\ EnterBlock
  /\ UNCHANGED <<edgeVars, regAssignments, memoryFrameSize, edgeset2assignment,
                 out, defOps, error, compiled>>

-----------------------------------------------------------------------------
Instr == fn.code[blk][idx]

(* calculateUseRegs.                                                       *)
UseTypes ==
  [i \in DOMAIN Instr.uses |->
     LET reg == Instr.uses[i]
     IN  [reg |-> reg, isLastUse |-> RegIsLastUse(reg),
          isMemUse |-> regAssignments[reg].region = "NONSTACK",
          slot |-> regAssignments[reg].slot]]

UseError ==
  LET regs == Elems(Instr.uses)
  IN  CASE \E r \in regs : r \notin DOMAIN regAssignments -> "no assignment"
        [] \E r \in regs : regAssignments[r].region = "NO_ALLOCATION" ->
             "Cannot see unused register use."
        [] \E r \in regs : ~InMemory(r) /\ ~IsOnStack(stack, r) ->
             "Cannot find register on stack"
        [] OTHER -> NoError

(* History: the operand patterns handleUses and cleanUpDeadRegisters do    *)
(* not cope with.                                                          *)
OperandHazards(uses) ==
  { h \in {"twoInPlace", "repeatedDying", "dyingInMemory"} :
      CASE h = "twoInPlace" ->
             /\ Len(uses) = 2
             /\ \A i \in 1 .. 2 : ~uses[i].isMemUse
             /\ uses[1].isLastUse /\ ~uses[2].isLastUse
             /\ FindRegDepth(stack, uses[1].reg) # 0
             /\ FindRegDepth(stack, uses[2].reg) = 1
        [] h = "repeatedDying" ->
             \E i, j \in DOMAIN uses :
               /\ i # j
               /\ uses[i].reg = uses[j].reg
               /\ uses[i].isLastUse /\ ~uses[i].isMemUse
        [] h = "dyingInMemory" ->
             /\ Len(uses) > 2
             /\ \E i \in DOMAIN uses : uses[i].isLastUse /\ uses[i].isMemUse }

HandleUses ==
  /\ Running("uses")
  /\ UseError = NoError
  /\ LET g == ConsumeOperands(Gen(stack), UseTypes)
     IN  /\ stack' = g.stack
         /\ out' = [out EXCEPT ![blk] = @ \o g.code \o <<Op("MI", idx)>>]
         /\ error' = g.error
  /\ hazards' = hazards \cup OperandHazards(UseTypes)
  /\ phase' = "def"
  /\ UNCHANGED <<edgeVars, blk, idx, regAssignments, memoryAssignment,
                 memoryFrameSize, edgeset2assignment, defOps, compiled>>

BadUse ==
  /\ Running("uses") \/ (Running("clean") /\ Len(Instr.uses) > 2)
  /\ UseError # NoError
  /\ error' = UseError
  /\ UNCHANGED <<edgeVars, blk, idx, phase, stack, regAssignments,
                 memoryAssignment, memoryFrameSize, edgeset2assignment, out,
                 defOps, compiled, hazards>>

-----------------------------------------------------------------------------
(* handleDef, one action per branch.                                       *)

Unused(reg) == UseSites(fn, reg) = {}

DefNothing ==
  /\ Running("def")
  /\ Instr.def = NoReg
  /\ phase' = "clean"
  /\ UNCHANGED <<edgeVars, blk, idx, stack, regAssignments, memoryAssignment,
                 memoryFrameSize, edgeset2assignment, out, defOps, error,
                 compiled, hazards>>

(* The result is never used: insertPopAfter drops it in the code, but it   *)
(* also pops the symbolic stack, on which the result was never pushed.     *)
DefUnused ==
  /\ Running("def")
  /\ Instr.def # NoReg
  /\ HasOneDef(fn, Instr.def) /\ Unused(Instr.def)
  /\ LET g == InsertPopBefore(Gen(stack))
     IN  stack' = g.stack /\ error' = g.error
  /\ regAssignments' = Assign(regAssignments, Instr.def, "NO_ALLOCATION", 0)
  /\ defOps' = <<Op("POP", 0)>>
  /\ hazards' = hazards \cup {"unusedDef"}
  /\ phase' = "clean"
  /\ UNCHANGED <<edgeVars, blk, idx, memoryAssignment, memoryFrameSize,
                 edgeset2assignment, out, compiled>>

DefLocal ==
  /\ Running("def")
  /\ Instr.def # NoReg
  /\ HasOneDef(fn, Instr.def) /\ ~Unused(Instr.def)
  /\ DefIsLocal(fn, Instr.def, Here)
  /\ stack' = Push(stack, Instr.def)
  /\ regAssignments' = Assign(regAssignments, Instr.def, "L_STACK", 0)
  /\ phase' = "clean"
  /\ UNCHANGED <<edgeVars, blk, idx, memoryAssignment, memoryFrameSize,
                 edgeset2assignment, out, defOps, error, compiled, hazards>>

(* Every definition of a register with several definitions takes a slot of *)
(* its own, while loads go to the slot of the first one.                   *)
DefMemory ==
  /\ Running("def")
  /\ Instr.def # NoReg
  /\ ~(HasOneDef(fn, Instr.def)
        /\ (Unused(Instr.def) \/ DefIsLocal(fn, Instr.def, Here)))
  /\ LET slot == AllocatedSlot(memoryAssignment)
         map  == Assign(regAssignments, Instr.def, "NONSTACK", slot)
     IN  /\ regAssignments' = map
         /\ defOps' = <<Op("PUTLOCAL", slot)>>
         /\ hazards' = IF map[Instr.def].slot # slot
                       THEN hazards \cup {"redefined"} ELSE hazards
  /\ memoryAssignment' = AllocatedMem(memoryAssignment, Instr.def)
  /\ memoryFrameSize' = AllocatedFrame(memoryAssignment, memoryFrameSize)
  /\ phase' = "clean"
  /\ UNCHANGED <<edgeVars, blk, idx, stack, edgeset2assignment, out, error,
                 compiled>>

-----------------------------------------------------------------------------
(* cleanUpDeadRegisters inserts in front of whatever follows the           *)
(* instruction, which is handleDef's POP or PUTLOCAL if there is one.  At  *)
(* the end of the block it inserts right behind the instruction, each      *)
(* insertion in front of the previous one.                                 *)
AtBlockEnd == idx = Len(fn.code[blk]) /\ defOps = << >>

Reversed(s) == [i \in DOMAIN s |-> s[Len(s) + 1 - i]]

CleanUpHazards(code) ==
  { h \in {"beforeDefOps", "reversed"} :
      CASE h = "beforeDefOps" -> code # << >> /\ defOps # << >>
        [] h = "reversed" -> AtBlockEnd /\ Reversed(code) # code }

CleanUpDeadRegisters ==
  /\ Running("clean")
  /\ Len(Instr.uses) > 2 => UseError = NoError
  /\ LET g == IF Len(Instr.uses) > 2 THEN CleanUp(Gen(stack), UseTypes)
              ELSE Gen(stack)
     IN  /\ stack' = g.stack
         /\ error' = g.error
         /\ out' = [out EXCEPT ![blk] =
                      @ \o (IF AtBlockEnd THEN Reversed(g.code)
                            ELSE g.code \o defOps)]
         /\ hazards' = hazards \cup CleanUpHazards(g.code)
  /\ defOps' = << >>
  /\ IF idx < Len(fn.code[blk])
     THEN idx' = idx + 1 /\ phase' = "uses"
     ELSE idx' = idx /\ phase' = "end"
  /\ UNCHANGED <<edgeVars, blk, regAssignments, memoryAssignment,
                 memoryFrameSize, edgeset2assignment, compiled>>

(* endOfBlockUpdates: nothing may be left on the stack.  The layout is     *)
(* stored for the set of the first out-edge, over whatever is there.       *)
EndOfBlock ==
  /\ Running("end")
  /\ IF stack = << >>
     THEN /\ edgeset2assignment' =
               IF fn.succs[blk] = << >> THEN edgeset2assignment
               ELSE LET set == GetEdgeSetIndex(<<blk, fn.succs[blk][1]>>)
                    IN  [e \in DOMAIN edgeset2assignment \cup {set} |->
                           IF e = set THEN memoryAssignment
                           ELSE edgeset2assignment[e]]
          /\ NextBlock
          /\ UNCHANGED error
     ELSE /\ error' = "L Region elements are still on the stack at end of MBB."
          /\ UNCHANGED <<blk, idx, phase, edgeset2assignment>>
  /\ UNCHANGED <<edgeVars, stack, regAssignments, memoryAssignment,
                 memoryFrameSize, out, defOps, compiled, hazards>>

(* The pass object goes on to the next function: initialize() resets       *)
(* everything but the memory layout.                                       *)
NextFunction ==
  /\ Running("done")
  /\ compiled < MaxFunctions
  /\ compiled' = compiled + 1
  /\ fn' \in FollowUps
  /\ edgeSet' = [e \in CollectEdges(fn') |-> e]
  /\ mbb' = 1 /\ side' = "preds" /\ iter' = 2
  /\ blk' = 1 /\ idx' = 1 /\ phase' = "begin"
  /\ stack' = << >>
  /\ regAssignments' = NoAssignments
  /\ memoryFrameSize' = 0
  /\ edgeset2assignment' = FreshLayouts
  /\ out' = FreshCode(fn')
  /\ hazards' = {}
  /\ UNCHANGED <<memoryAssignment, defOps, error>>

Next ==
  \/ ComputeEdgeSets
  \/ SkipEmptyBlock \/ BeginEntryBlock \/ BeginBlock
  \/ HandleUses \/ BadUse
  \/ DefNothing \/ DefUnused \/ DefLocal \/ DefMemory
  \/ CleanUpDeadRegisters \/ EndOfBlock
  \/ NextFunction

Spec == Init /\ [][Next]_vars
=============================================================================
