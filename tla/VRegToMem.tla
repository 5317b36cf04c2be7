------------------------------ MODULE VRegToMem ------------------------------
(***************************************************************************)
(* EVMVRegToMem, the allocator of -O0: every virtual register has a memory *)
(* slot, every definition is stored and every use loaded.  The function    *)
(* comes from ArgumentMove, and the code written is run on an EVM-like     *)
(* machine with uninterpreted instructions, as in StackExec.  (A pMOVE_r   *)
(* leaves its operand where it is: one more instruction here.)             *)
(***************************************************************************)
EXTENDS ArgumentMove

CONSTANTS MaxClock   \* how many instructions are run, a bound for loops

VARIABLES
  at,                \* the block and instruction visited next
  reg2index,         \* register -> slot
  memoryFrameSize,
  out,               \* block -> the code written for it
  xblk, xpc, xidx,   \* next instruction of the code, and of the function
  pstack,            \* the machine stack, top last
  pmem,              \* slot -> value
  vals,              \* history: the value each register has
  operands,          \* what the last instruction received
  clock

allocVars == <<at, reg2index, memoryFrameSize, out>>
execVars == <<xblk, xpc, xidx, pstack, pmem, vals, operands, clock>>
vars == <<moveVars, allocVars, execVars>>

Init ==
  /\ MoveInit
  /\ at = <<1, 1>>
  /\ reg2index = << >>
  /\ memoryFrameSize = 0
  /\ out = [b \in DOMAIN body |-> << >>]
  /\ xblk = 0 /\ xpc = 1 /\ xidx = 1
  /\ pstack = << >> /\ pmem = << >> /\ vals = << >>
  /\ operands = << >>
  /\ clock = 0

ArgumentMove == MoveNext /\ UNCHANGED <<allocVars, execVars>>
-----------------------------------------------------------------------------
With(f, x, v) == [y \in DOMAIN f \cup {x} |-> IF y = x THEN v ELSE f[y]]

HasIndex(r) == r \in DOMAIN reg2index

(* Mutant: a register defined twice is not looked up.                      *)
NextIndex(r) == Cardinality(DOMAIN reg2index)

(* allocate_memory_index: "it is possible to have multiple definitions".   *)
AllocateMemoryIndex(r) ==
  IF HasIndex(r) THEN reg2index[r] ELSE Cardinality(DOMAIN reg2index)

(* Mutant: the frame does not grow.                                        *)
SameFrameSize(s) == memoryFrameSize

UpdateMemoryFrameSize(s) == IF memoryFrameSize > s THEN memoryFrameSize ELSE s

Op(op, n) == [op |-> op, n |-> n]

(* Mutant: only the first definition is stored.                            *)
StoredOnce(mi) ==
  IF mi.def = NoReg \/ HasIndex(mi.def) THEN << >>
  ELSE IF UseEmpty(mi.def) THEN << Op("POP", 0) >>
  ELSE << Op("PUTLOCAL", AllocateMemoryIndex(mi.def)) >>

(* What follows an instruction that defines a register: a store, or if the *)
(* register has no use an EVM::POP.                                        *)
Stored(mi) ==
  IF mi.def = NoReg THEN << >>
  ELSE IF UseEmpty(mi.def) THEN << Op("POP", 0) >>
  ELSE << Op("PUTLOCAL", AllocateMemoryIndex(mi.def)) >>

Visiting == at[1] <= Len(body) /\ at[2] <= Len(body[at[1]])
Visited == body[at[1]][at[2]]

(* One instruction.  The definition comes first, then the uses: the load   *)
(* of the last operand is put right before the instruction, that of the    *)
(* first one farthest from it.  A pSTACKARG_r is erased in the end.        *)
VisitInstr ==
  /\ stage = "moved" /\ error = NoError
  /\ Visiting
  /\ LET mi    == Visited
         keeps == mi.def # NoReg /\ ~UseEmpty(mi.def) /\ ~HasIndex(mi.def)
         slot  == AllocateMemoryIndex(mi.def)
         map   == IF keeps THEN With(reg2index, mi.def, slot) ELSE reg2index
     IN  IF ~(ToSet(mi.uses) \subseteq DOMAIN map)
         THEN /\ Stop("no memory index")
              /\ UNCHANGED allocVars
         ELSE /\ reg2index' = map
              /\ memoryFrameSize' = IF keeps THEN UpdateMemoryFrameSize(slot)
                                    ELSE memoryFrameSize
              /\ out' = [out EXCEPT ![at[1]] =
                   @ \o [i \in DOMAIN mi.uses |-> Op("GETLOCAL", map[mi.uses[i]])]
                     \o (IF IsStackArg(mi) THEN << >> ELSE << Op("MI", at[2]) >>)
                     \o Stored(mi)]
              /\ at' = [at EXCEPT ![2] = @ + 1]
              /\ UNCHANGED moveVars
  /\ UNCHANGED execVars

BlockVisited ==
  /\ stage = "moved" /\ error = NoError
  /\ at[1] <= Len(body) /\ ~Visiting
  /\ at' = <<at[1] + 1, 1>>
  /\ stage' = IF at[1] = Len(body) THEN "done" ELSE stage
  /\ UNCHANGED <<fn, body, regs, error, reg2index, memoryFrameSize, out, execVars>>
-----------------------------------------------------------------------------
(* EVM::POP is no register instruction, so that EVMConvertRegToStack takes *)
(* it for a call: a function with an unused definition is not run here.    *)
UnusedDef == \E b \in DOMAIN out : \E o \in ToSet(out[b]) : o.op = "POP"

Start ==
  /\ stage = "done" /\ xblk = 0
  /\ ~UnusedDef
  /\ xblk' = 1
  /\ pstack' = [i \in DOMAIN Args |-> i]
  /\ vals' = [r \in ToSet(ArgRegs) |-> 1 + (CHOOSE mi \in ToSet(Args) : mi.def = r).n]
  /\ clock' = Len(Args)
  /\ UNCHANGED <<moveVars, allocVars, xpc, xidx, pmem, operands>>

Executing == xblk # 0 /\ xpc \in DOMAIN out[xblk]
Current == out[xblk][xpc]
Instr == body[xblk][Current.n]
ArgsIn(b) == IF b = 1 THEN Len(Args) ELSE 0

ExecGetLocal ==
  /\ Current.op = "GETLOCAL"
  /\ pstack' = Append(pstack, IF Current.n \in DOMAIN pmem THEN pmem[Current.n] ELSE 0)
  /\ UNCHANGED <<xidx, pmem, vals, operands, clock>>

ExecPutLocal ==
  /\ Current.op = "PUTLOCAL"
  /\ pmem' = With(pmem, Current.n, Last(pstack))
  /\ pstack' = Front(pstack)
  /\ UNCHANGED <<xidx, vals, operands, clock>>

ExecInstr ==
  /\ Current.op = "MI"
  /\ clock < MaxClock
  /\ LET left == Len(pstack) - Len(Instr.uses)
         rest == SubSeq(pstack, 1, left)
     IN  /\ operands' = Reverse(SubSeq(pstack, left + 1, Len(pstack)))
         /\ pstack' = IF Instr.def = NoReg THEN rest ELSE Append(rest, clock + 1)
  /\ vals' = IF Instr.def = NoReg THEN vals ELSE With(vals, Instr.def, clock + 1)
  /\ clock' = clock + 1
  /\ xidx' = Current.n - ArgsIn(xblk) + 1
  /\ UNCHANGED pmem

Execute ==
  /\ Executing
  /\ ExecGetLocal \/ ExecPutLocal \/ ExecInstr
  /\ xpc' = xpc + 1
  /\ UNCHANGED <<moveVars, allocVars, xblk>>

Branch ==
  /\ xblk # 0 /\ ~Executing
  /\ \E s \in ToSet(fn.succs[xblk]) : xblk' = s
  /\ xpc' = 1 /\ xidx' = 1
  /\ UNCHANGED <<moveVars, allocVars, pstack, pmem, vals, operands, clock>>

Next == ArgumentMove \/ VisitInstr \/ BlockVisited \/ Start \/ Execute \/ Branch

Spec == Init /\ [][Next]_vars
-----------------------------------------------------------------------------
TypeOK ==
  /\ \A b \in DOMAIN body : \A mi \in ToSet(body[b]) :
       /\ mi.def \in 0 .. regs /\ ToSet(mi.uses) \subseteq 1 .. regs
       /\ IsStackArg(mi) => mi.n \in 0 .. fn.numArgs
  /\ DOMAIN reg2index \subseteq 1 .. regs
  /\ pstack \in Seq(0 .. clock)

(* A block is laid out before the block that gives one of its registers a  *)
(* value, or the entry block has nothing in it but arguments.              *)
UsedBeforeDefined ==
  \E b \in DOMAIN body : \E i \in DOMAIN body[b] : \E r \in ToSet(body[b][i].uses) :
    ~\E c \in 1 .. b : \E j \in DOMAIN body[c] :
       body[c][j].def = r /\ (c < b \/ j <= i)

NothingInEntry == Others(fn.code[1]) = << >>

(* The assertions of both passes, and the places where they look at an     *)
(* instruction that may not be there, fail in these two situations only.   *)
OnlyHazardsFail == error # NoError => UsedBeforeDefined \/ NothingInEntry

(* Nothing is left on the machine stack between blocks: each argument is   *)
(* taken off and each result stored, however often it is defined.          *)
StackEmptyBetweenBlocks ==
  (xblk # 0 /\ ~Executing) => pstack = << >>

(* The frame size recorded is the largest slot, not the number of slots:   *)
(* CallFrames leaves room for that one more word.                          *)
SlotsInFrame == \A r \in DOMAIN reg2index : reg2index[r] <= memoryFrameSize

(* What the code that selects calls says of the stack an instruction       *)
(* finds: "(top) arg1, arg2, arg3, ..., targetAddr", the first operand on  *)
(* top and the others below it in order.  It does not hold: the loads of   *)
(* VisitInstr leave the last operand on top.                               *)
FirstOperandOnTop ==
  (Executing /\ Current.op = "MI") =>
    \A i \in DOMAIN Instr.uses :
      Instr.uses[i] \in DOMAIN vals =>
        pstack[Len(pstack) - i + 1] = vals[Instr.uses[i]]

(* The code implements the function with every list of operands, and the   *)
(* list of arguments, reversed: each value reaches the instruction that    *)
(* uses it on every path, but the last operand is on top where the EVM     *)
(* (and EVMStackAlloc, and the call sequence) has the first.               *)
RM == INSTANCE RegMachine WITH
  fn  <- [args  |-> Reverse(ArgRegs), succs |-> fn.succs,
          code  |-> [b \in DOMAIN Code |-> [i \in DOMAIN Code[b] |->
                       [def |-> Code[b][i].def, uses |-> Reverse(Code[b][i].uses)]]]],
  blk <- xblk, idx <- xidx, regs <- vals
ImplementsReversed == RM!Spec
=============================================================================
