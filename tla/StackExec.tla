------------------------------ MODULE StackExec ------------------------------
(***************************************************************************)
(* The code emitted by StackAlloc, converted by EVMConvertRegToStack and   *)
(* run on an EVM-like machine with an operand stack and memory slots.  The *)
(* instructions of the machine function are uninterpreted: one takes its   *)
(* operands from the top of the stack, the first operand topmost, and      *)
(* pushes a value of its own if it defines a register.                     *)
(***************************************************************************)
EXTENDS StackAlloc

CONSTANTS
  MaxReach,   \* the deepest SWAP and DUP of the machine: 16 on the EVM
  MaxClock,   \* how many instructions are run, a bound for loops
  Allowed     \* run also functions in which these hazards were met

VARIABLES
  xblk, xpc,   \* next emitted instruction; block 0 before the start
  xidx,        \* next instruction of the machine function in that block
  pstack,      \* the machine stack, top last
  pmem,        \* address of a memory word -> value
  regs,        \* history: the value each register has
  operands,    \* what the last instruction of the function received
  clock

execVars == <<xblk, xpc, xidx, pstack, pmem, regs, operands, clock>>
allVars == <<vars, execVars>>

ExecInit ==
  /\ Init
  /\ xblk = 0 /\ xpc = 1 /\ xidx = 1
  /\ pstack = << >>
  /\ pmem = [s \in {} |-> 0]
  /\ regs = [r \in {} |-> 0]
  /\ operands = << >>
  /\ clock = 0

Compile == xblk = 0 /\ Next /\ UNCHANGED execVars

-----------------------------------------------------------------------------
(* Mutants: the opcode table is off by one, one too deep or too shallow.   *)
SWAPTooDeep(n) == n + 1
SWAPTooShallow(n) == n - 1

(* EVMConvertRegToStack: an index beyond the reach of SWAP is replaced by  *)
(* the largest one, for DUP it is an assertion failure.                    *)
ConvertSWAP(n) == IF n > MaxReach THEN MaxReach ELSE n

ConvertDUPFails ==
  \E b \in DOMAIN out : \E i \in DOMAIN out[b] :
    out[b][i].op = "DUP" /\ out[b][i].n > MaxReach

SwapOutOfReach ==
  \E b \in DOMAIN out : \E i \in DOMAIN out[b] :
    out[b][i].op = "SWAP" /\ out[b][i].n > MaxReach

HazardsMet == hazards \cup (IF SwapOutOfReach THEN {"reach"} ELSE {})

Start ==
  /\ xblk = 0
  /\ Running("done")
  /\ ~ConvertDUPFails
  /\ HazardsMet \subseteq Allowed
  /\ xblk' = 1
  /\ pstack' = [i \in DOMAIN fn.args |-> i]
  /\ regs' = [r \in Elems(fn.args) |-> CHOOSE i \in DOMAIN fn.args : fn.args[i] = r]
  /\ clock' = Len(fn.args)
  /\ UNCHANGED <<vars, xpc, xidx, pmem, operands>>

Executing == xblk # 0 /\ xpc \in DOMAIN out[xblk]
Current == out[xblk][xpc]

(* The number of stack elements the current instruction needs.             *)
Needs ==
  CASE Current.op = "SWAP" -> ConvertSWAP(Current.n) + 1
    [] Current.op = "DUP" -> Current.n
    [] Current.op = "GETLOCAL" -> 0
    [] Current.op = "MI" -> Len(fn.code[xblk][Current.n].uses)
    [] OTHER -> 1

ExecSwap ==
  /\ Current.op = "SWAP"
  /\ pstack' = Swap(pstack, ConvertSWAP(Current.n))
  /\ UNCHANGED <<xidx, pmem, regs, operands, clock>>

ExecDup ==
  /\ Current.op = "DUP"
  /\ pstack' = Dup(pstack, Current.n - 1)
  /\ UNCHANGED <<xidx, pmem, regs, operands, clock>>

ExecPop ==
  /\ Current.op = "POP"
  /\ pstack' = Pop(pstack)
  /\ UNCHANGED <<xidx, pmem, regs, operands, clock>>

(* Mutant: the ADD of the slot offset is missing.                          *)
AllAtFramePointer(slot) == 0

(* EVMExpandPseudos: the address of a slot, relative to the first word     *)
(* behind the function's stack objects.                                    *)
LocalAddress(slot) == 32 * slot

(* Memory never written holds 0, a value no definition has.                *)
ExecGetLocal ==
  /\ Current.op = "GETLOCAL"
  /\ LET addr == LocalAddress(Current.n)
     IN  pstack' = Push(pstack, IF addr \in DOMAIN pmem THEN pmem[addr] ELSE 0)
  /\ UNCHANGED <<xidx, pmem, regs, operands, clock>>

ExecPutLocal ==
  /\ Current.op = "PUTLOCAL"
  /\ LET addr == LocalAddress(Current.n)
     IN  pmem' = [a \in DOMAIN pmem \cup {addr} |->
                    IF a = addr THEN Get(pstack, 0) ELSE pmem[a]]
  /\ pstack' = Pop(pstack)
  /\ UNCHANGED <<xidx, regs, operands, clock>>

ExecInstr ==
  /\ Current.op = "MI"
  /\ clock < MaxClock
  /\ LET in   == fn.code[xblk][Current.n]
         k    == Len(in.uses)
         rest == Below(pstack, k)
     IN  /\ operands' = TopFirst(pstack, k)
         /\ pstack' = IF in.def = NoReg THEN rest ELSE Push(rest, clock + 1)
         /\ regs' = IF in.def = NoReg THEN regs
                    ELSE [r \in DOMAIN regs \cup {in.def} |->
                            IF r = in.def THEN clock + 1 ELSE regs[r]]
  /\ clock' = clock + 1
  /\ xidx' = Current.n + 1
  /\ UNCHANGED pmem

ExecStep ==
  /\ Executing
  /\ Len(pstack) >= Needs
  /\ \/ ExecSwap \/ ExecDup \/ ExecPop
     \/ ExecGetLocal \/ ExecPutLocal \/ ExecInstr
  /\ xpc' = xpc + 1
  /\ UNCHANGED <<vars, xblk>>

Branch ==
  /\ xblk # 0
  /\ xpc > Len(out[xblk])
  /\ \E i \in DOMAIN fn.succs[xblk] : xblk' = fn.succs[xblk][i]
  /\ xpc' = 1 /\ xidx' = 1
  /\ UNCHANGED <<vars, pstack, pmem, regs, operands, clock>>

ExecNext == Compile \/ Start \/ ExecStep \/ Branch

ExecSpec == ExecInit /\ [][ExecNext]_allVars
-----------------------------------------------------------------------------
TypeOK ==
  /\ EdgeTypeOK
  /\ blk \in Block(fn)
  /\ idx \in Nat \ {0}
  /\ phase \in {"begin", "uses", "def", "clean", "end", "done"}
  /\ stack \in Seq(VRegs(fn))
  /\ DOMAIN regAssignments \subseteq VRegs(fn)
  /\ \A r \in DOMAIN regAssignments : regAssignments[r].region \in Region
  /\ memoryAssignment \in Seq(Nat)
  /\ DOMAIN edgeset2assignment \subseteq Edges
  /\ pstack \in Seq(0 .. clock)

(* Every assertion and llvm_unreachable of the pass that can fail at all   *)
(* fails only in a function where one of the listed situations was met     *)
(* before: the list of hazards is complete.                                *)
OnlyHazardsFail == error # NoError => hazards # {}

(* A register that is kept on the stack and still has a use ahead is on    *)
(* the symbolic stack before every instruction of its block - SWAP at a    *)
(* last use, DUP elsewhere, and the pops of cleanUpDeadRegisters never     *)
(* consume it - and it is there only once, so that findRegDepth's search   *)
(* from the top cannot meet a leftover copy.                               *)
LocalsOnStack ==
  Running("uses") =>
    /\ \A r \in DOMAIN regAssignments :
         (/\ regAssignments[r].region = "L_STACK"
          /\ \E u \in UseSites(fn, r) : u[1] = blk /\ ~Before(u, Here))
         => IsOnStack(stack, r)
    /\ \A i, j \in DOMAIN stack : i # j => stack[i] # stack[j]

(* The same in functions without a hazard.                                 *)
LocalsKept == hazards = {} => LocalsOnStack

(* Along any path of the control-flow graph the machine stack is empty     *)
(* between blocks, as the allocator's "exit check: stack should be empty"  *)
(* and its per-block analysis assume: nothing leaks, so loops run in       *)
(* constant stack space.                                                   *)
StackEmptyBetweenBlocks ==
  (xblk # 0 /\ xpc > Len(out[xblk])) => pstack = << >>

(* No emitted instruction finds the machine stack too short.               *)
NoUnderflow == Executing => Len(pstack) >= Needs

(* Every instruction of the function finds the values of the registers it  *)
(* uses on top of the machine stack, the first operand topmost.            *)
OperandsArrive ==
  (Executing /\ Current.op = "MI" /\ Len(pstack) >= Needs) =>
    LET in == fn.code[xblk][Current.n]
    IN  TopFirst(pstack, Len(in.uses)) = [i \in DOMAIN in.uses |-> regs[in.uses[i]]]

(* Each register has one definition, which every path to a use passes.     *)
IsSSA(f) ==
  \A r \in VRegs(f) :
    /\ \A d, e \in DefSites(f, r) : d = e
    /\ 1 \notin LiveInBlocks(f, r)

GraphEdges(f) == { e \in Block(f) \X Block(f) : e[2] \in Elems(f.succs[e[1]]) }

(* No chain of shared blocks connects the edges d and e.                   *)
Apart(f, d, e) ==
  \E S \in SUBSET GraphEdges(f) : Closed(S, GraphEdges(f)) /\ d \in S /\ e \notin S

Onward(f, b) == {b} \cup { c \in Block(f) : \E s \in Elems(f.succs[b]) : s <= c }

(* Blocks are laid out in execution order: from a block one only gets to   *)
(* itself and to blocks at or behind one of its successors; and each block *)
(* but the entry has a predecessor before it, with no block in between     *)
(* that stores a layout for the same set of edges.                         *)
InExecutionOrder(f) ==
  /\ \A b \in Block(f) : f.code[b] # << >>
  /\ \A b \in Block(f) : \A c \in Onward(f, b) : Elems(f.succs[c]) \subseteq Onward(f, b)
  /\ \A b \in Block(f) \ {1} :
       \E p \in Elems(f.preds[b]) :
         /\ p < b
         /\ \A c \in p + 1 .. b - 1 : \A s \in Elems(f.succs[c]) : Apart(f, <<c, s>>, <<p, b>>)

(* On control-flow graphs laid out in execution order, every register that *)
(* lives in memory and is needed in a block is given its slot back at the  *)
(* start of the block, whichever predecessor's layout was stored last.     *)
SlotsKept == hazards \cap {"lostSlot", "definedLater"} = {}

(* Two registers needed at the same place never share a slot: at the start *)
(* of a block every live register kept in memory has its value there, on   *)
(* whatever path the block was reached.                                    *)
LiveValuesInMemory ==
  (xblk # 0 /\ xpc = 1) =>
    \A r \in DOMAIN regs :
      (InMemory(r) /\ xblk \in LiveInBlocks(fn, r)) =>
        LET addr == LocalAddress(regAssignments[r].slot)
        IN  addr \in DOMAIN pmem /\ pmem[addr] = regs[r]

(* Every memory slot the function uses is inside the frame that its call   *)
(* sequences step over (memoryFrameSize), so a callee cannot overwrite it. *)
SlotsInFrame ==
  \A r \in DOMAIN regAssignments :
    regAssignments[r].region = "NONSTACK" => regAssignments[r].slot < memoryFrameSize

(* The emitted stack code implements the machine function: each of its     *)
(* instructions receives exactly the values of the registers it uses.      *)
RM == INSTANCE RegMachine WITH
  blk <- xblk, idx <- xidx, regs <- regs, operands <- operands, clock <- clock
ImplementsRegMachine == RM!Spec
=============================================================================
