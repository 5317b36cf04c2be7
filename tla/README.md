# The EVM back end of LLVM, in TLA+

This directory models the code generator that turns LLVM machine functions
over virtual registers into Ethereum Virtual Machine stack code
(`lib/Target/EVM`, `lib/MC/*EVM*`).  The EVM has no registers: an instruction
takes its operands from the top of a stack of 256-bit words, `SWAPn` and `DUPn`
reach sixteen elements down, and everything else lives in memory.  The part of
the back end that is hard to get right is therefore the *stack allocator*, which
decides for every register whether it lives on the stack or in memory and emits
the SWAPs, DUPs, POPs, loads and stores that put the operands of every
instruction in place.  Around it, the project follows a function from branch
rewriting and argument placement through either allocator, the call convention
and the last machine passes down to bytes, and runs what comes out.

## 1. Inventory

The machine passes run in this order (`EVMTargetMachine.cpp`, `addPreEmitPass`):

    ArgumentMove -> ExpandFramePointer -> StackAlloc (O1..O3) | VRegToMem (O0)
      -> ExpandPseudos -> ConvertRegToStack -> ShrinkPush -> Finalization
      -> AsmPrinter / MCInstLower -> MC code emitter, fixups, object writer

They are sequential; each one rewrites the function the previous one left. What
passes between them besides the code is `EVMMachineFunctionInfo` (the number of
memory slots of the frame, the number of arguments).  The stack allocator object
lives as long as the module being compiled: it handles one function after the
other, and what it does not reset is seen by the next one.

| component | state it keeps | operations | what makes it correct |
|---|---|---|---|
| `EVMStackStatus` | the symbolic stack | push, pop, dup, swap, get, findRegDepth | it changes exactly as the machine stack does under the emitted code |
| `EdgeSets` | edge -> index of its set | collectEdges, computeEdgeSets, mergeEdgeSets | edges with a common source or target are in one set, unconnected ones are not |
| memory slots of `EVMStackAlloc` | `memoryAssignment`, the frame size | allocateMemorySlot, deallocateMemorySlot, updateMemoryFrameSize | a live register owns its slot; the frame covers every slot |
| operand arrangement | none | handleUnaryOpcode, handleBinaryOpcode, handleArbitraryOpcode, cleanUpDeadRegisters | operands arrive in order, what is still needed survives once, nothing is left behind |
| `EVMStackAlloc` | `regAssignments`, `edgeset2assignment`, the symbolic stack | the walk over blocks and instructions | the emitted code computes what the machine function computes |
| `EVMConvertRegToStack` | none | opcode conversion, SWAP/DUP numbers, the call sequence | same order, reachable indices, frame pointer and return address right |
| `EVMExpandPseudos` | none | GETLOCAL/PUTLOCAL, jumps, JUMPIF | slot addresses distinct and inside the frame |
| frames (`EVMExpandFramePointer`, `EVMRegisterInfo`, `EVMSubtarget`) | two words of memory: frame and stack pointer | $fp expansion, frame indices | frames of active calls do not overlap, a return finds the caller's |
| `EVMArgumentMove` | none | adds missing pSTACKARGs and the return address, sorts, pops unused arguments | every argument has exactly one place on the entry stack |
| `EVMVRegToMem` | register -> slot index | one slot per register | loads follow stores of the same register |
| `EVMShrinkPush` | none | immediate widths | the shortened PUSH pushes the same word |
| `EVMFinalization` | none | JUMPDEST | every jump target starts with JUMPDEST |
| branch analysis (`EVMInstrInfo`) | none | analyzeBranch, insertBranch, removeBranch | a rewritten block still goes where the program says |
| MC layer | section bytes, fixups, labels | encoding, appending, resolving fixups, writing | offsets match the bytes emitted; a fixup fits or is refused |
| instruction selection, printing, parsing, registration, test driver | none | patterns, text and tables | not modelled (section 5) |

What is hard to test in this code is not concurrency, for there is none, but
long sequences of individually harmless insertions: two data structures (the
symbolic stack and the emitted code) that must agree after each of them,
liveness questions answered in layout order, one stored layout shared by several
predecessors, an insertion point that reverses the order of what is inserted,
state left over from the previous function, and limits (sixteen, slot zero).
`PROJECT.json` lists these under "hazards", each at its line.

## 2. Modules

| module | models | state and actions |
|---|---|---|
| `EVMStackStatus` | class `EVMStackStatus` | operators on sequences; the last element is the top, as in the `std::vector` |
| `OperandOps` | the operand handlers and the `insert*Before` helpers | a generator record (symbolic stack, code, first failed assertion) threaded through operators |
| `OperandOrder` | one instruction meeting any stack | `HandleUses`, `CleanUpDeadRegisters` |
| `EdgeSets` | class `EdgeSets` | `fn`, `edgeSet`, and the loop position `mbb`, `side`, `iter`; one action per loop step |
| `MCEdgeSets` | every control-flow graph of N blocks | |
| `MemorySlotOps` | allocateMemorySlot, deallocateMemorySlot, updateMemoryFrameSize | operators |
| `MemorySlots` | the slot table along a path | `DefToMemory`, `FreeSlot` |
| `StackAlloc` | `EVMStackAlloc`: the whole pass | composes the modules above; one action per branch of analyzeBasicBlock's callees |
| `RegMachine` | what the machine function means | the abstract specification: a machine with registers |
| `StackExec` | the emitted code, converted by `convertSWAP`/`convertDUP`/`expandLOCAL`, run on a stack machine | `Compile`, `Start`, one action per kind of instruction, `Branch` |
| `MCStackExec` | families of machine functions | |
| `ArgumentMove` | `EVMArgumentMove` | `body`, `regs`, `stage`; `ArrangeStackArgs`, `InsertRetAddrArg`, `SortStackArgs` |
| `VRegToMem` | `EVMVRegToMem`, behind `ArgumentMove`, and its code run | `reg2index`, `memoryFrameSize`, `out`; `VisitInstr`, `BlockVisited`, then the machine |
| `MCVRegToMem` | entry blocks with every order and choice of arguments; a loop, a layout out of order | |
| `CallFrames` | the call sequence, returns, slots, stack objects, globals in one flat memory | `mem`, `depth`, `calls` (history), `got`; one action per kind of access, `Call`, `Return` |
| `Activations` | what the program expects of calls | abstract: private words per activation, globals shared |
| `MCCallFrames`, `CallFramesProofs` | three functions; theorems | |
| `EVMEncoding` | expansion, conversion, push shrinking and encoding of one instruction, applying a fixup | operators on instructions and bytes |
| `CodeEmission` | ExpandPseudos to writeObject over all functions | `stage`, `cur`, `at`, `code`, `contents`, `fixups`, `labels`; one action per pass and per streamer call |
| `CodeExec` | the bytes on an EVM | `pc`, `stack`, `mem`, `dests`; `Analyze`, `Start`, `Execute`, `Stop` |
| `BlockProgram` | what the instructions before these passes mean | abstract: positions in blocks, slots per activation |
| `MCCodeExec` | a program with a loop, branches, nested calls and an open constant | |
| `Branches` | analyzeBranch, insertBranch, removeBranch under updateTerminator and SplitCriticalEdge | `layout`, `terms`, `succs`, `goal`; `SplitCriticalEdge` |
| `BranchesProofs` | theorems about `Branches` | |
| `AllocOpsProofs` | lemmas about `EVMStackStatus`, `OperandOps` and `MemorySlotOps`: what each helper does to a stack or a table of any size, and that the instructions it emits do the same; theorems about `EdgeSets` | |
| `AllocPartsProofs`, `StackExecProofs`, `VRegToMemProofs` | theorems that rest on these lemmas: about `MemorySlots` and `OperandOrder`, about the pass, its code and the register machine, and about `VRegToMem` with `ArgumentMove` | |
| `CodeLayoutProofs`, `CodeExecProofs` | where the bytes of any program are; that they run as the program and the frames say | |

The parts fit together along the pipeline.

    Branches          successor lists and fall-through are right
      |
    ArgumentMove      the entry stack: ArgumentsNamed
      |
    StackAlloc (O1..O3)  or  VRegToMem (O0)
      |   both run against RegMachine; slots lie inside the frame: SlotsInFrame
    CodeEmission      the call sequence, slots, jumps, constants as bytes
      |   CodeExec implements BlockProgram, and implements CallFrames
    CallFrames        implements Activations: what is in a slot stays there

`SlotsInFrame` is what `CallFrames` assumes of an allocator, `ArgumentsNamed` what
both allocators assume of the entry block, `SuccessorsAgree` what `EdgeSets` and
liveness assume of the branches.  `CodeExecProofs` shows, for every program, that
the bytes of the call sequence do what the actions of `CallFrames` say, and
`CallFramesProofs` that these give every activation a private memory, for all frame
sizes; neither repeats the other's work.  One thing nobody provides: `StackAlloc` dereferences the
first instruction behind the arguments, and `EVMArgumentMove` does not see to it
that there is one (`NothingInEntry`).

Abstractions, all of them in the data:

* A machine function is a record with its control-flow graph, its arguments and,
  per block, instructions `[def, uses]`.  What an instruction computes does not
  matter; each execution of a definition gives a new value (the clock), so that
  a value found in the wrong place is always told apart from the right one.
* Debug output, machine operands that are not registers and live-interval
  maintenance are left out.  What the pass asks of `LiveIntervals` and
  `MachineRegisterInfo` (uses, definitions, order of instructions) is computed
  from the code, including the uses that inserted PUTLOCALs add.
* `X_STACK` is switched off in the source (`false &&`), so the transfer region
  is always empty; `handleSingleUse` and `pruneStackDepth` have no caller.
* The address of slot `i` is `32 * i` relative to the first word behind the stack
  objects of the frame.
* Memory is a function from word addresses; no access is misaligned.  In
  `CallFrames` words are numbers; in `CodeExec` they are byte sequences without
  leading zeros, so constants keep all 32 bytes and a byte lost is noticed.
* `CodeEmission` starts from instructions in stack order, as an allocator leaves
  them.  Bytes preceding the program are only counted (`PrefixSizes`).  The
  "open" constant of the program takes one of `Operands`: 0, values around one and
  two bytes, eight and more bytes, bytes that look like JUMPDEST or PUSH.
* `Branches` keeps terminators only; `goal`, what the program says, never changes.
* All modules are of targets without subroutine opcodes.

The compiler is sequential, so the nondeterminism of its modules lies in the choice
of the function (and of the next one, or of the next edge to split); the modules
that run code add the choice of the successor, of inputs and of calls.

### The hazard history

The allocator does not cope with every function.  `hazards` is a history variable
recording which of the following situations were met while a function was being
compiled.  It guards nothing in the pass.  `StackExec` only *runs* the code of
functions whose hazards are in the constant `Allowed` (empty in the passing
runs), so that a passing run says: outside these situations, the pass is correct.
Roughly three in ten of the enumerated functions meet no hazard and are executed;
all are compiled, and the properties about the pass itself (`TypeOK`,
`OnlyHazardsFail`, `SlotsKept`, `SlotsInFrame`) are checked on all of them.

| hazard | situation | consequence in the code |
|---|---|---|
| `twoInPlace` | two stack operands, only the first dies, the second is at depth 1 and the first is not on top | the second one is consumed although it is still needed |
| `repeatedDying` | a dying stack register used twice by one instruction | `assert(depth2 >= 2)` fails (or, with more operands, the clean-up looks for the register twice) |
| `dyingInMemory` | an instruction with three or more operands, one of them in memory and dying | the clean-up searches the stack for a register in memory |
| `unusedDef` | a result nobody uses | `insertPopAfter` also pops the symbolic stack, on which the result was never pushed |
| `beforeDefOps` | the clean-up runs while handleDef's POP or PUTLOCAL follows the instruction | its SWAPs and POPs come before the store of the result |
| `reversed` | the clean-up at the end of a block | its instructions are emitted in reverse order |
| `lostSlot` | a register live at the start of a block is not in the layout taken up there | its slot may be given away |
| `definedLater` | a block is laid out before the block defining a register it needs | the assignment look-up fails |
| `redefined` | a register with several definitions (what PHI elimination leaves) | every definition stores to a slot of its own, loads read the first |
| `reach` | a SWAP deeper than sixteen | silently replaced by SWAP16 |

Liveness analysis of the model (`LiveInBlocks`) is independent of the code's: it
is the usual data-flow definition, used only in `hazards` and in properties.

## 3. Runs

| run | instance | what it shows |
|---|---|---|
| `operand_order` | stacks up to 5, 2 registers in memory, up to 3 operands, every dying set | outside `twoInPlace`, `repeatedDying` and `dyingInMemory` no handler fails, operands arrive in order and exactly the survivors remain |
| `edge_sets` | every graph of 3 blocks | the partition is exactly connectedness through common blocks |
| `memory_slots` | 5 registers | ownership and frame size under all sequences of definitions and deaths |
| `exec_structured` | one block: 4 instructions with all operand lists, 6 instructions over a deeper stack; chain, diamond, self loop, while loop, laid out in execution order | no failure without a hazard; local registers stay on the symbolic stack, once; code does not underflow and leaves the stack empty; the layout taken up from an edge set never loses a live register, whichever predecessor wrote it last; values are in their slots on every path; slots inside the frame; code implements `RegMachine`.  The families satisfy the hypothesis of `SlotsStay` (`StructuredInOrder`) |
| `exec_unstructured` | two-block loop bodies, cross edges sharing an edge set, an empty block, a block laid out before its predecessor, redefinitions, each followed by a chain through the same pass object | functions that meet no hazard are still compiled correctly, and what the first leaves behind does not disturb the values of the second |
| `call_frames` | three functions (only slots, only an object, both), 2 globals, frame pointer 128 at entry, 3 calls deep, stores through pointers into any active frame | the frame pointer word is that of the running activation, frames and saved pointers are apart, the flat memory implements `Activations` |
| `code_exec` | 4 functions, 12 constants, 0, 200 or 65300 bytes in front | no fault on the machine; whatever the bytes of the constants, each label and return address is a jump destination for it and every fixup is resolved (`TargetsAreDests`); each instruction of the program finds the operands, the function and the return address it needs (`Disciplined`); bytes implement `BlockProgram` and `CallFrames` |
| `vreg_to_mem` | up to 3 arguments selected in every order or not at all, main or not, empty entries, a loop with a redefinition, a layout out of order | arguments end in their places; only the two named situations fail; slots in the frame; the stack is empty between blocks; code implements `RegMachine` with operands reversed |
| `branches` | every function of 4 blocks (300000 states), any choice of critical edges split in all orders | branches and successor lists keep agreeing with the program, and `analyzeBranch` keeps reporting exactly the successors of every block (`BranchesUnderstood`), so that no assertion of `updateTerminator` fails later |

Bounds.  The handlers distinguish depths 0, 1 and more and compare two operands,
so five stack elements and three operands reach every branch and every relative
position; the general handler treats operands one by one.  Slot reuse needs a
freed slot in the middle, a freed slot 0 and a trimmed end: four slots do, five
registers are checked.  Edge sets merge at most along two sides of a block, and
three blocks contain chains, diamonds' halves, self loops and shared targets; the
proofs remove this bound.  `MaxClock` bounds the instructions executed, which lets
each loop go round at least twice.  Three activations contain a caller whose
callee calls; the proofs remove this bound too.  A prefix of 200 bytes makes
labels cross one byte, 65300 makes some cross two, the width of a fixup.  Three
arguments and the return address contain first, middle and last.  Four blocks allow
one with two critical edges, a self loop, and a target shared by all; ten are
never exceeded.

`CHECK_DEADLOCK FALSE` is used where a compilation, a pass or a terminating program
really stops.  `call_frames` never stops, and deadlock is checked.

Fairness.  One specification states fairness: `EdgeSpec`, weak fairness of the steps
of computeEdgeSets, for `MergingEnds` (the partition is finished).  It is sequential
code that takes its next step whenever it has one; nothing else competes with it.  No
fairness is assumed of programs, which may loop for ever, nor of the passes that split
critical edges: PHI elimination, sinking and loop-invariant code motion each split some
of them, so `Branches` allows any sequence of splits, ending anywhere.

Assertions.  A failed assertion is a stop of the compiler in all modules (`error` in the
allocators, stage "failed" of `CodeEmission`): what is modelled is a build with
assertions.  A build with NDEBUG goes on instead; in particular `applyFixup` would then
silently write the low two bytes of an offset beyond 64 kB (`FixupFits`).

### Violation runs

Each shows one disagreement between the code and what a comment or an assertion in
it says (quoted under "findings").

| run | property | what happens |
|---|---|---|
| `bug_two_in_place` | `LocalsOnStack` | with 1, 2, 3 on the stack, an instruction using 1 (last) and 2 (not last) consumes 2 |
| `bug_long_loop` | `OperandsArrive` | a register used only at the head of a two-block loop body loses its slot |
| `bug_o0_operands` | `FirstOperandOnTop` | an instruction with operands 1 and 2 compiled at -O0 finds 2 on top and 1 below it |

The other rows of the hazard table have no run of their own.  `unusedDef`,
`dyingInMemory` and `definedLater` make the pass itself stop (`error`), which
`OnlyHazardsFail` allows for; `beforeDefOps`, `reversed` and `reach` show in the
executed code once they are put into `Allowed`.  One further observation concerns
no correctness property: `allocateMemorySlot` uses 0 both for "slot 0 was empty"
and for "no slot was empty", so filling slot 0 also appends a slot, and the
register occupies two until both are freed.

Further observations, each reproduced with the modules but without a run of its own:

* `x * x` with x dying fails `assert(depth2 >= 2)` in the binary handler
  (`repeatedDying`).
* A register redefined in a loop is read from the slot of its first definition
  (`redefined`).
* The second function through one pass object may be given a slot that the first one
  freed and that its own frame size does not cover (with a second function allowed
  to run into hazards, `SlotsInFrame` fails).
* At -O0 not only operands are reversed (`bug_o0_operands`): arguments are stored to the
  registers in opposite order too (`EVMArgumentMove.cpp:156`: "(top) 1st argument, 2nd
  argument, 3rd argument, ..., return address (if any)").  `ImplementsReversed` says
  precisely this: apart from the order, the code is right.
* `getFramePointer` is 32 times the number of globals and no pass stores a first value
  there.  In a module without globals (`GlobalSlots` 0) whose runtime does not set the
  word (`EntryFP` 0), main's first slot lies over it and `FramePointerRestored` fails at
  the first store.  The runtime tests set it: `call void @llvm.evm.mstore(i256 64, i256
  128)` (`runtime_tests/setcc/setcc_ule.ll:7`).
* At -O0 an unused result is dropped with `EVM::POP`, which has no register form;
  `EVMConvertRegToStack.cpp:215` (`RegOpcode == EVM::pJUMPSUB_r ||
  EVM::pJUMPSUBVOID_r`, always true) converts it into a call sequence.  `VRegToMem`
  does not run such functions (`UnusedDef`).

## 4. Proofs

TLAPS checks the proofs for every value of the constants.

`AllocOpsProofs`, edge sets (assumption `FunctionsAreCFGs`: predecessor and successor lists
describe the same edges).

* `EdgeTypes`: the loops stay inside their lists and look up only recorded edges.
* `SharingEdges`: when computeEdgeSets is done, edges with a common source or
  target are in one set.  The property says nothing about intermediate states, so
  it is strengthened to `Progress`: all blocks before `mbb` have their in-edges
  together and their out-edges together, and in block `mbb` the first entries of
  the list being walked are together.  That merging never separates edges
  (`MergeKeepsTogether`) makes the finished part stable, and
  `MergeExtends` is the step itself.
* `OnlyConnected`: every set of edges closed under "shares a source or a target"
  is a union of edge sets, at every moment.  Inductive as it stands, because only
  edges of one block are ever merged.

`AllocPartsProofs`, memory slots (assumption `RegsAssumption`: register 0 does not
exist).

* `SlotTypes`, `LiveRegistersOwnTheirSlots`, `FrameCoversEverySlot`: their
  conjunction `SlotInv` is inductive; none of the parts is by itself, since what
  the allocator hands out is right only for a table that fits the frame.  The
  lemmas `AllocateProperties` and `DeallocateProperties` say what one operation
  does to the table, including the double entry for slot 0 and the trimming of
  the end.  First index and trimmed length are least elements of sets of
  naturals; `LeastNatural` gives them without an induction schema.

`CallFramesProofs` (assumption `FrameAssumption`: sizes are natural numbers).  The
theorems assume `Convention`: all functions agree on the number of globals, hence on
where the frame pointer is (`OneFramePointer`), and the first frame starts behind
the two pointer words (`EntryAboveCells`).  The code establishes neither:
`getFramePointer` depends on the globals met so far, and no pass stores a first
frame pointer; a runtime has to.

* `FrameTypes`, `FramePointerSurvives`, `SavedPointersSurvive`,
  `FramesNeverOverlap`: their conjunction `FrameInv` is inductive and none of the
  parts is.  A return restores the right frame pointer only if the saved one is
  intact, which no store reaches only because frames do not overlap
  (`FrameWordApart`), and stores go where they should only because the frame pointer
  word is right.
* `FramesImplementActivations`: every step of `CallFrames` is one of `Activations`.
  With `FrameInv`, a store to a word of one frame is an assignment to one word of one
  activation and to nothing else (`StoreIsAssignment`); the words of a new frame are
  whatever was there, which `Activations` allows.

`BranchesProofs` (assumption `BlockNumbers`: there is a block, and the bound on blocks is
not below their number).

* `TypeCorrect`, `SuccessorListsAgree`, `TargetsKept` and `AlwaysUnderstood` follow from
  one inductive invariant.  The terminators of every block have one of the forms that
  `analyzeBranch` understands, for the layout as it is now (`Form`); each target the
  program gives the block is its successor, directly or through a block made by a split
  (`Via`); and a block made by a split has one predecessor and one successor.  The
  last part is what the properties do not say: it makes it safe to redirect a
  successor without looking at other blocks.

`AllocOpsProofs`, lemmas about the operations.  The helpers that loop
(`HandleArbitraryOpcode`, `CleanUp`, `StackArgs`) are recursive functions over
`0 .. n`; for each there is a lemma that such a function exists (`PlaceTraceExists`,
`DropTraceExists`), obtained by applying `SetInduction` - a set of naturals that
contains 0 and with k also k + 1 contains everything - to the set of the k for which
it exists up to k.  No induction schema with an operator parameter is needed.

`AllocPartsProofs`, operand arrangement

* `OperandsAlwaysInOrder`, `SurvivorsExact`: for stacks of every depth and any
  number of operands, outside the three situations no handler fails, operands arrive
  in order, and what is left is exactly what is needed.  The argument follows the
  case distinctions of the handlers; what is carried through is `Distinct`: the lower
  part of the stack holds a given set of registers, each once.

`StackExecProofs` (assumption `MachineFunctions`: what `IsMachineFunction` and `IsCFG`
say; every condition is established before the pass.  The entry block has no
predecessor, which LLVM's IR verifier requires; arguments have registers of their own
and a use, which `EVMArgumentMove` sees to and `ArgumentsInPlace` proves; a register
that is used is defined, in the entry block before the use, as SSA construction
guarantees.  That an entry block with arguments has some other instruction is the one
condition nobody provides, see above.)

* `ExecInvariant`: `ExecInv` is inductive.  It says where the walk is (`Walk`), that
  exactly the registers defined before this place in layout order have an assignment
  of the right region (`HandledSoFar`), and, as long as no hazard was met, that the
  symbolic stack holds exactly the local registers used later in the block, each once
  (`Undisturbed`).  The three parts need each other: a local register is found on the
  stack because it was assigned `L_STACK` at its definition, which lies earlier in the
  same block.
* `HazardsComplete`, `LocalsStay`: consequences, for any number of functions compiled
  by one pass object.
* `MemoryInvariant`, `SlotsStayInFrame`: the table of slots, the assignments and the
  stored layouts stay well formed, and within `memoryFrameSize` when the pass object
  compiles one function (`MaxFunctions = 1`).  The restriction is necessary: the
  table is kept between functions while the frame size starts at 0 again, see above.
* `SlotsStay`: a register that a block finds live at its start, and that lies in
  memory, still owns its slot there.  It is not true of every function (it is what
  fails first in `bug_long_loop`), so the theorem has a hypothesis about the shape of
  the functions.  `IsSSA`: one definition per register, and none used before it on
  some path.  `InExecutionOrder`: what can be reached from a block is the block
  itself or laid out at or behind one of its successors, and each block but the entry
  has a predecessor before it, with no block in between that stores a layout for the
  same edge set; no block is empty.  Straight code, branches that join and loops of
  one or two blocks are of this kind; a body of two blocks behind a loop head is not.
  The invariant has two parts.  `EdgeInv` carries the partition over from
  `SharingEdges` and `OnlyConnected`: the pass looks edges up by their sets, so it
  must be known which blocks write the same entry.  `SlotInv` adds to the property
  that every register a block leaves in memory is in the layout stored last for its
  edge set (`SlotsStored`), and that at the current position the registers needed
  later own their slots (`SlotsHere`).  A register is taken out of the table only when
  it is not live at what `FreeDead` looks at; `LiveOnward` says why in such a layout
  nothing that is still to come needs it.
* `CodeInvariant`: `Emitted` follows the code of a block on a machine whose stack holds
  registers.  A state of that machine is the stack, the set of registers whose slot
  holds their value, and the next instruction of the function; `PartRun` says that the
  code emitted so far leads from the state at the start of the block to the present
  symbolic stack, with everything needed later in its slot.  There is one such claim
  per phase of an instruction (operands, definition, clean-up); once a block is
  finished it becomes: the stack is empty at the end (`BlockDone`).  It rests on lemmas
  of `AllocOpsProofs` that the instructions a helper emits do to a stack what the
  helper does to the symbolic one (`Tracks`).
* `MachineInvariant`: before every emitted instruction the machine that runs the code
  holds the value of each register where the machine of registers holds the register.
  The step that needs most is a branch: what the successor needs in memory is in memory
  at the end of the block, because a register live into a successor is live out of the
  block (`LiveBefore`).  `LiveInBlocks` iterates over the predecessors as often as there
  are blocks; that this reaches a fixed point follows from the cardinality of the
  growing sets.
* `StackSuffices`, `NothingLeaks`, `LiveValuesStay` and `TypeCorrect` follow, and
  `CodeImplementsFunction`: SWAP, DUP, POP and slot accesses are stutters of
  `RegMachine`, an instruction is its `Execute`, and it finds exactly the values of its
  registers.  These theorems have the hypothesis `Allowed = {}`, the value in the
  passing runs: the code of a function in which a hazard was met is not run.  It is
  what the allocator gets wrong that the hazards list, so without the hypothesis
  instructions get wrong operands (`bug_long_loop`).

`VRegToMemProofs` (assumption `FunctionsAssumption`, which is `IsSelected`: an argument
is selected at most once and with a register of its own, since `LowerFormalArguments`
creates one `pSTACKARG` with a fresh register per argument; no branch leads to the
entry block).

* `PassInvariant`: at each stage the body is what the parts of `EVMArgumentMove` so far
  make of the selected function, and then the code written is that of the
  instructions visited so far, each register having the slot of its place in the
  order of first definitions.
* `ArgumentsInPlace`, `OnlyTwoHazards`, `FrameCoversSlots` follow from it.
* `RunInvariant`: relates the machine running the code to the function.  Between two
  instructions the stack is empty, in the part of the entry block that stores
  arguments it holds those not yet stored (`Between`), before an instruction the
  operands loaded so far (`Loading`), after it its result (`Storing`); every other
  value is in its slot.
* `TypeCorrect`, `BlocksLeaveNothing` follow, and so does `CodeImplementsReversed`:
  loads and stores are stutters of the register machine, an instruction is its
  `Execute`.  A register that has no value on the path taken may be read as anything,
  in `RegMachine` as in the code, so no assumption about paths is needed.

`CodeLayoutProofs` and `CodeExecProofs` (assumptions `ProgramAssumption`: constants are
not negative, no SWAP, DUP or call reaches deeper than sixteen, slots and branch targets
exist, the last block of a function does not fall through; and `EntryAssumption`: a
runtime has put a frame pointer behind the two pointer words).

* `TargetsHold`, for every program: once the object is loaded, all fixups are resolved,
  and each block label and each return address is a JUMPDEST that the machine
  recognises, although it knows nothing but bytes and constants may contain any.  The
  code of one source instruction depends on that instruction only (`Final`); what
  `FlattenSeq` makes of the pieces is said by lemmas (`Laid`, `FlattenLaid`) that follow
  from `SetInduction`.  The invariant is about a sequence that no variable holds, the
  tape: all items written so far with their offsets.  `Tape(T)` says that they follow
  each other without gaps, that their bytes are in `contents`, and that the two bytes of
  a symbol either wait for a fixup or hold its address.  `Loading(T)` follows the scan
  for jump destinations along the tape: it never falls inside a PUSH.
* `NoFaultHolds`, `CodeTypeOK`, `CodeImplementsProgram`, `CodeImplementsFrames`: the bytes
  never fault, and do to stack, slots and memory what `BlockProgram` and `CallFrames`
  prescribe.  In the middle of a source instruction the machine is before one of its
  items, and there is a row for each item (`InsideWith`, `LocalRow`, `CallRow`, and
  `BackRow` behind a call) that says what has become of stack and memory since the
  instruction began.  `FramesOK` says that the frames of the active calls lie one behind
  the other and that the words leading back to each caller are in place; it is needed
  because the instructions behind a call run in the frame that the callee restores.
  `CodeInv`, that there is a tape for which all this holds, is inductive.
* The hypothesis of these theorems, `Disciplined`, is about the program and not about the
  passes: at each of its instructions there are as many operands as it takes, a call
  finds the address of a function and a return an address behind a call of its caller,
  and addresses stay below 2^24, the numbers the model computes with.  The allocators
  provide it (`StackSuffices`, `NothingLeaks`), for calls instruction selection does.
  It is an invariant of `code_exec`.  `CodeImplementsFrames` also assumes `WithinFrames`:
  the values stored and the depth of calls are among those over which `CallFrames`, as
  instantiated, ranges.

Model-checked only: liveness (`MergingEnds`), which is outside the prover's reach, and `Disciplined`, which is a hypothesis about the program.
Every other property of a passing run is a theorem.

## 5. Not modelled

* Instruction selection and lowering: pattern tables driven by generated code.  Where
  its result matters (operand order of calls, branches, arguments) the modules start
  from it.  That global slots are keyed by `SDNode` pointers, which may be reused
  (`EVMISelDAGToDAG.cpp:143`), is recorded as a hazard; when addresses are reused is
  the allocator's business, and a model would have to invent it.
* Targets with subroutine opcodes (BEGINSUB, JUMPSUB, RETURNSUB).
* Variable-sized stack objects, whose lowering is marked FIXME; `expandADJFP` and
  `Reg2Local`, which nothing feeds; varargs.
* Stacks deeper than sixteen elements: nothing in the code bounds them, and a
  function that emits such a SWAP is not run (`reach`).
* In `EVMConvertRegToStack`: a PUSH32_r of a register (it becomes DUP1), pSTACKARG_r and
  pMOVE_r (they leave no code), and opcodes without a stack form (section 3).
* Negative immediates, which instruction selection does not produce; `deploy.size`;
  debug information.
* Assembly printing, parsing and disassembly, target registration, passes that are
  not in the pipeline, and the Python test driver: text and tables.
* The rest of LLVM.  `MachineBasicBlock` is modelled where it drives the target's
  branch hooks; other targets and the middle end are not part of this program's
  own logic.

## 6. Open

All invariants and refinements that the runs check are proved, but for `Disciplined`;
liveness is checked on small instances only.  Two hypotheses could be discharged or weakened.  `Disciplined` is
assumed of the program in `CodeExecProofs` and proved, in other terms, of what the
allocators emit; a module that hands the code of `StackExec` to `CodeEmission` would join
the two, but needs a symbolic model of calls in `StackAlloc`, which treats them as
instructions.  `InExecutionOrder` excludes functions with an empty block, for which
`SlotsKept` may hold as well.
