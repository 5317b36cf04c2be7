------------------------------- MODULE CodeExec -------------------------------
(***************************************************************************)
(* The emitted bytes on an EVM, against the program they come from.  The   *)
(* machine knows bytes, a stack of words and memory, and nothing of        *)
(* blocks, slots, calls or activations.  What a reader of the program      *)
(* would see is recorded when the program counter reaches the bytes of the *)
(* next source instruction (history variables seen and frames).            *)
(***************************************************************************)
EXTENDS CodeEmission

CONSTANTS
  Main,       \* the entry function: the first of Funcs
  EntryFP,    \* the frame pointer left in memory by the entry code
  Inputs,     \* words the environment may supply
  MaxDepth    \* more than the depth of calls in the program

(* A runtime has put a frame pointer behind the two pointer words, within  *)
(* the numbers the model computes with.                                    *)
ASSUME EntryAssumption ==
  /\ Main \in ToSet(Funcs) /\ Program[Main].blocks[1] # << >>
  /\ EntryFP \in Nat /\ EntryFP >= FPAddr + 64 /\ EntryFP < Limit
  /\ \A w \in Inputs : w \in Seq(0 .. 255)

VARIABLES
  pc,         \* offset of the next instruction
  stack,      \* the top first
  mem,        \* address of a memory word -> contents
  status,     \* "loading", "running", "stopped" or "fault"
  dests,      \* the valid jump destinations
  frames,     \* history: the functions active and their frame pointers
  seen        \* history: the state at the last source instruction

execVars == <<pc, stack, mem, status, dests, frames, seen>>
vars == <<chosen, prefix, stage, cur, code, at, contents, fixups, labels,
          origin, back, pc, stack, mem, status, dests, frames, seen>>

Num(n) == Word(Digits(n))
MLoad(m, a) == IF a \in DOMAIN m THEN m[a] ELSE << >>

ExecInit ==
  /\ pc = prefix
  /\ stack = << >>
  /\ mem = [a \in {FPAddr} |-> Num(EntryFP)]
  /\ status = "loading"
  /\ dests = {}
  /\ frames = << [f |-> Main, fp |-> EntryFP] >>
  /\ seen = [pos |-> <<Main, 1, 1>>, stack |-> << >>, mem |-> mem, got |-> 0]

ByteAt(p) == contents[p - prefix + 1]
End == prefix + Len(contents)
DataSize(op) == IF IsPush(op) THEN op - PUSH1 + 1 ELSE 0

(* The machine first marks the jump destinations: it reads the code from   *)
(* the beginning, and what is behind a push is data, whatever its bytes.   *)
Analyze ==
  /\ stage = "run" /\ status = "loading"
  /\ pc < End
  /\ dests' = IF ByteAt(pc) = JUMPDEST THEN dests \cup {pc} ELSE dests
  /\ pc' = pc + 1 + DataSize(ByteAt(pc))
  /\ UNCHANGED <<stack, mem, status, frames, seen>>
  /\ UNCHANGED emitVars

(* Execution begins with the first function.                               *)
Start ==
  /\ stage = "run" /\ status = "loading"
  /\ pc >= End
  /\ pc' = labels[<<Main, 1>>]
  /\ status' = "running"
  /\ UNCHANGED <<stack, mem, dests, frames, seen>>
  /\ UNCHANGED emitVars

Fetch == ByteAt(pc)
Data(n) == SubSeq(contents, pc - prefix + 2, pc - prefix + 1 + n)

Needs(n) == Len(stack) >= n
Rest(n) == SubSeq(stack, n + 1, Len(stack))
Val(k) == NumberOf(stack[k])

(* One instruction: the program counter, stack and memory that follow.     *)
Result(p, s, m) == [pc |-> p, stack |-> s, mem |-> m]

Jump(dest, s) == Result(IF dest \in dests THEN dest ELSE 0 - 1, s, mem)

Results ==
  LET op == Fetch
      n  == op - PUSH1 + 1
  IN  CASE IsPush(op) ->
             {Result(pc + 1 + n, << Word(Data(n)) >> \o stack, mem)}
        [] op \in DUP1 .. DUP1 + 15 /\ Needs(op - DUP1 + 1) ->
             {Result(pc + 1, << stack[op - DUP1 + 1] >> \o stack, mem)}
        [] op \in SWAP1 .. SWAP1 + 15 /\ Needs(op - SWAP1 + 2) ->
             {Result(pc + 1, [stack EXCEPT ![1] = stack[op - SWAP1 + 2],
                                           ![op - SWAP1 + 2] = stack[1]], mem)}
        [] op = CALLDATASIZE ->
             { Result(pc + 1, << w >> \o stack, mem) : w \in Inputs }
        [] op = POP /\ Needs(1) -> {Result(pc + 1, Rest(1), mem)}
        [] op = JUMPDEST -> {Result(pc + 1, stack, mem)}
        [] op = GETPC -> {Result(pc + 1, << Num(pc) >> \o stack, mem)}
        [] op = ADD /\ Needs(2) ->
             {Result(pc + 1, << Num(Val(1) + Val(2)) >> \o Rest(2), mem)}
        [] op = SUB /\ Needs(2) /\ Val(1) >= Val(2) ->
             {Result(pc + 1, << Num(Val(1) - Val(2)) >> \o Rest(2), mem)}
        [] op = MLOAD /\ Needs(1) ->
             {Result(pc + 1, << MLoad(mem, Val(1)) >> \o Rest(1), mem)}
        [] op = MSTORE /\ Needs(2) ->
             {Result(pc + 1, Rest(2), Written(mem, Val(1), stack[2]))}
        [] op = JUMP /\ Needs(1) -> {Jump(Val(1), Rest(1))}
        [] op = JUMPI /\ Needs(2) ->
             {IF stack[2] = << >> THEN Result(pc + 1, Rest(2), mem)
              ELSE Jump(Val(1), Rest(2))}
        [] OTHER -> {Result(0 - 1, stack, mem)}

(* Anything else than a known instruction with its operands, or a jump to  *)
(* something that is no JUMPDEST, ends execution with an exception.        *)
Faults(r) == r.pc = 0 - 1

SourceInstr == Program[seen.pos[1]].blocks[seen.pos[2]][seen.pos[3]]

(* The reader's view moves when a source instruction has been completed.   *)
FramesAfter(r) ==
  CASE SourceInstr.op = pJUMPSUB ->
         Append(frames, [f  |-> origin[r.pc][1],
                         fp |-> NumberOf(MLoad(r.mem, FPAddr))])
    [] SourceInstr.op = pRETURNSUB -> SubSeq(frames, 1, Len(frames) - 1)
    [] OTHER -> frames

Execute ==
  /\ status = "running"
  /\ pc < End /\ Fetch # STOP
  /\ \E r \in Results :
       IF Faults(r)
       THEN /\ status' = "fault"
            /\ UNCHANGED <<pc, stack, mem, frames, seen>>
       ELSE /\ pc' = r.pc /\ stack' = r.stack /\ mem' = r.mem
            /\ UNCHANGED status
            /\ IF r.pc \in DOMAIN origin
               THEN /\ frames' = FramesAfter(r)
                    /\ seen' = [pos |-> origin[r.pc], stack |-> r.stack, mem |-> r.mem,
                                got |-> IF SourceInstr.op = pGETLOCAL
                                        THEN NumberOf(r.stack[1]) ELSE seen.got]
               ELSE UNCHANGED <<frames, seen>>
  /\ UNCHANGED dests
  /\ UNCHANGED emitVars

Stop ==
  /\ status = "running"
  /\ pc >= End \/ Fetch = STOP
  /\ status' = "stopped"
  /\ UNCHANGED <<pc, stack, mem, dests, frames, seen>>
  /\ UNCHANGED emitVars

Init == EmitInit /\ ExecInit
Compile == EmitNext /\ UNCHANGED execVars
Next == Compile \/ Analyze \/ Start \/ Execute \/ Stop

Spec == Init /\ [][Next]_vars
-----------------------------------------------------------------------------
TypeOK ==
  /\ \A i \in DOMAIN contents : contents[i] \in 0 .. 255
  /\ \A fx \in ToSet(fixups) : fx[1] \in 1 .. Len(contents) - 2
  /\ status \in {"loading", "running", "stopped", "fault"}
  /\ frames # << >>

(* No jump misses its JUMPDEST, no byte of a pushed number is executed, no *)
(* operand is missing: with code of any length before it and constants of  *)
(* any size inside.  Code for which a fixup would not fit is not written.  *)
NoFault == status # "fault"

(* Whatever the program does: once the machine has read the code, the      *)
(* label of every block and every return address is a jump destination,    *)
(* although constants of any bytes lie between them, and the fixups have   *)
(* all been resolved.                                                      *)
TargetsAreDests ==
  status # "loading" =>
    /\ \A f \in DOMAIN Program : \A b \in 1 .. Len(Program[f].blocks) :
         labels[<<f, b>>] \in dests
    /\ \A p \in DOMAIN back : back[p] \in dests
    /\ fixups = << >>

(* What the program must do itself: there are operands for its             *)
(* instructions, calls go to functions and returns to the caller; and the  *)
(* frames and the code stay within the numbers the model computes with.    *)
OperandsOf(i) ==
  CASE i.op \in {POP, pPUTLOCAL, pJUMPIF, pRETURNSUB} -> 1
    [] i.op \in {DUP_r, pJUMPSUB} -> i.arg.n
    [] i.op = SWAP_r -> i.arg.n + 1
    [] OTHER -> 0

CallsFunction ==
  SourceInstr.op = pJUMPSUB =>
    \E g \in DOMAIN Program : seen.stack[SourceInstr.arg.n] = Num(labels[<<g, 1>>])

ReturnsToCaller ==
  SourceInstr.op = pRETURNSUB =>
    /\ Len(frames) > 1
    /\ \E p \in DOMAIN back :
         p[1] = frames[Len(frames) - 1].f /\ seen.stack[1] = Num(back[p])

NextAt(f) == 32 * (SaveIndex(f) + 1)
Addressable ==
  /\ End <= Limit
  /\ \A k \in DOMAIN frames : frames[k].fp + NextAt(frames[k].f) < Limit

(* At each of its instructions the program finds its operands, a function  *)
(* to call and its caller's return address, if the code of the             *)
(* instructions before has left them on the stack.                         *)
Disciplined ==
  status = "running" =>
    /\ Len(seen.stack) >= OperandsOf(SourceInstr)
    /\ CallsFunction /\ ReturnsToCaller /\ Addressable

(* Addresses as the program sees them: words, known once the code is       *)
(* placed; and the slots of the active functions, read from memory.        *)
EntryWords ==
  IF status = "loading" THEN << >>
  ELSE [f \in ToSet(Funcs) |-> Num(labels[<<f, 1>>])]
BackWords ==
  IF status = "loading" THEN << >> ELSE [p \in DOMAIN back |-> Num(back[p])]
SlotAddress(frame, n) == frame.fp + 32 * (n + Program[frame.f].objects)
SlotsOf(F, M) ==
  [k \in DOMAIN F |-> [n \in 0 .. Program[F[k].f].slots - 1 |->
                        MLoad(M, SlotAddress(F[k], n))]]

(* The bytes do what the instructions of the program say: whatever the     *)
(* constants, branches and calls, the stack and the slots of every active  *)
(* function agree with the program at each of its instructions.            *)
Blk == INSTANCE BlockProgram WITH
  entry <- EntryWords,
  back  <- BackWords,
  pos   <- seen.pos,
  ops   <- seen.stack,
  slots <- SlotsOf(frames, seen.mem)
ImplementsProgram == Blk!BSpec

(* What CallFrames bounds: the values stored, the depth of calls; and it   *)
(* does not call the entry function.                                       *)
InputNumbers == { NumberOf(w) : w \in Inputs }
WithinFrames ==
  status = "running" =>
    /\ SourceInstr.op = pPUTLOCAL => NumberOf(seen.stack[1]) \in InputNumbers
    /\ SourceInstr.op = pJUMPSUB =>
         /\ Len(frames) < MaxDepth
         /\ seen.stack[SourceInstr.arg.n] # Num(labels[<<Main, 1>>])

Numbers(m) == [a \in DOMAIN m |-> NumberOf(m[a])]

(* The code of the call sequence, of slots and of returns does to memory   *)
(* what the frames of CallFrames prescribe.                                *)
Frm == INSTANCE CallFrames WITH
  Funcs <- ToSet(Funcs),
  memoryFrameSize <- [f \in ToSet(Funcs) |-> Program[f].slots],
  StackObjects <- [f \in ToSet(Funcs) |-> Program[f].objects],
  GlobalSlots <- [f \in ToSet(Funcs) |-> AllocatedGlobalSlots],
  Vals <- InputNumbers,
  mem <- Numbers(seen.mem),
  depth <- Len(frames),
  calls <- frames,
  got <- seen.got
ImplementsFrames == Frm!Spec
=============================================================================
