----------------------------- MODULE OperandOps -----------------------------
(***************************************************************************)
(* How EVMStackAlloc brings the operands of one instruction to the top of  *)
(* the stack.  Every helper of the code both inserts an instruction and    *)
(* applies it to the symbolic stack; here a generator state                *)
(*   g = [stack |-> symbolic stack, code |-> what was inserted,            *)
(*        error |-> the assertion or llvm_unreachable hit, or NoError]     *)
(* is threaded through them.  A use is the record RegUseType of the code   *)
(* with the slot of the register's assignment.                             *)
(***************************************************************************)
EXTENDS EVMStackStatus

NoError == "none"

Op(name, n) == [op |-> name, n |-> n]

Gen(st) == [stack |-> st, code |-> << >>, error |-> NoError]

Fail(g, why) == [g EXCEPT !.error = why]

Insert(g, op, st) == [g EXCEPT !.code = Append(@, op), !.stack = st]

(* Run step only when nothing failed before and guard (an assertion or the *)
(* llvm_unreachable of findRegDepth) is met.                               *)
Checked(g, guard, why, step) ==
  IF g.error # NoError THEN g ELSE IF guard THEN step ELSE Fail(g, why)

InsertSwapBefore(g, d) ==
  Checked(g, Len(g.stack) >= 2, "swap: size >= 2",
          Insert(g, Op("SWAP", d), Swap(g.stack, d)))

InsertDupBefore(g, index) ==
  Checked(g, index > 0, "dup: index > 0",
          Insert(g, Op("DUP", index), Dup(g.stack, index - 1)))

(* Mutant: the pop is applied to the symbolic stack, but not emitted.      *)
PopNotEmitted(g) ==
  Checked(g, g.stack # << >>, "pop of an empty stack",
          [g EXCEPT !.stack = Pop(@)])

InsertPopBefore(g) ==
  Checked(g, g.stack # << >>, "pop of an empty stack",
          Insert(g, Op("POP", 0), Pop(g.stack)))

InsertLoadFromMemoryBefore(g, use) ==
  Checked(g, TRUE, NoError,
          Insert(g, Op("GETLOCAL", use.slot), Push(g.stack, use.reg)))

SwapRegToTop(g, reg) ==
  Checked(g, IsOnStack(g.stack, reg), "Cannot find register on stack",
          LET depth == FindRegDepth(g.stack, reg)
          IN  IF depth # 0 THEN InsertSwapBefore(g, depth) ELSE g)

DupRegToTop(g, reg) ==
  Checked(g, IsOnStack(g.stack, reg), "Cannot find register on stack",
          InsertDupBefore(g, FindRegDepth(g.stack, reg) + 1))

(* Mutant: the last-use flag is not consulted.                             *)
AlwaysMove(g, use) == SwapRegToTop(g, use.reg)

(* A register on the stack is moved at its last use and copied otherwise.  *)
MoveOrCopy(g, use) ==
  IF use.isLastUse THEN SwapRegToTop(g, use.reg) ELSE DupRegToTop(g, use.reg)

HandleUnaryOpcode(g, use) ==
  IF use.isMemUse THEN InsertLoadFromMemoryBefore(g, use) ELSE MoveOrCopy(g, use)

-----------------------------------------------------------------------------
(* Case 4 of handleBinaryOpcode: both operands are on the stack.           *)

(* Mutant: the SWAP1 between the two moves is missing.                     *)
MovesWithoutSwap(g, r1, r2) == SwapRegToTop(SwapRegToTop(g, r2), r1)

BothLastUse(g, r1, r2) ==
  LET depth1 == FindRegDepth(g.stack, r1)
      depth2 == FindRegDepth(g.stack, r2)
  IN  CASE depth1 = 0 /\ depth2 = 1 -> g
        [] depth1 = 0 /\ depth2 # 1 ->
             Checked(g, depth2 >= 2, "depth2 >= 2",
                     SwapRegToTop(SwapRegToTop(InsertSwapBefore(g, 1), r2), r1))
        [] depth1 # 0 /\ depth2 = 1 -> SwapRegToTop(g, r1)
        [] depth1 = 1 /\ depth2 = 0 -> InsertSwapBefore(g, 1)
        [] OTHER ->
             SwapRegToTop(InsertSwapBefore(SwapRegToTop(g, r2), 1), r1)

(* The "2 in place" branch moves reg1 only: reg2, which has later uses, is *)
(* not duplicated.                                                         *)
FirstLastUse(g, r1, r2) ==
  LET depth1 == FindRegDepth(g.stack, r1)
      depth2 == FindRegDepth(g.stack, r2)
  IN  CASE depth1 = 0 -> SwapRegToTop(DupRegToTop(g, r2), r1)
        [] depth1 # 0 /\ depth2 = 1 -> SwapRegToTop(g, r1)
        [] OTHER -> SwapRegToTop(InsertSwapBefore(DupRegToTop(g, r2), 1), r1)

BothOnStack(g, u1, u2) ==
  CASE u1.isLastUse /\ u2.isLastUse   -> BothLastUse(g, u1.reg, u2.reg)
    [] u1.isLastUse /\ ~u2.isLastUse  -> FirstLastUse(g, u1.reg, u2.reg)
    [] ~u1.isLastUse /\ u2.isLastUse  ->
         DupRegToTop(SwapRegToTop(g, u2.reg), u1.reg)
    [] OTHER -> DupRegToTop(DupRegToTop(g, u2.reg), u1.reg)

HandleBinaryOpcode(g, u1, u2) ==
  CASE u1.isMemUse /\ u2.isMemUse ->
         InsertLoadFromMemoryBefore(InsertLoadFromMemoryBefore(g, u2), u1)
    [] u1.isMemUse /\ ~u2.isMemUse ->
         InsertLoadFromMemoryBefore(MoveOrCopy(g, u2), u1)
    [] ~u1.isMemUse /\ u2.isMemUse ->
         IF u1.isLastUse
         THEN SwapRegToTop(
                InsertLoadFromMemoryBefore(SwapRegToTop(g, u1.reg), u2), u1.reg)
         ELSE DupRegToTop(InsertLoadFromMemoryBefore(g, u2), u1.reg)
    [] OTHER -> BothOnStack(g, u1, u2)

(* Operands of calls and of other opcodes with more than two operands are  *)
(* all copied, last operand first; cleanUpDeadRegisters drops the dead     *)
(* originals after the instruction.                                        *)
HandleArbitraryOpcode(g, uses) ==
  LET n == Len(uses)
      place[k \in 0 .. n] ==
        IF k = 0 THEN g
        ELSE LET use == uses[n + 1 - k]
             IN  IF use.isMemUse
                 THEN InsertLoadFromMemoryBefore(place[k - 1], use)
                 ELSE DupRegToTop(place[k - 1], use.reg)
  IN  place[n]

ArrangeOperands(g, uses) ==
  CASE Len(uses) = 0 -> g
    [] Len(uses) = 1 -> HandleUnaryOpcode(g, uses[1])
    [] Len(uses) = 2 -> HandleBinaryOpcode(g, uses[1], uses[2])
    [] OTHER         -> HandleArbitraryOpcode(g, uses)

(* handleUses: arrange the operands, then pop them, asserting that the     *)
(* i-th element popped is the i-th operand.                                *)
ConsumeOperands(g, uses) ==
  LET placed == ArrangeOperands(g, uses)
      n == Len(uses)
  IN  Checked(placed,
              /\ Len(placed.stack) >= n
              /\ \A i \in 1 .. n : Get(placed.stack, i - 1) = uses[i].reg,
              "reg == useTypes[i].reg",
              [placed EXCEPT !.stack = Below(placed.stack, n)])

(* Mutant: the operand-count test is off by one.                           *)
CleanUpFromFour(g, uses) ==
  LET drop[k \in 0 .. Len(uses)] ==
        IF k = 0 THEN g
        ELSE IF uses[k].isLastUse
             THEN InsertPopBefore(SwapRegToTop(drop[k - 1], uses[k].reg))
             ELSE drop[k - 1]
  IN  IF Len(uses) <= 3 THEN g ELSE drop[Len(uses)]

(* cleanUpDeadRegisters: after an instruction with more than two operands, *)
(* swap each operand at its last use to the top and pop it, in order.  The *)
(* code does not ask whether the operand lives in memory.                  *)
CleanUp(g, uses) ==
  LET drop[k \in 0 .. Len(uses)] ==
        IF k = 0 THEN g
        ELSE IF uses[k].isLastUse
             THEN InsertPopBefore(SwapRegToTop(drop[k - 1], uses[k].reg))
             ELSE drop[k - 1]
  IN  IF Len(uses) <= 2 THEN g ELSE drop[Len(uses)]
=============================================================================
