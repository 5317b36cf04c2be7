---------------------------- MODULE OperandOrder ----------------------------
(***************************************************************************)
(* One instruction meeting a symbolic stack: handleUses arranges and pops  *)
(* its operands, cleanUpDeadRegisters drops the operands that died.  The   *)
(* registers of the stack are pairwise different (StackAlloc checks that), *)
(* so up to renaming the stack is 1, 2, ..., n with n on top; the          *)
(* registers n+1 .. n+MemRegs live in memory, register r in slot r-n-1.    *)
(***************************************************************************)
EXTENDS OperandOps, FiniteSets, TLC

CONSTANTS
  MaxDepth,   \* the deepest stack the instruction may meet
  MemRegs,    \* how many registers live in memory
  MaxUses     \* the most operands an instruction has

ASSUME OperandBounds == MaxDepth \in Nat /\ MemRegs \in Nat /\ MaxUses \in Nat

VARIABLES
  depth,   \* size of the stack before the instruction
  uses,    \* the operands: a sequence of RegUseType records
  gen,     \* the generator state
  phase

vars == <<depth, uses, gen, phase>>

RegUse(n, reg, last) ==
  [reg |-> reg, isLastUse |-> last, isMemUse |-> reg > n,
   slot |-> IF reg > n THEN reg - n - 1 ELSE 0]

(* Operand lists over a stack of size n.  The flag isLastUse belongs to    *)
(* the register, not to the operand: regIsLastUse looks for uses in LATER  *)
(* instructions, so two operands with one register carry the same flag.    *)
OperandLists(n) ==
  LET regs == 1 .. (n + MemRegs)
  IN  UNION { UNION { { [i \in 1 .. k |-> RegUse(n, rs[i], rs[i] \in dying)] :
                          rs \in [1 .. k -> regs] } :
                      dying \in SUBSET regs } :
              k \in 0 .. MaxUses }

Init ==
  /\ depth \in 0 .. MaxDepth
  /\ uses \in OperandLists(depth)
  /\ gen = Gen([i \in 1 .. depth |-> i])
  /\ phase = "uses"

HandleUses ==
  /\ phase = "uses"
  /\ gen' = ConsumeOperands(gen, uses)
  /\ phase' = "clean"
  /\ UNCHANGED <<depth, uses>>

CleanUpDeadRegisters ==
  /\ phase = "clean"
  /\ gen.error = NoError
  /\ gen' = CleanUp(gen, uses)
  /\ phase' = "done"
  /\ UNCHANGED <<depth, uses>>

Next == HandleUses \/ CleanUpDeadRegisters

Spec == Init /\ [][Next]_vars
-----------------------------------------------------------------------------
Dying == { uses[i].reg : i \in { j \in DOMAIN uses : uses[j].isLastUse } }
Survivors == (1 .. depth) \ Dying

StackRegs == { gen.stack[i] : i \in DOMAIN gen.stack }

(* The three operand patterns the handlers do not cope with.               *)
TwoInPlace ==
  /\ Len(uses) = 2
  /\ ~uses[1].isMemUse /\ ~uses[2].isMemUse
  /\ uses[1].isLastUse /\ ~uses[2].isLastUse
  /\ uses[2].reg = depth - 1
  /\ uses[1].reg # depth

RepeatedDying ==
  \E i, j \in DOMAIN uses :
    /\ i # j
    /\ uses[i].reg = uses[j].reg
    /\ uses[i].isLastUse /\ ~uses[i].isMemUse

DyingInMemory ==
  /\ Len(uses) > 2
  /\ \E i \in DOMAIN uses : uses[i].isLastUse /\ uses[i].isMemUse

(* Outside those patterns no assertion and no llvm_unreachable of the      *)
(* handlers is reached: in particular the element popped for operand i is  *)
(* operand i, whatever depths the operands start from.                     *)
OperandsInOrder ==
  gen.error # NoError => TwoInPlace \/ RepeatedDying \/ DyingInMemory

(* When an instruction is finished, the stack holds each register that is  *)
(* still needed exactly once and nothing else: SWAP at a last use, DUP     *)
(* elsewhere and the final clean-up neither lose nor leak an element.      *)
OnlySurvivorsRemain ==
  (phase = "done" /\ gen.error = NoError /\ ~TwoInPlace) =>
    /\ StackRegs = Survivors
    /\ Len(gen.stack) = Cardinality(Survivors)
=============================================================================
