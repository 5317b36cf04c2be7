----------------------------- MODULE EVMEncoding -----------------------------
(***************************************************************************)
(* From stack instructions to bytes: the sizes EVMShrinkPush chooses, the  *)
(* expansions of EVMExpandPseudos and EVMConvertRegToStack, and what       *)
(* EVMMCCodeEmitter and EVMAsmBackend write.                               *)
(*                                                                         *)
(* A number is the sequence of its bytes, most significant first: eight    *)
(* for an int64_t, thirty-two for a 256-bit constant.  On the stack of the *)
(* machine it is kept without leading zeros.                               *)
(***************************************************************************)
EXTENDS Naturals, Sequences, FiniteSets, SequencesExt

Leading(s, x) ==
  Cardinality({ i \in DOMAIN s : \A j \in 1 .. i : s[j] = x })

LastBytes(s, n) == SubSeq(s, Len(s) - n + 1, Len(s))

Word(s) == LastBytes(s, Len(s) - Leading(s, 0))

(* Addresses and other small numbers, up to three bytes.                   *)
Limit == 256 * 256 * 256
Digits(n) == << ((n \div 256) \div 256) % 256, (n \div 256) % 256, n % 256 >>
NumberOf(w) ==
  LET s == <<0, 0, 0>> \o w
      k == Len(s)
  IN  IF Len(w) > 3 THEN Limit
      ELSE 256 * (256 * s[k - 2] + s[k - 1]) + s[k]

(* Operands: a slot or a number of registers, an immediate, a wide         *)
(* immediate ("cimm"), a block or function.                                *)
Count(n) == [kind |-> "count", n |-> n]
Imm(n) == [kind |-> "imm", bytes |-> <<0, 0, 0, 0, 0>> \o Digits(n)]
Symbol(f, b) == [kind |-> "symbol", f |-> f, b |-> b]
NoOperand == [kind |-> "none"]

MI(op, arg) == [op |-> op, arg |-> arg]

STOP == 0
ADD == 1
SUB == 3
SIGNEXTEND == 11
CALLDATASIZE == 54
POP == 80
MLOAD == 81
MSTORE == 82
JUMP == 86
JUMPI == 87
GETPC == 88
JUMPDEST == 91
PUSH1 == 96
PUSH32 == 127
DUP1 == 128
SWAP1 == 144

(* Pseudo instructions, numbered above the bytes.                          *)
pJUMPTO == 256
pJUMPIF == 257
pGETLOCAL == 258
pPUTLOCAL == 259
pJUMPSUB == 260
pRETURNSUB == 261
SWAP_r == 262
DUP_r == 263

Plain(op) == MI(op, NoOperand)
Push(n) == MI(PUSH32, Imm(n))
IsPush(op) == op \in PUSH1 .. PUSH32
-----------------------------------------------------------------------------
(* EVMExpandPseudos: jumps push the address of the block, slots are words  *)
(* behind the stack objects (fiSize words) of the frame.                   *)
ExpandJUMP(mi) ==
  << MI(PUSH32, mi.arg), Plain(IF mi.op = pJUMPTO THEN JUMP ELSE JUMPI) >>

ExpandLOCAL(mi, fpaddr, fiSize) ==
  << Push(fpaddr), Plain(MLOAD), Push(32 * (mi.arg.n + fiSize)), Plain(ADD),
     Plain(IF mi.op = pGETLOCAL THEN MLOAD ELSE MSTORE) >>

ExpandPseudo(mi, fpaddr, fiSize) ==
  IF mi.op \in {pJUMPTO, pJUMPIF} THEN ExpandJUMP(mi)
  ELSE IF mi.op \in {pGETLOCAL, pPUTLOCAL} THEN ExpandLOCAL(mi, fpaddr, fiSize)
  ELSE << mi >>

(* EVMConvertRegToStack: the code around the jump to a callee, index being *)
(* the word of the frame that keeps the frame pointer.                     *)
MoveFramePointer(fpaddr, index) ==
  << Push(fpaddr), Plain(MLOAD), Plain(DUP1), Push(32 * index), Plain(ADD),
     Plain(MSTORE),
     Push(fpaddr), Plain(MLOAD), Push(32 * (index + 1)), Plain(ADD), Plain(DUP1),
     Push(fpaddr), Plain(MSTORE), Push(fpaddr + 32), Plain(MSTORE) >>

SWAPOpcode(n) == SWAP1 + n - 1
DUPOpcode(n) == DUP1 + n - 1

(* Mutant: the length of the SWAP is forgotten.                            *)
JumpToCalleeTooShort(uses) ==
  << MI(PUSH1, Imm(3)), Plain(GETPC), Plain(ADD), Plain(SWAPOpcode(uses)),
     Plain(JUMP) >>

JumpToCallee(uses) ==
  << MI(PUSH1, Imm(4)), Plain(GETPC), Plain(ADD), Plain(SWAPOpcode(uses)),
     Plain(JUMP) >>

RestoreFramePointer(fpaddr) ==
  << Plain(JUMPDEST), Push(fpaddr), Plain(MLOAD), Push(32), Plain(SWAP1),
     Plain(SUB), Plain(MLOAD), Push(fpaddr), Plain(MSTORE) >>

(* "swapIdx = (swapIdx > 16) ? 16 : swapIdx"                               *)
ConvertSWAP(n) == Plain(SWAPOpcode(IF n > 16 THEN 16 ELSE n))

ConvertInstr(mi, fpaddr, index) ==
  CASE mi.op = SWAP_r     -> << ConvertSWAP(mi.arg.n) >>
    [] mi.op = DUP_r      -> << Plain(DUPOpcode(mi.arg.n)) >>
    [] mi.op = pRETURNSUB -> << Plain(JUMP) >>
    [] mi.op = pJUMPSUB   -> MoveFramePointer(fpaddr, index)
                               \o JumpToCallee(mi.arg.n)
                               \o RestoreFramePointer(fpaddr)
    [] OTHER              -> << mi >>
-----------------------------------------------------------------------------
(* EVMShrinkPush.  An immediate is negative if its first bit is set.       *)
Negative(imm) == imm[1] >= 128

(* Mutant: zero needs no byte.                                             *)
GetImmSizeOfZero(imm) ==
  IF Negative(imm) THEN 8 - Leading(imm, 255) ELSE 8 - Leading(imm, 0)

GetImmSize(imm) ==
  IF Negative(imm) THEN 8 - Leading(imm, 255)
  ELSE LET bytes == 8 - Leading(imm, 0) IN IF bytes = 0 THEN 1 ELSE bytes

GetPushOpcode(n) == PUSH1 + n - 1

ShrinkImm(imm) ==
  LET s    == GetImmSize(imm)
      push == MI(GetPushOpcode(s), [kind |-> "imm", bytes |-> imm])
  IN  IF Negative(imm) THEN << push, MI(PUSH1, Imm(s)), Plain(SIGNEXTEND) >>
      ELSE << push >>

ActiveBytes(c) == LET n == 32 - Leading(c, 0) IN IF n = 0 THEN 1 ELSE n

(* Mutant: sixty-four bits are taken of every constant.                    *)
ShrinkCImmAll(c) ==
  LET n == IF ActiveBytes(c) <= 8 THEN ActiveBytes(c) ELSE 8
  IN  << MI(GetPushOpcode(n), [kind |-> "imm", bytes |-> LastBytes(c, 8)]) >>

ShrinkCImm(c) ==
  IF ActiveBytes(c) <= 8
  THEN << MI(GetPushOpcode(ActiveBytes(c)), [kind |-> "imm", bytes |-> LastBytes(c, 8)]) >>
  ELSE << MI(PUSH32, [kind |-> "cimm", bytes |-> c]) >>

ShrinkPush(mi) ==
  IF mi.op # PUSH32 THEN << mi >>
  ELSE CASE mi.arg.kind = "imm"    -> ShrinkImm(mi.arg.bytes)
         [] mi.arg.kind = "cimm"   -> ShrinkCImm(mi.arg.bytes)
         [] mi.arg.kind = "symbol" -> << MI(GetPushOpcode(2), mi.arg) >>
-----------------------------------------------------------------------------
(* encodeInstruction: the opcode, and behind a push the bytes of its       *)
(* immediate or two zero bytes for a fixup.                                *)
EncodeInstruction(mi) ==
  << mi.op >> \o
  IF ~IsPush(mi.op) THEN << >>
  ELSE IF mi.arg.kind = "symbol" THEN << 0, 0 >>
  ELSE LastBytes(mi.arg.bytes, mi.op - PUSH1 + 1)

(* Mutant: the higher byte is not cut to a byte.                           *)
ApplyWholeValue(contents, offset, value) ==
  [contents EXCEPT ![offset + 1] = value, ![offset + 2] = value % 256]

(* applyFixupValue: two bytes, the higher first.                           *)
ApplyFixupValue(contents, offset, value) ==
  [contents EXCEPT ![offset + 1] = (value \div 256) % 256,
                   ![offset + 2] = value % 256]
=============================================================================
