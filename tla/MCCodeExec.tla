------------------------------ MODULE MCCodeExec ------------------------------
(* A program with a loop, branches both ways, an empty block, calls with   *)
(* zero to two arguments, a call inside a called function and a recursive  *)
(* one.  Stack contents are noted top first.                               *)
EXTENDS CodeExec

Const(n) == MI(PUSH32, Imm(n))
Open == MI(PUSH32, [kind |-> "open"])
Addr(f) == MI(PUSH32, Symbol(f, 1))
Get(n) == MI(pGETLOCAL, Count(n))
Put(n) == MI(pPUTLOCAL, Count(n))
CallWith(n) == MI(pJUMPSUB, Count(n))
Swap(n) == MI(SWAP_r, Count(n))
Dup(n) == MI(DUP_r, Count(n))
JumpTo(f, b) == MI(pJUMPTO, Symbol(f, b))
JumpIf(f, b) == MI(pJUMPIF, Symbol(f, b))
Ret == Plain(pRETURNSUB)
In == Plain(CALLDATASIZE)

MainBlocks ==
  << << Open >>,
     << In, Put(0), Addr("f"), Get(0), CallWith(2), Put(1),
        Get(0), JumpIf("main", 5) >>,
     << Addr("h"), CallWith(1), JumpTo("main", 2) >>,
     << >>,
     << Get(1), Dup(2), Swap(2), Plain(POP), Plain(STOP) >> >>

(* arg, return address                                                     *)
FBlocks ==
  << << Put(0), Addr("g"), Get(0), In, CallWith(3), Swap(1), Ret >> >>

(* arg1, arg2, return address                                              *)
GBlocks ==
  << << Put(0), JumpIf("g", 3) >>,
     << Get(0), Swap(1), Ret >>,
     << Addr("g"), Const(0), Get(0), CallWith(3), Swap(1), Ret >> >>

HBlocks == << << Ret >> >>

MCFuncs == <<"main", "f", "g", "h">>
MCProgram ==
  [main |-> [blocks |-> MainBlocks, slots |-> 2, objects |-> 0],
   f    |-> [blocks |-> FBlocks,    slots |-> 1, objects |-> 1],
   g    |-> [blocks |-> GBlocks,    slots |-> 1, objects |-> 0],
   h    |-> [blocks |-> HBlocks,    slots |-> 0, objects |-> 0]]

Zeros(n) == [i \in 1 .. n |-> 0]
Ones(n) == [i \in 1 .. n |-> 255]
Dest(n) == [i \in 1 .. n |-> JUMPDEST]
CImm(s) == [kind |-> "cimm", bytes |-> Zeros(32 - Len(s)) \o s]
Imm64(s) == [kind |-> "imm", bytes |-> Zeros(8 - Len(s)) \o s]

(* Zero, the sizes where one more byte is needed, the largest numbers, and *)
(* numbers made of the byte that is a JUMPDEST.                            *)
MCOperands ==
  { Imm64(<< >>), Imm64(Ones(1)), Imm64(<<1, 0>>), Imm64(Dest(3)),
    Imm64(<<127>> \o Ones(7)),
    CImm(<< >>), CImm(Ones(1)), CImm(<<1, 0>>), CImm(Ones(8)),
    CImm(<<1>> \o Zeros(8)), CImm(Dest(17)), CImm(Ones(32)) }

MCInputs == { << >>, <<1>> }
=============================================================================
