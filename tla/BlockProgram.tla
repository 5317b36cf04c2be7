----------------------------- MODULE BlockProgram -----------------------------
(***************************************************************************)
(* What the instructions mean that the last passes turn into bytes: a      *)
(* program of functions and blocks over an operand stack, where every      *)
(* activation has slots of its own.  Where code is placed does not matter, *)
(* except that addresses of functions and return addresses are words on    *)
(* the stack: entry and back say which words.                              *)
(***************************************************************************)
EXTENDS EVMEncoding

CONSTANTS Main, Program, Inputs

VARIABLES
  entry,    \* function -> its address
  back,     \* position of a call -> its return address
  chosen,   \* the operand of the program's open constant
  pos,      \* the next instruction: function, block, index
  ops,      \* the operand stack, the top first
  slots     \* activation -> contents of its slots

bvars == <<entry, back, chosen, pos, ops, slots>>

Blocks(f) == Program[f].blocks

(* Behind the last instruction of a block comes the next block that has    *)
(* instructions.                                                           *)
Settle(f, b, i) ==
  IF i <= Len(Blocks(f)[b]) THEN <<f, b, i>>
  ELSE LET later == { c \in b + 1 .. Len(Blocks(f)) : Blocks(f)[c] # << >> }
       IN  IF later = {} THEN <<f, Len(Blocks(f)) + 1, 1>>
           ELSE <<f, CHOOSE c \in later : \A d \in later : c <= d, 1>>

After(p) == Settle(p[1], p[2], p[3] + 1)
StartOf(f, b) == Settle(f, b, 1)

Instr == Blocks(pos[1])[pos[2]][pos[3]]
Top == Head(ops)
Drop(n) == SubSeq(ops, n + 1, Len(ops))

BInit ==
  /\ DOMAIN entry = {}
  /\ pos = StartOf(Main, 1)
  /\ ops = << >>
  /\ DOMAIN slots = {1}

Pushed(w) == ops' = << w >> \o ops /\ UNCHANGED slots

Execute ==
  /\ \/ /\ Instr.op = PUSH32
        /\ CASE Instr.arg.kind = "symbol" -> Pushed(entry[Instr.arg.f])
             [] Instr.arg.kind = "open"   -> Pushed(Word(chosen.bytes))
             [] OTHER                     -> Pushed(Word(Instr.arg.bytes))
     \/ /\ Instr.op = CALLDATASIZE
        /\ \E w \in Inputs : Pushed(w)
     \/ /\ Instr.op = POP
        /\ ops' = Drop(1) /\ UNCHANGED slots
     \/ /\ Instr.op = SWAP_r
        /\ ops' = [ops EXCEPT ![1] = ops[Instr.arg.n + 1], ![Instr.arg.n + 1] = ops[1]]
        /\ UNCHANGED slots
     \/ /\ Instr.op = DUP_r
        /\ Pushed(ops[Instr.arg.n])
     \/ /\ Instr.op = pGETLOCAL
        /\ Pushed(slots[Len(slots)][Instr.arg.n])
     \/ /\ Instr.op = pPUTLOCAL
        /\ ops' = Drop(1)
        /\ slots' = [slots EXCEPT ![Len(slots)][Instr.arg.n] = Top]
  /\ pos' = After(pos)
  /\ UNCHANGED <<entry, back, chosen>>

Branch ==
  /\ \/ /\ Instr.op = pJUMPTO
        /\ pos' = StartOf(Instr.arg.f, Instr.arg.b)
        /\ UNCHANGED ops
     \/ /\ Instr.op = pJUMPIF
        /\ pos' = IF Top = << >> THEN After(pos)
                  ELSE StartOf(Instr.arg.f, Instr.arg.b)
        /\ ops' = Drop(1)
  /\ UNCHANGED <<entry, back, chosen, slots>>

(* The arguments stay on top, the return address takes the place of the    *)
(* function's; the slots of the new activation hold anything.              *)
Call ==
  /\ Instr.op = pJUMPSUB
  /\ \E g \in DOMAIN Program :
       /\ entry[g] = ops[Instr.arg.n]
       /\ pos' = StartOf(g, 1)
  /\ ops' = [ops EXCEPT ![Instr.arg.n] = back[pos]]
  /\ Len(slots') = Len(slots) + 1
  /\ \A k \in DOMAIN slots : slots'[k] = slots[k]
  /\ UNCHANGED <<entry, back, chosen>>

Return ==
  /\ Instr.op = pRETURNSUB
  /\ \E p \in DOMAIN back : back[p] = Top /\ pos' = After(p)
  /\ ops' = Drop(1)
  /\ slots' = SubSeq(slots, 1, Len(slots) - 1)
  /\ UNCHANGED <<entry, back, chosen>>

(* The program is given addresses before it starts.                        *)
Place ==
  /\ DOMAIN entry = {}
  /\ UNCHANGED <<chosen, pos, ops, slots>>

BNext == Place \/ Execute \/ Branch \/ Call \/ Return

BSpec == BInit /\ [][BNext]_bvars
=============================================================================
