----------------------------- MODULE CodeEmission -----------------------------
(***************************************************************************)
(* The last passes of the back end and the MC layer.  Function after       *)
(* function goes through EVMExpandPseudos, EVMConvertRegToStack,           *)
(* EVMShrinkPush and EVMFinalization and is then written, one instruction  *)
(* at a time, into one data fragment; when all are written the fixups are  *)
(* resolved against the offsets of the labels.                             *)
(***************************************************************************)
EXTENDS EVMEncoding

CONSTANTS
  Funcs,          \* the functions in the order of the module, as a sequence
  Program,        \* function -> its blocks, slots and words of stack objects
  AllocatedGlobalSlots,
  Operands,       \* operands the program's open constant may have
  PrefixSizes     \* sizes of the code that comes before, in bytes

(* What the passes before hand over.  A constant is not negative; a call   *)
(* has at most fifteen arguments and no SWAP or DUP reaches deeper than    *)
(* sixteen; the last block of a function does not fall through.            *)
Bytes(n) == { s \in Seq(0 .. 255) : Len(s) = n }
Constants ==
  [kind : {"imm"}, bytes : { s \in Bytes(8) : ~Negative(s) }]
    \cup [kind : {"cimm"}, bytes : Bytes(32)]

Instructions(f) ==
  [op : {PUSH32}, arg : Constants \cup {[kind |-> "open"]}
                          \cup { Symbol(g, 1) : g \in ToSet(Funcs) }]
    \cup [op : {CALLDATASIZE, POP, pRETURNSUB, STOP}, arg : {NoOperand}]
    \cup [op : {SWAP_r, DUP_r, pJUMPSUB}, arg : { Count(n) : n \in 1 .. 16 }]
    \cup [op : {pGETLOCAL, pPUTLOCAL},
          arg : { Count(n) : n \in 0 .. Program[f].slots - 1 }]
    \cup [op : {pJUMPTO, pJUMPIF},
          arg : { Symbol(f, b) : b \in DOMAIN Program[f].blocks }]

IsFunction(f) ==
  /\ Program[f].blocks \in Seq(Seq(Instructions(f)))
  /\ Program[f].blocks # << >> /\ Last(Program[f].blocks) # << >>
  /\ Last(Last(Program[f].blocks)).op \in {pJUMPTO, pRETURNSUB, STOP}
  /\ Program[f].slots \in Nat /\ Program[f].objects \in Nat

ASSUME ProgramAssumption ==
  /\ Funcs \in Seq(DOMAIN Program) /\ IsInjective(Funcs)
  /\ DOMAIN Program = ToSet(Funcs)
  /\ \A f \in DOMAIN Program : IsFunction(f)
  /\ AllocatedGlobalSlots \in Nat
  /\ Operands \subseteq Constants
  /\ PrefixSizes \subseteq Nat

VARIABLES
  chosen,     \* the operand of the open constant
  prefix,     \* the size of the code before
  stage,      \* what happens next
  cur,        \* the function being compiled: index into Funcs
  code,       \* its blocks; an instruction is paired with its origin
  at,         \* emission: block and instruction written next
  contents,   \* the bytes of the fragment
  fixups,     \* offsets to be patched and the labels they wait for, in order
  labels,     \* function and block -> offset
  origin,     \* history: offset -> the source instruction that starts there
  back        \* history: call -> offset of the JUMPDEST behind its jump

emitVars == <<chosen, prefix, stage, cur, code, at,
              contents, fixups, labels, origin, back>>

Fn == Funcs[cur]
FPAddr == 32 * AllocatedGlobalSlots

(* The program, the input of these passes: its instructions with their     *)
(* positions, and the open constant filled in.                             *)
Selected(f) ==
  [b \in DOMAIN Program[f].blocks |->
     [i \in DOMAIN Program[f].blocks[b] |->
        LET mi == Program[f].blocks[b][i]
        IN  [from |-> <<f, b, i>>,
             mi   |-> IF mi.arg.kind = "open" THEN MI(mi.op, chosen) ELSE mi]]]

Paired(from, mis) == [k \in DOMAIN mis |-> [from |-> from, mi |-> mis[k]]]

EmitInit ==
  /\ chosen \in Operands
  /\ prefix \in PrefixSizes
  /\ stage = "expand"
  /\ cur = 1
  /\ code = Selected(Fn)
  /\ at = <<1, 0>>
  /\ contents = << >>
  /\ fixups = << >>
  /\ labels = << >>
  /\ origin = << >>
  /\ back = << >>

(* The three passes that rewrite one instruction at a time.                *)
ExpandPseudos ==
  /\ stage = "expand"
  /\ stage' = "convert"
  /\ code' = [b \in DOMAIN code |-> FlattenSeq([i \in DOMAIN code[b] |->
                Paired(code[b][i].from,
                       ExpandPseudo(code[b][i].mi, FPAddr, Program[Fn].objects))])]
  /\ UNCHANGED <<chosen, prefix, cur, at, contents, fixups, labels, origin, back>>

(* Mutant: the stack objects are not counted.                              *)
SaveIndexWithoutObjects(f) == Program[f].slots + 1

(* getNumAllocatedIndexInFunction() + 1                                    *)
SaveIndex(f) == Program[f].slots + Program[f].objects + 1

ConvertRegToStack ==
  /\ stage = "convert"
  /\ stage' = "shrink"
  /\ code' = [b \in DOMAIN code |-> FlattenSeq([i \in DOMAIN code[b] |->
                Paired(code[b][i].from,
                       ConvertInstr(code[b][i].mi, FPAddr, SaveIndex(Fn)))])]
  /\ UNCHANGED <<chosen, prefix, cur, at, contents, fixups, labels, origin, back>>

Shrinkpush ==
  /\ stage = "shrink"
  /\ stage' = "finalize"
  /\ code' = [b \in DOMAIN code |-> FlattenSeq([i \in DOMAIN code[b] |->
                Paired(code[b][i].from, ShrinkPush(code[b][i].mi))])]
  /\ UNCHANGED <<chosen, prefix, cur, at, contents, fixups, labels, origin, back>>

(* Mutant: only the entry block gets one.                                  *)
ShouldInsertJUMPDESTAtEntry(b) == code[b] # << >> /\ b = 1

ShouldInsertJUMPDEST(b) == code[b] # << >>

Finalization ==
  /\ stage = "finalize"
  /\ stage' = "emit"
  /\ code' = [b \in DOMAIN code |->
                IF ShouldInsertJUMPDEST(b)
                THEN Paired(code[b][1].from, << Plain(JUMPDEST) >>) \o code[b]
                ELSE code[b]]
  /\ at' = <<1, 0>>
  /\ UNCHANGED <<chosen, prefix, cur, contents, fixups, labels, origin, back>>
-----------------------------------------------------------------------------
Here == prefix + Len(contents)

Written(m, a, v) ==
  [b \in DOMAIN m \cup {a} |-> IF b = a THEN v ELSE m[b]]

(* EmitBasicBlockStart: the label of a block is where its first            *)
(* instruction will be written.  (No label is written for a block that     *)
(* nothing jumps to; here it has one that nothing uses.)                   *)
EmitLabel ==
  /\ stage = "emit"
  /\ at[1] <= Len(code) /\ at[2] = 0
  /\ labels' = Written(labels, <<Fn, at[1]>>, Here)
  /\ at' = <<at[1], 1>>
  /\ UNCHANGED <<chosen, prefix, stage, cur, code, contents, fixups, origin, back>>

Item == code[at[1]][at[2]]
StartsSource == at[2] = 1 \/ Item.from # code[at[1]][at[2] - 1].from
BehindCall == at[2] > 1 /\ Item.mi.op = JUMPDEST

FixupOffset == Len(contents) + 1

(* EmitInstToData                                                          *)
EmitInstruction ==
  /\ stage = "emit"
  /\ at[1] <= Len(code) /\ at[2] \in DOMAIN code[at[1]]
  /\ contents' = contents \o EncodeInstruction(Item.mi)
  /\ fixups' = IF Item.mi.arg.kind = "symbol"
               THEN Append(fixups, <<FixupOffset, <<Item.mi.arg.f, Item.mi.arg.b>>>>)
               ELSE fixups
  /\ origin' = IF StartsSource THEN Written(origin, Here, Item.from) ELSE origin
  /\ back' = IF BehindCall THEN Written(back, Item.from, Here) ELSE back
  /\ at' = [at EXCEPT ![2] = @ + 1]
  /\ UNCHANGED <<chosen, prefix, stage, cur, code, labels>>

(* The loop over the blocks in EmitFunctionBody.                           *)
BlockWritten ==
  /\ stage = "emit"
  /\ at[1] <= Len(code) /\ at[2] > Len(code[at[1]])
  /\ at' = <<at[1] + 1, 0>>
  /\ UNCHANGED <<chosen, prefix, stage, cur, code, contents, fixups, labels,
                 origin, back>>

FunctionWritten ==
  /\ stage = "emit"
  /\ at[1] > Len(code)
  /\ IF cur < Len(Funcs)
     THEN /\ stage' = "expand"
          /\ cur' = cur + 1
          /\ code' = Selected(Funcs[cur + 1])
     ELSE /\ stage' = "fixup"
          /\ UNCHANGED <<cur, code>>
  /\ UNCHANGED <<chosen, prefix, at, contents, fixups, labels, origin, back>>

(* Mutant: without the assertion, the value is cut off.                    *)
AlwaysFits(value) == TRUE

(* "assert(Value <= 0xFFFF)": a failed assertion stops the compiler, as in *)
(* all modules.  A build with NDEBUG goes on with the value cut off, which *)
(* is what the mutant does.                                                *)
FixupFits(value) == value <= 65535

ApplyFixup ==
  /\ stage = "fixup"
  /\ fixups # << >>
  /\ LET offset == Head(fixups)[1]
         value  == labels[Head(fixups)[2]]
     IN  IF FixupFits(value)
         THEN /\ contents' = ApplyFixupValue(contents, offset, value)
              /\ UNCHANGED stage
         ELSE /\ stage' = "failed"
              /\ UNCHANGED contents
  /\ fixups' = Tail(fixups)
  /\ UNCHANGED <<chosen, prefix, cur, code, at, labels, origin, back>>

WriteObject ==
  /\ stage = "fixup"
  /\ fixups = << >>
  /\ stage' = "run"
  /\ code' = << >>
  /\ UNCHANGED <<chosen, prefix, cur, at, contents, fixups, labels, origin, back>>

EmitNext ==
  \/ ExpandPseudos \/ ConvertRegToStack \/ Shrinkpush \/ Finalization
  \/ EmitLabel \/ EmitInstruction \/ BlockWritten \/ FunctionWritten
  \/ ApplyFixup \/ WriteObject
=============================================================================
