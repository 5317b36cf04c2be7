----------------------------- MODULE ArgumentMove -----------------------------
(***************************************************************************)
(* EVMArgumentMove, which runs before either allocator: instruction        *)
(* selection leaves the pSTACKARG_r of the arguments that are used         *)
(* anywhere in the entry block; the pass adds the missing ones and the     *)
(* return address and moves all to the front, the top of the stack last.   *)
(*                                                                         *)
(* A function has numArgs arguments, says whether it is the main function, *)
(* and has blocks of instructions with successors.  The model is of        *)
(* targets without subroutines.                                            *)
(***************************************************************************)
EXTENDS Naturals, Sequences, FiniteSets, SequencesExt

CONSTANTS Functions

NoReg == 0
NoError == "none"

(* The numbers of K in increasing order, and the elements of s there.      *)
Increasing(K) ==
  [k \in 1 .. Cardinality(K) |->
     CHOOSE i \in K : Cardinality({ j \in K : j < i }) = k - 1]

Selected(s, K) == [k \in 1 .. Cardinality(K) |-> s[Increasing(K)[k]]]

StackArgsAt(s) == { i \in DOMAIN s : s[i].op = "STACKARG" }

StackArgs(s) == Selected(s, StackArgsAt(s))
Others(s) == Selected(s, DOMAIN s \ StackArgsAt(s))

Instruction(k) ==
  [op : {"STACKARG", "MI", "RETURN"}, def : 0 .. k, uses : Seq(1 .. k), n : Nat]

(* The first k arguments at most once, each with a register of its own.    *)
SeparateArgs(s, k) ==
  \A i \in StackArgsAt(s) :
    /\ s[i].n < k /\ s[i].def # NoReg /\ s[i].uses = << >>
    /\ \A j \in StackArgsAt(s) : i # j => s[i].n # s[j].n /\ s[i].def # s[j].def

(* What instruction selection leaves.  (No branch leads to an entry block.) *)
IsSelected(f) ==
  /\ f.numArgs \in Nat /\ f.main \in BOOLEAN /\ f.regs \in Nat
  /\ f.code \in Seq(Seq(Instruction(f.regs))) /\ f.code # << >>
  /\ f.succs \in [DOMAIN f.code -> Seq(DOMAIN f.code \ {1})]
  /\ SeparateArgs(f.code[1], f.numArgs)
  /\ \A b \in DOMAIN f.code : b # 1 => StackArgsAt(f.code[b]) = {}

ASSUME FunctionsAssumption == \A f \in Functions : IsSelected(f)

VARIABLES
  fn,      \* the function as selected
  stage,   \* the part of the pass that runs next
  body,    \* block -> its instructions now
  regs,    \* the number of virtual registers
  error    \* what the pass stopped at

moveVars == <<fn, stage, body, regs, error>>

Stackarg(r, i) == [op |-> "STACKARG", def |-> r, uses |-> << >>, n |-> i]
PopReg(r) == [op |-> "POP_r", def |-> NoReg, uses |-> <<r>>, n |-> 0]

IsStackArg(mi) == mi.op = "STACKARG"

Entry == body[1]
Args == StackArgs(Entry)
Indices == { mi.n : mi \in ToSet(Args) }

InstrsOf(blocks) == UNION { ToSet(blocks[b]) : b \in DOMAIN blocks }
UseEmpty(r) == \A mi \in InstrsOf(body) : r \notin ToSet(mi.uses)

MoveInit ==
  /\ fn \in Functions
  /\ stage = "arrange"
  /\ body = fn.code
  /\ regs = fn.regs
  /\ error = NoError

Stop(why) ==
  /\ error' = why
  /\ UNCHANGED <<fn, stage, body, regs>>

(* Mutant: the arguments deleted by instruction selection stay away.       *)
NothingMissing == {}

Missing == (0 .. fn.numArgs - 1) \ Indices

(* arrangeStackArgs: each missing argument is inserted at the beginning.   *)
(* The position must be that of an instruction: its debug location is read.*)
ArrangeStackArgs ==
  /\ stage = "arrange" /\ error = NoError
  /\ IF Missing # {} /\ Entry = << >> THEN Stop("empty entry")
     ELSE LET order == Increasing(Missing)
              new   == [k \in DOMAIN order |-> Stackarg(regs + k, order[k])]
          IN  /\ body' = [body EXCEPT ![1] = Reverse(new) \o @]
              /\ regs' = regs + Len(new)
              /\ stage' = "return"
              /\ UNCHANGED <<fn, error>>

(* Mutant: counted from one.                                               *)
RetAddrFromOne == fn.numArgs + 1

(* "return address is the last stackarg"                                   *)
RetAddrStackArgNum == fn.numArgs

(* A return gets the return address as its first operand.                  *)
ReturnsTo(mi, r) ==
  IF mi.op = "RETURN" THEN [mi EXCEPT !.uses = <<r>> \o @] ELSE mi

WithReturnAddress(mis, r) == [i \in DOMAIN mis |-> ReturnsTo(mis[i], r)]

InsertRetAddrArg ==
  /\ stage = "return" /\ error = NoError
  /\ IF fn.main
     THEN /\ stage' = "sort"
          /\ UNCHANGED <<fn, body, regs, error>>
     ELSE IF Entry = << >> THEN Stop("empty entry")
     ELSE /\ regs' = regs + 1
          /\ body' = [b \in DOMAIN body |->
                        (IF b = 1 THEN << Stackarg(regs + 1, RetAddrStackArgNum) >>
                                  ELSE << >>)
                          \o WithReturnAddress(body[b], regs + 1)]
          /\ stage' = "sort"
          /\ UNCHANGED <<fn, error>>

ArgOf(i) == CHOOSE mi \in ToSet(Args) : mi.n = i

(* Mutant: the first argument first.                                       *)
FirstArgumentFirst == [k \in 1 .. Len(Args) |-> ArgOf(k - 1)]

(* The highest index, the deepest element of the stack, comes first.       *)
SortedArgs == [k \in 1 .. Len(Args) |-> ArgOf(Len(Args) - k)]

(* Unused arguments, in the order they were found, are popped right after. *)
Pops ==
  LET unused == Selected(Args, { k \in DOMAIN Args : UseEmpty(Args[k].def) })
  IN  [k \in DOMAIN unused |-> PopReg(unused[k].def)]

SortStackArgs ==
  /\ stage = "sort" /\ error = NoError
  /\ LET rest == Others(Entry)
     IN  IF ~(0 .. Len(Args) - 1 \subseteq Indices) THEN Stop("index2mi")
         ELSE IF Pops # << >> /\ rest = << >> THEN Stop("no insert point")
         ELSE /\ body' = [body EXCEPT ![1] = SortedArgs \o Pops \o rest]
              /\ stage' = "moved"
              /\ UNCHANGED <<fn, regs, error>>

MoveNext == ArrangeStackArgs \/ InsertRetAddrArg \/ SortStackArgs
-----------------------------------------------------------------------------
(* The machine function an allocator sees.                                 *)
ArgRegs == [k \in 1 .. Len(Args) |-> Args[k].def]
Code == [b \in DOMAIN body |-> Others(body[b])]

(* What StackAlloc takes for granted.  When the pass is over, the k-th     *)
(* argument counted from the top is the register that instruction          *)
(* selection gave argument k; every argument has a use, returns start with *)
(* the return address, and nothing else of the function has changed,       *)
(* wherever and in whatever order the arguments were selected.             *)
(* (StackAlloc also needs an instruction behind the arguments, which this  *)
(* pass does not see to.)                                                  *)
ArgumentsNamed ==
  stage = "moved" =>
    /\ Len(Args) = fn.numArgs + (IF fn.main THEN 0 ELSE 1)
    /\ SubSeq(Entry, 1, Len(Args)) = Args
    /\ \A mi \in ToSet(fn.code[1]) :
         IsStackArg(mi) => ArgRegs[Len(Args) - mi.n] = mi.def
    /\ \A r \in ToSet(ArgRegs) : ~UseEmpty(r)
    /\ \A b \in DOMAIN body :
         LET old == Others(fn.code[b])
             new == Selected(Code[b], { i \in DOMAIN Code[b] : Code[b][i].op # "POP_r" })
         IN  /\ Len(old) = Len(new)
             /\ \A i \in DOMAIN old :
                  new[i] = IF fn.main THEN old[i] ELSE ReturnsTo(old[i], ArgRegs[1])
=============================================================================
