----------------------------- MODULE MCVRegToMem -----------------------------
(* Small functions for ArgumentMove and VRegToMem.  Register k is that of  *)
(* argument k - 1, register 4 is defined in the entry block, register 5 in *)
(* another one, and both may be defined again.                             *)
EXTENDS VRegToMem

MI(def, uses) == [op |-> "MI", def |-> def, uses |-> uses, n |-> 0]
Return(uses) == [op |-> "RETURN", def |-> NoReg, uses |-> uses, n |-> 0]

(* The entry block: some of the arguments in any order, and a definition   *)
(* somewhere between them or not at all.                                   *)
EntryBlocks(k) ==
  LET items == { Stackarg(i + 1, i) : i \in 0 .. k - 1 } \cup { MI(4, << >>) }
  IN  UNION { SetToSeqs(S) : S \in SUBSET items }

Defined(entry) == { mi.def : mi \in ToSet(entry) }

Function(k, main, blocks, succs) ==
  [numArgs |-> k, main |-> main, code |-> blocks, succs |-> succs, regs |-> 5]

(* A loop that redefines what it uses.                                     *)
LoopSuccs == << <<2>>, <<2, 3>>, << >> >>
Loops(k, main) ==
  UNION { { Function(k, main,
              << e, << MI(5, u), MI(4, v) >>,
                 << IF main THEN MI(NoReg, w) ELSE Return(w) >> >>, LoopSuccs) :
              u \in BoundedSeq(Defined(e), 2),
              v \in {<<5>>, <<5, 4>>, << >>} \cap BoundedSeq(Defined(e) \cup {5}, 2),
              w \in BoundedSeq(Defined(e) \cup {5}, 1) } :
          e \in EntryBlocks(k) }

(* The block that comes second is laid out last; a call takes arguments.   *)
SwappedSuccs == << <<3>>, << >>, <<2>> >>
Swapped(k) ==
  UNION { { Function(k, FALSE,
              << e \o << MI(NoReg, u) >>, << Return(v) >>,
                 << MI(5, u) >> >>, SwappedSuccs) :
              u \in BoundedSeq(Defined(e), 3),
              v \in BoundedSeq(Defined(e) \cup {5}, 1) } :
          e \in EntryBlocks(k) }

(* A call whose result is returned.                                        *)
Calling(k) ==
  UNION { { Function(k, FALSE, << e \o << MI(4, u) >>, << Return(<<4>>) >> >>,
                     << <<2>>, << >> >>) :
              u \in BoundedSeq(Defined(e), 2) } : e \in EntryBlocks(k) }

MCFunctions ==
  UNION { Loops(k, TRUE) \cup Loops(k, FALSE) \cup Swapped(k) : k \in 0 .. 2 }
    \cup Calling(3)

TwoArguments == Calling(2)
=============================================================================
