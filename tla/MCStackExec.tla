----------------------------- MODULE MCStackExec -----------------------------
(* Families of small machine functions for StackExec.                      *)
EXTENDS StackExec, SequencesExt

PredList(succs, c) ==
  SetToSortSeq({ b \in DOMAIN succs : c \in Elems(succs[b]) }, LAMBDA x, y : x < y)

Graph(succs) ==
  [succs |-> succs, preds |-> [c \in DOMAIN succs |-> PredList(succs, c)]]

MF(graph, args, code) ==
  [n |-> Len(code), succs |-> graph.succs, preds |-> graph.preds,
   args |-> args, code |-> code]

I(def, uses) == [def |-> def, uses |-> uses]

OneBlock == Graph(<< << >> >>)
ChainGraph == Graph(<< <<2>>, <<3>>, << >> >>)
DiamondGraph == Graph(<< <<2, 3>>, <<4>>, <<4>>, << >> >>)
SelfLoopGraph == Graph(<< <<2>>, <<2, 3>>, << >> >>)
WhileGraph == Graph(<< <<2>>, <<3, 4>>, <<2>>, << >> >>)
LongLoopGraph == Graph(<< <<2>>, <<3, 5>>, <<4>>, <<2>>, << >> >>)
CrossEdgeGraph == Graph(<< <<2, 3>>, <<4, 5>>, <<5>>, << >>, << >> >>)
EmptyBlockGraph == Graph(<< <<2, 3>>, <<3>>, <<4>>, << >> >>)
OutOfOrderGraph == Graph(<< <<3>>, << >>, <<2>> >>)
RedefinitionGraph == Graph(<< <<2>>, <<2, 3>>, << >> >>)

(* Operand lists of length at most k over the registers R.                 *)
U(R, k) == BoundedSeq(R, k)

(* The tuples of operand lists in which every register of R is used.       *)
Using(R, T) == { t \in T : R \subseteq UNION { Elems(t[i]) : i \in DOMAIN t } }

(* Straight-line functions: instruction i defines register i, the last one *)
(* is a pure consumer; operands are any registers defined before.          *)
Straight4 ==
  { MF(OneBlock, << >>,
       << <<I(1, << >>), I(2, t[1]), I(3, t[2]), I(NoReg, t[3])>> >>) :
      t \in U({1}, 2) \X U({1, 2}, 3) \X U({1, 2, 3}, 3) }

(* Three values first, so that the instructions after them meet every      *)
(* arrangement of a deeper stack.                                          *)
Straight6 ==
  { MF(OneBlock, << >>,
       << <<I(1, << >>), I(2, << >>), I(3, << >>), I(4, t[1]),
            I(NoReg, t[2]), I(NoReg, t[3])>> >>) :
      t \in Using({1, 2, 3, 4},
                  U({1, 2, 3}, 2) \X U({1, 2, 3, 4}, 2) \X U({1, 2, 3, 4}, 2)) }

StraightFunctions == Straight4 \cup Straight6

(* Register 8 is an argument.  Shapes laid out in execution order.         *)
Chain ==
  { MF(ChainGraph, <<8>>,
       << <<I(1, t[1])>>, <<I(2, t[2])>>, <<I(3, t[3]), I(NoReg, t[4])>> >>) :
      t \in Using({1, 2, 3, 8},
                  U({8}, 1) \X U({8, 1}, 2) \X U({8, 1, 2}, 2)
                    \X U({8, 1, 2, 3}, 3)) }

Diamond ==
  { MF(DiamondGraph, <<8, 9>>,
       << <<I(1, << >>)>>, <<I(2, t[1]), I(NoReg, t[2])>>,
          <<I(3, t[3]), I(NoReg, t[4])>>, <<I(NoReg, t[5])>> >>) :
      t \in Using({1, 2, 3, 8, 9},
                  U({8, 1}, 1) \X U({1, 2}, 2) \X U({9, 1}, 1)
                    \X U({8, 3}, 2) \X U({8, 1}, 2)) }

SelfLoop ==
  { MF(SelfLoopGraph, <<8>>,
       << <<I(1, t[1])>>, <<I(2, t[2]), I(NoReg, t[3])>>, <<I(NoReg, t[4])>> >>) :
      t \in Using({1, 2, 8},
                  U({8}, 1) \X U({8, 1}, 2) \X U({8, 1, 2}, 3)
                    \X U({8, 1, 2}, 2)) }

While ==
  { MF(WhileGraph, <<8>>,
       << <<I(1, t[1])>>, <<I(2, t[2])>>, <<I(3, t[3]), I(NoReg, t[4])>>,
          <<I(NoReg, t[5])>> >>) :
      t \in Using({1, 2, 3, 8},
                  U({8}, 1) \X U({8, 1}, 1) \X U({1, 2}, 2)
                    \X U({2, 3}, 1) \X U({8, 1, 2}, 2)) }

StructuredFunctions ==
  StraightFunctions \cup Chain \cup Diamond \cup SelfLoop \cup While

(* SlotsKept is proved for such functions.                                 *)
ASSUME StructuredInOrder ==
  \A f \in StructuredFunctions : IsSSA(f) /\ InExecutionOrder(f)

(* A loop whose body is two blocks.                                        *)
LongLoop ==
  { MF(LongLoopGraph, <<8>>,
       << <<I(1, << >>)>>, <<I(NoReg, t[1])>>, <<I(2, t[2])>>,
          <<I(NoReg, t[3])>>, <<I(NoReg, t[4])>> >>) :
      t \in Using({1, 2, 8},
                  U({8, 1}, 2) \X U({8, 1}, 2) \X U({8, 1, 2}, 2) \X U({8, 1}, 1)) }

(* The out-edges of block 2 share an edge set with the edge 3 -> 5.        *)
CrossEdge ==
  { MF(CrossEdgeGraph, <<8>>,
       << <<I(1, << >>)>>, <<I(2, t[1])>>, <<I(NoReg, t[2])>>,
          <<I(4, << >>), I(NoReg, t[3])>>, <<I(NoReg, t[4])>> >>) :
      t \in Using({1, 2, 4, 8},
                  U({8, 1}, 1) \X U({8, 1}, 1) \X U({1, 2, 4}, 2) \X U({8, 1}, 1)) }

(* An empty block between the first and the last.                          *)
EmptyBlock ==
  { MF(EmptyBlockGraph, <<8>>,
       << <<I(1, << >>)>>, << >>, <<I(2, t[1])>>, <<I(NoReg, t[2])>> >>) :
      t \in Using({1, 2, 8}, U({8, 1}, 2) \X U({8, 1, 2}, 2)) }

(* The successor of the entry is laid out last.                            *)
OutOfOrder ==
  { MF(OutOfOrderGraph, <<8>>,
       << <<I(1, << >>)>>, <<I(NoReg, t[1])>>, <<I(3, t[2]), I(NoReg, t[3])>> >>) :
      t \in Using({1, 3, 8}, U({8, 1, 3}, 2) \X U({8, 1}, 1) \X U({1, 3}, 1)) }

(* Register 1 is defined again in the loop, as a PHI node leaves it.       *)
Redefinition ==
  { MF(RedefinitionGraph, <<8>>,
       << <<I(1, << >>)>>, <<I(2, t[1]), I(1, t[2])>>, <<I(NoReg, t[3])>> >>) :
      t \in Using({1, 2, 8}, U({8, 1}, 2) \X U({1, 2}, 1) \X U({8, 1}, 1)) }

(* Functions that are compiled after another one: their registers take     *)
(* whatever slots the first function's layout leaves.                      *)
ChainFunctions ==
  { MF(ChainGraph, <<8>>,
       << <<I(1, << >>)>>, <<I(2, t[1])>>, <<I(NoReg, t[2]), I(NoReg, <<2>>)>> >>) :
      t \in { <<<<8>>, <<8, 1>>>>, <<<<8, 1>>, <<1>>>>, <<<<1>>, <<8>>>> } }

UnstructuredFunctions ==
  LongLoop \cup CrossEdge \cup EmptyBlock \cup OutOfOrder \cup Redefinition
    \cup ChainFunctions

None == {}
-----------------------------------------------------------------------------
(* Single functions that show one hazard each.                             *)

(* 1, 2, 3 are on the stack; an instruction uses 1 for the last time and 2 *)
(* for the last time but one.                                              *)
TwoInPlaceFunctions ==
  { MF(OneBlock, << >>,
       << <<I(1, << >>), I(2, << >>), I(3, << >>), I(NoReg, <<1, 2>>),
            I(NoReg, <<2, 3>>)>> >>) }
=============================================================================
