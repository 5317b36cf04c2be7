------------------------------ MODULE EdgeSets ------------------------------
(***************************************************************************)
(* EdgeSets::computeEdgeSets of the stack allocator.  The edges of the     *)
(* control-flow graph are partitioned so that all edges into a block, and  *)
(* all edges out of a block, are in one set; the allocator then keeps one  *)
(* stack-and-memory layout per set.                                        *)
(*                                                                         *)
(* A machine function fn carries the ordered successor and predecessor     *)
(* lists of its blocks 1 .. fn.n (layout order, 1 is the entry).  An edge  *)
(* is a pair of blocks, NullBlock standing for the NULL of the two         *)
(* artificial edges into the entry and out of the last block.  The code    *)
(* numbers the edges and starts with one set per edge, numbered like it;   *)
(* here an edge is its own number.                                         *)
(***************************************************************************)
EXTENDS Naturals, Sequences

CONSTANTS Functions   \* the machine functions that may be compiled

NullBlock == 0

Elems(s) == { s[i] : i \in DOMAIN s }

IsCFG(f) ==
  /\ f.n \in Nat \ {0}
  /\ f.succs \in [1 .. f.n -> Seq(1 .. f.n)]
  /\ f.preds \in [1 .. f.n -> Seq(1 .. f.n)]
  /\ \A b, c \in 1 .. f.n : c \in Elems(f.succs[b]) <=> b \in Elems(f.preds[c])

ASSUME FunctionsAreCFGs == \A f \in Functions : IsCFG(f)

VARIABLES
  fn,         \* the machine function being compiled
  edgeSet,    \* edgeIndex2EdgeSet: the set each edge is in
  mbb,        \* computeEdgeSets' loop: the block being processed
  side,       \* ... and which of its lists, "preds", "succs" or "computed"
  iter        \* ... and the position in that list

edgeVars == <<fn, edgeSet, mbb, side, iter>>

Block(f) == 1 .. f.n

CollectEdges(f) ==
  { <<NullBlock, 1>>, <<f.n, NullBlock>> }
    \cup { e \in Block(f) \X Block(f) : e[2] \in Elems(f.succs[e[1]]) }

Edges == CollectEdges(fn)

(* Mutant: only e2 changes sets, not the other edges of its set.           *)
MoveOneEdge(part, e1, e2) == [part EXCEPT ![e2] = part[e1]]

MergeEdgeSets(part, e1, e2) ==
  [e \in DOMAIN part |-> IF part[e] = part[e2] THEN part[e1] ELSE part[e]]

GetEdgeSetIndex(e) == edgeSet[e]

StartEdgeSets(f) ==
  /\ fn = f
  /\ edgeSet = [e \in CollectEdges(f) |-> e]
  /\ mbb = 1
  /\ side = "preds"
  /\ iter = 2

EdgeInit == \E f \in Functions : StartEdgeSets(f)

(* Mutant: the inner loop's iterator is not advanced.                      *)
MergePredForever ==
  /\ side = "preds"
  /\ iter <= Len(fn.preds[mbb])
  /\ edgeSet' = MergeEdgeSets(edgeSet, <<fn.preds[mbb][1], mbb>>,
                                       <<fn.preds[mbb][iter], mbb>>)
  /\ UNCHANGED <<fn, mbb, side, iter>>

(* The first list entry is merged with each later one.                     *)
MergePred ==
  /\ side = "preds"
  /\ iter <= Len(fn.preds[mbb])
  /\ edgeSet' = MergeEdgeSets(edgeSet, <<fn.preds[mbb][1], mbb>>,
                                       <<fn.preds[mbb][iter], mbb>>)
  /\ iter' = iter + 1
  /\ UNCHANGED <<fn, mbb, side>>

PredsMerged ==
  /\ side = "preds"
  /\ iter > Len(fn.preds[mbb])
  /\ side' = "succs"
  /\ iter' = 2
  /\ UNCHANGED <<fn, edgeSet, mbb>>

(* Mutant: the out-edges join the set of the block's first in-edge.        *)
MergeSuccIntoPreds ==
  /\ side = "succs"
  /\ iter <= Len(fn.succs[mbb])
  /\ edgeSet' = MergeEdgeSets(edgeSet,
                   IF fn.preds[mbb] = << >> THEN <<mbb, fn.succs[mbb][1]>>
                   ELSE <<fn.preds[mbb][1], mbb>>,
                   <<mbb, fn.succs[mbb][iter]>>)
  /\ iter' = iter + 1
  /\ UNCHANGED <<fn, mbb, side>>

MergeSucc ==
  /\ side = "succs"
  /\ iter <= Len(fn.succs[mbb])
  /\ edgeSet' = MergeEdgeSets(edgeSet, <<mbb, fn.succs[mbb][1]>>,
                                       <<mbb, fn.succs[mbb][iter]>>)
  /\ iter' = iter + 1
  /\ UNCHANGED <<fn, mbb, side>>

(* Mutant: the block loop runs one block too far.                          *)
SuccsMergedPastEnd ==
  /\ side = "succs"
  /\ iter > Len(fn.succs[mbb])
  /\ mbb' = mbb + 1
  /\ side' = IF mbb <= fn.n THEN "preds" ELSE "computed"
  /\ iter' = 2
  /\ UNCHANGED <<fn, edgeSet>>

SuccsMerged ==
  /\ side = "succs"
  /\ iter > Len(fn.succs[mbb])
  /\ IF mbb < fn.n
     THEN mbb' = mbb + 1 /\ side' = "preds"
     ELSE mbb' = mbb /\ side' = "computed"
  /\ iter' = 2
  /\ UNCHANGED <<fn, edgeSet>>

EdgeNext == MergePred \/ PredsMerged \/ MergeSucc \/ SuccsMerged

(* The compiler is a sequential program: a step it can take it takes.      *)
EdgeSpec == EdgeInit /\ [][EdgeNext]_edgeVars /\ WF_edgeVars(EdgeNext)
-----------------------------------------------------------------------------
EdgeTypeOK ==
  /\ IsCFG(fn)
  /\ edgeSet \in [Edges -> Edges]
  /\ mbb \in Block(fn)
  /\ side \in {"preds", "succs", "computed"}
  /\ iter \in Nat \ {0, 1}

RealEdges == { e \in Edges : e[1] # NullBlock /\ e[2] # NullBlock }

(* The source comment: "Two MBBs share a same edge set if: 1. they have a  *)
(* common child. 2. they have a common parent."  On edges: one target, or  *)
(* one source.                                                             *)
Share(e, f) == e[1] = f[1] \/ e[2] = f[2]

(* When the computation is over every two edges that have a block end in   *)
(* common are in one set, whatever the order of blocks and lists: the      *)
(* allocator may look up the layout of a block through ANY of its edges.   *)
SharingEdgesTogether ==
  side = "computed" =>
    LET real == RealEdges
    IN  \A e, f \in real : Share(e, f) => edgeSet[e] = edgeSet[f]

(* The two loops over lists inside the loop over blocks come to an end on  *)
(* every graph, self loops and blocks without neighbours included.         *)
MergingEnds == <>(side = "computed")

Closed(S, real) == \A e, f \in real : Share(e, f) => (e \in S <=> f \in S)

(* The merging never puts together edges that no chain of shared blocks    *)
(* connects: a set of edges closed under sharing contains both of two      *)
(* edges with the same set, or neither.  (The artificial edges are in no   *)
(* such set, so they stay apart from the real ones.)                       *)
OnlyConnectedTogether ==
  LET real == RealEdges
      all  == Edges
  IN  \A S \in SUBSET real :
        Closed(S, real) =>
          \A e, f \in all : edgeSet[e] = edgeSet[f] => (e \in S <=> f \in S)
=============================================================================
