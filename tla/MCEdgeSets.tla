----------------------------- MODULE MCEdgeSets -----------------------------
(* All control-flow graphs with N blocks in which a block has at most two  *)
(* successors, as after JUMP and JUMPI; predecessor lists in layout order. *)
EXTENDS EdgeSets, SequencesExt

CONSTANTS N

SuccLists == { s \in BoundedSeq(1 .. N, 2) : \A i, j \in DOMAIN s : i # j => s[i] # s[j] }

PredList(succs, c) ==
  SetToSortSeq({ b \in 1 .. N : c \in Elems(succs[b]) }, LAMBDA x, y : x < y)

MCFunctions ==
  { [n |-> N, succs |-> succs, preds |-> [c \in 1 .. N |-> PredList(succs, c)]] :
      succs \in [1 .. N -> SuccLists] }
=============================================================================
