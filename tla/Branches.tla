------------------------------- MODULE Branches -------------------------------
(***************************************************************************)
(* Branch analysis and rewriting (EVMInstrInfo) as the code generator uses *)
(* it: critical edges are split, a new block is put behind the source of   *)
(* the edge, and updateTerminator repairs the branches of that block.      *)
(* Blocks are numbers; NoBlock stands for a null pointer.                  *)
(***************************************************************************)
EXTENDS Naturals, Sequences, SequencesExt

CONSTANTS
  N,           \* the blocks of the function are 1 .. N
  MaxBlocks    \* a bound on the number of blocks after splitting

ASSUME BlockNumbers == N \in Nat \ {0} /\ MaxBlocks \in Nat /\ MaxBlocks >= N

NoBlock == 0

VARIABLES
  layout,   \* the blocks in the order of the function
  terms,    \* block -> its terminators
  succs,    \* block -> its successors
  goal      \* block -> where the program goes if the condition holds or not

vars == <<layout, terms, succs, goal>>

Pjumpto(b) == [op |-> "pJUMPTO_r", dest |-> b]
Pjumpif(b) == [op |-> "pJUMPIF_r", dest |-> b]

Blocks == ToSet(layout)
Position(b) == CHOOSE i \in DOMAIN layout : layout[i] = b
LayoutSuccessor(b) ==
  IF Position(b) = Len(layout) THEN NoBlock ELSE layout[Position(b) + 1]

(* What instruction selection writes for "br" above -O0: no unconditional  *)
(* jump to the next block, but both jumps of a conditional branch, "even   *)
(* if it's a fall through branch".                                         *)
Lowered(g, next) ==
  IF g.yes # g.no THEN << Pjumpif(g.yes), Pjumpto(g.no) >>
  ELSE IF g.no = next THEN << >> ELSE << Pjumpto(g.no) >>

(* The last block returns.  A condition whose target is the next block has *)
(* been inverted (visitSwitchCase).                                        *)
Init ==
  /\ layout = [i \in 1 .. N |-> i]
  /\ goal \in [1 .. N - 1 -> [yes : 1 .. N, no : 1 .. N]]
  /\ \A b \in 1 .. N - 1 : goal[b].yes # goal[b].no => goal[b].yes # b + 1
  /\ terms = [b \in 1 .. N |-> IF b = N THEN << >> ELSE Lowered(goal[b], b + 1)]
  /\ succs = [b \in 1 .. N |-> IF b = N THEN {} ELSE {goal[b].yes, goal[b].no}]
-----------------------------------------------------------------------------
JumpIfs(ts) == { i \in DOMAIN ts : ts[i].op = "pJUMPIF_r" }
JumpTos(ts) == { i \in DOMAIN ts : ts[i].op = "pJUMPTO_r" }

LastDest(ts, S) ==
  IF S = {} THEN NoBlock
  ELSE ts[CHOOSE i \in S : \A j \in S : j <= i].dest

(* The loop over the terminators: a conditional jump may be followed by an *)
(* unconditional one.  "fails" is the function's result; AllowModify is    *)
(* false.                                                                  *)
AnalyzeBranch(ts) ==
  LET c == CHOOSE i \in JumpIfs(ts) : TRUE
  IN  IF \E i, j \in JumpIfs(ts) : i # j
      THEN [fails |-> TRUE, TBB |-> NoBlock, FBB |-> NoBlock, Cond |-> FALSE]
      ELSE IF JumpIfs(ts) = {}
      THEN [fails |-> FALSE, TBB |-> LastDest(ts, JumpTos(ts)),
            FBB |-> NoBlock, Cond |-> FALSE]
      ELSE [fails |-> FALSE, TBB |-> ts[c].dest,
            FBB |-> LastDest(ts, { i \in JumpTos(ts) : i > c }), Cond |-> TRUE]

InsertBranch(ts, tbb, fbb, cond) ==
  ts \o (IF ~cond THEN << Pjumpto(tbb) >>
         ELSE IF fbb = NoBlock THEN << Pjumpif(tbb) >>
         ELSE << Pjumpif(tbb), Pjumpto(fbb) >>)

(* Every terminator of a block with successors is a branch.                *)
RemoveBranch(ts) == << >>

(* Mutant: the condition is taken for reversed.                            *)
ReverseSucceeds == FALSE

(* EVMInstrInfo does not override reverseBranchCondition, which reports    *)
(* that a condition cannot be reversed.                                    *)
ReverseBranchConditionFails == TRUE

(* Mutant: Cond is not cleared.                                            *)
AddConditionalBranch(ts, fall) == InsertBranch(ts, fall, NoBlock, TRUE)

(* "We can't reverse the condition, add an unconditional branch."          *)
AddUnconditionalBranch(ts, fall) == InsertBranch(ts, fall, NoBlock, FALSE)

(* updateTerminator of a block with terminators ts, successors ss and      *)
(* layout successor next.  (With no other successor than TBB the block can *)
(* fall through just if TBB is next.)                                      *)
UpdateTerminator(ts, ss, next) ==
  LET a     == AnalyzeBranch(ts)
      bare  == RemoveBranch(ts)
      other == ss \ {a.TBB}
      fall  == CHOOSE b \in other : TRUE
  IN  IF ss = {} THEN ts
      ELSE IF ~a.Cond
      THEN IF a.TBB # NoBlock THEN IF a.TBB = next THEN bare ELSE ts
           ELSE LET only == CHOOSE b \in ss : TRUE
                IN  IF only = next THEN ts
                    ELSE InsertBranch(ts, only, NoBlock, FALSE)
      ELSE IF a.FBB # NoBlock
      THEN IF a.TBB = next
           THEN IF ReverseBranchConditionFails THEN ts
                ELSE InsertBranch(bare, a.FBB, NoBlock, TRUE)
           ELSE IF a.FBB = next THEN InsertBranch(bare, a.TBB, NoBlock, TRUE)
           ELSE ts
      ELSE IF other = {}
      THEN IF a.TBB = next THEN bare ELSE InsertBranch(bare, a.TBB, NoBlock, FALSE)
      ELSE IF a.TBB = next
      THEN IF ReverseBranchConditionFails
           THEN AddUnconditionalBranch(ts, fall)
           ELSE InsertBranch(bare, fall, NoBlock, TRUE)
      ELSE IF fall # next THEN InsertBranch(bare, a.TBB, fall, TRUE)
      ELSE ts

(* An edge is critical if its source has other successors and its target   *)
(* other predecessors.                                                     *)
Critical(b, s) ==
  /\ s \in succs[b]
  /\ succs[b] # {s}
  /\ \E p \in Blocks \ {b} : s \in succs[p]

CanSplitCriticalEdge(b, s) ==
  LET a == AnalyzeBranch(terms[b])
  IN  ~a.fails /\ ~(a.TBB # NoBlock /\ a.TBB = a.FBB)

ReplaceUses(ts, old, new) ==
  [i \in DOMAIN ts |-> IF ts[i].dest = old THEN [ts[i] EXCEPT !.dest = new] ELSE ts[i]]

(* Mutant: the new block is left without a branch.                         *)
NewBlockFallsThrough(s, next) == << >>

BranchesOfNewBlock(s, next) ==
  IF next = s THEN << >> ELSE InsertBranch(<< >>, s, NoBlock, FALSE)

(* Mutant: the number of the last block is given out again.                *)
LastNumber == Len(layout)

NewBlock == Len(layout) + 1

SplitCriticalEdge(b, s) ==
  LET new  == NewBlock
      next == LayoutSuccessor(b)
      ss   == (succs[b] \ {s}) \cup {new}
  IN  /\ Len(layout) < MaxBlocks
      /\ Critical(b, s)
      /\ CanSplitCriticalEdge(b, s)
      /\ layout' = InsertAt(layout, Position(b) + 1, new)
      /\ succs' = [c \in Blocks \cup {new} |->
                     IF c = b THEN ss ELSE IF c = new THEN {s} ELSE succs[c]]
      /\ terms' = [c \in Blocks \cup {new} |->
                     IF c = b
                     THEN UpdateTerminator(ReplaceUses(terms[b], s, new), ss, new)
                     ELSE IF c = new THEN BranchesOfNewBlock(s, next)
                     ELSE terms[c]]
      /\ UNCHANGED goal

Next == \E b \in Blocks : \E s \in succs[b] : SplitCriticalEdge(b, s)

(* The passes that split edges (PHI elimination, sinking, loop-invariant   *)
(* code motion) choose some of them, in an order of their own: any         *)
(* sequence of splits, ending anywhere.                                    *)
Spec == Init /\ [][Next]_vars
-----------------------------------------------------------------------------
TypeOK ==
  /\ Len(layout) <= MaxBlocks /\ IsInjective(layout)
  /\ DOMAIN terms = Blocks /\ DOMAIN succs = Blocks
  /\ \A b \in Blocks : \A t \in ToSet(terms[b]) : t.dest \in Blocks

(* Where control goes from block b: to the first jump taken, or on to the  *)
(* next block.                                                             *)
Goes(b, cond) ==
  LET taken == JumpTos(terms[b]) \cup (IF cond THEN JumpIfs(terms[b]) ELSE {})
  IN  IF taken = {} THEN LayoutSuccessor(b)
      ELSE terms[b][CHOOSE i \in taken : \A j \in taken : i <= j].dest

(* ... and through the blocks inserted on the way.                         *)
Arrives(b, cond) ==
  LET c == Goes(b, cond) IN IF c > N THEN Goes(c, cond) ELSE c

(* However many edges have been split, in whatever order, every block of   *)
(* the program still continues where the program says, for both values of  *)
(* its condition, by a jump or by falling through.                         *)
BranchesKept ==
  \A b \in DOMAIN goal :
    Arrives(b, TRUE) = goal[b].yes /\ Arrives(b, FALSE) = goal[b].no

(* The successor lists, from which edge sets and liveness are computed,    *)
(* say what the terminators do.                                            *)
SuccessorsAgree ==
  \A b \in Blocks :
    succs[b] # {} => succs[b] = {Goes(b, TRUE), Goes(b, FALSE)}

(* What analyzeBranch reports of a block with successors is the truth      *)
(* after any rewriting: it does not give up, and the targets it names,     *)
(* with the next block for one it does not name, are the successors, two   *)
(* different ones just if it reports a condition.  So a later              *)
(* updateTerminator meets none of its assertions (an unanalyzable block,   *)
(* two fall-through successors), and an edge that some pass wants split is *)
(* not refused.                                                            *)
BranchesUnderstood ==
  \A b \in Blocks : succs[b] # {} =>
    LET a     == AnalyzeBranch(terms[b])
        Or(d) == IF d = NoBlock THEN LayoutSuccessor(b) ELSE d
    IN  /\ ~a.fails
        /\ IF a.Cond
           THEN succs[b] = {a.TBB, Or(a.FBB)} /\ a.TBB # Or(a.FBB)
           ELSE succs[b] = {Or(a.TBB)}
=============================================================================
