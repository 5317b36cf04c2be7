--------------------------- MODULE EVMStackStatus ---------------------------
(***************************************************************************)
(* The symbolic operand stack of the EVM stack allocator (class            *)
(* EVMStackStatus).  A stack is a sequence whose LAST element is the top,  *)
(* exactly as the std::vector of the code; a depth d counts from the top,  *)
(* 0 being the top.  The same operators describe what the SWAP, DUP and    *)
(* POP instructions do to the machine stack.                               *)
(***************************************************************************)
EXTENDS Naturals, Sequences

GetStackDepth(st) == Len(st)

Get(st, d) == st[Len(st) - d]

Push(st, v) == Append(st, v)

Pop(st) == SubSeq(st, 1, Len(st) - 1)

Dup(st, d) == Append(st, Get(st, d))

Swap(st, d) ==
  [st EXCEPT ![Len(st)] = Get(st, d), ![Len(st) - d] = Get(st, 0)]

IsOnStack(st, reg) == \E d \in 0 .. (Len(st) - 1) : Get(st, d) = reg

(* The occurrence nearest to the top.  The code ends in llvm_unreachable   *)
(* when there is none, so every use below is guarded by IsOnStack.         *)
FindRegDepth(st, reg) ==
  CHOOSE d \in 0 .. (Len(st) - 1) :
    /\ Get(st, d) = reg
    /\ \A e \in 0 .. (d - 1) : Get(st, e) # reg

(* The elements under the k topmost ones, and the k topmost ones with the  *)
(* top first.                                                              *)
Below(st, k) == SubSeq(st, 1, Len(st) - k)
TopFirst(st, k) == [i \in 1 .. k |-> Get(st, i - 1)]
=============================================================================
