---------------------------- MODULE AllocOpsProofs ----------------------------
(***************************************************************************)
(* What the operations of EVMStackAlloc do to their data, for data of any  *)
(* size: the table of memory slots (allocating, and the sweep that frees   *)
(* the slots of dead registers), and the operand handlers on a symbolic    *)
(* stack that holds each register once (they bring the operands to the     *)
(* top, in order, and the clean-up leaves the registers still needed).     *)
(* The instructions the helpers emit do to the stack of the machine what   *)
(* the helpers do to the symbolic stack (Tracks).  And computeEdgeSets is  *)
(* right for every control-flow graph: edges that are in one set stay in   *)
(* one set, and the two edges merged are in one set afterwards.            *)
(*                                                                         *)
(* The loops of the code are recursive functions over 0 .. n here.  In the *)
(* induction for them a property is the SET of the numbers that have it,   *)
(* so that the lemma can be instantiated.                                  *)
(***************************************************************************)
EXTENDS EdgeSets, MemorySlotOps, OperandOps, SequenceTheorems, WellFoundedInduction, TLAPS

(* A set of natural numbers has a least element.                           *)
LEMMA LeastNatural ==
  ASSUME NEW T \in SUBSET Nat, T # {}
  PROVE  \E n \in T : \A m \in T : n <= m
<1> DEFINE R == OpToRel(<, Nat)
<1>1. \E n \in T : \A m \in T : ~ (<<m, n>> \in R)
  <2>1. IsWellFoundedOn(R, Nat)
    BY NatLessThanWellFounded
  <2> QED BY <2>1, WFMin
<1>2. \A n, m \in Nat : ~ (<<m, n>> \in R) => n <= m
  BY DEF OpToRel
<1> HIDE DEF R
<1> QED BY <1>1, <1>2

(* What holds before a loop and is kept by each iteration holds after any  *)
(* number of iterations.                                                   *)
LEMMA SetInduction ==
  ASSUME NEW n \in Nat, NEW T \in SUBSET Nat, 0 \in T,
         \A k \in 1 .. n : k - 1 \in T => k \in T
  PROVE  \A k \in 0 .. n : k \in T
<1> SUFFICES ASSUME NEW j \in 0 .. n, j \notin T PROVE FALSE
  OBVIOUS
<1> DEFINE B == { k \in 0 .. n : k \notin T }
<1>1. B \in SUBSET Nat /\ B # {}
  OBVIOUS
<1>2. PICK m \in B : \A k \in B : m <= k
  BY <1>1, LeastNatural
<1>3. m # 0 /\ m - 1 \in 0 .. n /\ m \in 1 .. n
  BY <1>2
<1>4. m - 1 \in T
  BY <1>2, <1>3
<1> QED BY <1>2, <1>3, <1>4

-----------------------------------------------------------------------------
(* FirstIndex finds the first position of a register that is present.      *)
LEMMA FirstIndexIsFirst ==
  ASSUME NEW S, NEW mem \in Seq(S), NEW reg,
         \E i \in DOMAIN mem : mem[i] = reg
  PROVE  IsFirst(mem, reg, FirstIndex(mem, reg))
<1> DEFINE T == { i \in DOMAIN mem : mem[i] = reg }
<1>1. T \in SUBSET Nat /\ T # {}
  BY LenProperties
<1>2. PICK i \in T : \A j \in T : i <= j
  BY <1>1, LeastNatural
<1>3. IsFirst(mem, reg, i)
  BY <1>2, LenProperties DEF IsFirst
<1>4. \E k \in DOMAIN mem : IsFirst(mem, reg, k)
  BY <1>2, <1>3
<1> QED BY <1>4, Zenon DEF FirstIndex

(* TrimmedLength is the length without the empty slots at the end.         *)
LEMMA TrimmedLengthProperties ==
  ASSUME NEW S, NEW mem \in Seq(S)
  PROVE  /\ TrimmedLength(mem) \in 0 .. Len(mem)
         /\ \A i \in DOMAIN mem : mem[i] # NoReg => i <= TrimmedLength(mem)
<1> DEFINE Rest(n) == \A i \in (n + 1) .. Len(mem) : mem[i] = NoReg
           T == { n \in 0 .. Len(mem) : Rest(n) }
           Good(n) == (n = 0 \/ mem[n] # NoReg) /\ Rest(n)
<1>0. Len(mem) \in Nat /\ DOMAIN mem = 1 .. Len(mem)
  BY LenProperties
<1>1. T \in SUBSET Nat /\ T # {}
  <2>1. Len(mem) \in T
    BY <1>0
  <2> QED BY <2>1, <1>0
<1>2. PICK n \in T : \A m \in T : n <= m
  BY <1>1, LeastNatural
<1>3. n = 0 \/ mem[n] # NoReg
  <2> SUFFICES ASSUME n # 0, mem[n] = NoReg PROVE FALSE
    OBVIOUS
  <2>1. n - 1 \in T
    BY <1>0, <1>2
  <2>2. n <= n - 1
    BY <2>1, <1>2
  <2>3. n \in Nat
    BY <1>2, <1>0
  <2> QED BY <2>2, <2>3
<1>4. \E k \in 0 .. Len(mem) : Good(k)
  BY <1>2, <1>3
<1>5. TrimmedLength(mem) = CHOOSE k \in 0 .. Len(mem) : Good(k)
  BY DEF TrimmedLength
<1> HIDE DEF Good
<1>6. TrimmedLength(mem) \in 0 .. Len(mem) /\ Good(TrimmedLength(mem))
  BY <1>4, <1>5, Zenon
<1> QED BY <1>6, <1>0 DEF Good

(* A slot other than the freed one keeps its register, and stays a slot if *)
(* it is occupied; the freed one is the first the register had.            *)
LEMMA DeallocateProperties ==
  ASSUME NEW S, NoReg \in S, NEW mem \in Seq(S), NEW reg,
         \E i \in DOMAIN mem : mem[i] = reg
  PROVE  LET new == DeallocateMemorySlot(mem, reg)
         IN  /\ new \in Seq(S)
             /\ Len(new) <= Len(mem)
             /\ \A i \in DOMAIN mem :
                  (mem[i] # reg /\ mem[i] # NoReg) =>
                    i \in DOMAIN new /\ new[i] = mem[i]
<1> DEFINE p == FirstIndex(mem, reg)
           cleared == [mem EXCEPT ![p] = NoReg]
           n == TrimmedLength(cleared)
           new == SubSeq(cleared, 1, n)
<1>0. Len(mem) \in Nat /\ DOMAIN mem = 1 .. Len(mem)
  BY LenProperties
<1>1. p \in DOMAIN mem /\ mem[p] = reg
  BY FirstIndexIsFirst DEF IsFirst
<1>2. /\ cleared \in Seq(S)
      /\ Len(cleared) = Len(mem)
      /\ \A i \in DOMAIN mem : i # p => cleared[i] = mem[i]
  <2> HIDE DEF p
  <2>1. \A i \in DOMAIN mem : i # p => cleared[i] = mem[i]
    BY <1>1
  <2> QED BY <1>1, <1>0, <2>1, ExceptSeq, LenProperties
<1> HIDE DEF cleared
<1>3. DOMAIN cleared = DOMAIN mem
  BY <1>2, <1>0, LenProperties
<1>4. /\ n \in 0 .. Len(mem)
      /\ \A i \in DOMAIN cleared : cleared[i] # NoReg => i <= n
  BY <1>2, TrimmedLengthProperties
<1> HIDE DEF n
<1>5. /\ new \in Seq(S)
      /\ Len(new) = n
      /\ \A i \in 1 .. n : new[i] = cleared[i]
  <2>1. 1 \in Int /\ n \in Int /\ 1 <= n + 1 /\ n <= Len(cleared)
    BY <1>2, <1>4, <1>0
  <2> QED BY <2>1, <1>2, <1>4, <1>0, SubSeqProperties
<1>6. DeallocateMemorySlot(mem, reg) = new
  BY DEF DeallocateMemorySlot, Trim, cleared, n
<1>7. DOMAIN new = 1 .. n
  BY <1>5, LenProperties
<1> HIDE DEF new, p
<1>8. ASSUME NEW i \in DOMAIN mem, mem[i] # reg, mem[i] # NoReg
      PROVE  i \in DOMAIN new /\ new[i] = mem[i]
  <2>1. i # p
    BY <1>1, <1>8
  <2>2. i <= n
    BY <2>1, <1>2, <1>3, <1>4, <1>8
  <2> QED BY <2>1, <2>2, <1>0, <1>2, <1>5, <1>7
<1> QED BY <1>4, <1>5, <1>6, <1>8, <1>0

(* The occupied slots of mem are occupied by the same registers in new.    *)
KeepsSlots(mem, new) ==
  \A i \in DOMAIN mem : mem[i] # NoReg => i \in DOMAIN new /\ new[i] = mem[i]

GivesSlot(mem, reg, frame, new, slot, size, S) ==
  /\ new \in Seq(S) /\ slot \in Nat /\ size \in Nat
  /\ slot + 1 \in DOMAIN new /\ new[slot + 1] = reg
  /\ KeepsSlots(mem, new)
  /\ frame <= size
  /\ Len(mem) <= frame => Len(new) <= size /\ slot < size

(* An allocation gives reg the slot it returns and leaves the occupied     *)
(* slots alone.                                                            *)
LEMMA AllocateProperties ==
  ASSUME NEW S, NoReg \in S, NEW mem \in Seq(S), NEW reg \in S,
         NEW frame \in Nat
  PROVE  GivesSlot(mem, reg, frame, AllocatedMem(mem, reg), AllocatedSlot(mem),
                   AllocatedFrame(mem, frame), S)
<1> DEFINE new  == AllocatedMem(mem, reg)
           slot == AllocatedSlot(mem)
           size == AllocatedFrame(mem, frame)
           fill == FillEmpty(mem, reg)
           p    == FirstIndex(mem, NoReg)
<1>0. Len(mem) \in Nat /\ DOMAIN mem = 1 .. Len(mem)
  BY LenProperties
<1>1. ASSUME \E i \in DOMAIN mem : mem[i] = NoReg
      PROVE  p \in DOMAIN mem /\ mem[p] = NoReg
  BY <1>1, FirstIndexIsFirst DEF IsFirst
<1>2. /\ fill \in Seq(S)
      /\ Len(fill) = Len(mem)
      /\ \A i \in DOMAIN mem : mem[i] # NoReg => fill[i] = mem[i]
      /\ FoundEmpty(mem) => fill[p] = reg
  <2>1. CASE \E i \in DOMAIN mem : mem[i] = NoReg
    <3>1. fill = [mem EXCEPT ![p] = reg]
      BY <2>1 DEF FillEmpty
    <3>2. p \in DOMAIN mem /\ mem[p] = NoReg
      BY <1>1, <2>1
    <3> HIDE DEF p, fill
    <3>3. fill \in Seq(S) /\ Len(fill) = Len(mem)
      BY <3>1, <3>2, <1>0, ExceptSeq, LenProperties
    <3>4. \A i \in DOMAIN mem : mem[i] # NoReg => fill[i] = mem[i]
      BY <3>1, <3>2
    <3>5. fill[p] = reg
      BY <3>1, <3>2
    <3> QED BY <3>3, <3>4, <3>5
  <2>2. CASE ~ \E i \in DOMAIN mem : mem[i] = NoReg
    <3>1. fill = mem
      BY <2>2 DEF FillEmpty
    <3>2. ~ FoundEmpty(mem)
      BY <2>2 DEF FoundEmpty
    <3> QED BY <3>1, <3>2
  <2> QED BY <2>1, <2>2
<1>3. DOMAIN fill = 1 .. Len(mem)
  BY <1>2, LenProperties
<1>4. CASE FoundEmpty(mem)
  <2>1. new = fill /\ slot = p - 1 /\ size = frame
    BY <1>4 DEF AllocatedMem, AllocatedSlot, AllocatedFrame
  <2>2. p \in DOMAIN mem
    BY <1>1, <1>4 DEF FoundEmpty
  <2> HIDE DEF new, slot, size, fill, p
  <2>3. slot + 1 = p /\ slot \in Nat /\ (Len(mem) <= frame => slot < size)
    BY <2>1, <2>2, <1>0
  <2>4. GivesSlot(mem, reg, frame, new, slot, size, S)
    BY <2>1, <2>2, <2>3, <1>0, <1>2, <1>3, <1>4 DEF GivesSlot, KeepsSlots
  <2> QED BY <2>4 DEF new, slot, size
<1>5. CASE ~ FoundEmpty(mem)
  <2>1. /\ new = Append(fill, reg)
        /\ slot = Len(mem)
        /\ size = IF Len(mem) + 1 > frame THEN Len(mem) + 1 ELSE frame
    BY <1>5 DEF AllocatedMem, AllocatedSlot, AllocatedFrame
  <2> HIDE DEF fill, new, slot, size
  <2>2. /\ new \in Seq(S)
        /\ Len(new) = Len(mem) + 1
        /\ \A i \in 1 .. Len(mem) : new[i] = fill[i]
        /\ new[Len(mem) + 1] = reg
    BY <2>1, <1>2, AppendProperties
  <2>3. DOMAIN new = 1 .. (Len(mem) + 1)
    BY <2>2, LenProperties
  <2>4. size \in Nat /\ Len(mem) + 1 <= size /\ frame <= size
    BY <2>1, <1>0
  <2>5. GivesSlot(mem, reg, frame, new, slot, size, S)
    BY <2>1, <2>2, <2>3, <2>4, <1>0, <1>2 DEF GivesSlot, KeepsSlots
  <2> QED BY <2>5 DEF new, slot, size
<1> QED BY <1>4, <1>5
-----------------------------------------------------------------------------
(* The stack st has n elements; one operation leads from s to t.           *)
IsStack(st, n) == st \in Seq(Nat) /\ Len(st) = n /\ n \in Nat

Pushed(s, t, n, v) ==
  IsStack(t, n + 1) /\ t[n + 1] = v /\ \A i \in 1 .. n : t[i] = s[i]

Swapped(s, t, n, p) ==
  /\ IsStack(t, n) /\ t[n] = s[p] /\ t[p] = s[n]
  /\ \A i \in 1 .. n : i # n /\ i # p => t[i] = s[i]

Popped(s, t, n) == IsStack(t, n - 1) /\ \A i \in 1 .. n - 1 : t[i] = s[i]

LEMMA PushStack ==
  ASSUME NEW s, NEW n, IsStack(s, n), NEW v \in Nat
  PROVE  Pushed(s, Append(s, v), n, v)
  BY DEF IsStack, Pushed

LEMMA PopStack ==
  ASSUME NEW s, NEW n, IsStack(s, n), n >= 1
  PROVE  Popped(s, Pop(s), n)
<1>1. n - 1 \in Nat /\ n - 1 \in 0 .. Len(s)
  BY DEF IsStack
<1> QED BY <1>1 DEF IsStack, Popped, Pop

LEMMA SwapStack ==
  ASSUME NEW s, NEW n, IsStack(s, n), NEW d \in 1 .. n - 1
  PROVE  Swapped(s, Swap(s, d), n, n - d)
<1> DEFINE t == Swap(s, d)
<1>1. n \in Nat /\ n - d \in 1 .. n /\ n - d # n /\ n - 0 = n /\ DOMAIN s = 1 .. n
  BY DEF IsStack
<1>2. t = [s EXCEPT ![n] = s[n - d], ![n - d] = s[n]]
  BY <1>1 DEF Swap, Get, IsStack
<1>3. t \in Seq(Nat) /\ Len(t) = n
  <2>1. s[n] \in Nat /\ s[n - d] \in Nat
    BY <1>1 DEF IsStack
  <2> QED BY <1>1, <1>2, <2>1 DEF IsStack
<1>4. t[n] = s[n - d] /\ t[n - d] = s[n]
      /\ \A i \in 1 .. n : i # n /\ i # n - d => t[i] = s[i]
  BY <1>1, <1>2
<1> QED BY <1>1, <1>3, <1>4 DEF Swapped, IsStack

(* findRegDepth finds the occurrence nearest to the top.                   *)
Nearest(s, n, r, p) == p \in 1 .. n /\ s[p] = r /\ \A i \in p + 1 .. n : s[i] # r

LEMMA FindDepth ==
  ASSUME NEW s, NEW n, IsStack(s, n), NEW r, NEW p, Nearest(s, n, r, p)
  PROVE  IsOnStack(s, r) /\ FindRegDepth(s, r) = n - p
<1> DEFINE D(d) == Get(s, d) = r /\ \A e \in 0 .. (d - 1) : Get(s, e) # r
<1>1. n \in Nat /\ p \in 1 .. n /\ Len(s) = n /\ s[p] = r /\ \A i \in p + 1 .. n : s[i] # r
  BY DEF IsStack, Nearest
<1>2. n - p \in 0 .. n - 1 /\ n - (n - p) = p
  BY <1>1
<1>3. D(n - p)
  <2>1. Get(s, n - p) = r
    BY <1>1, <1>2 DEF Get
  <2>2. ASSUME NEW e \in 0 .. (n - p) - 1 PROVE Get(s, e) # r
    <3>1. n - e \in p + 1 .. n
      BY <1>1
    <3> QED BY <1>1, <3>1 DEF Get
  <2> QED BY <2>1, <2>2
<1>4. ASSUME NEW d \in 0 .. n - 1, D(d) PROVE d = n - p
  <2>1. ~(d < n - p)
    BY <1>1, <1>2, <1>3, <1>4
  <2>2. ~(n - p < d)
    <3>1. n - p < d => n - p \in 0 .. d - 1
      BY <1>1, <1>2
    <3> QED BY <1>3, <1>4, <3>1
  <2> QED BY <1>1, <1>2, <2>1, <2>2
<1> HIDE DEF D
<1>5. (CHOOSE d \in 0 .. n - 1 : D(d)) = n - p
  BY <1>2, <1>3, <1>4
<1>6. IsOnStack(s, r)
  BY <1>1, <1>2, <1>3 DEF IsOnStack, D
<1> QED BY <1>1, <1>5, <1>6 DEF FindRegDepth, D

LEMMA NearestExists ==
  ASSUME NEW s, NEW n \in Nat, NEW r, NEW i \in 1 .. n, s[i] = r
  PROVE  \E p : Nearest(s, n, r, p)
<1> DEFINE T == { k \in 0 .. n - 1 : s[n - k] = r }
<1>1. n - i \in 0 .. n - 1 /\ n - (n - i) = i
  OBVIOUS
<1>2. T \in SUBSET Nat /\ T # {}
  <2>1. n - i \in T
    BY <1>1
  <2>2. \A k \in 0 .. n - 1 : k \in Nat
    OBVIOUS
  <2> QED BY <2>1, <2>2
<1>3. PICK k \in T : \A m \in T : k <= m
  BY <1>2, LeastNatural
<1>4. n - k \in 1 .. n /\ s[n - k] = r
  BY <1>3
<1>5. ASSUME NEW j \in n - k + 1 .. n PROVE s[j] # r
  <2>1. n - j \in 0 .. n - 1 /\ n - (n - j) = j /\ n - j < k
    BY <1>4
  <2>2. n - j \notin T
    BY <1>3, <2>1
  <2> QED BY <2>1, <2>2
<1> QED BY <1>4, <1>5 DEF Nearest

LEMMA NotOnStack ==
  ASSUME NEW s, NEW n, IsStack(s, n), NEW r, \A i \in 1 .. n : s[i] # r
  PROVE  ~IsOnStack(s, r)
<1>1. ASSUME NEW d \in 0 .. n - 1 PROVE Get(s, d) # r
  <2>1. n - d \in 1 .. n
    BY DEF IsStack
  <2> QED BY <2>1 DEF Get, IsStack
<1> QED BY <1>1 DEF IsOnStack, IsStack
-----------------------------------------------------------------------------
(* The generator state after operations that did not fail.                 *)
Fine(g, n) ==
  DOMAIN g = {"stack", "code", "error"} /\ g.error = NoError /\ IsStack(g.stack, n)

LEMMA LoadStep ==
  ASSUME NEW g, NEW n, Fine(g, n), NEW use, use.reg \in Nat
  PROVE  LET h == InsertLoadFromMemoryBefore(g, use)
         IN  Fine(h, n + 1) /\ Pushed(g.stack, h.stack, n, use.reg)
<1> DEFINE h == InsertLoadFromMemoryBefore(g, use)
<1>1. Pushed(g.stack, Append(g.stack, use.reg), n, use.reg)
  BY PushStack DEF Fine
<1>2. DOMAIN h = DOMAIN g /\ h.error = g.error /\ h.stack = Append(g.stack, use.reg)
  BY DEF InsertLoadFromMemoryBefore, Checked, Insert, Push, Fine
<1> QED BY <1>1, <1>2 DEF Fine, Pushed

LEMMA SwapStep ==
  ASSUME NEW g, NEW n, Fine(g, n), NEW d \in 1 .. n - 1
  PROVE  LET h == InsertSwapBefore(g, d)
         IN  Fine(h, n) /\ Swapped(g.stack, h.stack, n, n - d)
<1> DEFINE h == InsertSwapBefore(g, d)
<1>1. Swapped(g.stack, Swap(g.stack, d), n, n - d)
  BY SwapStack DEF Fine
<1>2. Len(g.stack) >= 2
  BY DEF Fine, IsStack
<1>3. DOMAIN h = DOMAIN g /\ h.error = g.error /\ h.stack = Swap(g.stack, d)
  BY <1>2 DEF InsertSwapBefore, Checked, Insert, Fine
<1> QED BY <1>1, <1>3 DEF Fine, Swapped

LEMMA PopStep ==
  ASSUME NEW g, NEW n, Fine(g, n), n >= 1
  PROVE  LET h == InsertPopBefore(g)
         IN  Fine(h, n - 1) /\ Popped(g.stack, h.stack, n)
<1> DEFINE h == InsertPopBefore(g)
<1>1. Popped(g.stack, Pop(g.stack), n)
  BY PopStack DEF Fine
<1>2. g.stack # << >>
  BY DEF Fine, IsStack
<1>3. DOMAIN h = DOMAIN g /\ h.error = g.error /\ h.stack = Pop(g.stack)
  BY <1>2 DEF InsertPopBefore, Checked, Insert, Fine
<1> QED BY <1>1, <1>3 DEF Fine, Popped

(* A register on the stack is swapped to the top.                          *)
LEMMA SwapToTopStep ==
  ASSUME NEW g, NEW n, Fine(g, n), NEW r, NEW p, Nearest(g.stack, n, r, p)
  PROVE  LET h == SwapRegToTop(g, r)
         IN  Fine(h, n) /\ Swapped(g.stack, h.stack, n, p)
<1> DEFINE h == SwapRegToTop(g, r)
<1>1. IsOnStack(g.stack, r) /\ FindRegDepth(g.stack, r) = n - p
  BY FindDepth DEF Fine
<1>2. n \in Nat /\ p \in 1 .. n
  BY DEF Fine, IsStack, Nearest
<1>3. h = IF n - p # 0 THEN InsertSwapBefore(g, n - p) ELSE g
  BY <1>1 DEF SwapRegToTop, Checked, Fine
<1>4. CASE p = n
  <2>1. h = g
    BY <1>2, <1>3, <1>4
  <2> QED BY <1>4, <2>1 DEF Fine, Swapped
<1>5. CASE p # n
  <2>1. n - p \in 1 .. n - 1 /\ n - (n - p) = p
    BY <1>2, <1>5
  <2>2. h = InsertSwapBefore(g, n - p)
    BY <1>2, <1>3, <1>5
  <2>3. Fine(InsertSwapBefore(g, n - p), n)
        /\ Swapped(g.stack, InsertSwapBefore(g, n - p).stack, n, n - (n - p))
    BY <2>1, SwapStep
  <2> QED BY <2>1, <2>2, <2>3
<1> QED BY <1>4, <1>5

(* A register on the stack is copied to the top.                           *)
LEMMA DupStep ==
  ASSUME NEW g, NEW n, Fine(g, n), NEW r, NEW i \in 1 .. n, g.stack[i] = r
  PROVE  LET h == DupRegToTop(g, r)
         IN  Fine(h, n + 1) /\ Pushed(g.stack, h.stack, n, r)
<1> DEFINE h == DupRegToTop(g, r)
<1>1. n \in Nat /\ Len(g.stack) = n /\ IsStack(g.stack, n) /\ r \in Nat
  BY DEF Fine, IsStack
<1>2. PICK p : Nearest(g.stack, n, r, p)
  BY <1>1, NearestExists
<1>3. p \in 1 .. n /\ g.stack[p] = r
  BY <1>2 DEF Nearest
<1>4. IsOnStack(g.stack, r) /\ FindRegDepth(g.stack, r) = n - p
  BY <1>1, <1>2, FindDepth
<1>5. PICK k \in Nat : k = n - p + 1
  BY <1>1, <1>3
<1>6. h = InsertDupBefore(g, k)
  BY <1>4, <1>5 DEF DupRegToTop, Checked, Fine
<1>7. h = Insert(g, Op("DUP", k), Dup(g.stack, k - 1))
  <2>1. k > 0
    BY <1>1, <1>3, <1>5
  <2> QED BY <1>6, <2>1 DEF InsertDupBefore, Checked, Fine
<1>8. Dup(g.stack, k - 1) = Append(g.stack, r)
  <2>1. n - (k - 1) = p
    BY <1>1, <1>3, <1>5
  <2>2. Get(g.stack, k - 1) = r
    BY <1>1, <1>3, <2>1 DEF Get
  <2> QED BY <2>2 DEF Dup
<1>9. DOMAIN h = DOMAIN g /\ h.error = g.error /\ h.stack = Append(g.stack, r)
  BY <1>7, <1>8 DEF Insert, Fine
<1>10. Pushed(g.stack, Append(g.stack, r), n, r)
  BY <1>1, PushStack
<1> QED BY <1>9, <1>10 DEF Fine, Pushed

(* What fails, and that a failure stays.                                   *)
LEMMA SwapToTopFails ==
  ASSUME NEW g, NEW n, Fine(g, n), NEW r, \A i \in 1 .. n : g.stack[i] # r
  PROVE  SwapRegToTop(g, r).error # NoError
<1>1. ~IsOnStack(g.stack, r)
  BY NotOnStack DEF Fine
<1> QED BY <1>1 DEF SwapRegToTop, Checked, Fail, Fine, NoError

LEMMA FailureStays ==
  ASSUME NEW g, g.error # NoError
  PROVE  /\ \A r : SwapRegToTop(g, r) = g
         /\ InsertPopBefore(g) = g
         /\ \A d : InsertSwapBefore(g, d) = g
  BY DEF SwapRegToTop, InsertPopBefore, InsertSwapBefore, Checked
-----------------------------------------------------------------------------
(* The lowest m elements of st are the registers E, each once.             *)
Distinct(st, m, E) ==
  /\ \A i, j \in 1 .. m : st[i] = st[j] => i = j
  /\ \A i \in 1 .. m : st[i] \in E
  /\ \A e \in E : \E i \in 1 .. m : st[i] = e

LEMMA DistinctSwapped ==
  ASSUME NEW s, NEW t, NEW n \in Nat, NEW p \in 1 .. n, NEW E,
         Distinct(s, n, E), Swapped(s, t, n, p)
  PROVE  Distinct(t, n, E)
<1>1. \A i, j \in 1 .. n : t[i] = t[j] => i = j
  BY DEF Distinct, Swapped
<1>2. \A i \in 1 .. n : t[i] \in E
  BY DEF Distinct, Swapped
<1>3. ASSUME NEW e \in E PROVE \E i \in 1 .. n : t[i] = e
  <2>1. PICK i \in 1 .. n : s[i] = e
    BY DEF Distinct
  <2>2. i = n => t[p] = e
    BY <2>1 DEF Swapped
  <2>3. i = p => t[n] = e
    BY <2>1 DEF Swapped
  <2>4. i # n /\ i # p => t[i] = e
    BY <2>1 DEF Swapped
  <2>5. n \in 1 .. n
    OBVIOUS
  <2> QED BY <2>2, <2>3, <2>4, <2>5
<1> QED BY <1>1, <1>2, <1>3 DEF Distinct

LEMMA DistinctDrop ==
  ASSUME NEW s, NEW n \in Nat, n >= 1, NEW E, Distinct(s, n, E)
  PROVE  Distinct(s, n - 1, E \ {s[n]})
<1>1. n \in 1 .. n /\ \A i \in 1 .. n - 1 : i \in 1 .. n /\ i # n
  OBVIOUS
<1>2. ASSUME NEW e \in E \ {s[n]} PROVE \E i \in 1 .. n - 1 : s[i] = e
  <2>1. PICK i \in 1 .. n : s[i] = e
    BY DEF Distinct
  <2>2. i \in 1 .. n - 1
    BY <2>1
  <2> QED BY <2>1, <2>2
<1> QED BY <1>1, <1>2 DEF Distinct

LEMMA DistinctSame ==
  ASSUME NEW s, NEW t, NEW m, NEW E, Distinct(s, m, E), \A i \in 1 .. m : t[i] = s[i]
  PROVE  Distinct(t, m, E)
<1>1. ASSUME NEW e \in E PROVE \E i \in 1 .. m : t[i] = e
  BY DEF Distinct
<1> QED BY <1>1 DEF Distinct

LEMMA DistinctNearest ==
  ASSUME NEW s, NEW n \in Nat, NEW E, Distinct(s, n, E), NEW r \in E
  PROVE  \E p \in 1 .. n : s[p] = r /\ Nearest(s, n, r, p)
<1>1. PICK p \in 1 .. n : s[p] = r
  BY DEF Distinct
<1>2. ASSUME NEW i \in p + 1 .. n PROVE s[i] # r
  <2>1. i \in 1 .. n /\ i # p
    OBVIOUS
  <2> QED BY <1>1, <2>1 DEF Distinct
<1> QED BY <1>1, <1>2 DEF Nearest
-----------------------------------------------------------------------------
(* One, or two, operands are in place above the registers E.               *)
After1(g, r, E) ==
  \E m \in Nat : /\ m >= 1 /\ Fine(g, m) /\ g.stack[m] = r
                  /\ Distinct(g.stack, m - 1, E)

After2(g, r1, r2, E) ==
  \E m \in Nat : /\ m >= 2 /\ Fine(g, m) /\ g.stack[m] = r1 /\ g.stack[m - 1] = r2
                  /\ Distinct(g.stack, m - 2, E)

(* What an initial stack looks like from its top.                          *)
LEMMA TopElement ==
  ASSUME NEW g, NEW n \in Nat, Fine(g, n), NEW E, Distinct(g.stack, n, E), n >= 1
  PROVE  g.stack[n] \in E /\ After1(g, g.stack[n], E \ {g.stack[n]})
<1>1. g.stack[n] \in E
  BY DEF Distinct
<1> QED BY <1>1, DistinctDrop DEF After1

LEMMA TopTwo ==
  ASSUME NEW g, NEW n \in Nat, Fine(g, n), NEW E, Distinct(g.stack, n, E), n >= 2
  PROVE  /\ g.stack[n] \in E /\ g.stack[n - 1] \in E /\ g.stack[n] # g.stack[n - 1]
         /\ After2(g, g.stack[n], g.stack[n - 1], E \ {g.stack[n], g.stack[n - 1]})
<1>1. /\ n \in 1 .. n /\ n - 1 \in 1 .. n /\ n # n - 1 /\ n - 1 \in Nat
      /\ n - 1 >= 1 /\ n - 1 - 1 = n - 2
  OBVIOUS
<1>2. g.stack[n] \in E /\ g.stack[n - 1] \in E /\ g.stack[n] # g.stack[n - 1]
  BY <1>1 DEF Distinct
<1>3. Distinct(g.stack, n - 1, E \ {g.stack[n]})
  BY DistinctDrop
<1>4. Distinct(g.stack, n - 1 - 1, (E \ {g.stack[n]}) \ {g.stack[n - 1]})
  BY <1>1, <1>3, DistinctDrop
<1>5. (E \ {g.stack[n]}) \ {g.stack[n - 1]} = E \ {g.stack[n], g.stack[n - 1]}
  OBVIOUS
<1>6. Distinct(g.stack, n - 2, E \ {g.stack[n], g.stack[n - 1]})
  BY <1>1, <1>4, <1>5
<1> QED BY <1>2, <1>6 DEF After2

(* The first operand: loaded, copied or moved.                             *)
LEMMA FirstLoaded ==
  ASSUME NEW g, NEW n \in Nat, Fine(g, n), NEW E, Distinct(g.stack, n, E),
         NEW use, use.reg \in Nat
  PROVE  After1(InsertLoadFromMemoryBefore(g, use), use.reg, E)
<1> DEFINE h == InsertLoadFromMemoryBefore(g, use)
<1>1. Fine(h, n + 1) /\ Pushed(g.stack, h.stack, n, use.reg)
  BY LoadStep
<1> HIDE DEF h
<1>2. Distinct(h.stack, n, E) /\ h.stack[n + 1] = use.reg
  BY <1>1, DistinctSame DEF Pushed
<1>3. n + 1 \in Nat /\ n + 1 >= 1 /\ n + 1 - 1 = n
  OBVIOUS
<1> QED BY <1>1, <1>2, <1>3 DEF After1, h

LEMMA FirstCopied ==
  ASSUME NEW g, NEW n \in Nat, Fine(g, n), NEW E, Distinct(g.stack, n, E), NEW r \in E
  PROVE  After1(DupRegToTop(g, r), r, E)
<1> DEFINE h == DupRegToTop(g, r)
<1>0. PICK i \in 1 .. n : g.stack[i] = r
  BY DEF Distinct
<1>1. Fine(h, n + 1) /\ Pushed(g.stack, h.stack, n, r)
  BY <1>0, DupStep
<1> HIDE DEF h
<1>2. Distinct(h.stack, n, E) /\ h.stack[n + 1] = r
  BY <1>1, DistinctSame DEF Pushed
<1>3. n + 1 \in Nat /\ n + 1 >= 1 /\ n + 1 - 1 = n
  OBVIOUS
<1> QED BY <1>1, <1>2, <1>3 DEF After1, h

LEMMA MovedToTop ==
  ASSUME NEW g, NEW n \in Nat, Fine(g, n), NEW E, Distinct(g.stack, n, E), NEW r \in E
  PROVE  LET h == SwapRegToTop(g, r)
         IN  Fine(h, n) /\ Distinct(h.stack, n, E) /\ h.stack[n] = r /\ n >= 1
<1> DEFINE h == SwapRegToTop(g, r)
<1>1. PICK p \in 1 .. n : g.stack[p] = r /\ Nearest(g.stack, n, r, p)
  BY DistinctNearest
<1>2. Fine(h, n) /\ Swapped(g.stack, h.stack, n, p)
  BY <1>1, SwapToTopStep
<1> HIDE DEF h
<1>3. Distinct(h.stack, n, E) /\ h.stack[n] = r
  BY <1>1, <1>2, DistinctSwapped DEF Swapped
<1> QED BY <1>1, <1>2, <1>3 DEF h

LEMMA FirstMoved ==
  ASSUME NEW g, NEW n \in Nat, Fine(g, n), NEW E, Distinct(g.stack, n, E), NEW r \in E
  PROVE  After1(SwapRegToTop(g, r), r, E \ {r})
<1> DEFINE h == SwapRegToTop(g, r)
<1>1. Fine(h, n) /\ Distinct(h.stack, n, E) /\ h.stack[n] = r /\ n >= 1
  BY MovedToTop
<1> HIDE DEF h
<1> QED BY <1>1, TopElement DEF h

(* The second operand is put on top of the first.                          *)
LEMMA ThenLoaded ==
  ASSUME NEW g, NEW r, NEW E, After1(g, r, E), NEW use, use.reg \in Nat
  PROVE  After2(InsertLoadFromMemoryBefore(g, use), use.reg, r, E)
<1> DEFINE h == InsertLoadFromMemoryBefore(g, use)
<1>1. PICK m \in Nat : /\ m >= 1 /\ Fine(g, m) /\ g.stack[m] = r
                       /\ Distinct(g.stack, m - 1, E)
  BY DEF After1
<1>2. Fine(h, m + 1) /\ Pushed(g.stack, h.stack, m, use.reg)
  BY <1>1, LoadStep
<1> HIDE DEF h
<1>3. /\ m + 1 \in Nat /\ m + 1 >= 2 /\ m + 1 - 1 = m /\ m + 1 - 2 = m - 1
      /\ m \in 1 .. m /\ \A i \in 1 .. m - 1 : i \in 1 .. m
  BY <1>1
<1>4. Distinct(h.stack, m - 1, E) /\ h.stack[m + 1] = use.reg /\ h.stack[m] = r
  BY <1>1, <1>2, <1>3, DistinctSame DEF Pushed
<1> QED BY <1>2, <1>3, <1>4 DEF After2, h

LEMMA ThenCopied ==
  ASSUME NEW g, NEW r, NEW E, After1(g, r, E), NEW q \in E \cup {r}
  PROVE  After2(DupRegToTop(g, q), q, r, E)
<1> DEFINE h == DupRegToTop(g, q)
<1>1. PICK m \in Nat : /\ m >= 1 /\ Fine(g, m) /\ g.stack[m] = r
                       /\ Distinct(g.stack, m - 1, E)
  BY DEF After1
<1>0. PICK i \in 1 .. m : g.stack[i] = q
  <2>1. CASE q = r
    BY <1>1, <2>1
  <2>2. CASE q \in E
    BY <1>1, <2>2 DEF Distinct
  <2> QED BY <2>1, <2>2
<1>2. Fine(h, m + 1) /\ Pushed(g.stack, h.stack, m, q)
  BY <1>0, <1>1, DupStep
<1> HIDE DEF h
<1>3. /\ m + 1 \in Nat /\ m + 1 >= 2 /\ m + 1 - 1 = m /\ m + 1 - 2 = m - 1
      /\ m \in 1 .. m /\ \A j \in 1 .. m - 1 : j \in 1 .. m
  BY <1>1
<1>4. Distinct(h.stack, m - 1, E) /\ h.stack[m + 1] = q /\ h.stack[m] = r
  BY <1>1, <1>2, <1>3, DistinctSame DEF Pushed
<1> QED BY <1>2, <1>3, <1>4 DEF After2, h

(* The two operands are exchanged by SWAP1.                                *)
LEMMA Exchanged ==
  ASSUME NEW g, NEW a, NEW b, NEW E, After2(g, a, b, E)
  PROVE  After2(InsertSwapBefore(g, 1), b, a, E)
<1> DEFINE h == InsertSwapBefore(g, 1)
<1>1. PICK m \in Nat : /\ m >= 2 /\ Fine(g, m) /\ g.stack[m] = a /\ g.stack[m - 1] = b
                       /\ Distinct(g.stack, m - 2, E)
  BY DEF After2
<1>2. Fine(h, m) /\ Swapped(g.stack, h.stack, m, m - 1)
  BY <1>1, SwapStep
<1> HIDE DEF h
<1>3. \A i \in 1 .. m - 2 : h.stack[i] = g.stack[i]
  BY <1>1, <1>2 DEF Swapped
<1>4. h.stack[m] = b /\ h.stack[m - 1] = a /\ Distinct(h.stack, m - 2, E)
  BY <1>1, <1>2, <1>3, DistinctSame DEF Swapped
<1> QED BY <1>1, <1>2, <1>4 DEF After2, h

(* The lower of the two operands is swapped to the top.                    *)
LEMMA SecondMoved ==
  ASSUME NEW g, NEW a, NEW b, NEW E, After2(g, a, b, E), a # b
  PROVE  After2(SwapRegToTop(g, b), b, a, E)
<1> DEFINE h == SwapRegToTop(g, b)
<1>1. PICK m \in Nat : /\ m >= 2 /\ Fine(g, m) /\ g.stack[m] = a /\ g.stack[m - 1] = b
                       /\ Distinct(g.stack, m - 2, E)
  BY DEF After2
<1>0. Nearest(g.stack, m, b, m - 1)
  BY <1>1 DEF Nearest
<1>2. Fine(h, m) /\ Swapped(g.stack, h.stack, m, m - 1)
  BY <1>0, <1>1, SwapToTopStep
<1> HIDE DEF h
<1>3. \A i \in 1 .. m - 2 : h.stack[i] = g.stack[i]
  BY <1>1, <1>2 DEF Swapped
<1>4. h.stack[m] = b /\ h.stack[m - 1] = a /\ Distinct(h.stack, m - 2, E)
  BY <1>1, <1>2, <1>3, DistinctSame DEF Swapped
<1> QED BY <1>1, <1>2, <1>4 DEF After2, h

(* A register from below takes the place of the top element, which goes    *)
(* where the register was.                                                 *)
LEMMA Raised ==
  ASSUME NEW g, NEW a, NEW b, NEW E, After2(g, a, b, E), a \notin E,
         NEW r \in E \cup {a}, r # b
  PROVE  After2(SwapRegToTop(g, r), r, b, (E \cup {a}) \ {r})
<1> DEFINE h == SwapRegToTop(g, r)
           F == (E \cup {a}) \ {r}
<1>1. PICK m \in Nat : /\ m >= 2 /\ Fine(g, m) /\ g.stack[m] = a /\ g.stack[m - 1] = b
                       /\ Distinct(g.stack, m - 2, E)
  BY DEF After2
<1>2. CASE r = a
  <2>1. Nearest(g.stack, m, r, m)
    BY <1>1, <1>2 DEF Nearest
  <2>2. Fine(h, m) /\ Swapped(g.stack, h.stack, m, m)
    BY <1>1, <2>1, SwapToTopStep
  <2> HIDE DEF h, F
  <2>3. h.stack[m] = r /\ h.stack[m - 1] = b /\ \A i \in 1 .. m - 2 : h.stack[i] = g.stack[i]
    BY <1>1, <1>2, <2>2 DEF Swapped
  <2>4. F = E
    BY <1>2 DEF F
  <2>5. Distinct(h.stack, m - 2, E)
    BY <1>1, <2>3, DistinctSame
  <2> QED BY <1>1, <2>2, <2>3, <2>4, <2>5 DEF After2, F, h
<1>3. CASE r # a
  <2>1. PICK p \in 1 .. m - 2 : g.stack[p] = r
    BY <1>1, <1>3 DEF Distinct
  <2>2. p \in 1 .. m /\ p # m /\ p # m - 1
    BY <1>1
  <2>3. Nearest(g.stack, m, r, p)
    <3>1. ASSUME NEW i \in p + 1 .. m PROVE g.stack[i] # r
      <4>1. i = m \/ i = m - 1 \/ (i \in 1 .. m - 2 /\ i # p)
        BY <1>1, <2>2
      <4> QED BY <1>1, <1>3, <2>1, <4>1 DEF Distinct
    <3> QED BY <2>1, <2>2, <3>1 DEF Nearest
  <2>4. Fine(h, m) /\ Swapped(g.stack, h.stack, m, p)
    BY <1>1, <2>3, SwapToTopStep
  <2> HIDE DEF h, F
  <2>5. /\ h.stack[m] = r /\ h.stack[m - 1] = b /\ h.stack[p] = a
        /\ \A i \in 1 .. m - 2 : i # p => h.stack[i] = g.stack[i]
    BY <1>1, <2>1, <2>2, <2>4 DEF Swapped
  <2>6. Distinct(h.stack, m - 2, F)
    <3>1. \A i, j \in 1 .. m - 2 : h.stack[i] = h.stack[j] => i = j
      BY <1>1, <2>1, <2>5 DEF Distinct
    <3>2. \A i \in 1 .. m - 2 : h.stack[i] \in F
      BY <1>1, <1>3, <2>1, <2>5 DEF Distinct, F
    <3>3. ASSUME NEW e \in F PROVE \E i \in 1 .. m - 2 : h.stack[i] = e
      <4>1. CASE e = a
        BY <2>1, <2>5, <4>1
      <4>2. CASE e # a
        <5>1. PICK i \in 1 .. m - 2 : g.stack[i] = e
          BY <1>1, <4>2 DEF Distinct, F
        <5>2. i # p
          BY <2>1, <5>1 DEF F
        <5> QED BY <2>5, <5>1, <5>2
      <4> QED BY <4>1, <4>2
    <3> QED BY <3>1, <3>2, <3>3 DEF Distinct
  <2> QED BY <1>1, <2>4, <2>5, <2>6 DEF After2, F, h
<1> QED BY <1>2, <1>3
-----------------------------------------------------------------------------
(* A use of a stack on which the registers E are: an operand in memory is  *)
(* not among them, any other is.                                           *)
UseOf(u, E) ==
  /\ u.reg \in Nat /\ u.isMemUse \in BOOLEAN /\ u.isLastUse \in BOOLEAN
  /\ u.isMemUse <=> u.reg \notin E

(* The registers left when the operands in S are gone.                     *)
Left(E, u) == IF u.isLastUse THEN E \ {u.reg} ELSE E

LEMMA MoveOrCopyRight ==
  ASSUME NEW g, NEW n \in Nat, Fine(g, n), NEW E, Distinct(g.stack, n, E),
         NEW u, UseOf(u, E), ~u.isMemUse
  PROVE  After1(MoveOrCopy(g, u), u.reg, Left(E, u))
<1>1. u.reg \in E
  BY DEF UseOf
<1>2. CASE u.isLastUse
  BY <1>1, <1>2, FirstMoved DEF MoveOrCopy, Left
<1>3. CASE ~u.isLastUse
  BY <1>1, <1>3, FirstCopied DEF MoveOrCopy, Left
<1> QED BY <1>2, <1>3

(* handleUnaryOpcode leaves the operand on top.                            *)
LEMMA UnaryRight ==
  ASSUME NEW g, NEW n \in Nat, Fine(g, n), NEW E, Distinct(g.stack, n, E),
         NEW u, UseOf(u, E)
  PROVE  After1(HandleUnaryOpcode(g, u), u.reg, Left(E, u))
<1>1. CASE u.isMemUse
  <2>1. Left(E, u) = E /\ u.reg \in Nat
    BY <1>1 DEF UseOf, Left
  <2>2. After1(InsertLoadFromMemoryBefore(g, u), u.reg, E)
    BY <2>1, FirstLoaded
  <2> QED BY <1>1, <2>1, <2>2 DEF HandleUnaryOpcode
<1>2. CASE ~u.isMemUse
  BY <1>2, MoveOrCopyRight DEF HandleUnaryOpcode
<1> QED BY <1>1, <1>2

(* The depths that the handlers compare.                                   *)
LEMMA Depths ==
  ASSUME NEW g, NEW n \in Nat, Fine(g, n), NEW E, Distinct(g.stack, n, E), NEW r \in E
  PROVE  /\ FindRegDepth(g.stack, r) \in 0 .. n - 1
         /\ g.stack[n - FindRegDepth(g.stack, r)] = r
<1>1. PICK p \in 1 .. n : g.stack[p] = r /\ Nearest(g.stack, n, r, p)
  BY DistinctNearest
<1>2. FindRegDepth(g.stack, r) = n - p
  BY <1>1, FindDepth DEF Fine
<1>3. n - p \in 0 .. n - 1 /\ n - (n - p) = p
  OBVIOUS
<1> QED BY <1>1, <1>2, <1>3

(* Both operands die here: they end on top, the first one uppermost.       *)
LEMMA BothLastUseRight ==
  ASSUME NEW g, NEW n \in Nat, Fine(g, n), NEW E, Distinct(g.stack, n, E),
         NEW r1 \in E, NEW r2 \in E, r1 # r2
  PROVE  After2(BothLastUse(g, r1, r2), r1, r2, E \ {r1, r2})
<1> DEFINE d1 == FindRegDepth(g.stack, r1)
           d2 == FindRegDepth(g.stack, r2)
           a  == g.stack[n]
           b  == g.stack[n - 1]
<1>1. /\ d1 \in 0 .. n - 1 /\ g.stack[n - d1] = r1
      /\ d2 \in 0 .. n - 1 /\ g.stack[n - d2] = r2
  BY Depths
<1> HIDE DEF d1, d2
<1>2. d1 # d2 /\ n >= 2 /\ (d1 = 0 => a = r1) /\ (d2 = 0 => a = r2)
      /\ (d1 = 1 => b = r1) /\ (d2 = 1 => b = r2)
  BY <1>1
<1>3. a \in E /\ b \in E /\ a # b /\ After2(g, a, b, E \ {a, b})
  BY <1>2, TopTwo
<1>4. (d1 # 0 => a # r1) /\ (d2 # 0 => a # r2) /\ (d1 # 1 => b # r1) /\ (d2 # 1 => b # r2)
  BY <1>1, <1>2 DEF Distinct
<1>5. CASE d1 = 0 /\ d2 = 1
  <2>1. BothLastUse(g, r1, r2) = g
    BY <1>5 DEF BothLastUse, d1, d2
  <2> QED BY <1>2, <1>3, <1>5, <2>1
<1>6. CASE d1 = 0 /\ d2 # 1
  <2> DEFINE g1 == InsertSwapBefore(g, 1)
             g2 == SwapRegToTop(g1, r2)
             g3 == SwapRegToTop(g2, r1)
  <2>0. d2 >= 2 /\ g.error = NoError
    BY <1>1, <1>2, <1>6 DEF Fine
  <2>1. BothLastUse(g, r1, r2) = g3
    BY <1>6, <2>0 DEF BothLastUse, Checked, d1, d2
  <2>2. After2(g1, b, a, E \ {a, b})
    BY <1>3, Exchanged
  <2> HIDE DEF g1
  <2>3. r2 \in (E \ {a, b}) \cup {b} /\ r2 # a /\ b \notin E \ {a, b}
    BY <1>2, <1>4, <1>6
  <2>4. After2(g2, r2, a, ((E \ {a, b}) \cup {b}) \ {r2})
    BY <2>2, <2>3, Raised
  <2> HIDE DEF g2
  <2>5. ((E \ {a, b}) \cup {b}) \ {r2} = E \ {r1, r2}
    BY <1>2, <1>3, <1>6
  <2>6. After2(g3, r1, r2, E \ {r1, r2})
    BY <1>2, <1>6, <2>4, <2>5, SecondMoved
  <2> QED BY <2>1, <2>6
<1>7. CASE d1 # 0 /\ d2 = 1
  <2>1. BothLastUse(g, r1, r2) = SwapRegToTop(g, r1)
    BY <1>7 DEF BothLastUse, d1, d2
  <2>2. r1 \in (E \ {a, b}) \cup {a} /\ r1 # b /\ a \notin E \ {a, b}
    BY <1>2, <1>7
  <2>3. After2(SwapRegToTop(g, r1), r1, b, ((E \ {a, b}) \cup {a}) \ {r1})
    BY <1>3, <2>2, Raised
  <2>4. ((E \ {a, b}) \cup {a}) \ {r1} = E \ {r1, r2}
    BY <1>2, <1>3, <1>7
  <2> QED BY <1>2, <1>7, <2>1, <2>3, <2>4
<1>8. CASE d1 = 1 /\ d2 = 0
  <2>1. BothLastUse(g, r1, r2) = InsertSwapBefore(g, 1)
    BY <1>8 DEF BothLastUse, d1, d2
  <2>2. After2(InsertSwapBefore(g, 1), b, a, E \ {a, b})
    BY <1>3, Exchanged
  <2>3. E \ {a, b} = E \ {r1, r2}
    BY <1>2, <1>8
  <2> QED BY <1>2, <1>8, <2>1, <2>2, <2>3
<1>9. CASE d1 # 0 /\ d2 # 1 /\ ~(d1 = 1 /\ d2 = 0)
  <2> DEFINE g1 == SwapRegToTop(g, r2)
             g2 == InsertSwapBefore(g1, 1)
             g3 == SwapRegToTop(g2, r1)
             c  == g1.stack[n - 1]
  <2>1. BothLastUse(g, r1, r2) = g3
    BY <1>9 DEF BothLastUse, d1, d2
  <2>2. Fine(g1, n) /\ Distinct(g1.stack, n, E) /\ g1.stack[n] = r2
    BY MovedToTop
  <2> HIDE DEF g1
  <2>3. c \in E /\ c # r2 /\ After2(g1, r2, c, E \ {r2, c})
    BY <1>2, <2>2, TopTwo
  <2> HIDE DEF c
  <2>4. After2(g2, c, r2, E \ {r2, c})
    BY <2>3, Exchanged
  <2> HIDE DEF g2
  <2>5. r1 \in (E \ {r2, c}) \cup {c} /\ c \notin E \ {r2, c}
    OBVIOUS
  <2>6. After2(g3, r1, r2, ((E \ {r2, c}) \cup {c}) \ {r1})
    BY <2>4, <2>5, Raised
  <2>7. ((E \ {r2, c}) \cup {c}) \ {r1} = E \ {r1, r2}
    BY <2>3
  <2> QED BY <2>1, <2>6, <2>7
<1> QED BY <1>5, <1>6, <1>7, <1>8, <1>9

(* The first operand dies, the second is needed again and not "in place".  *)
LEMMA FirstLastUseRight ==
  ASSUME NEW g, NEW n \in Nat, Fine(g, n), NEW E, Distinct(g.stack, n, E),
         NEW r1 \in E, NEW r2 \in E, r1 # r2,
         ~(g.stack[n - 1] = r2 /\ g.stack[n] # r1)
  PROVE  After2(FirstLastUse(g, r1, r2), r1, r2, E \ {r1})
<1> DEFINE d1 == FindRegDepth(g.stack, r1)
           d2 == FindRegDepth(g.stack, r2)
           a  == g.stack[n]
<1>1. /\ d1 \in 0 .. n - 1 /\ g.stack[n - d1] = r1
      /\ d2 \in 0 .. n - 1 /\ g.stack[n - d2] = r2
  BY Depths
<1> HIDE DEF d1, d2
<1>2. n >= 1 /\ (d1 = 0 => a = r1) /\ (d2 = 1 => g.stack[n - 1] = r2)
  BY <1>1
<1>3. a \in E /\ After1(g, a, E \ {a})
  BY <1>2, TopElement
<1>4. d1 # 0 => a # r1
  BY <1>1, <1>2 DEF Distinct
<1> DEFINE g1 == DupRegToTop(g, r2)
<1>5. After2(g1, r2, a, E \ {a})
  <2>1. r2 \in (E \ {a}) \cup {a}
    OBVIOUS
  <2> QED BY <1>3, <2>1, ThenCopied
<1>6. CASE d1 = 0
  <2>1. FirstLastUse(g, r1, r2) = SwapRegToTop(g1, r1)
    BY <1>6 DEF FirstLastUse, d1
  <2> HIDE DEF g1
  <2>2. After2(SwapRegToTop(g1, r1), r1, r2, E \ {r1})
    BY <1>2, <1>5, <1>6, SecondMoved
  <2> QED BY <2>1, <2>2
<1>7. CASE d1 # 0
  <2> DEFINE g2 == InsertSwapBefore(g1, 1)
  <2>1. d2 # 1
    BY <1>2, <1>4, <1>7
  <2>2. FirstLastUse(g, r1, r2) = SwapRegToTop(g2, r1)
    BY <1>7, <2>1 DEF FirstLastUse, d1, d2
  <2> HIDE DEF g1
  <2>3. After2(g2, a, r2, E \ {a})
    BY <1>5, Exchanged
  <2> HIDE DEF g2
  <2>4. r1 \in (E \ {a}) \cup {a} /\ a \notin E \ {a}
    OBVIOUS
  <2>5. After2(SwapRegToTop(g2, r1), r1, r2, ((E \ {a}) \cup {a}) \ {r1})
    BY <2>3, <2>4, Raised
  <2>6. ((E \ {a}) \cup {a}) \ {r1} = E \ {r1}
    BY <1>3
  <2> QED BY <2>2, <2>5, <2>6
<1> QED BY <1>6, <1>7

(* handleBinaryOpcode leaves the operands on top, outside the pattern of   *)
(* the "2 in place" branch and of a register that dies as both operands.   *)
LEMMA BinaryRight ==
  ASSUME NEW g, NEW n \in Nat, Fine(g, n), NEW E, Distinct(g.stack, n, E),
         NEW u1, NEW u2, UseOf(u1, E), UseOf(u2, E),
         u1.reg = u2.reg => u1.isLastUse = u2.isLastUse /\ (u1.isLastUse => u1.isMemUse),
         ~( /\ ~u1.isMemUse /\ ~u2.isMemUse /\ u1.isLastUse /\ ~u2.isLastUse
            /\ g.stack[n - 1] = u2.reg /\ g.stack[n] # u1.reg )
  PROVE  After2(HandleBinaryOpcode(g, u1, u2), u1.reg, u2.reg, Left(Left(E, u2), u1))
<1>0. u1.reg \in Nat /\ u2.reg \in Nat
  BY DEF UseOf
<1>1. CASE u1.isMemUse /\ u2.isMemUse
  <2> DEFINE g1 == InsertLoadFromMemoryBefore(g, u2)
  <2>1. HandleBinaryOpcode(g, u1, u2) = InsertLoadFromMemoryBefore(g1, u1)
    BY <1>1 DEF HandleBinaryOpcode
  <2>2. After1(g1, u2.reg, E)
    BY <1>0, FirstLoaded
  <2> HIDE DEF g1
  <2>3. After2(InsertLoadFromMemoryBefore(g1, u1), u1.reg, u2.reg, E)
    BY <1>0, <2>2, ThenLoaded
  <2>4. Left(Left(E, u2), u1) = E
    BY <1>1 DEF Left, UseOf
  <2> QED BY <2>1, <2>3, <2>4
<1>2. CASE u1.isMemUse /\ ~u2.isMemUse
  <2> DEFINE g1 == MoveOrCopy(g, u2)
  <2>1. HandleBinaryOpcode(g, u1, u2) = InsertLoadFromMemoryBefore(g1, u1)
    BY <1>2 DEF HandleBinaryOpcode
  <2>2. After1(g1, u2.reg, Left(E, u2))
    BY <1>2, MoveOrCopyRight
  <2> HIDE DEF g1
  <2>3. After2(InsertLoadFromMemoryBefore(g1, u1), u1.reg, u2.reg, Left(E, u2))
    BY <1>0, <2>2, ThenLoaded
  <2>4. Left(Left(E, u2), u1) = Left(E, u2)
    BY <1>2 DEF Left, UseOf
  <2> QED BY <2>1, <2>3, <2>4
<1>3. CASE ~u1.isMemUse /\ u2.isMemUse
  <2>0. u1.reg \in E /\ u2.reg \notin E /\ Left(Left(E, u2), u1) = Left(E, u1)
    BY <1>3 DEF UseOf, Left
  <2>1. CASE u1.isLastUse
    <3> DEFINE g1 == SwapRegToTop(g, u1.reg)
               g2 == InsertLoadFromMemoryBefore(g1, u2)
    <3>1. HandleBinaryOpcode(g, u1, u2) = SwapRegToTop(g2, u1.reg)
      BY <1>3, <2>1 DEF HandleBinaryOpcode
    <3>2. After1(g1, u1.reg, E \ {u1.reg})
      BY <2>0, FirstMoved
    <3> HIDE DEF g1
    <3>3. After2(g2, u2.reg, u1.reg, E \ {u1.reg})
      BY <1>0, <3>2, ThenLoaded
    <3> HIDE DEF g2
    <3>4. After2(SwapRegToTop(g2, u1.reg), u1.reg, u2.reg, E \ {u1.reg})
      BY <2>0, <3>3, SecondMoved
    <3> QED BY <2>0, <2>1, <3>1, <3>4 DEF Left
  <2>2. CASE ~u1.isLastUse
    <3> DEFINE g1 == InsertLoadFromMemoryBefore(g, u2)
    <3>1. HandleBinaryOpcode(g, u1, u2) = DupRegToTop(g1, u1.reg)
      BY <1>3, <2>2 DEF HandleBinaryOpcode
    <3>2. After1(g1, u2.reg, E)
      BY <1>0, FirstLoaded
    <3> HIDE DEF g1
    <3>3. After2(DupRegToTop(g1, u1.reg), u1.reg, u2.reg, E)
      BY <2>0, <3>2, ThenCopied
    <3> QED BY <2>0, <2>2, <3>1, <3>3 DEF Left
  <2> QED BY <2>1, <2>2
<1>4. CASE ~u1.isMemUse /\ ~u2.isMemUse
  <2>0. u1.reg \in E /\ u2.reg \in E /\ HandleBinaryOpcode(g, u1, u2) = BothOnStack(g, u1, u2)
    BY <1>4 DEF UseOf, HandleBinaryOpcode
  <2>1. CASE u1.isLastUse /\ u2.isLastUse
    <3>1. u1.reg # u2.reg
      BY <1>4, <2>1
    <3>2. BothOnStack(g, u1, u2) = BothLastUse(g, u1.reg, u2.reg)
      BY <2>1 DEF BothOnStack
    <3>3. Left(Left(E, u2), u1) = E \ {u1.reg, u2.reg}
      BY <2>1 DEF Left
    <3> QED BY <2>0, <3>1, <3>2, <3>3, BothLastUseRight
  <2>2. CASE u1.isLastUse /\ ~u2.isLastUse
    <3>1. u1.reg # u2.reg
      BY <2>2
    <3>2. BothOnStack(g, u1, u2) = FirstLastUse(g, u1.reg, u2.reg)
      BY <2>2 DEF BothOnStack
    <3>3. Left(Left(E, u2), u1) = E \ {u1.reg}
      BY <2>2 DEF Left
    <3>4. ~(g.stack[n - 1] = u2.reg /\ g.stack[n] # u1.reg)
      BY <1>4, <2>2
    <3> QED BY <2>0, <3>1, <3>2, <3>3, <3>4, FirstLastUseRight
  <2>3. CASE ~u1.isLastUse /\ u2.isLastUse
    <3> DEFINE g1 == SwapRegToTop(g, u2.reg)
    <3>1. BothOnStack(g, u1, u2) = DupRegToTop(g1, u1.reg)
      BY <2>3 DEF BothOnStack
    <3>2. After1(g1, u2.reg, E \ {u2.reg})
      BY <2>0, FirstMoved
    <3> HIDE DEF g1
    <3>3. u1.reg \in (E \ {u2.reg}) \cup {u2.reg}
      BY <2>0
    <3>4. After2(DupRegToTop(g1, u1.reg), u1.reg, u2.reg, E \ {u2.reg})
      BY <3>2, <3>3, ThenCopied
    <3>5. Left(Left(E, u2), u1) = E \ {u2.reg}
      BY <2>3 DEF Left
    <3> QED BY <2>0, <3>1, <3>4, <3>5
  <2>4. CASE ~u1.isLastUse /\ ~u2.isLastUse
    <3> DEFINE g1 == DupRegToTop(g, u2.reg)
    <3>1. BothOnStack(g, u1, u2) = DupRegToTop(g1, u1.reg)
      BY <2>4 DEF BothOnStack
    <3>2. After1(g1, u2.reg, E)
      BY <2>0, FirstCopied
    <3> HIDE DEF g1
    <3>3. After2(DupRegToTop(g1, u1.reg), u1.reg, u2.reg, E)
      BY <2>0, <3>2, ThenCopied
    <3>4. Left(Left(E, u2), u1) = E
      BY <2>4 DEF Left
    <3> QED BY <2>0, <3>1, <3>3, <3>4
  <2> QED BY <2>1, <2>2, <2>3, <2>4
<1> QED BY <1>1, <1>2, <1>3, <1>4
-----------------------------------------------------------------------------
(* handleArbitraryOpcode handles one operand after the other, the last one *)
(* first; cleanUpDeadRegisters goes through them from the first one.       *)
PlaceStep(g, use) ==
  IF use.isMemUse THEN InsertLoadFromMemoryBefore(g, use) ELSE DupRegToTop(g, use.reg)

DropStep(g, use) ==
  IF use.isLastUse THEN InsertPopBefore(SwapRegToTop(g, use.reg)) ELSE g

(* The generator states while the operands are copied.                     *)
PlaceTrace(f, g, us, m) ==
  f = [k \in 0 .. m |-> IF k = 0 THEN g ELSE PlaceStep(f[k - 1], us[Len(us) + 1 - k])]

LEMMA PlaceTraceExists ==
  ASSUME NEW g, NEW us, NEW n \in Nat
  PROVE  \E f : PlaceTrace(f, g, us, n)
<1> DEFINE T == { m \in Nat : \E f : PlaceTrace(f, g, us, m) }
<1>1. 0 \in T
  <2>1. PlaceTrace([k \in 0 .. 0 |-> g], g, us, 0)
    BY DEF PlaceTrace
  <2> QED BY <2>1
<1>2. ASSUME NEW k \in 1 .. n, k - 1 \in T PROVE k \in T
  <2>1. PICK f : PlaceTrace(f, g, us, k - 1)
    BY <1>2
  <2> DEFINE h == [j \in 0 .. k |-> IF j = k THEN PlaceStep(f[k - 1], us[Len(us) + 1 - k]) ELSE f[j]]
  <2>2. \A j \in 0 .. k - 1 : f[j] = IF j = 0 THEN g ELSE PlaceStep(f[j - 1], us[Len(us) + 1 - j])
    BY <2>1, Zenon DEF PlaceTrace
  <2>3. \A j \in 0 .. k : h[j] = IF j = 0 THEN g ELSE PlaceStep(h[j - 1], us[Len(us) + 1 - j])
    BY <2>2
  <2>4. PlaceTrace(h, g, us, k)
    BY <2>3 DEF PlaceTrace
  <2> QED BY <2>4
<1>3. T \in SUBSET Nat
  OBVIOUS
<1> HIDE DEF T
<1>4. \A k \in 0 .. n : k \in T
  BY <1>1, <1>2, <1>3, SetInduction
<1>5. n \in T
  BY <1>4
<1> QED BY <1>5 DEF T

(* The generator states while the dead operands are dropped.               *)
DropTrace(f, g, us, m) ==
  f = [k \in 0 .. m |-> IF k = 0 THEN g ELSE DropStep(f[k - 1], us[k])]

LEMMA DropTraceExists ==
  ASSUME NEW g, NEW us, NEW n \in Nat
  PROVE  \E f : DropTrace(f, g, us, n)
<1> DEFINE T == { m \in Nat : \E f : DropTrace(f, g, us, m) }
<1>1. 0 \in T
  <2>1. DropTrace([k \in 0 .. 0 |-> g], g, us, 0)
    BY DEF DropTrace
  <2> QED BY <2>1
<1>2. ASSUME NEW k \in 1 .. n, k - 1 \in T PROVE k \in T
  <2>1. PICK f : DropTrace(f, g, us, k - 1)
    BY <1>2
  <2> DEFINE h == [j \in 0 .. k |-> IF j = k THEN DropStep(f[k - 1], us[k]) ELSE f[j]]
  <2>2. \A j \in 0 .. k - 1 : f[j] = IF j = 0 THEN g ELSE DropStep(f[j - 1], us[j])
    BY <2>1, Zenon DEF DropTrace
  <2>3. \A j \in 0 .. k : h[j] = IF j = 0 THEN g ELSE DropStep(h[j - 1], us[j])
    BY <2>2
  <2>4. DropTrace(h, g, us, k)
    BY <2>3 DEF DropTrace
  <2> QED BY <2>4
<1>3. T \in SUBSET Nat
  OBVIOUS
<1> HIDE DEF T
<1>4. \A k \in 0 .. n : k \in T
  BY <1>1, <1>2, <1>3, SetInduction
<1>5. n \in T
  BY <1>4
<1> QED BY <1>5 DEF T

LEMMA ArbitraryTrace ==
  ASSUME NEW g, NEW us, Len(us) \in Nat
  PROVE  \E f : PlaceTrace(f, g, us, Len(us)) /\ HandleArbitraryOpcode(g, us) = f[Len(us)]
<1> DEFINE n == Len(us)
           place[k \in 0 .. n] ==
             IF k = 0 THEN g
             ELSE LET use == us[n + 1 - k]
                  IN  IF use.isMemUse
                      THEN InsertLoadFromMemoryBefore(place[k - 1], use)
                      ELSE DupRegToTop(place[k - 1], use.reg)
<1>0. \E f : PlaceTrace(f, g, us, n)
  BY PlaceTraceExists
<1>1. PICK f : PlaceTrace(f, g, us, n)
  BY <1>0
<1>2. f = [k \in 0 .. n |->
             IF k = 0 THEN g
             ELSE LET use == us[n + 1 - k]
                  IN  IF use.isMemUse
                      THEN InsertLoadFromMemoryBefore(f[k - 1], use)
                      ELSE DupRegToTop(f[k - 1], use.reg)]
  BY <1>1, Zenon DEF PlaceTrace, PlaceStep
<1>3. place = [k \in 0 .. n |->
                 IF k = 0 THEN g
                 ELSE LET use == us[n + 1 - k]
                      IN  IF use.isMemUse
                          THEN InsertLoadFromMemoryBefore(place[k - 1], use)
                          ELSE DupRegToTop(place[k - 1], use.reg)]
  BY <1>2, Zenon
<1>4. HandleArbitraryOpcode(g, us) = place[n]
  BY Zenon DEF HandleArbitraryOpcode
<1>5. PlaceTrace(place, g, us, n)
  BY <1>3, Zenon DEF PlaceTrace, PlaceStep
<1> QED BY <1>4, <1>5, Zenon

LEMMA CleanUpTrace ==
  ASSUME NEW g, NEW us, Len(us) \in Nat, Len(us) > 2
  PROVE  \E f : DropTrace(f, g, us, Len(us)) /\ CleanUp(g, us) = f[Len(us)]
<1> DEFINE n == Len(us)
           drop[k \in 0 .. n] ==
             IF k = 0 THEN g
             ELSE IF us[k].isLastUse
                  THEN InsertPopBefore(SwapRegToTop(drop[k - 1], us[k].reg))
                  ELSE drop[k - 1]
<1>0. \E f : DropTrace(f, g, us, n)
  BY DropTraceExists
<1>1. PICK f : DropTrace(f, g, us, n)
  BY <1>0
<1>2. f = [k \in 0 .. n |->
             IF k = 0 THEN g
             ELSE IF us[k].isLastUse
                  THEN InsertPopBefore(SwapRegToTop(f[k - 1], us[k].reg))
                  ELSE f[k - 1]]
  BY <1>1, Zenon DEF DropTrace, DropStep
<1>3. drop = [k \in 0 .. n |->
                IF k = 0 THEN g
                ELSE IF us[k].isLastUse
                     THEN InsertPopBefore(SwapRegToTop(drop[k - 1], us[k].reg))
                     ELSE drop[k - 1]]
  BY <1>2, Zenon
<1>4. CleanUp(g, us) = drop[n]
  <2>1. ~(Len(us) <= 2)
    OBVIOUS
  <2> QED BY <2>1, Zenon DEF CleanUp
<1>5. DropTrace(drop, g, us, n)
  BY <1>3, Zenon DEF DropTrace, DropStep
<1> QED BY <1>4, <1>5, Zenon
-----------------------------------------------------------------------------
(* The stack of g is the registers E, each once.                           *)
Holds(g, E) == \E m \in Nat : Fine(g, m) /\ Distinct(g.stack, m, E)

(* The n operands us are on top of the m elements of st, the first one     *)
(* uppermost; c is what remains of p.                                      *)
InOrder(st, us, n, m) == \A i \in 1 .. n : st[m + 1 - i] = us[i].reg

Remains(c, p, k) == Fine(c, k) /\ \A i \in 1 .. k : c.stack[i] = p.stack[i]

(* When the operands are on top, in order, handleUses pops them.           *)
LEMMA PoppedInOrder ==
  ASSUME NEW g, NEW us, NEW n \in Nat, Len(us) = n, NEW m \in Nat, n <= m,
         Fine(ArrangeOperands(g, us), m),
         InOrder(ArrangeOperands(g, us).stack, us, n, m)
  PROVE  Remains(ConsumeOperands(g, us), ArrangeOperands(g, us), m - n)
<1> DEFINE c == ConsumeOperands(g, us)
<1>0. PICK p : p = ArrangeOperands(g, us)
  OBVIOUS
<1>1. p.error = NoError /\ p.stack \in Seq(Nat) /\ Len(p.stack) = m
      /\ DOMAIN p = {"stack", "code", "error"}
  BY <1>0 DEF Fine, IsStack
<1>2. ASSUME NEW i \in 1 .. n PROVE Get(p.stack, i - 1) = us[i].reg
  <2>1. m - (i - 1) = m + 1 - i
    OBVIOUS
  <2> QED BY <1>0, <1>1, <2>1 DEF Get, InOrder
<1>3. c = [p EXCEPT !.stack = Below(p.stack, n)]
  BY <1>0, <1>1, <1>2 DEF ConsumeOperands, Checked
<1>4. c.error = NoError /\ DOMAIN c = DOMAIN p /\ c.stack = Below(p.stack, n)
  BY <1>1, <1>3
<1> HIDE DEF c
<1>5. m - n \in Nat /\ m - n \in 0 .. m
  OBVIOUS
<1>6. Below(p.stack, n) \in Seq(Nat) /\ Len(Below(p.stack, n)) = m - n
      /\ \A i \in 1 .. m - n : Below(p.stack, n)[i] = p.stack[i]
  BY <1>1, <1>5 DEF Below
<1>7. Fine(c, m - n) /\ \A i \in 1 .. m - n : c.stack[i] = p.stack[i]
  BY <1>1, <1>4, <1>5, <1>6 DEF Fine, IsStack
<1> QED BY <1>0, <1>7 DEF c, Remains

LEMMA ConsumeOne ==
  ASSUME NEW g, NEW us, Len(us) = 1, NEW E,
         After1(HandleUnaryOpcode(g, us[1]), us[1].reg, E)
  PROVE  Holds(ConsumeOperands(g, us), E)
<1> DEFINE p == HandleUnaryOpcode(g, us[1])
           c == ConsumeOperands(g, us)
<1>1. p = ArrangeOperands(g, us)
  BY DEF ArrangeOperands
<1>2. PICK m \in Nat : /\ m >= 1 /\ Fine(p, m) /\ p.stack[m] = us[1].reg
                       /\ Distinct(p.stack, m - 1, E)
  BY DEF After1
<1> HIDE DEF p
<1>3. InOrder(p.stack, us, 1, m)
  <2>1. m + 1 - 1 = m
    BY <1>2
  <2>2. \A i \in 1 .. 1 : i = 1
    OBVIOUS
  <2> QED BY <1>2, <2>1, <2>2 DEF InOrder
<1>4. Remains(c, p, m - 1)
  BY <1>1, <1>2, <1>3, PoppedInOrder
<1> HIDE DEF c
<1>5. Distinct(c.stack, m - 1, E) /\ m - 1 \in Nat
  BY <1>2, <1>4, DistinctSame DEF Remains
<1> QED BY <1>4, <1>5 DEF Holds, Remains, c

LEMMA ConsumeTwo ==
  ASSUME NEW g, NEW us, Len(us) = 2, NEW E,
         After2(HandleBinaryOpcode(g, us[1], us[2]), us[1].reg, us[2].reg, E)
  PROVE  Holds(ConsumeOperands(g, us), E)
<1> DEFINE p == HandleBinaryOpcode(g, us[1], us[2])
           c == ConsumeOperands(g, us)
<1>1. p = ArrangeOperands(g, us)
  BY DEF ArrangeOperands
<1>2. PICK m \in Nat : /\ m >= 2 /\ Fine(p, m)
                       /\ p.stack[m] = us[1].reg /\ p.stack[m - 1] = us[2].reg
                       /\ Distinct(p.stack, m - 2, E)
  BY DEF After2
<1> HIDE DEF p
<1>3. InOrder(p.stack, us, 2, m)
  <2>1. m + 1 - 1 = m /\ m + 1 - 2 = m - 1
    BY <1>2
  <2>2. \A i \in 1 .. 2 : i = 1 \/ i = 2
    OBVIOUS
  <2> QED BY <1>2, <2>1, <2>2 DEF InOrder
<1>4. Remains(c, p, m - 2)
  BY <1>1, <1>2, <1>3, PoppedInOrder
<1> HIDE DEF c
<1>5. Distinct(c.stack, m - 2, E) /\ m - 2 \in Nat
  BY <1>2, <1>4, DistinctSame DEF Remains
<1> QED BY <1>4, <1>5 DEF Holds, Remains, c

(* k operands have been placed on the stack st of m elements.              *)
Placed(h, st, m, us, k) ==
  /\ Fine(h, m + k)
  /\ \A i \in 1 .. m : h.stack[i] = st[i]
  /\ \A j \in 1 .. k : h.stack[m + j] = us[Len(us) + 1 - j].reg

LEMMA PlacedStep ==
  ASSUME NEW g, NEW m \in Nat, NEW E, Distinct(g.stack, m, E),
         NEW us, Len(us) \in Nat, \A i \in 1 .. Len(us) : UseOf(us[i], E),
         NEW k \in 1 .. Len(us), NEW h, Placed(h, g.stack, m, us, k - 1)
  PROVE  Placed(PlaceStep(h, us[Len(us) + 1 - k]), g.stack, m, us, k)
<1>0. Len(us) + 1 - k \in 1 .. Len(us)
  OBVIOUS
<1>1. PICK q \in 1 .. Len(us) : q = Len(us) + 1 - k
  BY <1>0
<1>2. PICK s \in Nat : s = m + (k - 1)
  OBVIOUS
<1>3. UseOf(us[q], E) /\ us[q].reg \in Nat /\ Fine(h, s)
  BY <1>1, <1>2 DEF UseOf, Placed
<1> DEFINE t == PlaceStep(h, us[q])
<1>4. Fine(t, s + 1) /\ Pushed(h.stack, t.stack, s, us[q].reg)
  <2>1. CASE us[q].isMemUse
    BY <1>3, <2>1, LoadStep DEF PlaceStep
  <2>2. CASE ~us[q].isMemUse
    <3>1. us[q].reg \in E
      BY <1>3, <2>2 DEF UseOf
    <3>2. PICK i \in 1 .. m : g.stack[i] = us[q].reg
      BY <3>1 DEF Distinct
    <3>3. i \in 1 .. s /\ h.stack[i] = us[q].reg
      BY <1>2, <3>2 DEF Placed
    <3>4. Fine(DupRegToTop(h, us[q].reg), s + 1)
          /\ Pushed(h.stack, DupRegToTop(h, us[q].reg).stack, s, us[q].reg)
      BY <1>3, <3>3, DupStep
    <3> QED BY <2>2, <3>4 DEF PlaceStep
  <2> QED BY <2>1, <2>2
<1> HIDE DEF t
<1>5. s + 1 = m + k /\ Fine(t, m + k)
  BY <1>2, <1>4
<1>6. \A i \in 1 .. s : t.stack[i] = h.stack[i]
  BY <1>4 DEF Pushed
<1>7. ASSUME NEW i \in 1 .. m PROVE t.stack[i] = g.stack[i]
  BY <1>2, <1>6 DEF Placed
<1>8. ASSUME NEW j \in 1 .. k PROVE t.stack[m + j] = us[Len(us) + 1 - j].reg
  <2>1. CASE j = k
    BY <1>1, <1>4, <1>5, <2>1 DEF Pushed
  <2>2. CASE j # k
    <3>1. j \in 1 .. k - 1 /\ m + j \in 1 .. s
      BY <1>2, <2>2
    <3>2. h.stack[m + j] = us[Len(us) + 1 - j].reg
      BY <3>1 DEF Placed
    <3> QED BY <1>6, <3>1, <3>2
  <2> QED BY <2>1, <2>2
<1>9. Placed(t, g.stack, m, us, k)
  BY <1>5, <1>7, <1>8 DEF Placed
<1> QED BY <1>1, <1>9 DEF t

(* handleArbitraryOpcode copies every operand, so that popping them gives  *)
(* back the stack it started from.                                         *)
LEMMA ConsumeMany ==
  ASSUME NEW g, NEW m \in Nat, Fine(g, m), NEW E, Distinct(g.stack, m, E),
         NEW us, Len(us) \in Nat, Len(us) > 2,
         \A i \in 1 .. Len(us) : UseOf(us[i], E)
  PROVE  Holds(ConsumeOperands(g, us), E)
<1> DEFINE n == Len(us)
           c == ConsumeOperands(g, us)
<1>1. PICK f : PlaceTrace(f, g, us, n) /\ HandleArbitraryOpcode(g, us) = f[n]
  BY ArbitraryTrace
<1>2. f[0] = g /\ \A k \in 1 .. n : f[k] = PlaceStep(f[k - 1], us[n + 1 - k])
  <2>1. \A k \in 0 .. n : f[k] = IF k = 0 THEN g ELSE PlaceStep(f[k - 1], us[n + 1 - k])
    BY <1>1, Zenon DEF PlaceTrace
  <2>2. 0 \in 0 .. n /\ \A k \in 1 .. n : k \in 0 .. n /\ k # 0
    OBVIOUS
  <2> QED BY <2>1, <2>2
<1> DEFINE T == { k \in 0 .. n : Placed(f[k], g.stack, m, us, k) }
<1>3. T \in SUBSET Nat /\ 0 \in T
  <2>1. Placed(g, g.stack, m, us, 0)
    <3>1. m + 0 = m
      OBVIOUS
    <3> QED BY <3>1 DEF Placed
  <2> QED BY <1>2, <2>1
<1>4. ASSUME NEW k \in 1 .. n, k - 1 \in T PROVE k \in T
  <2>1. Placed(f[k - 1], g.stack, m, us, k - 1)
    BY <1>4
  <2>2. Placed(PlaceStep(f[k - 1], us[n + 1 - k]), g.stack, m, us, k)
    BY <2>1, PlacedStep
  <2> QED BY <1>2, <2>2
<1>5. Placed(f[n], g.stack, m, us, n)
  <2> HIDE DEF T
  <2>1. \A k \in 0 .. n : k \in T
    BY <1>3, <1>4, SetInduction
  <2>2. n \in T
    BY <2>1
  <2> QED BY <2>2 DEF T
<1>6. f[n] = ArrangeOperands(g, us)
  <2>1. Len(us) # 0 /\ Len(us) # 1 /\ Len(us) # 2
    OBVIOUS
  <2>2. ArrangeOperands(g, us) = HandleArbitraryOpcode(g, us)
    BY <2>1, Zenon DEF ArrangeOperands
  <2> QED BY <1>1, <2>2
<1>7. PICK p : p = f[n]
  OBVIOUS
<1>8. PICK s \in Nat : s = m + n
  OBVIOUS
<1>9. Fine(p, s) /\ (\A i \in 1 .. m : p.stack[i] = g.stack[i])
      /\ (\A j \in 1 .. n : p.stack[m + j] = us[n + 1 - j].reg)
  BY <1>5, <1>7, <1>8 DEF Placed
<1>10. ASSUME NEW i \in 1 .. n PROVE p.stack[s + 1 - i] = us[i].reg
  <2>0. n + 1 - i \in 1 .. n
    OBVIOUS
  <2>1. PICK j \in 1 .. n : j = n + 1 - i
    BY <2>0
  <2>2. s + 1 - i = m + j /\ n + 1 - j = i
    BY <1>8, <2>1
  <2> QED BY <1>9, <2>2
<1>11. Remains(c, p, m)
  <2>1. InOrder(p.stack, us, n, s)
    BY <1>10 DEF InOrder
  <2>2. n <= s /\ s - n = m
    BY <1>8
  <2>3. Remains(c, p, s - n)
    BY <1>6, <1>7, <1>9, <2>1, <2>2, PoppedInOrder
  <2> QED BY <2>2, <2>3
<1> HIDE DEF c
<1>12. Fine(c, m) /\ Distinct(c.stack, m, E)
  BY <1>9, <1>11, DistinctSame DEF Remains
<1> QED BY <1>12 DEF Holds, c

(* SWAP1 permutes the stack.                                               *)
LEMMA SwapOne ==
  ASSUME NEW g, NEW n \in Nat, Fine(g, n), NEW E, Distinct(g.stack, n, E), n >= 2
  PROVE  LET h == InsertSwapBefore(g, 1) IN Fine(h, n) /\ Distinct(h.stack, n, E)
<1> DEFINE h == InsertSwapBefore(g, 1)
<1>1. Fine(h, n) /\ Swapped(g.stack, h.stack, n, n - 1)
  BY SwapStep
<1> HIDE DEF h
<1>2. n - 1 \in 1 .. n
  OBVIOUS
<1>3. Distinct(h.stack, n, E)
  BY <1>1, <1>2, DistinctSwapped
<1> QED BY <1>1, <1>3 DEF h

(* A register that dies as both operands is moved twice and never copied:  *)
(* the second pop meets another register and the assertion fails.          *)
LEMMA RepeatedFails ==
  ASSUME NEW g, NEW n \in Nat, Fine(g, n), NEW E, Distinct(g.stack, n, E),
         NEW us, Len(us) = 2, NEW r \in E, us[1].reg = r, us[2].reg = r,
         ~us[1].isMemUse, ~us[2].isMemUse, us[1].isLastUse, us[2].isLastUse
  PROVE  ConsumeOperands(g, us).error # NoError
<1> DEFINE p == BothLastUse(g, r, r)
           d == FindRegDepth(g.stack, r)
<1>1. ArrangeOperands(g, us) = p
  <2>1. ArrangeOperands(g, us) = HandleBinaryOpcode(g, us[1], us[2])
    BY DEF ArrangeOperands
  <2>2. HandleBinaryOpcode(g, us[1], us[2]) = BothOnStack(g, us[1], us[2])
    BY DEF HandleBinaryOpcode
  <2> QED BY <2>1, <2>2 DEF BothOnStack
<1>2. d \in 0 .. n - 1
  BY Depths
<1> HIDE DEF d
<1>3. p.error # NoError \/ (Fine(p, n) /\ Distinct(p.stack, n, E))
  <2>1. CASE d = 0
    <3>1. d # 1 /\ ~(d >= 2)
      BY <2>1
    <3>2. p = Fail(g, "depth2 >= 2")
      BY <2>1, <3>1 DEF BothLastUse, Checked, Fine, d
    <3> QED BY <3>2 DEF Fail, Fine, NoError
  <2>2. CASE d = 1
    <3>1. p = SwapRegToTop(g, r)
      BY <2>2 DEF BothLastUse, d
    <3> QED BY <3>1, MovedToTop
  <2>3. CASE d # 0 /\ d # 1
    <3> DEFINE g1 == SwapRegToTop(g, r)
               g2 == InsertSwapBefore(g1, 1)
    <3>1. p = SwapRegToTop(g2, r)
      BY <2>3 DEF BothLastUse, d
    <3>2. Fine(g1, n) /\ Distinct(g1.stack, n, E) /\ n >= 2
      BY <1>2, <2>3, MovedToTop
    <3> HIDE DEF g1
    <3>3. Fine(g2, n) /\ Distinct(g2.stack, n, E)
      BY <3>2, SwapOne
    <3> HIDE DEF g2
    <3> QED BY <3>1, <3>3, MovedToTop
  <2> QED BY <2>1, <2>2, <2>3
<1> HIDE DEF p
<1>4. CASE p.error # NoError
  BY <1>1, <1>4 DEF ConsumeOperands, Checked
<1>5. CASE Fine(p, n) /\ Distinct(p.stack, n, E) /\ p.error = NoError
  <2>1. ~( /\ Len(p.stack) >= 2
           /\ \A i \in 1 .. 2 : Get(p.stack, i - 1) = us[i].reg )
    <3> SUFFICES ASSUME n >= 2, Get(p.stack, 1 - 1) = r, Get(p.stack, 2 - 1) = r PROVE FALSE
      BY <1>5 DEF Fine, IsStack
    <3>1. p.stack[n] = r /\ p.stack[n - 1] = r
      BY <1>5 DEF Get, Fine, IsStack
    <3> QED BY <1>5, <3>1 DEF Distinct
  <2>2. ConsumeOperands(g, us) = Fail(p, "reg == useTypes[i].reg")
    BY <1>1, <1>5, <2>1 DEF ConsumeOperands, Checked
  <2>3. "error" \in DOMAIN p
    BY <1>5 DEF Fine
  <2> QED BY <2>2, <2>3 DEF Fail, NoError
<1> QED BY <1>3, <1>4, <1>5 DEF Fine
-----------------------------------------------------------------------------
(* cleanUpDeadRegisters.  The registers of the first k operands that die,  *)
(* and the condition under which each of them is still on the stack when   *)
(* its turn comes.                                                         *)
DeadIn(us, k) == { us[i].reg : i \in { j \in 1 .. k : us[j].isLastUse } }

OnceOnStack(us, E, k) ==
  \A i \in 1 .. k : us[i].isLastUse => us[i].reg \in E \ DeadIn(us, i - 1)

Dropped(h, us, E, k) ==
  /\ OnceOnStack(us, E, k) => Holds(h, E \ DeadIn(us, k))
  /\ ~OnceOnStack(us, E, k) => h.error # NoError

LEMMA HoldsNoError ==
  ASSUME NEW g, NEW E, Holds(g, E)
  PROVE  g.error = NoError
  BY DEF Holds, Fine

LEMMA DroppedStep ==
  ASSUME NEW us, NEW E, NEW n \in Nat, NEW k \in 1 .. n, NEW h, Dropped(h, us, E, k - 1)
  PROVE  Dropped(DropStep(h, us[k]), us, E, k)
<1>0. /\ k \in 1 .. k /\ k - 1 \in Nat
      /\ \A i \in 1 .. k - 1 : i \in 1 .. k
      /\ \A i \in 1 .. k : i = k \/ i \in 1 .. k - 1
  OBVIOUS
<1>1. CASE ~OnceOnStack(us, E, k - 1)
  <2>1. h.error # NoError /\ ~OnceOnStack(us, E, k)
    BY <1>0, <1>1 DEF Dropped, OnceOnStack
  <2>2. DropStep(h, us[k]) = h
    BY <2>1, FailureStays DEF DropStep
  <2> QED BY <2>1, <2>2 DEF Dropped
<1>2. CASE OnceOnStack(us, E, k - 1) /\ ~us[k].isLastUse
  <2>1. DeadIn(us, k) = DeadIn(us, k - 1)
    BY <1>0, <1>2 DEF DeadIn
  <2>2. OnceOnStack(us, E, k)
    BY <1>0, <1>2 DEF OnceOnStack
  <2>3. DropStep(h, us[k]) = h
    BY <1>2 DEF DropStep
  <2> QED BY <1>2, <2>1, <2>2, <2>3 DEF Dropped
<1>3. CASE OnceOnStack(us, E, k - 1) /\ us[k].isLastUse
  <2> DEFINE F == E \ DeadIn(us, k - 1)
             r == us[k].reg
             s == SwapRegToTop(h, r)
  <2>1. PICK m \in Nat : Fine(h, m) /\ Distinct(h.stack, m, F)
    BY <1>3 DEF Dropped, Holds
  <2>2. DropStep(h, us[k]) = InsertPopBefore(s)
    BY <1>3 DEF DropStep
  <2>3. OnceOnStack(us, E, k) <=> r \in F
    BY <1>0, <1>3 DEF OnceOnStack
  <2>4. E \ DeadIn(us, k) = F \ {r}
    BY <1>0, <1>3 DEF DeadIn
  <2> HIDE DEF F, r
  <2>5. CASE r \in F
    <3>1. Fine(s, m) /\ Distinct(s.stack, m, F) /\ s.stack[m] = r /\ m >= 1
      BY <2>1, <2>5, MovedToTop
    <3> HIDE DEF s
    <3> DEFINE q == InsertPopBefore(s)
    <3>2. Fine(q, m - 1) /\ Popped(s.stack, q.stack, m)
      BY <3>1, PopStep
    <3> HIDE DEF q
    <3>3. Distinct(s.stack, m - 1, F \ {r}) /\ m - 1 \in Nat
      BY <3>1, DistinctDrop
    <3>4. \A i \in 1 .. m - 1 : q.stack[i] = s.stack[i]
      BY <3>2 DEF Popped
    <3>5. Distinct(q.stack, m - 1, F \ {r})
      BY <3>3, <3>4, DistinctSame
    <3>6. Holds(q, F \ {r})
      BY <3>2, <3>3, <3>5 DEF Holds
    <3> QED BY <2>2, <2>3, <2>4, <2>5, <3>6 DEF Dropped, q
  <2>6. CASE r \notin F
    <3>1. \A i \in 1 .. m : h.stack[i] # r
      BY <2>1, <2>6 DEF Distinct
    <3>2. s.error # NoError
      BY <2>1, <3>1, SwapToTopFails
    <3> HIDE DEF s
    <3>3. InsertPopBefore(s) = s
      BY <3>2, FailureStays
    <3> QED BY <2>2, <2>3, <2>6, <3>2, <3>3 DEF Dropped
  <2> QED BY <2>5, <2>6
<1> QED BY <1>1, <1>2, <1>3

LEMMA CleanUpRight ==
  ASSUME NEW g, NEW E, Holds(g, E), NEW us, Len(us) \in Nat, Len(us) > 2
  PROVE  Dropped(CleanUp(g, us), us, E, Len(us))
<1> DEFINE n == Len(us)
<1>1. PICK f : DropTrace(f, g, us, n) /\ CleanUp(g, us) = f[n]
  BY CleanUpTrace
<1>2. f[0] = g /\ \A k \in 1 .. n : f[k] = DropStep(f[k - 1], us[k])
  <2>1. \A k \in 0 .. n : f[k] = IF k = 0 THEN g ELSE DropStep(f[k - 1], us[k])
    BY <1>1, Zenon DEF DropTrace
  <2>2. 0 \in 0 .. n /\ \A k \in 1 .. n : k \in 0 .. n /\ k # 0
    OBVIOUS
  <2> QED BY <2>1, <2>2
<1> DEFINE T == { k \in 0 .. n : Dropped(f[k], us, E, k) }
<1>3. T \in SUBSET Nat /\ 0 \in T
  <2>1. \A i : i \notin 1 .. 0
    OBVIOUS
  <2>2. DeadIn(us, 0) = {} /\ OnceOnStack(us, E, 0)
    BY <2>1 DEF DeadIn, OnceOnStack
  <2>3. E \ DeadIn(us, 0) = E
    BY <2>2
  <2>4. Dropped(g, us, E, 0)
    BY <2>2, <2>3 DEF Dropped
  <2> QED BY <1>2, <2>4
<1>4. ASSUME NEW k \in 1 .. n, k - 1 \in T PROVE k \in T
  <2>1. Dropped(f[k - 1], us, E, k - 1)
    BY <1>4
  <2>2. Dropped(DropStep(f[k - 1], us[k]), us, E, k)
    BY <2>1, DroppedStep
  <2> QED BY <1>2, <2>2
<1> HIDE DEF T
<1>5. \A k \in 0 .. n : k \in T
  BY <1>3, <1>4, SetInduction
<1>6. n \in T
  BY <1>5
<1> QED BY <1>1, <1>6 DEF T
-----------------------------------------------------------------------------
(* The operands of an instruction that meets a stack with the registers E, *)
(* and the patterns the handlers do not cope with.                         *)
OperandsOf(us, E) ==
  /\ Len(us) \in Nat /\ DOMAIN us = 1 .. Len(us)
  /\ \A i \in 1 .. Len(us) : UseOf(us[i], E)
  /\ \A i, j \in 1 .. Len(us) : us[i].reg = us[j].reg => us[i].isLastUse = us[j].isLastUse

InPlace(us, st, n) ==
  /\ Len(us) = 2
  /\ ~us[1].isMemUse /\ ~us[2].isMemUse /\ us[1].isLastUse /\ ~us[2].isLastUse
  /\ st[n - 1] = us[2].reg /\ st[n] # us[1].reg

Repeated(us) ==
  \E i, j \in 1 .. Len(us) :
    i # j /\ us[i].reg = us[j].reg /\ us[i].isLastUse /\ ~us[i].isMemUse

DyingInMem(us) ==
  Len(us) > 2 /\ \E i \in 1 .. Len(us) : us[i].isLastUse /\ us[i].isMemUse

(* After handleUses, and after cleanUpDeadRegisters.  (twoInPlace is the   *)
(* pattern InPlace of the stack handleUses started with.)                  *)
Consumed(g, us, E, twoInPlace) ==
  /\ g.error # NoError => twoInPlace \/ Repeated(us)
  /\ g.error = NoError /\ ~twoInPlace /\ Len(us) <= 2 =>
       Holds(g, E \ DeadIn(us, Len(us)))
  /\ g.error = NoError /\ Len(us) > 2 => Holds(g, E)

Cleaned(g, us, E, twoInPlace) ==
  /\ g.error # NoError => twoInPlace \/ Repeated(us) \/ DyingInMem(us)
  /\ g.error = NoError /\ ~twoInPlace => Holds(g, E \ DeadIn(us, Len(us)))

LEMMA ConsumeRight ==
  ASSUME NEW n \in Nat, NEW g, Fine(g, n), NEW E, Distinct(g.stack, n, E),
         NEW us, OperandsOf(us, E), NEW twoInPlace \in BOOLEAN,
         InPlace(us, g.stack, n) => twoInPlace
  PROVE  Consumed(ConsumeOperands(g, us), us, E, twoInPlace)
<1> DEFINE c == ConsumeOperands(g, us)
<1>1. Fine(g, n) /\ Distinct(g.stack, n, E)
  OBVIOUS
<1>2. Len(us) \in Nat /\ \A i \in 1 .. Len(us) : UseOf(us[i], E)
  BY DEF OperandsOf
<1>3. CASE Len(us) = 0
  <2>1. ArrangeOperands(g, us) = g
    BY <1>3 DEF ArrangeOperands
  <2>2. InOrder(g.stack, us, 0, n) /\ 0 <= n /\ n - 0 = n
    BY DEF InOrder
  <2>3. Remains(c, g, n - 0)
    BY <1>1, <1>3, <2>1, <2>2, PoppedInOrder
  <2> HIDE DEF c
  <2>4. Fine(c, n) /\ Distinct(c.stack, n, E)
    BY <1>1, <2>2, <2>3, DistinctSame DEF Remains
  <2>5. DeadIn(us, 0) = {}
    BY DEF DeadIn
  <2>6. Holds(c, E \ DeadIn(us, Len(us)))
    BY <1>3, <2>4, <2>5 DEF Holds
  <2> QED BY <1>3, <2>4, <2>6 DEF Consumed, Fine, c
<1>4. CASE Len(us) = 1
  <2>1. UseOf(us[1], E)
    BY <1>2, <1>4
  <2>2. After1(HandleUnaryOpcode(g, us[1]), us[1].reg, Left(E, us[1]))
    BY <1>1, <2>1, UnaryRight
  <2>3. Holds(c, Left(E, us[1]))
    BY <1>4, <2>2, ConsumeOne
  <2> HIDE DEF c
  <2>4. Left(E, us[1]) = E \ DeadIn(us, 1)
    <3>1. \A i \in 1 .. 1 : i = 1
      OBVIOUS
    <3>2. 1 \in 1 .. 1
      OBVIOUS
    <3> QED BY <3>1, <3>2 DEF Left, DeadIn
  <2>5. c.error = NoError
    BY <2>3, HoldsNoError
  <2> QED BY <1>4, <2>3, <2>4, <2>5 DEF Consumed, c
<1>5. CASE Len(us) = 2 /\ Repeated(us)
  <2>1. PICK r : /\ us[1].reg = r /\ us[2].reg = r /\ us[1].isLastUse /\ us[2].isLastUse
                 /\ ~us[1].isMemUse /\ ~us[2].isMemUse /\ r \in E
    <3>1. PICK i, j \in 1 .. 2 :
            i # j /\ us[i].reg = us[j].reg /\ us[i].isLastUse /\ ~us[i].isMemUse
      BY <1>5 DEF Repeated
    <3>2. us[1].reg = us[2].reg /\ us[1].isLastUse = us[2].isLastUse
          /\ UseOf(us[1], E) /\ UseOf(us[2], E)
      <4>1. (i = 1 /\ j = 2) \/ (i = 2 /\ j = 1)
        BY <3>1
      <4>2. us[1].reg = us[2].reg
        BY <3>1, <4>1
      <4> QED BY <1>2, <1>5, <4>2 DEF OperandsOf
    <3>3. i = 1 \/ i = 2
      OBVIOUS
    <3> QED BY <3>1, <3>2, <3>3 DEF UseOf
  <2>2. c.error # NoError
    BY <1>1, <1>5, <2>1, RepeatedFails
  <2> HIDE DEF c
  <2> QED BY <1>5, <2>2 DEF Consumed, c
<1>6. CASE Len(us) = 2 /\ twoInPlace
  <2>1. ~(Len(us) > 2)
    BY <1>6
  <2> HIDE DEF c
  <2> QED BY <1>6, <2>1 DEF Consumed, c
<1>7. CASE Len(us) = 2 /\ ~Repeated(us) /\ ~twoInPlace
  <2>0. 1 \in 1 .. 2 /\ 2 \in 1 .. 2 /\ 1 # 2
    OBVIOUS
  <2>1. UseOf(us[1], E) /\ UseOf(us[2], E)
    BY <1>2, <1>7, <2>0
  <2>2. us[1].reg = us[2].reg => us[1].isLastUse = us[2].isLastUse
    BY <1>7, <2>0 DEF OperandsOf
  <2>3. us[1].reg = us[2].reg => (us[1].isLastUse => us[1].isMemUse)
    BY <1>7, <2>0 DEF Repeated
  <2>4. ~( /\ ~us[1].isMemUse /\ ~us[2].isMemUse /\ us[1].isLastUse /\ ~us[2].isLastUse
           /\ g.stack[n - 1] = us[2].reg /\ g.stack[n] # us[1].reg )
    BY <1>7 DEF InPlace
  <2>5. After2(HandleBinaryOpcode(g, us[1], us[2]), us[1].reg, us[2].reg,
               Left(Left(E, us[2]), us[1]))
    BY <1>1, <2>1, <2>2, <2>3, <2>4, BinaryRight
  <2>6. Holds(c, Left(Left(E, us[2]), us[1]))
    BY <1>7, <2>5, ConsumeTwo
  <2> HIDE DEF c
  <2>7. Left(Left(E, us[2]), us[1]) = E \ DeadIn(us, 2)
    <3>1. \A i \in 1 .. 2 : i = 1 \/ i = 2
      OBVIOUS
    <3> QED BY <2>0, <3>1 DEF Left, DeadIn
  <2>8. c.error = NoError
    BY <2>6, HoldsNoError
  <2>9. ~(Len(us) > 2)
    BY <1>7
  <2> QED BY <1>7, <2>6, <2>7, <2>8, <2>9, Zenon DEF Consumed, c
<1>8. CASE Len(us) > 2
  <2>1. Holds(c, E)
    BY <1>1, <1>2, <1>8, ConsumeMany
  <2> HIDE DEF c
  <2>2. c.error = NoError /\ ~(Len(us) <= 2)
    BY <1>2, <1>8, <2>1, HoldsNoError
  <2> QED BY <1>8, <2>1, <2>2 DEF Consumed, c
<1>9. Len(us) = 0 \/ Len(us) = 1 \/ Len(us) = 2 \/ Len(us) > 2
  <2>1. \A k \in Nat : k = 0 \/ k = 1 \/ k = 2 \/ k > 2
    OBVIOUS
  <2> QED BY <1>2, <2>1, Zenon
<1> QED BY <1>9, <1>3, <1>4, <1>5, <1>6, <1>7, <1>8

LEMMA CleanRight ==
  ASSUME NEW g, g.error = NoError, NEW E, NEW us, OperandsOf(us, E),
         NEW twoInPlace, Consumed(g, us, E, twoInPlace)
  PROVE  Cleaned(CleanUp(g, us), us, E, twoInPlace)
<1> DEFINE n == Len(us)
<1>0. n \in Nat
  BY DEF OperandsOf
<1>1. CASE n <= 2
  <2>1. CleanUp(g, us) = g
    BY <1>1, Zenon DEF CleanUp
  <2> QED BY <1>1, <2>1 DEF Consumed, Cleaned
<1>2. CASE n > 2
  <2> DEFINE c == CleanUp(g, us)
  <2>1. Holds(g, E)
    BY <1>2 DEF Consumed
  <2>2. Dropped(c, us, E, n)
    BY <1>0, <1>2, <2>1, CleanUpRight
  <2> HIDE DEF c
  <2>3. CASE OnceOnStack(us, E, n)
    <3>1. Holds(c, E \ DeadIn(us, n)) /\ c.error = NoError
      BY <2>2, <2>3, HoldsNoError DEF Dropped
    <3> QED BY <3>1 DEF Cleaned, c
  <2>4. CASE ~OnceOnStack(us, E, n)
    <3>1. c.error # NoError
      BY <2>2, <2>4 DEF Dropped
    <3>2. PICK i \in 1 .. n : us[i].isLastUse /\ us[i].reg \notin E \ DeadIn(us, i - 1)
      BY <2>4 DEF OnceOnStack
    <3>3. UseOf(us[i], E)
      BY DEF OperandsOf
    <3>4. CASE us[i].reg \notin E
      <4>1. us[i].isMemUse
        BY <3>3, <3>4 DEF UseOf
      <4>2. DyingInMem(us)
        BY <1>2, <3>2, <4>1 DEF DyingInMem
      <4> QED BY <3>1, <4>2 DEF Cleaned, c
    <3>5. CASE us[i].reg \in E
      <4>1. PICK j \in 1 .. i - 1 : us[j].isLastUse /\ us[j].reg = us[i].reg
        BY <3>2, <3>5 DEF DeadIn
      <4>2. j \in 1 .. n /\ j # i
        BY <1>0
      <4>3. ~us[i].isMemUse
        BY <3>3, <3>5 DEF UseOf
      <4>4. Repeated(us)
        BY <3>2, <4>1, <4>2, <4>3 DEF Repeated
      <4> QED BY <3>1, <4>4 DEF Cleaned, c
    <3> QED BY <3>4, <3>5
  <2> QED BY <2>3, <2>4
<1> QED BY <1>0, <1>1, <1>2

(* One position of beginOfBlockUpdates' loop, and the whole loop.          *)
SweepStep(m, i, dead) ==
  IF i \in DOMAIN m /\ m[i] \in dead THEN DeallocateMemorySlot(m, m[i]) ELSE m

SweepTrace(h, mem, dead, n) ==
  h = [i \in 0 .. n |-> IF i = 0 THEN mem ELSE SweepStep(h[i - 1], i, dead)]

LEMMA SweepTraceExists ==
  ASSUME NEW mem, NEW dead, NEW n \in Nat
  PROVE  \E h : SweepTrace(h, mem, dead, n)
<1> DEFINE T == { m \in Nat : \E h : SweepTrace(h, mem, dead, m) }
<1>1. 0 \in T
  <2>1. SweepTrace([k \in 0 .. 0 |-> mem], mem, dead, 0)
    BY DEF SweepTrace
  <2> QED BY <2>1
<1>2. ASSUME NEW k \in 1 .. n, k - 1 \in T PROVE k \in T
  <2>1. PICK e : SweepTrace(e, mem, dead, k - 1)
    BY <1>2
  <2> DEFINE Step(x, j) == SweepStep(x, j, dead)
             h == [j \in 0 .. k |-> IF j = k THEN Step(e[k - 1], k) ELSE e[j]]
  <2>2. \A j \in 0 .. k - 1 : e[j] = IF j = 0 THEN mem ELSE Step(e[j - 1], j)
    BY <2>1, Zenon DEF SweepTrace
  <2> HIDE DEF Step
  <2>3. \A j \in 0 .. k : h[j] = IF j = 0 THEN mem ELSE Step(h[j - 1], j)
    BY <2>2
  <2>4. h = [j \in 0 .. k |-> IF j = 0 THEN mem ELSE Step(h[j - 1], j)]
    BY <2>3
  <2> HIDE DEF h
  <2>5. SweepTrace(h, mem, dead, k)
    BY <2>4, Zenon DEF SweepTrace, Step
  <2> QED BY <2>5
<1>3. T \in SUBSET Nat
  OBVIOUS
<1> HIDE DEF T
<1>4. \A k \in 0 .. n : k \in T
  BY <1>1, <1>2, <1>3, SetInduction
<1>5. n \in T
  BY <1>4
<1> QED BY <1>5 DEF T

LEMMA FreeDeadTrace ==
  ASSUME NEW mem, NEW dead, Len(mem) \in Nat
  PROVE  \E h : SweepTrace(h, mem, dead, Len(mem)) /\ FreeDeadSlots(mem, dead) = h[Len(mem)]
<1> DEFINE sweep[i \in 0 .. Len(mem)] ==
             IF i = 0 THEN mem
             ELSE LET m == sweep[i - 1]
                  IN  IF i \in DOMAIN m /\ m[i] \in dead
                      THEN DeallocateMemorySlot(m, m[i]) ELSE m
<1>1. FreeDeadSlots(mem, dead) = sweep[Len(mem)]
  BY Zenon DEF FreeDeadSlots
<1>2. PICK h : SweepTrace(h, mem, dead, Len(mem))
  BY SweepTraceExists
<1>3. h = [i \in 0 .. Len(mem) |->
             IF i = 0 THEN mem
             ELSE LET m == h[i - 1]
                  IN  IF i \in DOMAIN m /\ m[i] \in dead
                      THEN DeallocateMemorySlot(m, m[i]) ELSE m]
  BY <1>2, Zenon DEF SweepTrace, SweepStep
<1>4. sweep = [i \in 0 .. Len(mem) |->
                 IF i = 0 THEN mem
                 ELSE LET m == sweep[i - 1]
                      IN  IF i \in DOMAIN m /\ m[i] \in dead
                          THEN DeallocateMemorySlot(m, m[i]) ELSE m]
  BY <1>3, Zenon
<1>5. SweepTrace(sweep, mem, dead, Len(mem))
  BY <1>4, Zenon DEF SweepTrace, SweepStep
<1> QED BY <1>1, <1>5, Zenon

(* The loop never lengthens the table.                                     *)
LEMMA FreeDeadProperties ==
  ASSUME NEW S, NoReg \in S, NEW mem \in Seq(S), NEW dead
  PROVE  FreeDeadSlots(mem, dead) \in Seq(S) /\ Len(FreeDeadSlots(mem, dead)) <= Len(mem)
<1>1. PICK n \in Nat : n = Len(mem)
  OBVIOUS
<1>2. PICK h : SweepTrace(h, mem, dead, n) /\ FreeDeadSlots(mem, dead) = h[n]
  BY <1>1, FreeDeadTrace
<1>3. h[0] = mem /\ \A k \in 1 .. n : h[k] = SweepStep(h[k - 1], k, dead)
  <2>1. \A k \in 0 .. n : h[k] = IF k = 0 THEN mem ELSE SweepStep(h[k - 1], k, dead)
    BY <1>2, Zenon DEF SweepTrace
  <2>2. 0 \in 0 .. n /\ \A k \in 1 .. n : k \in 0 .. n /\ k # 0
    OBVIOUS
  <2> QED BY <2>1, <2>2
<1> DEFINE T == { k \in 0 .. n : h[k] \in Seq(S) /\ Len(h[k]) <= n }
<1>4. T \in SUBSET Nat /\ 0 \in T
  BY <1>1, <1>3
<1>5. ASSUME NEW k \in 1 .. n, k - 1 \in T PROVE k \in T
  <2>1. PICK m : m = h[k - 1]
    OBVIOUS
  <2>2. m \in Seq(S) /\ Len(m) <= n /\ Len(m) \in Nat /\ k \in 0 .. n
    BY <1>5, <2>1
  <2>3. CASE k \in DOMAIN m /\ m[k] \in dead
    <3>1. PICK r : r = m[k]
      OBVIOUS
    <3>2. PICK new : new = DeallocateMemorySlot(m, r)
      OBVIOUS
    <3>3. new \in Seq(S) /\ Len(new) <= Len(m)
      BY <2>2, <2>3, <3>1, <3>2, DeallocateProperties
    <3>4. Len(new) \in Nat
      BY <3>3
    <3>5. h[k] = new
      BY <1>3, <2>1, <2>3, <3>1, <3>2 DEF SweepStep
    <3> QED BY <2>2, <3>3, <3>4, <3>5
  <2>4. CASE ~(k \in DOMAIN m /\ m[k] \in dead)
    <3>1. h[k] = m
      BY <1>3, <2>1, <2>4 DEF SweepStep
    <3> QED BY <2>2, <3>1
  <2> QED BY <2>3, <2>4
<1> HIDE DEF T
<1>6. \A k \in 0 .. n : k \in T
  BY <1>4, <1>5, SetInduction
<1>7. n \in T
  BY <1>6
<1> QED BY <1>1, <1>2, <1>7 DEF T
-----------------------------------------------------------------------------
(* Every helper inserts an instruction that does to the machine stack what *)
(* the helper does to the symbolic one, whatever it is called with and     *)
(* also when it fails.  M is the set of the pairs of a slot and a register *)
(* that may be loaded, S the set of the registers on the stack.            *)
SymStep(o, s, t, M) ==
  \/ o.op = "SWAP" /\ o.n \in 1 .. Len(s) - 1 /\ t = Swap(s, o.n)
  \/ o.op = "DUP" /\ o.n \in 1 .. Len(s) /\ t = Dup(s, o.n - 1)
  \/ o.op = "POP" /\ o.n \in Nat /\ Len(s) >= 1 /\ t = Pop(s)
  \/ o.op = "GETLOCAL" /\ \E r : <<o.n, r>> \in M /\ t = Append(s, r)

SymTrace(h, code, n, s, t, M, S) ==
  /\ h[1] = s /\ h[n + 1] = t
  /\ \A i \in 1 .. n + 1 : h[i] \in Seq(S)
  /\ \A i \in 1 .. n : SymStep(code[i], h[i], h[i + 1], M)

Opcodes == {"SWAP", "DUP", "POP", "GETLOCAL", "PUTLOCAL", "MI"}
OpSet == [op : Opcodes, n : Nat]

IsCode(code, n) == n \in Nat /\ Len(code) = n /\ code \in Seq(OpSet)

Tracks(code, s, t, M, S) ==
  \E n \in Nat : IsCode(code, n) /\ \E h : SymTrace(h, code, n, s, t, M, S)

LEMMA TracksNothing ==
  ASSUME NEW M, NEW S, NEW s \in Seq(S)
  PROVE  Tracks(<< >>, s, s, M, S)
<1>1. IsCode(<< >>, 0)
  BY DEF IsCode
<1>2. SymTrace([i \in 1 .. 1 |-> s], << >>, 0, s, s, M, S)
  BY DEF SymTrace
<1> QED BY <1>1, <1>2 DEF Tracks

LEMMA AppendCode ==
  ASSUME NEW code, NEW n, IsCode(code, n), NEW o \in OpSet
  PROVE  /\ IsCode(Append(code, o), n + 1) /\ Append(code, o)[n + 1] = o
         /\ \A i \in 1 .. n : Append(code, o)[i] = code[i]
<1>1. code \in Seq(OpSet) /\ n = Len(code)
  BY DEF IsCode
<1>2. /\ Append(code, o) \in Seq(OpSet) /\ Len(Append(code, o)) = n + 1 /\ Append(code, o)[n + 1] = o
      /\ \A i \in 1 .. n : Append(code, o)[i] = code[i]
  BY <1>1, AppendProperties
<1> QED BY <1>2 DEF IsCode

LEMMA TracksStep ==
  ASSUME NEW M, NEW S, NEW s, NEW t, NEW u \in Seq(S), NEW code,
         Tracks(code, s, t, M, S), NEW o \in OpSet, SymStep(o, t, u, M)
  PROVE  Tracks(Append(code, o), s, u, M, S)
<1>1. PICK n \in Nat : IsCode(code, n) /\ \E h : SymTrace(h, code, n, s, t, M, S)
  BY DEF Tracks
<1>2. PICK h : SymTrace(h, code, n, s, t, M, S)
  BY <1>1
<1> DEFINE k == [i \in 1 .. n + 2 |-> IF i = n + 2 THEN u ELSE h[i]]
           new == Append(code, o)
<1>3. IsCode(new, n + 1) /\ new[n + 1] = o /\ \A i \in 1 .. n : new[i] = code[i]
  BY ZenonT(60), <1>1, AppendCode
<1>4. k[n + 2] = u /\ \A i \in 1 .. n + 1 : k[i] = h[i]
  OBVIOUS
<1> HIDE DEF k, new
<1>5. k[1] = s /\ k[(n + 1) + 1] = u
  BY <1>2, <1>4 DEF SymTrace
<1>6. ASSUME NEW i \in 1 .. (n + 1) + 1 PROVE k[i] \in Seq(S)
  <2>1. i = n + 2 \/ i \in 1 .. n + 1
    OBVIOUS
  <2>2. \A j \in 1 .. n + 1 : h[j] \in Seq(S)
    BY <1>2 DEF SymTrace
  <2> QED BY <1>4, <2>1, <2>2
<1>7. ASSUME NEW i \in 1 .. n + 1 PROVE SymStep(new[i], k[i], k[i + 1], M)
  <2>1. CASE i = n + 1
    <3>1. new[i] = o /\ k[i] = t /\ k[i + 1] = u
      BY <1>2, <1>3, <1>4, <2>1 DEF SymTrace
    <3> QED BY <3>1
  <2>2. CASE i # n + 1
    <3>1. i \in 1 .. n /\ i \in 1 .. n + 1 /\ i + 1 \in 1 .. n + 1
      BY <2>2
    <3>2. new[i] = code[i] /\ k[i] = h[i] /\ k[i + 1] = h[i + 1]
      BY <1>3, <1>4, <3>1
    <3> QED BY <1>2, <3>1, <3>2 DEF SymTrace
  <2> QED BY <2>1, <2>2
<1>8. SymTrace(k, new, n + 1, s, u, M, S)
  BY <1>5, <1>6, <1>7 DEF SymTrace
<1>9. n + 1 \in Nat
  OBVIOUS
<1>10. Tracks(new, s, u, M, S)
  BY <1>3, <1>8, <1>9 DEF Tracks
<1> QED BY <1>10 DEF new

(* The generator state g after some helpers called with stack s.           *)
GenTracks(g, s, M, S) ==
  /\ DOMAIN g = {"stack", "code", "error"}
  /\ g.stack \in Seq(S) /\ Tracks(g.code, s, g.stack, M, S)

LEMMA GenTracksStart ==
  ASSUME NEW M, NEW S, NEW s \in Seq(S)
  PROVE  GenTracks(Gen(s), s, M, S)
  BY TracksNothing DEF GenTracks, Gen

LEMMA FailTracks ==
  ASSUME NEW M, NEW S, NEW s, NEW g, GenTracks(g, s, M, S), NEW why
  PROVE  GenTracks(Fail(g, why), s, M, S)
<1>1. /\ DOMAIN Fail(g, why) = DOMAIN g /\ Fail(g, why).stack = g.stack
      /\ Fail(g, why).code = g.code
  BY DEF Fail, GenTracks
<1> QED BY <1>1 DEF GenTracks

LEMMA InsertTracks ==
  ASSUME NEW M, NEW S, NEW s, NEW g, GenTracks(g, s, M, S), NEW o \in OpSet,
         NEW t \in Seq(S), SymStep(o, g.stack, t, M)
  PROVE  GenTracks(Insert(g, o, t), s, M, S)
<1>1. Tracks(Append(g.code, o), s, t, M, S)
  BY TracksStep DEF GenTracks
<1> DEFINE i == Insert(g, o, t)
<1>2. DOMAIN i = {"stack", "code", "error"} /\ i.stack = t /\ i.code = Append(g.code, o)
  BY DEF Insert, GenTracks
<1> HIDE DEF i
<1>3. GenTracks(i, s, M, S)
  BY <1>1, <1>2 DEF GenTracks
<1> QED BY <1>3 DEF i

LEMMA OpType ==
  ASSUME NEW name \in Opcodes, NEW n \in Nat
  PROVE  \E o \in OpSet : o = Op(name, n) /\ o.op = name /\ o.n = n
<1>1. PICK o : o = Op(name, n)
  OBVIOUS
<1>2. o.op = name /\ o.n = n
  BY <1>1, Zenon DEF Op
<1>3. o \in OpSet
  BY <1>1, Zenon DEF Op, OpSet
<1> QED BY <1>1, <1>2, <1>3

(* What SWAP, DUP and POP leave is made of what was there.                 *)
LEMMA SwapIn ==
  ASSUME NEW S, NEW s \in Seq(S), NEW d \in 1 .. Len(s) - 1
  PROVE  Swap(s, d) \in Seq(S)
<1>1. PICK n \in Nat : n = Len(s) /\ DOMAIN s = 1 .. n
  OBVIOUS
<1>2. n - d \in 1 .. n /\ n - 0 = n /\ n \in 1 .. n
  BY <1>1
<1>3. s[n] \in S /\ s[n - d] \in S
  BY <1>1, <1>2
<1>4. Swap(s, d) = [s EXCEPT ![n] = s[n - d], ![n - d] = s[n]]
  BY <1>1, <1>2 DEF Swap, Get
<1> DEFINE u == [s EXCEPT ![n] = s[n - d]]
<1>5. u \in Seq(S) /\ Len(u) = n
  BY <1>1, <1>2, <1>3, ExceptSeq
<1>6. [u EXCEPT ![n - d] = s[n]] \in Seq(S)
  BY <1>1, <1>2, <1>3, <1>5, ExceptSeq
<1> QED BY <1>4, <1>6

LEMMA DupIn ==
  ASSUME NEW S, NEW s \in Seq(S), NEW d \in 1 .. Len(s)
  PROVE  Dup(s, d - 1) \in Seq(S)
<1>1. PICK n \in Nat : n = Len(s) /\ DOMAIN s = 1 .. n
  OBVIOUS
<1>2. n - (d - 1) \in 1 .. n
  BY <1>1
<1>3. s[n - (d - 1)] \in S
  BY <1>1, <1>2
<1> QED BY <1>1, <1>3, AppendProperties DEF Dup, Get

LEMMA PopIn ==
  ASSUME NEW S, NEW s \in Seq(S), Len(s) >= 1
  PROVE  Pop(s) \in Seq(S)
<1>1. Len(s) - 1 \in Nat /\ Len(s) - 1 <= Len(s)
  OBVIOUS
<1> QED BY <1>1 DEF Pop

LEMMA BelowIn ==
  ASSUME NEW S, NEW s \in Seq(S), NEW k \in 0 .. Len(s)
  PROVE  Below(s, k) \in Seq(S) /\ Len(Below(s, k)) = Len(s) - k
         /\ \A i \in 1 .. Len(s) - k : Below(s, k)[i] = s[i]
<1>1. Len(s) - k \in Nat /\ Len(s) - k <= Len(s)
  OBVIOUS
<1> QED BY <1>1 DEF Below

LEMMA SeqWiden ==
  ASSUME NEW S, NEW T, NEW u \in Seq(S), \A i \in 1 .. Len(u) : u[i] \in T
  PROVE  u \in Seq(T)
<1>1. Len(u) \in Nat /\ u = [i \in 1 .. Len(u) |-> u[i]]
  OBVIOUS
<1>2. [i \in 1 .. Len(u) |-> u[i]] \in Seq(T)
  BY <1>1
<1> QED BY <1>1, <1>2

LEMMA DepthIn ==
  ASSUME NEW S \in SUBSET Nat, NEW s \in Seq(S), NEW r, IsOnStack(s, r)
  PROVE  FindRegDepth(s, r) \in 0 .. Len(s) - 1
<1>1. PICK n \in Nat : n = Len(s)
  OBVIOUS
<1>2. s \in Seq(Nat)
  <2>1. \A i \in 1 .. Len(s) : s[i] \in S
    BY ElementOfSeq
  <2>2. \A i \in 1 .. Len(s) : s[i] \in Nat
    BY <2>1
  <2> QED BY <2>2, SeqWiden
<1>3. IsStack(s, n)
  BY <1>1, <1>2 DEF IsStack
<1>4. PICK d \in 0 .. n - 1 : s[n - d] = r
  BY <1>1 DEF IsOnStack, Get
<1>5. n - d \in 1 .. n
  OBVIOUS
<1>6. PICK p : Nearest(s, n, r, p)
  BY <1>4, <1>5, NearestExists
<1>7. FindRegDepth(s, r) = n - p /\ p \in 1 .. n
  BY <1>3, <1>6, FindDepth DEF Nearest
<1> QED BY <1>1, <1>7

LEMMA CheckedTracks ==
  ASSUME NEW M, NEW S, NEW s, NEW g, GenTracks(g, s, M, S), NEW guard, NEW why, NEW step,
         guard => GenTracks(step, s, M, S)
  PROVE  GenTracks(Checked(g, guard, why, step), s, M, S)
<1>1. GenTracks(Fail(g, why), s, M, S)
  BY FailTracks
<1> QED BY <1>1 DEF Checked

LEMMA InsertSwapTracks ==
  ASSUME NEW M, NEW S, NEW s, NEW g, GenTracks(g, s, M, S), NEW d \in Nat,
         Len(g.stack) >= 2 => d \in 1 .. Len(g.stack) - 1
  PROVE  GenTracks(InsertSwapBefore(g, d), s, M, S)
<1> DEFINE step == Insert(g, Op("SWAP", d), Swap(g.stack, d))
<1>1. ASSUME Len(g.stack) >= 2 PROVE GenTracks(step, s, M, S)
  <2>1. g.stack \in Seq(S) /\ d \in 1 .. Len(g.stack) - 1
    BY <1>1 DEF GenTracks
  <2>2. Swap(g.stack, d) \in Seq(S)
    BY <2>1, SwapIn
  <2>3. PICK o \in OpSet : o = Op("SWAP", d) /\ o.op = "SWAP" /\ o.n = d
    BY <2>1, OpType DEF Opcodes
  <2>4. SymStep(o, g.stack, Swap(g.stack, d), M)
    BY <2>1, <2>3 DEF SymStep
  <2>5. GenTracks(Insert(g, o, Swap(g.stack, d)), s, M, S)
    BY <2>2, <2>4, InsertTracks
  <2> QED BY <2>3, <2>5
<1> HIDE DEF step
<1>2. GenTracks(Checked(g, Len(g.stack) >= 2, "swap: size >= 2", step), s, M, S)
  BY <1>1, CheckedTracks
<1> QED BY <1>2 DEF InsertSwapBefore, step

LEMMA SwapOneTracks ==
  ASSUME NEW M, NEW S, NEW s, NEW g, GenTracks(g, s, M, S)
  PROVE  GenTracks(InsertSwapBefore(g, 1), s, M, S)
<1>1. Len(g.stack) \in Nat
  BY DEF GenTracks
<1>2. Len(g.stack) >= 2 => 1 \in 1 .. Len(g.stack) - 1
  BY <1>1
<1> QED BY <1>2, InsertSwapTracks

LEMMA InsertPopTracks ==
  ASSUME NEW M, NEW S, NEW s, NEW g, GenTracks(g, s, M, S)
  PROVE  GenTracks(InsertPopBefore(g), s, M, S)
<1> DEFINE step == Insert(g, Op("POP", 0), Pop(g.stack))
<1>1. ASSUME g.stack # << >> PROVE GenTracks(step, s, M, S)
  <2>1. g.stack \in Seq(S)
    BY DEF GenTracks
  <2>2. Len(g.stack) >= 1
    BY <1>1, <2>1
  <2>3. Pop(g.stack) \in Seq(S)
    BY <2>1, <2>2, PopIn
  <2>4. PICK o \in OpSet : o = Op("POP", 0) /\ o.op = "POP" /\ o.n = 0
    BY OpType DEF Opcodes
  <2>5. SymStep(o, g.stack, Pop(g.stack), M)
    BY <2>2, <2>4 DEF SymStep
  <2>6. GenTracks(Insert(g, o, Pop(g.stack)), s, M, S)
    BY <2>3, <2>5, InsertTracks
  <2> QED BY <2>4, <2>6
<1> HIDE DEF step
<1>2. GenTracks(Checked(g, g.stack # << >>, "pop of an empty stack", step), s, M, S)
  BY <1>1, CheckedTracks
<1> QED BY <1>2 DEF InsertPopBefore, step

LEMMA LoadTracks ==
  ASSUME NEW M, NEW S, NEW s, NEW g, GenTracks(g, s, M, S), NEW use,
         use.reg \in S, use.slot \in Nat, <<use.slot, use.reg>> \in M
  PROVE  GenTracks(InsertLoadFromMemoryBefore(g, use), s, M, S)
<1> DEFINE step == Insert(g, Op("GETLOCAL", use.slot), Push(g.stack, use.reg))
<1>1. GenTracks(step, s, M, S)
  <2>1. g.stack \in Seq(S)
    BY DEF GenTracks
  <2>2. Push(g.stack, use.reg) \in Seq(S)
    BY <2>1, AppendProperties DEF Push
  <2>3. PICK o \in OpSet :
          o = Op("GETLOCAL", use.slot) /\ o.op = "GETLOCAL" /\ o.n = use.slot
    BY OpType DEF Opcodes
  <2>4. SymStep(o, g.stack, Push(g.stack, use.reg), M)
    BY <2>3 DEF SymStep, Push
  <2>5. GenTracks(Insert(g, o, Push(g.stack, use.reg)), s, M, S)
    BY <2>2, <2>4, InsertTracks
  <2> QED BY <2>3, <2>5
<1> HIDE DEF step
<1>2. GenTracks(Checked(g, TRUE, NoError, step), s, M, S)
  BY <1>1, CheckedTracks
<1> QED BY <1>2 DEF InsertLoadFromMemoryBefore, step

LEMMA SwapToTopTracks ==
  ASSUME NEW M, NEW S \in SUBSET Nat, NEW s, NEW g, GenTracks(g, s, M, S), NEW r
  PROVE  GenTracks(SwapRegToTop(g, r), s, M, S)
<1> DEFINE depth == FindRegDepth(g.stack, r)
           step == IF depth # 0 THEN InsertSwapBefore(g, depth) ELSE g
<1>1. ASSUME IsOnStack(g.stack, r) PROVE GenTracks(step, s, M, S)
  <2>1. g.stack \in Seq(S)
    BY DEF GenTracks
  <2>2. depth \in 0 .. Len(g.stack) - 1
    BY <1>1, <2>1, DepthIn
  <2> HIDE DEF depth
  <2>3. ASSUME depth # 0 PROVE GenTracks(InsertSwapBefore(g, depth), s, M, S)
    <3>1. Len(g.stack) \in Nat
      BY <2>1
    <3>2. depth \in Nat /\ depth \in 1 .. Len(g.stack) - 1
      BY <2>2, <2>3, <3>1
    <3> QED BY <3>2, InsertSwapTracks
  <2> QED BY <2>3
<1> HIDE DEF step
<1>2. GenTracks(Checked(g, IsOnStack(g.stack, r), "Cannot find register on stack", step), s, M, S)
  BY <1>1, CheckedTracks
<1> QED BY <1>2, Zenon DEF SwapRegToTop, step, depth

LEMMA DupToTopTracks ==
  ASSUME NEW M, NEW S \in SUBSET Nat, NEW s, NEW g, GenTracks(g, s, M, S), NEW r
  PROVE  GenTracks(DupRegToTop(g, r), s, M, S)
<1> DEFINE depth == FindRegDepth(g.stack, r)
           copy == Insert(g, Op("DUP", depth + 1), Dup(g.stack, (depth + 1) - 1))
           step == Checked(g, depth + 1 > 0, "dup: index > 0", copy)
<1>1. ASSUME IsOnStack(g.stack, r) PROVE GenTracks(step, s, M, S)
  <2>1. g.stack \in Seq(S)
    BY DEF GenTracks
  <2>2. depth \in 0 .. Len(g.stack) - 1
    BY <1>1, <2>1, DepthIn
  <2> HIDE DEF depth
  <2>3. depth + 1 \in Nat /\ depth + 1 \in 1 .. Len(g.stack)
    BY <2>1, <2>2
  <2>4. Dup(g.stack, (depth + 1) - 1) \in Seq(S)
    BY <2>1, <2>3, DupIn
  <2>5. PICK e : e = depth + 1 /\ e \in Nat /\ e \in 1 .. Len(g.stack)
    BY <2>3
  <2>6. PICK o \in OpSet : o = Op("DUP", e) /\ o.op = "DUP" /\ o.n = e
    BY <2>5, OpType DEF Opcodes
  <2>7. PICK t \in Seq(S) : t = Dup(g.stack, e - 1)
    BY <2>4, <2>5
  <2>8. SymStep(o, g.stack, t, M)
    BY <2>5, <2>6, <2>7 DEF SymStep
  <2>9. GenTracks(Insert(g, o, t), s, M, S)
    BY <2>8, InsertTracks
  <2>10. GenTracks(copy, s, M, S)
    BY <2>5, <2>6, <2>7, <2>9
  <2> HIDE DEF copy
  <2> QED BY <2>10, CheckedTracks
<1> HIDE DEF step
<1>2. GenTracks(Checked(g, IsOnStack(g.stack, r), "Cannot find register on stack", step), s, M, S)
  BY <1>1, CheckedTracks
<1> QED BY <1>2, Zenon DEF DupRegToTop, InsertDupBefore, step, copy, depth

(* What the code must be able to load for an operand in memory.            *)
UseIn(use, M, S) ==
  use.isMemUse => use.reg \in S /\ use.slot \in Nat /\ <<use.slot, use.reg>> \in M

LEMMA MoveOrCopyTracks ==
  ASSUME NEW M, NEW S \in SUBSET Nat, NEW s, NEW g, GenTracks(g, s, M, S), NEW use
  PROVE  GenTracks(MoveOrCopy(g, use), s, M, S)
<1>1. GenTracks(SwapRegToTop(g, use.reg), s, M, S) /\ GenTracks(DupRegToTop(g, use.reg), s, M, S)
  BY SwapToTopTracks, DupToTopTracks
<1> QED BY <1>1, Zenon DEF MoveOrCopy

LEMMA UnaryTracks ==
  ASSUME NEW M, NEW S \in SUBSET Nat, NEW s, NEW g, GenTracks(g, s, M, S),
         NEW use, UseIn(use, M, S)
  PROVE  GenTracks(HandleUnaryOpcode(g, use), s, M, S)
<1>1. use.isMemUse => GenTracks(InsertLoadFromMemoryBefore(g, use), s, M, S)
  BY LoadTracks DEF UseIn
<1>2. GenTracks(MoveOrCopy(g, use), s, M, S)
  BY MoveOrCopyTracks
<1> QED BY <1>1, <1>2, Zenon DEF HandleUnaryOpcode

LEMMA BothLastUseTracks ==
  ASSUME NEW M, NEW S \in SUBSET Nat, NEW s, NEW g, GenTracks(g, s, M, S), NEW r1, NEW r2
  PROVE  GenTracks(BothLastUse(g, r1, r2), s, M, S)
<1> DEFINE T(x) == GenTracks(x, s, M, S)
<1>0. \A x, r : T(x) => T(SwapRegToTop(x, r))
  BY SwapToTopTracks
<1>1. \A x : T(x) => T(InsertSwapBefore(x, 1))
  BY SwapOneTracks
<1>2. \A x, guard, why : T(x) => T(Checked(g, guard, why, x))
  BY CheckedTracks
<1>3. T(g)
  OBVIOUS
<1> HIDE DEF T
<1>4. T(SwapRegToTop(SwapRegToTop(InsertSwapBefore(g, 1), r2), r1))
  BY <1>0, <1>1, <1>3, Zenon
<1>5. T(SwapRegToTop(InsertSwapBefore(SwapRegToTop(g, r2), 1), r1))
  BY <1>0, <1>1, <1>3, Zenon
<1>6. T(SwapRegToTop(g, r1)) /\ T(InsertSwapBefore(g, 1))
  BY <1>0, <1>1, <1>3, Zenon
<1> DEFINE c == Checked(g, FindRegDepth(g.stack, r2) >= 2, "depth2 >= 2",
                        SwapRegToTop(SwapRegToTop(InsertSwapBefore(g, 1), r2), r1))
<1>7. T(c)
  BY <1>2, <1>4, Zenon
<1>8. BothLastUse(g, r1, r2) \in {g, c, SwapRegToTop(g, r1), InsertSwapBefore(g, 1),
                          SwapRegToTop(InsertSwapBefore(SwapRegToTop(g, r2), 1), r1)}
  BY Zenon DEF BothLastUse
<1> QED BY <1>3, <1>5, <1>6, <1>7, <1>8, Zenon DEF T

LEMMA FirstLastUseTracks ==
  ASSUME NEW M, NEW S \in SUBSET Nat, NEW s, NEW g, GenTracks(g, s, M, S), NEW r1, NEW r2
  PROVE  GenTracks(FirstLastUse(g, r1, r2), s, M, S)
<1> DEFINE T(x) == GenTracks(x, s, M, S)
<1>0. \A x, r : T(x) => T(SwapRegToTop(x, r)) /\ T(DupRegToTop(x, r))
  BY SwapToTopTracks, DupToTopTracks
<1>1. \A x : T(x) => T(InsertSwapBefore(x, 1))
  BY SwapOneTracks
<1>3. T(g)
  OBVIOUS
<1> HIDE DEF T
<1>4. T(SwapRegToTop(DupRegToTop(g, r2), r1)) /\ T(SwapRegToTop(g, r1))
  BY <1>0, <1>3, Zenon
<1>5. T(SwapRegToTop(InsertSwapBefore(DupRegToTop(g, r2), 1), r1))
  BY <1>0, <1>1, <1>3, Zenon
<1>6. FirstLastUse(g, r1, r2) \in {SwapRegToTop(DupRegToTop(g, r2), r1), SwapRegToTop(g, r1),
                          SwapRegToTop(InsertSwapBefore(DupRegToTop(g, r2), 1), r1)}
  BY Zenon DEF FirstLastUse
<1> QED BY <1>4, <1>5, <1>6, Zenon DEF T

LEMMA BinaryTracks ==
  ASSUME NEW M, NEW S \in SUBSET Nat, NEW s, NEW g, GenTracks(g, s, M, S),
         NEW u1, NEW u2, UseIn(u1, M, S), UseIn(u2, M, S)
  PROVE  GenTracks(HandleBinaryOpcode(g, u1, u2), s, M, S)
<1> DEFINE T(x) == GenTracks(x, s, M, S)
           Load(x, u) == InsertLoadFromMemoryBefore(x, u)
<1>0. \A x, r : T(x) => T(SwapRegToTop(x, r)) /\ T(DupRegToTop(x, r))
  BY SwapToTopTracks, DupToTopTracks
<1>1. \A x, u : T(x) => T(MoveOrCopy(x, u))
  BY MoveOrCopyTracks
<1>2. \A x : T(x) => (u1.isMemUse => T(Load(x, u1))) /\ (u2.isMemUse => T(Load(x, u2)))
  BY LoadTracks DEF UseIn
<1>3. T(g) /\ T(BothLastUse(g, u1.reg, u2.reg)) /\ T(FirstLastUse(g, u1.reg, u2.reg))
  BY BothLastUseTracks, FirstLastUseTracks
<1> HIDE DEF T, Load
<1>4. T(BothOnStack(g, u1, u2))
  <2>1. T(DupRegToTop(SwapRegToTop(g, u2.reg), u1.reg)) /\ T(DupRegToTop(DupRegToTop(g, u2.reg), u1.reg))
    BY <1>0, <1>3, Zenon
  <2>2. BothOnStack(g, u1, u2) \in
          {BothLastUse(g, u1.reg, u2.reg), FirstLastUse(g, u1.reg, u2.reg),
           DupRegToTop(SwapRegToTop(g, u2.reg), u1.reg), DupRegToTop(DupRegToTop(g, u2.reg), u1.reg)}
    BY Zenon DEF BothOnStack
  <2> QED BY <1>3, <2>1, <2>2, Zenon
<1>5. CASE u1.isMemUse /\ u2.isMemUse
  <2>1. T(Load(Load(g, u2), u1))
    BY <1>2, <1>3, <1>5, Zenon
  <2>2. HandleBinaryOpcode(g, u1, u2) = Load(Load(g, u2), u1)
    BY <1>5, Zenon DEF HandleBinaryOpcode, Load
  <2> QED BY <2>1, <2>2, Zenon DEF T
<1>6. CASE u1.isMemUse /\ ~u2.isMemUse
  <2>1. T(Load(MoveOrCopy(g, u2), u1))
    BY <1>1, <1>2, <1>3, <1>6, Zenon
  <2>2. HandleBinaryOpcode(g, u1, u2) = Load(MoveOrCopy(g, u2), u1)
    BY <1>6, Zenon DEF HandleBinaryOpcode, Load
  <2> QED BY <2>1, <2>2, Zenon DEF T
<1>7. CASE ~u1.isMemUse /\ u2.isMemUse
  <2>1. T(SwapRegToTop(Load(SwapRegToTop(g, u1.reg), u2), u1.reg))
    BY <1>0, <1>2, <1>3, <1>7, Zenon
  <2>2. T(DupRegToTop(Load(g, u2), u1.reg))
    BY <1>0, <1>2, <1>3, <1>7, Zenon
  <2>3. HandleBinaryOpcode(g, u1, u2) \in
          {SwapRegToTop(Load(SwapRegToTop(g, u1.reg), u2), u1.reg), DupRegToTop(Load(g, u2), u1.reg)}
    BY <1>7, Zenon DEF HandleBinaryOpcode, Load
  <2> QED BY <2>1, <2>2, <2>3, Zenon DEF T
<1>8. CASE ~u1.isMemUse /\ ~u2.isMemUse
  <2>1. HandleBinaryOpcode(g, u1, u2) = BothOnStack(g, u1, u2)
    BY <1>8, Zenon DEF HandleBinaryOpcode
  <2> QED BY <1>4, <2>1, Zenon DEF T
<1> QED BY <1>5, <1>6, <1>7, <1>8

LEMMA ArbitraryTracks ==
  ASSUME NEW M, NEW S \in SUBSET Nat, NEW s, NEW g, GenTracks(g, s, M, S),
         NEW us, NEW n \in Nat, n = Len(us), \A i \in 1 .. n : UseIn(us[i], M, S)
  PROVE  GenTracks(HandleArbitraryOpcode(g, us), s, M, S)
<1>1. PICK f : PlaceTrace(f, g, us, n) /\ HandleArbitraryOpcode(g, us) = f[n]
  BY ArbitraryTrace
<1>2. f[0] = g /\ \A k \in 1 .. n : f[k] = PlaceStep(f[k - 1], us[n + 1 - k])
  <2>1. \A k \in 0 .. n : f[k] = IF k = 0 THEN g ELSE PlaceStep(f[k - 1], us[n + 1 - k])
    BY <1>1, Zenon DEF PlaceTrace
  <2>2. 0 \in 0 .. n /\ \A k \in 1 .. n : k \in 0 .. n /\ k # 0
    OBVIOUS
  <2> QED BY <2>1, <2>2
<1> DEFINE T == { k \in 0 .. n : GenTracks(f[k], s, M, S) }
<1>3. T \in SUBSET Nat /\ 0 \in T
  BY <1>2
<1>4. ASSUME NEW k \in 1 .. n, k - 1 \in T PROVE k \in T
  <2>1. n + 1 - k \in 1 .. n /\ k \in 0 .. n
    OBVIOUS
  <2>2. PICK use : use = us[n + 1 - k]
    OBVIOUS
  <2>3. PICK e : e = f[k - 1]
    OBVIOUS
  <2>4. UseIn(use, M, S) /\ GenTracks(e, s, M, S)
    BY <1>4, <2>1, <2>2, <2>3
  <2>5. use.isMemUse => GenTracks(InsertLoadFromMemoryBefore(e, use), s, M, S)
    BY <2>4, LoadTracks DEF UseIn
  <2>6. GenTracks(DupRegToTop(e, use.reg), s, M, S)
    BY <2>4, DupToTopTracks
  <2>7. GenTracks(PlaceStep(e, use), s, M, S)
    BY <2>5, <2>6, Zenon DEF PlaceStep
  <2> QED BY <1>2, <2>1, <2>2, <2>3, <2>7
<1> HIDE DEF T
<1>5. \A k \in 0 .. n : k \in T
  BY <1>3, <1>4, SetInduction
<1>6. n \in T
  BY <1>5
<1> QED BY <1>1, <1>6 DEF T

LEMMA ArrangeTracks ==
  ASSUME NEW M, NEW S \in SUBSET Nat, NEW s, NEW g, GenTracks(g, s, M, S),
         NEW us, NEW n \in Nat, n = Len(us), \A i \in 1 .. n : UseIn(us[i], M, S)
  PROVE  GenTracks(ArrangeOperands(g, us), s, M, S)
<1>1. CASE n = 0
  <2>1. ArrangeOperands(g, us) = g
    BY <1>1 DEF ArrangeOperands
  <2> QED BY <2>1
<1>2. CASE n = 1
  <2>1. ArrangeOperands(g, us) = HandleUnaryOpcode(g, us[1])
    BY <1>2 DEF ArrangeOperands
  <2>2. UseIn(us[1], M, S)
    BY <1>2
  <2>3. GenTracks(HandleUnaryOpcode(g, us[1]), s, M, S)
    BY <2>2, UnaryTracks
  <2> QED BY <2>1, <2>3
<1>3. CASE n = 2
  <2>1. ArrangeOperands(g, us) = HandleBinaryOpcode(g, us[1], us[2])
    BY <1>3 DEF ArrangeOperands
  <2>2. UseIn(us[1], M, S) /\ UseIn(us[2], M, S)
    BY <1>3
  <2>3. GenTracks(HandleBinaryOpcode(g, us[1], us[2]), s, M, S)
    BY <2>2, BinaryTracks
  <2> QED BY <2>1, <2>3
<1>4. CASE n > 2
  <2>1. ArrangeOperands(g, us) = HandleArbitraryOpcode(g, us)
    BY <1>4 DEF ArrangeOperands
  <2>2. GenTracks(HandleArbitraryOpcode(g, us), s, M, S)
    BY ArbitraryTracks
  <2> QED BY <2>1, <2>2
<1> QED BY <1>1, <1>2, <1>3, <1>4

(* handleUses: the code that brings the operands up, and what is left when *)
(* they are popped.                                                        *)
Brought(c, p, us, n) ==
  /\ c.code = p.code
  /\ c.error # NoError => c.stack = p.stack
  /\ c.error = NoError =>
       /\ Len(p.stack) >= n /\ c.stack = Below(p.stack, n)
       /\ \A i \in 1 .. n : Get(p.stack, i - 1) = us[i].reg

LEMMA ConsumeTracks ==
  ASSUME NEW M, NEW S \in SUBSET Nat, NEW s, NEW g, GenTracks(g, s, M, S),
         NEW us, NEW n \in Nat, n = Len(us), \A i \in 1 .. n : UseIn(us[i], M, S)
  PROVE  \E p : GenTracks(p, s, M, S) /\ Brought(ConsumeOperands(g, us), p, us, n)
<1>1. PICK p : p = ArrangeOperands(g, us)
  OBVIOUS
<1>2. GenTracks(p, s, M, S)
  BY <1>1, ArrangeTracks
<1> DEFINE top == /\ Len(p.stack) >= n
                  /\ \A i \in 1 .. n : Get(p.stack, i - 1) = us[i].reg
           rest == [p EXCEPT !.stack = Below(p.stack, n)]
           c == Checked(p, top, "reg == useTypes[i].reg", rest)
<1>3. ConsumeOperands(g, us) = c
  BY <1>1, Zenon DEF ConsumeOperands
<1>4. DOMAIN p = {"stack", "code", "error"}
  BY <1>2 DEF GenTracks
<1>5. rest.code = p.code /\ rest.stack = Below(p.stack, n) /\ rest.error = p.error
  BY <1>4
<1>6. PICK why : why = "reg == useTypes[i].reg"
  OBVIOUS
<1>7. Fail(p, why).code = p.code /\ Fail(p, why).stack = p.stack /\ Fail(p, why).error = why
  BY <1>4 DEF Fail
<1>8. why # NoError
  BY <1>6 DEF NoError
<1> HIDE DEF rest
<1>9. Brought(c, p, us, n)
  <2>1. CASE p.error # NoError
    <3>1. c = p
      BY <2>1, Zenon DEF Checked
    <3> QED BY <2>1, <3>1 DEF Brought
  <2>2. CASE p.error = NoError /\ top
    <3>1. c = rest
      BY <2>2, Zenon DEF Checked
    <3> QED BY <1>5, <2>2, <3>1 DEF Brought
  <2>3. CASE p.error = NoError /\ ~top
    <3>1. c = Fail(p, why)
      BY <1>6, <2>3, Zenon DEF Checked
    <3> HIDE DEF c
    <3> QED BY <1>7, <1>8, <3>1 DEF Brought
  <2> QED BY <2>1, <2>2, <2>3
<1> HIDE DEF c
<1> QED BY <1>2, <1>3, <1>9

LEMMA CleanUpTracks ==
  ASSUME NEW M, NEW S \in SUBSET Nat, NEW s, NEW g, GenTracks(g, s, M, S),
         NEW us, NEW n \in Nat, n = Len(us)
  PROVE  GenTracks(CleanUp(g, us), s, M, S)
<1>1. CASE ~(n > 2)
  <2>1. n <= 2
    BY <1>1
  <2>2. CleanUp(g, us) = g
    BY <2>1, Zenon DEF CleanUp
  <2> QED BY <2>2, Zenon
<1>2. CASE n > 2
  <2>1. PICK f : DropTrace(f, g, us, n) /\ CleanUp(g, us) = f[n]
    BY <1>2, CleanUpTrace
  <2>2. f[0] = g /\ \A k \in 1 .. n : f[k] = DropStep(f[k - 1], us[k])
    <3>1. \A k \in 0 .. n : f[k] = IF k = 0 THEN g ELSE DropStep(f[k - 1], us[k])
      BY <2>1, Zenon DEF DropTrace
    <3>2. 0 \in 0 .. n /\ \A k \in 1 .. n : k \in 0 .. n /\ k # 0
      OBVIOUS
    <3> QED BY <3>1, <3>2
  <2> DEFINE T == { k \in 0 .. n : GenTracks(f[k], s, M, S) }
  <2>3. T \in SUBSET Nat /\ 0 \in T
    BY <2>2
  <2>4. ASSUME NEW k \in 1 .. n, k - 1 \in T PROVE k \in T
    <3>1. PICK use : use = us[k]
      OBVIOUS
    <3>2. PICK e : e = f[k - 1]
      OBVIOUS
    <3>3. GenTracks(e, s, M, S) /\ k \in 0 .. n
      BY <2>4, <3>2
    <3>4. GenTracks(SwapRegToTop(e, use.reg), s, M, S)
      BY <3>3, SwapToTopTracks
    <3>5. GenTracks(InsertPopBefore(SwapRegToTop(e, use.reg)), s, M, S)
      BY <3>4, InsertPopTracks
    <3>6. GenTracks(DropStep(e, use), s, M, S)
      BY <3>3, <3>5, Zenon DEF DropStep
    <3> QED BY <2>2, <3>1, <3>2, <3>3, <3>6
  <2> HIDE DEF T
  <2>5. \A k \in 0 .. n : k \in T
    BY <2>3, <2>4, SetInduction
  <2>6. n \in T
    BY <2>5
  <2> QED BY <2>1, <2>6 DEF T
<1> QED BY <1>1, <1>2
-----------------------------------------------------------------------------
(* The edge sets.                                                          *)
(* What mergeEdgeSets does to a partition of the edges E.                  *)
LEMMA MergeProperties ==
  ASSUME NEW E, NEW part \in [E -> E], NEW e1 \in E, NEW e2 \in E
  PROVE  LET new == MergeEdgeSets(part, e1, e2)
         IN  /\ new \in [E -> E]
             /\ new[e1] = new[e2]
             /\ \A e, f \in E : part[e] = part[f] => new[e] = new[f]
BY DEF MergeEdgeSets

(* Every predecessor entry of a block is an edge into it, and every        *)
(* successor entry an edge out of it.                                      *)
LEMMA ListEntriesAreEdges ==
  ASSUME NEW f, IsCFG(f), NEW b \in Block(f)
  PROVE  /\ \A i \in 1 .. Len(f.preds[b]) :
              /\ f.preds[b][i] \in Block(f)
              /\ <<f.preds[b][i], b>> \in CollectEdges(f)
         /\ \A i \in 1 .. Len(f.succs[b]) :
              /\ f.succs[b][i] \in Block(f)
              /\ <<b, f.succs[b][i]>> \in CollectEdges(f)
<1>1. /\ f.preds[b] \in Seq(Block(f)) /\ f.succs[b] \in Seq(Block(f))
      /\ \A c, d \in Block(f) :
           d \in Elems(f.succs[c]) <=> c \in Elems(f.preds[d])
  BY DEF IsCFG, Block
<1>2. ASSUME NEW i \in 1 .. Len(f.preds[b])
      PROVE  /\ f.preds[b][i] \in Block(f)
             /\ <<f.preds[b][i], b>> \in CollectEdges(f)
  <2>1. f.preds[b][i] \in Block(f) /\ f.preds[b][i] \in Elems(f.preds[b])
    BY <1>1, <1>2, LenProperties, ElementOfSeq DEF Elems
  <2>2. b \in Elems(f.succs[f.preds[b][i]])
    BY <1>1, <2>1
  <2> QED BY <2>1, <2>2 DEF CollectEdges
<1>3. ASSUME NEW i \in 1 .. Len(f.succs[b])
      PROVE  /\ f.succs[b][i] \in Block(f)
             /\ <<b, f.succs[b][i]>> \in CollectEdges(f)
  <2>1. f.succs[b][i] \in Block(f) /\ f.succs[b][i] \in Elems(f.succs[b])
    BY <1>1, <1>3, LenProperties, ElementOfSeq DEF Elems
  <2> QED BY <2>1 DEF CollectEdges
<1> QED BY <1>2, <1>3

(* The source and the target of a real edge are blocks, and they are in    *)
(* each other's lists.                                                     *)
LEMMA RealEdgeProperties ==
  ASSUME IsCFG(fn), NEW e \in RealEdges
  PROVE  /\ e = <<e[1], e[2]>>
         /\ e[1] \in Block(fn) /\ e[2] \in Block(fn)
         /\ \E i \in 1 .. Len(fn.preds[e[2]]) : fn.preds[e[2]][i] = e[1]
         /\ \E i \in 1 .. Len(fn.succs[e[1]]) : fn.succs[e[1]][i] = e[2]
<1>1. PICK b \in Block(fn), c \in Block(fn) : e = <<b, c>> /\ c \in Elems(fn.succs[b])
  BY DEF RealEdges, Edges, CollectEdges, NullBlock
<1>2. b \in Elems(fn.preds[c])
  BY <1>1 DEF IsCFG, Block
<1>3. /\ DOMAIN fn.preds[c] = 1 .. Len(fn.preds[c])
      /\ DOMAIN fn.succs[b] = 1 .. Len(fn.succs[b])
  <2>1. fn.preds[c] \in Seq(Block(fn)) /\ fn.succs[b] \in Seq(Block(fn))
    BY DEF IsCFG, Block
  <2> QED BY <2>1, LenProperties
<1> QED BY <1>1, <1>2, <1>3 DEF Elems

-----------------------------------------------------------------------------
(* A block's list entries and the edges they stand for, in every state of  *)
(* the right type.                                                         *)
LEMMA CurrentListEntries ==
  ASSUME EdgeTypeOK
  PROVE  \A b \in Block(fn) :
           /\ Len(fn.preds[b]) \in Nat /\ Len(fn.succs[b]) \in Nat
           /\ \A i \in 1 .. Len(fn.preds[b]) : <<fn.preds[b][i], b>> \in Edges
           /\ \A i \in 1 .. Len(fn.succs[b]) : <<b, fn.succs[b][i]>> \in Edges
<1> SUFFICES ASSUME NEW b \in Block(fn)
             PROVE  /\ Len(fn.preds[b]) \in Nat /\ Len(fn.succs[b]) \in Nat
                    /\ \A i \in 1 .. Len(fn.preds[b]) : <<fn.preds[b][i], b>> \in Edges
                    /\ \A i \in 1 .. Len(fn.succs[b]) : <<b, fn.succs[b][i]>> \in Edges
  OBVIOUS
<1>1. IsCFG(fn)
  BY DEF EdgeTypeOK
<1>2. fn.preds[b] \in Seq(Block(fn)) /\ fn.succs[b] \in Seq(Block(fn))
  BY <1>1 DEF IsCFG, Block
<1>3. Len(fn.preds[b]) \in Nat /\ Len(fn.succs[b]) \in Nat
  BY <1>2, LenProperties
<1> QED BY <1>1, <1>3, ListEntriesAreEdges DEF Edges

(* The initial edge sets, one per edge, are well typed.                    *)
LEMMA EdgeInitType == EdgeInit => EdgeTypeOK
<1> SUFFICES ASSUME NEW f \in Functions, StartEdgeSets(f) PROVE EdgeTypeOK
  BY DEF EdgeInit
<1>1. IsCFG(f)
  BY FunctionsAreCFGs
<1>2. 1 \in Block(f)
  BY <1>1 DEF IsCFG, Block
<1> QED BY <1>1, <1>2 DEF StartEdgeSets, EdgeTypeOK, Edges

(* Every step of computeEdgeSets keeps the types: an edge is only ever     *)
(* looked up if collectEdges has recorded it.                              *)
LEMMA EdgeNextType == EdgeTypeOK /\ [EdgeNext]_edgeVars => EdgeTypeOK'
<1> SUFFICES ASSUME EdgeTypeOK, [EdgeNext]_edgeVars PROVE EdgeTypeOK'
  OBVIOUS
<1>1. /\ IsCFG(fn) /\ edgeSet \in [Edges -> Edges] /\ mbb \in Block(fn)
      /\ side \in {"preds", "succs", "computed"} /\ iter \in Nat \ {0, 1}
  BY DEF EdgeTypeOK
<1>2. CASE MergePred
  <2>1. /\ <<fn.preds[mbb][1], mbb>> \in Edges
        /\ <<fn.preds[mbb][iter], mbb>> \in Edges
    BY <1>1, <1>2, CurrentListEntries DEF MergePred
  <2>2. edgeSet' \in [Edges -> Edges]
    BY <2>1, <1>1, <1>2, MergeProperties DEF MergePred
  <2> QED BY <2>2, <1>1, <1>2 DEF MergePred, EdgeTypeOK, Edges
<1>3. CASE PredsMerged
  BY <1>1, <1>3 DEF PredsMerged, EdgeTypeOK, Edges
<1>4. CASE MergeSucc
  <2>1. /\ <<mbb, fn.succs[mbb][1]>> \in Edges
        /\ <<mbb, fn.succs[mbb][iter]>> \in Edges
    BY <1>1, <1>4, CurrentListEntries DEF MergeSucc
  <2>2. edgeSet' \in [Edges -> Edges]
    BY <2>1, <1>1, <1>4, MergeProperties DEF MergeSucc
  <2> QED BY <2>2, <1>1, <1>4 DEF MergeSucc, EdgeTypeOK, Edges
<1>5. CASE SuccsMerged
  <2>1. mbb' \in Block(fn) /\ side' \in {"preds", "computed"}
    BY <1>1, <1>5 DEF SuccsMerged, Block, IsCFG
  <2> QED BY <2>1, <1>1, <1>5 DEF SuccsMerged, EdgeTypeOK, Edges
<1>6. CASE UNCHANGED edgeVars
  BY <1>1, <1>6 DEF edgeVars, EdgeTypeOK, Edges
<1> QED BY <1>2, <1>3, <1>4, <1>5, <1>6 DEF EdgeNext

(* computeEdgeSets is well typed for every function: its loops stay inside *)
(* the block range, and every edge it looks up exists (getEdgeIndex ends   *)
(* in llvm_unreachable otherwise).                                         *)
THEOREM EdgeTypes == EdgeSpec => []EdgeTypeOK
BY EdgeInitType, EdgeNextType, PTL DEF EdgeSpec

-----------------------------------------------------------------------------
(* In the partition part, the first k in-edges, or out-edges, of block b   *)
(* of function f are in one set.                                           *)
InTogether(f, part, b, k) ==
  \A i \in 1 .. Len(f.preds[b]) :
    i <= k => part[<<f.preds[b][i], b>>] = part[<<f.preds[b][1], b>>]

OutTogether(f, part, b, k) ==
  \A i \in 1 .. Len(f.succs[b]) :
    i <= k => part[<<b, f.succs[b][i]>>] = part[<<b, f.succs[b][1]>>]

AllIn(f, part, b) == InTogether(f, part, b, Len(f.preds[b]))
AllOut(f, part, b) == OutTogether(f, part, b, Len(f.succs[b]))

(* How far computeEdgeSets has come: the lists of the blocks processed are *)
(* merged, and the current list up to the loop's position.                 *)
Progress ==
  /\ side = "computed" => mbb = fn.n
  /\ \A b \in Block(fn) :
       (b < mbb \/ (b = mbb /\ side # "preds")) => AllIn(fn, edgeSet, b)
  /\ \A b \in Block(fn) :
       (b < mbb \/ (b = mbb /\ side = "computed")) => AllOut(fn, edgeSet, b)
  /\ side = "preds" => InTogether(fn, edgeSet, mbb, iter - 1)
  /\ side = "succs" => OutTogether(fn, edgeSet, mbb, iter - 1)

(* Edges once brought together are never separated by a later merge.       *)
LEMMA MergeKeepsTogether ==
  ASSUME NEW f, IsCFG(f), NEW part \in [CollectEdges(f) -> CollectEdges(f)],
         NEW e1 \in CollectEdges(f), NEW e2 \in CollectEdges(f)
  PROVE  LET new == MergeEdgeSets(part, e1, e2)
         IN  \A b \in Block(f) : \A k \in Nat :
               /\ InTogether(f, part, b, k) => InTogether(f, new, b, k)
               /\ OutTogether(f, part, b, k) => OutTogether(f, new, b, k)
               /\ AllIn(f, part, b) => AllIn(f, new, b)
               /\ AllOut(f, part, b) => AllOut(f, new, b)
<1> DEFINE E == CollectEdges(f)
           new == MergeEdgeSets(part, e1, e2)
<1>1. \A e, g \in E : part[e] = part[g] => new[e] = new[g]
  BY MergeProperties
<1> HIDE DEF new
<1>2. ASSUME NEW b \in Block(f)
      PROVE  /\ Len(f.preds[b]) \in Nat /\ Len(f.succs[b]) \in Nat
             /\ \A i \in 1 .. Len(f.preds[b]) : <<f.preds[b][i], b>> \in E
             /\ \A i \in 1 .. Len(f.succs[b]) : <<b, f.succs[b][i]>> \in E
  <2>1. f.preds[b] \in Seq(Block(f)) /\ f.succs[b] \in Seq(Block(f))
    BY DEF IsCFG, Block
  <2> QED BY <2>1, LenProperties, ListEntriesAreEdges
<1> HIDE DEF E
<1>3. ASSUME NEW b \in Block(f), NEW k \in Nat, InTogether(f, part, b, k)
      PROVE  InTogether(f, new, b, k)
  BY <1>1, <1>2, <1>3 DEF InTogether
<1>4. ASSUME NEW b \in Block(f), NEW k \in Nat, OutTogether(f, part, b, k)
      PROVE  OutTogether(f, new, b, k)
  BY <1>1, <1>2, <1>4 DEF OutTogether
<1> QED BY <1>2, <1>3, <1>4 DEF AllIn, AllOut, new

(* Merging the first list entry with entry k makes k entries together.     *)
LEMMA MergeExtends ==
  ASSUME NEW f, IsCFG(f), NEW part \in [CollectEdges(f) -> CollectEdges(f)],
         NEW b \in Block(f), NEW k \in Nat, 2 <= k
  PROVE  /\ k <= Len(f.preds[b]) /\ InTogether(f, part, b, k - 1) =>
              InTogether(f, MergeEdgeSets(part, <<f.preds[b][1], b>>,
                                                <<f.preds[b][k], b>>), b, k)
         /\ k <= Len(f.succs[b]) /\ OutTogether(f, part, b, k - 1) =>
              OutTogether(f, MergeEdgeSets(part, <<b, f.succs[b][1]>>,
                                                 <<b, f.succs[b][k]>>), b, k)
<1> DEFINE E == CollectEdges(f)
<1>1. f.preds[b] \in Seq(Block(f)) /\ f.succs[b] \in Seq(Block(f))
  BY DEF IsCFG, Block
<1>2. Len(f.preds[b]) \in Nat /\ Len(f.succs[b]) \in Nat
  BY <1>1, LenProperties
<1>3. ASSUME k <= Len(f.preds[b]), InTogether(f, part, b, k - 1)
      PROVE  InTogether(f, MergeEdgeSets(part, <<f.preds[b][1], b>>,
                                               <<f.preds[b][k], b>>), b, k)
  <2> DEFINE e1 == <<f.preds[b][1], b>>
             e2 == <<f.preds[b][k], b>>
             new == MergeEdgeSets(part, e1, e2)
  <2>1. \A i \in 1 .. Len(f.preds[b]) : <<f.preds[b][i], b>> \in E
    BY ListEntriesAreEdges
  <2>2. e1 \in E /\ e2 \in E
    BY <2>1, <1>2, <1>3
  <2> HIDE DEF e1, e2
  <2>3. /\ new[e1] = new[e2]
        /\ \A e, g \in E : part[e] = part[g] => new[e] = new[g]
    BY <2>2, MergeProperties
  <2> HIDE DEF new, E
  <2>4. ASSUME NEW i \in 1 .. Len(f.preds[b]), i <= k
        PROVE  new[<<f.preds[b][i], b>>] = new[e1]
    <3>1. CASE i = k
      BY <3>1, <2>3 DEF e2
    <3>2. CASE i <= k - 1
      <4>1. part[<<f.preds[b][i], b>>] = part[e1]
        BY <3>2, <1>3 DEF InTogether, e1
      <4> QED BY <4>1, <2>1, <2>2, <2>3
    <3> QED BY <3>1, <3>2, <2>4, <1>2
  <2> QED BY <2>4 DEF InTogether, new, e1, e2
<1>4. ASSUME k <= Len(f.succs[b]), OutTogether(f, part, b, k - 1)
      PROVE  OutTogether(f, MergeEdgeSets(part, <<b, f.succs[b][1]>>,
                                                <<b, f.succs[b][k]>>), b, k)
  <2> DEFINE e1 == <<b, f.succs[b][1]>>
             e2 == <<b, f.succs[b][k]>>
             new == MergeEdgeSets(part, e1, e2)
  <2>1. \A i \in 1 .. Len(f.succs[b]) : <<b, f.succs[b][i]>> \in E
    BY ListEntriesAreEdges
  <2>2. e1 \in E /\ e2 \in E
    BY <2>1, <1>2, <1>4
  <2> HIDE DEF e1, e2
  <2>3. /\ new[e1] = new[e2]
        /\ \A e, g \in E : part[e] = part[g] => new[e] = new[g]
    BY <2>2, MergeProperties
  <2> HIDE DEF new, E
  <2>4. ASSUME NEW i \in 1 .. Len(f.succs[b]), i <= k
        PROVE  new[<<b, f.succs[b][i]>>] = new[e1]
    <3>1. CASE i = k
      BY <3>1, <2>3 DEF e2
    <3>2. CASE i <= k - 1
      <4>1. part[<<b, f.succs[b][i]>>] = part[e1]
        BY <3>2, <1>4 DEF OutTogether, e1
      <4> QED BY <4>1, <2>1, <2>2, <2>3
    <3> QED BY <3>1, <3>2, <2>4, <1>2
  <2> QED BY <2>4 DEF OutTogether, new, e1, e2
<1> QED BY <1>3, <1>4

(* Before the first merge nothing has to be together.                      *)
LEMMA ProgressInit == EdgeInit => Progress
<1> SUFFICES ASSUME NEW f \in Functions, StartEdgeSets(f) PROVE Progress
  BY DEF EdgeInit
<1>1. IsCFG(f)
  BY FunctionsAreCFGs
<1>2. \A b \in Block(f) : b \in Nat /\ ~ (b < 1)
  BY <1>1 DEF Block, IsCFG
<1>3. InTogether(f, edgeSet, 1, 1)
  <2> SUFFICES ASSUME NEW i \in 1 .. Len(f.preds[1]), i <= 1
               PROVE  edgeSet[<<f.preds[1][i], 1>>] = edgeSet[<<f.preds[1][1], 1>>]
    BY DEF InTogether
  <2>1. i = 1
    OBVIOUS
  <2> QED BY <2>1
<1> QED BY <1>2, <1>3 DEF StartEdgeSets, Progress

(* One step of computeEdgeSets: the merge of the current position extends  *)
(* the current list's part by one, and a finished list is complete.        *)
LEMMA ProgressNext ==
  EdgeTypeOK /\ Progress /\ [EdgeNext]_edgeVars => Progress'
<1> SUFFICES ASSUME EdgeTypeOK, Progress, [EdgeNext]_edgeVars PROVE Progress'
  OBVIOUS
<1>1. /\ IsCFG(fn) /\ mbb \in Block(fn) /\ iter \in Nat /\ 2 <= iter
      /\ side \in {"preds", "succs", "computed"}
      /\ edgeSet \in [CollectEdges(fn) -> CollectEdges(fn)]
  BY DEF EdgeTypeOK, Edges
<1>2. fn.n \in Nat /\ \A b \in Block(fn) : b \in Nat /\ b <= fn.n
  BY <1>1 DEF IsCFG, Block
<1>3. \A b \in Block(fn) : Len(fn.preds[b]) \in Nat /\ Len(fn.succs[b]) \in Nat
  BY CurrentListEntries
<1>4. CASE MergePred
  <2>1. /\ fn' = fn /\ mbb' = mbb /\ side = "preds" /\ side' = "preds"
        /\ iter' = iter + 1 /\ iter <= Len(fn.preds[mbb])
        /\ edgeSet' = MergeEdgeSets(edgeSet, <<fn.preds[mbb][1], mbb>>,
                                             <<fn.preds[mbb][iter], mbb>>)
    BY <1>4 DEF MergePred
  <2>2. /\ <<fn.preds[mbb][1], mbb>> \in CollectEdges(fn)
        /\ <<fn.preds[mbb][iter], mbb>> \in CollectEdges(fn)
    BY <1>1, <1>3, <2>1, ListEntriesAreEdges
  <2>3. \A b \in Block(fn) :
          /\ AllIn(fn, edgeSet, b) => AllIn(fn, edgeSet', b)
          /\ AllOut(fn, edgeSet, b) => AllOut(fn, edgeSet', b)
    BY <1>1, <2>1, <2>2, MergeKeepsTogether
  <2>4. InTogether(fn, edgeSet', mbb, iter)
    BY <1>1, <2>1, MergeExtends DEF Progress
  <2>5. iter' - 1 = iter
    BY <1>1, <2>1
  <2> QED BY <2>1, <2>3, <2>4, <2>5 DEF Progress
<1>5. CASE PredsMerged
  <2>1. /\ UNCHANGED <<fn, edgeSet, mbb>> /\ side = "preds" /\ side' = "succs"
        /\ iter' = 2 /\ iter > Len(fn.preds[mbb])
    BY <1>5 DEF PredsMerged
  <2>2. AllIn(fn, edgeSet, mbb)
    <3>1. InTogether(fn, edgeSet, mbb, iter - 1)
      BY <2>1 DEF Progress
    <3>2. \A i \in 1 .. Len(fn.preds[mbb]) : i <= iter - 1
      BY <1>1, <1>3, <2>1
    <3> QED BY <3>1, <3>2 DEF AllIn, InTogether
  <2>3. OutTogether(fn, edgeSet, mbb, 1)
    BY <1>1, <1>3 DEF OutTogether
  <2> QED BY <2>1, <2>2, <2>3 DEF Progress
<1>6. CASE MergeSucc
  <2>1. /\ fn' = fn /\ mbb' = mbb /\ side = "succs" /\ side' = "succs"
        /\ iter' = iter + 1 /\ iter <= Len(fn.succs[mbb])
        /\ edgeSet' = MergeEdgeSets(edgeSet, <<mbb, fn.succs[mbb][1]>>,
                                             <<mbb, fn.succs[mbb][iter]>>)
    BY <1>6 DEF MergeSucc
  <2>2. /\ <<mbb, fn.succs[mbb][1]>> \in CollectEdges(fn)
        /\ <<mbb, fn.succs[mbb][iter]>> \in CollectEdges(fn)
    BY <1>1, <1>3, <2>1, ListEntriesAreEdges
  <2>3. \A b \in Block(fn) :
          /\ AllIn(fn, edgeSet, b) => AllIn(fn, edgeSet', b)
          /\ AllOut(fn, edgeSet, b) => AllOut(fn, edgeSet', b)
    BY <1>1, <2>1, <2>2, MergeKeepsTogether
  <2>4. OutTogether(fn, edgeSet', mbb, iter)
    BY <1>1, <2>1, MergeExtends DEF Progress
  <2>5. iter' - 1 = iter
    BY <1>1, <2>1
  <2> QED BY <2>1, <2>3, <2>4, <2>5 DEF Progress
<1>7. CASE SuccsMerged
  <2>1. /\ UNCHANGED <<fn, edgeSet>> /\ side = "succs" /\ iter' = 2
        /\ iter > Len(fn.succs[mbb])
    BY <1>7 DEF SuccsMerged
  <2>2. AllOut(fn, edgeSet, mbb)
    <3>1. OutTogether(fn, edgeSet, mbb, iter - 1)
      BY <2>1 DEF Progress
    <3>2. \A i \in 1 .. Len(fn.succs[mbb]) : i <= iter - 1
      BY <1>1, <1>3, <2>1
    <3> QED BY <3>1, <3>2 DEF AllOut, OutTogether
  <2>3. \A b \in Block(fn) :
          b <= mbb => AllIn(fn, edgeSet, b) /\ AllOut(fn, edgeSet, b)
    BY <2>1, <2>2, <1>1, <1>2 DEF Progress
  <2>4. CASE mbb < fn.n
    <3>1. mbb' = mbb + 1 /\ side' = "preds"
      BY <2>4, <1>7 DEF SuccsMerged
    <3>2. \A b \in Block(fn) : b < mbb' => b <= mbb
      BY <3>1, <1>1, <1>2
    <3>3. InTogether(fn, edgeSet, mbb', 1)
      <4>1. mbb' \in Block(fn)
        BY <3>1, <2>4, <1>1, <1>2 DEF Block
      <4> QED BY <4>1, <1>3 DEF InTogether
    <3> QED BY <3>1, <3>2, <3>3, <2>1, <2>3, <1>1, <1>2 DEF Progress
  <2>5. CASE ~ (mbb < fn.n)
    <3>1. mbb' = mbb /\ side' = "computed" /\ mbb = fn.n
      BY <2>5, <1>1, <1>2, <1>7 DEF SuccsMerged
    <3> QED BY <3>1, <2>1, <2>3, <1>1, <1>2 DEF Progress
  <2> QED BY <2>4, <2>5
<1>8. CASE UNCHANGED edgeVars
  BY <1>8 DEF edgeVars, Progress
<1> QED BY <1>4, <1>5, <1>6, <1>7, <1>8 DEF EdgeNext

(* A complete computation has brought together all edges that share a     *)
(* block end.                                                              *)
LEMMA ProgressShares == EdgeTypeOK /\ Progress => SharingEdgesTogether
<1> SUFFICES ASSUME EdgeTypeOK, Progress, side = "computed",
                    NEW e \in RealEdges, NEW g \in RealEdges, Share(e, g)
             PROVE  edgeSet[e] = edgeSet[g]
  BY DEF SharingEdgesTogether
<1>1. IsCFG(fn) /\ mbb = fn.n
  BY DEF EdgeTypeOK, Progress
<1>2. \A b \in Block(fn) : AllIn(fn, edgeSet, b) /\ AllOut(fn, edgeSet, b)
  <2>1. \A b \in Block(fn) : b < mbb \/ b = mbb
    BY <1>1 DEF IsCFG, Block
  <2> QED BY <2>1 DEF Progress
<1>3. CASE e[1] = g[1]
  <2>1. /\ e = <<e[1], e[2]>> /\ g = <<e[1], g[2]>> /\ e[1] \in Block(fn)
        /\ \E i \in 1 .. Len(fn.succs[e[1]]) : fn.succs[e[1]][i] = e[2]
        /\ \E i \in 1 .. Len(fn.succs[e[1]]) : fn.succs[e[1]][i] = g[2]
    BY <1>1, <1>3, RealEdgeProperties
  <2>2. PICK i \in 1 .. Len(fn.succs[e[1]]) : fn.succs[e[1]][i] = e[2]
    BY <2>1
  <2>3. PICK j \in 1 .. Len(fn.succs[e[1]]) : fn.succs[e[1]][j] = g[2]
    BY <2>1
  <2>4. /\ edgeSet[<<e[1], fn.succs[e[1]][i]>>] = edgeSet[<<e[1], fn.succs[e[1]][1]>>]
        /\ edgeSet[<<e[1], fn.succs[e[1]][j]>>] = edgeSet[<<e[1], fn.succs[e[1]][1]>>]
    <3>1. Len(fn.succs[e[1]]) \in Nat
      BY <2>1, CurrentListEntries
    <3> QED BY <1>2, <2>1, <3>1 DEF AllOut, OutTogether
  <2> QED BY <2>1, <2>2, <2>3, <2>4
<1>4. CASE e[2] = g[2]
  <2>1. /\ e = <<e[1], e[2]>> /\ g = <<g[1], e[2]>> /\ e[2] \in Block(fn)
        /\ \E i \in 1 .. Len(fn.preds[e[2]]) : fn.preds[e[2]][i] = e[1]
        /\ \E i \in 1 .. Len(fn.preds[e[2]]) : fn.preds[e[2]][i] = g[1]
    BY <1>1, <1>4, RealEdgeProperties
  <2>2. PICK i \in 1 .. Len(fn.preds[e[2]]) : fn.preds[e[2]][i] = e[1]
    BY <2>1
  <2>3. PICK j \in 1 .. Len(fn.preds[e[2]]) : fn.preds[e[2]][j] = g[1]
    BY <2>1
  <2>4. /\ edgeSet[<<fn.preds[e[2]][i], e[2]>>] = edgeSet[<<fn.preds[e[2]][1], e[2]>>]
        /\ edgeSet[<<fn.preds[e[2]][j], e[2]>>] = edgeSet[<<fn.preds[e[2]][1], e[2]>>]
    <3>1. Len(fn.preds[e[2]]) \in Nat
      BY <2>1, CurrentListEntries
    <3> QED BY <1>2, <2>1, <3>1 DEF AllIn, InTogether
  <2> QED BY <2>1, <2>2, <2>3, <2>4
<1> QED BY <1>3, <1>4 DEF Share

(* When computeEdgeSets returns, any two edges with a common source or a   *)
(* common target are in one set: beginOfBlockUpdates, which looks only at  *)
(* the FIRST predecessor, and endOfBlockUpdates, which looks only at the   *)
(* first successor, cannot pick a wrong layout, in any function.           *)
THEOREM SharingEdges == EdgeSpec => []SharingEdgesTogether
<1> QED BY ProgressShares, EdgeTypes, ProgressInit, ProgressNext, PTL DEF EdgeSpec

-----------------------------------------------------------------------------
(* Merging two edges that a set S contains both or neither of keeps the    *)
(* partition from mixing edges of S with others.                           *)
LEMMA MergeKeepsApart ==
  ASSUME NEW E, NEW part \in [E -> E], NEW e1 \in E, NEW e2 \in E, NEW S,
         e1 \in S <=> e2 \in S,
         \A e, g \in E : part[e] = part[g] => (e \in S <=> g \in S)
  PROVE  LET new == MergeEdgeSets(part, e1, e2)
         IN  \A e, g \in E : new[e] = new[g] => (e \in S <=> g \in S)
<1> DEFINE new == MergeEdgeSets(part, e1, e2)
<1>1. \A e, g \in E :
        new[e] = new[g] =>
          \/ part[e] = part[g]
          \/ part[e] = part[e1] /\ part[g] = part[e2]
          \/ part[e] = part[e2] /\ part[g] = part[e1]
  BY DEF MergeEdgeSets
<1> HIDE DEF new
<1>2. ASSUME NEW e \in E, NEW g \in E, new[e] = new[g]
      PROVE  e \in S <=> g \in S
  BY <1>1, <1>2
<1> QED BY <1>2 DEF new

(* Every merge of computeEdgeSets is of two edges that share a block.      *)
LEMMA ConnectedNext ==
  EdgeTypeOK /\ OnlyConnectedTogether /\ [EdgeNext]_edgeVars
    => OnlyConnectedTogether'
<1> SUFFICES ASSUME EdgeTypeOK, OnlyConnectedTogether, [EdgeNext]_edgeVars
             PROVE  OnlyConnectedTogether'
  OBVIOUS
<1>1. /\ IsCFG(fn) /\ mbb \in Block(fn) /\ iter \in Nat /\ 2 <= iter
      /\ edgeSet \in [Edges -> Edges]
  BY DEF EdgeTypeOK
<1>2. fn' = fn /\ Edges' = Edges /\ RealEdges' = RealEdges
  BY DEF EdgeNext, MergePred, PredsMerged, MergeSucc, SuccsMerged, edgeVars,
         Edges, RealEdges
<1>3. \A b \in Block(fn) : Len(fn.preds[b]) \in Nat /\ Len(fn.succs[b]) \in Nat
  BY CurrentListEntries
<1>4. \A e \in Edges, b, c \in Block(fn) : e = <<b, c>> => e \in RealEdges
  BY <1>1 DEF RealEdges, NullBlock, Block, IsCFG
<1> SUFFICES ASSUME NEW S \in SUBSET RealEdges, Closed(S, RealEdges)
             PROVE  \A e, g \in Edges : edgeSet'[e] = edgeSet'[g] => (e \in S <=> g \in S)
  BY <1>2 DEF OnlyConnectedTogether
<1>5. \A e, g \in Edges : edgeSet[e] = edgeSet[g] => (e \in S <=> g \in S)
  BY DEF OnlyConnectedTogether
<1>6. CASE MergePred
  <2> DEFINE e1 == <<fn.preds[mbb][1], mbb>>
             e2 == <<fn.preds[mbb][iter], mbb>>
  <2>1. /\ e1 \in Edges /\ e2 \in Edges
        /\ fn.preds[mbb][1] \in Block(fn) /\ fn.preds[mbb][iter] \in Block(fn)
        /\ edgeSet' = MergeEdgeSets(edgeSet, e1, e2)
    <3>1. 1 \in 1 .. Len(fn.preds[mbb]) /\ iter \in 1 .. Len(fn.preds[mbb])
      BY <1>1, <1>3, <1>6 DEF MergePred
    <3>2. edgeSet' = MergeEdgeSets(edgeSet, e1, e2)
      BY <1>6 DEF MergePred
    <3> QED BY <3>1, <3>2, <1>1, ListEntriesAreEdges DEF Edges
  <2>2. e1 \in RealEdges /\ e2 \in RealEdges /\ Share(e1, e2)
    BY <2>1, <1>1, <1>4 DEF Share
  <2> HIDE DEF e1, e2
  <2>3. e1 \in S <=> e2 \in S
    BY <2>2 DEF Closed
  <2> QED BY <1>1, <1>5, <2>1, <2>3, MergeKeepsApart
<1>7. CASE MergeSucc
  <2> DEFINE e1 == <<mbb, fn.succs[mbb][1]>>
             e2 == <<mbb, fn.succs[mbb][iter]>>
  <2>1. /\ e1 \in Edges /\ e2 \in Edges
        /\ fn.succs[mbb][1] \in Block(fn) /\ fn.succs[mbb][iter] \in Block(fn)
        /\ edgeSet' = MergeEdgeSets(edgeSet, e1, e2)
    <3>1. 1 \in 1 .. Len(fn.succs[mbb]) /\ iter \in 1 .. Len(fn.succs[mbb])
      BY <1>1, <1>3, <1>7 DEF MergeSucc
    <3>2. edgeSet' = MergeEdgeSets(edgeSet, e1, e2)
      BY <1>7 DEF MergeSucc
    <3> QED BY <3>1, <3>2, <1>1, ListEntriesAreEdges DEF Edges
  <2>2. e1 \in RealEdges /\ e2 \in RealEdges /\ Share(e1, e2)
    BY <2>1, <1>1, <1>4 DEF Share
  <2> HIDE DEF e1, e2
  <2>3. e1 \in S <=> e2 \in S
    BY <2>2 DEF Closed
  <2> QED BY <1>1, <1>5, <2>1, <2>3, MergeKeepsApart
<1>8. CASE edgeSet' = edgeSet
  BY <1>5, <1>8
<1> QED BY <1>6, <1>7, <1>8 DEF EdgeNext, PredsMerged, SuccsMerged, edgeVars

(* Edges that no chain of common blocks connects are never put in one set: *)
(* computeEdgeSets does not constrain layouts more than it must, and the   *)
(* artificial entry and exit edges stay apart, in any function.            *)
THEOREM OnlyConnected == EdgeSpec => []OnlyConnectedTogether
<1>1. EdgeInit => OnlyConnectedTogether
  BY DEF EdgeInit, StartEdgeSets, OnlyConnectedTogether, Edges
<1> QED BY <1>1, EdgeTypes, ConnectedNext, PTL DEF EdgeSpec
=============================================================================
