--------------------------- MODULE CallFramesProofs ---------------------------
(***************************************************************************)
(* Frames of active calls are separate and survive the calls, for every    *)
(* set of functions, every frame layout and every call depth.              *)
(***************************************************************************)
EXTENDS CallFrames, TLAPS

(* What the entry code and the order of compilation have to provide.       *)
Convention == OneFramePointer /\ EntryAboveCells

(* A frame pointer is right only if the saved ones are, which are out of   *)
(* reach only because frames do not overlap.                               *)
FrameInv ==
  TypeOK /\ FramePointerRestored /\ SavedPointersIntact /\ FramesDisjoint

(* MLOAD after MSTORE.                                                     *)
LEMMA ReadWritten ==
  ASSUME NEW a, NEW v, mem' = Written(mem, a, v)
  PROVE  \A b : MLoad(b)' = IF b = a THEN v ELSE MLoad(b)
BY DEF Written, MLoad

(* MLOAD after the three MSTOREs of a call sequence.                       *)
LEMMA ReadWrittenThrice ==
  ASSUME NEW a, NEW v, NEW b, NEW w, NEW c, NEW x,
         mem' = Written(Written(Written(mem, a, v), b, w), c, x)
  PROVE  \A d : MLoad(d)' = IF d = c THEN x
                            ELSE IF d = b THEN w
                            ELSE IF d = a THEN v ELSE MLoad(d)
BY DEF Written, MLoad

(* Sizes are natural numbers; all functions agree on the pointer words.    *)
LEMMA Sizes ==
  ASSUME Convention, NEW f \in Funcs
  PROVE  /\ SaveIndex(f) \in Nat
         /\ WordsOf(f) = SaveIndex(f)
         /\ FPAddr(f) = FPAddr(Main)
         /\ SPAddr(f) = SPAddr(Main)
         /\ FPAddr(Main) \in Nat
         /\ SPAddr(Main) = FPAddr(Main) + 32
BY FrameAssumption
   DEF Convention, OneFramePointer, SaveIndex, WordsOf, FPAddr, SPAddr

(* Whatever is read is a number.                                           *)
LEMMA LoadType == TypeOK => \A a : MLoad(a) \in Nat
BY DEF TypeOK, MLoad

(* A word of an active frame below its save slot is no pointer word, no    *)
(* save slot, no global, and no word of another active frame.              *)
LEMMA FrameWordApart ==
  ASSUME Convention, FrameInv,
         NEW k \in 1 .. depth, NEW w \in 0 .. WordsOf(calls[k].f) - 1
  PROVE  LET a == calls[k].fp + 32 * w
         IN  /\ a \in Nat
             /\ a # FPAddr(Main) /\ a # SPAddr(Main)
             /\ \A j \in 2 .. depth : a # calls[j].fp - 32
             /\ \A g \in 0 .. GlobalSlots[Main] - 1 : a # 32 * g
             /\ \A j \in 1 .. depth : \A u \in 0 .. WordsOf(calls[j].f) - 1 :
                  a = calls[j].fp + 32 * u => j = k /\ u = w
<1> DEFINE a == calls[k].fp + 32 * w
<1>1. /\ depth \in Nat
      /\ \A j \in 1 .. depth :
           /\ calls[j].f \in Funcs /\ calls[j].fp \in Nat
           /\ SaveIndex(calls[j].f) \in Nat
           /\ WordsOf(calls[j].f) = SaveIndex(calls[j].f)
           /\ calls[j].fp >= SPAddr(Main) + 32
  BY Sizes DEF FrameInv, TypeOK, FramesDisjoint
<1>2. \A i, j \in 1 .. depth :
        i < j => calls[i].fp + 32 * (SaveIndex(calls[i].f) + 1) <= calls[j].fp
  BY DEF FrameInv, FramesDisjoint
<1>3. /\ FPAddr(Main) \in Nat /\ SPAddr(Main) = FPAddr(Main) + 32
      /\ FPAddr(Main) = 32 * GlobalSlots[Main] /\ GlobalSlots[Main] \in Nat
  BY Sizes, FrameAssumption DEF FPAddr
<1>4. a \in Nat /\ a >= SPAddr(Main) + 32 /\ w \in Nat /\ w < SaveIndex(calls[k].f)
  BY <1>1, <1>3
<1>5. \A j \in 2 .. depth : a # calls[j].fp - 32
  <2> SUFFICES ASSUME NEW j \in 2 .. depth PROVE a # calls[j].fp - 32
    OBVIOUS
  <2>1. CASE k < j BY <2>1, <1>1, <1>2, <1>4
  <2>2. CASE j < k BY <2>2, <1>1, <1>2, <1>4
  <2>3. CASE j = k BY <2>3, <1>1, <1>4
  <2> QED BY <2>1, <2>2, <2>3, <1>1
<1>6. \A j \in 1 .. depth : \A u \in 0 .. WordsOf(calls[j].f) - 1 :
        a = calls[j].fp + 32 * u => j = k /\ u = w
  <2> SUFFICES ASSUME NEW j \in 1 .. depth,
                      NEW u \in 0 .. WordsOf(calls[j].f) - 1,
                      a = calls[j].fp + 32 * u
               PROVE  j = k /\ u = w
    OBVIOUS
  <2>1. u \in Nat /\ u < SaveIndex(calls[j].f)
    BY <1>1
  <2>2. ~(k < j) BY <2>1, <1>1, <1>2, <1>4
  <2>3. ~(j < k) BY <2>1, <1>1, <1>2, <1>4
  <2> QED BY <2>1, <2>2, <2>3, <1>1, <1>4
<1> HIDE DEF a
<1>7. \A g \in 0 .. GlobalSlots[Main] - 1 : a # 32 * g
  BY <1>3, <1>4
<1>8. a # FPAddr(Main) /\ a # SPAddr(Main)
  BY <1>3, <1>4
<1> QED BY <1>4, <1>5, <1>6, <1>7, <1>8 DEF a

(* A store to an address apart from the pointer words and the save slots.  *)
LEMMA StoreKeeps ==
  ASSUME Convention, FrameInv, NEW a \in Nat, NEW v \in Nat,
         mem' = Written(mem, a, v), UNCHANGED <<depth, calls, got>>,
         a # FPAddr(Main), \A j \in 2 .. depth : a # calls[j].fp - 32
  PROVE  FrameInv'
<1>1. \A b : MLoad(b)' = IF b = a THEN v ELSE MLoad(b)
  BY ReadWritten
<1>2. TypeOK'
  BY DEF FrameInv, TypeOK, Written
<1>3. FramePointerRestored'
  <2>1. depth \in 1 .. depth /\ Cur \in Funcs /\ Cur' = Cur
    BY DEF FrameInv, TypeOK, Cur
  <2>2. FPAddr(Cur) = FPAddr(Main) /\ FPAddr(Cur)' = FPAddr(Main)
    BY <2>1, Sizes DEF FPAddr
  <2> QED BY <1>1, <2>1, <2>2 DEF FrameInv, FramePointerRestored, FP
<1>4. SavedPointersIntact'
  BY <1>1 DEF FrameInv, SavedPointersIntact
<1>5. FramesDisjoint'
  BY DEF FrameInv, FramesDisjoint, SaveIndex, SPAddr, FPAddr
<1> QED BY <1>2, <1>3, <1>4, <1>5 DEF FrameInv

(* A step that stores nothing.                                             *)
LEMMA LoadKeeps ==
  ASSUME FrameInv, UNCHANGED <<mem, depth, calls>>, got' \in Nat
  PROVE  FrameInv'
BY DEF FrameInv, TypeOK, FramePointerRestored, SavedPointersIntact,
       FramesDisjoint, FP, Cur, FPAddr, SPAddr, SaveIndex, MLoad

(* The running activation, in the terms of the invariant.                  *)
LEMMA Running ==
  ASSUME Convention, FrameInv
  PROVE  /\ depth \in Nat /\ depth \in 1 .. depth
         /\ Cur = calls[depth].f /\ Cur \in Funcs
         /\ FP = calls[depth].fp /\ FP \in Nat
         /\ FPAddr(Cur) = FPAddr(Main) /\ SPAddr(Cur) = SPAddr(Main)
         /\ GlobalSlots[Cur] = GlobalSlots[Main]
         /\ SaveIndex(Cur) \in Nat /\ WordsOf(Cur) = SaveIndex(Cur)
<1>1. depth \in Nat /\ depth \in 1 .. depth /\ Cur = calls[depth].f
  BY DEF FrameInv, TypeOK, Cur
<1>2. Cur \in Funcs /\ calls[depth].fp \in Nat
  BY <1>1 DEF FrameInv, TypeOK
<1> QED
  BY <1>1, <1>2, Sizes
     DEF Convention, OneFramePointer, FrameInv, FramePointerRestored

(* The addresses a function computes are words of active frames.           *)
LEMMA SlotWord ==
  ASSUME Convention, FrameInv, NEW slot \in 0 .. memoryFrameSize[Cur]
  PROVE  /\ slot + StackObjects[Cur] \in 0 .. WordsOf(calls[depth].f) - 1
         /\ LocalAddress(slot) = calls[depth].fp + 32 * (slot + StackObjects[Cur])
BY Running, FrameAssumption DEF LocalAddress, WordsOf

LEMMA ObjectWord ==
  ASSUME Convention, FrameInv,
         NEW k \in 1 .. depth, NEW o \in 0 .. StackObjects[calls[k].f] - 1
  PROVE  o \in 0 .. WordsOf(calls[k].f) - 1
BY FrameAssumption, SMTT(40) DEF WordsOf, FrameInv, TypeOK

(* A global lies below the pointer words and every frame.                  *)
LEMMA GlobalApart ==
  ASSUME Convention, FrameInv, NEW g \in 0 .. GlobalSlots[Main] - 1
  PROVE  /\ 32 * g \in Nat
         /\ 32 * g # FPAddr(Main) /\ 32 * g # SPAddr(Main)
         /\ \A j \in 2 .. depth : 32 * g # calls[j].fp - 32
<1>1. /\ GlobalSlots[Main] \in Nat /\ g \in Nat /\ g < GlobalSlots[Main]
      /\ FPAddr(Main) = 32 * GlobalSlots[Main]
      /\ SPAddr(Main) = FPAddr(Main) + 32
  BY FrameAssumption DEF FPAddr, SPAddr
<1>2. \A j \in 2 .. depth : calls[j].fp \in Nat /\ calls[j].fp >= SPAddr(Main) + 32
  BY DEF FrameInv, TypeOK, FramesDisjoint
<1> QED BY <1>1, <1>2

LEMMA InitFrames == ASSUME Convention, Init PROVE FrameInv
<1>1. /\ depth = 1 /\ calls[1].f = Main /\ calls[1].fp = EntryFP
      /\ DOMAIN calls = 1 .. 1 /\ 1 .. 1 = {1} /\ 2 .. 1 = {}
  BY DEF Init
<1>2. FPAddr(Main) \in Nat /\ EntryFP \in Nat
  BY FrameAssumption DEF FPAddr
<1>3. TypeOK
  BY <1>1, <1>2, FrameAssumption DEF Init, TypeOK
<1>4. FramePointerRestored
  BY <1>1 DEF Init, FramePointerRestored, FP, Cur, MLoad
<1>5. SavedPointersIntact
  BY <1>1 DEF SavedPointersIntact
<1>6. FramesDisjoint
  BY <1>1 DEF FramesDisjoint, Convention, EntryAboveCells
<1> QED BY <1>3, <1>4, <1>5, <1>6 DEF FrameInv

LEMMA CallKeeps ==
  ASSUME Convention, FrameInv, NEW g \in Funcs, Call(g)
  PROVE  FrameInv'
<1> DEFINE new == FP + 32 * (SaveIndex(Cur) + 1)
<1>1. /\ depth \in Nat \ {0} /\ depth \in 1 .. depth
      /\ FP = calls[depth].fp /\ FP \in Nat /\ Cur = calls[depth].f
      /\ FPAddr(Cur) = FPAddr(Main) /\ SPAddr(Cur) = SPAddr(Main)
      /\ SaveIndex(Cur) \in Nat
  BY Running DEF FrameInv, TypeOK
<1>2. FPAddr(Main) \in Nat /\ SPAddr(Main) = FPAddr(Main) + 32
  BY Sizes, FrameAssumption
<1>3. FP >= SPAddr(Main) + 32 /\ new \in Nat /\ new > FP
  BY <1>1, <1>2 DEF FrameInv, FramesDisjoint
<1>4. \A k \in 1 .. depth :
        calls[k].f \in Funcs /\ calls[k].fp \in Nat /\ SaveIndex(calls[k].f) \in Nat
  BY Sizes DEF FrameInv, TypeOK
<1>5. \A k \in 1 .. depth : calls[k].fp <= FP
  <2> SUFFICES ASSUME NEW k \in 1 .. depth PROVE calls[k].fp <= FP
    OBVIOUS
  <2>1. CASE k = depth BY <2>1, <1>1
  <2>2. CASE k < depth
    BY <2>2, <1>1, <1>4 DEF FrameInv, FramesDisjoint
  <2> QED BY <2>1, <2>2, <1>1
<1>6. /\ depth' = depth + 1
      /\ calls' = [k \in 1 .. depth + 1 |->
                     IF k <= depth THEN calls[k] ELSE [f |-> g, fp |-> new]]
      /\ got' = got
      /\ mem' = Written(Written(Written(mem, FP + 32 * SaveIndex(Cur), FP),
                               FPAddr(Cur), new), SPAddr(Cur), new)
  BY DEF Call, NewFP
<1>7. \A d : MLoad(d)' = IF d = SPAddr(Main) THEN new
                         ELSE IF d = FPAddr(Main) THEN new
                         ELSE IF d = FP + 32 * SaveIndex(Cur) THEN FP ELSE MLoad(d)
  BY <1>1, <1>6, ReadWrittenThrice
<1>8. /\ \A k \in 1 .. depth : k \in 1 .. depth + 1 /\ calls'[k] = calls[k]
      /\ calls'[depth + 1] = [f |-> g, fp |-> new]
      /\ depth + 1 \in 1 .. depth + 1
      /\ \A k \in 1 .. depth + 1 : k \in 1 .. depth \/ k = depth + 1
  BY <1>1, <1>6
<1> HIDE DEF new
<1>9. TypeOK'
  <2>1. \A a \in DOMAIN mem' : a \in Nat /\ mem'[a] \in Nat
    BY <1>1, <1>2, <1>3, <1>6 DEF Written, FrameInv, TypeOK
  <2>2. \A k \in 1 .. depth' : calls'[k].f \in Funcs /\ calls'[k].fp \in Nat
    BY <1>3, <1>4, <1>6, <1>8
  <2>3. calls'[1].f = Main
    BY <1>1, <1>8 DEF FrameInv, TypeOK
  <2> QED BY <2>1, <2>2, <2>3, <1>1, <1>6 DEF FrameInv, TypeOK
<1>10. FramePointerRestored'
  <2>1. Cur' = g BY <1>6, <1>8 DEF Cur
  <2>2. FPAddr(g) = FPAddr(Main) BY Sizes
  <2>3. FP' = MLoad(FPAddr(Main))'
    BY <2>1, <2>2 DEF FP, FPAddr
  <2>4. MLoad(FPAddr(Main))' = new
    BY <1>7 DEF FPAddr
  <2> QED BY <2>3, <2>4, <1>6, <1>8 DEF FramePointerRestored
<1>11. SavedPointersIntact'
  <2> SUFFICES ASSUME NEW k \in 2 .. depth + 1
               PROVE  MLoad(calls[k].fp - 32)' = calls'[k - 1].fp
    BY <1>6 DEF SavedPointersIntact
  <2>1. CASE k = depth + 1
    <3>1. calls'[k].fp - 32 = FP + 32 * SaveIndex(Cur)
      BY <2>1, <1>1, <1>8 DEF new
    <3>2. /\ FP + 32 * SaveIndex(Cur) # SPAddr(Main)
          /\ FP + 32 * SaveIndex(Cur) # FPAddr(Main)
      BY <1>1, <1>2, <1>3
    <3>3. k - 1 \in 1 .. depth /\ calls'[k - 1].fp = FP
      BY <2>1, <1>1, <1>8
    <3> QED BY <3>1, <3>2, <3>3, <1>7
  <2>2. CASE k <= depth
    <3>1. k \in 2 .. depth /\ k \in 1 .. depth /\ k - 1 \in 1 .. depth
      BY <2>2, <1>1
    <3>2. /\ calls'[k].fp = calls[k].fp /\ calls'[k - 1].fp = calls[k - 1].fp
          /\ MLoad(calls[k].fp - 32) = calls[k - 1].fp
      BY <3>1, <1>8 DEF FrameInv, SavedPointersIntact
    <3>3. calls[k].fp - 32 # FP + 32 * SaveIndex(Cur)
      BY <3>1, <1>1, <1>4, <1>5
    <3>4. /\ k - 1 < k /\ calls[k - 1].fp >= SPAddr(Main) + 32
          /\ calls[k - 1].fp + 32 * (SaveIndex(calls[k - 1].f) + 1) <= calls[k].fp
      BY <3>1, <1>1 DEF FrameInv, FramesDisjoint
    <3>5. calls[k].fp - 32 # SPAddr(Main) /\ calls[k].fp - 32 # FPAddr(Main)
      BY <3>1, <3>4, <1>2, <1>4
    <3> QED BY <3>2, <3>3, <3>5, <1>7
  <2> QED BY <2>1, <2>2, <1>1
<1>12. FramesDisjoint'
  <2>1. \A k \in 1 .. depth + 1 : calls'[k].fp >= SPAddr(Main) + 32
    BY <1>1, <1>2, <1>3, <1>8 DEF FrameInv, FramesDisjoint
  <2>2. ASSUME NEW i \in 1 .. depth + 1, NEW j \in 1 .. depth + 1, i < j
        PROVE  calls'[i].fp + 32 * (SaveIndex(calls'[i].f) + 1) <= calls'[j].fp
    <3>1. i \in 1 .. depth BY <2>2, <1>1
    <3>2. CASE j \in 1 .. depth
      BY <2>2, <3>1, <3>2, <1>8 DEF FrameInv, FramesDisjoint
    <3>3. CASE j = depth + 1
      <4>1. calls'[j].fp = FP + 32 * (SaveIndex(Cur) + 1)
        BY <3>3, <1>8 DEF new
      <4>2. CASE i = depth
        BY <4>1, <4>2, <3>1, <1>1, <1>4, <1>8
      <4>3. CASE i < depth
        <5>1. calls[i].fp + 32 * (SaveIndex(calls[i].f) + 1) <= FP
          BY <4>3, <3>1, <1>1 DEF FrameInv, FramesDisjoint
        <5> QED BY <5>1, <4>1, <3>1, <1>1, <1>4, <1>8
      <4> QED BY <4>2, <4>3, <3>1, <1>1
    <3> QED BY <3>2, <3>3, <1>8
  <2> QED BY <2>1, <2>2, <1>6 DEF FramesDisjoint, SaveIndex, SPAddr, FPAddr
<1> QED BY <1>9, <1>10, <1>11, <1>12 DEF FrameInv

(* Returning reads the save slot through the callee's frame pointer.       *)
LEMMA ReturnReads ==
  ASSUME Convention, FrameInv, Return
  PROVE  /\ depth \in Nat /\ depth > 1 /\ depth' = depth - 1 /\ got' = got
         /\ calls' = [k \in 1 .. depth - 1 |-> calls[k]]
         /\ mem' = Written(mem, FPAddr(Main), calls[depth - 1].fp)
<1>1. /\ depth \in Nat /\ depth > 1
      /\ depth' = depth - 1 /\ got' = got
      /\ calls' = [k \in 1 .. depth - 1 |-> calls[k]]
      /\ mem' = Restored(calls[depth - 1].f)
  BY DEF Return, FrameInv, TypeOK
<1>2. depth \in 2 .. depth /\ depth - 1 \in 1 .. depth
  BY <1>1
<1>3. FPAddr(calls[depth - 1].f) = FPAddr(Main)
  BY <1>2, Sizes DEF FrameInv, TypeOK
<1>4. MLoad(FPAddr(Main)) = calls[depth].fp
  BY Running DEF FP
<1>5. MLoad(calls[depth].fp - 32) = calls[depth - 1].fp
  BY <1>2 DEF FrameInv, SavedPointersIntact
<1> QED BY <1>1, <1>3, <1>4, <1>5 DEF Restored

LEMMA ReturnKeeps ==
  ASSUME Convention, FrameInv, Return
  PROVE  FrameInv'
<1>1. /\ depth \in Nat /\ depth > 1 /\ depth' = depth - 1 /\ got' = got
      /\ calls' = [k \in 1 .. depth - 1 |-> calls[k]]
      /\ mem' = Written(mem, FPAddr(Main), calls[depth - 1].fp)
  BY ReturnReads
<1>2. \A k \in 1 .. depth - 1 :
        /\ k \in 1 .. depth /\ calls'[k] = calls[k]
        /\ calls[k].f \in Funcs /\ calls[k].fp \in Nat
        /\ SaveIndex(calls[k].f) \in Nat
  BY <1>1, Sizes DEF FrameInv, TypeOK
<1>3. \A d : MLoad(d)' = IF d = FPAddr(Main) THEN calls[depth - 1].fp ELSE MLoad(d)
  BY <1>1, ReadWritten
<1>4. FPAddr(Main) \in Nat /\ SPAddr(Main) = FPAddr(Main) + 32
  BY Sizes, FrameAssumption
<1>5. depth - 1 \in 1 .. depth - 1
  BY <1>1
<1>6. TypeOK'
  <2>1. \A a \in DOMAIN mem' : a \in Nat /\ mem'[a] \in Nat
    BY <1>1, <1>2, <1>4, <1>5 DEF Written, FrameInv, TypeOK
  <2>2. calls'[1].f = Main
    BY <1>1, <1>2 DEF FrameInv, TypeOK
  <2>3. \A k \in 1 .. depth' : calls'[k].f \in Funcs /\ calls'[k].fp \in Nat
    BY <1>1, <1>2
  <2> QED BY <2>1, <2>2, <2>3, <1>1 DEF FrameInv, TypeOK
<1>7. FramePointerRestored'
  <2>1. Cur' = calls[depth - 1].f /\ Cur' \in Funcs
    BY <1>1, <1>2, <1>5 DEF Cur
  <2>2. FPAddr(Cur)' = FPAddr(Main)
    BY <2>1, Sizes DEF FPAddr
  <2>3. FP' = MLoad(FPAddr(Main))'
    BY <2>2 DEF FP, FPAddr
  <2>4. MLoad(FPAddr(Main))' = calls[depth - 1].fp
    BY <1>3 DEF FPAddr
  <2> QED BY <2>3, <2>4, <1>1, <1>2, <1>5 DEF FramePointerRestored
<1>8. SavedPointersIntact'
  <2> SUFFICES ASSUME NEW k \in 2 .. depth - 1
               PROVE  MLoad(calls[k].fp - 32)' = calls'[k - 1].fp
    BY <1>1 DEF SavedPointersIntact
  <2>1. /\ k \in 2 .. depth /\ k \in 1 .. depth - 1 /\ k - 1 \in 1 .. depth - 1
        /\ k - 1 < k
    BY <1>1
  <2>2. /\ calls'[k].fp = calls[k].fp /\ calls'[k - 1].fp = calls[k - 1].fp
        /\ MLoad(calls[k].fp - 32) = calls[k - 1].fp
    BY <2>1, <1>2 DEF FrameInv, SavedPointersIntact
  <2>3. /\ calls[k - 1].fp >= SPAddr(Main) + 32
        /\ calls[k - 1].fp + 32 * (SaveIndex(calls[k - 1].f) + 1) <= calls[k].fp
    BY <2>1, <1>2 DEF FrameInv, FramesDisjoint
  <2>4. calls[k].fp - 32 # FPAddr(Main)
    BY <2>1, <2>3, <1>2, <1>4
  <2> QED BY <2>2, <2>4, <1>3
<1>9. FramesDisjoint'
  <2>1. /\ \A k \in 1 .. depth - 1 : calls'[k].fp >= SPAddr(Main) + 32
        /\ \A i, j \in 1 .. depth - 1 :
             i < j => calls'[i].fp + 32 * (SaveIndex(calls'[i].f) + 1) <= calls'[j].fp
    BY <1>2 DEF FrameInv, FramesDisjoint
  <2> QED BY <2>1, <1>1 DEF FramesDisjoint, SaveIndex, SPAddr, FPAddr
<1> QED BY <1>6, <1>7, <1>8, <1>9 DEF FrameInv

LEMMA NextKeeps ==
  ASSUME Convention, FrameInv, [Next]_vars
  PROVE  FrameInv'
<1>1. ASSUME NEW slot \in 0 .. memoryFrameSize[Cur], GetLocal(slot)
      PROVE  FrameInv'
  BY <1>1, LoadKeeps, LoadType DEF GetLocal, FrameInv
<1>2. ASSUME NEW slot \in 0 .. memoryFrameSize[Cur], NEW v \in Vals,
             PutLocal(slot, v)
      PROVE  FrameInv'
  <2>1. /\ LocalAddress(slot) \in Nat /\ LocalAddress(slot) # FPAddr(Main)
        /\ \A j \in 2 .. depth : LocalAddress(slot) # calls[j].fp - 32
    BY SlotWord, FrameWordApart, Running
  <2> QED BY <1>2, <2>1, StoreKeeps, FrameAssumption DEF PutLocal
<1>3. ASSUME NEW o \in 0 .. StackObjects[Cur] - 1, LoadObject(o)
      PROVE  FrameInv'
  BY <1>3, LoadKeeps, LoadType DEF LoadObject, FrameInv
<1>4. ASSUME NEW o \in 0 .. StackObjects[Cur] - 1, NEW v \in Vals,
             StoreObject(o, v)
      PROVE  FrameInv'
  <2>1. /\ ObjectAddress(o) \in Nat /\ ObjectAddress(o) # FPAddr(Main)
        /\ \A j \in 2 .. depth : ObjectAddress(o) # calls[j].fp - 32
    BY ObjectWord, FrameWordApart, Running DEF ObjectAddress
  <2> QED BY <1>4, <2>1, StoreKeeps, FrameAssumption DEF StoreObject
<1>5. ASSUME NEW k \in 1 .. depth, NEW o \in 0 .. StackObjects[calls[k].f] - 1,
             NEW v \in Vals, StoreThroughPointer(k, o, v)
      PROVE  FrameInv'
  <2>1. /\ calls[k].fp + 32 * o \in Nat /\ calls[k].fp + 32 * o # FPAddr(Main)
        /\ \A j \in 2 .. depth : calls[k].fp + 32 * o # calls[j].fp - 32
    BY ObjectWord, FrameWordApart
  <2> QED BY <1>5, <2>1, StoreKeeps, FrameAssumption DEF StoreThroughPointer
<1>6. ASSUME NEW g \in 0 .. GlobalSlots[Cur] - 1, LoadGlobal(g)
      PROVE  FrameInv'
  BY <1>6, LoadKeeps, LoadType DEF LoadGlobal, FrameInv
<1>7. ASSUME NEW g \in 0 .. GlobalSlots[Cur] - 1, NEW v \in Vals, StoreGlobal(g, v)
      PROVE  FrameInv'
  <2>1. /\ 32 * g \in Nat /\ 32 * g # FPAddr(Main)
        /\ \A j \in 2 .. depth : 32 * g # calls[j].fp - 32
    BY GlobalApart, Running
  <2> QED BY <1>7, <2>1, StoreKeeps, FrameAssumption DEF StoreGlobal
<1>8. ASSUME NEW g \in Funcs \ {Main}, Call(g) PROVE FrameInv'
  BY <1>8, CallKeeps
<1>9. CASE Return
  BY <1>9, ReturnKeeps
<1>10. CASE UNCHANGED vars
  BY <1>10, LoadKeeps DEF vars, FrameInv, TypeOK
<1> QED
  BY <1>1, <1>2, <1>3, <1>4, <1>5, <1>6, <1>7, <1>8, <1>9, <1>10 DEF Next
-----------------------------------------------------------------------------
(* Under the convention every reachable state satisfies the invariant.     *)
LEMMA FramesAlways == ASSUME Convention PROVE Spec => []FrameInv
<1>1. Init => FrameInv BY InitFrames
<1>2. FrameInv /\ [Next]_vars => FrameInv' BY NextKeeps
<1> QED BY <1>1, <1>2, PTL DEF Spec

(* The call stack and memory stay well typed at every depth.               *)
THEOREM FrameTypes == ASSUME Convention PROVE Spec => []TypeOK
<1>1. FrameInv => TypeOK BY DEF FrameInv
<1> QED BY <1>1, FramesAlways, PTL

(* The frame pointer of the running activation survives every call,        *)
(* return and store.                                                       *)
THEOREM FramePointerSurvives == ASSUME Convention PROVE Spec => []FramePointerRestored
<1>1. FrameInv => FramePointerRestored BY DEF FrameInv
<1> QED BY <1>1, FramesAlways, PTL

(* No store reaches a saved frame pointer of an active call.               *)
THEOREM SavedPointersSurvive == ASSUME Convention PROVE Spec => []SavedPointersIntact
<1>1. FrameInv => SavedPointersIntact BY DEF FrameInv
<1> QED BY <1>1, FramesAlways, PTL

(* Frames of active calls never overlap.                                   *)
THEOREM FramesNeverOverlap == ASSUME Convention PROVE Spec => []FramesDisjoint
<1>1. FrameInv => FramesDisjoint BY DEF FrameInv
<1> QED BY <1>1, FramesAlways, PTL
-----------------------------------------------------------------------------
(* The abstract state the memory stands for.                               *)
AbsRunning == [k \in 1 .. depth |-> calls[k].f]
AbsPrivate == [k \in 1 .. depth |->
               [w \in 0 .. WordsOf(calls[k].f) - 1 |-> MLoad(calls[k].fp + 32 * w)]]
AbsGlobals == [g \in 0 .. GlobalSlots[Main] - 1 |-> MLoad(32 * g)]
AbsWords == [f \in Funcs |-> WordsOf(f)]

AbsAfterStore(k, w, v) ==
  [j \in 1 .. depth |->
     [u \in 0 .. AbsWords[AbsRunning[j]] - 1 |->
        IF j = k /\ u = w THEN v ELSE AbsPrivate[j][u]]]

(* A store to a word of an active frame is a store to that word of that    *)
(* activation, and to nothing else.                                        *)
LEMMA StoreIsAssignment ==
  ASSUME Convention, FrameInv,
         NEW k \in 1 .. depth, NEW w \in 0 .. WordsOf(calls[k].f) - 1, NEW v,
         mem' = Written(mem, calls[k].fp + 32 * w, v), UNCHANGED <<depth, calls>>
  PROVE  /\ AbsPrivate' = AbsAfterStore(k, w, v)
         /\ AbsRunning' = AbsRunning /\ AbsGlobals' = AbsGlobals
<1>1. \A b : MLoad(b)' = IF b = calls[k].fp + 32 * w THEN v ELSE MLoad(b)
  BY ReadWritten
<1>2. \A j \in 1 .. depth :
        /\ AbsRunning[j] = calls[j].f /\ AbsWords[AbsRunning[j]] = WordsOf(calls[j].f)
        /\ \A u \in 0 .. WordsOf(calls[j].f) - 1 :
             AbsPrivate[j][u] = MLoad(calls[j].fp + 32 * u)
  BY DEF FrameInv, TypeOK, AbsRunning, AbsPrivate, AbsWords
<1>3. \A j \in 1 .. depth : \A u \in 0 .. WordsOf(calls[j].f) - 1 :
        MLoad(calls[j].fp + 32 * u)'
          = IF j = k /\ u = w THEN v ELSE MLoad(calls[j].fp + 32 * u)
  BY <1>1, FrameWordApart
<1>4. AbsPrivate' = [j \in 1 .. depth |->
                    [u \in 0 .. WordsOf(calls[j].f) - 1 |->
                       MLoad(calls[j].fp + 32 * u)']]
  BY DEF AbsPrivate, WordsOf
<1>5. \A g \in 0 .. GlobalSlots[Main] - 1 : MLoad(32 * g)' = MLoad(32 * g)
  BY <1>1, FrameWordApart
<1>6. AbsGlobals' = [g \in 0 .. GlobalSlots[Main] - 1 |-> MLoad(32 * g)']
  BY DEF AbsGlobals
<1>7. AbsGlobals' = AbsGlobals BY <1>5, <1>6 DEF AbsGlobals
<1>8. AbsRunning' = AbsRunning BY DEF AbsRunning
<1> QED BY <1>2, <1>3, <1>4, <1>7, <1>8 DEF AbsAfterStore

(* The same as a step of the abstract specification.                       *)
LEMMA AbstractStore ==
  ASSUME Convention, FrameInv,
         NEW k \in 1 .. depth, NEW w \in 0 .. WordsOf(calls[k].f) - 1, NEW v \in Vals,
         mem' = Written(mem, calls[k].fp + 32 * w, v),
         UNCHANGED <<depth, calls, got>>,
         k = depth \/ w \in 0 .. StackObjects[calls[k].f] - 1
  PROVE  Act!Next
<1>1. Act!Assigned(k, w, v)
  <2>1. AbsPrivate' = AbsAfterStore(k, w, v)
    BY StoreIsAssignment
  <2> QED BY <2>1, Zenon DEF Act!Assigned, AbsAfterStore, AbsPrivate, AbsRunning, AbsWords
<1>2. UNCHANGED <<depth, AbsRunning, AbsGlobals, got>>
  BY StoreIsAssignment
<1>3. AbsRunning[k] = calls[k].f /\ AbsWords[AbsRunning[k]] = WordsOf(calls[k].f)
  BY DEF FrameInv, TypeOK, AbsRunning, AbsWords
<1>4. CASE k = depth
  <2>1. Act!Store
    BY <1>1, <1>2, <1>3, <1>4 DEF Act!Store, AbsRunning, AbsGlobals, AbsWords
  <2> QED BY <2>1 DEF Act!Next
<1>5. CASE w \in 0 .. StackObjects[calls[k].f] - 1
  <2>1. Act!StoreThroughPointer
    BY <1>1, <1>2, <1>3, <1>5 DEF Act!StoreThroughPointer, AbsRunning, AbsGlobals
  <2> QED BY <2>1 DEF Act!Next
<1> QED BY <1>4, <1>5

(* A load from a word of the running activation.                           *)
LEMMA AbstractLoad ==
  ASSUME Convention, FrameInv, NEW w \in 0 .. WordsOf(calls[depth].f) - 1,
         got' = MLoad(calls[depth].fp + 32 * w), UNCHANGED <<mem, depth, calls>>
  PROVE  Act!Next
<1>1. depth \in 1 .. depth /\ calls[depth].f \in Funcs
  BY Running
<1>2. /\ AbsRunning[depth] = calls[depth].f
      /\ AbsWords[AbsRunning[depth]] = WordsOf(calls[depth].f)
      /\ AbsPrivate[depth][w] = MLoad(calls[depth].fp + 32 * w)
  BY <1>1 DEF AbsRunning, AbsWords, AbsPrivate
<1>3. UNCHANGED <<depth, AbsRunning, AbsPrivate, AbsGlobals>>
  BY DEF AbsRunning, AbsPrivate, AbsGlobals, MLoad, WordsOf
<1>4. Act!Load
  BY <1>2, <1>3 DEF Act!Load, AbsRunning, AbsPrivate, AbsGlobals, AbsWords
<1> QED BY <1>4 DEF Act!Next

LEMMA AbstractStoreGlobal ==
  ASSUME Convention, FrameInv, NEW g \in 0 .. GlobalSlots[Main] - 1, NEW v \in Vals,
         StoreGlobal(g, v)
  PROVE  Act!Next
<1>1. mem' = Written(mem, 32 * g, v) /\ UNCHANGED <<depth, calls, got>>
  BY DEF StoreGlobal
<1>2. \A b : MLoad(b)' = IF b = 32 * g THEN v ELSE MLoad(b)
  BY <1>1, ReadWritten
<1>3. \A j \in 1 .. depth : \A u \in 0 .. WordsOf(calls[j].f) - 1 :
        MLoad(calls[j].fp + 32 * u)' = MLoad(calls[j].fp + 32 * u)
  BY <1>1, <1>2, FrameWordApart
<1>4. AbsPrivate' = [j \in 1 .. depth |->
                      [u \in 0 .. WordsOf(calls[j].f) - 1 |->
                         MLoad(calls[j].fp + 32 * u)']]
  BY <1>1 DEF AbsPrivate, WordsOf
<1>5. AbsPrivate' = AbsPrivate
  BY <1>3, <1>4 DEF AbsPrivate
<1>6. \A h \in 0 .. GlobalSlots[Main] - 1 :
        MLoad(32 * h)' = IF h = g THEN v ELSE MLoad(32 * h)
  BY <1>2, FrameAssumption
<1>7. /\ AbsGlobals' = [h \in 0 .. GlobalSlots[Main] - 1 |-> MLoad(32 * h)']
      /\ \A h \in 0 .. GlobalSlots[Main] - 1 : AbsGlobals[h] = MLoad(32 * h)
  BY DEF AbsGlobals
<1>8. AbsGlobals' = [h \in 0 .. GlobalSlots[Main] - 1 |->
                      IF h = g THEN v ELSE AbsGlobals[h]]
  BY <1>6, <1>7
<1>9. AbsRunning' = AbsRunning
  BY <1>1 DEF AbsRunning
<1>10. Act!StoreGlobal
  BY <1>1, <1>5, <1>8, <1>9 DEF Act!StoreGlobal, AbsRunning, AbsPrivate, AbsGlobals
<1> QED BY <1>10 DEF Act!Next

LEMMA AbstractLoadGlobal ==
  ASSUME Convention, FrameInv, NEW g \in 0 .. GlobalSlots[Main] - 1, LoadGlobal(g)
  PROVE  Act!Next
<1>1. got' = MLoad(32 * g) /\ UNCHANGED <<mem, depth, calls>>
  BY DEF LoadGlobal
<1>2. UNCHANGED <<depth, AbsRunning, AbsPrivate, AbsGlobals>>
  BY <1>1 DEF AbsRunning, AbsPrivate, AbsGlobals, MLoad, WordsOf
<1>3. AbsGlobals[g] = MLoad(32 * g)
  BY DEF AbsGlobals
<1>4. Act!LoadGlobal
  BY <1>1, <1>2, <1>3 DEF Act!LoadGlobal, AbsRunning, AbsPrivate, AbsGlobals
<1> QED BY <1>4 DEF Act!Next

(* The words of the caller survive the three stores of the call sequence.  *)
LEMMA AbstractCall ==
  ASSUME Convention, FrameInv, NEW g \in Funcs \ {Main}, Call(g)
  PROVE  Act!Next
<1> DEFINE new == FP + 32 * (SaveIndex(Cur) + 1)
<1>1. /\ depth \in Nat /\ depth \in 1 .. depth
      /\ FP = calls[depth].fp /\ FP \in Nat /\ Cur = calls[depth].f
      /\ FPAddr(Cur) = FPAddr(Main) /\ SPAddr(Cur) = SPAddr(Main)
      /\ SaveIndex(Cur) \in Nat
  BY Running
<1>2. /\ depth' = depth + 1
      /\ calls' = [k \in 1 .. depth + 1 |->
                     IF k <= depth THEN calls[k] ELSE [f |-> g, fp |-> new]]
      /\ got' = got
      /\ mem' = Written(Written(Written(mem, FP + 32 * SaveIndex(Cur), FP),
                               FPAddr(Cur), new), SPAddr(Cur), new)
  BY DEF Call, NewFP
<1>3. \A d : MLoad(d)' = IF d = SPAddr(Main) THEN new
                         ELSE IF d = FPAddr(Main) THEN new
                         ELSE IF d = FP + 32 * SaveIndex(Cur) THEN FP ELSE MLoad(d)
  BY <1>1, <1>2, ReadWrittenThrice
<1>4. \A k \in 1 .. depth : k \in 1 .. depth + 1 /\ calls'[k] = calls[k]
  BY <1>1, <1>2
<1>5. \A k \in 1 .. depth :
        /\ calls[k].fp \in Nat /\ SaveIndex(calls[k].f) \in Nat
        /\ WordsOf(calls[k].f) = SaveIndex(calls[k].f)
  BY Sizes DEF FrameInv, TypeOK
<1> HIDE DEF new
<1>6. ASSUME NEW k \in 1 .. depth, NEW w \in 0 .. WordsOf(calls[k].f) - 1
      PROVE  MLoad(calls[k].fp + 32 * w)' = MLoad(calls[k].fp + 32 * w)
  <2>1. calls[k].fp + 32 * w # FPAddr(Main) /\ calls[k].fp + 32 * w # SPAddr(Main)
    BY FrameWordApart
  <2>2. calls[k].fp + 32 * w # FP + 32 * SaveIndex(Cur)
    <3>1. CASE k = depth BY <3>1, <1>1, <1>5
    <3>2. CASE k < depth
      <4>1. calls[k].fp + 32 * (SaveIndex(calls[k].f) + 1) <= FP
        BY <3>2, <1>1 DEF FrameInv, FramesDisjoint
      <4> QED BY <4>1, <1>1, <1>5
    <3> QED BY <3>1, <3>2, <1>1
  <2> QED BY <2>1, <2>2, <1>3, <1>4
<1>7. AbsPrivate' = [k \in 1 .. depth + 1 |->
                      [w \in 0 .. WordsOf(calls'[k].f) - 1 |->
                         MLoad(calls[k].fp + 32 * w)']]
  BY <1>2 DEF AbsPrivate, WordsOf
<1>8. \A k \in 1 .. depth : AbsPrivate'[k] = AbsPrivate[k]
  BY <1>4, <1>6, <1>7 DEF AbsPrivate
<1>9. DOMAIN AbsPrivate' = 1 .. depth + 1
  BY <1>7
<1>10. AbsRunning' = [k \in 1 .. depth + 1 |->
                       IF k <= depth THEN AbsRunning[k] ELSE g]
  <2>1. \A k \in 1 .. depth + 1 :
          calls'[k].f = IF k <= depth THEN AbsRunning[k] ELSE g
    BY <1>1, <1>2 DEF AbsRunning
  <2> QED BY <2>1, <1>2 DEF AbsRunning
<1>11. AbsGlobals' = AbsGlobals
  <2>1. \A h \in 0 .. GlobalSlots[Main] - 1 : MLoad(32 * h)' = MLoad(32 * h)
    <3> SUFFICES ASSUME NEW h \in 0 .. GlobalSlots[Main] - 1
                 PROVE  MLoad(32 * h)' = MLoad(32 * h)
      OBVIOUS
    <3>1. FP >= SPAddr(Main) + 32 /\ FPAddr(Main) \in Nat
          /\ FPAddr(Main) = 32 * GlobalSlots[Main]
          /\ SPAddr(Main) = FPAddr(Main) + 32 /\ GlobalSlots[Main] \in Nat
      BY <1>1, Sizes, FrameAssumption DEF FPAddr, FrameInv, FramesDisjoint
    <3>2. 32 * h # FP + 32 * SaveIndex(Cur)
      BY <3>1, <1>1
    <3> QED BY <3>2, <1>3, GlobalApart
  <2>2. AbsGlobals' = [h \in 0 .. GlobalSlots[Main] - 1 |-> MLoad(32 * h)']
    BY DEF AbsGlobals
  <2> QED BY <2>1, <2>2 DEF AbsGlobals
<1>12. Act!Call
  BY <1>2, <1>8, <1>9, <1>10, <1>11, Zenon
     DEF Act!Call, AbsRunning, AbsPrivate, AbsGlobals
<1> QED BY <1>12 DEF Act!Next

LEMMA AbstractReturn ==
  ASSUME Convention, FrameInv, Return
  PROVE  Act!Next
<1>1. /\ depth \in Nat /\ depth > 1 /\ depth' = depth - 1 /\ got' = got
      /\ calls' = [k \in 1 .. depth - 1 |-> calls[k]]
      /\ mem' = Written(mem, FPAddr(Main), calls[depth - 1].fp)
  BY ReturnReads
<1>2. \A d : MLoad(d)' = IF d = FPAddr(Main) THEN calls[depth - 1].fp ELSE MLoad(d)
  BY <1>1, ReadWritten
<1>3. \A k \in 1 .. depth - 1 : k \in 1 .. depth /\ calls'[k] = calls[k]
  BY <1>1
<1>4. ASSUME NEW k \in 1 .. depth - 1, NEW w \in 0 .. WordsOf(calls[k].f) - 1
      PROVE  MLoad(calls[k].fp + 32 * w)' = MLoad(calls[k].fp + 32 * w)
  <2>1. calls[k].fp + 32 * w # FPAddr(Main)
    BY <1>3, FrameWordApart
  <2> QED BY <2>1, <1>2, <1>3
<1>5. AbsPrivate' = [k \in 1 .. depth - 1 |->
                      [w \in 0 .. WordsOf(calls'[k].f) - 1 |->
                         MLoad(calls[k].fp + 32 * w)']]
  BY <1>1 DEF AbsPrivate, WordsOf
<1>6. AbsPrivate' = [k \in 1 .. depth - 1 |-> AbsPrivate[k]]
  BY <1>3, <1>4, <1>5 DEF AbsPrivate
<1>7. AbsRunning' = [k \in 1 .. depth - 1 |-> AbsRunning[k]]
  BY <1>1, <1>3 DEF AbsRunning
<1>8. AbsGlobals' = AbsGlobals
  <2>1. \A h \in 0 .. GlobalSlots[Main] - 1 : MLoad(32 * h)' = MLoad(32 * h)
    BY <1>2, GlobalApart
  <2>2. AbsGlobals' = [h \in 0 .. GlobalSlots[Main] - 1 |-> MLoad(32 * h)']
    BY DEF AbsGlobals
  <2> QED BY <2>1, <2>2 DEF AbsGlobals
<1>9. Act!Return
  BY <1>1, <1>6, <1>7, <1>8, Zenon
     DEF Act!Return, AbsRunning, AbsPrivate, AbsGlobals
<1> QED BY <1>9 DEF Act!Next

LEMMA AbstractInit == ASSUME Init PROVE Act!Init
<1>1. depth = 1 /\ 1 .. 1 = {1} /\ calls[1].f = Main /\ got = 0
  BY DEF Init
<1> QED BY <1>1 DEF Act!Init

LEMMA AbstractStep ==
  ASSUME Convention, FrameInv, [Next]_vars
  PROVE  [Act!Next]_(Act!avars)
<1>0. /\ depth \in 1 .. depth /\ Cur = calls[depth].f /\ FP = calls[depth].fp
      /\ GlobalSlots[Cur] = GlobalSlots[Main]
  BY Running
<1>1. ASSUME NEW slot \in 0 .. memoryFrameSize[Cur], GetLocal(slot)
      PROVE  Act!Next
  BY <1>1, SlotWord, AbstractLoad DEF GetLocal
<1>2. ASSUME NEW slot \in 0 .. memoryFrameSize[Cur], NEW v \in Vals,
             PutLocal(slot, v)
      PROVE  Act!Next
  BY <1>0, <1>2, SlotWord, AbstractStore DEF PutLocal
<1>3. ASSUME NEW o \in 0 .. StackObjects[Cur] - 1, LoadObject(o)
      PROVE  Act!Next
  BY <1>0, <1>3, ObjectWord, AbstractLoad DEF LoadObject, ObjectAddress
<1>4. ASSUME NEW o \in 0 .. StackObjects[Cur] - 1, NEW v \in Vals,
             StoreObject(o, v)
      PROVE  Act!Next
  BY <1>0, <1>4, ObjectWord, AbstractStore DEF StoreObject, ObjectAddress
<1>5. ASSUME NEW k \in 1 .. depth, NEW o \in 0 .. StackObjects[calls[k].f] - 1,
             NEW v \in Vals, StoreThroughPointer(k, o, v)
      PROVE  Act!Next
  BY <1>5, ObjectWord, AbstractStore DEF StoreThroughPointer
<1>6. ASSUME NEW g \in 0 .. GlobalSlots[Cur] - 1, LoadGlobal(g)
      PROVE  Act!Next
  BY <1>0, <1>6, AbstractLoadGlobal
<1>7. ASSUME NEW g \in 0 .. GlobalSlots[Cur] - 1, NEW v \in Vals, StoreGlobal(g, v)
      PROVE  Act!Next
  BY <1>0, <1>7, AbstractStoreGlobal
<1>8. ASSUME NEW g \in Funcs \ {Main}, Call(g) PROVE Act!Next
  BY <1>8, AbstractCall
<1>9. CASE Return
  BY <1>9, AbstractReturn
<1>10. ASSUME UNCHANGED vars PROVE UNCHANGED Act!avars
  BY <1>10 DEF vars, Act!avars, MLoad, WordsOf
<1> QED
  BY <1>1, <1>2, <1>3, <1>4, <1>5, <1>6, <1>7, <1>8, <1>9, <1>10 DEF Next

(* Flat memory with one movable frame pointer implements private words for *)
(* every activation, whatever the functions, their frames and the depth.   *)
THEOREM FramesImplementActivations ==
  ASSUME Convention PROVE Spec => ImplementsActivations
<1>1. Init => Act!Init BY AbstractInit
<1>2. FrameInv /\ [Next]_vars => [Act!Next]_(Act!avars) BY AbstractStep
<1>3. Spec => []FrameInv BY FramesAlways
<1> QED BY <1>1, <1>2, <1>3, PTL DEF Spec, ImplementsActivations, Act!Spec
=============================================================================
