------------------------------ MODULE CallFrames ------------------------------
(***************************************************************************)
(* Frames in EVM memory.  Every function addresses its words relative to a *)
(* frame pointer kept in a memory word behind the global variables; the    *)
(* call sequence of EVMConvertRegToStack saves it in the caller's frame    *)
(* and moves it, and puts it back when the callee has jumped back.         *)
(* Addresses are bytes, every object is one or more words of 32 bytes.     *)
(***************************************************************************)
EXTENDS Naturals

CONSTANTS
  Funcs, Main,       \* the functions, and the one the program starts in
  memoryFrameSize,   \* function -> number of memory slots
  StackObjects,      \* function -> words of stack objects (getStackSize() / 32)
  GlobalSlots,       \* function -> globals met when the function was compiled
  EntryFP,           \* the frame pointer left in memory by the entry code
  Vals,              \* what the program stores
  MaxDepth           \* a bound on the number of active calls

ASSUME FrameAssumption ==
  /\ Main \in Funcs
  /\ memoryFrameSize \in [Funcs -> Nat]
  /\ StackObjects \in [Funcs -> Nat]
  /\ GlobalSlots \in [Funcs -> Nat]
  /\ EntryFP \in Nat
  /\ Vals \subseteq Nat
  /\ MaxDepth \in Nat

VARIABLES
  mem,     \* address of a memory word -> contents, for the words written
  depth,   \* the number of active calls
  calls,   \* 1 .. depth -> the function and, as history, its frame pointer
  got      \* the last value loaded

vars == <<mem, depth, calls, got>>

(* Memory never written reads as 0.                                        *)
MLoad(a) == IF a \in DOMAIN mem THEN mem[a] ELSE 0

Written(m, a, v) ==
  [b \in DOMAIN m \cup {a} |-> IF b = a THEN v ELSE m[b]]

Cur == calls[depth].f

(* getFramePointer, getStackPointer: the words behind the global slots     *)
(* allocated so far.                                                       *)
FPAddr(f) == 32 * GlobalSlots[f]
SPAddr(f) == FPAddr(f) + 32

FP == MLoad(FPAddr(Cur))

(* Mutant: one word less, the save slot is the last slot of the frame.     *)
NoImplicitSlot(f) == memoryFrameSize[f] + StackObjects[f]

(* "we implicitly allocate a slot at FP[lastIndex+1]"                      *)
SaveIndex(f) == memoryFrameSize[f] + StackObjects[f] + 1

(* The words of a frame the function itself uses: stack objects first,     *)
(* then the slots; index memoryFrameSize included, because the O0          *)
(* allocator records the last index instead of the number of slots.        *)
WordsOf(f) == StackObjects[f] + memoryFrameSize[f] + 1

Init ==
  /\ mem = [a \in {FPAddr(Main)} |-> EntryFP]
  /\ depth = 1
  /\ calls = [k \in {1} |-> [f |-> Main, fp |-> EntryFP]]
  /\ got = 0

(* expandLOCAL: slots come behind the stack objects.                       *)
LocalAddress(slot) == FP + 32 * (slot + StackObjects[Cur])

PutLocal(slot, v) ==
  /\ mem' = Written(mem, LocalAddress(slot), v)
  /\ UNCHANGED <<depth, calls, got>>

GetLocal(slot) ==
  /\ got' = MLoad(LocalAddress(slot))
  /\ UNCHANGED <<mem, depth, calls>>

(* eliminateFrameIndex: the stack grows upwards from the frame pointer.    *)
ObjectAddress(o) == FP + 32 * o

StoreObject(o, v) ==
  /\ mem' = Written(mem, ObjectAddress(o), v)
  /\ UNCHANGED <<depth, calls, got>>

LoadObject(o) ==
  /\ got' = MLoad(ObjectAddress(o))
  /\ UNCHANGED <<mem, depth, calls>>

(* A function may store through the address of a stack object that an      *)
(* active function has computed and passed on.                             *)
StoreThroughPointer(k, o, v) ==
  /\ mem' = Written(mem, calls[k].fp + 32 * o, v)
  /\ UNCHANGED <<depth, calls, got>>

StoreGlobal(g, v) ==
  /\ mem' = Written(mem, 32 * g, v)
  /\ UNCHANGED <<depth, calls, got>>

LoadGlobal(g) ==
  /\ got' = MLoad(32 * g)
  /\ UNCHANGED <<mem, depth, calls>>
-----------------------------------------------------------------------------
(* Mutant: the new frame starts at the save slot.                          *)
FrameAtSaveSlot(f) == FP + 32 * SaveIndex(f)

(* Mutant: a word is left free behind the save slot.                       *)
FrameOneTooFar(f) == FP + 32 * (SaveIndex(f) + 2)

NewFP(f) == FP + 32 * (SaveIndex(f) + 1)

(* The call sequence: the frame pointer is saved at FP[index], and         *)
(* FP[index + 1] becomes the frame pointer and the stack pointer.          *)
Call(g) ==
  /\ depth < MaxDepth
  /\ LET saved == Written(mem, FP + 32 * SaveIndex(Cur), FP)
         moved == Written(saved, FPAddr(Cur), NewFP(Cur))
     IN  mem' = Written(moved, SPAddr(Cur), NewFP(Cur))
  /\ depth' = depth + 1
  /\ calls' = [k \in 1 .. depth + 1 |->
                 IF k <= depth THEN calls[k] ELSE [f |-> g, fp |-> NewFP(Cur)]]
  /\ UNCHANGED got

(* Mutant: the word the callee's frame starts with is taken.               *)
RestoreFromFrame(f) == Written(mem, FPAddr(f), MLoad(MLoad(FPAddr(f))))

(* The code behind the call, executed by the caller: the word below the    *)
(* callee's frame goes back into the frame pointer.                        *)
Restored(f) == Written(mem, FPAddr(f), MLoad(MLoad(FPAddr(f)) - 32))

(* Mutant: the program's entry function returns like any other.            *)
ReturnFromAny ==
  /\ depth' = depth - 1
  /\ mem' = IF depth > 1 THEN Restored(calls[depth - 1].f) ELSE mem
  /\ calls' = [k \in 1 .. depth - 1 |-> calls[k]]
  /\ UNCHANGED got

(* The entry function has no return address and ends the program instead.  *)
Return ==
  /\ depth > 1
  /\ depth' = depth - 1
  /\ mem' = Restored(calls[depth - 1].f)
  /\ calls' = [k \in 1 .. depth - 1 |-> calls[k]]
  /\ UNCHANGED got

Next ==
  \/ \E slot \in 0 .. memoryFrameSize[Cur] :
       GetLocal(slot) \/ \E v \in Vals : PutLocal(slot, v)
  \/ \E o \in 0 .. StackObjects[Cur] - 1 :
       LoadObject(o) \/ \E v \in Vals : StoreObject(o, v)
  \/ \E k \in 1 .. depth : \E o \in 0 .. StackObjects[calls[k].f] - 1, v \in Vals :
       StoreThroughPointer(k, o, v)
  \/ \E g \in 0 .. GlobalSlots[Cur] - 1 :
       LoadGlobal(g) \/ \E v \in Vals : StoreGlobal(g, v)
  \/ \E g \in Funcs \ {Main} : Call(g)
  \/ Return

Spec == Init /\ [][Next]_vars
-----------------------------------------------------------------------------
(* What the back end relies on without establishing it: all functions were *)
(* compiled with the same number of global slots, so that they agree where *)
(* the frame pointer is ...                                                *)
OneFramePointer == \A f \in Funcs : GlobalSlots[f] = GlobalSlots[Main]

(* ... and the entry code has put it behind the two pointer words.         *)
EntryAboveCells == EntryFP >= SPAddr(Main) + 32

TypeOK ==
  /\ depth \in Nat \ {0}
  /\ DOMAIN calls = 1 .. depth
  /\ \A k \in 1 .. depth : calls[k].f \in Funcs /\ calls[k].fp \in Nat
  /\ calls[1].f = Main
  /\ \A a \in DOMAIN mem : a \in Nat /\ mem[a] \in Nat
  /\ got \in Nat

(* Whatever is called, stored and passed around, the frame pointer word    *)
(* holds the frame of the running activation: a return brings back the     *)
(* caller's own one, however deep the calls in between went.               *)
FramePointerRestored == FP = calls[depth].fp

(* The word below a frame holds the caller's frame pointer as long as the  *)
(* call is active: neither the slots of the caller nor those of the        *)
(* functions called, nor a store through a pointer, reach it.              *)
SavedPointersIntact ==
  \A k \in 2 .. depth : MLoad(calls[k].fp - 32) = calls[k - 1].fp

(* The frames of active calls, each with its save slot, do not overlap:    *)
(* they lie one behind the other in the order of the calls, and all of     *)
(* them behind the pointer words and the globals.                          *)
FramesDisjoint ==
  /\ \A k \in 1 .. depth : calls[k].fp >= SPAddr(Main) + 32
  /\ \A i, j \in 1 .. depth :
       i < j => calls[i].fp + 32 * (SaveIndex(calls[i].f) + 1) <= calls[j].fp

(* Flat memory with one movable frame pointer implements private words for *)
(* every activation.                                                       *)
Act == INSTANCE Activations WITH
  Words <- [f \in Funcs |-> WordsOf(f)],
  Objects <- StackObjects,
  Globals <- GlobalSlots[Main],
  running <- [k \in 1 .. depth |-> calls[k].f],
  private <- [k \in 1 .. depth |->
                [w \in 0 .. WordsOf(calls[k].f) - 1 |-> MLoad(calls[k].fp + 32 * w)]],
  globals <- [g \in 0 .. GlobalSlots[Main] - 1 |-> MLoad(32 * g)]
ImplementsActivations == Act!Spec
=============================================================================
