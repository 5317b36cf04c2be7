----------------------------- MODULE Activations -----------------------------
(***************************************************************************)
(* What calls promise: every activation of a function has words of its     *)
(* own, which keep their values until the activation itself, or a function *)
(* it has handed the address of a stack object to, stores to them.  The    *)
(* words of a new activation hold anything.  Functions share the globals.  *)
(***************************************************************************)
EXTENDS Naturals

CONSTANTS
  Funcs, Main,   \* the functions, and the one the program starts in
  Objects,       \* function -> how many of its words are stack objects
  Words,         \* function -> how many words an activation of it has
  Globals,       \* how many global variables there are
  Vals           \* what the program stores

VARIABLES
  depth,     \* the number of active calls
  running,   \* 1 .. depth -> function
  private,   \* 1 .. depth -> contents of the activation's words
  globals,   \* contents of the global variables
  got        \* the last value loaded

avars == <<depth, running, private, globals, got>>

Init ==
  /\ depth = 1
  /\ running = [k \in {1} |-> Main]
  /\ DOMAIN private = {1}
  /\ DOMAIN globals = 0 .. Globals - 1
  /\ got = 0

(* Activation k stores to its word w, or has it stored to through a        *)
(* pointer.                                                                *)
Assigned(k, w, v) ==
  private' = [j \in 1 .. depth |->
                [u \in 0 .. Words[running[j]] - 1 |->
                   IF j = k /\ u = w THEN v ELSE private[j][u]]]

Store ==
  /\ \E w \in 0 .. Words[running[depth]] - 1, v \in Vals : Assigned(depth, w, v)
  /\ UNCHANGED <<depth, running, globals, got>>

StoreThroughPointer ==
  /\ \E k \in 1 .. depth : \E o \in 0 .. Objects[running[k]] - 1, v \in Vals :
       Assigned(k, o, v)
  /\ UNCHANGED <<depth, running, globals, got>>

Load ==
  /\ \E w \in 0 .. Words[running[depth]] - 1 : got' = private[depth][w]
  /\ UNCHANGED <<depth, running, private, globals>>

StoreGlobal ==
  /\ \E g \in 0 .. Globals - 1, v \in Vals :
       globals' = [h \in 0 .. Globals - 1 |-> IF h = g THEN v ELSE globals[h]]
  /\ UNCHANGED <<depth, running, private, got>>

LoadGlobal ==
  /\ \E g \in 0 .. Globals - 1 : got' = globals[g]
  /\ UNCHANGED <<depth, running, private, globals>>

Call ==
  /\ depth' = depth + 1
  /\ \E g \in Funcs \ {Main} :
       running' = [k \in 1 .. depth + 1 |-> IF k <= depth THEN running[k] ELSE g]
  /\ DOMAIN private' = 1 .. depth + 1
  /\ \A k \in 1 .. depth : private'[k] = private[k]
  /\ UNCHANGED <<globals, got>>

Return ==
  /\ depth > 1
  /\ depth' = depth - 1
  /\ running' = [k \in 1 .. depth - 1 |-> running[k]]
  /\ private' = [k \in 1 .. depth - 1 |-> private[k]]
  /\ UNCHANGED <<globals, got>>

Next ==
  \/ Store \/ StoreThroughPointer \/ Load
  \/ StoreGlobal \/ LoadGlobal
  \/ Call \/ Return

Spec == Init /\ [][Next]_avars
=============================================================================
