---------------------------- MODULE MCCallFrames ----------------------------
(* Three functions with frames of different shapes: only slots, only a     *)
(* stack object, both.                                                     *)
EXTENDS CallFrames

MCFuncs == {"main", "f", "g"}
FrameSizes == [f \in MCFuncs |-> IF f = "f" THEN 0 ELSE 1]
ObjectWords == [f \in MCFuncs |-> IF f = "main" THEN 0 ELSE 1]

(* The entry code of the runtime tests stores 128 at address 64: the frame *)
(* pointer of a module with two globals.                                   *)
TwoGlobals == [f \in MCFuncs |-> 2]
=============================================================================
