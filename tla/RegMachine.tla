----------------------------- MODULE RegMachine -----------------------------
(***************************************************************************)
(* What compiled code has to compute: the machine function run on a        *)
(* machine with registers.  An instruction receives the current values of  *)
(* the registers it uses, in operand order (anything for a register that   *)
(* has no value on the path taken), and gives the register it defines a    *)
(* value of its own; at the end of a block control goes to one of the      *)
(* successors.  The values are abstract: the clock tells every definition  *)
(* executed from every other one.                                          *)
(***************************************************************************)
EXTENDS Naturals, Sequences

CONSTANTS NoReg

VARIABLES
  fn,         \* the machine function
  blk, idx,   \* the instruction to execute; block 0 before the start
  regs,       \* register -> value
  operands,   \* what the last instruction received
  clock       \* the last value made

rvars == <<fn, blk, idx, regs, operands, clock>>

Init ==
  /\ blk = 0 /\ idx = 1
  /\ regs = [r \in {} |-> 0]
  /\ operands = << >>
  /\ clock = 0

(* Another function is compiled before anything is run.                    *)
Load ==
  /\ blk = 0
  /\ fn' # fn
  /\ UNCHANGED <<blk, idx, regs, operands, clock>>

Start ==
  /\ blk = 0
  /\ blk' = 1
  /\ regs' = [r \in { fn.args[i] : i \in DOMAIN fn.args } |->
                CHOOSE i \in DOMAIN fn.args : fn.args[i] = r]
  /\ clock' = Len(fn.args)
  /\ UNCHANGED <<fn, idx, operands>>

Execute ==
  /\ blk # 0
  /\ idx \in DOMAIN fn.code[blk]
  /\ LET in == fn.code[blk][idx]
     IN  /\ DOMAIN operands' = DOMAIN in.uses
         /\ \A i \in DOMAIN in.uses :
              in.uses[i] \in DOMAIN regs => operands'[i] = regs[in.uses[i]]
         /\ clock' = clock + 1
         /\ regs' = IF in.def = NoReg THEN regs
                    ELSE [r \in DOMAIN regs \cup {in.def} |->
                            IF r = in.def THEN clock + 1 ELSE regs[r]]
  /\ idx' = idx + 1
  /\ UNCHANGED <<fn, blk>>

Branch ==
  /\ blk # 0
  /\ idx > Len(fn.code[blk])
  /\ \E i \in DOMAIN fn.succs[blk] : blk' = fn.succs[blk][i]
  /\ idx' = 1
  /\ UNCHANGED <<fn, regs, operands, clock>>

Next == Load \/ Start \/ Execute \/ Branch

Spec == Init /\ [][Next]_rvars
=============================================================================
