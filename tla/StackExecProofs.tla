---------------------------- MODULE StackExecProofs ----------------------------
(***************************************************************************)
(* EVMStackAlloc on machine functions of any shape and size.               *)
(*                                                                         *)
(* The pass.  As long as none of the situations recorded in hazards is met,*)
(* the symbolic stack holds exactly the local registers that are used later*)
(* in the block, each once, and no assertion of the pass fails.            *)
(*                                                                         *)
(* The code.  What the pass emits for a block is followed on a machine of  *)
(* registers: its stack holds registers instead of values, and it knows    *)
(* which registers have their value in their slot.  In code emitted without*)
(* a hazard each instruction finds its operands on that stack, and a block *)
(* ends with the stack empty and every register needed later in its slot.  *)
(*                                                                         *)
(* The slots.  In a function in SSA form whose blocks are laid out in      *)
(* execution order, the layout a block takes up again is the one that a    *)
(* predecessor stored, and every register live into the block is in it.    *)
(*                                                                         *)
(* The machine.  The EVM that runs the code holds, at each place, the value*)
(* of each register the machine of registers holds there: the code         *)
(* implements the function.                                                *)
(***************************************************************************)
EXTENDS StackExec, AllocOpsProofs, FiniteSetTheorems, TLAPS

(* Where instructions, uses and definitions are.                           *)
LEMMA CodeType ==
  ASSUME NEW f, IsMachineFunction(f), NEW b \in Block(f)
  PROVE  /\ Len(f.code[b]) \in Nat /\ DOMAIN f.code[b] = 1 .. Len(f.code[b])
         /\ \A k \in 1 .. Len(f.code[b]) :
              /\ f.code[b][k].def \in Nat
              /\ f.code[b][k].uses \in Seq(Nat \ {NoReg})
<1> DEFINE R == [def : Nat, uses : Seq(Nat \ {NoReg})]
<1>1. f.code[b] \in Seq(R)
  BY DEF IsMachineFunction
<1>2. \A r \in R : r.def \in Nat /\ r.uses \in Seq(Nat \ {NoReg})
  OBVIOUS
<1> HIDE DEF R
<1>3. \A k \in 1 .. Len(f.code[b]) : f.code[b][k] \in R
  BY <1>1
<1>4. Len(f.code[b]) \in Nat /\ DOMAIN f.code[b] = 1 .. Len(f.code[b])
  BY <1>1
<1> QED BY <1>2, <1>3, <1>4

LEMMA SiteOf ==
  ASSUME NEW f, IsMachineFunction(f), NEW b \in Block(f), NEW k \in 1 .. Len(f.code[b])
  PROVE  <<b, 2 * k>> \in Sites(f) /\ InstrAt(f, <<b, 2 * k>>) = f.code[b][k]
<1>1. k \in DOMAIN f.code[b] /\ k \in Nat
  BY CodeType
<1>2. (2 * k) \div 2 = k
  BY <1>1
<1> QED BY <1>1, <1>2 DEF Sites, InstrAt

LEMMA SitesAre ==
  ASSUME NEW f, IsMachineFunction(f), NEW p \in Sites(f)
  PROVE  \E b \in Block(f) : \E k \in 1 .. Len(f.code[b]) : p = <<b, 2 * k>>
<1>1. PICK b \in Block(f) : p \in { <<b, 2 * k>> : k \in DOMAIN f.code[b] }
  BY DEF Sites
<1>2. DOMAIN f.code[b] = 1 .. Len(f.code[b])
  BY CodeType
<1> QED BY <1>1, <1>2

(* The uses of r are at the instructions that have it as an operand.       *)
LEMMA UseAt ==
  ASSUME NEW f, IsMachineFunction(f), NEW b \in Block(f), NEW k \in 1 .. Len(f.code[b]), NEW r
  PROVE  <<b, 2 * k>> \in UseSites(f, r) <=> r \in Elems(f.code[b][k].uses)
  BY SiteOf DEF UseSites

LEMMA UsesAre ==
  ASSUME NEW f, IsMachineFunction(f), NEW r, NEW u \in UseSites(f, r)
  PROVE  \E b \in Block(f) : \E k \in 1 .. Len(f.code[b]) :
           u = <<b, 2 * k>> /\ r \in Elems(f.code[b][k].uses)
<1>1. u \in Sites(f)
  BY DEF UseSites
<1>2. PICK b \in Block(f) : \E k \in 1 .. Len(f.code[b]) : u = <<b, 2 * k>>
  BY <1>1, SitesAre
<1>3. PICK k \in 1 .. Len(f.code[b]) : u = <<b, 2 * k>>
  BY <1>2
<1> QED BY <1>3, UseAt

LEMMA DefAt ==
  ASSUME NEW f, IsMachineFunction(f), NEW b \in Block(f), NEW k \in 1 .. Len(f.code[b]), NEW r
  PROVE  <<b, 2 * k>> \in DefSites(f, r) <=> f.code[b][k].def = r
<1>1. <<b, 2 * k>> # <<1, 0>>
  <2>1. k \in Nat /\ k # 0
    BY CodeType
  <2>2. 2 * k # 0
    BY <2>1
  <2> QED BY <2>2
<1> QED BY <1>1, SiteOf DEF DefSites

LEMMA DefsAre ==
  ASSUME NEW f, IsMachineFunction(f), NEW r, NEW d \in DefSites(f, r)
  PROVE  \/ d = <<1, 0>> /\ r \in Elems(f.args)
         \/ \E b \in Block(f) : \E k \in 1 .. Len(f.code[b]) :
              d = <<b, 2 * k>> /\ f.code[b][k].def = r
<1>1. CASE d \in Sites(f) /\ InstrAt(f, d).def = r
  <2>1. PICK b \in Block(f) : \E k \in 1 .. Len(f.code[b]) : d = <<b, 2 * k>>
    BY <1>1, SitesAre
  <2>2. PICK k \in 1 .. Len(f.code[b]) : d = <<b, 2 * k>>
    BY <2>1
  <2>3. f.code[b][k].def = r
    BY <1>1, <2>2, SiteOf
  <2> QED BY <2>2, <2>3
<1>2. CASE ~(d \in Sites(f) /\ InstrAt(f, d).def = r)
  BY <1>2 DEF DefSites
<1> QED BY <1>1, <1>2

IsFunction(f) == IsMachineFunction(f) /\ IsCFG(f)

(* A definition site is that of the arguments or of an instruction.        *)
DefShape(f, d, c, j) ==
  /\ c \in Block(f) /\ c \in Nat /\ c >= 1 /\ j \in 0 .. Len(f.code[c]) /\ j \in Nat
  /\ d = <<c, 2 * j>> /\ d[1] = c /\ d[2] = 2 * j
  /\ j = 0 => c = 1 /\ f.args # << >>

LEMMA DefShapes ==
  ASSUME NEW f, IsFunction(f), NEW r, NEW d \in DefSites(f, r)
  PROVE  \E c, j : DefShape(f, d, c, j)
<1>1. IsMachineFunction(f) /\ f.n \in Nat \ {0}
  BY DEF IsFunction, IsCFG
<1>2. CASE d = <<1, 0>> /\ r \in Elems(f.args)
  <2>1. 1 \in Block(f) /\ 2 * 0 = 0
    BY <1>1 DEF Block
  <2>2. Len(f.code[1]) \in Nat
    BY <1>1, <2>1, CodeType
  <2>3. 0 \in 0 .. Len(f.code[1])
    BY <2>2
  <2>4. f.args # << >>
    BY <1>2 DEF Elems
  <2>5. DefShape(f, d, 1, 0)
    BY <1>2, <2>1, <2>3, <2>4 DEF DefShape
  <2> QED BY <2>5
<1>3. CASE \E b \in Block(f) : \E k \in 1 .. Len(f.code[b]) : d = <<b, 2 * k>>
  <2>1. PICK b \in Block(f) : \E k \in 1 .. Len(f.code[b]) : d = <<b, 2 * k>>
    BY <1>3
  <2>2. PICK k \in 1 .. Len(f.code[b]) : d = <<b, 2 * k>>
    BY <2>1
  <2>3. Len(f.code[b]) \in Nat /\ b \in Nat /\ b >= 1
    BY <1>1, CodeType DEF Block
  <2>4. k \in 0 .. Len(f.code[b]) /\ k \in Nat /\ k # 0
    BY <2>3
  <2>5. DefShape(f, d, b, k)
    BY <2>2, <2>3, <2>4 DEF DefShape
  <2> QED BY <2>5
<1> QED BY <1>1, <1>2, <1>3, DefsAre

(* Uses are at instructions.                                               *)
UseShape(f, u, c, j) ==
  /\ c \in Block(f) /\ c \in Nat /\ c >= 1 /\ j \in 1 .. Len(f.code[c]) /\ j \in Nat /\ j >= 1
  /\ u = <<c, 2 * j>> /\ u[1] = c /\ u[2] = 2 * j

LEMMA UseShapes ==
  ASSUME NEW f, IsFunction(f), NEW r, NEW u \in UseSites(f, r)
  PROVE  \E c, j : UseShape(f, u, c, j)
<1>1. IsMachineFunction(f) /\ f.n \in Nat \ {0}
  BY DEF IsFunction, IsCFG
<1>2. PICK b \in Block(f) : \E k \in 1 .. Len(f.code[b]) : u = <<b, 2 * k>>
  BY <1>1, UsesAre
<1>3. PICK k \in 1 .. Len(f.code[b]) : u = <<b, 2 * k>>
  BY <1>2
<1>4. Len(f.code[b]) \in Nat /\ b \in Nat /\ b >= 1
  BY <1>1, CodeType DEF Block
<1>5. k \in Nat /\ k >= 1
  BY <1>4
<1>6. UseShape(f, u, b, k)
  BY <1>3, <1>4, <1>5 DEF UseShape
<1> QED BY <1>6

(* A register with a definition is one of the function's registers.        *)
LEMMA DefinedVReg ==
  ASSUME NEW f, IsFunction(f), NEW r \in Nat \ {NoReg}, DefSites(f, r) # {}
  PROVE  r \in VRegs(f)
<1>1. PICK d \in DefSites(f, r) : TRUE
  OBVIOUS
<1>2. (d \in Sites(f) /\ InstrAt(f, d).def = r) \/ r \in Elems(f.args)
  BY DEF DefSites
<1> QED BY <1>2 DEF VRegs

LEMMA VRegType ==
  ASSUME NEW f, IsFunction(f), NEW r \in VRegs(f)
  PROVE  r \in Nat \ {NoReg}
<1>1. IsMachineFunction(f)
  BY DEF IsFunction
<1>2. CASE r \in Elems(f.args)
  <2>1. f.args \in Seq(Nat \ {NoReg})
    BY <1>1 DEF IsMachineFunction
  <2> QED BY <1>2, <2>1 DEF Elems
<1>3. CASE \E p \in Sites(f) : r = InstrAt(f, p).def
  <2>1. PICK p \in Sites(f) : r = InstrAt(f, p).def
    BY <1>3
  <2>2. PICK b \in Block(f) : \E k \in 1 .. Len(f.code[b]) : p = <<b, 2 * k>>
    BY <1>1, SitesAre
  <2>3. PICK k \in 1 .. Len(f.code[b]) : p = <<b, 2 * k>>
    BY <2>2
  <2>4. InstrAt(f, p) = f.code[b][k]
    BY <1>1, <2>3, SiteOf
  <2>5. r \in Nat
    BY <1>1, <2>1, <2>4, CodeType
  <2> QED BY <2>5 DEF VRegs
<1> QED BY <1>2, <1>3 DEF VRegs
-----------------------------------------------------------------------------
(* What regAssignments says when the definitions before p were handled:    *)
(* the registers on the stack have a single definition and are used in its *)
(* block only, those without allocation are not used.                      *)
RegionOf(f, map, p, r) ==
  /\ map[r].region \in Region
  /\ map[r].region = "L_STACK" =>
       \E d \in DefSites(f, r) : DefIsLocal(f, r, d) /\ Before(d, p)
  /\ map[r].region = "NO_ALLOCATION" => UseSites(f, r) = {}

Handled(f, map, p) ==
  /\ DOMAIN map \subseteq VRegs(f)
  /\ \A r \in VRegs(f) : r \in DOMAIN map <=> \E d \in DefSites(f, r) : Before(d, p)
  /\ \A r \in DOMAIN map : RegionOf(f, map, p, r)

(* No definition is between p and q.                                       *)
SameDefs(f, p, q) ==
  \A r \in VRegs(f) : \A d \in DefSites(f, r) : Before(d, p) <=> Before(d, q)

LEMMA HandledSame ==
  ASSUME NEW f, NEW map, NEW p, NEW q, Handled(f, map, p), SameDefs(f, p, q)
  PROVE  Handled(f, map, q)
<1>1. DOMAIN map \subseteq VRegs(f)
  BY DEF Handled
<1>2. \A r \in VRegs(f) : r \in DOMAIN map <=> \E d \in DefSites(f, r) : Before(d, q)
  BY DEF Handled, SameDefs
<1>3. ASSUME NEW r \in DOMAIN map PROVE RegionOf(f, map, q, r)
  <2>1. RegionOf(f, map, p, r) /\ r \in VRegs(f)
    BY DEF Handled
  <2>2. \A d \in DefSites(f, r) : Before(d, p) <=> Before(d, q)
    BY <2>1 DEF SameDefs
  <2> QED BY <2>1, <2>2 DEF RegionOf
<1> QED BY <1>1, <1>2, <1>3 DEF Handled

(* A definition comes before what follows an instruction iff it comes      *)
(* before the instruction or is there.                                     *)
Around(d, b, k) ==
  /\ Before(d, <<b, 2 * k + 1>>) <=> (Before(d, <<b, 2 * k>>) \/ d = <<b, 2 * k>>)
  /\ Before(d, <<b, 2 * (k + 1)>>) <=> Before(d, <<b, 2 * k + 1>>)

LEMMA DefOrder ==
  ASSUME NEW f, IsFunction(f), NEW r, NEW d \in DefSites(f, r),
         NEW b \in Block(f), NEW k \in 1 .. Len(f.code[b])
  PROVE  Around(d, b, k)
<1>1. PICK c, j : DefShape(f, d, c, j)
  BY DefShapes
<1>2. b \in Nat /\ k \in Nat
  BY CodeType DEF Block, IsFunction, IsCFG
<1>3. c \in Nat /\ j \in Nat /\ d = <<c, 2 * j>> /\ d[1] = c /\ d[2] = 2 * j
  BY <1>1 DEF DefShape
<1>4. d = <<b, 2 * k>> <=> (c = b /\ j = k)
  BY <1>2, <1>3
<1>5. Before(d, <<b, 2 * k + 1>>) <=> (c < b \/ (c = b /\ 2 * j < 2 * k + 1))
  BY <1>3 DEF Before
<1>6. Before(d, <<b, 2 * k>>) <=> (c < b \/ (c = b /\ 2 * j < 2 * k))
  BY <1>3 DEF Before
<1>7. Before(d, <<b, 2 * (k + 1)>>) <=> (c < b \/ (c = b /\ 2 * j < 2 * (k + 1)))
  BY <1>3 DEF Before
<1>8. (2 * j < 2 * k + 1 <=> j <= k) /\ (2 * j < 2 * k <=> j < k) /\ (2 * j < 2 * (k + 1) <=> j <= k)
  BY <1>2, <1>3
<1>9. j <= k <=> (j < k \/ j = k)
  BY <1>2, <1>3
<1> QED BY <1>4, <1>5, <1>6, <1>7, <1>8, <1>9 DEF Around

(* From an instruction to the next, from the end of a block, or from an    *)
(* empty block, to the next block, and into a block other than the entry.  *)
LEMMA NextInstruction ==
  ASSUME NEW f, IsFunction(f), NEW b \in Block(f), NEW k \in 1 .. Len(f.code[b])
  PROVE  SameDefs(f, <<b, 2 * k + 1>>, <<b, 2 * (k + 1)>>)
<1>1. \A r \in VRegs(f) : \A d \in DefSites(f, r) : Around(d, b, k)
  BY DefOrder
<1> QED BY <1>1 DEF SameDefs, Around

LEMMA IntoNextBlock ==
  ASSUME NEW f, IsFunction(f), NEW b \in Block(f),
         NEW p, p = <<b, 2 * Len(f.code[b]) + 1>> \/ (f.code[b] = << >> /\ p = <<b, 0>>)
  PROVE  SameDefs(f, p, <<b + 1, 0>>)
<1> SUFFICES ASSUME NEW r \in VRegs(f), NEW d \in DefSites(f, r)
             PROVE  Before(d, p) <=> Before(d, <<b + 1, 0>>)
  BY DEF SameDefs
<1>1. PICK c, j : DefShape(f, d, c, j)
  BY DefShapes
<1>2. b \in Nat /\ Len(f.code[b]) \in Nat
  BY CodeType DEF Block, IsFunction, IsCFG
<1>3. c \in Nat /\ j \in Nat /\ d = <<c, 2 * j>> /\ d[1] = c /\ d[2] = 2 * j
  BY <1>1 DEF DefShape
<1>4. Before(d, <<b + 1, 0>>) <=> c <= b
  BY <1>2, <1>3 DEF Before
<1>5. CASE p = <<b, 2 * Len(f.code[b]) + 1>>
  <2>1. Before(d, p) <=> (c < b \/ (c = b /\ 2 * j < 2 * Len(f.code[b]) + 1))
    BY <1>3, <1>5 DEF Before
  <2>2. c = b => j <= Len(f.code[b])
    BY <1>1, <1>2 DEF DefShape
  <2> QED BY <1>2, <1>3, <1>4, <2>1, <2>2
<1>6. CASE f.code[b] = << >> /\ p = <<b, 0>>
  <2>1. c # b
    <3>1. SUFFICES ASSUME c = b PROVE FALSE
      OBVIOUS
    <3>2. j = 0
      BY <1>1, <1>6, <3>1 DEF DefShape
    <3>3. b = 1 /\ f.args # << >>
      BY <1>1, <3>1, <3>2 DEF DefShape
    <3> QED BY <1>6, <3>3 DEF IsFunction, IsMachineFunction
  <2>2. Before(d, p) <=> c < b
    BY <1>3, <1>6, <2>1 DEF Before
  <2> QED BY <1>2, <1>3, <1>4, <2>1, <2>2
<1> QED BY <1>5, <1>6

LEMMA IntoBlock ==
  ASSUME NEW f, IsFunction(f), NEW b \in Block(f), b # 1
  PROVE  SameDefs(f, <<b, 0>>, <<b, 2 * 1>>)
<1> SUFFICES ASSUME NEW r \in VRegs(f), NEW d \in DefSites(f, r)
             PROVE  Before(d, <<b, 0>>) <=> Before(d, <<b, 2 * 1>>)
  BY DEF SameDefs
<1>1. PICK c, j : DefShape(f, d, c, j)
  BY DefShapes
<1>2. b \in Nat
  BY DEF Block, IsFunction, IsCFG
<1>3. c \in Nat /\ j \in Nat /\ d = <<c, 2 * j>> /\ d[1] = c /\ d[2] = 2 * j /\ (j = 0 => c = 1)
  BY <1>1 DEF DefShape
<1>4. (Before(d, <<b, 0>>) <=> c < b \/ (c = b /\ 2 * j < 0))
      /\ (Before(d, <<b, 2 * 1>>) <=> c < b \/ (c = b /\ 2 * j < 2 * 1))
  BY <1>3 DEF Before
<1> QED BY <1>2, <1>3, <1>4

(* handleDef.                                                              *)
LEMMA HandledNoDef ==
  ASSUME NEW f, IsFunction(f), NEW b \in Block(f), NEW k \in 1 .. Len(f.code[b]),
         NEW map, Handled(f, map, <<b, 2 * k>>), f.code[b][k].def = NoReg
  PROVE  Handled(f, map, <<b, 2 * k + 1>>)
<1>1. IsMachineFunction(f)
  BY DEF IsFunction
<1>2. \A r \in VRegs(f) : <<b, 2 * k>> \notin DefSites(f, r)
  BY <1>1, DefAt DEF VRegs
<1>3. \A r \in VRegs(f) : \A d \in DefSites(f, r) : Around(d, b, k)
  BY DefOrder
<1>4. SameDefs(f, <<b, 2 * k>>, <<b, 2 * k + 1>>)
  BY <1>2, <1>3 DEF SameDefs, Around
<1> QED BY <1>4, HandledSame

LEMMA NewRegister ==
  ASSUME NEW f, IsFunction(f), NEW b \in Block(f), NEW k \in 1 .. Len(f.code[b]),
         NEW map, Handled(f, map, <<b, 2 * k>>), f.code[b][k].def # NoReg
  PROVE  /\ f.code[b][k].def \in VRegs(f) /\ f.code[b][k].def \in Nat \ {NoReg}
         /\ <<b, 2 * k>> \in DefSites(f, f.code[b][k].def)
         /\ \A d : DefSites(f, f.code[b][k].def) = {d} =>
                     d = <<b, 2 * k>> /\ f.code[b][k].def \notin DOMAIN map
<1> DEFINE r == f.code[b][k].def
           p == <<b, 2 * k>>
<1>1. IsMachineFunction(f)
  BY DEF IsFunction
<1>2. p \in DefSites(f, r) /\ r \in Nat \ {NoReg}
  BY <1>1, DefAt, CodeType
<1>3. r \in VRegs(f)
  BY <1>2, DefinedVReg
<1>4. ~Before(p, p)
  BY DEF Before, Block, IsFunction, IsCFG
<1>5. \A d : DefSites(f, r) = {d} => d = p /\ r \notin DOMAIN map
  BY <1>2, <1>3, <1>4 DEF Handled
<1> QED BY <1>2, <1>3, <1>5

(* The region of a register that handleDef gives one.                      *)
RegionFits(f, r, p, region) ==
  /\ region \in Region
  /\ region = "L_STACK" => DefIsLocal(f, r, p)
  /\ region = "NO_ALLOCATION" => UseSites(f, r) = {}

LEMMA HandledDef ==
  ASSUME NEW f, IsFunction(f), NEW b \in Block(f), NEW k \in 1 .. Len(f.code[b]),
         NEW map, Handled(f, map, <<b, 2 * k>>), NEW r, r = f.code[b][k].def, r # NoReg,
         NEW region, NEW slot, RegionFits(f, r, <<b, 2 * k>>, region)
  PROVE  Handled(f, Assign(map, r, region, slot), <<b, 2 * k + 1>>)
<1> DEFINE p == <<b, 2 * k>>
           q == <<b, 2 * k + 1>>
           new == Assign(map, r, region, slot)
<1>1. IsMachineFunction(f)
  BY DEF IsFunction
<1>2. r \in VRegs(f) /\ p \in DefSites(f, r)
  BY NewRegister
<1>3. ASSUME NEW t \in VRegs(f), NEW d \in DefSites(f, t)
      PROVE  Before(d, q) <=> Before(d, p) \/ d = p
  <2>1. Around(d, b, k)
    BY DefOrder
  <2> QED BY <2>1 DEF Around
<1>4. \A t \in VRegs(f) : t # r => p \notin DefSites(f, t)
  BY <1>1, DefAt
<1> HIDE DEF p, q
<1>5. DOMAIN new = DOMAIN map \cup {r}
  BY DEF Assign
<1>6. \A t \in DOMAIN map : new[t] = map[t]
  BY DEF Assign
<1>7. r \notin DOMAIN map => new[r] = [region |-> region, slot |-> slot]
  BY DEF Assign
<1> HIDE DEF new
<1>8. DOMAIN new \subseteq VRegs(f)
  BY <1>2, <1>5 DEF Handled
<1>9. ASSUME NEW t \in VRegs(f)
      PROVE  t \in DOMAIN new <=> \E d \in DefSites(f, t) : Before(d, q)
  <2>1. t \in DOMAIN map <=> \E d \in DefSites(f, t) : Before(d, p)
    BY DEF Handled, p
  <2>2. CASE t = r
    BY <1>2, <1>3, <1>5, <2>2
  <2>3. CASE t # r
    BY <1>3, <1>4, <1>5, <2>1, <2>3
  <2> QED BY <2>2, <2>3
<1>10. ASSUME NEW t \in DOMAIN new PROVE RegionOf(f, new, q, t)
  <2>1. CASE t \in DOMAIN map
    <3>1. RegionOf(f, map, p, t) /\ t \in VRegs(f)
      BY <2>1 DEF Handled, p
    <3>2. new[t] = map[t]
      BY <1>6, <2>1
    <3>3. \A d \in DefSites(f, t) : Before(d, p) => Before(d, q)
      BY <1>3, <3>1
    <3> QED BY <3>1, <3>2, <3>3 DEF RegionOf
  <2>2. CASE t \notin DOMAIN map
    <3>1. t = r /\ new[r].region = region
      BY <1>5, <1>7, <2>2
    <3>2. Before(p, q)
      BY <1>2, <1>3
    <3>3. region \in Region /\ (region = "L_STACK" => DefIsLocal(f, r, p))
          /\ (region = "NO_ALLOCATION" => UseSites(f, r) = {})
      BY DEF RegionFits, p
    <3> QED BY <1>2, <3>1, <3>2, <3>3 DEF RegionOf
  <2> QED BY <2>1, <2>2
<1>11. Handled(f, new, q)
  BY <1>8, <1>9, <1>10 DEF Handled
<1> QED BY <1>11 DEF new, q
-----------------------------------------------------------------------------
(* tryToAnalyzeStackArgs: one argument, and the whole loop.                *)
ArgStep(f, t, reg) ==
  LET top  == SwapRegToTop(t.g, reg)
      slot == AllocatedSlot(t.mem)
  IN  IF DefIsLocal(f, reg, <<1, 0>>)
      THEN [t EXCEPT !.map = Assign(@, reg, "L_STACK", 0)]
      ELSE [g |-> Insert(top, Op("PUTLOCAL", slot), Pop(top.stack)),
            mem |-> AllocatedMem(t.mem, reg),
            frame |-> AllocatedFrame(t.mem, t.frame),
            map |-> Assign(t.map, reg, "NONSTACK", slot)]

ArgTrace(h, f, t, m) ==
  h = [k \in 0 .. m |->
         IF k = 0 THEN t ELSE ArgStep(f, h[k - 1], f.args[Len(f.args) + 1 - k])]

LEMMA ArgTraceExists ==
  ASSUME NEW f, NEW t, NEW n \in Nat
  PROVE  \E h : ArgTrace(h, f, t, n)
<1> DEFINE T == { m \in Nat : \E h : ArgTrace(h, f, t, m) }
<1>1. 0 \in T
  <2>1. ArgTrace([k \in 0 .. 0 |-> t], f, t, 0)
    BY DEF ArgTrace
  <2> QED BY <2>1
<1>2. ASSUME NEW k \in 1 .. n, k - 1 \in T PROVE k \in T
  <2>1. PICK e : ArgTrace(e, f, t, k - 1)
    BY <1>2
  <2> DEFINE Step(x, j) == ArgStep(f, x, f.args[Len(f.args) + 1 - j])
             h == [j \in 0 .. k |-> IF j = k THEN Step(e[k - 1], k) ELSE e[j]]
  <2>2. \A j \in 0 .. k - 1 : e[j] = IF j = 0 THEN t ELSE Step(e[j - 1], j)
    BY <2>1, Zenon DEF ArgTrace
  <2> HIDE DEF Step
  <2>3. \A j \in 0 .. k : h[j] = IF j = 0 THEN t ELSE Step(h[j - 1], j)
    BY <2>2
  <2>4. h = [j \in 0 .. k |-> IF j = 0 THEN t ELSE Step(h[j - 1], j)]
    BY <2>3
  <2> HIDE DEF h
  <2>5. ArgTrace(h, f, t, k)
    BY <2>4, Zenon DEF ArgTrace, Step
  <2> QED BY <2>5
<1>3. T \in SUBSET Nat
  OBVIOUS
<1> HIDE DEF T
<1>4. \A k \in 0 .. n : k \in T
  BY <1>1, <1>2, <1>3, SetInduction
<1>5. n \in T
  BY <1>4
<1> QED BY <1>5 DEF T

ArgStart == [g |-> Gen(fn.args), mem |-> memoryAssignment,
             frame |-> memoryFrameSize, map |-> regAssignments]

LEMMA StackArgsTrace ==
  ASSUME Len(fn.args) \in Nat
  PROVE  \E h : ArgTrace(h, fn, ArgStart, Len(fn.args)) /\ StackArgs = h[Len(fn.args)]
<1> DEFINE n == Len(fn.args)
           take[k \in 0 .. n] ==
             IF k = 0
             THEN [g |-> Gen(fn.args), mem |-> memoryAssignment,
                   frame |-> memoryFrameSize, map |-> regAssignments]
             ELSE LET t   == take[k - 1]
                      reg == fn.args[n + 1 - k]
                      top == SwapRegToTop(t.g, reg)
                      slot == AllocatedSlot(t.mem)
                  IN  IF DefIsLocal(fn, reg, <<1, 0>>)
                      THEN [t EXCEPT !.map = Assign(@, reg, "L_STACK", 0)]
                      ELSE [g |-> Insert(top, Op("PUTLOCAL", slot), Pop(top.stack)),
                            mem |-> AllocatedMem(t.mem, reg),
                            frame |-> AllocatedFrame(t.mem, t.frame),
                            map |-> Assign(t.map, reg, "NONSTACK", slot)]
<1>0. \E h : ArgTrace(h, fn, ArgStart, n)
  BY ArgTraceExists
<1>1. PICK h : ArgTrace(h, fn, ArgStart, n)
  BY <1>0
<1>2. h = [k \in 0 .. n |->
             IF k = 0
             THEN [g |-> Gen(fn.args), mem |-> memoryAssignment,
                   frame |-> memoryFrameSize, map |-> regAssignments]
             ELSE LET t   == h[k - 1]
                      reg == fn.args[n + 1 - k]
                      top == SwapRegToTop(t.g, reg)
                      slot == AllocatedSlot(t.mem)
                  IN  IF DefIsLocal(fn, reg, <<1, 0>>)
                      THEN [t EXCEPT !.map = Assign(@, reg, "L_STACK", 0)]
                      ELSE [g |-> Insert(top, Op("PUTLOCAL", slot), Pop(top.stack)),
                            mem |-> AllocatedMem(t.mem, reg),
                            frame |-> AllocatedFrame(t.mem, t.frame),
                            map |-> Assign(t.map, reg, "NONSTACK", slot)]]
  BY <1>1, Zenon DEF ArgTrace, ArgStep, ArgStart
<1>3. take = [k \in 0 .. n |->
             IF k = 0
             THEN [g |-> Gen(fn.args), mem |-> memoryAssignment,
                   frame |-> memoryFrameSize, map |-> regAssignments]
             ELSE LET t   == take[k - 1]
                      reg == fn.args[n + 1 - k]
                      top == SwapRegToTop(t.g, reg)
                      slot == AllocatedSlot(t.mem)
                  IN  IF DefIsLocal(fn, reg, <<1, 0>>)
                      THEN [t EXCEPT !.map = Assign(@, reg, "L_STACK", 0)]
                      ELSE [g |-> Insert(top, Op("PUTLOCAL", slot), Pop(top.stack)),
                            mem |-> AllocatedMem(t.mem, reg),
                            frame |-> AllocatedFrame(t.mem, t.frame),
                            map |-> Assign(t.map, reg, "NONSTACK", slot)]]
  BY <1>2, Zenon
<1>4. StackArgs = take[n]
  BY Zenon DEF StackArgs
<1>5. ArgTrace(take, fn, ArgStart, n)
  BY <1>3, Zenon DEF ArgTrace, ArgStep, ArgStart
<1> QED BY <1>4, <1>5, Zenon

(* After k arguments: those below and the local ones are on the stack.     *)
ArgsOn(f, k) ==
  { f.args[i] : i \in { j \in 1 .. Len(f.args) :
                          j <= Len(f.args) - k \/ DefIsLocal(f, f.args[j], <<1, 0>>) } }

ArgsDone(f, k) ==
  { f.args[i] : i \in { j \in 1 .. Len(f.args) : j > Len(f.args) - k } }

ArgRegions(f, map, S) ==
  /\ DOMAIN map = S
  /\ \A r \in S :
       /\ DefIsLocal(f, r, <<1, 0>>) => map[r].region = "L_STACK"
       /\ ~DefIsLocal(f, r, <<1, 0>>) => map[r].region = "NONSTACK"

ArgsTaken(t, f, k) ==
  /\ DOMAIN t = {"g", "mem", "frame", "map"}
  /\ Holds(t.g, ArgsOn(f, k))
  /\ ArgRegions(f, t.map, ArgsDone(f, k))

LEMMA ArgsType ==
  ASSUME NEW f, IsMachineFunction(f)
  PROVE  /\ Len(f.args) \in Nat /\ DOMAIN f.args = 1 .. Len(f.args)
         /\ f.args \in Seq(Nat) /\ \A i \in 1 .. Len(f.args) : f.args[i] \in Nat \ {NoReg}
         /\ \A i, j \in 1 .. Len(f.args) : f.args[i] = f.args[j] => i = j
<1>1. f.args \in Seq(Nat \ {NoReg})
  BY DEF IsMachineFunction
<1>2. Len(f.args) \in Nat /\ DOMAIN f.args = 1 .. Len(f.args)
      /\ \A i \in 1 .. Len(f.args) : f.args[i] \in Nat \ {NoReg}
  BY <1>1
<1>3. f.args \in Seq(Nat)
  BY <1>1
<1> QED BY <1>2, <1>3 DEF IsMachineFunction

(* The k-th argument from the top.                                         *)
LEMMA ArgSets ==
  ASSUME NEW f, IsMachineFunction(f), NEW k \in 1 .. Len(f.args),
         NEW r, r = f.args[Len(f.args) + 1 - k]
  PROVE  /\ r \in ArgsOn(f, k - 1) /\ r \in Nat
         /\ ArgsDone(f, k) = ArgsDone(f, k - 1) \cup {r} /\ r \notin ArgsDone(f, k - 1)
         /\ DefIsLocal(f, r, <<1, 0>>) => ArgsOn(f, k) = ArgsOn(f, k - 1)
         /\ ~DefIsLocal(f, r, <<1, 0>>) => ArgsOn(f, k) = ArgsOn(f, k - 1) \ {r}
<1> DEFINE n == Len(f.args)
           Local(j) == DefIsLocal(f, f.args[j], <<1, 0>>)
<1>1. n \in Nat /\ \A i, j \in 1 .. n : f.args[i] = f.args[j] => i = j
  BY ArgsType
<1>2. n + 1 - k \in 1 .. n /\ k \in Nat
  BY <1>1
<1>3. PICK p \in 1 .. n : p = n + 1 - k
  BY <1>2
<1>4. r = f.args[p]
  BY <1>3
<1>5. \A j \in 1 .. n : (j <= n - (k - 1) <=> j <= n - k \/ j = p)
                         /\ (j > n - k <=> j > n - (k - 1) \/ j = p)
  BY <1>1, <1>2, <1>3, SMTT(40)
<1>6. ~(p <= n - k) /\ ~(p > n - (k - 1))
  BY <1>1, <1>2, <1>3
<1>7. DefIsLocal(f, r, <<1, 0>>) <=> Local(p)
  BY <1>4
<1>8. \A e : e \in ArgsOn(f, k) <=> \E j \in 1 .. n : e = f.args[j] /\ (j <= n - k \/ Local(j))
  BY DEF ArgsOn
<1>9. \A e : e \in ArgsOn(f, k - 1) <=>
               \E j \in 1 .. n : e = f.args[j] /\ (j <= n - (k - 1) \/ Local(j))
  BY DEF ArgsOn
<1>10. \A e : e \in ArgsDone(f, k) <=> \E j \in 1 .. n : e = f.args[j] /\ j > n - k
  BY DEF ArgsDone
<1>11. \A e : e \in ArgsDone(f, k - 1) <=> \E j \in 1 .. n : e = f.args[j] /\ j > n - (k - 1)
  BY DEF ArgsDone
<1>12. r \in Nat
  BY <1>4, ArgsType
<1> HIDE DEF Local, n
<1>13. r \in ArgsOn(f, k - 1)
  BY <1>4, <1>5, <1>9
<1>14. ArgsDone(f, k) = ArgsDone(f, k - 1) \cup {r} /\ r \notin ArgsDone(f, k - 1)
  BY <1>1, <1>4, <1>5, <1>6, <1>10, <1>11, SMTT(40)
<1>15. Local(p) => ArgsOn(f, k) = ArgsOn(f, k - 1)
  BY <1>5, <1>8, <1>9
<1>16. ~Local(p) => ArgsOn(f, k) = ArgsOn(f, k - 1) \ {r}
  BY <1>1, <1>4, <1>5, <1>6, <1>8, <1>9
<1> QED BY <1>7, <1>12, <1>13, <1>14, <1>15, <1>16

(* The argument is moved to the top, stored and popped.                    *)
LEMMA StoredAway ==
  ASSUME NEW g, NEW E, Holds(g, E), NEW r \in E, NEW op
  PROVE  Holds(Insert(SwapRegToTop(g, r), op, Pop(SwapRegToTop(g, r).stack)), E \ {r})
<1> DEFINE h == SwapRegToTop(g, r)
           i == Insert(h, op, Pop(h.stack))
<1>1. PICK m \in Nat : Fine(g, m) /\ Distinct(g.stack, m, E)
  BY DEF Holds
<1>2. Fine(h, m) /\ Distinct(h.stack, m, E) /\ h.stack[m] = r /\ m >= 1
  BY <1>1, MovedToTop
<1> HIDE DEF h
<1>3. Popped(h.stack, Pop(h.stack), m)
  BY <1>2, PopStack DEF Fine
<1>4. i.error = h.error /\ i.stack = Pop(h.stack) /\ DOMAIN i = DOMAIN h
  BY <1>2 DEF Insert, Fine
<1> HIDE DEF i
<1>5. m - 1 \in Nat
  BY <1>2
<1>6. Fine(i, m - 1)
  BY <1>2, <1>3, <1>4 DEF Fine, Popped
<1>7. Distinct(h.stack, m - 1, E \ {r})
  BY <1>2, DistinctDrop
<1>8. \A j \in 1 .. m - 1 : i.stack[j] = h.stack[j]
  BY <1>3, <1>4 DEF Popped
<1>9. Distinct(i.stack, m - 1, E \ {r})
  BY <1>7, <1>8, DistinctSame
<1>10. Holds(i, E \ {r})
  BY <1>5, <1>6, <1>9 DEF Holds
<1> QED BY <1>10 DEF i, h

LEMMA AssignNew ==
  ASSUME NEW f, NEW map, NEW S, ArgRegions(f, map, S), NEW r, r \notin S,
         NEW region, NEW slot,
         DefIsLocal(f, r, <<1, 0>>) => region = "L_STACK",
         ~DefIsLocal(f, r, <<1, 0>>) => region = "NONSTACK"
  PROVE  ArgRegions(f, Assign(map, r, region, slot), S \cup {r})
  BY DEF ArgRegions, Assign

LEMMA ArgTaken ==
  ASSUME NEW f, IsMachineFunction(f), NEW k \in 1 .. Len(f.args),
         NEW t, ArgsTaken(t, f, k - 1)
  PROVE  ArgsTaken(ArgStep(f, t, f.args[Len(f.args) + 1 - k]), f, k)
<1>0. PICK r : r = f.args[Len(f.args) + 1 - k]
  OBVIOUS
<1> DEFINE s == ArgStep(f, t, r)
           slot == AllocatedSlot(t.mem)
           top == SwapRegToTop(t.g, r)
<1>1. /\ DOMAIN t = {"g", "mem", "frame", "map"}
      /\ Holds(t.g, ArgsOn(f, k - 1)) /\ ArgRegions(f, t.map, ArgsDone(f, k - 1))
  BY DEF ArgsTaken
<1>2. /\ r \in ArgsOn(f, k - 1)
      /\ ArgsDone(f, k) = ArgsDone(f, k - 1) \cup {r} /\ r \notin ArgsDone(f, k - 1)
      /\ DefIsLocal(f, r, <<1, 0>>) => ArgsOn(f, k) = ArgsOn(f, k - 1)
      /\ ~DefIsLocal(f, r, <<1, 0>>) => ArgsOn(f, k) = ArgsOn(f, k - 1) \ {r}
  BY <1>0, ArgSets
<1>3. CASE DefIsLocal(f, r, <<1, 0>>)
  <2>1. s = [t EXCEPT !.map = Assign(t.map, r, "L_STACK", 0)]
    BY <1>3 DEF ArgStep
  <2>2. DOMAIN s = DOMAIN t /\ s.g = t.g /\ s.map = Assign(t.map, r, "L_STACK", 0)
    BY <1>1, <2>1
  <2>3. ArgRegions(f, s.map, ArgsDone(f, k))
    BY <1>1, <1>2, <1>3, <2>2, AssignNew
  <2> QED BY <1>0, <1>1, <1>2, <1>3, <2>2, <2>3 DEF ArgsTaken
<1>4. CASE ~DefIsLocal(f, r, <<1, 0>>)
  <2>1. s = [g |-> Insert(top, Op("PUTLOCAL", slot), Pop(top.stack)),
             mem |-> AllocatedMem(t.mem, r),
             frame |-> AllocatedFrame(t.mem, t.frame),
             map |-> Assign(t.map, r, "NONSTACK", slot)]
    BY <1>4 DEF ArgStep
  <2> HIDE DEF top, slot
  <2>2. /\ DOMAIN s = {"g", "mem", "frame", "map"}
        /\ s.g = Insert(top, Op("PUTLOCAL", slot), Pop(top.stack))
        /\ s.map = Assign(t.map, r, "NONSTACK", slot)
    BY <2>1
  <2>3. ArgRegions(f, s.map, ArgsDone(f, k))
    BY <1>1, <1>2, <1>4, <2>2, AssignNew
  <2>4. Holds(s.g, ArgsOn(f, k))
    <3>1. PICK op : op = Op("PUTLOCAL", slot)
      OBVIOUS
    <3>2. Holds(Insert(top, op, Pop(top.stack)), ArgsOn(f, k - 1) \ {r})
      BY <1>1, <1>2, StoredAway DEF top
    <3> HIDE DEF s
    <3> QED BY <1>2, <1>4, <2>2, <3>1, <3>2
  <2> QED BY <1>0, <2>2, <2>3, <2>4 DEF ArgsTaken
<1> QED BY <1>3, <1>4

LEMMA ArgsAtStart ==
  ASSUME NEW f, IsMachineFunction(f), NEW t,
         DOMAIN t = {"g", "mem", "frame", "map"}, t.g = Gen(f.args), DOMAIN t.map = {}
  PROVE  ArgsTaken(t, f, 0)
<1> DEFINE n == Len(f.args)
<1>1. n \in Nat /\ f.args \in Seq(Nat) /\ \A i, j \in 1 .. n : f.args[i] = f.args[j] => i = j
  BY ArgsType
<1>2. \A j \in 1 .. n : j <= n - 0 /\ ~(j > n - 0)
  BY <1>1
<1>3. ArgsOn(f, 0) = { f.args[i] : i \in 1 .. n } /\ ArgsDone(f, 0) = {}
  BY <1>2 DEF ArgsOn, ArgsDone
<1>4. Fine(t.g, n) /\ t.g.stack = f.args
  BY <1>1 DEF Gen, Fine, IsStack
<1>5. Distinct(f.args, n, ArgsOn(f, 0))
  BY <1>1, <1>3 DEF Distinct
<1>6. Holds(t.g, ArgsOn(f, 0))
  BY <1>1, <1>4, <1>5 DEF Holds
<1>7. ArgRegions(f, t.map, ArgsDone(f, 0))
  BY <1>3 DEF ArgRegions
<1> QED BY <1>6, <1>7 DEF ArgsTaken

(* tryToAnalyzeStackArgs fails nowhere, keeps exactly the local arguments  *)
(* on the stack and gives every argument its region.                       *)
LEMMA ArgsRight ==
  ASSUME IsMachineFunction(fn), DOMAIN regAssignments = {}
  PROVE  ArgsTaken(StackArgs, fn, Len(fn.args))
<1>0. PICK n \in Nat : n = Len(fn.args)
  BY ArgsType
<1>1. PICK h : ArgTrace(h, fn, ArgStart, n) /\ StackArgs = h[n]
  BY <1>0, StackArgsTrace
<1>2. h[0] = ArgStart /\ \A k \in 1 .. n : h[k] = ArgStep(fn, h[k - 1], fn.args[n + 1 - k])
  <2>1. \A k \in 0 .. n :
          h[k] = IF k = 0 THEN ArgStart ELSE ArgStep(fn, h[k - 1], fn.args[n + 1 - k])
    BY <1>0, <1>1, Zenon DEF ArgTrace
  <2>2. 0 \in 0 .. n /\ \A k \in 1 .. n : k \in 0 .. n /\ k # 0
    OBVIOUS
  <2> QED BY <2>1, <2>2
<1> DEFINE T == { k \in 0 .. n : ArgsTaken(h[k], fn, k) }
<1>3. T \in SUBSET Nat /\ 0 \in T
  <2>1. ArgsTaken(ArgStart, fn, 0)
    BY ArgsAtStart DEF ArgStart
  <2> QED BY <1>2, <2>1
<1>4. ASSUME NEW k \in 1 .. n, k - 1 \in T PROVE k \in T
  <2>1. ArgsTaken(h[k - 1], fn, k - 1)
    BY <1>4
  <2>2. ArgsTaken(ArgStep(fn, h[k - 1], fn.args[n + 1 - k]), fn, k)
    BY <1>0, <2>1, ArgTaken
  <2>3. ArgsTaken(h[k], fn, k) /\ k \in 0 .. n
    BY <1>2, <2>2
  <2> QED BY <2>3
<1> HIDE DEF T
<1>5. \A k \in 0 .. n : k \in T
  BY <1>3, <1>4, SetInduction
<1>6. n \in T
  BY <1>5
<1> QED BY <1>0, <1>1, <1>6 DEF T
-----------------------------------------------------------------------------
(* The registers kept on the stack that are used in block b from q on.     *)
UsedFrom(f, r, b, q) == \E u \in UseSites(f, r) : u[1] = b /\ u[2] >= q

Locals(f, map, b, q) ==
  { r \in DOMAIN map : map[r].region = "L_STACK" /\ UsedFrom(f, r, b, q) }

UsedAfter(f, r, p) == \E u \in UseSites(f, r) : Before(p, u)

(* The registers that block b uses before it defines them were assigned.   *)
Arrived(f, map, b) ==
  b = 1 \/ \A r \in VRegs(f) : Exposed(f, r, b) => r \in DOMAIN map

LEMMA ArgSite ==
  ASSUME NEW f, IsFunction(f), NEW r
  PROVE  <<1, 0>> \in DefSites(f, r) <=> r \in Elems(f.args)
<1>1. <<1, 0>> \notin Sites(f)
  <2>1. SUFFICES ASSUME <<1, 0>> \in Sites(f) PROVE FALSE
    OBVIOUS
  <2>2. IsMachineFunction(f)
    BY DEF IsFunction
  <2>3. PICK b \in Block(f) : \E k \in 1 .. Len(f.code[b]) : <<1, 0>> = <<b, 2 * k>>
    BY <2>1, <2>2, SitesAre
  <2>4. PICK k \in 1 .. Len(f.code[b]) : <<1, 0>> = <<b, 2 * k>>
    BY <2>3
  <2>5. k \in Nat /\ k # 0
    BY <2>2, CodeType
  <2>6. 2 * k = 0
    BY <2>4
  <2> QED BY <2>5, <2>6
<1> QED BY <1>1 DEF DefSites

(* After tryToAnalyzeStackArgs.                                            *)
LEMMA EntryHandled ==
  ASSUME NEW f, IsFunction(f), NEW map, ArgRegions(f, map, ArgsDone(f, Len(f.args)))
  PROVE  Handled(f, map, <<1, 2 * 1>>)
<1> DEFINE n == Len(f.args)
           p == <<1, 2 * 1>>
<1>1. n \in Nat /\ DOMAIN f.args = 1 .. n /\ \A i \in 1 .. n : f.args[i] \in Nat \ {NoReg}
  BY ArgsType DEF IsFunction
<1>2. DOMAIN map = Elems(f.args)
  <2>1. \A j \in 1 .. n : j > n - n
    BY <1>1
  <2> QED BY <1>1, <2>1 DEF ArgRegions, ArgsDone, Elems
<1>3. DOMAIN map \subseteq VRegs(f)
  BY <1>1, <1>2 DEF VRegs, Elems
<1>4. ASSUME NEW r, NEW d \in DefSites(f, r) PROVE Before(d, p) <=> d = <<1, 0>>
  <2>1. PICK c, j : DefShape(f, d, c, j)
    BY DefShapes
  <2>2. c \in Nat /\ c >= 1 /\ j \in Nat /\ d = <<c, 2 * j>> /\ d[1] = c /\ d[2] = 2 * j
        /\ (j = 0 => c = 1)
    BY <2>1 DEF DefShape
  <2>3. Before(d, p) <=> c < 1 \/ (c = 1 /\ 2 * j < 2 * 1)
    BY <2>2 DEF Before
  <2>4. Before(d, p) <=> j = 0
    BY <2>2, <2>3
  <2>5. d = <<1, 0>> <=> j = 0
    BY <2>2
  <2> QED BY <2>4, <2>5
<1>5. \A r \in VRegs(f) : r \in DOMAIN map <=> \E d \in DefSites(f, r) : Before(d, p)
  BY <1>2, <1>4, ArgSite
<1>6. ASSUME NEW r \in DOMAIN map PROVE RegionOf(f, map, p, r)
  <2>1. <<1, 0>> \in DefSites(f, r)
    BY <1>2, ArgSite
  <2>2. Before(<<1, 0>>, p)
    BY <1>4, <2>1
  <2>3. DefIsLocal(f, r, <<1, 0>>) => map[r].region = "L_STACK"
    BY DEF ArgRegions
  <2>4. ~DefIsLocal(f, r, <<1, 0>>) => map[r].region = "NONSTACK"
    BY DEF ArgRegions
  <2> HIDE DEF p
  <2> QED BY <2>1, <2>2, <2>3, <2>4 DEF RegionOf, Region
<1> QED BY <1>3, <1>5, <1>6 DEF Handled

LEMMA EntryLocals ==
  ASSUME NEW f, IsFunction(f), NEW map, ArgRegions(f, map, ArgsDone(f, Len(f.args)))
  PROVE  Locals(f, map, 1, 2 * 1) = ArgsOn(f, Len(f.args))
<1> DEFINE n == Len(f.args)
<1>1. n \in Nat /\ DOMAIN f.args = 1 .. n /\ IsMachineFunction(f)
  BY ArgsType DEF IsFunction
<1>2. \A j \in 1 .. n : j > n - n /\ ~(j <= n - n)
  BY <1>1
<1>3. DOMAIN map = { f.args[i] : i \in 1 .. n }
  BY <1>2 DEF ArgRegions, ArgsDone
<1>4. \A r : r \in ArgsOn(f, n) <=> r \in DOMAIN map /\ DefIsLocal(f, r, <<1, 0>>)
  BY <1>2, <1>3 DEF ArgsOn
<1>5. ASSUME NEW r \in DOMAIN map, DefIsLocal(f, r, <<1, 0>>) PROVE UsedFrom(f, r, 1, 2 * 1)
  <2>1. r \in Elems(f.args)
    BY <1>1, <1>3 DEF Elems
  <2>2. PICK u \in UseSites(f, r) : TRUE
    BY <1>1, <2>1 DEF IsMachineFunction
  <2>3. u[1] = 1
    BY <1>5 DEF DefIsLocal
  <2>4. PICK c, j : UseShape(f, u, c, j)
    BY UseShapes
  <2>5. j \in Nat /\ j >= 1 /\ u[2] = 2 * j
    BY <2>4 DEF UseShape
  <2>6. u[2] >= 2 * 1
    BY <2>5
  <2> QED BY <2>3, <2>6 DEF UsedFrom
<1>6. \A r \in DOMAIN map : map[r].region = "L_STACK" <=> DefIsLocal(f, r, <<1, 0>>)
  BY DEF ArgRegions
<1> QED BY <1>4, <1>5, <1>6 DEF Locals

(* At the start of another block nothing is on the stack.                  *)
LEMMA NoLocalsYet ==
  ASSUME NEW f, IsFunction(f), NEW b \in Block(f), NEW map, Handled(f, map, <<b, 0>>)
  PROVE  Locals(f, map, b, 2 * 1) = {}
<1> SUFFICES ASSUME NEW r \in DOMAIN map, map[r].region = "L_STACK",
                    NEW u \in UseSites(f, r), u[1] = b
             PROVE  FALSE
  BY DEF Locals, UsedFrom
<1>1. RegionOf(f, map, <<b, 0>>, r)
  BY DEF Handled
<1>2. PICK d \in DefSites(f, r) : DefIsLocal(f, r, d) /\ Before(d, <<b, 0>>)
  BY <1>1 DEF RegionOf
<1>3. d[1] = b
  BY <1>2 DEF DefIsLocal
<1>4. PICK c, j : DefShape(f, d, c, j)
  BY DefShapes
<1>5. j \in Nat /\ d[2] = 2 * j /\ b \in Nat
  BY <1>4 DEF DefShape, Block, IsFunction, IsCFG
<1>6. ~(b < b) /\ ~(2 * j < 0)
  BY <1>5
<1> QED BY <1>2, <1>3, <1>5, <1>6 DEF Before

(* All uses of a local register are in its block.                          *)
LEMMA LocalUses ==
  ASSUME NEW f, NEW map, NEW p, Handled(f, map, p),
         NEW r \in DOMAIN map, map[r].region = "L_STACK", NEW b, NEW u \in UseSites(f, r), u[1] = b
  PROVE  \A v \in UseSites(f, r) : v[1] = b
<1>1. RegionOf(f, map, p, r)
  BY DEF Handled
<1>2. PICK d \in DefSites(f, r) : DefIsLocal(f, r, d)
  BY <1>1 DEF RegionOf
<1> QED BY <1>2 DEF DefIsLocal

(* The local registers still used after an instruction are those used from *)
(* it on, but for the operands that have their last use there.             *)
LEMMA LocalsAfter ==
  ASSUME NEW f, IsFunction(f), NEW b \in Block(f), NEW k \in 1 .. Len(f.code[b]),
         NEW map, NEW p, Handled(f, map, p), NEW r
  PROVE  r \in Locals(f, map, b, 2 * k + 1) <=>
           /\ r \in Locals(f, map, b, 2 * k)
           /\ ~(r \in Elems(f.code[b][k].uses) /\ ~UsedAfter(f, r, <<b, 2 * k>>))
<1>1. b \in Nat /\ k \in Nat /\ IsMachineFunction(f)
  BY CodeType DEF Block, IsFunction, IsCFG
<1>2. ASSUME NEW u \in UseSites(f, r), u[1] = b
      PROVE  /\ u[2] >= 2 * k + 1 <=> Before(<<b, 2 * k>>, u)
             /\ u[2] >= 2 * k + 1 => u[2] >= 2 * k
             /\ u[2] >= 2 * k => u[2] >= 2 * k + 1 \/ u = <<b, 2 * k>>
  <2>1. PICK c, j : UseShape(f, u, c, j)
    BY UseShapes
  <2>2. j \in Nat /\ u = <<b, 2 * j>> /\ u[2] = 2 * j
    BY <1>2, <2>1 DEF UseShape
  <2>3. Before(<<b, 2 * k>>, u) <=> b < b \/ 2 * k < 2 * j
    BY <2>2 DEF Before
  <2> QED BY <1>1, <2>2, <2>3
<1>3. ASSUME r \in Locals(f, map, b, 2 * k + 1)
      PROVE  r \in Locals(f, map, b, 2 * k) /\ UsedAfter(f, r, <<b, 2 * k>>)
  <2>1. PICK u \in UseSites(f, r) : u[1] = b /\ u[2] >= 2 * k + 1
    BY <1>3 DEF Locals, UsedFrom
  <2>2. u[2] >= 2 * k /\ Before(<<b, 2 * k>>, u)
    BY <1>2, <2>1
  <2> QED BY <1>3, <2>1, <2>2 DEF Locals, UsedFrom, UsedAfter
<1>4. ASSUME r \in Locals(f, map, b, 2 * k), r \notin Locals(f, map, b, 2 * k + 1)
      PROVE  r \in Elems(f.code[b][k].uses) /\ ~UsedAfter(f, r, <<b, 2 * k>>)
  <2>1. PICK u \in UseSites(f, r) : u[1] = b /\ u[2] >= 2 * k
    BY <1>4 DEF Locals, UsedFrom
  <2>2. r \in DOMAIN map /\ map[r].region = "L_STACK" /\ ~UsedFrom(f, r, b, 2 * k + 1)
    BY <1>4 DEF Locals
  <2>3. u = <<b, 2 * k>>
    BY <1>2, <2>1, <2>2 DEF UsedFrom
  <2>4. r \in Elems(f.code[b][k].uses)
    BY <1>1, <2>3, UseAt
  <2>5. \A v \in UseSites(f, r) : v[1] = b
    BY <2>1, <2>2, LocalUses
  <2>6. ~UsedAfter(f, r, <<b, 2 * k>>)
    BY <1>2, <2>2, <2>5 DEF UsedAfter, UsedFrom
  <2> QED BY <2>4, <2>6
<1> QED BY <1>3, <1>4

(* Nothing is used between two instructions, or after the last one.        *)
LEMMA LocalsNext ==
  ASSUME NEW f, IsFunction(f), NEW b \in Block(f), NEW k \in 1 .. Len(f.code[b]), NEW map
  PROVE  /\ Locals(f, map, b, 2 * k + 1) = Locals(f, map, b, 2 * (k + 1))
         /\ k = Len(f.code[b]) => Locals(f, map, b, 2 * k + 1) = {}
<1>1. b \in Nat /\ k \in Nat /\ Len(f.code[b]) \in Nat
  BY CodeType DEF Block, IsFunction, IsCFG
<1>2. ASSUME NEW r, NEW u \in UseSites(f, r), u[1] = b
      PROVE  /\ u[2] >= 2 * k + 1 <=> u[2] >= 2 * (k + 1)
             /\ k = Len(f.code[b]) => ~(u[2] >= 2 * k + 1)
  <2>1. PICK c, j : UseShape(f, u, c, j)
    BY UseShapes
  <2>2. j \in Nat /\ u[2] = 2 * j /\ j <= Len(f.code[b])
    BY <1>1, <1>2, <2>1 DEF UseShape
  <2> QED BY <1>1, <2>2
<1>3. \A r : UsedFrom(f, r, b, 2 * k + 1) <=> UsedFrom(f, r, b, 2 * (k + 1))
  BY <1>2 DEF UsedFrom
<1>4. k = Len(f.code[b]) => \A r : ~UsedFrom(f, r, b, 2 * k + 1)
  BY <1>2 DEF UsedFrom
<1> QED BY <1>3, <1>4 DEF Locals

(* What handleDef changes.                                                 *)
LEMMA LocalsDefined ==
  ASSUME NEW f, IsFunction(f), NEW b \in Block(f), NEW k \in 1 .. Len(f.code[b]),
         NEW map, NEW r, r \notin DOMAIN map, NEW slot,
         DefIsLocal(f, r, <<b, 2 * k>>), UseSites(f, r) # {}, NEW q, q = 2 * k \/ q = 2 * k + 1
  PROVE  /\ Locals(f, Assign(map, r, "L_STACK", slot), b, q) = Locals(f, map, b, q) \cup {r}
         /\ r \notin Locals(f, map, b, q)
<1> DEFINE new == Assign(map, r, "L_STACK", slot)
<1>1. UsedFrom(f, r, b, q)
  <2>1. PICK u \in UseSites(f, r) : TRUE
    OBVIOUS
  <2>2. u[1] = b /\ Before(<<b, 2 * k>>, u)
    BY DEF DefIsLocal
  <2>3. b \in Nat /\ k \in Nat
    BY CodeType DEF Block, IsFunction, IsCFG
  <2>4. PICK c, j : UseShape(f, u, c, j)
    BY UseShapes
  <2>5. j \in Nat /\ u[2] = 2 * j
    BY <2>4 DEF UseShape
  <2>6. b < b \/ 2 * k < u[2]
    BY <2>2 DEF Before
  <2>7. u[2] >= q
    BY <2>3, <2>5, <2>6
  <2> QED BY <2>2, <2>7 DEF UsedFrom
<1>2. DOMAIN new = DOMAIN map \cup {r} /\ new[r].region = "L_STACK"
      /\ \A t \in DOMAIN map : new[t] = map[t]
  BY DEF Assign
<1> HIDE DEF new
<1>3. Locals(f, new, b, q) = Locals(f, map, b, q) \cup {r}
  BY <1>1, <1>2 DEF Locals
<1> QED BY <1>3 DEF Locals, new

LEMMA LocalsSame ==
  ASSUME NEW f, NEW map, NEW r, NEW region, NEW slot, region # "L_STACK", NEW b, NEW q
  PROVE  Locals(f, Assign(map, r, region, slot), b, q) = Locals(f, map, b, q)
<1> DEFINE new == Assign(map, r, region, slot)
<1>1. DOMAIN new = DOMAIN map \cup {r} /\ (r \notin DOMAIN map => new[r].region = region)
      /\ \A t \in DOMAIN map : new[t] = map[t]
  BY DEF Assign
<1> HIDE DEF new
<1>2. Locals(f, new, b, q) = Locals(f, map, b, q)
  BY <1>1 DEF Locals
<1> QED BY <1>2 DEF new
-----------------------------------------------------------------------------
(* The operands of an instruction have a region, and those on the stack    *)
(* are among the local registers used from there on.                       *)
OperandIn(f, map, b, k, r) ==
  /\ r \in DOMAIN map /\ r \in Nat
  /\ map[r].region \in {"L_STACK", "NONSTACK"}
  /\ map[r].region = "L_STACK" <=> r \in Locals(f, map, b, 2 * k)

LEMMA OperandAssigned ==
  ASSUME NEW f, IsFunction(f), NEW b \in Block(f), NEW k \in 1 .. Len(f.code[b]),
         NEW map, NEW p, p = <<b, 2 * k>> \/ p = <<b, 2 * k + 1>>, Handled(f, map, p),
         Arrived(f, map, b), NEW r \in Elems(f.code[b][k].uses)
  PROVE  OperandIn(f, map, b, k, r)
<1> DEFINE u == <<b, 2 * k>>
<1>1. IsMachineFunction(f) /\ b \in Nat /\ k \in Nat
  BY CodeType DEF IsFunction, Block, IsCFG
<1>2. u \in UseSites(f, r) /\ u \in Sites(f) /\ InstrAt(f, u) = f.code[b][k]
  BY <1>1, UseAt, SiteOf
<1>3. u[1] = b /\ u[2] = 2 * k
  OBVIOUS
<1>4. r \in Nat \ {NoReg}
  <2>1. f.code[b][k].uses \in Seq(Nat \ {NoReg})
    BY <1>1, CodeType
  <2> QED BY <2>1 DEF Elems
<1>5. PICK d \in DefSites(f, r) : b = 1 => Before(d, u)
  <2>1. \A v \in Sites(f) : \A reg \in Elems(InstrAt(f, v).uses) :
          \E d \in DefSites(f, reg) : v[1] = 1 => Before(d, v)
    BY <1>1 DEF IsMachineFunction
  <2> HIDE DEF u
  <2>2. r \in Elems(InstrAt(f, u).uses)
    BY <1>2
  <2>3. \E d \in DefSites(f, r) : u[1] = 1 => Before(d, u)
    BY <1>2, <2>1, <2>2
  <2> QED BY <1>3, <2>3
<1>6. r \in VRegs(f)
  BY <1>4, <1>5, DefinedVReg
<1>7. \A e \in DefSites(f, r) : Before(e, u) => Before(e, p)
  <2>1. \A e \in DefSites(f, r) : Around(e, b, k)
    BY DefOrder
  <2> QED BY <2>1 DEF Around
<1> HIDE DEF u
<1>8. r \in DOMAIN map
  <2>1. CASE \E e \in DefSites(f, r) : Before(e, u)
    BY <1>6, <1>7, <2>1 DEF Handled
  <2>2. CASE ~\E e \in DefSites(f, r) : Before(e, u)
    <3>1. b # 1
      BY <1>5, <2>2
    <3>2. Exposed(f, r, b)
      BY <1>2, <1>3, <2>2 DEF Exposed
    <3> QED BY <1>6, <3>1, <3>2 DEF Arrived
  <2> QED BY <2>1, <2>2
<1>9. map[r].region \in {"L_STACK", "NONSTACK"}
  BY <1>2, <1>8 DEF Handled, RegionOf, Region
<1>10. UsedFrom(f, r, b, 2 * k)
  <2>1. u[2] >= 2 * k
    BY <1>1, <1>3
  <2> QED BY <1>2, <1>3, <2>1 DEF UsedFrom
<1> QED BY <1>4, <1>8, <1>9, <1>10 DEF OperandIn, Locals

(* regIsLastUse and the uses of the function.  A register kept on the      *)
(* stack has no PUTLOCAL; that of another one comes after the instruction  *)
(* only when the instruction itself defines the register.                  *)
LEMMA LastUse ==
  ASSUME IsFunction(fn), blk \in Block(fn), idx \in 1 .. Len(fn.code[blk]), NEW r
  PROVE  /\ RegIsLastUse(r) => ~UsedAfter(fn, r, Here)
         /\ phase = "uses" \/ ~InMemory(r) => (RegIsLastUse(r) <=> ~UsedAfter(fn, r, Here))
<1>1. RegIsLastUse(r) => ~UsedAfter(fn, r, Here)
  BY DEF RegIsLastUse, AllUses, UsedAfter
<1>2. ASSUME phase = "uses" \/ ~InMemory(r), NEW u \in StoreSites(r) PROVE ~Before(Here, u)
  <2>1. InMemory(r)
    BY DEF StoreSites, InMemory
  <2>2. phase # "clean"
    BY <1>2, <2>1
  <2>3. PICK d \in DefSites(fn, r) : Before(d, Here) /\ u = <<d[1], d[2] + 1>>
    BY <2>2 DEF StoreSites
  <2>4. PICK c, j : DefShape(fn, d, c, j)
    BY DefShapes
  <2>5. blk \in Nat /\ idx \in Nat
    BY CodeType DEF IsFunction, Block, IsCFG
  <2>6. c \in Nat /\ j \in Nat /\ d[1] = c /\ d[2] = 2 * j
    BY <2>4 DEF DefShape
  <2>7. c < blk \/ (c = blk /\ 2 * j < 2 * idx)
    BY <2>3, <2>6 DEF Before, Here
  <2>8. Before(Here, u) <=> blk < c \/ (blk = c /\ 2 * idx < 2 * j + 1)
    BY <2>3, <2>6 DEF Before, Here
  <2> QED BY <2>5, <2>6, <2>7, <2>8
<1>3. ASSUME phase = "uses" \/ ~InMemory(r), ~UsedAfter(fn, r, Here) PROVE RegIsLastUse(r)
  BY <1>2, <1>3 DEF RegIsLastUse, AllUses, UsedAfter
<1> QED BY <1>1, <1>3
-----------------------------------------------------------------------------
(* A register that a block uses before defining it is live at its start.   *)
LiveStep(f, reg, prev) ==
  prev \cup { b \in Block(f) \ { d[1] : d \in DefSites(f, reg) } :
                Elems(f.succs[b]) \cap prev # {} }

LiveTrace(h, f, reg, m) ==
  h = [k \in 0 .. m |->
         IF k = 0 THEN { b \in Block(f) : Exposed(f, reg, b) } ELSE LiveStep(f, reg, h[k - 1])]

LEMMA LiveTraceExists ==
  ASSUME NEW f, NEW reg, NEW n \in Nat
  PROVE  \E h : LiveTrace(h, f, reg, n)
<1> DEFINE T == { m \in Nat : \E h : LiveTrace(h, f, reg, m) }
           first == { b \in Block(f) : Exposed(f, reg, b) }
<1>1. 0 \in T
  <2> HIDE DEF first
  <2>1. LiveTrace([k \in 0 .. 0 |-> first], f, reg, 0)
    BY DEF LiveTrace, first
  <2> QED BY <2>1
<1>2. ASSUME NEW k \in 1 .. n, k - 1 \in T PROVE k \in T
  <2>1. PICK e : LiveTrace(e, f, reg, k - 1)
    BY <1>2
  <2> DEFINE Step(x) == LiveStep(f, reg, x)
             h == [j \in 0 .. k |-> IF j = k THEN Step(e[k - 1]) ELSE e[j]]
  <2>2. \A j \in 0 .. k - 1 : e[j] = IF j = 0 THEN first ELSE Step(e[j - 1])
    BY <2>1, Zenon DEF LiveTrace
  <2> HIDE DEF Step, first
  <2>3. \A j \in 0 .. k : h[j] = IF j = 0 THEN first ELSE Step(h[j - 1])
    BY <2>2
  <2>4. h = [j \in 0 .. k |-> IF j = 0 THEN first ELSE Step(h[j - 1])]
    BY <2>3
  <2> HIDE DEF h
  <2>5. LiveTrace(h, f, reg, k)
    BY <2>4, Zenon DEF LiveTrace, Step, first
  <2> QED BY <2>5
<1>3. T \in SUBSET Nat
  OBVIOUS
<1> HIDE DEF T
<1>4. \A k \in 0 .. n : k \in T
  BY <1>1, <1>2, <1>3, SetInduction
<1>5. n \in T
  BY <1>4
<1> QED BY <1>5 DEF T

LEMMA LiveBlocksTrace ==
  ASSUME NEW f, NEW reg, f.n \in Nat
  PROVE  \E h : LiveTrace(h, f, reg, f.n) /\ LiveInBlocks(f, reg) = h[f.n]
<1> DEFINE first == { b \in Block(f) : Exposed(f, reg, b) }
           reach[k \in 0 .. f.n] ==
             IF k = 0 THEN first ELSE LiveStep(f, reg, reach[k - 1])
<1>1. LiveInBlocks(f, reg) = reach[f.n]
  BY Zenon DEF LiveInBlocks, LiveStep
<1>2. PICK h : LiveTrace(h, f, reg, f.n)
  BY LiveTraceExists
<1>3. h = [k \in 0 .. f.n |-> IF k = 0 THEN first ELSE LiveStep(f, reg, h[k - 1])]
  BY <1>2, Zenon DEF LiveTrace
<1> HIDE DEF first
<1>4. reach = [k \in 0 .. f.n |-> IF k = 0 THEN first ELSE LiveStep(f, reg, reach[k - 1])]
  BY <1>3, Zenon
<1>5. LiveTrace(reach, f, reg, f.n)
  BY <1>4, Zenon DEF LiveTrace, first
<1> QED BY <1>1, <1>5, Zenon

LEMMA ExposedLive ==
  ASSUME NEW f, IsFunction(f), NEW reg, NEW b \in Block(f), Exposed(f, reg, b)
  PROVE  b \in LiveInBlocks(f, reg)
<1>1. PICK n \in Nat : n = f.n
  BY DEF IsFunction, IsCFG
<1>2. PICK h : LiveTrace(h, f, reg, n) /\ LiveInBlocks(f, reg) = h[n]
  BY <1>1, LiveBlocksTrace
<1>3. h[0] = { c \in Block(f) : Exposed(f, reg, c) }
      /\ \A k \in 1 .. n : h[k] = LiveStep(f, reg, h[k - 1])
  <2>1. \A k \in 0 .. n : h[k] = IF k = 0 THEN { c \in Block(f) : Exposed(f, reg, c) }
                                 ELSE LiveStep(f, reg, h[k - 1])
    BY <1>2, Zenon DEF LiveTrace
  <2>2. 0 \in 0 .. n /\ \A k \in 1 .. n : k \in 0 .. n /\ k # 0
    OBVIOUS
  <2> QED BY <2>1, <2>2
<1> DEFINE T == { k \in 0 .. n : b \in h[k] }
<1>4. T \in SUBSET Nat /\ 0 \in T
  BY <1>3
<1>5. ASSUME NEW k \in 1 .. n, k - 1 \in T PROVE k \in T
  <2>1. b \in h[k - 1] /\ k \in 0 .. n
    BY <1>5
  <2>2. b \in LiveStep(f, reg, h[k - 1])
    BY <2>1 DEF LiveStep
  <2> QED BY <1>3, <2>1, <2>2
<1> HIDE DEF T
<1>6. \A k \in 0 .. n : k \in T
  BY <1>4, <1>5, SetInduction
<1>7. n \in T
  BY <1>6
<1> QED BY <1>2, <1>7 DEF T

(* beginOfBlockUpdates: without a hazard every register that the block     *)
(* needs was assigned.                                                     *)
LEMMA BlockArrived ==
  ASSUME IsFunction(fn), blk \in Block(fn), NEW mem, LayoutHazards(mem) = {}
  PROVE  Arrived(fn, regAssignments, blk)
<1> SUFFICES ASSUME NEW r \in VRegs(fn), Exposed(fn, r, blk), r \notin DOMAIN regAssignments
             PROVE  FALSE
  BY DEF Arrived
<1>1. LiveIn(r)
  BY ExposedLive DEF LiveIn
<1>2. "definedLater" \in LayoutHazards(mem)
  BY <1>1 DEF LayoutHazards
<1> QED BY <1>2
-----------------------------------------------------------------------------
(* The stack holds the registers E, each once.                             *)
HoldsExactly(st, E) == st \in Seq(Nat) /\ Distinct(st, Len(st), E)

LEMMA HoldsFromStack ==
  ASSUME NEW st, NEW E, HoldsExactly(st, E)
  PROVE  /\ Len(st) \in Nat /\ Fine(Gen(st), Len(st)) /\ Gen(st).stack = st
         /\ Distinct(st, Len(st), E) /\ Holds(Gen(st), E)
<1>1. Len(st) \in Nat
  BY DEF HoldsExactly
<1>2. Fine(Gen(st), Len(st)) /\ Gen(st).stack = st
  BY <1>1 DEF Gen, Fine, IsStack, HoldsExactly
<1> QED BY <1>1, <1>2 DEF HoldsExactly, Holds

LEMMA StackFromHolds ==
  ASSUME NEW g, NEW E, Holds(g, E)
  PROVE  HoldsExactly(g.stack, E) /\ g.error = NoError
  BY DEF Holds, Fine, IsStack, HoldsExactly

LEMMA HeldIsOnStack ==
  ASSUME NEW st, NEW E, HoldsExactly(st, E), NEW r \in E
  PROVE  IsOnStack(st, r)
<1>1. PICK n \in Nat : n = Len(st) /\ IsStack(st, n) /\ Distinct(st, n, E)
  BY DEF HoldsExactly, IsStack
<1>2. PICK i \in 1 .. n : st[i] = r
  BY <1>1 DEF Distinct
<1>3. PICK q : Nearest(st, n, r, q)
  BY <1>2, NearestExists
<1> QED BY <1>1, <1>3, FindDepth

LEMMA HoldsEmpty ==
  /\ HoldsExactly(<< >>, {})
  /\ \A st : HoldsExactly(st, {}) => st = << >>
<1>1. HoldsExactly(<< >>, {})
  BY DEF HoldsExactly, Distinct
<1>2. ASSUME NEW st, HoldsExactly(st, {}) PROVE st = << >>
  <2>1. st \in Seq(Nat) /\ Len(st) \in Nat /\ \A i \in 1 .. Len(st) : FALSE
    BY <1>2 DEF HoldsExactly, Distinct
  <2>2. Len(st) = 0
    BY <2>1
  <2> QED BY <2>1, <2>2
<1> QED BY <1>1, <1>2

(* Where the pass is: instruction idx of block blk of a machine function,  *)
(* whose operands were all assigned.                                       *)
AtInstruction ==
  /\ IsFunction(fn) /\ blk \in Block(fn) /\ idx \in 1 .. Len(fn.code[blk])
  /\ \A r \in Elems(Instr.uses) : OperandIn(fn, regAssignments, blk, idx, r)

LocalsHere == Locals(fn, regAssignments, blk, 2 * idx)

LEMMA InstrType ==
  ASSUME IsFunction(fn), blk \in Block(fn), idx \in 1 .. Len(fn.code[blk])
  PROVE  /\ Len(Instr.uses) \in Nat /\ DOMAIN Instr.uses = 1 .. Len(Instr.uses)
         /\ Instr.def \in Nat
         /\ \A i \in 1 .. Len(Instr.uses) : Instr.uses[i] \in Elems(Instr.uses)
         /\ Elems(Instr.uses) = { Instr.uses[i] : i \in 1 .. Len(Instr.uses) }
<1>1. Instr.uses \in Seq(Nat \ {NoReg}) /\ Instr.def \in Nat
  BY CodeType DEF IsFunction, Instr
<1>2. Len(Instr.uses) \in Nat /\ DOMAIN Instr.uses = 1 .. Len(Instr.uses)
  BY <1>1
<1> QED BY <1>1, <1>2 DEF Elems

LEMMA UseTypeAt ==
  ASSUME AtInstruction
  PROVE  /\ Len(UseTypes) = Len(Instr.uses) /\ DOMAIN UseTypes = 1 .. Len(Instr.uses)
         /\ \A i \in 1 .. Len(Instr.uses) :
              /\ UseTypes[i].reg = Instr.uses[i]
              /\ UseTypes[i].isLastUse = RegIsLastUse(Instr.uses[i])
              /\ UseTypes[i].isMemUse = (regAssignments[Instr.uses[i]].region = "NONSTACK")
<1>1. Len(Instr.uses) \in Nat /\ DOMAIN Instr.uses = 1 .. Len(Instr.uses)
  BY InstrType DEF AtInstruction
<1>2. DOMAIN UseTypes = 1 .. Len(Instr.uses)
  BY <1>1 DEF UseTypes
<1>3. Len(UseTypes) = Len(Instr.uses)
  BY <1>1 DEF UseTypes
<1>4. ASSUME NEW i \in 1 .. Len(Instr.uses)
      PROVE  /\ UseTypes[i].reg = Instr.uses[i]
             /\ UseTypes[i].isLastUse = RegIsLastUse(Instr.uses[i])
             /\ UseTypes[i].isMemUse = (regAssignments[Instr.uses[i]].region = "NONSTACK")
  BY <1>1 DEF UseTypes
<1> QED BY <1>2, <1>3, <1>4

LEMMA UseTypesRight ==
  ASSUME AtInstruction
  PROVE  OperandsOf(UseTypes, LocalsHere)
<1> DEFINE n == Len(Instr.uses)
           us == UseTypes
<1>1. n \in Nat
  BY InstrType DEF AtInstruction
<1>2. /\ Len(us) = n /\ DOMAIN us = 1 .. n
      /\ \A i \in 1 .. n :
           /\ us[i].reg = Instr.uses[i]
           /\ us[i].isLastUse = RegIsLastUse(Instr.uses[i])
           /\ us[i].isMemUse = (regAssignments[Instr.uses[i]].region = "NONSTACK")
  BY UseTypeAt
<1> HIDE DEF us
<1>3. ASSUME NEW i \in 1 .. n PROVE UseOf(us[i], LocalsHere)
  <2>1. Instr.uses[i] \in Elems(Instr.uses)
    BY InstrType DEF AtInstruction
  <2>2. OperandIn(fn, regAssignments, blk, idx, Instr.uses[i])
    BY <2>1 DEF AtInstruction
  <2>3. us[i].isLastUse \in BOOLEAN
    BY <1>2 DEF RegIsLastUse
  <2>4. us[i].isMemUse \in BOOLEAN
    BY <1>2
  <2>5. us[i].reg \in Nat /\ (us[i].isMemUse <=> us[i].reg \notin LocalsHere)
    BY <1>2, <2>2 DEF OperandIn, LocalsHere
  <2> QED BY <2>3, <2>4, <2>5 DEF UseOf
<1>4. \A i, j \in 1 .. n : us[i].reg = us[j].reg => us[i].isLastUse = us[j].isLastUse
  BY <1>2
<1>5. OperandsOf(us, LocalsHere)
  BY <1>1, <1>2, <1>3, <1>4 DEF OperandsOf
<1> QED BY <1>5 DEF us

(* calculateUseRegs finds every operand.                                   *)
LEMMA NoUseError ==
  ASSUME AtInstruction, HoldsExactly(stack, LocalsHere)
  PROVE  UseError = NoError
<1>1. \A r \in Elems(Instr.uses) : r \in DOMAIN regAssignments
  BY DEF AtInstruction, OperandIn
<1>2. \A r \in Elems(Instr.uses) : regAssignments[r].region # "NO_ALLOCATION"
  BY DEF AtInstruction, OperandIn
<1>3. ASSUME NEW r \in Elems(Instr.uses), ~InMemory(r) PROVE IsOnStack(stack, r)
  <2>1. r \in LocalsHere
    BY <1>3 DEF AtInstruction, OperandIn, InMemory, LocalsHere
  <2> QED BY <2>1, HeldIsOnStack
<1>4. /\ ~\E r \in Elems(Instr.uses) : r \notin DOMAIN regAssignments
      /\ ~\E r \in Elems(Instr.uses) : regAssignments[r].region = "NO_ALLOCATION"
      /\ ~\E r \in Elems(Instr.uses) : ~InMemory(r) /\ ~IsOnStack(stack, r)
  BY <1>1, <1>2, <1>3
<1> QED BY <1>4, Zenon DEF UseError

(* Without a hazard, operands that are used twice and kept on the stack,   *)
(* and with more than two operands those in memory, have a later use.      *)
Quiet(f, map, b, i) ==
  LET us == f.code[b][i].uses
  IN  /\ \A k, l \in DOMAIN us :
           (k # l /\ us[k] = us[l] /\ map[us[k]].region # "NONSTACK") =>
             UsedAfter(f, us[k], <<b, 2 * i>>)
      /\ Len(us) > 2 => \A k \in DOMAIN us :
           map[us[k]].region = "NONSTACK" => UsedAfter(f, us[k], <<b, 2 * i>>)

(* From where on uses count for the registers on the stack once the        *)
(* operands are gone: with more than two, cleanUpDeadRegisters drops them. *)
Pending(f, b, i) == IF Len(f.code[b][i].uses) > 2 THEN 2 * i ELSE 2 * i + 1

LEMMA NoOperandHazard ==
  ASSUME AtInstruction, HoldsExactly(stack, LocalsHere), OperandHazards(UseTypes) = {}
  PROVE  /\ ~InPlace(UseTypes, stack, Len(stack)) /\ ~Repeated(UseTypes)
         /\ ~DyingInMem(UseTypes)
<1>1. PICK us : us = UseTypes
  OBVIOUS
<1>2. OperandsOf(us, LocalsHere)
  BY <1>1, UseTypesRight
<1>3. PICK E : E = LocalsHere
  OBVIOUS
<1>4. ~Repeated(us)
  <2>1. SUFFICES ASSUME Repeated(us) PROVE FALSE
    OBVIOUS
  <2>2. "repeatedDying" \in OperandHazards(us)
    BY <1>2, <2>1 DEF Repeated, OperandHazards, OperandsOf
  <2> QED BY <1>1, <2>2
<1>5. ~DyingInMem(us)
  <2>1. SUFFICES ASSUME DyingInMem(us) PROVE FALSE
    OBVIOUS
  <2>2. "dyingInMemory" \in OperandHazards(us)
    BY <1>2, <2>1 DEF DyingInMem, OperandHazards, OperandsOf
  <2> QED BY <1>1, <2>2
<1>6. ~InPlace(us, stack, Len(stack))
  <2>1. SUFFICES ASSUME InPlace(us, stack, Len(stack)) PROVE FALSE
    OBVIOUS
  <2>2. PICK n \in Nat : n = Len(stack) /\ Fine(Gen(stack), n) /\ Gen(stack).stack = stack
                          /\ Distinct(stack, n, E)
    BY <1>3, HoldsFromStack
  <2>3. /\ Len(us) = 2 /\ ~us[1].isMemUse /\ ~us[2].isMemUse
        /\ us[1].isLastUse /\ ~us[2].isLastUse
        /\ stack[n - 1] = us[2].reg /\ stack[n] # us[1].reg
    BY <2>1, <2>2 DEF InPlace
  <2>4. UseOf(us[1], E) /\ UseOf(us[2], E)
    BY <1>2, <1>3, <2>3 DEF OperandsOf
  <2>5. us[1].reg \in E /\ us[2].reg \in E
    BY <2>3, <2>4 DEF UseOf
  <2>6. us[1].reg # us[2].reg
    BY <1>2, <2>3 DEF OperandsOf
  <2> DEFINE d1 == FindRegDepth(stack, us[1].reg)
             d2 == FindRegDepth(stack, us[2].reg)
  <2>7. d1 \in 0 .. n - 1 /\ stack[n - d1] = us[1].reg
    BY <2>2, <2>5, Depths
  <2>8. d2 \in 0 .. n - 1 /\ stack[n - d2] = us[2].reg
    BY <2>2, <2>5, Depths
  <2> HIDE DEF d1, d2
  <2>9. d1 # 0
    <3>1. n - 0 = n
      OBVIOUS
    <3> QED BY <2>3, <2>7, <3>1
  <2>10. n - 1 \in 1 .. n
    <3>1. n - d1 \in 1 .. n /\ n - d1 # n
      BY <2>7, <2>9
    <3> QED BY <3>1
  <2>11. n - d2 \in 1 .. n
    BY <2>8
  <2>12. n - d2 = n - 1
    BY <2>2, <2>3, <2>8, <2>10, <2>11 DEF Distinct
  <2>13. d2 = 1
    BY <2>8, <2>12
  <2>14. \A i \in 1 .. 2 : ~us[i].isMemUse
    BY <2>3
  <2>15. "twoInPlace" \in OperandHazards(us)
    BY <2>3, <2>9, <2>13, <2>14 DEF OperandHazards, d1, d2
  <2> QED BY <1>1, <2>15
<1> QED BY <1>1, <1>4, <1>5, <1>6

LEMMA DeadOperands ==
  ASSUME AtInstruction, NEW p, Handled(fn, regAssignments, p)
  PROVE  LocalsHere \ DeadIn(UseTypes, Len(UseTypes)) =
           Locals(fn, regAssignments, blk, 2 * idx + 1)
<1> DEFINE n == Len(Instr.uses)
           D == DeadIn(UseTypes, Len(UseTypes))
           After == Locals(fn, regAssignments, blk, 2 * idx + 1)
<1>1. IsFunction(fn) /\ blk \in Block(fn) /\ idx \in 1 .. Len(fn.code[blk])
  BY DEF AtInstruction
<1>2. \A r : r \in D <=> r \in Elems(Instr.uses) /\ RegIsLastUse(r)
  <2>1. Elems(Instr.uses) = { Instr.uses[i] : i \in 1 .. n }
    BY <1>1, InstrType
  <2>2. Len(UseTypes) = n /\ \A i \in 1 .. n : UseTypes[i].reg = Instr.uses[i]
          /\ UseTypes[i].isLastUse = RegIsLastUse(Instr.uses[i])
    BY UseTypeAt
  <2> QED BY <2>1, <2>2 DEF DeadIn
<1>3. \A r \in LocalsHere : RegIsLastUse(r) <=> ~UsedAfter(fn, r, Here)
  <2>1. \A r \in LocalsHere : ~InMemory(r)
    BY DEF LocalsHere, Locals, InMemory
  <2> QED BY <1>1, <2>1, LastUse
<1>4. ASSUME NEW r
      PROVE  r \in After <=>
               r \in LocalsHere /\ ~(r \in Elems(Instr.uses) /\ ~UsedAfter(fn, r, Here))
  BY <1>1, LocalsAfter DEF LocalsHere, Here, Instr
<1> HIDE DEF D, After
<1>5. LocalsHere \ D = After
  BY <1>2, <1>3, <1>4
<1> QED BY <1>5 DEF D, After

(* handleUses without a hazard.                                            *)
LEMMA UsesRight ==
  ASSUME AtInstruction, phase = "uses", NEW p, Handled(fn, regAssignments, p),
         HoldsExactly(stack, LocalsHere), OperandHazards(UseTypes) = {}
  PROVE  LET g == ConsumeOperands(Gen(stack), UseTypes)
         IN  /\ g.error = NoError
             /\ HoldsExactly(g.stack, Locals(fn, regAssignments, blk, Pending(fn, blk, idx)))
             /\ Quiet(fn, regAssignments, blk, idx)
<1> DEFINE g == ConsumeOperands(Gen(stack), UseTypes)
<1>1. PICK us : us = UseTypes
  OBVIOUS
<1>2. PICK n \in Nat : n = Len(Instr.uses)
  BY InstrType DEF AtInstruction
<1>3. ~InPlace(us, stack, Len(stack)) /\ ~Repeated(us) /\ ~DyingInMem(us)
  BY <1>1, NoOperandHazard
<1>4. Len(us) = n /\ OperandsOf(us, LocalsHere)
  BY <1>1, <1>2, UseTypeAt, UseTypesRight
<1>5. Consumed(g, us, LocalsHere, FALSE)
  <2>1. Len(stack) \in Nat /\ Fine(Gen(stack), Len(stack)) /\ Gen(stack).stack = stack
        /\ Distinct(stack, Len(stack), LocalsHere)
    BY HoldsFromStack
  <2>2. FALSE \in BOOLEAN
    OBVIOUS
  <2>3. PICK E : E = LocalsHere
    OBVIOUS
  <2> QED BY <1>1, <1>3, <1>4, <2>1, <2>2, <2>3, ConsumeRight
<1> HIDE DEF g
<1>6. g.error = NoError
  BY <1>3, <1>5 DEF Consumed
<1>7. HoldsExactly(g.stack, Locals(fn, regAssignments, blk, Pending(fn, blk, idx)))
  <2>1. CASE n > 2
    <3>1. Pending(fn, blk, idx) = 2 * idx
      BY <1>2, <2>1 DEF Pending, Instr
    <3>2. Holds(g, LocalsHere)
      BY <1>4, <1>5, <1>6, <2>1 DEF Consumed
    <3> QED BY <3>1, <3>2, StackFromHolds DEF LocalsHere
  <2>2. CASE ~(n > 2)
    <3>1. Pending(fn, blk, idx) = 2 * idx + 1
      BY <1>2, <2>2 DEF Pending, Instr
    <3>2. Holds(g, LocalsHere \ DeadIn(us, Len(us)))
      BY <1>4, <1>5, <1>6, <2>2 DEF Consumed
    <3>3. LocalsHere \ DeadIn(us, Len(us)) = Locals(fn, regAssignments, blk, 2 * idx + 1)
      BY <1>1, DeadOperands, SMTT(40)
    <3> QED BY <3>1, <3>2, <3>3, StackFromHolds
  <2> QED BY <2>1, <2>2
<1>8. Quiet(fn, regAssignments, blk, idx)
  <2>1. DOMAIN Instr.uses = 1 .. n
    BY <1>2, InstrType DEF AtInstruction
  <2>2. \A i \in 1 .. n :
          /\ us[i].reg = Instr.uses[i]
          /\ us[i].isLastUse = RegIsLastUse(Instr.uses[i])
          /\ us[i].isMemUse = (regAssignments[Instr.uses[i]].region = "NONSTACK")
    BY <1>1, <1>2, UseTypeAt
  <2>3. \A r : RegIsLastUse(r) <=> ~UsedAfter(fn, r, Here)
    BY LastUse DEF AtInstruction
  <2>4. ASSUME NEW k \in 1 .. n, NEW l \in 1 .. n, k # l, Instr.uses[k] = Instr.uses[l],
               regAssignments[Instr.uses[k]].region # "NONSTACK"
        PROVE  UsedAfter(fn, Instr.uses[k], Here)
    <3>1. us[k].reg = us[l].reg /\ ~us[k].isMemUse
      BY <2>2, <2>4
    <3>2. ~us[k].isLastUse
      BY <1>3, <1>4, <2>4, <3>1 DEF Repeated
    <3> QED BY <2>2, <2>3, <3>2
  <2>5. ASSUME n > 2, NEW k \in 1 .. n, regAssignments[Instr.uses[k]].region = "NONSTACK"
        PROVE  UsedAfter(fn, Instr.uses[k], Here)
    <3>1. ~us[k].isLastUse
      BY <1>3, <1>4, <2>2, <2>5 DEF DyingInMem
    <3> QED BY <2>2, <2>3, <3>1
  <2> QED BY <1>2, <2>1, <2>4, <2>5 DEF Quiet, Instr, Here
<1> QED BY <1>6, <1>7, <1>8 DEF g

(* cleanUpDeadRegisters without a hazard.                                  *)
LEMMA CleanedRight ==
  ASSUME AtInstruction, NEW p, Handled(fn, regAssignments, p),
         Quiet(fn, regAssignments, blk, idx),
         HoldsExactly(stack, Locals(fn, regAssignments, blk, Pending(fn, blk, idx)))
  PROVE  LET g == IF Len(Instr.uses) > 2 THEN CleanUp(Gen(stack), UseTypes) ELSE Gen(stack)
         IN  /\ g.error = NoError
             /\ HoldsExactly(g.stack, Locals(fn, regAssignments, blk, 2 * idx + 1))
<1> DEFINE n == Len(Instr.uses)
           After == Locals(fn, regAssignments, blk, 2 * idx + 1)
<1>1. n \in Nat
  BY InstrType DEF AtInstruction
<1>2. CASE n > 2
  <2>1. PICK us : us = UseTypes
    OBVIOUS
  <2>2. HoldsExactly(stack, LocalsHere)
    BY <1>2 DEF Pending, Instr, LocalsHere
  <2>3. Holds(Gen(stack), LocalsHere)
    BY <2>2, HoldsFromStack
  <2> DEFINE c == CleanUp(Gen(stack), us)
  <2>4. Len(us) = n
    BY <2>1, UseTypeAt
  <2>5. Dropped(c, us, LocalsHere, n)
    BY <1>1, <1>2, <2>3, <2>4, CleanUpRight
  <2> HIDE DEF c
  <2>6. \A i \in 1 .. n :
          /\ us[i].reg = Instr.uses[i]
          /\ us[i].isLastUse = RegIsLastUse(Instr.uses[i])
    BY <2>1, UseTypeAt
  <2>7. DOMAIN Instr.uses = 1 .. n /\ \A i \in 1 .. n : Instr.uses[i] \in Elems(Instr.uses)
    BY InstrType DEF AtInstruction
  <2>8. ASSUME NEW i \in 1 .. n, us[i].isLastUse
        PROVE  us[i].reg \in LocalsHere \ DeadIn(us, i - 1)
    <3>1. ~UsedAfter(fn, Instr.uses[i], Here)
      BY <2>6, <2>8, LastUse DEF AtInstruction
    <3>2. OperandIn(fn, regAssignments, blk, idx, Instr.uses[i])
      BY <2>7, SMTT(40) DEF AtInstruction
    <3>3. regAssignments[Instr.uses[i]].region # "NONSTACK"
      BY <1>2, <2>7, <3>1, SMTT(40) DEF Quiet, Instr, Here
    <3>4. us[i].reg \in LocalsHere
      BY <2>6, <3>2, <3>3 DEF OperandIn, LocalsHere
    <3>5. ASSUME us[i].reg \in DeadIn(us, i - 1) PROVE FALSE
      <4>1. PICK j \in 1 .. i - 1 : us[j].reg = us[i].reg
        BY <3>5 DEF DeadIn
      <4>2. j \in 1 .. n /\ j # i
        BY <1>1
      <4>3. Instr.uses[i] = Instr.uses[j]
        BY <2>6, <4>1, <4>2
      <4> QED BY <2>7, <3>1, <3>3, <4>2, <4>3 DEF Quiet, Instr, Here
    <3> QED BY <3>4, <3>5
  <2>9. OnceOnStack(us, LocalsHere, n)
    BY <2>8 DEF OnceOnStack
  <2>10. Holds(c, LocalsHere \ DeadIn(us, n))
    BY <2>5, <2>9 DEF Dropped
  <2>11. LocalsHere \ DeadIn(us, n) = After
    BY <2>1, <2>4, DeadOperands
  <2>12. c.error = NoError /\ HoldsExactly(c.stack, After)
    BY <2>10, <2>11, StackFromHolds
  <2> QED BY <1>2, <2>1, <2>12 DEF c
<1>3. CASE ~(n > 2)
  <2>1. HoldsExactly(stack, After)
    BY <1>3 DEF Pending, Instr
  <2>2. Gen(stack).error = NoError /\ Gen(stack).stack = stack
    BY DEF Gen
  <2> QED BY <1>3, <2>1, <2>2
<1> QED BY <1>2, <1>3
-----------------------------------------------------------------------------
(* The inductive invariant.                                                *)
Walk ==
  /\ fn \in Functions \cup FollowUps
  /\ blk \in Block(fn)
  /\ phase \in {"begin", "uses", "def", "clean", "end", "done"}
  /\ phase \in {"uses", "def", "clean", "end"} => idx \in 1 .. Len(fn.code[blk])
  /\ phase = "end" => idx = Len(fn.code[blk])

HandledSoFar ==
  /\ phase = "begin" => Handled(fn, regAssignments, <<blk, 0>>)
  /\ phase \in {"uses", "def"} => Handled(fn, regAssignments, <<blk, 2 * idx>>)
  /\ phase \in {"clean", "end"} => Handled(fn, regAssignments, <<blk, 2 * idx + 1>>)

(* What holds as long as no hazard was met.                                *)
Undisturbed ==
  /\ error = NoError
  /\ phase \in {"uses", "def", "clean"} => Arrived(fn, regAssignments, blk)
  /\ phase \in {"def", "clean"} => Quiet(fn, regAssignments, blk, idx)
  /\ phase = "uses" => HoldsExactly(stack, Locals(fn, regAssignments, blk, 2 * idx))
  /\ phase \in {"def", "clean"} =>
       HoldsExactly(stack, Locals(fn, regAssignments, blk, Pending(fn, blk, idx)))
  /\ phase = "end" => stack = << >>

ExecInv == Walk /\ HandledSoFar /\ (hazards = {} => Undisturbed)

LEMMA WalkFunction ==
  ASSUME Walk PROVE IsFunction(fn) /\ fn.n \in Nat \ {0} /\ blk \in Nat
<1>1. IsFunction(fn)
  BY MachineFunctions DEF Walk, IsFunction
<1> QED BY <1>1 DEF IsFunction, IsCFG, Walk, Block

LEMMA Untouched ==
  ASSUME NEW f, IsFunction(f)
  PROVE  1 \in Block(f) /\ Handled(f, NoAssignments, <<1, 0>>)
<1>1. 1 \in Block(f)
  BY DEF IsFunction, IsCFG, Block
<1>2. DOMAIN NoAssignments = {}
  BY DEF NoAssignments
<1>3. ASSUME NEW r, NEW d \in DefSites(f, r) PROVE ~Before(d, <<1, 0>>)
  <2>1. PICK c, j : DefShape(f, d, c, j)
    BY DefShapes
  <2>2. c \in Nat /\ c >= 1 /\ j \in Nat /\ d[1] = c /\ d[2] = 2 * j
    BY <2>1 DEF DefShape
  <2>3. Before(d, <<1, 0>>) <=> c < 1 \/ (c = 1 /\ 2 * j < 0)
    BY <2>2 DEF Before
  <2> QED BY <2>2, <2>3
<1>4. Handled(f, NoAssignments, <<1, 0>>)
  BY <1>2, <1>3 DEF Handled
<1> QED BY <1>1, <1>4

LEMMA ExecInvInit == ExecInit => ExecInv
<1> SUFFICES ASSUME ExecInit PROVE ExecInv
  OBVIOUS
<1>1. /\ blk = 1 /\ idx = 1 /\ phase = "begin" /\ error = NoError
      /\ regAssignments = NoAssignments /\ fn \in Functions
  BY DEF ExecInit, Init, EdgeInit, StartEdgeSets
<1>2. IsFunction(fn)
  BY <1>1, MachineFunctions DEF IsFunction
<1>3. 1 \in Block(fn) /\ Handled(fn, NoAssignments, <<1, 0>>)
  BY <1>2, Untouched
<1> QED BY <1>1, <1>3 DEF ExecInv, Walk, HandledSoFar, Undisturbed

(* Steps that leave the pass where it is.                                  *)
LEMMA ExecInvSame ==
  ASSUME ExecInv, UNCHANGED <<fn, allocVars>>
  PROVE  ExecInv'
  BY DEF ExecInv, Walk, HandledSoFar, Undisturbed, allocVars

LEMMA NextBlockInv ==
  ASSUME Walk, NextBlock, UNCHANGED <<fn, regAssignments>>,
         blk < fn.n => Handled(fn, regAssignments, <<blk + 1, 0>>)
  PROVE  Walk' /\ HandledSoFar'
<1>1. fn.n \in Nat \ {0} /\ blk \in Nat /\ blk \in 1 .. fn.n
  BY WalkFunction DEF Walk, Block
<1>2. CASE blk < fn.n
  <2>1. blk' = blk + 1 /\ phase' = "begin" /\ fn' = fn /\ regAssignments' = regAssignments
    BY <1>2 DEF NextBlock
  <2>2. blk' \in Block(fn')
    BY <1>1, <1>2, <2>1 DEF Block
  <2> QED BY <1>2, <2>1, <2>2 DEF Walk, HandledSoFar
<1>3. CASE ~(blk < fn.n)
  <2>1. blk' = blk /\ phase' = "done" /\ fn' = fn
    BY <1>3 DEF NextBlock
  <2> QED BY <2>1 DEF Walk, HandledSoFar
<1> QED BY <1>2, <1>3

LEMMA SkipEmptyBlockInv == ASSUME ExecInv, SkipEmptyBlock PROVE ExecInv'
<1>1. Walk /\ Handled(fn, regAssignments, <<blk, 0>>) /\ fn.code[blk] = << >> /\ IsFunction(fn)
      /\ blk \in Block(fn)
  BY WalkFunction DEF ExecInv, HandledSoFar, SkipEmptyBlock, Running, IsEmptyBlock, Walk
<1>2. SameDefs(fn, <<blk, 0>>, <<blk + 1, 0>>)
  BY <1>1, IntoNextBlock
<1>3. Handled(fn, regAssignments, <<blk + 1, 0>>)
  BY <1>1, <1>2, HandledSame
<1>4. Walk' /\ HandledSoFar'
  BY <1>1, <1>3, NextBlockInv DEF SkipEmptyBlock, edgeVars
<1>5. hazards' = hazards /\ error' = NoError /\ phase' \in {"begin", "done"}
  BY DEF SkipEmptyBlock, Running, NextBlock
<1> QED BY <1>4, <1>5 DEF ExecInv, Undisturbed

LEMMA BeginEntryBlockInv == ASSUME ExecInv, BeginEntryBlock PROVE ExecInv'
<1>1. Walk /\ Handled(fn, regAssignments, <<1, 0>>) /\ IsFunction(fn) /\ IsMachineFunction(fn)
      /\ blk = 1 /\ 1 \in Block(fn) /\ fn.code[1] # << >>
  BY WalkFunction DEF ExecInv, HandledSoFar, BeginEntryBlock, Running, IsEmptyBlock, Walk, IsFunction
<1>2. DOMAIN regAssignments = {}
  <2>1. DOMAIN NoAssignments = {} /\ Handled(fn, NoAssignments, <<1, 0>>)
    BY <1>1, Untouched DEF NoAssignments
  <2> QED BY <1>1, <2>1 DEF Handled
<1> DEFINE a == StackArgs
<1>3. Holds(a.g, ArgsOn(fn, Len(fn.args))) /\ ArgRegions(fn, a.map, ArgsDone(fn, Len(fn.args)))
  BY <1>1, <1>2, ArgsRight DEF ArgsTaken
<1>4. /\ stack' = a.g.stack /\ regAssignments' = a.map /\ error' = a.g.error
      /\ fn' = fn /\ blk' = 1 /\ idx' = 1 /\ phase' = "uses" /\ hazards' = hazards
  BY <1>1 DEF BeginEntryBlock, EnterBlock, edgeVars
<1> HIDE DEF a
<1>5. Handled(fn, a.map, <<1, 2 * 1>>)
  BY <1>1, <1>3, EntryHandled
<1>6. Locals(fn, a.map, 1, 2 * 1) = ArgsOn(fn, Len(fn.args))
  BY <1>1, <1>3, EntryLocals
<1>7. a.g.error = NoError /\ HoldsExactly(a.g.stack, Locals(fn, a.map, 1, 2 * 1))
  BY <1>3, <1>6, StackFromHolds
<1>8. 1 \in 1 .. Len(fn.code[1])
  <2>1. fn.code[1] \in Seq([def : Nat, uses : Seq(Nat \ {NoReg})])
    BY <1>1 DEF IsMachineFunction
  <2> QED BY <1>1, <2>1
<1>9. Walk' /\ HandledSoFar'
  BY <1>1, <1>4, <1>5, <1>8 DEF Walk, HandledSoFar
<1>10. Undisturbed'
  BY <1>4, <1>7 DEF Undisturbed, Arrived
<1> QED BY <1>9, <1>10 DEF ExecInv

LEMMA BeginBlockInv == ASSUME ExecInv, BeginBlock PROVE ExecInv'
<1>1. Walk /\ Handled(fn, regAssignments, <<blk, 0>>) /\ IsFunction(fn) /\ IsMachineFunction(fn)
      /\ blk # 1 /\ blk \in Block(fn) /\ fn.code[blk] # << >>
  BY WalkFunction DEF ExecInv, HandledSoFar, BeginBlock, Running, IsEmptyBlock, Walk, IsFunction
<1>2. /\ stack' = << >> /\ regAssignments' = regAssignments /\ error' = error /\ error = NoError
      /\ fn' = fn /\ blk' = blk /\ idx' = 1 /\ phase' = "uses"
      /\ hazards' = hazards \cup LayoutHazards(LayoutAtBegin)
  BY DEF BeginBlock, EnterBlock, edgeVars, Running
<1>3. 1 \in 1 .. Len(fn.code[blk])
  <2>1. fn.code[blk] \in Seq([def : Nat, uses : Seq(Nat \ {NoReg})])
    BY <1>1 DEF IsMachineFunction
  <2> QED BY <1>1, <2>1
<1>4. SameDefs(fn, <<blk, 0>>, <<blk, 2 * 1>>)
  BY <1>1, IntoBlock
<1>5. Handled(fn, regAssignments, <<blk, 2 * 1>>)
  BY <1>1, <1>4, HandledSame
<1>6. Walk' /\ HandledSoFar'
  BY <1>1, <1>2, <1>3, <1>5 DEF Walk, HandledSoFar
<1>7. ASSUME hazards' = {} PROVE Undisturbed'
  <2>1. LayoutHazards(LayoutAtBegin) = {}
    BY <1>2, <1>7
  <2>2. Arrived(fn, regAssignments, blk)
    BY <1>1, <2>1, BlockArrived
  <2>3. Locals(fn, regAssignments, blk, 2 * 1) = {}
    BY <1>1, NoLocalsYet
  <2>4. HoldsExactly(<< >>, Locals(fn, regAssignments, blk, 2 * 1))
    BY <2>3, HoldsEmpty
  <2> QED BY <1>2, <2>2, <2>4 DEF Undisturbed
<1> QED BY <1>6, <1>7 DEF ExecInv

(* In a function without hazards the operands are where they should be.    *)
LEMMA Operands ==
  ASSUME ExecInv, hazards = {}, phase \in {"uses", "def", "clean"}
  PROVE  AtInstruction
<1>1. IsFunction(fn) /\ blk \in Block(fn) /\ idx \in 1 .. Len(fn.code[blk])
  BY WalkFunction DEF ExecInv, Walk
<1>2. Arrived(fn, regAssignments, blk)
  BY DEF ExecInv, Undisturbed
<1>3. PICK p : (p = <<blk, 2 * idx>> \/ p = <<blk, 2 * idx + 1>>) /\ Handled(fn, regAssignments, p)
  BY DEF ExecInv, HandledSoFar
<1>4. \A r \in Elems(fn.code[blk][idx].uses) : OperandIn(fn, regAssignments, blk, idx, r)
  BY <1>1, <1>2, <1>3, OperandAssigned
<1> QED BY <1>1, <1>4 DEF AtInstruction, Instr

LEMMA HandleUsesInv == ASSUME ExecInv, HandleUses PROVE ExecInv'
<1> DEFINE g == ConsumeOperands(Gen(stack), UseTypes)
<1>1. /\ phase = "uses" /\ stack' = g.stack /\ error' = g.error
      /\ hazards' = hazards \cup OperandHazards(UseTypes) /\ phase' = "def"
      /\ fn' = fn /\ blk' = blk /\ idx' = idx /\ regAssignments' = regAssignments
  BY DEF HandleUses, Running, edgeVars
<1>2. Handled(fn, regAssignments, <<blk, 2 * idx>>)
  BY <1>1 DEF ExecInv, HandledSoFar
<1> HIDE DEF g
<1>3. Walk' /\ HandledSoFar'
  BY <1>1, <1>2 DEF ExecInv, Walk, HandledSoFar
<1>4. ASSUME hazards' = {} PROVE Undisturbed'
  <2>1. hazards = {} /\ OperandHazards(UseTypes) = {}
    BY <1>1, <1>4
  <2>2. AtInstruction
    BY <1>1, <2>1, Operands
  <2>3. HoldsExactly(stack, LocalsHere) /\ Arrived(fn, regAssignments, blk)
    BY <1>1, <2>1 DEF ExecInv, Undisturbed, LocalsHere
  <2>4. /\ g.error = NoError
        /\ HoldsExactly(g.stack, Locals(fn, regAssignments, blk, Pending(fn, blk, idx)))
        /\ Quiet(fn, regAssignments, blk, idx)
    BY <1>1, <1>2, <2>1, <2>2, <2>3, UsesRight DEF g
  <2> QED BY <1>1, <2>3, <2>4 DEF Undisturbed
<1> QED BY <1>3, <1>4 DEF ExecInv

(* The assertions of calculateUseRegs hold.                                *)
LEMMA BadUseInv == ASSUME ExecInv, BadUse PROVE ExecInv'
<1>1. /\ fn' = fn /\ blk' = blk /\ idx' = idx /\ phase' = phase /\ stack' = stack
      /\ regAssignments' = regAssignments /\ hazards' = hazards /\ UseError # NoError
      /\ phase = "uses" \/ (phase = "clean" /\ Len(Instr.uses) > 2)
  BY DEF BadUse, edgeVars, Running
<1>2. Walk' /\ HandledSoFar'
  BY <1>1 DEF ExecInv, Walk, HandledSoFar
<1>3. ASSUME hazards = {} PROVE FALSE
  <2>1. AtInstruction
    BY <1>1, <1>3, Operands
  <2>2. HoldsExactly(stack, LocalsHere)
    BY <1>1, <1>3 DEF ExecInv, Undisturbed, LocalsHere, Pending, Instr
  <2> QED BY <1>1, <2>1, <2>2, NoUseError
<1> QED BY <1>1, <1>2, <1>3 DEF ExecInv

(* A new assignment leaves the operands of the instruction alone.          *)
LEMMA DefKeeps ==
  ASSUME AtInstruction, Arrived(fn, regAssignments, blk), Quiet(fn, regAssignments, blk, idx),
         NEW r, NEW region, NEW slot
  PROVE  /\ Arrived(fn, Assign(regAssignments, r, region, slot), blk)
         /\ Quiet(fn, Assign(regAssignments, r, region, slot), blk, idx)
<1>1. PICK new : new = Assign(regAssignments, r, region, slot)
  OBVIOUS
<1>2. DOMAIN new = DOMAIN regAssignments \cup {r}
      /\ \A t \in DOMAIN regAssignments : new[t] = regAssignments[t]
  BY <1>1 DEF Assign
<1>3. Arrived(fn, new, blk)
  BY <1>2 DEF Arrived
<1> DEFINE us == fn.code[blk][idx].uses
<1>4. \A k \in DOMAIN us : us[k] \in DOMAIN regAssignments
  <2>1. \A t \in Elems(us) : t \in DOMAIN regAssignments
    BY DEF AtInstruction, OperandIn, Instr
  <2> QED BY <2>1 DEF Elems
<1>5. \A k \in DOMAIN us : new[us[k]] = regAssignments[us[k]]
  BY <1>2, <1>4, SMTT(40)
<1>6. Quiet(fn, new, blk, idx)
  BY <1>5 DEF Quiet
<1> QED BY <1>1, <1>3, <1>6

LEMMA DefNothingInv == ASSUME ExecInv, DefNothing PROVE ExecInv'
<1>1. /\ fn' = fn /\ blk' = blk /\ idx' = idx /\ phase = "def" /\ phase' = "clean"
      /\ stack' = stack /\ regAssignments' = regAssignments /\ hazards' = hazards
      /\ error' = error /\ fn.code[blk][idx].def = NoReg
  BY DEF DefNothing, edgeVars, Running, Instr
<1>2. IsFunction(fn) /\ blk \in Block(fn) /\ idx \in 1 .. Len(fn.code[blk])
      /\ Handled(fn, regAssignments, <<blk, 2 * idx>>)
  BY <1>1, WalkFunction DEF ExecInv, Walk, HandledSoFar
<1>3. Handled(fn, regAssignments, <<blk, 2 * idx + 1>>)
  BY <1>1, <1>2, HandledNoDef
<1>4. Walk' /\ HandledSoFar'
  BY <1>1, <1>3 DEF ExecInv, Walk, HandledSoFar
<1>5. hazards = {} => Undisturbed'
  BY <1>1 DEF ExecInv, Undisturbed
<1> QED BY <1>1, <1>4, <1>5 DEF ExecInv

(* What the three other branches have in common.                           *)
LEMMA DefInv ==
  ASSUME ExecInv, phase = "def", Instr.def # NoReg, NEW region, NEW slot,
         RegionFits(fn, Instr.def, Here, region),
         fn' = fn, blk' = blk, idx' = idx, phase' = "clean",
         regAssignments' = Assign(regAssignments, Instr.def, region, slot)
  PROVE  /\ Walk' /\ HandledSoFar'
         /\ hazards = {} => Arrived(fn, regAssignments', blk) /\ Quiet(fn, regAssignments', blk, idx)
<1>1. IsFunction(fn) /\ blk \in Block(fn) /\ idx \in 1 .. Len(fn.code[blk])
      /\ Handled(fn, regAssignments, <<blk, 2 * idx>>)
  BY WalkFunction DEF ExecInv, Walk, HandledSoFar
<1>2. PICK r : r = Instr.def /\ r = fn.code[blk][idx].def
  BY DEF Instr
<1>3. RegionFits(fn, r, <<blk, 2 * idx>>, region)
  BY <1>2 DEF Here
<1>4. Handled(fn, Assign(regAssignments, r, region, slot), <<blk, 2 * idx + 1>>)
  BY <1>1, <1>2, <1>3, HandledDef
<1>5. Walk' /\ HandledSoFar'
  BY <1>2, <1>4 DEF ExecInv, Walk, HandledSoFar
<1>6. ASSUME hazards = {}
      PROVE  Arrived(fn, regAssignments', blk) /\ Quiet(fn, regAssignments', blk, idx)
  <2>1. AtInstruction
    BY <1>6, Operands
  <2>2. Arrived(fn, regAssignments, blk) /\ Quiet(fn, regAssignments, blk, idx)
    BY <1>6 DEF ExecInv, Undisturbed
  <2> QED BY <2>1, <2>2, DefKeeps
<1> QED BY <1>5, <1>6

LEMMA DefUnusedInv == ASSUME ExecInv, DefUnused PROVE ExecInv'
<1>1. /\ fn' = fn /\ blk' = blk /\ idx' = idx /\ phase = "def" /\ phase' = "clean"
      /\ regAssignments' = Assign(regAssignments, Instr.def, "NO_ALLOCATION", 0)
      /\ hazards' # {} /\ Instr.def # NoReg /\ UseSites(fn, Instr.def) = {}
  BY DEF DefUnused, edgeVars, Running, Unused
<1>2. RegionFits(fn, Instr.def, Here, "NO_ALLOCATION")
  BY <1>1 DEF RegionFits, Region
<1>3. Walk' /\ HandledSoFar'
  BY <1>1, <1>2, DefInv
<1> QED BY <1>1, <1>3 DEF ExecInv

LEMMA DefLocalInv == ASSUME ExecInv, DefLocal PROVE ExecInv'
<1>1. /\ fn' = fn /\ blk' = blk /\ idx' = idx /\ phase = "def" /\ phase' = "clean"
      /\ regAssignments' = Assign(regAssignments, Instr.def, "L_STACK", 0)
      /\ stack' = Append(stack, Instr.def) /\ error' = error /\ hazards' = hazards
      /\ Instr.def # NoReg /\ UseSites(fn, Instr.def) # {} /\ DefIsLocal(fn, Instr.def, Here)
  BY DEF DefLocal, edgeVars, Running, Unused, Push
<1>2. RegionFits(fn, Instr.def, Here, "L_STACK")
  BY <1>1 DEF RegionFits, Region
<1>3. /\ Walk' /\ HandledSoFar'
      /\ hazards = {} => Arrived(fn, regAssignments', blk) /\ Quiet(fn, regAssignments', blk, idx)
  BY <1>1, <1>2, DefInv
<1>4. IsFunction(fn) /\ blk \in Block(fn) /\ idx \in 1 .. Len(fn.code[blk])
      /\ Handled(fn, regAssignments, <<blk, 2 * idx>>)
  BY <1>1, WalkFunction DEF ExecInv, Walk, HandledSoFar
<1>5. PICK r : r = Instr.def /\ r = fn.code[blk][idx].def
  BY DEF Instr
<1>6. r \in Nat /\ r \notin DOMAIN regAssignments
  <2>1. DefSites(fn, r) = {Here}
    BY <1>1, <1>5 DEF DefIsLocal
  <2> QED BY <1>1, <1>4, <1>5, <2>1, NewRegister
<1>7. PICK q : q = Pending(fn, blk, idx) /\ (q = 2 * idx \/ q = 2 * idx + 1)
  BY DEF Pending
<1>8. PICK E : E = Locals(fn, regAssignments, blk, q)
  OBVIOUS
<1>9. Locals(fn, regAssignments', blk, q) = E \cup {r} /\ r \notin E
  <2>1. DefIsLocal(fn, r, <<blk, 2 * idx>>) /\ UseSites(fn, r) # {}
    BY <1>1, <1>5 DEF Here
  <2> QED BY <1>1, <1>4, <1>5, <1>6, <1>7, <1>8, <2>1, LocalsDefined, SMTT(40)
<1>10. ASSUME hazards = {} PROVE HoldsExactly(stack', Locals(fn, regAssignments', blk, q))
  <2>1. HoldsExactly(stack, E)
    BY <1>1, <1>7, <1>8, <1>10 DEF ExecInv, Undisturbed
  <2>2. PICK m \in Nat : m = Len(stack) /\ stack \in Seq(Nat) /\ Distinct(stack, m, E)
    BY <2>1 DEF HoldsExactly
  <2>3. PICK st : st = Append(stack, r)
    OBVIOUS
  <2>4. /\ st \in Seq(Nat) /\ Len(st) = m + 1 /\ st[m + 1] = r
        /\ \A i \in 1 .. m : st[i] = stack[i]
    BY <1>6, <2>2, <2>3
  <2>5. \A i \in 1 .. m + 1 : i \in 1 .. m \/ i = m + 1
    OBVIOUS
  <2>6. m + 1 \in 1 .. m + 1 /\ \A i \in 1 .. m : i \in 1 .. m + 1
    OBVIOUS
  <2>7. Distinct(st, m + 1, E \cup {r})
    BY <1>9, <2>2, <2>4, <2>5, <2>6, SMTT(40) DEF Distinct
  <2> QED BY <1>1, <1>5, <1>9, <2>3, <2>4, <2>7 DEF HoldsExactly
<1>11. hazards = {} => error = NoError
  BY DEF ExecInv, Undisturbed
<1>12. hazards = {} => Undisturbed'
  BY <1>1, <1>3, <1>7, <1>10, <1>11 DEF Undisturbed
<1> QED BY <1>1, <1>3, <1>12 DEF ExecInv

LEMMA DefMemoryInv == ASSUME ExecInv, DefMemory PROVE ExecInv'
<1>1. PICK slot : slot = AllocatedSlot(memoryAssignment)
  OBVIOUS
<1>2. /\ fn' = fn /\ blk' = blk /\ idx' = idx /\ phase = "def" /\ phase' = "clean"
      /\ regAssignments' = Assign(regAssignments, Instr.def, "NONSTACK", slot)
      /\ stack' = stack /\ error' = error /\ (hazards' = {} => hazards = {})
      /\ Instr.def # NoReg
  BY <1>1 DEF DefMemory, edgeVars, Running
<1>3. RegionFits(fn, Instr.def, Here, "NONSTACK")
  BY DEF RegionFits, Region
<1>4. /\ Walk' /\ HandledSoFar'
      /\ hazards = {} => Arrived(fn, regAssignments', blk) /\ Quiet(fn, regAssignments', blk, idx)
  BY <1>2, <1>3, DefInv
<1>5. \A q : Locals(fn, regAssignments', blk, q) = Locals(fn, regAssignments, blk, q)
  BY <1>2, LocalsSame
<1>6. hazards = {} => Undisturbed'
  BY <1>2, <1>4, <1>5 DEF ExecInv, Undisturbed
<1> QED BY <1>2, <1>4, <1>6 DEF ExecInv

LEMMA CleanUpInv == ASSUME ExecInv, CleanUpDeadRegisters PROVE ExecInv'
<1> DEFINE g == IF Len(Instr.uses) > 2 THEN CleanUp(Gen(stack), UseTypes) ELSE Gen(stack)
<1>1. /\ fn' = fn /\ blk' = blk /\ phase = "clean" /\ regAssignments' = regAssignments
      /\ stack' = g.stack /\ error' = g.error /\ (hazards' = {} => hazards = {})
      /\ IF idx < Len(fn.code[blk]) THEN idx' = idx + 1 /\ phase' = "uses"
         ELSE idx' = idx /\ phase' = "end"
  BY DEF CleanUpDeadRegisters, edgeVars, Running
<1>2. IsFunction(fn) /\ blk \in Block(fn) /\ idx \in 1 .. Len(fn.code[blk])
      /\ Handled(fn, regAssignments, <<blk, 2 * idx + 1>>)
  BY <1>1, WalkFunction DEF ExecInv, Walk, HandledSoFar
<1>3. Len(fn.code[blk]) \in Nat /\ idx \in Nat
  BY <1>2, CodeType DEF IsFunction
<1>4. ASSUME hazards = {}
      PROVE  g.error = NoError /\ HoldsExactly(g.stack, Locals(fn, regAssignments, blk, 2 * idx + 1))
             /\ Arrived(fn, regAssignments, blk)
  <2>1. AtInstruction
    BY <1>1, <1>4, Operands
  <2>2. /\ Quiet(fn, regAssignments, blk, idx) /\ Arrived(fn, regAssignments, blk)
        /\ HoldsExactly(stack, Locals(fn, regAssignments, blk, Pending(fn, blk, idx)))
    BY <1>1, <1>4 DEF ExecInv, Undisturbed
  <2> QED BY <1>2, <2>1, <2>2, CleanedRight
<1> HIDE DEF g
<1>5. CASE idx < Len(fn.code[blk])
  <2>1. idx' = idx + 1 /\ phase' = "uses"
    BY <1>1, <1>5
  <2>2. idx + 1 \in 1 .. Len(fn.code[blk])
    BY <1>3, <1>5
  <2>3. SameDefs(fn, <<blk, 2 * idx + 1>>, <<blk, 2 * (idx + 1)>>)
    BY <1>2, NextInstruction
  <2>4. Handled(fn, regAssignments, <<blk, 2 * (idx + 1)>>)
    BY <1>2, <2>3, HandledSame
  <2>5. Locals(fn, regAssignments, blk, 2 * idx + 1) = Locals(fn, regAssignments, blk, 2 * (idx + 1))
    BY <1>2, LocalsNext
  <2>6. Walk' /\ HandledSoFar'
    BY <1>1, <2>1, <2>2, <2>4 DEF ExecInv, Walk, HandledSoFar
  <2>7. hazards = {} => Undisturbed'
    BY <1>1, <1>4, <2>1, <2>5 DEF Undisturbed
  <2> QED BY <1>1, <2>6, <2>7 DEF ExecInv
<1>6. CASE ~(idx < Len(fn.code[blk]))
  <2>1. idx' = idx /\ phase' = "end" /\ idx = Len(fn.code[blk])
    BY <1>1, <1>2, <1>3, <1>6
  <2>2. Walk' /\ HandledSoFar'
    BY <1>1, <1>2, <2>1 DEF ExecInv, Walk, HandledSoFar
  <2>3. Locals(fn, regAssignments, blk, 2 * idx + 1) = {}
    BY <1>2, <2>1, LocalsNext
  <2>4. hazards = {} => g.error = NoError /\ g.stack = << >>
    BY <1>4, <2>3, HoldsEmpty
  <2>5. hazards = {} => Undisturbed'
    BY <1>1, <2>1, <2>4 DEF Undisturbed
  <2> QED BY <1>1, <2>2, <2>5 DEF ExecInv
<1> QED BY <1>5, <1>6

LEMMA EndOfBlockInv == ASSUME ExecInv, EndOfBlock PROVE ExecInv'
<1>1. /\ fn' = fn /\ phase = "end" /\ regAssignments' = regAssignments /\ hazards' = hazards
      /\ error = NoError
  BY DEF EndOfBlock, edgeVars, Running
<1>2. Walk /\ IsFunction(fn) /\ blk \in Block(fn) /\ idx = Len(fn.code[blk])
      /\ Handled(fn, regAssignments, <<blk, 2 * idx + 1>>)
  BY <1>1, WalkFunction DEF ExecInv, Walk, HandledSoFar
<1>3. CASE stack = << >>
  <2>1. NextBlock /\ error' = error
    BY <1>3 DEF EndOfBlock
  <2>2. SameDefs(fn, <<blk, 2 * idx + 1>>, <<blk + 1, 0>>)
    BY <1>2, IntoNextBlock
  <2>3. Handled(fn, regAssignments, <<blk + 1, 0>>)
    BY <1>2, <2>2, HandledSame
  <2>4. Walk' /\ HandledSoFar'
    BY <1>1, <1>2, <2>1, <2>3, NextBlockInv
  <2>5. phase' \in {"begin", "done"}
    BY <2>1 DEF NextBlock
  <2> QED BY <1>1, <2>1, <2>4, <2>5 DEF ExecInv, Undisturbed
<1>4. CASE stack # << >>
  <2>1. blk' = blk /\ idx' = idx /\ phase' = phase
    BY <1>4 DEF EndOfBlock
  <2>2. Walk' /\ HandledSoFar'
    BY <1>1, <2>1 DEF ExecInv, Walk, HandledSoFar
  <2>3. hazards # {}
    BY <1>1, <1>4 DEF ExecInv, Undisturbed
  <2> QED BY <1>1, <2>2, <2>3 DEF ExecInv
<1> QED BY <1>3, <1>4

LEMMA NextFunctionInv == ASSUME NextFunction PROVE ExecInv'
<1>1. /\ fn' \in FollowUps /\ blk' = 1 /\ idx' = 1 /\ phase' = "begin"
      /\ regAssignments' = NoAssignments /\ error' = error /\ error = NoError
  BY DEF NextFunction, Running
<1>2. PICK f : f = fn'
  OBVIOUS
<1>3. IsFunction(f)
  BY <1>1, <1>2, MachineFunctions DEF IsFunction
<1>4. 1 \in Block(f) /\ Handled(f, NoAssignments, <<1, 0>>)
  BY <1>3, Untouched
<1> QED BY <1>1, <1>2, <1>4 DEF ExecInv, Walk, HandledSoFar, Undisturbed

LEMMA CompileInv == ASSUME ExecInv, Next PROVE ExecInv'
<1>1. CASE ComputeEdgeSets
  <2>1. UNCHANGED <<fn, allocVars>>
    BY <1>1 DEF ComputeEdgeSets, EdgeNext, MergePred, PredsMerged, MergeSucc, SuccsMerged
  <2> QED BY <2>1, ExecInvSame
<1>2. CASE SkipEmptyBlock BY <1>2, SkipEmptyBlockInv
<1>3. CASE BeginEntryBlock BY <1>3, BeginEntryBlockInv
<1>4. CASE BeginBlock BY <1>4, BeginBlockInv
<1>5. CASE HandleUses BY <1>5, HandleUsesInv
<1>6. CASE BadUse BY <1>6, BadUseInv
<1>7. CASE DefNothing BY <1>7, DefNothingInv
<1>8. CASE DefUnused BY <1>8, DefUnusedInv
<1>9. CASE DefLocal BY <1>9, DefLocalInv
<1>10. CASE DefMemory BY <1>10, DefMemoryInv
<1>11. CASE CleanUpDeadRegisters BY <1>11, CleanUpInv
<1>12. CASE EndOfBlock BY <1>12, EndOfBlockInv
<1>13. CASE NextFunction BY <1>13, NextFunctionInv
<1> QED BY <1>1, <1>2, <1>3, <1>4, <1>5, <1>6, <1>7, <1>8, <1>9, <1>10, <1>11, <1>12,
           <1>13 DEF Next

LEMMA ExecInvNext == ExecInv /\ [ExecNext]_allVars => ExecInv'
<1> SUFFICES ASSUME ExecInv, [ExecNext]_allVars PROVE ExecInv'
  OBVIOUS
<1>1. CASE Compile
  BY <1>1, CompileInv DEF Compile
<1>2. CASE UNCHANGED vars
  BY <1>2, ExecInvSame DEF vars, edgeVars
<1>3. CASE Start
  BY <1>2, <1>3 DEF Start
<1>4. CASE ExecStep
  BY <1>2, <1>4 DEF ExecStep
<1>5. CASE Branch
  BY <1>2, <1>5 DEF Branch
<1>6. CASE UNCHANGED allVars
  BY <1>2, <1>6 DEF allVars
<1> QED BY <1>1, <1>3, <1>4, <1>5, <1>6 DEF ExecNext

(* The walk over blocks and instructions, the regions of regAssignments    *)
(* and, in functions without a hazard, the contents of the symbolic stack. *)
THEOREM ExecInvariant == ExecSpec => []ExecInv
BY ExecInvInit, ExecInvNext, PTL DEF ExecSpec

(* EVMStackAlloc, for machine functions of any number, shape and size:     *)
(* none of its assertions and llvm_unreachables fails in a function that   *)
(* meets none of the listed hazards, so the list is complete.              *)
THEOREM HazardsComplete == ExecSpec => []OnlyHazardsFail
<1>1. ExecInv => OnlyHazardsFail
  BY DEF ExecInv, Undisturbed, OnlyHazardsFail
<1> QED BY <1>1, ExecInvariant, PTL

(* In a function without hazards every register kept on the stack that is  *)
(* used again in its block is there before every instruction, once: moving *)
(* at the last use, copying elsewhere and the pops of                      *)
(* cleanUpDeadRegisters never lose or duplicate one.                       *)
THEOREM LocalsStay == ExecSpec => []LocalsKept
<1>1. ExecInv => LocalsKept
  <2> SUFFICES ASSUME ExecInv, hazards = {}, Running("uses") PROVE LocalsOnStack
    BY DEF LocalsKept, LocalsOnStack
  <2>1. phase = "uses" /\ HoldsExactly(stack, LocalsHere)
    BY DEF ExecInv, Undisturbed, Running, LocalsHere
  <2>2. IsFunction(fn) /\ blk \in Block(fn) /\ idx \in 1 .. Len(fn.code[blk])
    BY <2>1, WalkFunction DEF ExecInv, Walk
  <2>3. blk \in Nat /\ idx \in Nat
    BY <2>2, CodeType, WalkFunction DEF IsFunction, ExecInv
  <2>4. ASSUME NEW r \in DOMAIN regAssignments, regAssignments[r].region = "L_STACK",
               NEW u \in UseSites(fn, r), u[1] = blk, ~Before(u, Here)
        PROVE  IsOnStack(stack, r)
    <3>1. PICK c, j : UseShape(fn, u, c, j)
      BY <2>2, UseShapes
    <3>2. j \in Nat /\ u[2] = 2 * j
      BY <3>1 DEF UseShape
    <3>3. ~(2 * j < 2 * idx)
      BY <2>4, <3>2 DEF Before, Here
    <3>4. u[2] >= 2 * idx
      BY <2>3, <3>2, <3>3
    <3>5. r \in LocalsHere
      BY <2>4, <3>4 DEF LocalsHere, Locals, UsedFrom
    <3> QED BY <2>1, <3>5, HeldIsOnStack
  <2>5. \A i, j \in DOMAIN stack : i # j => stack[i] # stack[j]
    <3>1. stack \in Seq(Nat) /\ DOMAIN stack = 1 .. Len(stack)
      BY <2>1 DEF HoldsExactly
    <3> QED BY <2>1, <3>1 DEF HoldsExactly, Distinct
  <2> QED BY <2>4, <2>5 DEF LocalsOnStack
<1> QED BY <1>1, ExecInvariant, PTL
-----------------------------------------------------------------------------
(* Emitted code on a machine whose stack holds registers.  A state is a    *)
(* triple: the stack, the set of the registers whose slot holds their      *)
(* value, and the next instruction of the block.                           *)
IsTriple(t, x, y, z) == t = <<x, y, z>> /\ t[1] = x /\ t[2] = y /\ t[3] = z

LEMMA Triple ==
  ASSUME NEW x, NEW y, NEW z
  PROVE  \E t : IsTriple(t, x, y, z)
<1> DEFINE t == <<x, y, z>>
<1>1. IsTriple(t, x, y, z)
  BY DEF IsTriple
<1> QED BY <1>1

Loadable(map, V) == { <<map[r].slot, r>> : r \in V }

MoveStep(map, o, s, t) ==
  SymStep(o, s[1], t[1], Loadable(map, s[2])) /\ t[2] = s[2] /\ t[3] = s[3]

PutStep(map, o, s, t) ==
  /\ o.op = "PUTLOCAL"
  /\ \E r \in DOMAIN map :
       /\ map[r].slot = o.n
       /\ s[1] = Append(t[1], r)
       /\ t[2] = s[2] \cup {r}
       /\ \A q \in s[2] : q # r => map[q].slot # o.n
  /\ t[3] = s[3]

(* What an instruction leaves of stack s, and what it puts there.          *)
Took(in, s) ==
  /\ Len(s) >= Len(in.uses)
  /\ \A i \in 1 .. Len(in.uses) : Get(s, i - 1) = in.uses[i]

Gave(in, s) == IF in.def = NoReg THEN s ELSE Append(s, in.def)

InstrStep(c, o, s, t) ==
  /\ o.op = "MI" /\ o.n = s[3] /\ o.n \in 1 .. Len(c) /\ t[3] = s[3] + 1
  /\ Took(c[o.n], s[1])
  /\ t[1] = Gave(c[o.n], Below(s[1], Len(c[o.n].uses)))
  /\ c[o.n].def # NoReg => \A i \in 1 .. Len(s[1]) - Len(c[o.n].uses) : s[1][i] # c[o.n].def
  /\ t[2] = s[2] \ {c[o.n].def}

RunStep(c, map, o, s, t) ==
  MoveStep(map, o, s, t) \/ PutStep(map, o, s, t) \/ InstrStep(c, o, s, t)

IsState(map, s) ==
  /\ s = <<s[1], s[2], s[3]>>
  /\ s[1] \in Seq(Nat) /\ s[2] \subseteq DOMAIN map /\ s[3] \in Nat

RunTrace(h, c, map, code, n, s, t) ==
  /\ h[1] = s /\ h[n + 1] = t
  /\ \A i \in 1 .. n + 1 : IsState(map, h[i])
  /\ \A i \in 1 .. n : RunStep(c, map, code[i], h[i], h[i + 1])

Runs(c, map, code, s, t) ==
  \E n \in Nat : IsCode(code, n) /\ \E h : RunTrace(h, c, map, code, n, s, t)

LEMMA RunsNothing ==
  ASSUME NEW c, NEW map, NEW s, IsState(map, s)
  PROVE  Runs(c, map, << >>, s, s)
<1>1. IsCode(<< >>, 0)
  BY DEF IsCode
<1>2. RunTrace([i \in 1 .. 1 |-> s], c, map, << >>, 0, s, s)
  BY DEF RunTrace
<1> QED BY <1>1, <1>2 DEF Runs

LEMMA RunsStep ==
  ASSUME NEW c, NEW map, NEW s, NEW t, NEW u, IsState(map, u), NEW code,
         Runs(c, map, code, s, t), NEW o \in OpSet, RunStep(c, map, o, t, u)
  PROVE  Runs(c, map, Append(code, o), s, u)
<1>1. PICK n \in Nat : IsCode(code, n) /\ \E h : RunTrace(h, c, map, code, n, s, t)
  BY DEF Runs
<1>2. PICK h : RunTrace(h, c, map, code, n, s, t)
  BY <1>1
<1> DEFINE k == [i \in 1 .. n + 2 |-> IF i = n + 2 THEN u ELSE h[i]]
           new == Append(code, o)
<1>3. IsCode(new, n + 1) /\ new[n + 1] = o /\ \A i \in 1 .. n : new[i] = code[i]
  BY ZenonT(60), <1>1, AppendCode
<1>4. k[n + 2] = u /\ \A i \in 1 .. n + 1 : k[i] = h[i]
  OBVIOUS
<1> HIDE DEF k, new
<1>5. k[1] = s /\ k[(n + 1) + 1] = u
  BY <1>2, <1>4 DEF RunTrace
<1>6. ASSUME NEW i \in 1 .. (n + 1) + 1 PROVE IsState(map, k[i])
  <2>1. i = n + 2 \/ i \in 1 .. n + 1
    OBVIOUS
  <2>2. \A j \in 1 .. n + 1 : IsState(map, h[j])
    BY <1>2 DEF RunTrace
  <2> QED BY <1>4, <2>1, <2>2
<1>7. ASSUME NEW i \in 1 .. n + 1 PROVE RunStep(c, map, new[i], k[i], k[i + 1])
  <2>1. CASE i = n + 1
    <3>1. new[i] = o /\ k[i] = t /\ k[i + 1] = u
      BY <1>2, <1>3, <1>4, <2>1 DEF RunTrace
    <3> QED BY <3>1
  <2>2. CASE i # n + 1
    <3>1. i \in 1 .. n /\ i \in 1 .. n + 1 /\ i + 1 \in 1 .. n + 1
      BY <2>2
    <3>2. new[i] = code[i] /\ k[i] = h[i] /\ k[i + 1] = h[i + 1]
      BY <1>3, <1>4, <3>1
    <3> QED BY <1>2, <3>1, <3>2 DEF RunTrace
  <2> QED BY <2>1, <2>2
<1>8. RunTrace(k, c, map, new, n + 1, s, u)
  BY <1>5, <1>6, <1>7 DEF RunTrace
<1>9. n + 1 \in Nat
  OBVIOUS
<1>10. Runs(c, map, new, s, u)
  BY <1>3, <1>8, <1>9 DEF Runs
<1> QED BY <1>10 DEF new

(* Code followed by what the helpers insert.                               *)
Joined(all, a, m, b, n) ==
  /\ IsCode(all, m + n)
  /\ \A i \in 1 .. m : all[i] = a[i]
  /\ \A i \in 1 .. n : all[m + i] = b[i]

LEMMA ConcatCode ==
  ASSUME NEW a, NEW m, IsCode(a, m), NEW b, NEW n, IsCode(b, n)
  PROVE  Joined(a \o b, a, m, b, n)
<1>1. a \in Seq(OpSet) /\ b \in Seq(OpSet) /\ m = Len(a) /\ n = Len(b) /\ m \in Nat /\ n \in Nat
  BY DEF IsCode
<1>2. PICK S : S = OpSet
  OBVIOUS
<1>3. a \in Seq(S) /\ b \in Seq(S)
  BY <1>1, <1>2
<1>4. /\ a \o b \in Seq(S) /\ Len(a \o b) = m + n
      /\ \A i \in 1 .. m + n : (a \o b)[i] = IF i <= m THEN a[i] ELSE b[i - m]
  BY <1>1, <1>3, ConcatProperties
<1>5. \A i \in 1 .. m : i \in 1 .. m + n /\ i <= m
  BY <1>1
<1>6. \A i \in 1 .. n : m + i \in 1 .. m + n /\ ~(m + i <= m) /\ (m + i) - m = i
  BY <1>1
<1>7. m + n \in Nat
  BY <1>1
<1>8. \A i \in 1 .. n : (a \o b)[m + i] = b[i]
  BY <1>4, <1>6
<1>9. \A i \in 1 .. m : (a \o b)[i] = a[i]
  BY <1>4, <1>5
<1> QED BY <1>2, <1>4, <1>7, <1>8, <1>9 DEF IsCode, Joined

LEMMA RunsTracks ==
  ASSUME NEW c, NEW map, NEW s, NEW t, NEW code, Runs(c, map, code, s, t),
         NEW more, NEW st, Tracks(more, t[1], st, Loadable(map, t[2]), Nat)
  PROVE  Runs(c, map, code \o more, s, <<st, t[2], t[3]>>)
<1>1. PICK m \in Nat : IsCode(code, m) /\ \E h : RunTrace(h, c, map, code, m, s, t)
  BY DEF Runs
<1>2. PICK h : RunTrace(h, c, map, code, m, s, t)
  BY <1>1
<1>3. PICK M : M = Loadable(map, t[2])
  OBVIOUS
<1>4. PICK n \in Nat : IsCode(more, n) /\ \E e : SymTrace(e, more, n, t[1], st, M, Nat)
  BY <1>3 DEF Tracks
<1>5. PICK e : SymTrace(e, more, n, t[1], st, M, Nat)
  BY <1>4
<1>6. PICK all : all = code \o more
  OBVIOUS
<1>7. IsCode(all, m + n) /\ (\A i \in 1 .. m : all[i] = code[i])
      /\ (\A i \in 1 .. n : all[m + i] = more[i])
  <2>1. Joined(code \o more, code, m, more, n)
    BY <1>1, <1>4, ConcatCode
  <2> QED BY <1>6, <2>1 DEF Joined
<1>8. m + n \in Nat
  OBVIOUS
<1> DEFINE u == <<st, t[2], t[3]>>
           k == [i \in 1 .. (m + n) + 1 |->
                   IF i <= m THEN h[i] ELSE <<e[i - m], t[2], t[3]>>]
<1>9. \A i \in 1 .. m : k[i] = h[i]
  OBVIOUS
<1>10. \A i \in 1 .. n + 1 : k[m + i][1] = e[i] /\ k[m + i][2] = t[2] /\ k[m + i][3] = t[3]
                              /\ k[m + i] = <<e[i], t[2], t[3]>>
  <2>1. \A i \in 1 .. n + 1 : m + i \in 1 .. (m + n) + 1 /\ ~(m + i <= m) /\ (m + i) - m = i
    OBVIOUS
  <2>2. \A i \in 1 .. n + 1 : k[m + i] = <<e[i], t[2], t[3]>>
    BY <2>1
  <2> QED BY <2>2
<1> HIDE DEF k, u
<1>11. h[m + 1] = t /\ IsState(map, t) /\ h[1] = s
  <2>1. m + 1 \in 1 .. m + 1
    OBVIOUS
  <2> QED BY <1>2, <2>1 DEF RunTrace
<1>12. e[1] = t[1] /\ e[n + 1] = st /\ \A i \in 1 .. n + 1 : e[i] \in Seq(Nat)
  BY <1>5 DEF SymTrace
<1>13. k[m + 1] = t
  <2>1. 1 \in 1 .. n + 1
    OBVIOUS
  <2> QED BY <1>10, <1>11, <1>12, <2>1 DEF IsState
<1>14. \A i \in 1 .. n + 1 : IsState(map, k[m + i])
  BY <1>10, <1>11, <1>12 DEF IsState
<1>15. \A i \in 1 .. (m + n) + 1 : IsState(map, k[i])
  <2>1. \A i \in 1 .. m : IsState(map, k[i])
    <3>1. \A i \in 1 .. m : i \in 1 .. m + 1
      OBVIOUS
    <3> QED BY <1>2, <1>9, <3>1 DEF RunTrace
  <2>2. ASSUME NEW i \in 1 .. (m + n) + 1 PROVE IsState(map, k[i])
    <3>1. CASE i \in 1 .. m BY <2>1, <3>1
    <3>2. CASE i \notin 1 .. m
      <4>1. i - m \in 1 .. n + 1 /\ m + (i - m) = i
        BY <3>2
      <4> QED BY <1>14, <4>1
    <3> QED BY <3>1, <3>2
  <2> QED BY <2>2
<1>16. \A i \in 1 .. n : RunStep(c, map, more[i], k[m + i], k[m + (i + 1)])
  <2> SUFFICES ASSUME NEW i \in 1 .. n PROVE RunStep(c, map, more[i], k[m + i], k[m + (i + 1)])
    OBVIOUS
  <2>1. i \in 1 .. n + 1 /\ i + 1 \in 1 .. n + 1
    OBVIOUS
  <2>2. SymStep(more[i], e[i], e[i + 1], M)
    BY <1>5 DEF SymTrace
  <2> QED BY <1>3, <1>10, <2>1, <2>2 DEF RunStep, MoveStep
<1>17. \A i \in 1 .. m : RunStep(c, map, code[i], k[i], k[i + 1])
  <2> SUFFICES ASSUME NEW i \in 1 .. m PROVE RunStep(c, map, code[i], k[i], k[i + 1])
    OBVIOUS
  <2>1. RunStep(c, map, code[i], h[i], h[i + 1])
    BY <1>2 DEF RunTrace
  <2>2. CASE i # m
    <3>1. i + 1 \in 1 .. m
      BY <2>2
    <3> QED BY <1>9, <2>1, <3>1
  <2>3. CASE i = m
    BY <1>9, <1>11, <1>13, <2>1, <2>3
  <2> QED BY <2>2, <2>3
<1>18. \A i \in 1 .. m + n : RunStep(c, map, all[i], k[i], k[i + 1])
  <2> SUFFICES ASSUME NEW i \in 1 .. m + n PROVE RunStep(c, map, all[i], k[i], k[i + 1])
    OBVIOUS
  <2>1. CASE i \in 1 .. m BY <1>7, <1>17, <2>1
  <2>2. CASE i \notin 1 .. m
    <3>1. i - m \in 1 .. n /\ m + (i - m) = i /\ m + ((i - m) + 1) = i + 1
      BY <2>2
    <3> QED BY <1>7, <1>16, <3>1
  <2> QED BY <2>1, <2>2
<1>19. k[(m + n) + 1] = u
  <2>1. n + 1 \in 1 .. n + 1 /\ m + (n + 1) = (m + n) + 1
    OBVIOUS
  <2> QED BY <1>10, <1>12, <2>1 DEF u
<1>20. k[1] = s
  <2>1. CASE m = 0 BY <1>11, <1>13, <2>1
  <2>2. CASE m # 0
    <3>1. 1 \in 1 .. m
      BY <2>2
    <3> QED BY <1>9, <1>11, <3>1
  <2> QED BY <2>1, <2>2
<1>21. RunTrace(k, c, map, all, m + n, s, u)
  BY <1>15, <1>18, <1>19, <1>20 DEF RunTrace
<1>22. Runs(c, map, all, s, u)
  BY <1>7, <1>8, <1>21 DEF Runs
<1> QED BY <1>6, <1>22 DEF u

(* The assignments are only added to.                                      *)
Extends(map, new) == \A r \in DOMAIN map : r \in DOMAIN new /\ new[r] = map[r]

LEMMA RunStepGrow ==
  ASSUME NEW c, NEW map, NEW new, Extends(map, new), NEW o, NEW s, NEW t,
         IsState(map, s), RunStep(c, map, o, s, t)
  PROVE  RunStep(c, new, o, s, t)
<1>1. \A r \in s[2] : r \in DOMAIN map /\ new[r] = map[r]
  BY DEF IsState, Extends
<1>2. CASE MoveStep(map, o, s, t)
  <2>1. Loadable(new, s[2]) = Loadable(map, s[2])
    BY <1>1 DEF Loadable
  <2> QED BY <1>2, <2>1 DEF MoveStep, RunStep
<1>3. CASE PutStep(map, o, s, t)
  <2>1. PICK r \in DOMAIN map :
          /\ map[r].slot = o.n
          /\ s[1] = Append(t[1], r)
          /\ t[2] = s[2] \cup {r}
          /\ \A q \in s[2] : q # r => map[q].slot # o.n
    BY <1>3 DEF PutStep
  <2>2. r \in DOMAIN new /\ new[r].slot = o.n
    BY <2>1 DEF Extends
  <2>3. \A q \in s[2] : q # r => new[q].slot # o.n
    BY <1>1, <2>1
  <2> QED BY <1>3, <2>1, <2>2, <2>3 DEF PutStep, RunStep
<1>4. CASE InstrStep(c, o, s, t)
  BY <1>4 DEF RunStep
<1> QED BY <1>2, <1>3, <1>4 DEF RunStep

LEMMA RunsGrow ==
  ASSUME NEW c, NEW map, NEW new, Extends(map, new), NEW code, NEW s, NEW t,
         Runs(c, map, code, s, t)
  PROVE  Runs(c, new, code, s, t)
<1>1. PICK n \in Nat : IsCode(code, n) /\ \E h : RunTrace(h, c, map, code, n, s, t)
  BY DEF Runs
<1>2. PICK h : RunTrace(h, c, map, code, n, s, t)
  BY <1>1
<1>3. \A i \in 1 .. n + 1 : IsState(map, h[i])
  BY <1>2 DEF RunTrace
<1>4. \A i \in 1 .. n + 1 : IsState(new, h[i])
  BY <1>3 DEF IsState, Extends
<1>5. ASSUME NEW i \in 1 .. n PROVE RunStep(c, new, code[i], h[i], h[i + 1])
  <2>1. i \in 1 .. n + 1
    OBVIOUS
  <2>2. RunStep(c, map, code[i], h[i], h[i + 1]) /\ IsState(map, h[i])
    BY <1>2, <1>3, <2>1 DEF RunTrace
  <2> QED BY <2>2, RunStepGrow
<1>6. RunTrace(h, c, new, code, n, s, t)
  BY <1>2, <1>4, <1>5 DEF RunTrace
<1> QED BY <1>1, <1>6 DEF Runs

LEMMA RunsEnd ==
  ASSUME NEW c, NEW map, NEW code, NEW s, NEW t, Runs(c, map, code, s, t)
  PROVE  IsState(map, t) /\ IsState(map, s) /\ code \in Seq(OpSet)
<1>1. PICK n \in Nat : IsCode(code, n) /\ \E h : RunTrace(h, c, map, code, n, s, t)
  BY DEF Runs
<1>2. PICK h : RunTrace(h, c, map, code, n, s, t)
  BY <1>1
<1>3. 1 \in 1 .. n + 1 /\ n + 1 \in 1 .. n + 1
  OBVIOUS
<1> QED BY <1>1, <1>2, <1>3 DEF RunTrace, IsCode
-----------------------------------------------------------------------------
(* The registers kept in memory that block b needs when it starts, and     *)
(* those that it defines before position q.                                *)
Needed(f, map, b) ==
  { r \in DOMAIN map : b # 1 /\ map[r].region = "NONSTACK" /\ b \in LiveInBlocks(f, r) }

DefinedIn(f, map, b, q) ==
  { r \in DOMAIN map : map[r].region = "NONSTACK" /\ \E d \in DefSites(f, r) : d[1] = b /\ d[2] < q }

Kept(f, map, b, q) == Needed(f, map, b) \cup DefinedIn(f, map, b, q)

EntryState(f, map, b) == <<IF b = 1 THEN f.args ELSE << >>, Needed(f, map, b), 1>>

(* Every register live at the start of block b was assigned before.        *)
LiveArrived(f, map, b) ==
  b = 1 \/ \A r \in VRegs(f) : b \in LiveInBlocks(f, r) => r \in DOMAIN map

(* The registers V have their slots.                                       *)
Owned(mem, map, V) ==
  \A r \in V : /\ r \in DOMAIN map /\ r # NoReg /\ map[r].slot \in Nat
               /\ map[r].slot + 1 \in DOMAIN mem /\ mem[map[r].slot + 1] = r

(* A new register has no definition in block b before q.                   *)
NewAfter(f, map, new, b, q) ==
  \A r \in DOMAIN new : r \notin DOMAIN map =>
    r \in VRegs(f) /\ \A d \in DefSites(f, r) : ~(d[1] = b /\ d[2] < q)

LEMMA KeptGrow ==
  ASSUME NEW f, NEW map, NEW new, Extends(map, new), NEW b, LiveArrived(f, map, b),
         NEW q, NewAfter(f, map, new, b, q)
  PROVE  /\ EntryState(f, new, b) = EntryState(f, map, b)
         /\ Kept(f, new, b, q) = Kept(f, map, b, q)
         /\ LiveArrived(f, new, b)
<1>1. Needed(f, new, b) = Needed(f, map, b)
  <2>1. \A r \in Needed(f, map, b) : r \in Needed(f, new, b)
    BY DEF Needed, Extends
  <2>2. ASSUME NEW r \in Needed(f, new, b) PROVE r \in Needed(f, map, b)
    <3>1. r \in DOMAIN new /\ b # 1 /\ new[r].region = "NONSTACK" /\ b \in LiveInBlocks(f, r)
      BY DEF Needed
    <3>2. r \in DOMAIN map
      BY <3>1 DEF LiveArrived, NewAfter
    <3> QED BY <3>1, <3>2 DEF Needed, Extends
  <2> QED BY <2>1, <2>2
<1>2. DefinedIn(f, new, b, q) = DefinedIn(f, map, b, q)
  BY DEF DefinedIn, Extends, NewAfter
<1>3. LiveArrived(f, new, b)
  BY DEF LiveArrived, Extends
<1> QED BY <1>1, <1>2, <1>3 DEF EntryState, Kept

LEMMA AssignExtends ==
  ASSUME NEW map, NEW r, NEW region, NEW slot
  PROVE  Extends(map, Assign(map, r, region, slot))
  BY DEF Extends, Assign

(* handleDef at instruction k of block b assigns a register that no        *)
(* earlier instruction defines.                                            *)
LEMMA AssignAfter ==
  ASSUME NEW f, IsFunction(f), NEW b \in Block(f), NEW k \in 1 .. Len(f.code[b]),
         NEW map, Handled(f, map, <<b, 2 * k>>), NEW r, r = f.code[b][k].def, r # NoReg,
         NEW region, NEW slot
  PROVE  /\ NewAfter(f, map, Assign(map, r, region, slot), b, 2 * k)
         /\ \A a \in Block(f) : \A q : a < b =>
              NewAfter(f, map, Assign(map, r, region, slot), a, q)
<1> DEFINE new == Assign(map, r, region, slot)
<1>1. r \in VRegs(f)
  BY NewRegister
<1>2. \A x \in DOMAIN new : x \notin DOMAIN map => x = r
  BY DEF Assign
<1>3. b \in Nat
  BY DEF Block, IsFunction, IsCFG
<1>4. ASSUME r \notin DOMAIN map, NEW d \in DefSites(f, r)
      PROVE  ~(d[1] = b /\ d[2] < 2 * k) /\ ~(d[1] < b)
  <2>1. ~Before(d, <<b, 2 * k>>)
    BY <1>1, <1>4 DEF Handled
  <2> QED BY <2>1 DEF Before
<1> HIDE DEF new
<1>5. NewAfter(f, map, new, b, 2 * k)
  BY <1>1, <1>2, <1>4 DEF NewAfter
<1>6. ASSUME NEW a \in Block(f), NEW q, a < b PROVE NewAfter(f, map, new, a, q)
  BY <1>1, <1>2, <1>4, <1>6 DEF NewAfter
<1> QED BY <1>5, <1>6 DEF new

(* The code emitted for block b so far leads from the start of the block   *)
(* to stack st and instruction next, with the registers K in memory.       *)
PartRun(f, map, mem, b, code, st, next, K) ==
  \E V : /\ Runs(f.code[b], map, code, EntryState(f, map, b), <<st, V, next>>)
         /\ Owned(mem, map, V) /\ K \subseteq V

Added(K, L, d) == \A r \in K : r \in L \/ r = d

LEMMA KeptAfter ==
  ASSUME NEW f, IsFunction(f), NEW b \in Block(f), NEW k \in 1 .. Len(f.code[b]), NEW map
  PROVE  /\ Added(Kept(f, map, b, 2 * k + 1), Kept(f, map, b, 2 * k), f.code[b][k].def)
         /\ Kept(f, map, b, 2 * (k + 1)) \subseteq Kept(f, map, b, 2 * k + 1)
<1>1. IsMachineFunction(f) /\ k \in Nat
  BY CodeType DEF IsFunction
<1>2. ASSUME NEW r \in DefinedIn(f, map, b, 2 * k + 1), r \notin DefinedIn(f, map, b, 2 * k)
      PROVE  r = f.code[b][k].def
  <2>1. PICK d \in DefSites(f, r) : d[1] = b /\ d[2] < 2 * k + 1
    BY DEF DefinedIn
  <2>2. ~(d[2] < 2 * k)
    BY <1>2, <2>1 DEF DefinedIn
  <2>3. PICK c, j : DefShape(f, d, c, j)
    BY DefShapes
  <2>4. c = b /\ j \in Nat /\ d = <<c, 2 * j>> /\ d[2] = 2 * j
    BY <2>1, <2>3 DEF DefShape
  <2>5. j = k
    BY <1>1, <2>1, <2>2, <2>4
  <2>6. f.code[b][k].def = r
    BY <1>1, <2>4, <2>5, DefAt
  <2> QED BY <2>6
<1>3. ASSUME NEW r \in DefinedIn(f, map, b, 2 * (k + 1)) PROVE r \in DefinedIn(f, map, b, 2 * k + 1)
  <2>1. PICK d \in DefSites(f, r) : d[1] = b /\ d[2] < 2 * (k + 1)
    BY DEF DefinedIn
  <2>2. PICK c, j : DefShape(f, d, c, j)
    BY DefShapes
  <2>3. j \in Nat /\ d[2] = 2 * j
    BY <2>2 DEF DefShape
  <2>4. d[2] < 2 * k + 1
    BY <1>1, <2>1, <2>3
  <2> QED BY <2>1, <2>4 DEF DefinedIn
<1> QED BY <1>2, <1>3 DEF Kept, Added

(* An operand in memory is one that the block needs from the start or has  *)
(* defined before.                                                         *)
LEMMA OperandKept ==
  ASSUME NEW f, IsFunction(f), NEW b \in Block(f), NEW k \in 1 .. Len(f.code[b]),
         NEW map, NEW r \in DOMAIN map, map[r].region = "NONSTACK",
         r \in Elems(f.code[b][k].uses)
  PROVE  r \in Kept(f, map, b, 2 * k)
<1> DEFINE u == <<b, 2 * k>>
<1>1. IsMachineFunction(f) /\ k \in Nat /\ b \in Nat
  BY CodeType DEF IsFunction, Block, IsCFG
<1>2. u \in UseSites(f, r) /\ u[1] = b /\ u[2] = 2 * k
  BY <1>1, UseAt
<1>3. CASE \E d \in DefSites(f, r) : d[1] = b /\ Before(d, u)
  <2>1. PICK d \in DefSites(f, r) : d[1] = b /\ Before(d, u)
    BY <1>3
  <2>2. d[2] < 2 * k
    BY <1>1, <1>2, <2>1 DEF Before
  <2> QED BY <2>1, <2>2 DEF Kept, DefinedIn
<1>4. CASE ~ \E d \in DefSites(f, r) : d[1] = b /\ Before(d, u)
  <2>1. Exposed(f, r, b)
    BY <1>2, <1>4 DEF Exposed
  <2>2. b \in LiveInBlocks(f, r)
    BY <2>1, ExposedLive
  <2>3. b # 1
    <3>1. SUFFICES ASSUME b = 1 PROVE FALSE
      OBVIOUS
    <3>2. u \in Sites(f) /\ InstrAt(f, u) = f.code[b][k]
      BY <1>1, SiteOf
    <3>3. PICK d \in DefSites(f, r) : Before(d, u)
      BY <1>1, <1>2, <3>1, <3>2 DEF IsMachineFunction
    <3>4. PICK c, j : DefShape(f, d, c, j)
      BY DefShapes
    <3>5. d[1] \in Nat /\ d[1] >= 1
      BY <3>4 DEF DefShape
    <3>6. d[1] = 1
      BY <1>2, <3>1, <3>3, <3>5 DEF Before
    <3> QED BY <1>4, <3>1, <3>3, <3>6
  <2> QED BY <2>2, <2>3 DEF Kept, Needed
<1> QED BY <1>3, <1>4

(* The operands of an instruction as calculateUseRegs finds them.          *)
OperandsFound(us, in, map, K) ==
  /\ Len(us) = Len(in.uses)
  /\ \A i \in 1 .. Len(in.uses) :
       /\ us[i].reg = in.uses[i]
       /\ us[i].isMemUse => us[i].reg \in K /\ us[i].slot = map[us[i].reg].slot

(* handleUses and the instruction.                                         *)
LEMMA UsesPart ==
  ASSUME NEW f, IsFunction(f), NEW b \in Block(f), NEW k \in 1 .. Len(f.code[b]),
         NEW map, NEW mem, NEW code, NEW st, NEW K, PartRun(f, map, mem, b, code, st, k, K),
         NEW in, in = f.code[b][k], NEW us, OperandsFound(us, in, map, K),
         NEW c, c = ConsumeOperands(Gen(st), us), c.error = NoError,
         in.def # NoReg => \A i \in 1 .. Len(c.stack) : c.stack[i] # in.def,
         DOMAIN map \subseteq Nat
  PROVE  PartRun(f, map, mem, b, code \o c.code \o <<Op("MI", k)>>, Gave(in, c.stack), k + 1,
                 K \ {in.def})
<1>1. PICK V : /\ Runs(f.code[b], map, code, EntryState(f, map, b), <<st, V, k>>)
               /\ Owned(mem, map, V) /\ K \subseteq V
  BY DEF PartRun
<1>2. PICK M : M = Loadable(map, V)
  OBVIOUS
<1>3. IsMachineFunction(f) /\ in.uses \in Seq(Nat \ {NoReg}) /\ in.def \in Nat /\ k \in Nat
  BY CodeType DEF IsFunction
<1>4. PICK n \in Nat : n = Len(in.uses) /\ n = Len(us)
  BY <1>3 DEF OperandsFound
<1>5. st \in Seq(Nat) /\ V \subseteq DOMAIN map
  BY <1>1, RunsEnd DEF IsState
<1>6. ASSUME NEW i \in 1 .. n PROVE UseIn(us[i], M, Nat)
  <2>1. SUFFICES ASSUME us[i].isMemUse
                 PROVE  us[i].reg \in Nat /\ us[i].slot \in Nat /\ <<us[i].slot, us[i].reg>> \in M
    BY DEF UseIn
  <2>2. us[i].reg \in V /\ us[i].slot = map[us[i].reg].slot
    BY <1>1, <1>4, <2>1 DEF OperandsFound
  <2>3. us[i].slot \in Nat
    BY <1>1, <2>2 DEF Owned
  <2> QED BY <1>2, <1>5, <2>2, <2>3 DEF Loadable
<1>7. Nat \in SUBSET Nat
  OBVIOUS
<1>8. PICK g : g = Gen(st)
  OBVIOUS
<1>9. GenTracks(g, st, M, Nat)
  BY <1>5, <1>8, GenTracksStart
<1>10. PICK p : GenTracks(p, st, M, Nat) /\ Brought(c, p, us, n)
  BY <1>4, <1>6, <1>7, <1>8, <1>9, ConsumeTracks
<1>11. Tracks(c.code, st, p.stack, M, Nat) /\ p.stack \in Seq(Nat)
  BY <1>10 DEF GenTracks, Brought
<1>12. PICK t : IsTriple(t, st, V, k)
  BY Triple
<1>13. t = <<st, V, k>> /\ t[1] = st /\ t[2] = V /\ t[3] = k
  BY <1>12 DEF IsTriple
<1>14. Runs(f.code[b], map, code, EntryState(f, map, b), t)
  BY <1>1, <1>13
<1>15. Tracks(c.code, t[1], p.stack, Loadable(map, t[2]), Nat)
  BY <1>2, <1>11, <1>13
<1>16. Runs(f.code[b], map, code \o c.code, EntryState(f, map, b), <<p.stack, t[2], t[3]>>)
  BY <1>14, <1>15, RunsTracks
<1>17. PICK s : IsTriple(s, p.stack, V, k)
  BY Triple
<1>18. s = <<p.stack, V, k>> /\ s[1] = p.stack /\ s[2] = V /\ s[3] = k
  BY <1>17 DEF IsTriple
<1>19. PICK u : IsTriple(u, Gave(in, c.stack), V \ {in.def}, k + 1)
  BY Triple
<1>20. /\ u = <<Gave(in, c.stack), V \ {in.def}, k + 1>> /\ u[1] = Gave(in, c.stack)
       /\ u[2] = V \ {in.def} /\ u[3] = k + 1
  BY <1>19 DEF IsTriple
<1>21. /\ Len(p.stack) >= n /\ c.stack = Below(p.stack, n)
       /\ \A i \in 1 .. n : Get(p.stack, i - 1) = us[i].reg
  BY <1>10 DEF Brought
<1>22. n \in 0 .. Len(p.stack)
  BY <1>11, <1>21
<1>23. c.stack \in Seq(Nat) /\ Len(c.stack) = Len(p.stack) - n
       /\ \A i \in 1 .. Len(p.stack) - n : c.stack[i] = p.stack[i]
  BY ZenonT(60), <1>11, <1>21, <1>22, BelowIn
<1>24. PICK o \in OpSet : o = Op("MI", k) /\ o.op = "MI" /\ o.n = k
  BY <1>3, OpType DEF Opcodes
<1>25. InstrStep(f.code[b], o, s, u)
  <2>1. Took(in, s[1])
    BY <1>4, <1>18, <1>21 DEF Took, OperandsFound
  <2>2. u[1] = Gave(in, Below(s[1], Len(in.uses)))
    BY <1>4, <1>18, <1>20, <1>21
  <2>3. in.def # NoReg => \A i \in 1 .. Len(s[1]) - Len(in.uses) : s[1][i] # in.def
    BY <1>4, <1>18, <1>23
  <2> QED BY ZenonT(60), <1>18, <1>20, <1>24, <2>1, <2>2, <2>3 DEF InstrStep
<1>26. IsState(map, u)
  <2>1. Gave(in, c.stack) \in Seq(Nat)
    BY <1>3, <1>23, AppendProperties DEF Gave
  <2>2. u = <<u[1], u[2], u[3]>>
    BY <1>20
  <2>3. u[2] \subseteq DOMAIN map /\ u[3] \in Nat
    BY <1>3, <1>5, <1>20
  <2> QED BY <1>20, <2>1, <2>2, <2>3 DEF IsState
<1>27. PICK code2 : code2 = code \o c.code
  OBVIOUS
<1>28. Runs(f.code[b], map, code2, EntryState(f, map, b), s)
  BY <1>13, <1>16, <1>18, <1>27
<1>29. Runs(f.code[b], map, Append(code2, o), EntryState(f, map, b), u)
  BY <1>25, <1>26, <1>28, RunsStep DEF RunStep
<1>30. Append(code2, o) = code2 \o <<o>>
  BY <1>28, RunsEnd, AppendIsConcat
<1>31. Owned(mem, map, V \ {in.def}) /\ K \ {in.def} \subseteq V \ {in.def}
  BY <1>1 DEF Owned
<1>32. Runs(f.code[b], map, code2 \o <<o>>, EntryState(f, map, b), <<Gave(in, c.stack), V \ {in.def}, k + 1>>)
  BY <1>20, <1>29, <1>30
<1>33. PartRun(f, map, mem, b, code2 \o <<o>>, Gave(in, c.stack), k + 1, K \ {in.def})
  BY <1>31, <1>32 DEF PartRun
<1> QED BY <1>24, <1>27, <1>33
-----------------------------------------------------------------------------
(* How the run of a block so far goes on.                                  *)
LEMMA PartState ==
  ASSUME NEW f, NEW map, NEW mem, NEW b, NEW code, NEW st, NEW next, NEW K,
         PartRun(f, map, mem, b, code, st, next, K)
  PROVE  st \in Seq(Nat) /\ next \in Nat /\ code \in Seq(OpSet)
<1>1. PICK V : Runs(f.code[b], map, code, EntryState(f, map, b), <<st, V, next>>)
  BY DEF PartRun
<1>2. PICK t : IsTriple(t, st, V, next)
  BY Triple
<1>3. t = <<st, V, next>> /\ t[1] = st /\ t[3] = next
  BY <1>2 DEF IsTriple
<1>4. Runs(f.code[b], map, code, EntryState(f, map, b), t)
  BY <1>1, <1>3
<1>5. IsState(map, t) /\ code \in Seq(OpSet)
  BY <1>4, RunsEnd
<1> QED BY <1>3, <1>5 DEF IsState

LEMMA PartKeeps ==
  ASSUME NEW f, NEW map, NEW mem, NEW b, NEW code, NEW st, NEW next, NEW K,
         PartRun(f, map, mem, b, code, st, next, K), NEW L, L \subseteq K
  PROVE  PartRun(f, map, mem, b, code, st, next, L)
  BY DEF PartRun

(* handleDef adds an assignment.                                           *)
LEMMA PartGrow ==
  ASSUME NEW f, NEW map, NEW new, Extends(map, new), NEW mem, NEW b, LiveArrived(f, map, b),
         NEW q, NewAfter(f, map, new, b, q), NEW code, NEW st, NEW next, NEW K,
         PartRun(f, map, mem, b, code, st, next, K)
  PROVE  PartRun(f, new, mem, b, code, st, next, K)
<1>1. PICK V : /\ Runs(f.code[b], map, code, EntryState(f, map, b), <<st, V, next>>)
               /\ Owned(mem, map, V) /\ K \subseteq V
  BY DEF PartRun
<1>2. EntryState(f, new, b) = EntryState(f, map, b)
  BY KeptGrow
<1>3. Runs(f.code[b], new, code, EntryState(f, new, b), <<st, V, next>>)
  BY <1>1, <1>2, RunsGrow
<1>4. Owned(mem, new, V)
  BY <1>1 DEF Owned, Extends
<1> QED BY <1>1, <1>3, <1>4 DEF PartRun

(* Another register is given a slot.                                       *)
LEMMA PartMemory ==
  ASSUME NEW f, NEW map, NEW mem, NEW new, KeepsSlots(mem, new), NEW b, NEW code, NEW st,
         NEW next, NEW K, PartRun(f, map, mem, b, code, st, next, K)
  PROVE  PartRun(f, map, new, b, code, st, next, K)
<1>1. PICK V : /\ Runs(f.code[b], map, code, EntryState(f, map, b), <<st, V, next>>)
               /\ Owned(mem, map, V) /\ K \subseteq V
  BY DEF PartRun
<1>2. Owned(new, map, V)
  BY <1>1 DEF Owned, KeepsSlots
<1> QED BY <1>1, <1>2 DEF PartRun

(* The store of a register into its slot.                                  *)
LEMMA StorePart ==
  ASSUME NEW f, NEW map, NEW mem, NEW b, NEW code, NEW st, st \in Seq(Nat), NEW r, NEW next, NEW K,
         PartRun(f, map, mem, b, code, Append(st, r), next, K), Owned(mem, map, {r}),
         NEW slot, slot = map[r].slot
  PROVE  PartRun(f, map, mem, b, code \o <<Op("PUTLOCAL", slot)>>, st, next, K \cup {r})
<1>1. PICK V : /\ Runs(f.code[b], map, code, EntryState(f, map, b), <<Append(st, r), V, next>>)
               /\ Owned(mem, map, V) /\ K \subseteq V
  BY DEF PartRun
<1>2. PICK s : IsTriple(s, Append(st, r), V, next)
  BY Triple
<1>3. s = <<Append(st, r), V, next>> /\ s[1] = Append(st, r) /\ s[2] = V /\ s[3] = next
  BY <1>2 DEF IsTriple
<1>4. PICK t : IsTriple(t, st, V \cup {r}, next)
  BY Triple
<1>5. t = <<st, V \cup {r}, next>> /\ t[1] = st /\ t[2] = V \cup {r} /\ t[3] = next
  BY <1>4 DEF IsTriple
<1>6. Runs(f.code[b], map, code, EntryState(f, map, b), s)
  BY <1>1, <1>3
<1>7. IsState(map, s) /\ code \in Seq(OpSet)
  BY <1>6, RunsEnd
<1>8. r \in DOMAIN map /\ slot \in Nat
  BY DEF Owned
<1>9. PICK o \in OpSet : o = Op("PUTLOCAL", slot) /\ o.op = "PUTLOCAL" /\ o.n = slot
  BY <1>8, OpType DEF Opcodes
<1>10. PutStep(map, o, s, t)
  <2>1. \A q \in V : q # r => map[q].slot # slot
    BY <1>1 DEF Owned
  <2> QED BY <1>3, <1>5, <1>8, <1>9, <2>1 DEF PutStep
<1>11. IsState(map, t)
  <2>1. V \subseteq DOMAIN map /\ next \in Nat
    BY <1>3, <1>7 DEF IsState
  <2>2. t = <<t[1], t[2], t[3]>>
    BY <1>5
  <2> QED BY <1>5, <1>8, <2>1, <2>2 DEF IsState
<1>12. Runs(f.code[b], map, Append(code, o), EntryState(f, map, b), t)
  BY <1>6, <1>10, <1>11, RunsStep DEF RunStep
<1>13. Append(code, o) = code \o <<o>>
  BY <1>7, AppendIsConcat
<1>14. Runs(f.code[b], map, code \o <<o>>, EntryState(f, map, b), <<st, V \cup {r}, next>>)
  BY <1>5, <1>12, <1>13
<1>15. Owned(mem, map, V \cup {r}) /\ K \cup {r} \subseteq V \cup {r}
  BY <1>1 DEF Owned
<1>16. PartRun(f, map, mem, b, code \o <<o>>, st, next, K \cup {r})
  BY <1>14, <1>15 DEF PartRun
<1> QED BY <1>9, <1>16

(* Moves on the stack, here those of cleanUpDeadRegisters.                 *)
LEMMA MovePart ==
  ASSUME NEW f, NEW map, NEW mem, NEW b, NEW code, NEW st, NEW next, NEW K,
         PartRun(f, map, mem, b, code, st, next, K),
         NEW more, NEW new, \A M : Tracks(more, st, new, M, Nat)
  PROVE  PartRun(f, map, mem, b, code \o more, new, next, K)
<1>1. PICK V : /\ Runs(f.code[b], map, code, EntryState(f, map, b), <<st, V, next>>)
               /\ Owned(mem, map, V) /\ K \subseteq V
  BY DEF PartRun
<1>2. PICK t : IsTriple(t, st, V, next)
  BY Triple
<1>3. t = <<st, V, next>> /\ t[1] = st /\ t[2] = V /\ t[3] = next
  BY <1>2 DEF IsTriple
<1>4. Runs(f.code[b], map, code, EntryState(f, map, b), t)
  BY <1>1, <1>3
<1>5. Tracks(more, t[1], new, Loadable(map, t[2]), Nat)
  BY <1>3
<1>6. Runs(f.code[b], map, code \o more, EntryState(f, map, b), <<new, t[2], t[3]>>)
  BY <1>4, <1>5, RunsTracks
<1>7. Runs(f.code[b], map, code \o more, EntryState(f, map, b), <<new, V, next>>)
  BY <1>3, <1>6
<1> QED BY <1>1, <1>7 DEF PartRun

(* A block other than the first starts with an empty stack.                *)
LEMMA BeginPart ==
  ASSUME NEW f, NEW map, NEW mem, NEW b, b # 1, Owned(mem, map, Needed(f, map, b))
  PROVE  PartRun(f, map, mem, b, << >>, << >>, 1, Needed(f, map, b))
<1> DEFINE V == Needed(f, map, b)
<1>1. EntryState(f, map, b) = << << >>, V, 1>>
  BY DEF EntryState
<1>2. V \subseteq DOMAIN map
  BY DEF Needed
<1> HIDE DEF V
<1>3. PICK t : IsTriple(t, << >>, V, 1)
  BY Triple
<1>4. t = << << >>, V, 1>> /\ t[1] = << >> /\ t[2] = V /\ t[3] = 1
  BY <1>3 DEF IsTriple
<1>5. IsState(map, t)
  <2>1. t = <<t[1], t[2], t[3]>>
    BY <1>4
  <2>2. t[1] \in Seq(Nat) /\ t[2] \subseteq DOMAIN map /\ t[3] \in Nat
    BY <1>2, <1>4
  <2> QED BY <2>1, <2>2 DEF IsState
<1>6. Runs(f.code[b], map, << >>, t, t)
  BY <1>5, RunsNothing
<1> QED BY <1>1, <1>4, <1>6 DEF PartRun, V
-----------------------------------------------------------------------------
(* The arguments: swapRegToTop, then the store.                            *)
LEMMA SwapToTopPart ==
  ASSUME NEW f, NEW map, NEW mem, NEW b, NEW next, NEW K, NEW g,
         PartRun(f, map, mem, b, g.code, g.stack, next, K),
         NEW E, Holds(g, E), NEW r \in E, NEW h, h = SwapRegToTop(g, r)
  PROVE  PartRun(f, map, mem, b, h.code, h.stack, next, K)
<1>1. PICK m \in Nat : Fine(g, m) /\ Distinct(g.stack, m, E)
  BY DEF Holds
<1>2. g.stack \in Seq(Nat) /\ Len(g.stack) = m /\ g.error = NoError
      /\ DOMAIN g = {"stack", "code", "error"}
  BY <1>1 DEF Fine, IsStack
<1>3. PICK p \in 1 .. m : g.stack[p] = r /\ Nearest(g.stack, m, r, p)
  BY <1>1, DistinctNearest
<1>4. IsOnStack(g.stack, r) /\ FindRegDepth(g.stack, r) = m - p
  BY <1>1, <1>3, FindDepth DEF Fine
<1>5. PICK d : d = m - p /\ d \in Nat
  OBVIOUS
<1>6. h = IF d # 0 THEN InsertSwapBefore(g, d) ELSE g
  BY <1>2, <1>4, <1>5 DEF SwapRegToTop, Checked
<1>7. CASE d = 0
  BY <1>6, <1>7
<1>8. CASE d # 0
  <2>1. d \in 1 .. m - 1 /\ m >= 2
    BY <1>5, <1>8
  <2>2. PICK o \in OpSet : o = Op("SWAP", d) /\ o.op = "SWAP" /\ o.n = d
    BY <1>5, OpType DEF Opcodes
  <2>3. PICK st : st = Swap(g.stack, d)
    OBVIOUS
  <2>4. st \in Seq(Nat)
    BY <1>2, <2>1, <2>3, SwapIn
  <2>5. h = Insert(g, o, st)
    BY <1>2, <1>6, <1>8, <2>1, <2>2, <2>3 DEF InsertSwapBefore, Checked
  <2>6. h.code = Append(g.code, o) /\ h.stack = st
    BY <1>2, <2>5 DEF Insert
  <2>7. ASSUME NEW M PROVE Tracks(<<o>>, g.stack, st, M, Nat)
    <3>1. Tracks(<< >>, g.stack, g.stack, M, Nat)
      BY <1>2, TracksNothing
    <3>2. SymStep(o, g.stack, st, M)
      BY <1>2, <2>1, <2>2, <2>3 DEF SymStep
    <3>3. Tracks(Append(<< >>, o), g.stack, st, M, Nat)
      BY <2>4, <3>1, <3>2, TracksStep
    <3> QED BY <3>3
  <2>8. PartRun(f, map, mem, b, g.code \o <<o>>, st, next, K)
    BY <2>7, MovePart
  <2>9. g.code \in Seq(OpSet)
    BY PartState
  <2>10. g.code \o <<o>> = Append(g.code, o)
    BY <2>9, AppendIsConcat
  <2> QED BY <2>6, <2>8, <2>10
<1> QED BY <1>5, <1>7, <1>8

LEMMA TopOnRest ==
  ASSUME NEW st \in Seq(Nat), NEW m \in Nat, m = Len(st), m >= 1
  PROVE  Pop(st) \in Seq(Nat) /\ Append(Pop(st), st[m]) = st
<1>1. Pop(st) \in Seq(Nat) /\ Len(Pop(st)) = m - 1 /\ \A i \in 1 .. m - 1 : Pop(st)[i] = st[i]
  <2>1. IsStack(st, m)
    BY DEF IsStack
  <2> QED BY <2>1, PopStack DEF Popped, IsStack
<1>2. PICK u : u = Pop(st)
  OBVIOUS
<1>3. st[m] \in Nat
  BY ElementOfSeq
<1>4. /\ Append(u, st[m]) \in Seq(Nat) /\ Len(Append(u, st[m])) = m
      /\ \A i \in 1 .. m : Append(u, st[m])[i] = st[i]
  BY <1>1, <1>2, <1>3, AppendProperties
<1>5. Append(u, st[m]) = st
  BY <1>4
<1> QED BY <1>1, <1>2, <1>5

(* The registers kept in memory.                                           *)
InMem(map) == { r \in DOMAIN map : map[r].region = "NONSTACK" }

(* Slots and layouts are natural numbers and sequences of registers.       *)
SlotTypes(map, mem, frame) ==
  /\ mem \in Seq(Nat) /\ frame \in Nat
  /\ \A r \in DOMAIN map : map[r].slot \in Nat

ArgsRun(t, f) ==
  /\ SlotTypes(t.map, t.mem, t.frame)
  /\ PartRun(f, t.map, t.mem, 1, t.g.code, t.g.stack, 1, InMem(t.map))

LEMMA AssignSlots ==
  ASSUME NEW map, NEW r, NEW region, NEW slot \in Nat, \A q \in DOMAIN map : map[q].slot \in Nat
  PROVE  \A q \in DOMAIN Assign(map, r, region, slot) : Assign(map, r, region, slot)[q].slot \in Nat
  BY DEF Assign

LEMMA ArgAssigned ==
  ASSUME NEW f, IsFunction(f), NEW map, NEW r \in VRegs(f), NEW region, NEW slot
  PROVE  /\ Extends(map, Assign(map, r, region, slot))
         /\ NewAfter(f, map, Assign(map, r, region, slot), 1, 0)
         /\ LiveArrived(f, map, 1)
<1>1. \A d \in DefSites(f, r) : ~(d[1] = 1 /\ d[2] < 0)
  <2> SUFFICES ASSUME NEW d \in DefSites(f, r) PROVE ~(d[2] < 0)
    OBVIOUS
  <2>1. PICK c, j : DefShape(f, d, c, j)
    BY DefShapes
  <2> QED BY <2>1 DEF DefShape
<1>2. \A x \in DOMAIN Assign(map, r, region, slot) : x \notin DOMAIN map => x = r
  BY DEF Assign
<1>3. NewAfter(f, map, Assign(map, r, region, slot), 1, 0)
  BY <1>1, <1>2 DEF NewAfter
<1> QED BY <1>3, AssignExtends DEF LiveArrived

LEMMA ArgRun ==
  ASSUME NEW f, IsFunction(f), NEW k \in 1 .. Len(f.args),
         NEW t, ArgsTaken(t, f, k - 1), ArgsRun(t, f)
  PROVE  ArgsRun(ArgStep(f, t, f.args[Len(f.args) + 1 - k]), f)
<1>0. PICK r : r = f.args[Len(f.args) + 1 - k]
  OBVIOUS
<1> DEFINE s == ArgStep(f, t, r)
<1>1. /\ DOMAIN t = {"g", "mem", "frame", "map"}
      /\ Holds(t.g, ArgsOn(f, k - 1)) /\ ArgRegions(f, t.map, ArgsDone(f, k - 1))
  BY DEF ArgsTaken
<1>2. r \in ArgsOn(f, k - 1) /\ r \notin ArgsDone(f, k - 1) /\ r \in Nat
  BY <1>0, ArgSets DEF IsFunction
<1>3. r \in VRegs(f) /\ r \in Nat \ {NoReg}
  <2>1. Len(f.args) + 1 - k \in 1 .. Len(f.args)
    BY ArgsType DEF IsFunction
  <2>2. r \in Nat \ {NoReg} /\ r \in Elems(f.args)
    BY <1>0, <2>1, ArgsType DEF IsFunction, Elems
  <2> QED BY <2>2 DEF VRegs
<1>4. r \notin DOMAIN t.map
  BY <1>1, <1>2 DEF ArgRegions
<1>5. /\ t.mem \in Seq(Nat) /\ t.frame \in Nat /\ \A q \in DOMAIN t.map : t.map[q].slot \in Nat
      /\ PartRun(f, t.map, t.mem, 1, t.g.code, t.g.stack, 1, InMem(t.map))
  BY DEF ArgsRun, SlotTypes
<1>6. CASE DefIsLocal(f, r, <<1, 0>>)
  <2>1. PICK new : new = Assign(t.map, r, "L_STACK", 0)
    OBVIOUS
  <2>2. s = [t EXCEPT !.map = new]
    BY <1>6, <2>1 DEF ArgStep
  <2>3. s.g = t.g /\ s.map = new /\ s.mem = t.mem /\ s.frame = t.frame
    BY <1>1, <2>2
  <2>4. InMem(new) = InMem(t.map)
    BY <1>4, <2>1 DEF InMem, Assign
  <2>5. PartRun(f, new, t.mem, 1, t.g.code, t.g.stack, 1, InMem(t.map))
    <3>1. Extends(t.map, new) /\ NewAfter(f, t.map, new, 1, 0) /\ LiveArrived(f, t.map, 1)
      BY <1>3, <2>1, ArgAssigned
    <3> QED BY <1>5, <3>1, PartGrow
  <2>6. \A q \in DOMAIN new : new[q].slot \in Nat
    BY <1>5, <2>1, AssignSlots
  <2>7. ArgsRun(s, f)
    BY <1>5, <2>3, <2>4, <2>5, <2>6 DEF ArgsRun, SlotTypes
  <2> QED BY <1>0, <2>7
<1>7. CASE ~DefIsLocal(f, r, <<1, 0>>)
  <2>1. PICK slot, top, mem, frame :
          /\ slot = AllocatedSlot(t.mem) /\ top = SwapRegToTop(t.g, r)
          /\ mem = AllocatedMem(t.mem, r) /\ frame = AllocatedFrame(t.mem, t.frame)
    OBVIOUS
  <2>2. PICK new : new = Assign(t.map, r, "NONSTACK", slot)
    OBVIOUS
  <2>3. s = [g |-> Insert(top, Op("PUTLOCAL", slot), Pop(top.stack)),
             mem |-> mem, frame |-> frame, map |-> new]
    BY <1>7, <2>1, <2>2 DEF ArgStep
  <2>4. /\ s.g = Insert(top, Op("PUTLOCAL", slot), Pop(top.stack))
        /\ s.map = new /\ s.mem = mem /\ s.frame = frame
    BY <2>3
  <2> HIDE DEF s
  <2>5. /\ mem \in Seq(Nat) /\ slot \in Nat /\ frame \in Nat
        /\ slot + 1 \in DOMAIN mem /\ mem[slot + 1] = r /\ KeepsSlots(t.mem, mem)
    <3>1. PICK old, size : old = t.mem /\ size = t.frame
      OBVIOUS
    <3>2. old \in Seq(Nat) /\ size \in Nat /\ NoReg \in Nat
      BY <1>5, <3>1 DEF NoReg
    <3>3. GivesSlot(old, r, size, mem, slot, frame, Nat)
      BY <1>2, <2>1, <3>1, <3>2, AllocateProperties
    <3> QED BY <3>1, <3>3 DEF GivesSlot
  <2>6. PICK m \in Nat : Fine(t.g, m) /\ Distinct(t.g.stack, m, ArgsOn(f, k - 1))
    BY <1>1 DEF Holds
  <2>7. Fine(top, m) /\ top.stack[m] = r /\ m >= 1
    BY <1>2, <2>1, <2>6, MovedToTop
  <2>8. Pop(top.stack) \in Seq(Nat) /\ Append(Pop(top.stack), r) = top.stack
    BY <2>7, TopOnRest DEF Fine, IsStack
  <2>9. PartRun(f, t.map, t.mem, 1, top.code, top.stack, 1, InMem(t.map))
    BY <1>1, <1>2, <1>5, <2>1, SwapToTopPart
  <2>10. PartRun(f, new, t.mem, 1, top.code, top.stack, 1, InMem(t.map))
    <3>1. Extends(t.map, new) /\ NewAfter(f, t.map, new, 1, 0) /\ LiveArrived(f, t.map, 1)
      BY <1>3, <2>2, ArgAssigned
    <3> QED BY <2>9, <3>1, PartGrow
  <2>11. PartRun(f, new, mem, 1, top.code, top.stack, 1, InMem(t.map))
    BY <2>5, <2>10, PartMemory
  <2>12. r \in DOMAIN new /\ new[r].slot = slot /\ new[r].region = "NONSTACK"
    BY <1>4, <2>2 DEF Assign
  <2>13. Owned(mem, new, {r})
    BY <1>3, <2>5, <2>12 DEF Owned
  <2>14. PICK o : o = Op("PUTLOCAL", slot) /\ o \in OpSet
    BY <2>5, OpType DEF Opcodes
  <2>15. PartRun(f, new, mem, 1, top.code \o <<Op("PUTLOCAL", slot)>>, Pop(top.stack), 1,
                 InMem(t.map) \cup {r})
    BY <2>8, <2>11, <2>12, <2>13, StorePart
  <2>16. InMem(new) = InMem(t.map) \cup {r}
    BY <1>4, <2>2 DEF InMem, Assign
  <2>17. s.g.code = Append(top.code, o) /\ s.g.stack = Pop(top.stack)
    BY <2>4, <2>7, <2>14 DEF Insert, Fine
  <2>18. top.code \in Seq(OpSet)
    BY <2>9, PartState
  <2>19. Append(top.code, o) = top.code \o <<o>>
    BY <2>14, <2>18, AppendIsConcat
  <2>20. PartRun(f, s.map, s.mem, 1, s.g.code, s.g.stack, 1, InMem(s.map))
    BY <2>4, <2>14, <2>15, <2>16, <2>17, <2>19
  <2>21. \A q \in DOMAIN new : new[q].slot \in Nat
    BY <1>5, <2>2, <2>5, AssignSlots
  <2>22. ArgsRun(s, f)
    BY <2>4, <2>5, <2>20, <2>21 DEF ArgsRun, SlotTypes
  <2> QED BY <1>0, <2>22 DEF s
<1> QED BY <1>6, <1>7

(* The slots in use lie inside the frame.                                  *)
InFrame(map, mem, frame) ==
  Len(mem) <= frame /\ \A r \in InMem(map) : map[r].slot < frame

LEMMA AllocatedInFrame ==
  ASSUME NEW map, NEW mem, NEW frame, SlotTypes(map, mem, frame), InFrame(map, mem, frame),
         NEW r \in Nat
  PROVE  InFrame(Assign(map, r, "NONSTACK", AllocatedSlot(mem)), AllocatedMem(mem, r),
                 AllocatedFrame(mem, frame))
         /\ frame <= AllocatedFrame(mem, frame) /\ AllocatedFrame(mem, frame) \in Nat
<1>1. PICK new, slot, size :
        new = AllocatedMem(mem, r) /\ slot = AllocatedSlot(mem) /\ size = AllocatedFrame(mem, frame)
  OBVIOUS
<1>2. mem \in Seq(Nat) /\ frame \in Nat /\ NoReg \in Nat
  BY DEF SlotTypes, NoReg
<1>3. GivesSlot(mem, r, frame, new, slot, size, Nat)
  BY <1>1, <1>2, AllocateProperties
<1>4. /\ Len(new) <= size /\ slot < size /\ frame <= size /\ slot \in Nat /\ size \in Nat
  BY <1>3 DEF GivesSlot, InFrame
<1>5. PICK bigger : bigger = Assign(map, r, "NONSTACK", slot)
  OBVIOUS
<1>6. ASSUME NEW q \in InMem(bigger) PROVE bigger[q].slot < size
  <2>1. q \in DOMAIN bigger /\ bigger[q].region = "NONSTACK"
    BY DEF InMem
  <2>2. CASE q \in DOMAIN map
    <3>1. bigger[q] = map[q]
      BY <1>5, <2>2 DEF Assign
    <3>2. map[q].slot < frame /\ map[q].slot \in Nat
      BY <2>1, <2>2, <3>1 DEF InFrame, InMem, SlotTypes
    <3> QED BY <1>2, <1>4, <3>1, <3>2
  <2>3. CASE q \notin DOMAIN map
    BY <1>4, <1>5, <2>1, <2>3 DEF Assign
  <2> QED BY <2>2, <2>3
<1>7. InFrame(bigger, new, size)
  BY <1>4, <1>6 DEF InFrame
<1> QED BY <1>1, <1>4, <1>5, <1>7

LEMMA LocalInFrame ==
  ASSUME NEW map, NEW mem, NEW frame, InFrame(map, mem, frame), NEW r, NEW region,
         region # "NONSTACK"
  PROVE  InFrame(Assign(map, r, region, 0), mem, frame)
<1>1. \A q \in InMem(Assign(map, r, region, 0)) :
        q \in InMem(map) /\ Assign(map, r, region, 0)[q] = map[q]
  BY DEF InMem, Assign
<1> QED BY <1>1 DEF InFrame

LEMMA ArgFrame ==
  ASSUME NEW f, NEW t, DOMAIN t = {"g", "mem", "frame", "map"}, SlotTypes(t.map, t.mem, t.frame),
         InFrame(t.map, t.mem, t.frame), NEW r \in Nat, NEW s, s = ArgStep(f, t, r)
  PROVE  InFrame(s.map, s.mem, s.frame) /\ t.frame <= s.frame /\ s.frame \in Nat
<1>0. t.frame \in Nat
  BY DEF SlotTypes
<1>1. CASE DefIsLocal(f, r, <<1, 0>>)
  <2>1. PICK new : new = Assign(t.map, r, "L_STACK", 0)
    OBVIOUS
  <2>2. s = [t EXCEPT !.map = new]
    BY <1>1, <2>1 DEF ArgStep
  <2>3. s.map = new /\ s.mem = t.mem /\ s.frame = t.frame
    BY <2>2
  <2> QED BY <1>0, <2>1, <2>3, LocalInFrame
<1>2. CASE ~DefIsLocal(f, r, <<1, 0>>)
  <2>1. PICK slot, top, mem, frame :
          /\ slot = AllocatedSlot(t.mem) /\ top = SwapRegToTop(t.g, r)
          /\ mem = AllocatedMem(t.mem, r) /\ frame = AllocatedFrame(t.mem, t.frame)
    OBVIOUS
  <2>2. PICK new : new = Assign(t.map, r, "NONSTACK", slot)
    OBVIOUS
  <2>3. s = [g |-> Insert(top, Op("PUTLOCAL", slot), Pop(top.stack)),
             mem |-> mem, frame |-> frame, map |-> new]
    BY <1>2, <2>1, <2>2 DEF ArgStep
  <2>4. s.map = new /\ s.mem = mem /\ s.frame = frame
    BY <2>3
  <2>5. InFrame(new, mem, frame) /\ t.frame <= frame /\ frame \in Nat
    BY <2>1, <2>2, AllocatedInFrame
  <2> QED BY <2>4, <2>5
<1> QED BY <1>1, <1>2

LEMMA ArgsRunStart ==
  ASSUME NEW f, IsFunction(f), NEW t, t.g = Gen(f.args), DOMAIN t.map = {},
         t.mem \in Seq(Nat), t.frame \in Nat
  PROVE  ArgsRun(t, f)
<1>1. f.args \in Seq(Nat)
  BY ArgsType DEF IsFunction
<1>2. t.g.code = << >> /\ t.g.stack = f.args
  BY DEF Gen
<1>3. InMem(t.map) = {} /\ Needed(f, t.map, 1) = {}
  BY DEF InMem, Needed
<1>4. PICK a : a = f.args
  OBVIOUS
<1>5. PICK e : IsTriple(e, a, {}, 1)
  BY Triple
<1>6. e = <<a, {}, 1>> /\ e[1] = a /\ e[2] = {} /\ e[3] = 1
  BY <1>5 DEF IsTriple
<1>7. IsState(t.map, e)
  <2>1. e = <<e[1], e[2], e[3]>>
    BY <1>6
  <2> QED BY <1>1, <1>4, <1>6, <2>1 DEF IsState
<1>8. EntryState(f, t.map, 1) = e
  BY <1>3, <1>4, <1>6 DEF EntryState
<1>9. Runs(f.code[1], t.map, << >>, e, e)
  BY <1>7, RunsNothing
<1>10. Owned(t.mem, t.map, {})
  BY DEF Owned
<1>11. PartRun(f, t.map, t.mem, 1, << >>, a, 1, {})
  BY <1>6, <1>8, <1>9, <1>10 DEF PartRun
<1> QED BY <1>2, <1>3, <1>4, <1>11 DEF ArgsRun, SlotTypes

LEMMA EntryRun ==
  ASSUME IsFunction(fn), DOMAIN regAssignments = {},
         memoryAssignment \in Seq(Nat), memoryFrameSize \in Nat
  PROVE  /\ ArgsRun(StackArgs, fn)
         /\ Len(memoryAssignment) <= memoryFrameSize =>
              InFrame(StackArgs.map, StackArgs.mem, StackArgs.frame)
              /\ memoryFrameSize <= StackArgs.frame
<1>0. PICK n \in Nat : n = Len(fn.args)
  BY ArgsType DEF IsFunction
<1>1. PICK h : ArgTrace(h, fn, ArgStart, n) /\ StackArgs = h[n]
  BY <1>0, StackArgsTrace
<1>2. h[0] = ArgStart /\ \A k \in 1 .. n : h[k] = ArgStep(fn, h[k - 1], fn.args[n + 1 - k])
  <2>1. \A k \in 0 .. n :
          h[k] = IF k = 0 THEN ArgStart ELSE ArgStep(fn, h[k - 1], fn.args[n + 1 - k])
    BY <1>0, <1>1, Zenon DEF ArgTrace
  <2>2. 0 \in 0 .. n /\ \A k \in 1 .. n : k \in 0 .. n /\ k # 0
    OBVIOUS
  <2> QED BY <2>1, <2>2
<1> DEFINE Covered(t) == Len(memoryAssignment) <= memoryFrameSize =>
                           InFrame(t.map, t.mem, t.frame) /\ memoryFrameSize <= t.frame
           T == { k \in 0 .. n : ArgsTaken(h[k], fn, k) /\ ArgsRun(h[k], fn) /\ Covered(h[k]) }
<1>3. T \in SUBSET Nat /\ 0 \in T
  <2>1. ArgsTaken(ArgStart, fn, 0)
    BY ArgsAtStart DEF ArgStart, IsFunction
  <2>2. ArgsRun(ArgStart, fn)
    BY ArgsRunStart DEF ArgStart
  <2>3. Covered(ArgStart)
    BY DEF ArgStart, InFrame, InMem
  <2> QED BY <1>2, <2>1, <2>2, <2>3
<1>4. ASSUME NEW k \in 1 .. n, k - 1 \in T PROVE k \in T
  <2>1. ArgsTaken(h[k - 1], fn, k - 1) /\ ArgsRun(h[k - 1], fn)
    BY <1>4
  <2>2. ArgsTaken(ArgStep(fn, h[k - 1], fn.args[n + 1 - k]), fn, k)
    BY <1>0, <2>1, ArgTaken DEF IsFunction
  <2>3. ArgsRun(ArgStep(fn, h[k - 1], fn.args[n + 1 - k]), fn)
    BY <1>0, <2>1, ArgRun
  <2>4. ArgsTaken(h[k], fn, k) /\ ArgsRun(h[k], fn) /\ k \in 0 .. n
    BY <1>2, <2>2, <2>3
  <2>5. Covered(h[k])
    <3>1. fn.args[n + 1 - k] \in Nat
      <4>1. n + 1 - k \in 1 .. n
        OBVIOUS
      <4> QED BY <1>0, <4>1, ArgsType DEF IsFunction
    <3>2. DOMAIN h[k - 1] = {"g", "mem", "frame", "map"}
          /\ SlotTypes(h[k - 1].map, h[k - 1].mem, h[k - 1].frame) /\ Covered(h[k - 1])
      BY <1>4, <2>1 DEF ArgsTaken, ArgsRun
    <3>3. h[k - 1].frame \in Nat /\ h[k] = ArgStep(fn, h[k - 1], fn.args[n + 1 - k])
      BY <1>2, <3>2 DEF SlotTypes
    <3>4. ASSUME InFrame(h[k - 1].map, h[k - 1].mem, h[k - 1].frame)
          PROVE  InFrame(h[k].map, h[k].mem, h[k].frame) /\ h[k - 1].frame <= h[k].frame
                 /\ h[k].frame \in Nat
      BY <3>1, <3>2, <3>3, <3>4, ArgFrame
    <3> QED BY <3>2, <3>3, <3>4
  <2> QED BY <2>4, <2>5
<1> HIDE DEF T
<1>5. \A k \in 0 .. n : k \in T
  BY <1>3, <1>4, SetInduction
<1>6. n \in T
  BY <1>5
<1> QED BY <1>1, <1>6 DEF T
-----------------------------------------------------------------------------
(* The types of what the pass keeps about memory.                          *)
MemInv ==
  /\ SlotTypes(regAssignments, memoryAssignment, memoryFrameSize)
  /\ \A e \in DOMAIN edgeset2assignment : edgeset2assignment[e] \in Seq(Nat)
  /\ DOMAIN out = Block(fn)
  /\ phase # "clean" => defOps = << >>
  /\ compiled \in Nat /\ compiled >= 1

(* With a single function, every layout fits the frame.                    *)
FrameInv ==
  MaxFunctions = 1 =>
    /\ InFrame(regAssignments, memoryAssignment, memoryFrameSize)
    /\ \A e \in DOMAIN edgeset2assignment : Len(edgeset2assignment[e]) <= memoryFrameSize

LEMMA MemInvInit == ExecInit => MemInv /\ FrameInv
<1> SUFFICES ASSUME ExecInit PROVE MemInv /\ FrameInv
  OBVIOUS
<1>1. /\ regAssignments = NoAssignments /\ memoryAssignment = << >> /\ memoryFrameSize = 0
      /\ edgeset2assignment = FreshLayouts /\ out = FreshCode(fn) /\ defOps = << >> /\ compiled = 1
  BY DEF ExecInit, Init
<1>2. DOMAIN NoAssignments = {} /\ DOMAIN FreshLayouts = {} /\ DOMAIN FreshCode(fn) = Block(fn)
  BY DEF NoAssignments, FreshLayouts, FreshCode
<1> QED BY <1>1, <1>2 DEF MemInv, FrameInv, SlotTypes, InFrame, InMem

memVars == <<fn, regAssignments, memoryAssignment, memoryFrameSize, edgeset2assignment>>

LEMMA MemInvSame ==
  ASSUME MemInv, FrameInv, UNCHANGED memVars, UNCHANGED compiled,
         DOMAIN out' = Block(fn), phase' # "clean" => defOps' = << >>
  PROVE  MemInv' /\ FrameInv'
<1> USE DEF memVars
<1>1. MemInv'
  BY DEF MemInv
<1>2. FrameInv'
  BY DEF FrameInv
<1> QED BY <1>1, <1>2

LEMMA BeginEntryBlockMem ==
  ASSUME ExecInv, MemInv, FrameInv, BeginEntryBlock PROVE MemInv' /\ FrameInv'
<1>1. Walk /\ Handled(fn, regAssignments, <<1, 0>>) /\ IsFunction(fn) /\ 1 \in Block(fn)
  BY WalkFunction DEF ExecInv, HandledSoFar, BeginEntryBlock, Running, Walk
<1>2. DOMAIN regAssignments = {}
  <2>1. DOMAIN NoAssignments = {} /\ Handled(fn, NoAssignments, <<1, 0>>)
    BY <1>1, Untouched DEF NoAssignments
  <2> QED BY <1>1, <2>1 DEF Handled
<1>3. PICK a : a = StackArgs
  OBVIOUS
<1>4. memoryAssignment \in Seq(Nat) /\ memoryFrameSize \in Nat
  BY DEF MemInv, SlotTypes
<1>5. ArgsRun(a, fn)
      /\ (Len(memoryAssignment) <= memoryFrameSize =>
            InFrame(a.map, a.mem, a.frame) /\ memoryFrameSize <= a.frame)
  BY <1>1, <1>2, <1>3, <1>4, EntryRun
<1>6. /\ memoryAssignment' = a.mem /\ memoryFrameSize' = a.frame /\ regAssignments' = a.map
      /\ out' = [out EXCEPT ![1] = a.g.code] /\ fn' = fn /\ compiled' = compiled
      /\ edgeset2assignment' = edgeset2assignment /\ defOps' = defOps /\ phase = "begin"
  BY <1>3 DEF BeginEntryBlock, edgeVars, Running
<1>7. DOMAIN out' = Block(fn') /\ defOps' = << >>
  BY <1>6 DEF MemInv
<1>8. MemInv'
  BY <1>5, <1>6, <1>7 DEF MemInv, ArgsRun
<1>9. FrameInv'
  <2> SUFFICES ASSUME MaxFunctions = 1 PROVE
        /\ InFrame(a.map, a.mem, a.frame)
        /\ \A e \in DOMAIN edgeset2assignment : Len(edgeset2assignment[e]) <= a.frame
    BY <1>6 DEF FrameInv
  <2>1. /\ Len(memoryAssignment) <= memoryFrameSize
        /\ \A e \in DOMAIN edgeset2assignment : Len(edgeset2assignment[e]) <= memoryFrameSize
    BY DEF FrameInv, InFrame
  <2>2. a.frame \in Nat /\ \A e \in DOMAIN edgeset2assignment : Len(edgeset2assignment[e]) \in Nat
    BY <1>5 DEF ArgsRun, SlotTypes, MemInv
  <2> QED BY <1>4, <1>5, <2>1, <2>2
<1> QED BY <1>8, <1>9

LEMMA LayoutTaken ==
  ASSUME MemInv
  PROVE  /\ LayoutAtBegin \in Seq(Nat)
         /\ FrameInv /\ MaxFunctions = 1 => Len(LayoutAtBegin) <= memoryFrameSize
<1>1. memoryAssignment \in Seq(Nat) /\ memoryFrameSize \in Nat
  BY DEF MemInv, SlotTypes
<1>2. CASE fn.preds[blk] = << >>
  <2>1. LayoutAtBegin = memoryAssignment
    BY <1>2 DEF LayoutAtBegin
  <2> QED BY <1>1, <2>1 DEF FrameInv, InFrame
<1>3. CASE fn.preds[blk] # << >>
  <2>1. PICK mem : mem = StoredLayout(GetEdgeSetIndex(<<fn.preds[blk][1], blk>>))
    OBVIOUS
  <2>2. PICK dead : dead = { r \in Occupants(mem) : RegIsDeadAtBeginningOfMBB(r) }
    OBVIOUS
  <2>3. LayoutAtBegin = FreeDeadSlots(mem, dead)
    BY <1>3, <2>1, <2>2, Zenon DEF LayoutAtBegin
  <2>4. mem \in Seq(Nat) /\ (FrameInv /\ MaxFunctions = 1 => Len(mem) <= memoryFrameSize)
    <3>1. PICK e : e = GetEdgeSetIndex(<<fn.preds[blk][1], blk>>)
      OBVIOUS
    <3>2. mem = StoredLayout(e)
      BY <2>1, <3>1
    <3>3. CASE e \in DOMAIN edgeset2assignment
      <4>1. mem = edgeset2assignment[e]
        BY <3>2, <3>3 DEF StoredLayout
      <4> QED BY <3>3, <4>1 DEF MemInv, FrameInv
    <3>4. CASE e \notin DOMAIN edgeset2assignment
      <4>1. mem = << >>
        BY <3>2, <3>4 DEF StoredLayout
      <4> QED BY <1>1, <4>1
    <3> QED BY <3>3, <3>4
  <2>5. NoReg \in Nat
    BY DEF NoReg
  <2>6. FreeDeadSlots(mem, dead) \in Seq(Nat) /\ Len(FreeDeadSlots(mem, dead)) <= Len(mem)
    BY <2>4, <2>5, FreeDeadProperties
  <2>7. Len(LayoutAtBegin) \in Nat /\ Len(mem) \in Nat /\ Len(LayoutAtBegin) <= Len(mem)
    BY <2>3, <2>4, <2>6
  <2> QED BY <1>1, <2>3, <2>4, <2>6, <2>7
<1> QED BY <1>2, <1>3

LEMMA BeginBlockMem ==
  ASSUME MemInv, FrameInv, BeginBlock PROVE MemInv' /\ FrameInv'
<1>1. /\ memoryAssignment' = LayoutAtBegin /\ memoryFrameSize' = memoryFrameSize
      /\ regAssignments' = regAssignments /\ out' = out /\ fn' = fn /\ compiled' = compiled
      /\ edgeset2assignment' = edgeset2assignment /\ defOps' = defOps /\ phase = "begin"
  BY DEF BeginBlock, edgeVars, Running
<1>2. LayoutAtBegin \in Seq(Nat) /\ (MaxFunctions = 1 => Len(LayoutAtBegin) <= memoryFrameSize)
  BY LayoutTaken
<1>3. MemInv'
  BY <1>1, <1>2 DEF MemInv, SlotTypes
<1>4. FrameInv'
  BY <1>1, <1>2 DEF FrameInv, InFrame
<1> QED BY <1>3, <1>4

LEMMA DefPlacedMem ==
  ASSUME MemInv, FrameInv, DefUnused \/ DefLocal PROVE MemInv' /\ FrameInv'
<1>1. PICK region :
        /\ region # "NONSTACK"
        /\ regAssignments' = Assign(regAssignments, Instr.def, region, 0)
        /\ memoryAssignment' = memoryAssignment /\ memoryFrameSize' = memoryFrameSize
        /\ out' = out /\ fn' = fn /\ compiled' = compiled
        /\ edgeset2assignment' = edgeset2assignment /\ phase' = "clean"
  <2>1. CASE DefUnused
    BY <2>1 DEF DefUnused, edgeVars
  <2>2. CASE DefLocal
    BY <2>2 DEF DefLocal, edgeVars
  <2> QED BY <2>1, <2>2
<1>2. PICK new : new = Assign(regAssignments, Instr.def, region, 0)
  OBVIOUS
<1>3. \A q \in DOMAIN new : new[q].slot \in Nat
  BY <1>2, AssignSlots DEF MemInv, SlotTypes
<1>4. MaxFunctions = 1 => InFrame(new, memoryAssignment, memoryFrameSize)
  BY <1>1, <1>2, LocalInFrame DEF FrameInv
<1>5. MemInv'
  BY <1>1, <1>2, <1>3 DEF MemInv, SlotTypes
<1>6. FrameInv'
  BY <1>1, <1>2, <1>4 DEF FrameInv
<1> QED BY <1>5, <1>6

LEMMA DefMemoryMem ==
  ASSUME ExecInv, MemInv, FrameInv, DefMemory PROVE MemInv' /\ FrameInv'
<1>1. PICK slot, new, mem, frame :
        /\ slot = AllocatedSlot(memoryAssignment)
        /\ new = Assign(regAssignments, Instr.def, "NONSTACK", slot)
        /\ mem = AllocatedMem(memoryAssignment, Instr.def)
        /\ frame = AllocatedFrame(memoryAssignment, memoryFrameSize)
  OBVIOUS
<1>2. /\ regAssignments' = new /\ memoryAssignment' = mem /\ memoryFrameSize' = frame
      /\ out' = out /\ fn' = fn /\ compiled' = compiled
      /\ edgeset2assignment' = edgeset2assignment /\ phase' = "clean" /\ phase = "def"
  BY <1>1 DEF DefMemory, edgeVars, Running
<1>3. Instr.def \in Nat
  BY <1>2, WalkFunction, InstrType DEF ExecInv, Walk
<1>4. memoryAssignment \in Seq(Nat) /\ memoryFrameSize \in Nat /\ NoReg \in Nat
  BY DEF MemInv, SlotTypes, NoReg
<1>5. GivesSlot(memoryAssignment, Instr.def, memoryFrameSize, mem, slot, frame, Nat)
  BY <1>1, <1>3, <1>4, AllocateProperties
<1>6. mem \in Seq(Nat) /\ slot \in Nat /\ frame \in Nat /\ memoryFrameSize <= frame
  BY <1>5 DEF GivesSlot
<1>7. \A q \in DOMAIN new : new[q].slot \in Nat
  BY <1>1, <1>6, AssignSlots DEF MemInv, SlotTypes
<1>8. MaxFunctions = 1 => InFrame(new, mem, frame)
  <2>1. SlotTypes(regAssignments, memoryAssignment, memoryFrameSize)
    BY DEF MemInv
  <2> QED BY <1>1, <1>3, <2>1, AllocatedInFrame DEF FrameInv
<1>9. MemInv'
  BY <1>2, <1>6, <1>7 DEF MemInv, SlotTypes
<1>10. FrameInv'
  <2>1. \A e \in DOMAIN edgeset2assignment : Len(edgeset2assignment[e]) \in Nat
    BY DEF MemInv
  <2>2. MaxFunctions = 1 =>
          \A e \in DOMAIN edgeset2assignment : Len(edgeset2assignment[e]) <= frame
    BY <1>4, <1>6, <2>1 DEF FrameInv
  <2> QED BY <1>2, <1>8, <2>2 DEF FrameInv
<1> QED BY <1>9, <1>10

LEMMA EndOfBlockMem ==
  ASSUME MemInv, FrameInv, EndOfBlock PROVE MemInv' /\ FrameInv'
<1>1. /\ regAssignments' = regAssignments /\ memoryAssignment' = memoryAssignment
      /\ memoryFrameSize' = memoryFrameSize /\ out' = out /\ fn' = fn /\ compiled' = compiled
      /\ defOps' = defOps /\ phase = "end"
  BY DEF EndOfBlock, edgeVars, Running
<1>2. \A e \in DOMAIN edgeset2assignment' :
        \/ edgeset2assignment'[e] = memoryAssignment
        \/ e \in DOMAIN edgeset2assignment /\ edgeset2assignment'[e] = edgeset2assignment[e]
  <2>1. CASE stack = << >> /\ fn.succs[blk] # << >>
    <3>1. PICK set : set = GetEdgeSetIndex(<<blk, fn.succs[blk][1]>>)
      OBVIOUS
    <3>2. edgeset2assignment' = [e \in DOMAIN edgeset2assignment \cup {set} |->
                                   IF e = set THEN memoryAssignment ELSE edgeset2assignment[e]]
      BY <2>1, <3>1, Zenon DEF EndOfBlock
    <3> QED BY <3>2
  <2>2. CASE ~(stack = << >> /\ fn.succs[blk] # << >>)
    BY <2>2 DEF EndOfBlock
  <2> QED BY <2>1, <2>2
<1>3. MemInv'
  BY <1>1, <1>2 DEF MemInv, SlotTypes
<1>4. FrameInv'
  BY <1>1, <1>2 DEF FrameInv, InFrame
<1> QED BY <1>3, <1>4

LEMMA NextFunctionMem ==
  ASSUME MemInv, FrameInv, NextFunction PROVE MemInv' /\ FrameInv'
<1>1. /\ regAssignments' = NoAssignments /\ memoryAssignment' = memoryAssignment
      /\ memoryFrameSize' = 0 /\ out' = FreshCode(fn') /\ compiled' = compiled + 1
      /\ compiled < MaxFunctions
      /\ edgeset2assignment' = FreshLayouts /\ defOps' = defOps /\ phase = "done"
  BY DEF NextFunction, Running
<1>2. DOMAIN NoAssignments = {} /\ DOMAIN FreshLayouts = {} /\ DOMAIN FreshCode(fn') = Block(fn')
  BY DEF NoAssignments, FreshLayouts, FreshCode
<1>3. MemInv'
  BY <1>1, <1>2 DEF MemInv, SlotTypes
<1>4. FrameInv'
  BY <1>1 DEF FrameInv, MemInv
<1> QED BY <1>3, <1>4

LEMMA StillMem ==
  ASSUME ExecInv, MemInv, FrameInv,
         \/ SkipEmptyBlock \/ HandleUses \/ BadUse \/ DefNothing \/ CleanUpDeadRegisters
  PROVE  MemInv' /\ FrameInv'
<1>1. UNCHANGED memVars /\ compiled' = compiled
  BY DEF SkipEmptyBlock, HandleUses, BadUse, DefNothing, CleanUpDeadRegisters, edgeVars, memVars
<1>2. DOMAIN out' = Block(fn)
  <2>1. CASE SkipEmptyBlock \/ BadUse \/ DefNothing
    BY <2>1 DEF SkipEmptyBlock, BadUse, DefNothing, MemInv
  <2>2. CASE HandleUses
    <3>1. PICK more : out' = [out EXCEPT ![blk] = more]
      BY <2>2 DEF HandleUses
    <3> QED BY <3>1 DEF MemInv
  <2>3. CASE CleanUpDeadRegisters
    <3>1. PICK more : out' = [out EXCEPT ![blk] = more]
      BY <2>3 DEF CleanUpDeadRegisters
    <3> QED BY <3>1 DEF MemInv
  <2> QED BY <2>1, <2>2, <2>3
<1>3. phase' # "clean" => defOps' = << >>
  BY DEF SkipEmptyBlock, HandleUses, BadUse, DefNothing, CleanUpDeadRegisters, Running, NextBlock,
         MemInv
<1> QED BY <1>1, <1>2, <1>3, MemInvSame

LEMMA MemInvCompile == ASSUME ExecInv, MemInv, FrameInv, Next PROVE MemInv' /\ FrameInv'
<1>1. CASE ComputeEdgeSets
  <2>1. UNCHANGED <<fn, allocVars>>
    BY <1>1 DEF ComputeEdgeSets, EdgeNext, MergePred, PredsMerged, MergeSucc, SuccsMerged
  <2>2. UNCHANGED memVars /\ compiled' = compiled /\ out' = out /\ phase' = phase /\ defOps' = defOps
    BY <2>1 DEF allocVars, memVars
  <2>3. DOMAIN out' = Block(fn) /\ (phase' # "clean" => defOps' = << >>)
    BY <2>2 DEF MemInv
  <2> QED BY <2>2, <2>3, MemInvSame
<1>2. CASE SkipEmptyBlock \/ HandleUses \/ BadUse \/ DefNothing \/ CleanUpDeadRegisters
  BY <1>2, StillMem
<1>3. CASE BeginEntryBlock BY <1>3, BeginEntryBlockMem
<1>4. CASE BeginBlock BY <1>4, BeginBlockMem
<1>5. CASE DefUnused \/ DefLocal BY <1>5, DefPlacedMem
<1>6. CASE DefMemory BY <1>6, DefMemoryMem
<1>7. CASE EndOfBlock BY <1>7, EndOfBlockMem
<1>8. CASE NextFunction BY <1>8, NextFunctionMem
<1> QED BY <1>1, <1>2, <1>3, <1>4, <1>5, <1>6, <1>7, <1>8 DEF Next

LEMMA MemInvNext == ExecInv /\ MemInv /\ FrameInv /\ [ExecNext]_allVars => MemInv' /\ FrameInv'
<1> SUFFICES ASSUME ExecInv, MemInv, FrameInv, [ExecNext]_allVars PROVE MemInv' /\ FrameInv'
  OBVIOUS
<1>1. CASE Compile
  BY <1>1, MemInvCompile DEF Compile
<1>2. CASE UNCHANGED vars
  <2>1. UNCHANGED memVars /\ compiled' = compiled /\ out' = out /\ phase' = phase /\ defOps' = defOps
    BY <1>2 DEF vars, edgeVars, allocVars, memVars
  <2>2. DOMAIN out' = Block(fn) /\ (phase' # "clean" => defOps' = << >>)
    BY <2>1 DEF MemInv
  <2> QED BY <2>1, <2>2, MemInvSame
<1>3. CASE Start
  BY <1>2, <1>3 DEF Start
<1>4. CASE ExecStep
  BY <1>2, <1>4 DEF ExecStep
<1>5. CASE Branch
  BY <1>2, <1>5 DEF Branch
<1>6. CASE UNCHANGED allVars
  BY <1>2, <1>6 DEF allVars
<1> QED BY <1>1, <1>3, <1>4, <1>5, <1>6 DEF ExecNext

(* The memory slots and layouts of the pass are well formed, and with one  *)
(* function they lie inside the frame.                                     *)
THEOREM MemoryInvariant == ExecSpec => [](MemInv /\ FrameInv)
<1>1. ExecInit => MemInv /\ FrameInv
  BY MemInvInit
<1>2. ExecInv /\ (MemInv /\ FrameInv) /\ [ExecNext]_allVars => (MemInv /\ FrameInv)'
  BY MemInvNext
<1> QED BY <1>1, <1>2, ExecInvariant, PTL DEF ExecSpec

(* allocateMemorySlot raises memoryFrameSize with every slot it appends    *)
(* and no layout taken up again is longer: in the first function that the  *)
(* pass object compiles every slot is inside the frame.                    *)
THEOREM SlotsStayInFrame == MaxFunctions = 1 => (ExecSpec => []SlotsInFrame)
<1> SUFFICES ASSUME MaxFunctions = 1 PROVE ExecSpec => []SlotsInFrame
  OBVIOUS
<1>1. MemInv /\ FrameInv => SlotsInFrame
  BY DEF FrameInv, InFrame, InMem, SlotsInFrame
<1> QED BY <1>1, MemoryInvariant, PTL
-----------------------------------------------------------------------------
(* The code of a block that was left behind leads from the start of the    *)
(* block to its end, with the stack empty and every register in memory     *)
(* that is live into the block or defined in it.                           *)
BlockDone(f, map, b, code) ==
  IF f.code[b] = << >> THEN code = << >>
  ELSE /\ LiveArrived(f, map, b)
       /\ \E V : /\ Runs(f.code[b], map, code, EntryState(f, map, b),
                         << << >>, V, Len(f.code[b]) + 1>>)
                 /\ Kept(f, map, b, 2 * Len(f.code[b]) + 1) \subseteq V

LEMMA DoneGrow ==
  ASSUME NEW f, NEW map, NEW new, Extends(map, new), NEW b, NEW code, BlockDone(f, map, b, code),
         NewAfter(f, map, new, b, 2 * Len(f.code[b]) + 1)
  PROVE  BlockDone(f, new, b, code)
<1>1. CASE f.code[b] = << >>
  BY <1>1 DEF BlockDone
<1>2. CASE f.code[b] # << >>
  <2>1. LiveArrived(f, map, b)
    BY <1>2 DEF BlockDone
  <2>2. PICK V : /\ Runs(f.code[b], map, code, EntryState(f, map, b),
                         << << >>, V, Len(f.code[b]) + 1>>)
                 /\ Kept(f, map, b, 2 * Len(f.code[b]) + 1) \subseteq V
    BY <1>2 DEF BlockDone
  <2>3. PICK q : q = 2 * Len(f.code[b]) + 1
    OBVIOUS
  <2>4. /\ EntryState(f, new, b) = EntryState(f, map, b)
        /\ Kept(f, new, b, q) = Kept(f, map, b, q) /\ LiveArrived(f, new, b)
    BY <2>1, <2>3, KeptGrow
  <2>5. Runs(f.code[b], new, code, EntryState(f, new, b), << << >>, V, Len(f.code[b]) + 1>>)
    BY <2>2, <2>4, RunsGrow
  <2> QED BY <1>2, <2>2, <2>3, <2>4, <2>5 DEF BlockDone
<1> QED BY <1>1, <1>2

KeptHere(q) == Kept(fn, regAssignments, blk, q)

(* The code emitted for the current block so far leads to stack st, the    *)
(* next instruction and the registers K in memory.                         *)
RunHere(st, next, K) ==
  PartRun(fn, regAssignments, memoryAssignment, blk, out[blk], st, next, K)

Stored(r) == defOps = <<Op("PUTLOCAL", regAssignments[r].slot)>>

(* handleDef may have left its store for later.                            *)
DefRun ==
  \/ defOps = << >> /\ RunHere(stack, idx + 1, KeptHere(2 * idx + 1))
  \/ /\ Instr.def # NoReg /\ Stored(Instr.def)
     /\ Owned(memoryAssignment, regAssignments, {Instr.def})
     /\ RunHere(Append(stack, Instr.def), idx + 1, KeptHere(2 * idx + 1) \ {Instr.def})

EmittedHere ==
  /\ phase \in {"uses", "def", "clean", "end"} => LiveArrived(fn, regAssignments, blk)
  /\ phase = "uses" => RunHere(stack, idx, KeptHere(2 * idx))
  /\ phase = "def" => RunHere(Gave(Instr, stack), idx + 1, KeptHere(2 * idx) \ {Instr.def})
  /\ phase = "clean" => DefRun
  /\ phase = "end" => RunHere(<< >>, idx + 1, KeptHere(2 * idx + 1))

EmittedBefore ==
  \A b \in Block(fn) : b < blk \/ phase = "done" => BlockDone(fn, regAssignments, b, out[b])

NotYet ==
  \A b \in Block(fn) : b > blk \/ (b = blk /\ phase = "begin") => out[b] = << >>

Emitted == NotYet /\ (hazards = {} => EmittedHere /\ EmittedBefore)

LEMMA EmittedInit == ExecInit => Emitted
<1> SUFFICES ASSUME ExecInit PROVE Emitted
  OBVIOUS
<1>1. out = FreshCode(fn) /\ phase = "begin" /\ blk = 1
  BY DEF ExecInit, Init
<1>2. \A b \in Block(fn) : out[b] = << >> /\ ~(b < blk)
  BY <1>1 DEF FreshCode, Block
<1> QED BY <1>1, <1>2 DEF Emitted, NotYet, EmittedHere, EmittedBefore

codeVars == <<fn, blk, idx, phase, stack, regAssignments, memoryAssignment, out, defOps, hazards>>

LEMMA EmittedSame == ASSUME Emitted, UNCHANGED codeVars PROVE Emitted'
<1> USE DEF codeVars
<1>1. NotYet'
  BY DEF Emitted, NotYet
<1>2. ASSUME hazards' = {} PROVE EmittedHere'
  <2>1. Instr' = Instr /\ EmittedHere
    BY <1>2 DEF Instr, Emitted
  <2>2. \A q : KeptHere(q)' = KeptHere(q)
    BY DEF KeptHere
  <2> QED BY <2>1, <2>2 DEF EmittedHere, DefRun, RunHere, KeptHere, Stored
<1>3. ASSUME hazards' = {} PROVE EmittedBefore'
  BY <1>3 DEF Emitted, EmittedBefore
<1> QED BY <1>1, <1>2, <1>3 DEF Emitted

(* The step to the next block.                                             *)
LEMMA NextBlockEmitted ==
  ASSUME Walk, Emitted, NextBlock, UNCHANGED <<fn, regAssignments, out, hazards>>,
         phase # "done", hazards = {} => BlockDone(fn, regAssignments, blk, out[blk])
  PROVE  Emitted'
<1>1. fn.n \in Nat \ {0} /\ blk \in Nat /\ blk \in Block(fn)
  BY WalkFunction DEF Walk
<1>2. CASE blk < fn.n
  <2>1. blk' = blk + 1 /\ phase' = "begin"
    BY <1>2 DEF NextBlock
  <2>2. NotYet'
    <3> SUFFICES ASSUME NEW b \in Block(fn), b > blk + 1 \/ b = blk + 1 PROVE out[b] = << >>
      BY <2>1 DEF NotYet
    <3>1. b > blk
      BY <1>1 DEF Block
    <3> QED BY <3>1 DEF Emitted, NotYet
  <2>3. hazards = {} => EmittedBefore'
    <3> SUFFICES ASSUME hazards = {}, NEW b \in Block(fn), b < blk + 1
                 PROVE  BlockDone(fn, regAssignments, b, out[b])
      BY <2>1 DEF EmittedBefore
    <3>1. b < blk \/ b = blk
      BY <1>1 DEF Block
    <3> QED BY <3>1 DEF Emitted, EmittedBefore
  <2>4. EmittedHere'
    BY <2>1 DEF EmittedHere
  <2> QED BY <2>2, <2>3, <2>4 DEF Emitted
<1>3. CASE ~(blk < fn.n)
  <2>1. blk' = blk /\ phase' = "done" /\ blk = fn.n
    BY <1>1, <1>3 DEF NextBlock, Block
  <2>2. NotYet'
    <3> SUFFICES ASSUME NEW b \in Block(fn), b > blk PROVE out[b] = << >>
      BY <2>1 DEF NotYet
    <3> QED BY DEF Emitted, NotYet
  <2>3. hazards = {} => EmittedBefore'
    <3> SUFFICES ASSUME hazards = {}, NEW b \in Block(fn)
                 PROVE  BlockDone(fn, regAssignments, b, out[b])
      BY <2>1 DEF EmittedBefore
    <3>1. b < blk \/ b = blk
      BY <1>1, <2>1 DEF Block
    <3> QED BY <3>1 DEF Emitted, EmittedBefore
  <2>4. EmittedHere'
    BY <2>1 DEF EmittedHere
  <2> QED BY <2>2, <2>3, <2>4 DEF Emitted
<1> QED BY <1>2, <1>3

LEMMA SkipEmptyBlockEmitted == ASSUME ExecInv, Emitted, SkipEmptyBlock PROVE Emitted'
<1>1. /\ NextBlock /\ UNCHANGED <<fn, regAssignments, out, hazards>> /\ phase = "begin"
      /\ fn.code[blk] = << >> /\ Walk
  BY DEF SkipEmptyBlock, edgeVars, Running, IsEmptyBlock, ExecInv
<1>2. BlockDone(fn, regAssignments, blk, out[blk])
  BY <1>1 DEF BlockDone, Emitted, NotYet, Walk
<1> QED BY <1>1, <1>2, NextBlockEmitted

(* A step that goes on inside the block.                                   *)
LEMMA InsideBlock ==
  ASSUME Walk, Emitted, fn' = fn, blk' = blk, phase' \notin {"begin", "done"},
         \A b \in Block(fn) : b # blk => out'[b] = out[b]
  PROVE  /\ NotYet'
         /\ hazards = {} /\ regAssignments' = regAssignments => EmittedBefore'
<1>1. fn.n \in Nat /\ blk \in Nat
  BY WalkFunction
<1>2. \A b \in Block(fn) : (b < blk \/ b > blk) => out'[b] = out[b]
  BY <1>1 DEF Block
<1>3. NotYet'
  BY <1>2 DEF NotYet, Emitted
<1>4. ASSUME hazards = {}, regAssignments' = regAssignments PROVE EmittedBefore'
  BY <1>2, <1>4 DEF EmittedBefore, Emitted
<1> QED BY <1>3, <1>4

LEMMA BeginEntryBlockEmitted ==
  ASSUME ExecInv, MemInv, Emitted, BeginEntryBlock PROVE Emitted'
<1>1. Walk /\ Handled(fn, regAssignments, <<1, 0>>) /\ IsFunction(fn) /\ 1 \in Block(fn) /\ blk = 1
  BY WalkFunction DEF ExecInv, HandledSoFar, BeginEntryBlock, Running, Walk
<1>2. DOMAIN regAssignments = {}
  <2>1. DOMAIN NoAssignments = {} /\ Handled(fn, NoAssignments, <<1, 0>>)
    BY <1>1, Untouched DEF NoAssignments
  <2> QED BY <1>1, <2>1 DEF Handled
<1>3. PICK a : a = StackArgs
  OBVIOUS
<1>4. memoryAssignment \in Seq(Nat) /\ memoryFrameSize \in Nat
  BY DEF MemInv, SlotTypes
<1>5. ArgsRun(a, fn)
  BY <1>1, <1>2, <1>3, <1>4, EntryRun
<1>6. /\ memoryAssignment' = a.mem /\ regAssignments' = a.map /\ stack' = a.g.stack
      /\ out' = [out EXCEPT ![1] = a.g.code] /\ fn' = fn /\ blk' = blk /\ idx' = 1
      /\ phase' = "uses" /\ hazards' = hazards
  BY <1>3 DEF BeginEntryBlock, EnterBlock, edgeVars
<1>7. out'[1] = a.g.code /\ \A b \in Block(fn) : b # blk => out'[b] = out[b]
  BY <1>1, <1>6 DEF MemInv
<1>8. NotYet'
  BY <1>1, <1>6, <1>7, InsideBlock
<1>9. EmittedBefore'
  <2>1. \A b \in Block(fn) : ~(b < 1)
    BY DEF Block
  <2> QED BY <1>1, <1>6, <2>1 DEF EmittedBefore
<1>10. EmittedHere'
  <2>1. PartRun(fn, a.map, a.mem, 1, a.g.code, a.g.stack, 1, InMem(a.map))
    BY <1>5 DEF ArgsRun
  <2>2. Kept(fn, a.map, 1, 2 * 1) \subseteq InMem(a.map)
    BY DEF Kept, Needed, DefinedIn, InMem
  <2>3. PartRun(fn, a.map, a.mem, 1, a.g.code, a.g.stack, 1, Kept(fn, a.map, 1, 2 * 1))
    BY <2>1, <2>2, PartKeeps
  <2>4. LiveArrived(fn, a.map, 1)
    BY DEF LiveArrived
  <2> QED BY <1>1, <1>6, <1>7, <2>3, <2>4 DEF EmittedHere, RunHere, KeptHere
<1> QED BY <1>8, <1>9, <1>10 DEF Emitted

LEMMA KeptAtBegin ==
  ASSUME NEW f, IsFunction(f), NEW b \in Block(f), b # 1, NEW map
  PROVE  Kept(f, map, b, 2 * 1) = Needed(f, map, b)
<1>1. DefinedIn(f, map, b, 2 * 1) = {}
  <2> SUFFICES ASSUME NEW r \in DefinedIn(f, map, b, 2 * 1) PROVE FALSE
    OBVIOUS
  <2>1. PICK d \in DefSites(f, r) : d[1] = b /\ d[2] < 2 * 1
    BY DEF DefinedIn
  <2>2. PICK c, j : DefShape(f, d, c, j)
    BY DefShapes
  <2>3. c = b /\ j \in Nat /\ d[2] = 2 * j /\ (j = 0 => c = 1)
    BY <2>1, <2>2 DEF DefShape
  <2> QED BY <2>1, <2>3
<1> QED BY <1>1 DEF Kept

LEMMA BeginBlockEmitted == ASSUME ExecInv, MemInv, Emitted, BeginBlock PROVE Emitted'
<1>1. Walk /\ IsFunction(fn) /\ blk \in Block(fn) /\ blk # 1 /\ phase = "begin"
  BY WalkFunction DEF ExecInv, BeginBlock, Running, Walk
<1>2. PICK mem : mem = LayoutAtBegin
  OBVIOUS
<1>3. /\ memoryAssignment' = mem /\ regAssignments' = regAssignments /\ stack' = << >>
      /\ out' = out /\ fn' = fn /\ blk' = blk /\ idx' = 1
      /\ phase' = "uses" /\ hazards' = hazards \cup LayoutHazards(mem)
  BY <1>2 DEF BeginBlock, EnterBlock, edgeVars
<1>4. NotYet' /\ (hazards = {} => EmittedBefore')
  BY <1>1, <1>3, InsideBlock
<1>5. ASSUME hazards' = {} PROVE EmittedHere' /\ hazards = {}
  <2>1. LayoutHazards(mem) = {} /\ hazards = {}
    BY <1>3, <1>5
  <2>2. \A r \in VRegs(fn) : LiveIn(r) =>
          r \in DOMAIN regAssignments /\ (InMemory(r) => HasSlot(mem, r))
    <3> SUFFICES ASSUME NEW r \in VRegs(fn), LiveIn(r)
                 PROVE  r \in DOMAIN regAssignments /\ (InMemory(r) => HasSlot(mem, r))
      OBVIOUS
    <3>1. "lostSlot" \notin LayoutHazards(mem) /\ "definedLater" \notin LayoutHazards(mem)
      BY <2>1
    <3> QED BY <3>1 DEF LayoutHazards
  <2>3. LiveArrived(fn, regAssignments, blk)
    BY <2>2 DEF LiveArrived, LiveIn
  <2>4. Owned(mem, regAssignments, Needed(fn, regAssignments, blk))
    <3> SUFFICES ASSUME NEW r \in Needed(fn, regAssignments, blk)
                 PROVE  /\ r \in DOMAIN regAssignments /\ r # NoReg /\ regAssignments[r].slot \in Nat
                        /\ regAssignments[r].slot + 1 \in DOMAIN mem
                        /\ mem[regAssignments[r].slot + 1] = r
      BY DEF Owned
    <3>1. r \in DOMAIN regAssignments /\ regAssignments[r].region = "NONSTACK" /\ LiveIn(r)
      BY DEF Needed, LiveIn
    <3>2. r \in VRegs(fn)
      BY <1>1, <3>1 DEF ExecInv, HandledSoFar, Handled
    <3>3. r # NoReg
      BY <1>1, <3>2, VRegType
    <3>4. HasSlot(mem, r)
      BY <2>2, <3>1, <3>2 DEF InMemory
    <3> QED BY <3>1, <3>3, <3>4 DEF HasSlot, MemInv, SlotTypes
  <2>5. PartRun(fn, regAssignments, mem, blk, << >>, << >>, 1, Needed(fn, regAssignments, blk))
    BY <1>1, <2>4, BeginPart
  <2>6. out[blk] = << >>
    BY <1>1 DEF Emitted, NotYet
  <2>7. Kept(fn, regAssignments, blk, 2 * 1) = Needed(fn, regAssignments, blk)
    BY <1>1, KeptAtBegin
  <2> QED BY <1>3, <2>1, <2>3, <2>5, <2>6, <2>7 DEF EmittedHere, RunHere, KeptHere
<1> QED BY <1>4, <1>5 DEF Emitted

(* No instruction defines a register that is on the stack before it.       *)
LEMMA DefNotOnStack ==
  ASSUME NEW f, IsFunction(f), NEW b \in Block(f), NEW k \in 1 .. Len(f.code[b]),
         NEW map, Handled(f, map, <<b, 2 * k>>), NEW q, NEW st, HoldsExactly(st, Locals(f, map, b, q)),
         NEW d, d = f.code[b][k].def, d # NoReg
  PROVE  \A i \in 1 .. Len(st) : st[i] # d
<1> SUFFICES ASSUME NEW i \in 1 .. Len(st), st[i] = d PROVE FALSE
  OBVIOUS
<1>1. d \in DOMAIN map /\ map[d].region = "L_STACK"
  BY DEF HoldsExactly, Distinct, Locals
<1>2. PICK s \in DefSites(f, d) : DefIsLocal(f, d, s) /\ Before(s, <<b, 2 * k>>)
  BY <1>1 DEF Handled, RegionOf
<1>3. DefSites(f, d) = {s}
  BY <1>2 DEF DefIsLocal
<1>4. d \notin DOMAIN map
  BY <1>3, NewRegister
<1> QED BY <1>1, <1>4

LEMMA OperandsFoundHere ==
  ASSUME AtInstruction
  PROVE  OperandsFound(UseTypes, Instr, regAssignments, KeptHere(2 * idx))
<1>1. /\ Len(UseTypes) = Len(Instr.uses) /\ DOMAIN UseTypes = 1 .. Len(Instr.uses)
      /\ \A i \in 1 .. Len(Instr.uses) :
           /\ UseTypes[i].reg = Instr.uses[i]
           /\ UseTypes[i].isMemUse = (regAssignments[Instr.uses[i]].region = "NONSTACK")
  BY UseTypeAt
<1>2. IsFunction(fn) /\ blk \in Block(fn) /\ idx \in 1 .. Len(fn.code[blk])
  BY DEF AtInstruction
<1>3. /\ DOMAIN Instr.uses = 1 .. Len(Instr.uses)
      /\ \A i \in 1 .. Len(Instr.uses) : Instr.uses[i] \in Elems(Instr.uses)
  BY <1>2, InstrType
<1>4. ASSUME NEW i \in 1 .. Len(Instr.uses)
      PROVE  UseTypes[i].slot = regAssignments[Instr.uses[i]].slot
  BY <1>3 DEF UseTypes
<1>5. ASSUME NEW i \in 1 .. Len(Instr.uses), UseTypes[i].isMemUse
      PROVE  Instr.uses[i] \in KeptHere(2 * idx)
  <2>1. PICK r : r = Instr.uses[i]
    OBVIOUS
  <2>2. r \in Elems(fn.code[blk][idx].uses) /\ regAssignments[r].region = "NONSTACK"
    BY <1>1, <1>3, <1>5, <2>1 DEF Instr
  <2>3. r \in DOMAIN regAssignments
    BY <2>2 DEF AtInstruction, OperandIn, Instr
  <2>4. r \in Kept(fn, regAssignments, blk, 2 * idx)
    BY <1>2, <2>2, <2>3, OperandKept
  <2> QED BY <2>1, <2>4 DEF KeptHere
<1> QED BY <1>1, <1>4, <1>5 DEF OperandsFound

LEMMA HandleUsesEmitted == ASSUME ExecInv, MemInv, Emitted, HandleUses PROVE Emitted'
<1>1. /\ Walk /\ IsFunction(fn) /\ blk \in Block(fn) /\ idx \in 1 .. Len(fn.code[blk])
      /\ phase = "uses" /\ Handled(fn, regAssignments, <<blk, 2 * idx>>)
  BY WalkFunction DEF ExecInv, HandleUses, Running, Walk, HandledSoFar
<1>2. PICK g : g = ConsumeOperands(Gen(stack), UseTypes)
  OBVIOUS
<1>3. PICK o : o = Op("MI", idx)
  OBVIOUS
<1>4. PICK code : code = out[blk] \o g.code \o <<o>>
  OBVIOUS
<1>5. /\ memoryAssignment' = memoryAssignment /\ regAssignments' = regAssignments
      /\ stack' = g.stack /\ out' = [out EXCEPT ![blk] = code] /\ fn' = fn /\ blk' = blk
      /\ idx' = idx /\ phase' = "def" /\ hazards' = hazards \cup OperandHazards(UseTypes)
  BY <1>2, <1>3, <1>4 DEF HandleUses, edgeVars
<1>6. out'[blk] = code /\ \A b \in Block(fn) : b # blk => out'[b] = out[b]
  BY <1>1, <1>5 DEF MemInv
<1>7. NotYet' /\ (hazards = {} => EmittedBefore')
  BY <1>1, <1>5, <1>6, InsideBlock
<1>8. ASSUME hazards' = {} PROVE EmittedHere' /\ hazards = {}
  <2>1. hazards = {} /\ OperandHazards(UseTypes) = {}
    BY <1>5, <1>8
  <2>2. AtInstruction
    BY <1>1, <2>1, Operands
  <2>3. HoldsExactly(stack, LocalsHere)
    BY <1>1, <2>1 DEF ExecInv, Undisturbed, LocalsHere
  <2>4. /\ g.error = NoError
        /\ HoldsExactly(g.stack, Locals(fn, regAssignments, blk, Pending(fn, blk, idx)))
    BY <1>1, <1>2, <2>1, <2>2, <2>3, UsesRight
  <2>5. PICK in : in = Instr
    OBVIOUS
  <2>6. in = fn.code[blk][idx]
    BY <2>5 DEF Instr
  <2>7. in.def # NoReg => \A i \in 1 .. Len(g.stack) : g.stack[i] # in.def
    BY <1>1, <2>4, <2>6, DefNotOnStack
  <2>8. PICK us, K : us = UseTypes /\ K = KeptHere(2 * idx)
    OBVIOUS
  <2>9. OperandsFound(us, in, regAssignments, K)
    BY <2>2, <2>5, <2>8, OperandsFoundHere
  <2>10. DOMAIN regAssignments \subseteq Nat
    BY <1>1, VRegType DEF Handled
  <2>11. PartRun(fn, regAssignments, memoryAssignment, blk, out[blk], stack, idx, K)
    BY <1>1, <2>1, <2>8 DEF Emitted, EmittedHere, RunHere
  <2>12. PartRun(fn, regAssignments, memoryAssignment, blk, out[blk] \o g.code \o <<Op("MI", idx)>>,
                 Gave(in, g.stack), idx + 1, K \ {in.def})
    BY <1>1, <1>2, <2>4, <2>6, <2>7, <2>8, <2>9, <2>10, <2>11, UsesPart
  <2>13. PartRun(fn, regAssignments, memoryAssignment, blk, code,
                 Gave(in, g.stack), idx + 1, K \ {in.def})
    BY <1>3, <1>4, <2>12
  <2>14. Instr' = in
    BY <1>5, <2>6 DEF Instr
  <2>15. LiveArrived(fn, regAssignments, blk)
    BY <1>1, <2>1 DEF Emitted, EmittedHere
  <2>16. KeptHere(2 * idx)' = K
    BY <1>5, <2>8 DEF KeptHere
  <2>17. RunHere(Gave(Instr, stack), idx + 1, KeptHere(2 * idx) \ {Instr.def})'
    BY <1>5, <1>6, <2>13, <2>14, <2>16 DEF RunHere
  <2> QED BY <1>5, <2>1, <2>15, <2>17 DEF EmittedHere
<1> QED BY <1>7, <1>8 DEF Emitted

LEMMA DefNothingEmitted == ASSUME ExecInv, MemInv, Emitted, DefNothing PROVE Emitted'
<1>1. /\ Walk /\ IsFunction(fn) /\ blk \in Block(fn) /\ idx \in 1 .. Len(fn.code[blk])
      /\ phase = "def" /\ Handled(fn, regAssignments, <<blk, 2 * idx>>)
  BY WalkFunction DEF ExecInv, DefNothing, Running, Walk, HandledSoFar
<1>2. /\ memoryAssignment' = memoryAssignment /\ regAssignments' = regAssignments
      /\ stack' = stack /\ out' = out /\ fn' = fn /\ blk' = blk /\ idx' = idx
      /\ phase' = "clean" /\ hazards' = hazards /\ defOps' = << >> /\ Instr.def = NoReg
  BY <1>1 DEF DefNothing, edgeVars, MemInv
<1>3. NotYet' /\ (hazards = {} => EmittedBefore')
  BY <1>1, <1>2, InsideBlock
<1>4. ASSUME hazards = {} PROVE EmittedHere'
  <2>1. /\ LiveArrived(fn, regAssignments, blk)
        /\ PartRun(fn, regAssignments, memoryAssignment, blk, out[blk], Gave(Instr, stack), idx + 1,
                   KeptHere(2 * idx) \ {Instr.def})
    BY <1>1, <1>4 DEF Emitted, EmittedHere, RunHere
  <2>2. Gave(Instr, stack) = stack
    BY <1>2 DEF Gave
  <2>3. Kept(fn, regAssignments, blk, 2 * idx + 1) \subseteq KeptHere(2 * idx) \ {Instr.def}
    <3>1. \A r \in DOMAIN regAssignments : r # NoReg
      BY <1>1, VRegType DEF Handled
    <3>2. \A r \in Kept(fn, regAssignments, blk, 2 * idx + 1) : r \in DOMAIN regAssignments
      BY DEF Kept, Needed, DefinedIn
    <3>3. Added(Kept(fn, regAssignments, blk, 2 * idx + 1), Kept(fn, regAssignments, blk, 2 * idx),
                fn.code[blk][idx].def)
      BY <1>1, KeptAfter
    <3> QED BY <1>2, <3>1, <3>2, <3>3 DEF Added, KeptHere, Instr
  <2>4. PartRun(fn, regAssignments, memoryAssignment, blk, out[blk], stack, idx + 1,
                Kept(fn, regAssignments, blk, 2 * idx + 1))
    BY <2>1, <2>2, <2>3, PartKeeps
  <2>5. DefRun'
    BY <1>2, <2>4 DEF DefRun, RunHere, KeptHere
  <2> QED BY <1>2, <2>1, <2>5 DEF EmittedHere
<1> QED BY <1>2, <1>3, <1>4 DEF Emitted

(* What handleDef leaves of the run, with the new assignment.              *)
LEMMA DefGrows ==
  ASSUME ExecInv, Emitted, phase = "def", hazards = {}, Instr.def # NoReg,
         NEW region, NEW slot, NEW new, new = Assign(regAssignments, Instr.def, region, slot)
  PROVE  /\ LiveArrived(fn, new, blk)
         /\ PartRun(fn, new, memoryAssignment, blk, out[blk], Append(stack, Instr.def), idx + 1,
                    Kept(fn, new, blk, 2 * idx + 1) \ {Instr.def})
         /\ \A b \in Block(fn) : b < blk => BlockDone(fn, new, b, out[b])
<1>1. /\ Walk /\ IsFunction(fn) /\ blk \in Block(fn) /\ idx \in 1 .. Len(fn.code[blk])
      /\ Handled(fn, regAssignments, <<blk, 2 * idx>>)
  BY WalkFunction DEF ExecInv, Walk, HandledSoFar
<1>2. PICK r : r = Instr.def /\ r = fn.code[blk][idx].def /\ r # NoReg
  BY DEF Instr
<1>3. Extends(regAssignments, new)
  BY AssignExtends
<1>4. /\ NewAfter(fn, regAssignments, new, blk, 2 * idx)
      /\ \A a \in Block(fn) : \A q : a < blk => NewAfter(fn, regAssignments, new, a, q)
  BY <1>1, <1>2, AssignAfter
<1>5. /\ LiveArrived(fn, regAssignments, blk)
      /\ PartRun(fn, regAssignments, memoryAssignment, blk, out[blk], Gave(Instr, stack), idx + 1,
                 KeptHere(2 * idx) \ {Instr.def})
  BY DEF Emitted, EmittedHere, RunHere
<1>6. Gave(Instr, stack) = Append(stack, Instr.def)
  BY DEF Gave
<1>7. /\ LiveArrived(fn, new, blk)
      /\ Kept(fn, new, blk, 2 * idx) = Kept(fn, regAssignments, blk, 2 * idx)
  BY <1>3, <1>4, <1>5, KeptGrow
<1>8. PartRun(fn, new, memoryAssignment, blk, out[blk], Gave(Instr, stack), idx + 1,
              KeptHere(2 * idx) \ {Instr.def})
  BY <1>3, <1>4, <1>5, PartGrow
<1>9. Kept(fn, new, blk, 2 * idx + 1) \ {Instr.def} \subseteq KeptHere(2 * idx) \ {Instr.def}
  <2>1. Added(Kept(fn, new, blk, 2 * idx + 1), Kept(fn, new, blk, 2 * idx), fn.code[blk][idx].def)
    BY <1>1, KeptAfter
  <2> QED BY <1>2, <1>7, <2>1 DEF Added, KeptHere
<1>10. PartRun(fn, new, memoryAssignment, blk, out[blk], Gave(Instr, stack), idx + 1,
               Kept(fn, new, blk, 2 * idx + 1) \ {Instr.def})
  BY <1>8, <1>9, PartKeeps
<1>11. ASSUME NEW b \in Block(fn), b < blk PROVE BlockDone(fn, new, b, out[b])
  <2>1. BlockDone(fn, regAssignments, b, out[b])
    BY <1>11 DEF Emitted, EmittedBefore
  <2>2. NewAfter(fn, regAssignments, new, b, 2 * Len(fn.code[b]) + 1)
    BY <1>4, <1>11
  <2> QED BY <1>3, <2>1, <2>2, DoneGrow
<1> QED BY <1>6, <1>7, <1>10, <1>11

LEMMA DefLocalEmitted == ASSUME ExecInv, MemInv, Emitted, DefLocal PROVE Emitted'
<1>1. /\ Walk /\ IsFunction(fn) /\ blk \in Block(fn) /\ idx \in 1 .. Len(fn.code[blk])
      /\ phase = "def" /\ Handled(fn, regAssignments, <<blk, 2 * idx>>)
  BY WalkFunction DEF ExecInv, DefLocal, Running, Walk, HandledSoFar
<1>2. PICK new : new = Assign(regAssignments, Instr.def, "L_STACK", 0)
  OBVIOUS
<1>3. /\ memoryAssignment' = memoryAssignment /\ regAssignments' = new
      /\ stack' = Append(stack, Instr.def) /\ out' = out /\ fn' = fn /\ blk' = blk /\ idx' = idx
      /\ phase' = "clean" /\ hazards' = hazards /\ defOps' = << >> /\ Instr.def # NoReg
      /\ DefIsLocal(fn, Instr.def, Here)
  BY <1>1, <1>2 DEF DefLocal, edgeVars, MemInv, Push
<1>4. NotYet'
  BY <1>1, <1>3, InsideBlock
<1>5. ASSUME hazards = {} PROVE EmittedHere' /\ EmittedBefore'
  <2>1. /\ LiveArrived(fn, new, blk)
        /\ PartRun(fn, new, memoryAssignment, blk, out[blk], Append(stack, Instr.def), idx + 1,
                   Kept(fn, new, blk, 2 * idx + 1) \ {Instr.def})
        /\ \A b \in Block(fn) : b < blk => BlockDone(fn, new, b, out[b])
    BY <1>1, <1>2, <1>3, <1>5, DefGrows
  <2>2. Instr.def \notin DOMAIN regAssignments
    <3>1. DefSites(fn, Instr.def) = {Here}
      BY <1>3 DEF DefIsLocal
    <3> QED BY <1>1, <1>3, <3>1, NewRegister DEF Instr
  <2>3. new[Instr.def].region = "L_STACK"
    BY <1>2, <2>2 DEF Assign
  <2>4. \A r \in Kept(fn, new, blk, 2 * idx + 1) : new[r].region = "NONSTACK"
    BY DEF Kept, Needed, DefinedIn
  <2>5. Kept(fn, new, blk, 2 * idx + 1) \ {Instr.def} = Kept(fn, new, blk, 2 * idx + 1)
    BY <2>3, <2>4
  <2>6. PartRun(fn, new, memoryAssignment, blk, out[blk], Append(stack, Instr.def), idx + 1,
                Kept(fn, new, blk, 2 * idx + 1))
    BY <2>1, <2>5
  <2>7. DefRun'
    BY <1>3, <2>6 DEF DefRun, RunHere, KeptHere
  <2> QED BY <1>3, <2>1, <2>7 DEF EmittedHere, EmittedBefore
<1> QED BY <1>3, <1>4, <1>5 DEF Emitted

LEMMA DefMemoryEmitted == ASSUME ExecInv, MemInv, Emitted, DefMemory PROVE Emitted'
<1>1. /\ Walk /\ IsFunction(fn) /\ blk \in Block(fn) /\ idx \in 1 .. Len(fn.code[blk])
      /\ phase = "def" /\ Handled(fn, regAssignments, <<blk, 2 * idx>>)
  BY WalkFunction DEF ExecInv, DefMemory, Running, Walk, HandledSoFar
<1>2. PICK slot, new, mem, frame :
        /\ slot = AllocatedSlot(memoryAssignment)
        /\ new = Assign(regAssignments, Instr.def, "NONSTACK", slot)
        /\ mem = AllocatedMem(memoryAssignment, Instr.def)
        /\ frame = AllocatedFrame(memoryAssignment, memoryFrameSize)
  OBVIOUS
<1>3. /\ memoryAssignment' = mem /\ regAssignments' = new
      /\ stack' = stack /\ out' = out /\ fn' = fn /\ blk' = blk /\ idx' = idx
      /\ phase' = "clean" /\ defOps' = <<Op("PUTLOCAL", slot)>> /\ Instr.def # NoReg
      /\ hazards' = IF new[Instr.def].slot # slot THEN hazards \cup {"redefined"} ELSE hazards
  BY <1>2 DEF DefMemory, edgeVars
<1>4. NotYet'
  BY <1>1, <1>3, InsideBlock
<1>5. ASSUME hazards' = {} PROVE EmittedHere' /\ EmittedBefore'
  <2>1. hazards = {} /\ new[Instr.def].slot = slot
    BY <1>3, <1>5
  <2>2. /\ LiveArrived(fn, new, blk)
        /\ PartRun(fn, new, memoryAssignment, blk, out[blk], Append(stack, Instr.def), idx + 1,
                   Kept(fn, new, blk, 2 * idx + 1) \ {Instr.def})
        /\ \A b \in Block(fn) : b < blk => BlockDone(fn, new, b, out[b])
    BY <1>1, <1>2, <1>3, <2>1, DefGrows
  <2>3. Instr.def \in Nat
    BY <1>1, InstrType
  <2>4. memoryAssignment \in Seq(Nat) /\ memoryFrameSize \in Nat /\ NoReg \in Nat
    BY DEF MemInv, SlotTypes, NoReg
  <2>5. GivesSlot(memoryAssignment, Instr.def, memoryFrameSize, mem, slot, frame, Nat)
    BY <1>2, <2>3, <2>4, AllocateProperties
  <2>6. KeepsSlots(memoryAssignment, mem)
    BY <2>5 DEF GivesSlot
  <2>7. PartRun(fn, new, mem, blk, out[blk], Append(stack, Instr.def), idx + 1,
                Kept(fn, new, blk, 2 * idx + 1) \ {Instr.def})
    BY <2>2, <2>6, PartMemory
  <2>8. Instr.def \in DOMAIN new
    BY <1>2 DEF Assign
  <2>9. Owned(mem, new, {Instr.def})
    BY <1>3, <2>1, <2>5, <2>8 DEF Owned, GivesSlot
  <2>10. Instr' = Instr
    BY <1>3 DEF Instr
  <2>11. DefRun'
    BY <1>3, <2>1, <2>7, <2>9, <2>10 DEF DefRun, RunHere, KeptHere, Stored
  <2> QED BY <1>3, <2>2, <2>11 DEF EmittedHere, EmittedBefore
<1> QED BY <1>4, <1>5 DEF Emitted

LEMMA DefUnusedEmitted == ASSUME ExecInv, Emitted, DefUnused PROVE Emitted'
<1>1. /\ out' = out /\ fn' = fn /\ blk' = blk /\ phase' = "clean" /\ hazards' # {}
  BY DEF DefUnused, edgeVars
<1>2. NotYet'
  BY <1>1, InsideBlock DEF ExecInv
<1> QED BY <1>1, <1>2 DEF Emitted

LEMMA TracksNoCode ==
  ASSUME NEW s, NEW t, NEW M, NEW S, Tracks(<< >>, s, t, M, S) PROVE s = t
<1>1. PICK n \in Nat : IsCode(<< >>, n) /\ \E h : SymTrace(h, << >>, n, s, t, M, S)
  BY DEF Tracks
<1>2. n = 0
  BY <1>1 DEF IsCode
<1>3. PICK h : SymTrace(h, << >>, n, s, t, M, S)
  BY <1>1
<1> QED BY <1>2, <1>3 DEF SymTrace

LEMMA CleanTracks ==
  ASSUME AtInstruction, NEW st \in Seq(Nat), NEW g,
         g = IF Len(Instr.uses) > 2 THEN CleanUp(Gen(st), UseTypes) ELSE Gen(st), NEW M
  PROVE  Tracks(g.code, st, g.stack, M, Nat) /\ g.code \in Seq(OpSet)
<1>1. PICK e : e = Gen(st)
  OBVIOUS
<1>2. GenTracks(e, st, M, Nat)
  BY <1>1, GenTracksStart
<1>3. PICK us, n : us = UseTypes /\ n = Len(us) /\ n \in Nat
  <2>1. Len(UseTypes) \in Nat
    BY UseTypeAt, InstrType DEF AtInstruction
  <2> QED BY <2>1
<1>4. Nat \in SUBSET Nat
  OBVIOUS
<1>5. GenTracks(CleanUp(e, us), st, M, Nat)
  BY <1>2, <1>3, <1>4, CleanUpTracks
<1>6. GenTracks(g, st, M, Nat)
  BY <1>1, <1>2, <1>3, <1>5
<1>7. Tracks(g.code, st, g.stack, M, Nat)
  BY <1>6 DEF GenTracks
<1> QED BY <1>7 DEF Tracks, IsCode

LEMMA NothingAdded ==
  ASSUME NEW S, NEW s \in Seq(S) PROVE s \o << >> = s /\ << >> \o s = s
  OBVIOUS

(* cleanUpDeadRegisters, with the store of handleDef.                      *)
LEMMA CleanedHere ==
  ASSUME ExecInv, Emitted, CleanUpDeadRegisters, hazards' = {}, NEW g,
         g = IF Len(Instr.uses) > 2 THEN CleanUp(Gen(stack), UseTypes) ELSE Gen(stack),
         NEW more, more = IF AtBlockEnd THEN Reversed(g.code) ELSE g.code \o defOps
  PROVE  PartRun(fn, regAssignments, memoryAssignment, blk, out[blk] \o more, g.stack, idx + 1,
                 Kept(fn, regAssignments, blk, 2 * idx + 1))
<1>1. hazards = {} /\ CleanUpHazards(g.code) = {} /\ phase = "clean"
  BY DEF CleanUpDeadRegisters, Running
<1>2. AtInstruction
  BY <1>1, Operands
<1>3. stack \in Seq(Nat)
  BY <1>1 DEF ExecInv, Undisturbed, HoldsExactly
<1>4. \A M : Tracks(g.code, stack, g.stack, M, Nat) /\ g.code \in Seq(OpSet)
  BY <1>2, <1>3, CleanTracks
<1>5. DefRun
  BY <1>1 DEF Emitted, EmittedHere
<1>6. /\ ~(g.code # << >> /\ defOps # << >>)
      /\ ~(AtBlockEnd /\ Reversed(g.code) # g.code)
  <2>1. "beforeDefOps" \notin CleanUpHazards(g.code) /\ "reversed" \notin CleanUpHazards(g.code)
    BY <1>1
  <2> QED BY <2>1 DEF CleanUpHazards
<1>7. CASE defOps = << >> /\ RunHere(stack, idx + 1, KeptHere(2 * idx + 1))
  <2>1. more = g.code
    <3>1. PICK c : c = g.code
      OBVIOUS
    <3>2. c \o << >> = c
      BY <1>4, <3>1, NothingAdded
    <3> QED BY <1>6, <1>7, <3>1, <3>2
  <2>2. PartRun(fn, regAssignments, memoryAssignment, blk, out[blk], stack, idx + 1,
                Kept(fn, regAssignments, blk, 2 * idx + 1))
    BY <1>7 DEF RunHere, KeptHere
  <2>3. PartRun(fn, regAssignments, memoryAssignment, blk, out[blk] \o g.code, g.stack, idx + 1,
                Kept(fn, regAssignments, blk, 2 * idx + 1))
    BY <1>4, <2>2, MovePart
  <2> QED BY <2>1, <2>3
<1>8. CASE /\ Instr.def # NoReg /\ Stored(Instr.def)
           /\ Owned(memoryAssignment, regAssignments, {Instr.def})
           /\ RunHere(Append(stack, Instr.def), idx + 1, KeptHere(2 * idx + 1) \ {Instr.def})
  <2>1. PICK slot : slot = regAssignments[Instr.def].slot
    OBVIOUS
  <2>2. defOps = <<Op("PUTLOCAL", slot)>>
    BY <1>8, <2>1 DEF Stored
  <2>3. defOps # << >>
    BY <2>2
  <2>4. g.code = << >>
    BY <1>6, <2>3
  <2>5. stack = g.stack
    <3>1. PICK M : M = {}
      OBVIOUS
    <3>2. Tracks(<< >>, stack, g.stack, M, Nat)
      BY <1>4, <2>4
    <3> QED BY <3>2, TracksNoCode
  <2>6. more = defOps
    <3>1. ~AtBlockEnd
      BY <2>3 DEF AtBlockEnd
    <3>2. slot \in Nat
      BY <1>8, <2>1 DEF Owned
    <3>3. PICK o \in OpSet : o = Op("PUTLOCAL", slot)
      BY <3>2, OpType DEF Opcodes
    <3>4. << >> \o <<o>> = <<o>>
      BY NothingAdded
    <3> QED BY <2>2, <2>4, <3>1, <3>3, <3>4
  <2>7. PICK r, K : r = Instr.def /\ K = KeptHere(2 * idx + 1) \ {Instr.def}
    OBVIOUS
  <2>8. PartRun(fn, regAssignments, memoryAssignment, blk, out[blk], Append(stack, r), idx + 1, K)
    BY <1>8, <2>7 DEF RunHere
  <2>9. PartRun(fn, regAssignments, memoryAssignment, blk, out[blk] \o <<Op("PUTLOCAL", slot)>>,
                stack, idx + 1, K \cup {r})
    BY <1>3, <1>8, <2>1, <2>7, <2>8, StorePart
  <2>10. Kept(fn, regAssignments, blk, 2 * idx + 1) \subseteq K \cup {r}
    BY <2>7 DEF KeptHere
  <2>11. PartRun(fn, regAssignments, memoryAssignment, blk, out[blk] \o <<Op("PUTLOCAL", slot)>>,
                 stack, idx + 1, Kept(fn, regAssignments, blk, 2 * idx + 1))
    BY <2>9, <2>10, PartKeeps
  <2> QED BY <2>2, <2>5, <2>6, <2>11
<1> QED BY <1>5, <1>7, <1>8 DEF DefRun

LEMMA CleanUpEmitted == ASSUME ExecInv, MemInv, Emitted, CleanUpDeadRegisters PROVE Emitted'
<1>1. /\ Walk /\ IsFunction(fn) /\ blk \in Block(fn) /\ idx \in 1 .. Len(fn.code[blk])
      /\ phase = "clean"
  BY WalkFunction DEF ExecInv, CleanUpDeadRegisters, Running, Walk
<1>2. PICK g : g = IF Len(Instr.uses) > 2 THEN CleanUp(Gen(stack), UseTypes) ELSE Gen(stack)
  OBVIOUS
<1>3. PICK more : more = IF AtBlockEnd THEN Reversed(g.code) ELSE g.code \o defOps
  OBVIOUS
<1>4. PICK code : code = out[blk] \o more
  OBVIOUS
<1>5. /\ memoryAssignment' = memoryAssignment /\ regAssignments' = regAssignments
      /\ stack' = g.stack /\ out' = [out EXCEPT ![blk] = code] /\ fn' = fn /\ blk' = blk
      /\ defOps' = << >> /\ (hazards' = {} => hazards = {})
      /\ IF idx < Len(fn.code[blk]) THEN idx' = idx + 1 /\ phase' = "uses"
         ELSE idx' = idx /\ phase' = "end"
  BY <1>2, <1>3, <1>4 DEF CleanUpDeadRegisters, edgeVars
<1>6. out'[blk] = code /\ \A b \in Block(fn) : b # blk => out'[b] = out[b]
  BY <1>1, <1>5 DEF MemInv
<1>7. NotYet' /\ (hazards = {} => EmittedBefore')
  <2>1. phase' \notin {"begin", "done"}
    BY <1>5
  <2> QED BY <1>1, <1>5, <1>6, <2>1, InsideBlock
<1>8. ASSUME hazards' = {} PROVE EmittedHere'
  <2>1. PartRun(fn, regAssignments, memoryAssignment, blk, code, g.stack, idx + 1,
                Kept(fn, regAssignments, blk, 2 * idx + 1))
    BY <1>2, <1>3, <1>4, <1>8, CleanedHere
  <2>2. LiveArrived(fn, regAssignments, blk)
    BY <1>1, <1>5, <1>8 DEF Emitted, EmittedHere
  <2>3. CASE idx < Len(fn.code[blk])
    <3>1. idx' = idx + 1 /\ phase' = "uses"
      BY <1>5, <2>3
    <3>2. Kept(fn, regAssignments, blk, 2 * (idx + 1)) \subseteq
            Kept(fn, regAssignments, blk, 2 * idx + 1)
      BY <1>1, KeptAfter
    <3>3. PartRun(fn, regAssignments, memoryAssignment, blk, code, g.stack, idx + 1,
                  Kept(fn, regAssignments, blk, 2 * (idx + 1)))
      BY <2>1, <3>2, PartKeeps
    <3> QED BY <1>5, <1>6, <2>2, <3>1, <3>3 DEF EmittedHere, RunHere, KeptHere
  <2>4. CASE ~(idx < Len(fn.code[blk]))
    <3>1. idx' = idx /\ phase' = "end"
      BY <1>5, <2>4
    <3>2. ExecInv'
      BY CleanUpInv
    <3>3. g.stack = << >>
      BY <1>5, <1>8, <3>1, <3>2 DEF ExecInv, Undisturbed
    <3> QED BY <1>5, <1>6, <2>1, <2>2, <3>1, <3>3 DEF EmittedHere, RunHere, KeptHere
  <2> QED BY <2>3, <2>4
<1> QED BY <1>5, <1>7, <1>8 DEF Emitted

LEMMA EndOfBlockEmitted == ASSUME ExecInv, MemInv, Emitted, EndOfBlock PROVE Emitted'
<1>1. /\ Walk /\ IsFunction(fn) /\ blk \in Block(fn) /\ idx = Len(fn.code[blk])
      /\ idx \in 1 .. Len(fn.code[blk]) /\ phase = "end"
      /\ UNCHANGED <<fn, regAssignments, out, hazards, stack, memoryAssignment, defOps>>
  BY WalkFunction DEF ExecInv, EndOfBlock, Running, Walk, edgeVars
<1>2. CASE stack = << >>
  <2>1. NextBlock
    BY <1>2 DEF EndOfBlock
  <2>2. ASSUME hazards = {} PROVE BlockDone(fn, regAssignments, blk, out[blk])
    <3>1. /\ LiveArrived(fn, regAssignments, blk)
          /\ PartRun(fn, regAssignments, memoryAssignment, blk, out[blk], << >>, idx + 1,
                     Kept(fn, regAssignments, blk, 2 * idx + 1))
      BY <1>1, <2>2 DEF Emitted, EmittedHere, RunHere, KeptHere
    <3>2. fn.code[blk] # << >>
      BY <1>1
    <3> QED BY <1>1, <3>1, <3>2 DEF BlockDone, PartRun
  <2> QED BY <1>1, <2>1, <2>2, NextBlockEmitted
<1>3. CASE stack # << >>
  <2>1. UNCHANGED codeVars
    BY <1>1, <1>3 DEF EndOfBlock, codeVars
  <2> QED BY <2>1, EmittedSame
<1> QED BY <1>2, <1>3

LEMMA NextFunctionEmitted == ASSUME NextFunction PROVE Emitted'
<1>1. out' = FreshCode(fn') /\ phase' = "begin" /\ blk' = 1
  BY DEF NextFunction
<1>2. \A b \in Block(fn') : out'[b] = << >> /\ ~(b < 1)
  BY <1>1 DEF FreshCode, Block
<1> QED BY <1>1, <1>2 DEF Emitted, NotYet, EmittedHere, EmittedBefore

LEMMA EmittedCompile == ASSUME ExecInv, MemInv, Emitted, Next PROVE Emitted'
<1>1. CASE ComputeEdgeSets
  <2>1. UNCHANGED <<fn, allocVars>>
    BY <1>1 DEF ComputeEdgeSets, EdgeNext, MergePred, PredsMerged, MergeSucc, SuccsMerged
  <2> QED BY <2>1, EmittedSame DEF allocVars, codeVars
<1>2. CASE BadUse
  BY <1>2, EmittedSame DEF BadUse, edgeVars, codeVars
<1>3. CASE SkipEmptyBlock BY <1>3, SkipEmptyBlockEmitted
<1>4. CASE BeginEntryBlock BY <1>4, BeginEntryBlockEmitted
<1>5. CASE BeginBlock BY <1>5, BeginBlockEmitted
<1>6. CASE HandleUses BY <1>6, HandleUsesEmitted
<1>7. CASE DefNothing BY <1>7, DefNothingEmitted
<1>8. CASE DefUnused BY <1>8, DefUnusedEmitted
<1>9. CASE DefLocal BY <1>9, DefLocalEmitted
<1>10. CASE DefMemory BY <1>10, DefMemoryEmitted
<1>11. CASE CleanUpDeadRegisters BY <1>11, CleanUpEmitted
<1>12. CASE EndOfBlock BY <1>12, EndOfBlockEmitted
<1>13. CASE NextFunction BY <1>13, NextFunctionEmitted
<1> QED BY <1>1, <1>2, <1>3, <1>4, <1>5, <1>6, <1>7, <1>8, <1>9, <1>10, <1>11, <1>12,
           <1>13 DEF Next

LEMMA EmittedNext == ExecInv /\ MemInv /\ Emitted /\ [ExecNext]_allVars => Emitted'
<1> SUFFICES ASSUME ExecInv, MemInv, Emitted, [ExecNext]_allVars PROVE Emitted'
  OBVIOUS
<1>1. CASE Compile
  BY <1>1, EmittedCompile DEF Compile
<1>2. CASE UNCHANGED vars
  BY <1>2, EmittedSame DEF vars, edgeVars, allocVars, codeVars
<1>3. CASE Start
  BY <1>2, <1>3 DEF Start
<1>4. CASE ExecStep
  BY <1>2, <1>4 DEF ExecStep
<1>5. CASE Branch
  BY <1>2, <1>5 DEF Branch
<1>6. CASE UNCHANGED allVars
  BY <1>2, <1>6 DEF allVars
<1> QED BY <1>1, <1>3, <1>4, <1>5, <1>6 DEF ExecNext

(* Without a hazard the code of every finished block, run on a machine     *)
(* whose stack holds registers, gives each instruction its operands,       *)
(* leaves the stack empty and every register needed later in its slot.     *)
THEOREM CodeInvariant == ExecSpec => []Emitted
<1>1. ExecInit => Emitted
  BY EmittedInit
<1>2. ExecInv /\ (MemInv /\ FrameInv) /\ Emitted /\ [ExecNext]_allVars => Emitted'
  BY EmittedNext
<1> QED BY <1>1, <1>2, ExecInvariant, MemoryInvariant, PTL DEF ExecSpec
-----------------------------------------------------------------------------
(* The sets of LiveInBlocks grow until no block can be added, which takes  *)
(* at most as many steps as there are blocks.                              *)
LiveClosed(f, reg, live) == LiveStep(f, reg, live) = live

LEMMA LiveGrows ==
  ASSUME NEW f, NEW reg, NEW n \in Nat, n = f.n, NEW live \in SUBSET Block(f)
  PROVE  /\ IsFiniteSet(live) /\ Cardinality(live) \in 0 .. n
         /\ Cardinality(live) = n => live = Block(f)
         /\ LiveStep(f, reg, live) \in SUBSET Block(f)
         /\ LiveClosed(f, reg, live) \/ Cardinality(LiveStep(f, reg, live)) >= Cardinality(live) + 1
<1> DEFINE B == Block(f)
           next == LiveStep(f, reg, live)
<1>1. IsFiniteSet(B) /\ Cardinality(B) = n
  <2>1. IsFiniteSet(1 .. n) /\ Cardinality(1 .. n) = n
    BY FS_Interval
  <2> QED BY <2>1 DEF Block
<1>2. next \in SUBSET B /\ live \subseteq next
  BY DEF LiveStep
<1> HIDE DEF B, next
<1>3. IsFiniteSet(live) /\ Cardinality(live) <= Cardinality(B)
      /\ (Cardinality(live) = Cardinality(B) => live = B)
  BY <1>1, FS_Subset DEF B
<1>4. Cardinality(live) \in Nat
  BY <1>3, FS_CardinalityType
<1>5. IsFiniteSet(next)
  BY <1>1, <1>2, FS_Subset
<1>6. Cardinality(next) \in Nat
  BY <1>5, FS_CardinalityType
<1>7. Cardinality(live) <= Cardinality(next) /\ (Cardinality(live) = Cardinality(next) => live = next)
  BY <1>2, <1>5, FS_Subset
<1>8. live = next \/ Cardinality(next) >= Cardinality(live) + 1
  BY <1>4, <1>6, <1>7
<1> QED BY <1>1, <1>2, <1>3, <1>4, <1>8 DEF B, next, LiveClosed

LEMMA LiveSetClosed ==
  ASSUME NEW f, IsFunction(f), NEW reg
  PROVE  LiveClosed(f, reg, LiveInBlocks(f, reg)) /\ LiveInBlocks(f, reg) \in SUBSET Block(f)
<1>1. PICK n \in Nat : n = f.n
  BY DEF IsFunction, IsCFG
<1>2. PICK h : LiveTrace(h, f, reg, n) /\ LiveInBlocks(f, reg) = h[n]
  BY <1>1, LiveBlocksTrace
<1>3. h[0] = { c \in Block(f) : Exposed(f, reg, c) }
      /\ \A k \in 1 .. n : h[k] = LiveStep(f, reg, h[k - 1])
  <2>1. \A k \in 0 .. n : h[k] = IF k = 0 THEN { c \in Block(f) : Exposed(f, reg, c) }
                                 ELSE LiveStep(f, reg, h[k - 1])
    BY <1>2, Zenon DEF LiveTrace
  <2>2. 0 \in 0 .. n /\ \A k \in 1 .. n : k \in 0 .. n /\ k # 0
    OBVIOUS
  <2> QED BY <2>1, <2>2
<1> DEFINE Grown(k) == /\ h[k] \in SUBSET Block(f)
                       /\ LiveClosed(f, reg, h[k]) \/ Cardinality(h[k]) >= k
           T == { k \in 0 .. n : Grown(k) }
<1>4. T \in SUBSET Nat /\ 0 \in T
  <2>1. h[0] \in SUBSET Block(f)
    BY <1>3
  <2>2. Cardinality(h[0]) \in 0 .. n
    BY <1>1, <2>1, LiveGrows
  <2> QED BY <2>1, <2>2
<1>5. ASSUME NEW k \in 1 .. n, k - 1 \in T PROVE k \in T
  <2> DEFINE p == h[k - 1]
  <2>1. p \in SUBSET Block(f) /\ (LiveClosed(f, reg, p) \/ Cardinality(p) >= k - 1)
    BY <1>5
  <2>2. h[k] = LiveStep(f, reg, p)
    BY <1>3
  <2> HIDE DEF p
  <2>3. /\ Cardinality(p) \in 0 .. n /\ LiveStep(f, reg, p) \in SUBSET Block(f)
        /\ LiveClosed(f, reg, p) \/ Cardinality(LiveStep(f, reg, p)) >= Cardinality(p) + 1
    BY <1>1, <2>1, LiveGrows
  <2>4. Cardinality(LiveStep(f, reg, p)) \in 0 .. n
    BY <1>1, <2>3, LiveGrows
  <2>5. CASE LiveClosed(f, reg, p)
    <3>1. h[k] = p
      BY <2>2, <2>5 DEF LiveClosed
    <3> QED BY <2>1, <2>5, <3>1
  <2>6. CASE ~LiveClosed(f, reg, p)
    <3>1. Cardinality(h[k]) >= k
      BY <2>1, <2>2, <2>3, <2>4, <2>6
    <3> QED BY <2>2, <2>3, <3>1
  <2> QED BY <2>5, <2>6
<1> HIDE DEF T
<1>6. \A k \in 0 .. n : k \in T
  BY <1>4, <1>5, SetInduction
<1>7. Grown(n)
  BY <1>6 DEF T
<1>8. /\ Cardinality(h[n]) \in 0 .. n /\ (Cardinality(h[n]) = n => h[n] = Block(f))
      /\ LiveStep(f, reg, h[n]) \in SUBSET Block(f)
  BY <1>1, <1>7, LiveGrows
<1>9. LiveClosed(f, reg, h[n])
  <2>1. CASE Cardinality(h[n]) >= n
    <3>1. h[n] = Block(f)
      BY <1>8, <2>1
    <3> QED BY <1>8, <3>1 DEF LiveClosed, LiveStep
  <2> QED BY <1>7, <2>1
<1> QED BY <1>2, <1>7, <1>9

(* A register live at the start of a successor is live at the start of the *)
(* block too, unless the block defines it.                                 *)
LEMMA LiveBefore ==
  ASSUME NEW f, IsFunction(f), NEW reg, NEW b \in Block(f), NEW c \in Elems(f.succs[b]),
         c \in LiveInBlocks(f, reg), \A d \in DefSites(f, reg) : d[1] # b
  PROVE  b \in LiveInBlocks(f, reg)
<1>1. PICK live : live = LiveInBlocks(f, reg)
  OBVIOUS
<1>2. LiveStep(f, reg, live) = live
  BY <1>1, LiveSetClosed DEF LiveClosed
<1>3. b \in LiveStep(f, reg, live)
  BY <1>1 DEF LiveStep
<1> QED BY <1>1, <1>2, <1>3

(* A register defined in a block is live at its start only if a use there  *)
(* comes first.                                                            *)
LEMMA LiveExposed ==
  ASSUME NEW f, IsFunction(f), NEW reg, NEW d \in DefSites(f, reg), NEW b, b = d[1],
         b \in LiveInBlocks(f, reg)
  PROVE  Exposed(f, reg, b)
<1>1. PICK n \in Nat : n = f.n
  BY DEF IsFunction, IsCFG
<1>2. PICK h : LiveTrace(h, f, reg, n) /\ LiveInBlocks(f, reg) = h[n]
  BY <1>1, LiveBlocksTrace
<1>3. h[0] = { c \in Block(f) : Exposed(f, reg, c) }
      /\ \A k \in 1 .. n : h[k] = LiveStep(f, reg, h[k - 1])
  <2>1. \A k \in 0 .. n : h[k] = IF k = 0 THEN { c \in Block(f) : Exposed(f, reg, c) }
                                 ELSE LiveStep(f, reg, h[k - 1])
    BY <1>2, Zenon DEF LiveTrace
  <2>2. 0 \in 0 .. n /\ \A k \in 1 .. n : k \in 0 .. n /\ k # 0
    OBVIOUS
  <2> QED BY <2>1, <2>2
<1> DEFINE T == { k \in 0 .. n : b \in h[k] => Exposed(f, reg, b) }
<1>4. T \in SUBSET Nat /\ 0 \in T
  BY <1>3
<1>5. ASSUME NEW k \in 1 .. n, k - 1 \in T PROVE k \in T
  <2>1. k \in 0 .. n /\ (b \in h[k - 1] => Exposed(f, reg, b))
    BY <1>5
  <2>2. b \in h[k] => b \in h[k - 1]
    BY <1>3 DEF LiveStep
  <2> QED BY <2>1, <2>2
<1> HIDE DEF T
<1>6. \A k \in 0 .. n : k \in T
  BY <1>4, <1>5, SetInduction
<1>7. n \in T
  BY <1>6
<1> QED BY <1>2, <1>7 DEF T
-----------------------------------------------------------------------------
(* A machine stack p agrees with a stack s of registers, a memory m with   *)
(* the set V of registers, when they hold the values R gives to them.      *)
StackAgrees(s, p, R) ==
  /\ s \in Seq(Nat) /\ p \in Seq(Nat) /\ Len(p) = Len(s)
  /\ \A i \in 1 .. Len(s) : s[i] \in DOMAIN R => p[i] = R[s[i]]

MemAgrees(V, map, m, R) ==
  \A r \in V : r \in DOMAIN R =>
    LocalAddress(map[r].slot) \in DOMAIN m /\ m[LocalAddress(map[r].slot)] = R[r]

LEMMA SwapAgrees ==
  ASSUME NEW s, NEW p, NEW R, StackAgrees(s, p, R), NEW d \in 1 .. Len(s) - 1
  PROVE  StackAgrees(Swap(s, d), Swap(p, d), R)
<1>1. PICK n \in Nat : n = Len(s) /\ n = Len(p) /\ s \in Seq(Nat) /\ p \in Seq(Nat)
  BY DEF StackAgrees
<1>2. d \in 1 .. n - 1 /\ n - d \in 1 .. n /\ n \in 1 .. n
  BY <1>1
<1>3. IsStack(s, n) /\ IsStack(p, n)
  BY <1>1 DEF IsStack
<1>4. PICK t : t = Swap(s, d) /\ Swapped(s, t, n, n - d)
  BY <1>2, <1>3, SwapStack
<1>5. PICK q : q = Swap(p, d) /\ Swapped(p, q, n, n - d)
  BY <1>2, <1>3, SwapStack
<1>6. \A i \in 1 .. n : s[i] \in DOMAIN R => p[i] = R[s[i]]
  BY <1>1 DEF StackAgrees
<1>7. t \in Seq(Nat) /\ q \in Seq(Nat) /\ Len(t) = n /\ Len(q) = n
  BY <1>4, <1>5 DEF Swapped, IsStack
<1>8. ASSUME NEW i \in 1 .. n, t[i] \in DOMAIN R PROVE q[i] = R[t[i]]
  BY <1>2, <1>4, <1>5, <1>6, <1>8 DEF Swapped
<1>9. StackAgrees(t, q, R)
  BY <1>7, <1>8 DEF StackAgrees
<1> QED BY <1>4, <1>5, <1>9

LEMMA PushAgrees ==
  ASSUME NEW s, NEW p, NEW R, StackAgrees(s, p, R), NEW r \in Nat, NEW v \in Nat,
         r \in DOMAIN R => v = R[r]
  PROVE  StackAgrees(Append(s, r), Append(p, v), R)
<1>1. s \in Seq(Nat) /\ p \in Seq(Nat) /\ Len(p) = Len(s) /\ Len(s) \in Nat
  BY DEF StackAgrees
<1>2. /\ Append(s, r) \in Seq(Nat) /\ Len(Append(s, r)) = Len(s) + 1
      /\ \A i \in 1 .. Len(s) + 1 : Append(s, r)[i] = IF i = Len(s) + 1 THEN r ELSE s[i]
  BY <1>1
<1>3. /\ Append(p, v) \in Seq(Nat) /\ Len(Append(p, v)) = Len(s) + 1
      /\ \A i \in 1 .. Len(s) + 1 : Append(p, v)[i] = IF i = Len(s) + 1 THEN v ELSE p[i]
  BY <1>1
<1> QED BY <1>1, <1>2, <1>3 DEF StackAgrees

LEMMA DupAgrees ==
  ASSUME NEW s, NEW p, NEW R, StackAgrees(s, p, R), NEW d \in 1 .. Len(s)
  PROVE  StackAgrees(Dup(s, d - 1), Dup(p, d - 1), R)
<1>1. s \in Seq(Nat) /\ p \in Seq(Nat) /\ Len(p) = Len(s) /\ Len(s) \in Nat
  BY DEF StackAgrees
<1>2. PICK j : j \in 1 .. Len(s) /\ j = Len(s) - (d - 1)
  <2>1. Len(s) - (d - 1) \in 1 .. Len(s)
    BY <1>1
  <2> QED BY <2>1
<1>3. Dup(s, d - 1) = Append(s, s[j]) /\ Dup(p, d - 1) = Append(p, p[j])
  BY <1>1, <1>2, Zenon DEF Dup, Get
<1>4. PICK r \in Nat, v \in Nat : r = s[j] /\ v = p[j]
  BY SMTT(60), <1>1, <1>2
<1>5. r \in DOMAIN R => v = R[r]
  BY <1>1, <1>2, <1>4 DEF StackAgrees
<1>6. StackAgrees(Append(s, r), Append(p, v), R)
  BY <1>5, PushAgrees
<1> QED BY <1>3, <1>4, <1>6

LEMMA BelowAgrees ==
  ASSUME NEW s, NEW p, NEW R, StackAgrees(s, p, R), NEW k \in 0 .. Len(s)
  PROVE  StackAgrees(Below(s, k), Below(p, k), R)
<1>1. s \in Seq(Nat) /\ p \in Seq(Nat) /\ Len(p) = Len(s) /\ Len(s) \in Nat
  BY DEF StackAgrees
<1>2. Below(s, k) \in Seq(Nat) /\ Len(Below(s, k)) = Len(s) - k
      /\ \A i \in 1 .. Len(s) - k : Below(s, k)[i] = s[i]
  BY <1>1, BelowIn
<1>3. Below(p, k) \in Seq(Nat) /\ Len(Below(p, k)) = Len(s) - k
      /\ \A i \in 1 .. Len(s) - k : Below(p, k)[i] = p[i]
  BY <1>1, BelowIn
<1>4. \A i \in 1 .. Len(s) - k : i \in 1 .. Len(s)
  BY <1>1
<1> QED BY <1>2, <1>3, <1>4 DEF StackAgrees

LEMMA PopAgrees ==
  ASSUME NEW s, NEW p, NEW R, StackAgrees(s, p, R), Len(s) >= 1
  PROVE  StackAgrees(Pop(s), Pop(p), R)
<1>1. 1 \in 0 .. Len(s)
  BY DEF StackAgrees
<1>2. Pop(s) = Below(s, 1) /\ Pop(p) = Below(p, 1)
  BY DEF Pop, Below
<1> QED BY <1>1, <1>2, BelowAgrees

(* An instruction gives its register a new value, which no other element   *)
(* of the stack and no slot stands for.                                    *)
LEMMA NewValueAgrees ==
  ASSUME NEW s, NEW p, NEW R, NEW new, StackAgrees(s, p, R), NEW d,
         \A r \in DOMAIN new : r # d => r \in DOMAIN R /\ new[r] = R[r],
         \A i \in 1 .. Len(s) : s[i] # d
  PROVE  StackAgrees(s, p, new)
BY DEF StackAgrees

LEMMA MemNewValue ==
  ASSUME NEW V, NEW map, NEW m, NEW R, NEW new, MemAgrees(V, map, m, R), NEW d,
         \A r \in DOMAIN new : r # d => r \in DOMAIN R /\ new[r] = R[r]
  PROVE  MemAgrees(V \ {d}, map, m, new)
BY DEF MemAgrees

Written(m, addr, v, new) ==
  new = [a \in DOMAIN m \cup {addr} |-> IF a = addr THEN v ELSE m[a]]

(* A store reaches the slot of one register and no other one in V.         *)
LEMMA StoreAgrees ==
  ASSUME NEW V, NEW map, NEW m, NEW R, MemAgrees(V, map, m, R), NEW r, NEW v,
         \A q \in V \cup {r} : map[q].slot \in Nat,
         \A q \in V : q # r => map[q].slot # map[r].slot,
         r \in DOMAIN R => v = R[r], NEW addr, addr = LocalAddress(map[r].slot),
         NEW new, Written(m, addr, v, new)
  PROVE  MemAgrees(V \cup {r}, map, new, R)
<1> SUFFICES ASSUME NEW q \in V \cup {r}, q \in DOMAIN R
             PROVE  /\ LocalAddress(map[q].slot) \in DOMAIN new
                    /\ new[LocalAddress(map[q].slot)] = R[q]
  BY DEF MemAgrees
<1>1. CASE q = r
  BY <1>1 DEF Written
<1>2. CASE q # r
  <2>1. LocalAddress(map[q].slot) \in DOMAIN m /\ m[LocalAddress(map[q].slot)] = R[q]
    BY <1>2 DEF MemAgrees
  <2>2. map[q].slot \in Nat /\ map[r].slot \in Nat /\ map[q].slot # map[r].slot
    BY <1>2
  <2>3. LocalAddress(map[q].slot) # addr
    BY <2>2 DEF LocalAddress
  <2> QED BY <2>1, <2>3 DEF Written
<1> QED BY <1>1, <1>2
-----------------------------------------------------------------------------
(* The code of a finished block, run on the machine of registers: it       *)
(* leaves an empty stack and every register it defined or was given in its *)
(* slot.                                                                   *)
BlockTrace(h, n, V, f, map, b, code) ==
  /\ n \in Nat /\ IsCode(code, n)
  /\ RunTrace(h, f.code[b], map, code, n, EntryState(f, map, b),
              << << >>, V, Len(f.code[b]) + 1>>)
  /\ Kept(f, map, b, 2 * Len(f.code[b]) + 1) \subseteq V

LEMMA BlockRuns ==
  ASSUME NEW f, IsFunction(f), NEW map, NEW b \in Block(f), NEW code, BlockDone(f, map, b, code)
  PROVE  \E h, n, V : BlockTrace(h, n, V, f, map, b, code)
<1>1. \E V : /\ Runs(f.code[b], map, code, EntryState(f, map, b),
                     << << >>, V, Len(f.code[b]) + 1>>)
             /\ Kept(f, map, b, 2 * Len(f.code[b]) + 1) \subseteq V
  <2>1. CASE f.code[b] # << >>
    BY <2>1 DEF BlockDone
  <2>2. CASE f.code[b] = << >>
    <3>1. code = << >> /\ Len(f.code[b]) = 0
      BY <2>2 DEF BlockDone
    <3>2. b = 1 => f.args = << >>
      BY <2>2 DEF IsFunction, IsMachineFunction
    <3>3. EntryState(f, map, b) = << << >>, Needed(f, map, b), 1>>
      BY <3>2 DEF EntryState
    <3>4. Needed(f, map, b) \subseteq DOMAIN map
      BY DEF Needed
    <3>5. PICK t : IsTriple(t, << >>, Needed(f, map, b), 1)
      BY Triple
    <3>6. IsState(map, t) /\ t = EntryState(f, map, b)
      BY <3>3, <3>4, <3>5 DEF IsTriple, IsState
    <3>7. Runs(f.code[b], map, << >>, t, t)
      BY <3>6, RunsNothing
    <3>8. Kept(f, map, b, 1) \subseteq Needed(f, map, b)
      <4> SUFFICES ASSUME NEW r, NEW d \in DefSites(f, r), d[1] = b, d[2] < 1 PROVE FALSE
        BY DEF Kept, DefinedIn
      <4>1. PICK c, j : DefShape(f, d, c, j)
        BY DefShapes
      <4>2. c = b /\ j \in 0 .. 0
        BY <3>1, <4>1 DEF DefShape
      <4>3. j = 0
        BY <4>2
      <4> QED BY <2>2, <3>2, <4>1, <4>2, <4>3 DEF DefShape
    <3>9. t = << << >>, Needed(f, map, b), Len(f.code[b]) + 1>>
      BY <3>1, <3>5 DEF IsTriple
    <3>10. Runs(f.code[b], map, code, EntryState(f, map, b),
                << << >>, Needed(f, map, b), Len(f.code[b]) + 1>>)
      BY <3>1, <3>6, <3>7, <3>9, Zenon
    <3>11. Kept(f, map, b, 2 * Len(f.code[b]) + 1) \subseteq Needed(f, map, b)
      BY <3>1, <3>8
    <3> QED BY <3>10, <3>11, Zenon
  <2> QED BY <2>1, <2>2
<1> QED BY <1>1 DEF Runs, BlockTrace

Agrees(s) ==
  /\ s[3] = xidx
  /\ StackAgrees(s[1], pstack, regs)
  /\ MemAgrees(s[2], regAssignments, pmem, regs)

Values ==
  /\ clock \in Nat /\ pstack \in Seq(0 .. clock)
  /\ \A a \in DOMAIN pmem : pmem[a] \in 0 .. clock

LEMMA AgreesIn == 
  ASSUME NEW s, Agrees(s)
  PROVE  /\ s[1] \in Seq(Nat) /\ pstack \in Seq(Nat) /\ Len(pstack) = Len(s[1])
         /\ Len(s[1]) \in Nat
BY DEF Agrees, StackAgrees

(* SWAP, DUP, POP and a load.                                              *)
LEMMA MoveRuns ==
  ASSUME NEW s, NEW t, Agrees(s), Values, NEW o, o = Current, IsState(regAssignments, s),
         MoveStep(regAssignments, o, s, t), ~(o.op = "SWAP" /\ o.n > MaxReach),
         SlotTypes(regAssignments, memoryAssignment, memoryFrameSize),
         IsState(regAssignments, t), ExecStep
  PROVE  Agrees(t)' /\ Values' /\ UNCHANGED <<xidx, regs, operands, clock>>
<1>1. /\ s[1] \in Seq(Nat) /\ pstack \in Seq(0 .. clock) /\ Len(pstack) = Len(s[1])
      /\ Len(s[1]) \in Nat
  BY AgreesIn DEF Values
<1>2. t[2] = s[2] /\ t[3] = s[3] /\ SymStep(o, s[1], t[1], Loadable(regAssignments, s[2]))
  BY DEF MoveStep
<1>3. UNCHANGED <<regAssignments, out>>
  BY DEF ExecStep, vars, allocVars
<1>4. SUFFICES /\ StackAgrees(t[1], pstack', regs) /\ pstack' \in Seq(0 .. clock)
               /\ UNCHANGED <<xidx, pmem, regs, operands, clock>>
  BY <1>2, <1>3 DEF Agrees, Values
<1>5. StackAgrees(s[1], pstack, regs) /\ MemAgrees(s[2], regAssignments, pmem, regs)
  BY DEF Agrees
<1>6. CASE o.op = "SWAP"
  <2>1. o.n \in 1 .. Len(s[1]) - 1 /\ t[1] = Swap(s[1], o.n)
    BY <1>2, <1>6 DEF SymStep
  <2>2. pstack' = Swap(pstack, o.n) /\ UNCHANGED <<xidx, pmem, regs, operands, clock>>
    BY <1>6 DEF ExecStep, ExecSwap, ExecDup, ExecPop, ExecGetLocal, ExecPutLocal, ExecInstr,
                ConvertSWAP
  <2>3. StackAgrees(t[1], pstack', regs)
    BY <1>5, <2>1, <2>2, SwapAgrees
  <2>4. Swap(pstack, o.n) \in Seq(0 .. clock)
    BY <1>1, <2>1, SwapIn
  <2> QED BY <2>2, <2>3, <2>4
<1>7. CASE o.op = "DUP"
  <2>1. o.n \in 1 .. Len(s[1]) /\ t[1] = Dup(s[1], o.n - 1)
    BY <1>2, <1>7 DEF SymStep
  <2>2. pstack' = Dup(pstack, o.n - 1) /\ UNCHANGED <<xidx, pmem, regs, operands, clock>>
    BY <1>7 DEF ExecStep, ExecSwap, ExecDup, ExecPop, ExecGetLocal, ExecPutLocal, ExecInstr
  <2>3. StackAgrees(t[1], pstack', regs)
    BY <1>5, <2>1, <2>2, DupAgrees
  <2>4. Dup(pstack, o.n - 1) \in Seq(0 .. clock)
    BY <1>1, <2>1, DupIn
  <2> QED BY <2>2, <2>3, <2>4
<1>8. CASE o.op = "POP"
  <2>1. Len(s[1]) >= 1 /\ t[1] = Pop(s[1])
    BY <1>2, <1>8 DEF SymStep
  <2>2. pstack' = Pop(pstack) /\ UNCHANGED <<xidx, pmem, regs, operands, clock>>
    BY <1>8 DEF ExecStep, ExecSwap, ExecDup, ExecPop, ExecGetLocal, ExecPutLocal, ExecInstr
  <2>3. StackAgrees(t[1], pstack', regs)
    BY <1>5, <2>1, <2>2, PopAgrees
  <2>4. Pop(pstack) \in Seq(0 .. clock)
    BY <1>1, <2>1, PopIn
  <2> QED BY <2>2, <2>3, <2>4
<1>9. CASE o.op = "GETLOCAL"
  <2>1. PICK r : <<o.n, r>> \in Loadable(regAssignments, s[2]) /\ t[1] = Append(s[1], r)
    BY <1>2, <1>9 DEF SymStep
  <2>2. r \in s[2] /\ o.n = regAssignments[r].slot
    BY <2>1 DEF Loadable
  <2>3. r \in Nat
    <3>1. PICK n \in Nat : n = Len(s[1])
      BY <1>1
    <3>2. t[1] \in Seq(Nat) /\ Len(t[1]) = n + 1 /\ t[1][n + 1] = r
      BY <1>1, <2>1, <3>1 DEF IsState
    <3>3. n + 1 \in 1 .. Len(t[1])
      BY <3>2
    <3> QED BY <3>2, <3>3, ElementOfSeq
  <2>4. PICK addr : addr = LocalAddress(o.n)
    OBVIOUS
  <2>5. PICK v : v = IF addr \in DOMAIN pmem THEN pmem[addr] ELSE 0
    OBVIOUS
  <2>6. pstack' = Append(pstack, v) /\ UNCHANGED <<xidx, pmem, regs, operands, clock>>
    BY <1>9, <2>4, <2>5 DEF ExecStep, ExecSwap, ExecDup, ExecPop, ExecGetLocal, ExecPutLocal,
                            ExecInstr, Push
  <2>7. v \in 0 .. clock
    BY <2>5 DEF Values
  <2>8. v \in Nat
    BY <2>7 DEF Values
  <2>9. r \in DOMAIN regs => v = regs[r]
    BY <1>5, <2>2, <2>4, <2>5 DEF MemAgrees
  <2>10. StackAgrees(t[1], pstack', regs)
    BY <1>5, <2>1, <2>3, <2>6, <2>8, <2>9, PushAgrees
  <2>11. Append(pstack, v) \in Seq(0 .. clock)
    BY <1>1, <2>7, AppendProperties
  <2> QED BY <2>6, <2>10, <2>11
<1> QED BY <1>2, <1>6, <1>7, <1>8, <1>9 DEF SymStep

(* A store.                                                                *)
LEMMA PutRuns ==
  ASSUME NEW s, NEW t, Agrees(s), Values, NEW o, o = Current, IsState(regAssignments, s),
         IsState(regAssignments, t), PutStep(regAssignments, o, s, t),
         SlotTypes(regAssignments, memoryAssignment, memoryFrameSize), ExecStep
  PROVE  Agrees(t)' /\ Values' /\ UNCHANGED <<xidx, regs, operands, clock>>
<1>1. /\ s[1] \in Seq(Nat) /\ t[1] \in Seq(Nat) /\ pstack \in Seq(0 .. clock)
      /\ Len(pstack) = Len(s[1]) /\ Len(s[1]) \in Nat
  BY AgreesIn DEF Values, IsState
<1>2. PICK r \in DOMAIN regAssignments :
        /\ regAssignments[r].slot = o.n /\ s[1] = Append(t[1], r) /\ t[2] = s[2] \cup {r}
        /\ \A q \in s[2] : q # r => regAssignments[q].slot # o.n
  BY DEF PutStep
<1>3. o.op = "PUTLOCAL" /\ t[3] = s[3]
  BY DEF PutStep
<1>4. PICK n \in Nat : n = Len(t[1]) /\ Len(s[1]) = n + 1 /\ s[1][n + 1] = r
  BY <1>1, <1>2
<1>5. Pop(s[1]) = t[1]
  <2>1. IsStack(s[1], n + 1) /\ n + 1 >= 1
    BY <1>1, <1>4 DEF IsStack
  <2>2. Popped(s[1], Pop(s[1]), n + 1)
    BY <2>1, PopStack
  <2>3. Pop(s[1]) \in Seq(Nat) /\ Len(Pop(s[1])) = n /\ \A i \in 1 .. n : Pop(s[1])[i] = s[1][i]
    BY <2>2 DEF Popped, IsStack
  <2>4. \A i \in 1 .. n : s[1][i] = t[1][i]
    BY <1>1, <1>2, <1>4
  <2>5. PICK u : u = Pop(s[1])
    OBVIOUS
  <2>6. u \in Seq(Nat) /\ Len(u) = Len(t[1]) /\ \A i \in 1 .. Len(u) : u[i] = t[1][i]
    BY <1>4, <2>3, <2>4, <2>5
  <2>7. u = t[1]
    BY <1>1, <2>6, SeqEqual
  <2> QED BY <2>5, <2>7
<1>6. UNCHANGED <<regAssignments, out>>
  BY DEF ExecStep, vars, allocVars
<1>7. PICK addr : addr = LocalAddress(regAssignments[r].slot)
  OBVIOUS
<1>8. PICK v : v = pstack[n + 1]
  OBVIOUS
<1>9. v \in 0 .. clock /\ (r \in DOMAIN regs => v = regs[r])
  <2>1. n + 1 \in 1 .. Len(s[1]) /\ n + 1 \in 1 .. Len(pstack)
    BY <1>1, <1>4
  <2>2. v \in 0 .. clock
    BY <1>1, <1>8, <2>1, ElementOfSeq
  <2>3. s[1][n + 1] \in DOMAIN regs => pstack[n + 1] = regs[s[1][n + 1]]
    BY <2>1 DEF Agrees, StackAgrees
  <2> QED BY <1>4, <1>8, <2>2, <2>3
<1>10. Get(pstack, 0) = v
  <2>1. Len(pstack) - 0 = n + 1
    BY <1>1, <1>4
  <2> QED BY <1>8, <2>1 DEF Get
<1>11. PICK new : new = [a \in DOMAIN pmem \cup {addr} |-> IF a = addr THEN v ELSE pmem[a]]
  OBVIOUS
<1>12. pstack' = Pop(pstack) /\ pmem' = new /\ UNCHANGED <<xidx, regs, operands, clock>>
  BY <1>2, <1>3, <1>7, <1>10, <1>11
     DEF ExecStep, ExecSwap, ExecDup, ExecPop, ExecGetLocal, ExecPutLocal, ExecInstr
<1>13. StackAgrees(t[1], Pop(pstack), regs)
  <2>1. StackAgrees(s[1], pstack, regs) /\ Len(s[1]) >= 1
    BY <1>4 DEF Agrees
  <2> QED BY <1>5, <2>1, PopAgrees
<1>14. Pop(pstack) \in Seq(0 .. clock)
  BY <1>1, <1>4, PopIn
<1>15. MemAgrees(t[2], regAssignments, new, regs)
  <2>1. MemAgrees(s[2], regAssignments, pmem, regs)
    BY DEF Agrees
  <2>2. \A q \in s[2] \cup {r} : regAssignments[q].slot \in Nat
    BY DEF SlotTypes, IsState
  <2>3. \A q \in s[2] : q # r => regAssignments[q].slot # regAssignments[r].slot
    BY <1>2
  <2>4. MemAgrees(s[2] \cup {r}, regAssignments, new, regs)
    <3>1. r \in DOMAIN regs => v = regs[r]
      BY <1>9
    <3>2. Written(pmem, addr, v, new)
      BY <1>11 DEF Written
    <3> QED BY <1>7, <2>1, <2>2, <2>3, <3>1, <3>2, StoreAgrees
  <2> QED BY <1>2, <2>4
<1>16. \A a \in DOMAIN new : new[a] \in 0 .. clock
  BY <1>9, <1>11 DEF Values
<1> QED BY <1>3, <1>6, <1>12, <1>13, <1>14, <1>15, <1>16 DEF Agrees, Values

(* An instruction of the function takes the values of its operands.        *)
LEMMA TakesOperands ==
  ASSUME NEW s, NEW p, NEW R, StackAgrees(s, p, R), NEW in, NEW k \in Nat, k = Len(in.uses),
         Took(in, s)
  PROVE  /\ k \in 0 .. Len(s) /\ Len(p) >= k
         /\ DOMAIN TopFirst(p, k) = 1 .. k
         /\ \A i \in 1 .. k : in.uses[i] \in DOMAIN R => TopFirst(p, k)[i] = R[in.uses[i]]
<1>1. s \in Seq(Nat) /\ p \in Seq(Nat) /\ Len(p) = Len(s) /\ Len(s) \in Nat /\ Len(s) >= k
  BY DEF StackAgrees, Took
<1>2. ASSUME NEW i \in 1 .. k, in.uses[i] \in DOMAIN R
      PROVE  TopFirst(p, k)[i] = R[in.uses[i]]
  <2>1. PICK j : j \in 1 .. Len(s) /\ j = Len(s) - (i - 1)
    <3>1. Len(s) - (i - 1) \in 1 .. Len(s)
      BY <1>1
    <3> QED BY <3>1
  <2>2. s[j] = in.uses[i]
    BY <2>1 DEF Took, Get
  <2>3. TopFirst(p, k)[i] = p[j]
    BY <1>1, <2>1 DEF TopFirst, Get
  <2> QED BY <1>2, <2>1, <2>2, <2>3 DEF StackAgrees
<1>3. DOMAIN TopFirst(p, k) = 1 .. k
  BY DEF TopFirst
<1> QED BY <1>1, <1>2, <1>3

Gives(R, d, v, new) ==
  IF d = NoReg THEN new = R
  ELSE new = [r \in DOMAIN R \cup {d} |-> IF r = d THEN v ELSE R[r]]

(* What an instruction of the function does to the machine, in the terms   *)
(* of the register machine.                                                *)
Executed(in) ==
  /\ DOMAIN operands' = DOMAIN in.uses
  /\ \A i \in DOMAIN in.uses :
       in.uses[i] \in DOMAIN regs => operands'[i] = regs[in.uses[i]]
  /\ clock' = clock + 1 /\ xidx' = xidx + 1
  /\ Gives(regs, in.def, clock + 1, regs')

LEMMA InstrRuns ==
  ASSUME NEW s, NEW t, Agrees(s), Values, NEW o, o = Current, IsState(regAssignments, s),
         IsFunction(fn), xblk \in Block(fn), InstrStep(fn.code[xblk], o, s, t), ExecStep
  PROVE  /\ Agrees(t)' /\ Values'
         /\ xidx \in DOMAIN fn.code[xblk] /\ Executed(fn.code[xblk][xidx])
<1>1. /\ s[1] \in Seq(Nat) /\ pstack \in Seq(0 .. clock)
      /\ Len(pstack) = Len(s[1]) /\ Len(s[1]) \in Nat /\ clock \in Nat
  BY AgreesIn DEF Values
<1>2. /\ o.op = "MI" /\ o.n = s[3] /\ o.n \in 1 .. Len(fn.code[xblk]) /\ t[3] = s[3] + 1
      /\ xidx = o.n
  BY DEF InstrStep, Agrees
<1>3. PICK in : in = fn.code[xblk][o.n]
  OBVIOUS
<1>4. in.uses \in Seq(Nat) /\ in.def \in Nat /\ xidx \in DOMAIN fn.code[xblk]
      /\ DOMAIN in.uses = 1 .. Len(in.uses)
  BY SMTT(60), <1>2, <1>3, CodeType DEF IsFunction
<1>5. PICK k \in Nat : k = Len(in.uses)
  BY <1>4
<1>6. /\ Took(in, s[1]) /\ t[1] = Gave(in, Below(s[1], k)) /\ t[2] = s[2] \ {in.def}
      /\ in.def # NoReg => \A i \in 1 .. Len(s[1]) - k : s[1][i] # in.def
  BY <1>3, <1>5 DEF InstrStep
<1>7. PICK rest : rest = Below(pstack, k)
  OBVIOUS
<1>8. /\ operands' = TopFirst(pstack, k)
      /\ pstack' = IF in.def = NoReg THEN rest ELSE Push(rest, clock + 1)
      /\ regs' = IF in.def = NoReg THEN regs
                 ELSE [r \in DOMAIN regs \cup {in.def} |->
                         IF r = in.def THEN clock + 1 ELSE regs[r]]
      /\ clock' = clock + 1 /\ xidx' = o.n + 1 /\ pmem' = pmem
  BY <1>2, <1>3, <1>5, <1>7
     DEF ExecStep, ExecSwap, ExecDup, ExecPop, ExecGetLocal, ExecPutLocal, ExecInstr
<1>9. StackAgrees(s[1], pstack, regs) /\ MemAgrees(s[2], regAssignments, pmem, regs)
  BY DEF Agrees
<1>10. /\ k \in 0 .. Len(s[1]) /\ DOMAIN TopFirst(pstack, k) = 1 .. k
       /\ \A i \in 1 .. k :
            in.uses[i] \in DOMAIN regs => TopFirst(pstack, k)[i] = regs[in.uses[i]]
  BY SMTT(60), <1>5, <1>6, <1>9, TakesOperands
<1>11. Gives(regs, in.def, clock + 1, regs')
  BY <1>8 DEF Gives
<1>12. xidx' = xidx + 1
  BY <1>2, <1>8
<1>13. Executed(in)
  BY <1>4, <1>5, <1>8, <1>10, <1>11, <1>12 DEF Executed
<1>14. PICK low : low = Below(s[1], k)
  OBVIOUS
<1>15. StackAgrees(low, rest, regs)
  BY <1>7, <1>9, <1>10, <1>14, BelowAgrees
<1>16. /\ rest \in Seq(0 .. clock) /\ Len(low) = Len(s[1]) - k
       /\ \A i \in 1 .. Len(s[1]) - k : low[i] = s[1][i]
  BY ZenonT(60), <1>1, <1>7, <1>10, <1>14, BelowIn
<1>17. rest \in Seq(0 .. clock + 1)
  <2>1. \A i \in 1 .. Len(rest) : rest[i] \in 0 .. clock + 1
    <3>1. \A i \in 1 .. Len(rest) : rest[i] \in 0 .. clock
      BY <1>16, ElementOfSeq
    <3>2. \A i \in 0 .. clock : i \in 0 .. clock + 1
      BY <1>1
    <3> QED BY <3>1, <3>2
  <2> QED BY <1>16, <2>1, SeqWiden
<1>18. \A a \in DOMAIN pmem : pmem[a] \in 0 .. clock + 1
  <2>1. \A i \in 0 .. clock : i \in 0 .. clock + 1
    BY <1>1
  <2> QED BY <2>1 DEF Values
<1>19. UNCHANGED regAssignments
  BY DEF ExecStep, vars, allocVars
<1>20. CASE in.def = NoReg
  <2>1. t[1] = low /\ pstack' = rest /\ regs' = regs
    BY <1>6, <1>8, <1>14, <1>20 DEF Gave
  <2>2. MemAgrees(t[2], regAssignments, pmem, regs)
    BY <1>6, <1>9 DEF MemAgrees
  <2>3. Agrees(t)'
    BY <1>2, <1>8, <1>12, <1>15, <1>19, <2>1, <2>2 DEF Agrees
  <2>4. Values'
    BY <1>1, <1>8, <1>17, <1>18, <2>1 DEF Values
  <2> QED BY <1>2, <1>3, <1>4, <1>13, <2>3, <2>4
<1>21. CASE in.def # NoReg
  <2>1. t[1] = Append(low, in.def) /\ pstack' = Append(rest, clock + 1)
    BY <1>6, <1>8, <1>14, <1>21 DEF Gave, Push
  <2>2. /\ DOMAIN regs' = DOMAIN regs \cup {in.def} /\ regs'[in.def] = clock + 1
        /\ \A r \in DOMAIN regs' : r # in.def => r \in DOMAIN regs /\ regs'[r] = regs[r]
    BY <1>8, <1>21
  <2>3. PICK new : new = regs'
    OBVIOUS
  <2>4. \A r \in DOMAIN new : r # in.def => r \in DOMAIN regs /\ new[r] = regs[r]
    BY <2>2, <2>3
  <2>5. \A i \in 1 .. Len(low) : low[i] # in.def
    BY <1>6, <1>16, <1>21
  <2>6. StackAgrees(low, rest, new)
    BY <1>15, <2>4, <2>5, NewValueAgrees
  <2>7. clock + 1 \in Nat /\ new[in.def] = clock + 1 /\ clock + 1 \in 0 .. clock + 1
    BY <1>1, <2>2, <2>3
  <2>8. StackAgrees(Append(low, in.def), Append(rest, clock + 1), new)
    BY <1>4, <2>6, <2>7, PushAgrees
  <2>9. MemAgrees(s[2] \ {in.def}, regAssignments, pmem, new)
    BY ZenonT(60), <1>9, <2>4, MemNewValue
  <2>10. Agrees(t)'
    BY <1>2, <1>6, <1>8, <1>12, <1>19, <2>1, <2>3, <2>8, <2>9 DEF Agrees
  <2>11. Append(rest, clock + 1) \in Seq(0 .. clock + 1)
    BY <1>17, <2>7, AppendProperties
  <2>12. Values'
    BY <1>1, <1>8, <1>18, <2>1, <2>7, <2>11 DEF Values
  <2> QED BY <1>2, <1>3, <1>4, <1>13, <2>10, <2>12
<1> QED BY <1>20, <1>21
-----------------------------------------------------------------------------
(* The machine runs the code of a function that met no hazard: it agrees   *)
(* with the machine of registers before every emitted instruction.         *)
Loaded == phase = "done" /\ hazards = {} /\ ~SwapOutOfReach /\ xblk \in Block(fn)

At(h, n, V) ==
  /\ BlockTrace(h, n, V, fn, regAssignments, xblk, out[xblk])
  /\ xpc \in 1 .. n + 1 /\ Agrees(h[xpc])

DefinedInEntry == \A r \in DOMAIN regs : \E d \in DefSites(fn, r) : d[1] = 1

MachineInv ==
  /\ Values
  /\ xblk = 0 => xpc = 1 /\ xidx = 1 /\ pstack = << >> /\ DOMAIN pmem = {}
  /\ xblk # 0 => Loaded /\ (\E h, n, V : At(h, n, V)) /\ (xblk = 1 => DefinedInEntry)

LEMMA MachineInit == ExecInit => MachineInv
BY DEF ExecInit, MachineInv, Values

LEMMA MachineSame ==
  ASSUME MachineInv, UNCHANGED execVars, xblk # 0 => UNCHANGED vars
  PROVE  MachineInv'
<1>1. Values' <=> Values
  BY DEF execVars, Values
<1>2. CASE xblk = 0
  BY <1>1, <1>2 DEF MachineInv, execVars
<1>3. CASE xblk # 0
  <2>1. UNCHANGED <<fn, phase, hazards, out, regAssignments, xblk, xpc, xidx, pstack, pmem, regs>>
    BY <1>3 DEF vars, edgeVars, allocVars, execVars
  <2>2. Loaded' <=> Loaded
    BY <2>1 DEF Loaded, SwapOutOfReach
  <2>3. ASSUME NEW h, NEW n, NEW V PROVE At(h, n, V)' <=> At(h, n, V)
    BY <2>1 DEF At, Agrees
  <2>4. DefinedInEntry' <=> DefinedInEntry
    BY <2>1 DEF DefinedInEntry
  <2> QED BY <1>1, <1>3, <2>1, <2>2, <2>3, <2>4 DEF MachineInv
<1> QED BY <1>2, <1>3

(* Before the first instruction the arguments are on the stack.            *)
LEMMA StartRuns ==
  ASSUME ExecInv, MemInv, Emitted, MachineInv, Allowed = {}, Start
  PROVE  MachineInv' /\ xidx = 1
<1>1. /\ xblk = 0 /\ phase = "done" /\ hazards = {} /\ ~SwapOutOfReach
      /\ xpc = 1 /\ xidx = 1 /\ DOMAIN pmem = {}
  BY DEF Start, Running, HazardsMet, MachineInv
<1>2. /\ UNCHANGED <<fn, phase, hazards, out, regAssignments, xpc, xidx, pmem>>
      /\ xblk' = 1 /\ clock' = Len(fn.args)
      /\ pstack' = [i \in DOMAIN fn.args |-> i]
      /\ regs' = [r \in Elems(fn.args) |-> CHOOSE i \in DOMAIN fn.args : fn.args[i] = r]
  BY DEF Start, vars, edgeVars, allocVars
<1>3. IsFunction(fn) /\ 1 \in Block(fn)
  BY WalkFunction, Untouched DEF ExecInv
<1>4. PICK n \in Nat : n = Len(fn.args) /\ DOMAIN fn.args = 1 .. n /\ fn.args \in Seq(Nat)
  BY <1>3 DEF IsFunction, IsMachineFunction
<1>5. pstack' \in Seq(0 .. n) /\ pstack' \in Seq(Nat) /\ Len(pstack') = n
      /\ \A i \in 1 .. n : pstack'[i] = i
  BY <1>2, <1>4
<1>6. ASSUME NEW i \in 1 .. n, fn.args[i] \in DOMAIN regs' PROVE i = regs'[fn.args[i]]
  <2>1. PICK j : j = CHOOSE k \in DOMAIN fn.args : fn.args[k] = fn.args[i]
    OBVIOUS
  <2>2. j \in DOMAIN fn.args /\ fn.args[j] = fn.args[i]
    BY <1>4, <2>1
  <2>3. j = i
    BY <1>3, <1>4, <2>2 DEF IsFunction, IsMachineFunction
  <2>4. regs'[fn.args[i]] = j
    BY <1>2, <1>4, <2>1 DEF Elems
  <2> QED BY <2>3, <2>4
<1>7. StackAgrees(fn.args, pstack', regs')
  BY <1>4, <1>5, <1>6 DEF StackAgrees
<1>8. PICK h, k, V : BlockTrace(h, k, V, fn, regAssignments, 1, out[1])
  BY <1>1, <1>3, BlockRuns DEF Emitted, EmittedBefore
<1>9. h[1] = <<fn.args, {}, 1>> /\ k \in Nat
  BY <1>8 DEF BlockTrace, RunTrace, EntryState, Needed
<1>10. Agrees(h[1])'
  <2>1. PICK s : s = h[1] /\ s[1] = fn.args /\ s[2] = {} /\ s[3] = 1
    BY <1>9
  <2>2. Agrees(s)'
    BY <1>1, <1>2, <1>7, <2>1 DEF Agrees, MemAgrees
  <2> QED BY <2>1, <2>2
<1>11. 1 \in 1 .. k + 1
  BY <1>9
<1>12. At(h, k, V)'
  BY <1>1, <1>2, <1>8, <1>10, <1>11 DEF At
<1>13. Loaded'
  BY <1>1, <1>2, <1>3 DEF Loaded, SwapOutOfReach
<1>14. DefinedInEntry'
  <2> SUFFICES ASSUME NEW r \in Elems(fn.args) PROVE \E d \in DefSites(fn, r) : d[1] = 1
    BY <1>2 DEF DefinedInEntry
  <2>1. <<1, 0>> \in DefSites(fn, r)
    BY DEF DefSites
  <2> QED BY <2>1
<1>15. Values'
  BY <1>1, <1>2, <1>4, <1>5 DEF Values
<1> QED BY <1>1, <1>2, <1>12, <1>13, <1>14, <1>15 DEF MachineInv

(* One emitted instruction: it moves values about or is an instruction of  *)
(* the function.                                                           *)
LEMMA StepRuns ==
  ASSUME ExecInv, MemInv, MachineInv, ExecStep
  PROVE  /\ MachineInv' /\ xblk # 0 /\ UNCHANGED <<fn, xblk>>
         /\ \/ UNCHANGED <<xidx, regs, operands, clock>>
            \/ xidx \in DOMAIN fn.code[xblk] /\ Executed(fn.code[xblk][xidx])
<1>1. xblk # 0 /\ xpc \in DOMAIN out[xblk] /\ xpc' = xpc + 1
  BY DEF ExecStep, Executing
<1>2. UNCHANGED <<fn, phase, hazards, out, regAssignments, xblk>>
  BY DEF ExecStep, vars, edgeVars, allocVars
<1>3. Values /\ Loaded /\ (xblk = 1 => DefinedInEntry)
  BY <1>1 DEF MachineInv
<1>4. PICK h, n, V : At(h, n, V)
  BY <1>1 DEF MachineInv
<1>5. PICK c : c = fn.code[xblk]
  OBVIOUS
<1>6. n \in Nat /\ IsCode(out[xblk], n) /\ Agrees(h[xpc])
  BY <1>4 DEF At, BlockTrace
<1>7. xpc \in 1 .. n
  BY <1>1, <1>6 DEF IsCode
<1>8. xpc \in 1 .. n + 1 /\ xpc + 1 \in 1 .. n + 1
  BY <1>6, <1>7
<1>9. PICK o : o = Current
  OBVIOUS
<1>10. PICK s, t : s = h[xpc] /\ t = h[xpc + 1]
  OBVIOUS
<1>11. /\ IsState(regAssignments, s) /\ IsState(regAssignments, t)
       /\ RunStep(c, regAssignments, o, s, t)
  BY <1>4, <1>5, <1>7, <1>8, <1>9, <1>10 DEF At, BlockTrace, RunTrace, Current
<1>12. ~(o.op = "SWAP" /\ o.n > MaxReach)
  BY <1>1, <1>3, <1>9 DEF Loaded, SwapOutOfReach, Current, MemInv
<1>13. SlotTypes(regAssignments, memoryAssignment, memoryFrameSize)
  BY DEF MemInv
<1>14. IsFunction(fn) /\ xblk \in Block(fn)
  BY <1>3, WalkFunction DEF ExecInv, Loaded
<1>15. Agrees(s)
  BY <1>6, <1>10
<1>16. Agrees(t)' /\ Values'
       /\ (\/ UNCHANGED <<xidx, regs, operands, clock>>
           \/ xidx \in DOMAIN fn.code[xblk] /\ Executed(fn.code[xblk][xidx]))
  <2>1. CASE MoveStep(regAssignments, o, s, t)
    BY <1>3, <1>9, <1>11, <1>12, <1>13, <1>15, <2>1, MoveRuns
  <2>2. CASE PutStep(regAssignments, o, s, t)
    BY <1>3, <1>9, <1>11, <1>13, <1>15, <2>2, PutRuns
  <2>3. CASE InstrStep(c, o, s, t)
    BY <1>3, <1>5, <1>9, <1>11, <1>14, <1>15, <2>3, InstrRuns
  <2> QED BY <1>11, <2>1, <2>2, <2>3 DEF RunStep
<1>17. At(h, n, V)'
  <2>1. (h[xpc])' = t
    BY <1>1, <1>10
  <2>2. (xpc \in 1 .. n + 1)'
    BY <1>1, <1>8
  <2>3. BlockTrace(h, n, V, fn, regAssignments, xblk, out[xblk])'
    BY <1>2, <1>4 DEF At
  <2>4. Agrees(h[xpc])'
    BY <1>16, <2>1
  <2> QED BY <2>2, <2>3, <2>4 DEF At
<1>18. Loaded'
  BY <1>2, <1>3 DEF Loaded, SwapOutOfReach
<1>19. xblk = 1 => DefinedInEntry'
  <2> SUFFICES ASSUME xblk = 1, NEW r \in DOMAIN regs' PROVE \E d \in DefSites(fn, r) : d[1] = 1
    BY <1>2 DEF DefinedInEntry
  <2>1. CASE r \in DOMAIN regs
    BY <1>3, <2>1 DEF DefinedInEntry
  <2>2. CASE r \notin DOMAIN regs
    <3>1. xidx \in DOMAIN fn.code[1] /\ Executed(fn.code[1][xidx])
      BY <1>16, <2>2
    <3>2. r = fn.code[1][xidx].def
      BY <2>2, <3>1 DEF Executed, Gives
    <3>3. <<1, 2 * xidx>> \in Sites(fn)
      BY <1>14, <3>1 DEF Sites
    <3>4. xidx \in Nat
      BY SMTT(60), <1>14, <3>1, CodeType DEF IsFunction
    <3>5. PICK p : p = <<1, 2 * xidx>> /\ p[1] = 1 /\ p[2] = 2 * xidx
      <4>1. PICK p : p = <<1, 2 * xidx>>
        OBVIOUS
      <4>2. p[1] = 1 /\ p[2] = 2 * xidx
        BY <4>1
      <4> QED BY <4>1, <4>2
    <3>6. (2 * xidx) \div 2 = xidx
      BY <3>4
    <3>7. InstrAt(fn, p) = fn.code[1][xidx]
      BY <3>5, <3>6 DEF InstrAt
    <3>8. p \in DefSites(fn, r)
      BY <3>2, <3>3, <3>5, <3>7 DEF DefSites
    <3> QED BY <3>5, <3>8
  <2> QED BY <2>1, <2>2
<1> QED BY <1>1, <1>2, <1>16, <1>17, <1>18, <1>19 DEF MachineInv

(* A register used in the entry block is defined there before.             *)
LEMMA EntryNotLive ==
  ASSUME NEW f, IsFunction(f), NEW r, NEW d \in DefSites(f, r), d[1] = 1
  PROVE  1 \notin LiveInBlocks(f, r)
<1> SUFFICES ASSUME 1 \in LiveInBlocks(f, r) PROVE FALSE
  OBVIOUS
<1>1. Exposed(f, r, 1)
  BY LiveExposed
<1>2. PICK u \in UseSites(f, r) : u[1] = 1 /\ \A e \in DefSites(f, r) : e[1] = 1 => ~Before(e, u)
  BY <1>1 DEF Exposed
<1>3. u \in Sites(f) /\ r \in Elems(InstrAt(f, u).uses)
  BY DEF UseSites
<1>4. PICK e \in DefSites(f, r) : Before(e, u)
  BY <1>2, <1>3 DEF IsFunction, IsMachineFunction
<1>5. PICK c, j : DefShape(f, e, c, j)
  BY DefShapes
<1>6. e[1] \in Nat /\ e[1] >= 1
  BY <1>5 DEF DefShape
<1>7. e[1] = 1
  BY <1>2, <1>4, <1>6 DEF Before
<1> QED BY <1>2, <1>4, <1>7

(* What a successor needs was kept.                                        *)
LEMMA NeededWasKept ==
  ASSUME NEW f, IsFunction(f), NEW map, NEW b \in Block(f), NEW c \in Elems(f.succs[b]),
         NEW r \in Needed(f, map, c), b = 1 => \E d \in DefSites(f, r) : d[1] = 1
  PROVE  r \in Kept(f, map, b, 2 * Len(f.code[b]) + 1)
<1>1. r \in DOMAIN map /\ map[r].region = "NONSTACK" /\ c \in LiveInBlocks(f, r)
  BY DEF Needed
<1>2. CASE \E d \in DefSites(f, r) : d[1] = b
  <2>1. PICK d \in DefSites(f, r) : d[1] = b
    BY <1>2
  <2>2. PICK e, j : DefShape(f, d, e, j)
    BY DefShapes
  <2>3. Len(f.code[b]) \in Nat
    BY CodeType DEF IsFunction
  <2>4. e = b /\ j \in 0 .. Len(f.code[b]) /\ d[2] = 2 * j
    BY <2>1, <2>2 DEF DefShape
  <2>5. d[2] < 2 * Len(f.code[b]) + 1
    BY <2>3, <2>4
  <2> QED BY <1>1, <2>1, <2>5 DEF Kept, DefinedIn
<1>3. CASE ~\E d \in DefSites(f, r) : d[1] = b
  <2>1. b \in LiveInBlocks(f, r)
    BY <1>1, <1>3, LiveBefore
  <2> QED BY <1>1, <1>3, <2>1 DEF Kept, Needed
<1> QED BY <1>2, <1>3

(* The end of a block.                                                     *)
LEMMA EndState ==
  ASSUME ExecInv, MemInv, MachineInv, xblk # 0, xpc > Len(out[xblk]),
         NEW h, NEW n, NEW V, At(h, n, V)
  PROVE  /\ pstack = << >> /\ xidx = Len(fn.code[xblk]) + 1
         /\ MemAgrees(V, regAssignments, pmem, regs)
<1>1. n \in Nat /\ IsCode(out[xblk], n) /\ xpc \in 1 .. n + 1 /\ Agrees(h[xpc])
      /\ h[n + 1] = << << >>, V, Len(fn.code[xblk]) + 1>>
  BY DEF At, BlockTrace, RunTrace
<1>2. xpc = n + 1
  BY <1>1 DEF IsCode
<1>3. PICK s : s = h[n + 1] /\ s[1] = << >> /\ s[2] = V /\ s[3] = Len(fn.code[xblk]) + 1
  <2>1. PICK s : IsTriple(s, << >>, V, Len(fn.code[xblk]) + 1)
    BY Triple
  <2> QED BY <1>1, <2>1 DEF IsTriple
<1>4. Agrees(s)
  BY <1>1, <1>2, <1>3
<1>5. Len(pstack) = 0 /\ pstack \in Seq(Nat)
  BY <1>3, <1>4 DEF Agrees, StackAgrees
<1> QED BY <1>3, <1>4, <1>5 DEF Agrees

LEMMA BranchRuns ==
  ASSUME ExecInv, MemInv, Emitted, MachineInv, Branch
  PROVE  MachineInv' /\ xidx > Len(fn.code[xblk])
<1>1. xblk # 0 /\ xpc > Len(out[xblk]) /\ xpc' = 1 /\ xidx' = 1
      /\ UNCHANGED <<fn, phase, hazards, out, regAssignments, pstack, pmem, regs, clock>>
  BY DEF Branch, vars, edgeVars, allocVars
<1>2. Values /\ Loaded /\ (xblk = 1 => DefinedInEntry)
  BY <1>1 DEF MachineInv
<1>3. PICK h, n, V : At(h, n, V)
  BY <1>1 DEF MachineInv
<1>4. /\ pstack = << >> /\ xidx = Len(fn.code[xblk]) + 1
      /\ MemAgrees(V, regAssignments, pmem, regs)
  BY <1>1, <1>3, EndState
<1>5. IsFunction(fn) /\ xblk \in Block(fn)
  BY <1>2, WalkFunction DEF ExecInv, Loaded
<1>6. PICK c : c = xblk'
  OBVIOUS
<1>7. c \in Elems(fn.succs[xblk])
  BY <1>6 DEF Branch, Elems
<1>8. c \in Block(fn) /\ c \in Nat /\ c >= 1
  <2>1. PICK i \in DOMAIN fn.succs[xblk] : c = fn.succs[xblk][i]
    BY <1>7 DEF Elems
  <2>2. fn.succs[xblk] \in Seq(Block(fn)) /\ fn.n \in Nat
    BY <1>5 DEF IsFunction, IsCFG, Block
  <2>3. i \in 1 .. Len(fn.succs[xblk])
    BY <2>1, <2>2
  <2>4. c \in Block(fn)
    BY <2>1, <2>2, <2>3, ElementOfSeq
  <2> QED BY <2>2, <2>4 DEF Block
<1>9. c # 1
  <2>1. xblk \in Elems(fn.preds[c])
    BY <1>5, <1>7, <1>8 DEF IsFunction, IsCFG, Block
  <2> QED BY <1>5, <2>1 DEF IsFunction, IsMachineFunction, Elems
<1>10. PICK g, k, W : BlockTrace(g, k, W, fn, regAssignments, c, out[c])
  BY <1>2, <1>5, <1>8, BlockRuns DEF Emitted, EmittedBefore, Loaded
<1>11. g[1] = << << >>, Needed(fn, regAssignments, c), 1>> /\ k \in Nat
  BY <1>9, <1>10 DEF BlockTrace, RunTrace, EntryState
<1>12. Kept(fn, regAssignments, xblk, 2 * Len(fn.code[xblk]) + 1) \subseteq V
  BY <1>3 DEF At, BlockTrace
<1>13. MemAgrees(Needed(fn, regAssignments, c), regAssignments, pmem, regs)
  <2>1. ASSUME NEW r \in Needed(fn, regAssignments, c), r \in DOMAIN regs PROVE r \in V
    <3>1. xblk = 1 => \E d \in DefSites(fn, r) : d[1] = 1
      BY <1>2, <2>1 DEF DefinedInEntry
    <3>2. r \in Kept(fn, regAssignments, xblk, 2 * Len(fn.code[xblk]) + 1)
      BY <1>5, <1>7, <3>1, NeededWasKept
    <3> QED BY <1>12, <3>2
  <2> QED BY <1>4, <2>1 DEF MemAgrees
<1>14. Agrees(g[1])'
  <2>1. PICK s : s = g[1] /\ s[1] = << >> /\ s[2] = Needed(fn, regAssignments, c) /\ s[3] = 1
    <3>1. PICK s : IsTriple(s, << >>, Needed(fn, regAssignments, c), 1)
      BY Triple
    <3> QED BY <1>11, <3>1 DEF IsTriple
  <2>2. StackAgrees(<< >>, << >>, regs)
    BY DEF StackAgrees
  <2>3. Agrees(s)'
    BY <1>1, <1>4, <1>13, <2>1, <2>2 DEF Agrees
  <2> QED BY <2>1, <2>3
<1>15. 1 \in 1 .. k + 1
  BY <1>11
<1>16. At(g, k, W)'
  BY <1>1, <1>6, <1>10, <1>14, <1>15 DEF At
<1>17. Loaded'
  BY <1>1, <1>2, <1>6, <1>8 DEF Loaded, SwapOutOfReach
<1>18. Values'
  BY <1>1, <1>2 DEF Values
<1>19. xblk' # 0 /\ xblk' # 1
  BY <1>6, <1>8, <1>9
<1>20. Len(fn.code[xblk]) \in Nat
  BY <1>5, CodeType DEF IsFunction
<1>21. xidx > Len(fn.code[xblk])
  BY <1>4, <1>20
<1> QED BY <1>16, <1>17, <1>18, <1>19, <1>21 DEF MachineInv
-----------------------------------------------------------------------------
LEMMA MachineNext ==
  Allowed = {} /\ ExecInv /\ MemInv /\ Emitted /\ MachineInv /\ [ExecNext]_allVars => MachineInv'
<1> SUFFICES ASSUME Allowed = {}, ExecInv, MemInv, Emitted, MachineInv, [ExecNext]_allVars
             PROVE  MachineInv'
  OBVIOUS
<1>1. CASE Compile
  BY <1>1, MachineSame DEF Compile
<1>2. CASE Start
  BY <1>2, StartRuns
<1>3. CASE ExecStep
  BY <1>3, StepRuns
<1>4. CASE Branch
  BY <1>4, BranchRuns
<1>5. CASE UNCHANGED allVars
  BY <1>5, MachineSame DEF allVars
<1> QED BY <1>1, <1>2, <1>3, <1>4, <1>5 DEF ExecNext

(* The machine that runs the code of functions without hazards agrees with *)
(* the machine of registers before every emitted instruction.              *)
THEOREM MachineInvariant == Allowed = {} => (ExecSpec => []MachineInv)
<1> SUFFICES ASSUME Allowed = {} PROVE ExecSpec => []MachineInv
  OBVIOUS
<1>1. ExecInit => MachineInv
  BY MachineInit
<1>2. ExecInv /\ (MemInv /\ FrameInv) /\ Emitted /\ MachineInv /\ [ExecNext]_allVars
        => MachineInv'
  BY MachineNext
<1> QED BY <1>1, <1>2, ExecInvariant, MemoryInvariant, CodeInvariant, PTL DEF ExecSpec

LEMMA EnoughOnStack == ExecInv /\ MemInv /\ MachineInv => NoUnderflow
<1> SUFFICES ASSUME ExecInv, MemInv, MachineInv, Executing PROVE Len(pstack) >= Needs
  BY DEF NoUnderflow
<1>1. xblk # 0 /\ xpc \in DOMAIN out[xblk]
  BY DEF Executing
<1>2. Loaded
  BY <1>1 DEF MachineInv
<1>3. PICK h, n, V : At(h, n, V)
  BY <1>1 DEF MachineInv
<1>4. n \in Nat /\ IsCode(out[xblk], n) /\ Agrees(h[xpc])
  BY <1>3 DEF At, BlockTrace
<1>5. xpc \in 1 .. n
  BY <1>1, <1>4 DEF IsCode
<1>6. PICK s, t : s = h[xpc] /\ t = h[xpc + 1]
  OBVIOUS
<1>7. PICK o, c : o = Current /\ c = fn.code[xblk]
  OBVIOUS
<1>8. RunStep(c, regAssignments, o, s, t) /\ Agrees(s)
  BY <1>3, <1>4, <1>5, <1>6, <1>7 DEF At, BlockTrace, RunTrace, Current
<1>9. IsState(regAssignments, t)
  <2>1. xpc + 1 \in 1 .. n + 1
    BY <1>4, <1>5
  <2> QED BY <1>3, <1>6, <2>1 DEF At, BlockTrace, RunTrace
<1>10. s[1] \in Seq(Nat) /\ Len(pstack) = Len(s[1]) /\ Len(s[1]) \in Nat
  BY <1>8, AgreesIn
<1>11. Needs = CASE o.op = "SWAP" -> ConvertSWAP(o.n) + 1
                 [] o.op = "DUP" -> o.n
                 [] o.op = "GETLOCAL" -> 0
                 [] o.op = "MI" -> Len(c[o.n].uses)
                 [] OTHER -> 1
  BY <1>7, Zenon DEF Needs
<1>12. CASE MoveStep(regAssignments, o, s, t)
  <2>1. CASE o.op = "SWAP"
    <3>1. o.n \in 1 .. Len(s[1]) - 1
      BY <1>12, <2>1 DEF MoveStep, SymStep
    <3>2. ConvertSWAP(o.n) = o.n
      BY <1>1, <1>2, <1>7, <2>1 DEF Loaded, SwapOutOfReach, Current, ConvertSWAP, MemInv
    <3>3. Needs = o.n + 1
      BY <1>11, <2>1, <3>2
    <3> QED BY <1>10, <3>1, <3>3
  <2>2. CASE o.op = "DUP"
    <3>1. o.n \in 1 .. Len(s[1])
      BY <1>12, <2>2 DEF MoveStep, SymStep
    <3>2. Needs = o.n
      BY <1>11, <2>2
    <3> QED BY <1>10, <3>1, <3>2
  <2>3. CASE o.op = "POP"
    <3>1. Len(s[1]) >= 1
      BY <1>12, <2>3 DEF MoveStep, SymStep
    <3>2. Needs = 1
      BY <1>11, <2>3
    <3> QED BY <1>10, <3>1, <3>2
  <2>4. CASE o.op = "GETLOCAL"
    BY <1>10, <1>11, <2>4
  <2> QED BY <1>12, <2>1, <2>2, <2>3, <2>4 DEF MoveStep, SymStep
<1>13. CASE PutStep(regAssignments, o, s, t)
  <2>1. o.op = "PUTLOCAL"
    BY <1>13 DEF PutStep
  <2>2. PICK r : s[1] = Append(t[1], r)
    BY <1>13 DEF PutStep
  <2>3. t[1] \in Seq(Nat)
    BY <1>9 DEF IsState
  <2>4. Len(s[1]) >= 1
    BY <2>2, <2>3
  <2>5. Needs = 1
    BY <1>11, <2>1
  <2> QED BY <1>10, <2>4, <2>5
<1>14. CASE InstrStep(c, o, s, t)
  <2>1. o.op = "MI" /\ Len(s[1]) >= Len(c[o.n].uses)
    BY <1>14 DEF InstrStep, Took
  <2>2. Needs = Len(c[o.n].uses)
    BY <1>11, <2>1
  <2> QED BY <1>10, <2>1, <2>2
<1> QED BY <1>8, <1>12, <1>13, <1>14 DEF RunStep

(* In code compiled from a function without hazards no SWAP, DUP, POP,     *)
(* store or instruction finds the machine stack too short, on any path and *)
(* after any number of iterations of a loop.                               *)
THEOREM StackSuffices == Allowed = {} => (ExecSpec => []NoUnderflow)
<1>1. ExecInv /\ (MemInv /\ FrameInv) /\ MachineInv => NoUnderflow
  BY EnoughOnStack
<1> QED BY <1>1, ExecInvariant, MemoryInvariant, MachineInvariant, PTL

(* The machine stack is empty whenever a block ends: what the allocator's  *)
(* exit check asserts of its symbolic stack holds of the machine.          *)
THEOREM NothingLeaks == Allowed = {} => (ExecSpec => []StackEmptyBetweenBlocks)
<1>1. ExecInv /\ (MemInv /\ FrameInv) /\ MachineInv => StackEmptyBetweenBlocks
  <2> SUFFICES ASSUME ExecInv, MemInv, MachineInv, xblk # 0, xpc > Len(out[xblk])
               PROVE  pstack = << >>
    BY DEF StackEmptyBetweenBlocks
  <2>1. PICK h, n, V : At(h, n, V)
    BY DEF MachineInv
  <2> QED BY <2>1, EndState
<1> QED BY <1>1, ExecInvariant, MemoryInvariant, MachineInvariant, PTL

(* At the start of every block each live register kept in memory has its   *)
(* value in its slot, whichever path led there: allocateMemorySlot and the *)
(* layouts of edgeset2assignment never give away a slot still needed.      *)
THEOREM LiveValuesStay == Allowed = {} => (ExecSpec => []LiveValuesInMemory)
<1>1. ExecInv /\ (MemInv /\ FrameInv) /\ MachineInv => LiveValuesInMemory
  <2> SUFFICES ASSUME ExecInv, MachineInv, xblk # 0, xpc = 1,
                      NEW r \in DOMAIN regs, InMemory(r), xblk \in LiveInBlocks(fn, r)
               PROVE  /\ LocalAddress(regAssignments[r].slot) \in DOMAIN pmem
                      /\ pmem[LocalAddress(regAssignments[r].slot)] = regs[r]
    BY DEF LiveValuesInMemory
  <2>1. PICK h, n, V : At(h, n, V)
    BY DEF MachineInv
  <2>2. IsFunction(fn)
    BY WalkFunction DEF ExecInv
  <2>3. xblk # 1
    <3> SUFFICES ASSUME xblk = 1 PROVE FALSE
      OBVIOUS
    <3>1. PICK d \in DefSites(fn, r) : d[1] = 1
      BY DEF MachineInv, DefinedInEntry
    <3> QED BY <2>2, <3>1, EntryNotLive
  <2>4. r \in Needed(fn, regAssignments, xblk)
    BY <2>3 DEF Needed, InMemory
  <2>5. h[1] = EntryState(fn, regAssignments, xblk) /\ Agrees(h[1])
    BY <2>1 DEF At, BlockTrace, RunTrace
  <2>6. MemAgrees(Needed(fn, regAssignments, xblk), regAssignments, pmem, regs)
    BY <2>5 DEF EntryState, Agrees
  <2> QED BY <2>4, <2>6 DEF MemAgrees
<1> QED BY <1>1, ExecInvariant, MemoryInvariant, MachineInvariant, PTL

LEMMA StepImplements ==
  Allowed = {} /\ ExecInv /\ MemInv /\ Emitted /\ MachineInv /\ [ExecNext]_allVars
    => [RM!Next]_(RM!rvars)
<1> SUFFICES ASSUME Allowed = {}, ExecInv, MemInv, Emitted, MachineInv, [ExecNext]_allVars
             PROVE  [RM!Next]_(RM!rvars)
  OBVIOUS
<1>1. CASE Compile
  <2>1. xblk = 0 /\ UNCHANGED <<xblk, xidx, regs, operands, clock>>
    BY <1>1 DEF Compile, execVars
  <2>2. CASE fn' = fn
    BY <2>1, <2>2 DEF RM!rvars
  <2>3. CASE fn' # fn
    BY <2>1, <2>3 DEF RM!Next, RM!Load
  <2> QED BY <2>2, <2>3
<1>2. CASE Start
  <2>1. xidx' = xidx /\ operands' = operands /\ fn' = fn
    BY <1>2 DEF Start, vars, edgeVars
  <2>2. RM!Start
    BY <1>2, <2>1 DEF Start, RM!Start, Elems
  <2> QED BY <2>2 DEF RM!Next
<1>3. CASE ExecStep
  <2>1. /\ xblk # 0 /\ UNCHANGED <<fn, xblk>>
        /\ \/ UNCHANGED <<xidx, regs, operands, clock>>
           \/ xidx \in DOMAIN fn.code[xblk] /\ Executed(fn.code[xblk][xidx])
    BY <1>3, StepRuns
  <2>2. CASE UNCHANGED <<xidx, regs, operands, clock>>
    BY <2>1, <2>2 DEF RM!rvars
  <2>3. CASE xidx \in DOMAIN fn.code[xblk] /\ Executed(fn.code[xblk][xidx])
    <3>1. RM!Execute
      BY <2>1, <2>3 DEF RM!Execute, Executed, Gives
    <3> QED BY SMTT(60), <3>1 DEF RM!Next
  <2> QED BY <2>1, <2>2, <2>3
<1>4. CASE Branch
  <2>1. xidx > Len(fn.code[xblk])
    BY <1>4, BranchRuns
  <2>2. /\ xblk # 0 /\ (\E i \in DOMAIN fn.succs[xblk] : xblk' = fn.succs[xblk][i])
        /\ xidx' = 1 /\ UNCHANGED <<fn, regs, operands, clock>>
    BY <1>4 DEF Branch, vars, edgeVars
  <2>3. RM!Branch
    BY <2>1, <2>2 DEF RM!Branch
  <2> QED BY <2>3 DEF RM!Next
<1>5. CASE UNCHANGED allVars
  BY <1>5 DEF allVars, vars, edgeVars, execVars, RM!rvars
<1> QED BY <1>1, <1>2, <1>3, <1>4, <1>5 DEF ExecNext

(* The stack code EVMStackAlloc emits, converted by EVMConvertRegToStack,  *)
(* implements the machine function: every instruction receives the values  *)
(* of the registers it uses, in order, on every path, for every function   *)
(* in which none of the listed hazards is met.                             *)
THEOREM CodeImplementsFunction == Allowed = {} => (ExecSpec => ImplementsRegMachine)
<1> SUFFICES ASSUME Allowed = {} PROVE ExecSpec => ImplementsRegMachine
  OBVIOUS
<1>1. ExecInit => RM!Init
  BY DEF ExecInit, RM!Init
<1>2. ExecInv /\ (MemInv /\ FrameInv) /\ Emitted /\ MachineInv /\ [ExecNext]_allVars
        => [RM!Next]_(RM!rvars)
  BY StepImplements
<1> QED BY <1>1, <1>2, ExecInvariant, MemoryInvariant, CodeInvariant, MachineInvariant, PTL
        DEF ExecSpec, ImplementsRegMachine, RM!Spec
-----------------------------------------------------------------------------
(* The types of the pass's variables in every function, hazards or not.    *)
MapTypes ==
  /\ DOMAIN regAssignments \subseteq VRegs(fn)
  /\ \A r \in DOMAIN regAssignments : regAssignments[r].region \in Region

TypeInv ==
  /\ EdgeTypeOK /\ DOMAIN edgeset2assignment \subseteq Edges
  /\ idx \in Nat \ {0} /\ stack \in Seq(VRegs(fn)) /\ MapTypes

LEMMA TypeInvInit == ExecInit => TypeInv
<1> SUFFICES ASSUME ExecInit PROVE TypeInv
  OBVIOUS
<1>1. EdgeTypeOK
  BY EdgeInitType DEF ExecInit, Init
<1>2. /\ idx = 1 /\ stack = << >> /\ DOMAIN regAssignments = {} /\ DOMAIN edgeset2assignment = {}
  BY DEF ExecInit, Init, NoAssignments, FreshLayouts
<1> QED BY <1>1, <1>2 DEF TypeInv, MapTypes

(* Every step of the pass but two leaves the graph alone.                  *)
LEMMA EdgesStay ==
  ASSUME Next, ~ComputeEdgeSets, ~NextFunction
  PROVE  UNCHANGED edgeVars
<1>1. CASE SkipEmptyBlock \/ BeginEntryBlock \/ BeginBlock
  BY <1>1 DEF SkipEmptyBlock, BeginEntryBlock, BeginBlock
<1>2. CASE HandleUses \/ BadUse \/ CleanUpDeadRegisters \/ EndOfBlock
  BY <1>2 DEF HandleUses, BadUse, CleanUpDeadRegisters, EndOfBlock
<1>3. CASE DefNothing \/ DefUnused \/ DefLocal \/ DefMemory
  BY <1>3 DEF DefNothing, DefUnused, DefLocal, DefMemory
<1> QED BY <1>1, <1>2, <1>3 DEF Next

LEMMA EdgesTyped == ASSUME EdgeTypeOK, Next PROVE EdgeTypeOK'
<1>1. CASE NextFunction
  <2>1. /\ fn' \in FollowUps /\ edgeSet' = [e \in CollectEdges(fn') |-> e]
        /\ mbb' = 1 /\ side' = "preds" /\ iter' = 2
    BY <1>1 DEF NextFunction
  <2>2. IsCFG(fn')
    BY <2>1, MachineFunctions
  <2>3. 1 \in Block(fn')
    BY <2>2 DEF IsCFG, Block
  <2> QED BY <2>1, <2>2, <2>3 DEF EdgeTypeOK, Edges
<1>2. CASE ComputeEdgeSets
  BY <1>2, EdgeNextType DEF ComputeEdgeSets
<1>3. CASE ~NextFunction /\ ~ComputeEdgeSets
  BY <1>3, EdgesStay, EdgeNextType
<1> QED BY <1>1, <1>2, <1>3

LEMMA LayoutsTyped ==
  ASSUME ExecInv, EdgeTypeOK, DOMAIN edgeset2assignment \subseteq Edges, Next
  PROVE  DOMAIN edgeset2assignment' \subseteq Edges'
<1>1. CASE NextFunction
  BY <1>1 DEF NextFunction, FreshLayouts
<1>2. CASE ComputeEdgeSets
  <2>1. fn' = fn /\ edgeset2assignment' = edgeset2assignment
    BY <1>2 DEF ComputeEdgeSets, allocVars, EdgeNext, MergePred, PredsMerged, MergeSucc, SuccsMerged
  <2> QED BY <2>1 DEF Edges
<1>3. CASE EndOfBlock
  <2>1. fn' = fn
    BY <1>3 DEF EndOfBlock, edgeVars
  <2>2. CASE edgeset2assignment' = edgeset2assignment
    BY <2>1, <2>2 DEF Edges
  <2>3. CASE edgeset2assignment' # edgeset2assignment
    <3>1. PICK e : e = <<blk, fn.succs[blk][1]>>
      OBVIOUS
    <3>2. fn.succs[blk] # << >> /\ DOMAIN edgeset2assignment' = DOMAIN edgeset2assignment \cup {edgeSet[e]}
      BY <1>3, <2>3, <3>1 DEF EndOfBlock, GetEdgeSetIndex
    <3>3. blk \in Block(fn) /\ IsCFG(fn)
      BY DEF ExecInv, Walk, EdgeTypeOK
    <3>4. 1 \in 1 .. Len(fn.succs[blk])
      BY <3>2, <3>3 DEF IsCFG, Block
    <3>5. e \in Edges
      BY <3>1, <3>3, <3>4, CurrentListEntries
    <3>6. edgeSet[e] \in Edges
      BY <3>5 DEF EdgeTypeOK
    <3> QED BY <2>1, <3>2, <3>6 DEF Edges
  <2> QED BY <2>2, <2>3
<1>4. CASE ~NextFunction /\ ~ComputeEdgeSets /\ ~EndOfBlock
  <2>1. fn' = fn
    BY <1>4, EdgesStay DEF edgeVars
  <2>2. edgeset2assignment' = edgeset2assignment
    BY <1>4 DEF Next, SkipEmptyBlock, BeginEntryBlock, BeginBlock, HandleUses, BadUse,
                CleanUpDeadRegisters, DefNothing, DefUnused, DefLocal, DefMemory
  <2> QED BY <2>1, <2>2 DEF Edges
<1> QED BY <1>1, <1>2, <1>3, <1>4

LEMMA PositionTyped ==
  ASSUME idx \in Nat \ {0}, Next
  PROVE  idx' \in Nat \ {0} /\ (phase' = "done" => UNCHANGED <<fn, regAssignments>>)
<1>1. CASE SkipEmptyBlock
  BY <1>1 DEF SkipEmptyBlock, NextBlock, edgeVars
<1>2. CASE EndOfBlock
  <2>1. UNCHANGED <<fn, regAssignments>>
    BY <1>2 DEF EndOfBlock, edgeVars
  <2>2. idx' = 1 \/ idx' = idx
    BY <1>2 DEF EndOfBlock, NextBlock
  <2> QED BY <2>1, <2>2
<1>3. CASE BeginEntryBlock \/ BeginBlock
  BY <1>3 DEF BeginEntryBlock, BeginBlock, EnterBlock
<1>4. CASE HandleUses \/ DefNothing \/ DefUnused \/ DefLocal \/ DefMemory
  BY <1>4 DEF HandleUses, DefNothing, DefUnused, DefLocal, DefMemory
<1>5. CASE BadUse
  BY <1>5 DEF BadUse, edgeVars
<1>6. CASE CleanUpDeadRegisters
  BY <1>6 DEF CleanUpDeadRegisters
<1>7. CASE NextFunction
  BY <1>7 DEF NextFunction
<1>8. CASE ComputeEdgeSets
  BY <1>8 DEF ComputeEdgeSets, allocVars, EdgeNext, MergePred, PredsMerged, MergeSucc, SuccsMerged
<1> QED BY <1>1, <1>2, <1>3, <1>4, <1>5, <1>6, <1>7, <1>8 DEF Next

LEMMA MapTyped ==
  ASSUME ExecInv', MapTypes, phase' = "done" => UNCHANGED <<fn, regAssignments>>
  PROVE  MapTypes'
<1>1. CASE phase' = "done"
  BY <1>1 DEF MapTypes
<1>2. CASE phase' # "done"
  <2>1. phase' \in {"begin", "uses", "def", "clean", "end"}
    BY <1>2 DEF ExecInv, Walk
  <2>2. \E p : Handled(fn', regAssignments', p)
    BY <2>1 DEF ExecInv, HandledSoFar
  <2> QED BY <2>2 DEF MapTypes, Handled, RegionOf
<1> QED BY <1>1, <1>2

(* The symbolic stack holds registers of the function only.                *)
Slots == { <<regAssignments[r].slot, r>> : r \in DOMAIN regAssignments }

LEMMA UsesTyped ==
  ASSUME ExecInv, MemInv, MapTypes, phase \in {"uses", "def", "clean"}, UseError = NoError,
         NEW us, us = UseTypes
  PROVE  \E n \in Nat : n = Len(us) /\ \A i \in 1 .. n : UseIn(us[i], Slots, VRegs(fn))
<1>1. IsFunction(fn) /\ blk \in Block(fn) /\ idx \in 1 .. Len(fn.code[blk])
  BY WalkFunction DEF ExecInv, Walk
<1>2. PICK n \in Nat : n = Len(Instr.uses) /\ DOMAIN Instr.uses = 1 .. n
  BY <1>1, InstrType
<1>3. Len(us) = n
  BY <1>2 DEF UseTypes
<1>4. ASSUME NEW i \in 1 .. n PROVE UseIn(us[i], Slots, VRegs(fn))
  <2>1. PICK r : r = Instr.uses[i]
    OBVIOUS
  <2>2. us[i].reg = r /\ us[i].slot = regAssignments[r].slot
    BY <1>2, <2>1 DEF UseTypes
  <2>3. r \in Elems(Instr.uses)
    BY <1>2, <2>1 DEF Elems
  <2>4. r \in DOMAIN regAssignments
    BY <2>3 DEF UseError, NoError
  <2>5. r \in VRegs(fn) /\ regAssignments[r].slot \in Nat
    BY <2>4 DEF MapTypes, MemInv, SlotTypes
  <2> QED BY <2>2, <2>4, <2>5 DEF UseIn, Slots
<1> QED BY <1>2, <1>3, <1>4

LEMMA HandleUsesTyped ==
  ASSUME ExecInv, MemInv, MapTypes, stack \in Seq(VRegs(fn)), HandleUses
  PROVE  stack' \in Seq(VRegs(fn))
<1>1. PICK us, g, S : us = UseTypes /\ g = Gen(stack) /\ S = VRegs(fn)
  OBVIOUS
<1>2. PICK c : c = ConsumeOperands(g, us) /\ stack' = c.stack
  BY <1>1 DEF HandleUses
<1>3. IsFunction(fn) /\ S \in SUBSET Nat
  <2>1. IsFunction(fn)
    BY WalkFunction DEF ExecInv
  <2> QED BY <1>1, <2>1, VRegType
<1>4. PICK n \in Nat : n = Len(us) /\ \A i \in 1 .. n : UseIn(us[i], Slots, S)
  BY <1>1, UsesTyped DEF HandleUses, Running
<1>5. GenTracks(g, stack, Slots, S)
  BY <1>1, GenTracksStart
<1>6. PICK p : GenTracks(p, stack, Slots, S) /\ Brought(c, p, us, n)
  BY <1>2, <1>3, <1>4, <1>5, ConsumeTracks
<1>7. p.stack \in Seq(S)
  BY <1>6 DEF GenTracks
<1>8. CASE c.error # NoError
  BY <1>1, <1>2, <1>6, <1>7, <1>8 DEF Brought
<1>9. CASE c.error = NoError
  <2>1. n \in 0 .. Len(p.stack) /\ c.stack = Below(p.stack, n)
    BY <1>6, <1>7, <1>9 DEF Brought
  <2> QED BY <1>1, <1>2, <1>7, <2>1, BelowIn
<1> QED BY <1>8, <1>9

LEMMA CleanUpTyped ==
  ASSUME ExecInv, MemInv, MapTypes, stack \in Seq(VRegs(fn)), CleanUpDeadRegisters
  PROVE  stack' \in Seq(VRegs(fn))
<1>1. PICK us, g, S : us = UseTypes /\ g = Gen(stack) /\ S = VRegs(fn)
  OBVIOUS
<1>2. S \in SUBSET Nat
  <2>1. IsFunction(fn)
    BY WalkFunction DEF ExecInv
  <2> QED BY <1>1, <2>1, VRegType
<1>3. GenTracks(g, stack, Slots, S)
  BY <1>1, GenTracksStart
<1>4. CASE Len(Instr.uses) > 2
  <2>1. UseError = NoError /\ phase = "clean" /\ stack' = CleanUp(g, us).stack
    BY <1>1, <1>4 DEF CleanUpDeadRegisters, Running
  <2>2. PICK n \in Nat : n = Len(us)
    BY <1>1, <2>1, UsesTyped
  <2>3. PICK c : c = CleanUp(g, us)
    OBVIOUS
  <2>4. GenTracks(c, stack, Slots, S)
    BY <1>2, <1>3, <2>2, <2>3, CleanUpTracks
  <2> QED BY <1>1, <2>1, <2>3, <2>4 DEF GenTracks
<1>5. CASE ~(Len(Instr.uses) > 2)
  <2>1. stack' = g.stack
    BY <1>1, <1>5 DEF CleanUpDeadRegisters
  <2> QED BY <1>1, <1>3, <2>1 DEF GenTracks
<1> QED BY <1>4, <1>5

LEMMA DefTyped ==
  ASSUME ExecInv, stack \in Seq(VRegs(fn)), DefUnused \/ DefLocal
  PROVE  stack' \in Seq(VRegs(fn))
<1>1. CASE DefLocal
  <2>1. /\ IsFunction(fn) /\ blk \in Block(fn) /\ idx \in 1 .. Len(fn.code[blk])
        /\ Handled(fn, regAssignments, <<blk, 2 * idx>>)
    BY <1>1, WalkFunction DEF ExecInv, Walk, HandledSoFar, DefLocal, Running
  <2>2. PICK d : d = Instr.def /\ d # NoReg /\ stack' = Append(stack, d)
    BY <1>1 DEF DefLocal, Push
  <2>3. d \in VRegs(fn)
    BY <2>1, <2>2, NewRegister DEF Instr
  <2> QED BY <2>2, <2>3, AppendProperties
<1>2. CASE DefUnused
  <2>1. PICK g, S : g = Gen(stack) /\ S = VRegs(fn)
    OBVIOUS
  <2>2. PICK c : c = InsertPopBefore(g) /\ stack' = c.stack
    BY <1>2, <2>1 DEF DefUnused
  <2>3. GenTracks(g, stack, Slots, S)
    BY <2>1, GenTracksStart
  <2>4. GenTracks(c, stack, Slots, S)
    BY <2>2, <2>3, InsertPopTracks
  <2> QED BY <2>1, <2>2, <2>4 DEF GenTracks
<1> QED BY <1>1, <1>2

LEMMA ArgumentsTyped ==
  ASSUME ExecInv, BeginEntryBlock
  PROVE  stack' \in Seq(VRegs(fn))
<1>1. IsFunction(fn) /\ IsMachineFunction(fn)
  BY WalkFunction DEF ExecInv, IsFunction
<1>2. DOMAIN regAssignments = {}
  <2>1. DOMAIN NoAssignments = {} /\ Handled(fn, NoAssignments, <<1, 0>>)
    BY <1>1, Untouched DEF NoAssignments
  <2>2. Handled(fn, regAssignments, <<1, 0>>)
    BY DEF ExecInv, HandledSoFar, BeginEntryBlock, Running
  <2> QED BY <2>1, <2>2 DEF Handled
<1>3. PICK g : g = StackArgs.g /\ stack' = g.stack
  BY DEF BeginEntryBlock
<1>4. Holds(g, ArgsOn(fn, Len(fn.args)))
  BY <1>1, <1>2, <1>3, ArgsRight DEF ArgsTaken
<1>5. HoldsExactly(g.stack, ArgsOn(fn, Len(fn.args)))
  BY <1>4, StackFromHolds
<1>6. g.stack \in Seq(Nat) /\ \A i \in 1 .. Len(g.stack) : g.stack[i] \in ArgsOn(fn, Len(fn.args))
  BY <1>5 DEF HoldsExactly, Distinct
<1>7. ArgsOn(fn, Len(fn.args)) \subseteq VRegs(fn)
  BY <1>1, ArgsType DEF ArgsOn, VRegs, Elems
<1>8. \A i \in 1 .. Len(g.stack) : g.stack[i] \in VRegs(fn)
  BY <1>6, <1>7
<1>9. g.stack \in Seq(VRegs(fn))
  BY <1>6, <1>8, SeqWiden
<1> QED BY <1>3, <1>9

LEMMA StackTyped ==
  ASSUME ExecInv, MemInv, MapTypes, stack \in Seq(VRegs(fn)), Next
  PROVE  stack' \in Seq(VRegs(fn'))
<1>1. CASE NextFunction
  BY <1>1 DEF NextFunction
<1>2. CASE ComputeEdgeSets
  <2>1. fn' = fn /\ stack' = stack
    BY <1>2 DEF ComputeEdgeSets, allocVars, EdgeNext, MergePred, PredsMerged, MergeSucc, SuccsMerged
  <2> QED BY <2>1
<1>3. CASE ~NextFunction /\ ~ComputeEdgeSets
  <2>1. fn' = fn
    BY <1>3, EdgesStay DEF edgeVars
  <2>2. stack' \in Seq(VRegs(fn))
    <3>1. CASE BeginEntryBlock BY <3>1, ArgumentsTyped
    <3>2. CASE HandleUses BY <3>2, HandleUsesTyped
    <3>3. CASE CleanUpDeadRegisters BY <3>3, CleanUpTyped
    <3>4. CASE DefUnused \/ DefLocal BY <3>4, DefTyped
    <3>5. CASE BeginBlock
      BY <3>5 DEF BeginBlock
    <3>6. CASE SkipEmptyBlock \/ BadUse \/ DefNothing \/ DefMemory \/ EndOfBlock
      <4>1. stack' = stack
        BY <3>6 DEF SkipEmptyBlock, BadUse, DefNothing, DefMemory, EndOfBlock
      <4> QED BY <4>1
    <3> QED BY <1>3, <3>1, <3>2, <3>3, <3>4, <3>5, <3>6 DEF Next
  <2> QED BY <2>1, <2>2
<1> QED BY <1>1, <1>2, <1>3

LEMMA TypeInvSame == ASSUME TypeInv, UNCHANGED vars PROVE TypeInv'
<1>1. UNCHANGED <<fn, edgeSet, mbb, side, iter, idx, stack, regAssignments, edgeset2assignment>>
  BY DEF vars, edgeVars, allocVars
<1>2. EdgeTypeOK'
  BY EdgeNextType DEF TypeInv, vars
<1> QED BY <1>1, <1>2 DEF TypeInv, MapTypes, Edges

LEMMA TypeInvNext ==
  ExecInv /\ ExecInv' /\ MemInv /\ TypeInv /\ [ExecNext]_allVars => TypeInv'
<1> SUFFICES ASSUME ExecInv, ExecInv', MemInv, TypeInv, [ExecNext]_allVars PROVE TypeInv'
  OBVIOUS
<1>1. CASE Compile
  <2>1. Next
    BY <1>1 DEF Compile
  <2>2. EdgeTypeOK' /\ DOMAIN edgeset2assignment' \subseteq Edges'
    BY <2>1, EdgesTyped, LayoutsTyped DEF TypeInv
  <2>3. idx' \in Nat \ {0} /\ (phase' = "done" => UNCHANGED <<fn, regAssignments>>)
    BY <2>1, PositionTyped DEF TypeInv
  <2>4. MapTypes'
    BY <2>3, MapTyped DEF TypeInv
  <2>5. stack' \in Seq(VRegs(fn'))
    BY <2>1, StackTyped DEF TypeInv
  <2> QED BY <2>2, <2>3, <2>4, <2>5 DEF TypeInv
<1>2. CASE UNCHANGED vars
  BY <1>2, TypeInvSame
<1>3. CASE Start
  BY <1>2, <1>3 DEF Start
<1>4. CASE ExecStep
  BY <1>2, <1>4 DEF ExecStep
<1>5. CASE Branch
  BY <1>2, <1>5 DEF Branch
<1>6. CASE UNCHANGED allVars
  BY <1>2, <1>6 DEF allVars
<1> QED BY <1>1, <1>3, <1>4, <1>5, <1>6 DEF ExecNext

(* The variables of the pass and of the machine have their types: also in  *)
(* functions with hazards the symbolic stack and regAssignments only know  *)
(* registers of the function, and layouts are stored for edge sets of the  *)
(* graph only.                                                             *)
THEOREM TypeCorrect == Allowed = {} => (ExecSpec => []TypeOK)
<1> SUFFICES ASSUME Allowed = {} PROVE ExecSpec => []TypeOK
  OBVIOUS
<1>1. ExecInit => TypeInv
  BY TypeInvInit
<1>2. ExecInv /\ ExecInv' /\ (MemInv /\ FrameInv) /\ TypeInv /\ [ExecNext]_allVars => TypeInv'
  BY TypeInvNext
<1>3. ExecInv /\ (MemInv /\ FrameInv) /\ MachineInv /\ TypeInv => TypeOK
  BY DEF ExecInv, Walk, MemInv, SlotTypes, MachineInv, Values, TypeInv, MapTypes, TypeOK
<1> QED BY <1>1, <1>2, <1>3, ExecInvariant, MemoryInvariant, MachineInvariant, PTL DEF ExecSpec
-----------------------------------------------------------------------------
(* The slots of the registers that live across blocks.                     *)

(* The loop of beginOfBlockUpdates leaves the slots of live registers      *)
(* alone.                                                                  *)
LEMMA FreeDeadKeeps ==
  ASSUME NEW S, NoReg \in S, NEW mem \in Seq(S), NEW dead
  PROVE  \A i \in DOMAIN mem : (mem[i] # NoReg /\ mem[i] \notin dead) =>
           i \in DOMAIN FreeDeadSlots(mem, dead) /\ FreeDeadSlots(mem, dead)[i] = mem[i]
<1> SUFFICES ASSUME NEW i \in DOMAIN mem, mem[i] # NoReg, mem[i] \notin dead
             PROVE  i \in DOMAIN FreeDeadSlots(mem, dead) /\ FreeDeadSlots(mem, dead)[i] = mem[i]
  OBVIOUS
<1>1. PICK n \in Nat : n = Len(mem)
  OBVIOUS
<1>2. PICK h : SweepTrace(h, mem, dead, n) /\ FreeDeadSlots(mem, dead) = h[n]
  BY <1>1, FreeDeadTrace
<1>3. h[0] = mem /\ \A k \in 1 .. n : h[k] = SweepStep(h[k - 1], k, dead)
  <2>1. \A k \in 0 .. n : h[k] = IF k = 0 THEN mem ELSE SweepStep(h[k - 1], k, dead)
    BY <1>2, Zenon DEF SweepTrace
  <2>2. 0 \in 0 .. n /\ \A k \in 1 .. n : k \in 0 .. n /\ k # 0
    OBVIOUS
  <2> QED BY <2>1, <2>2
<1> DEFINE T == { k \in 0 .. n : h[k] \in Seq(S) /\ i \in DOMAIN h[k] /\ h[k][i] = mem[i] }
<1>4. T \in SUBSET Nat /\ 0 \in T
  BY <1>3
<1>5. ASSUME NEW k \in 1 .. n, k - 1 \in T PROVE k \in T
  <2>1. PICK m : m = h[k - 1]
    OBVIOUS
  <2>2. m \in Seq(S) /\ i \in DOMAIN m /\ m[i] = mem[i] /\ k \in 0 .. n
    BY <1>5, <2>1
  <2>3. CASE k \in DOMAIN m /\ m[k] \in dead
    <3>1. PICK r : r = m[k]
      OBVIOUS
    <3>2. PICK new : new = DeallocateMemorySlot(m, r)
      OBVIOUS
    <3>3. m[i] # r /\ m[i] # NoReg
      BY <2>2, <2>3, <3>1
    <3>4. new \in Seq(S) /\ i \in DOMAIN new /\ new[i] = m[i]
      BY <2>2, <2>3, <3>1, <3>2, <3>3, DeallocateProperties
    <3>5. h[k] = new
      BY <1>3, <2>1, <2>3, <3>1, <3>2 DEF SweepStep
    <3> QED BY <2>2, <3>4, <3>5
  <2>4. CASE ~(k \in DOMAIN m /\ m[k] \in dead)
    <3>1. h[k] = m
      BY <1>3, <2>1, <2>4 DEF SweepStep
    <3> QED BY <2>2, <3>1
  <2> QED BY <2>3, <2>4
<1> HIDE DEF T
<1>6. \A k \in 0 .. n : k \in T
  BY <1>4, <1>5, SetInduction
<1>7. n \in T
  BY <1>6
<1> QED BY <1>2, <1>7 DEF T

(* From the start of a block, only blocks onward are reached: a register   *)
(* live there has a use onward.                                            *)
LEMMA LiveOnward ==
  ASSUME NEW f, IsFunction(f), InExecutionOrder(f), NEW reg, NEW b \in Block(f),
         b \in LiveInBlocks(f, reg)
  PROVE  \E u \in UseSites(f, reg) : u[1] \in Onward(f, b)
<1>1. PICK n \in Nat : n = f.n
  BY DEF IsFunction, IsCFG
<1>2. PICK h : LiveTrace(h, f, reg, n) /\ LiveInBlocks(f, reg) = h[n]
  BY <1>1, LiveBlocksTrace
<1>3. h[0] = { c \in Block(f) : Exposed(f, reg, c) }
      /\ \A k \in 1 .. n : h[k] = LiveStep(f, reg, h[k - 1])
  <2>1. \A k \in 0 .. n : h[k] = IF k = 0 THEN { c \in Block(f) : Exposed(f, reg, c) }
                                 ELSE LiveStep(f, reg, h[k - 1])
    BY <1>2, Zenon DEF LiveTrace
  <2>2. 0 \in 0 .. n /\ \A k \in 1 .. n : k \in 0 .. n /\ k # 0
    OBVIOUS
  <2> QED BY <2>1, <2>2
<1>4. \A c \in Onward(f, b) : Elems(f.succs[c]) \subseteq Onward(f, b)
  BY DEF InExecutionOrder
<1> DEFINE Ahead == \E u \in UseSites(f, reg) : u[1] \in Onward(f, b)
           T == { k \in 0 .. n : h[k] \cap Onward(f, b) # {} => Ahead }
<1>5. T \in SUBSET Nat /\ 0 \in T
  BY <1>3 DEF Exposed
<1>6. ASSUME NEW k \in 1 .. n, k - 1 \in T PROVE k \in T
  <2>1. k \in 0 .. n /\ (h[k - 1] \cap Onward(f, b) # {} => Ahead)
    BY <1>6
  <2>2. ASSUME NEW c \in h[k], c \in Onward(f, b) PROVE h[k - 1] \cap Onward(f, b) # {}
    <3>1. c \in h[k - 1] \/ Elems(f.succs[c]) \cap h[k - 1] # {}
      BY <1>3 DEF LiveStep
    <3> QED BY <1>4, <2>2, <3>1
  <2> HIDE DEF Ahead
  <2> QED BY <2>1, <2>2
<1> HIDE DEF T
<1>7. \A k \in 0 .. n : k \in T
  BY <1>5, <1>6, SetInduction
<1>8. n \in T
  BY <1>7
<1>9. b \in Onward(f, b)
  BY DEF Onward
<1> QED BY <1>2, <1>8, <1>9 DEF T

(* A register live at the start of a block was defined in a block before   *)
(* it.                                                                     *)
DefinedBefore(f, r, b) == \E d \in DefSites(f, r) : d[1] < b

LEMMA LiveDefinedBefore ==
  ASSUME NEW f, IsFunction(f), IsSSA(f), InExecutionOrder(f), NEW r \in VRegs(f)
  PROVE  \A b \in Block(f) : b \in LiveInBlocks(f, r) => DefinedBefore(f, r, b)
<1>1. PICK n \in Nat : n = f.n /\ Block(f) = 1 .. n
  BY DEF IsFunction, IsCFG, Block
<1> DEFINE T == { k \in 0 .. n : \A b \in 1 .. k : b \in LiveInBlocks(f, r) => DefinedBefore(f, r, b) }
<1>2. T \in SUBSET Nat /\ 0 \in T
  OBVIOUS
<1>3. ASSUME NEW k \in 1 .. n, k - 1 \in T PROVE k \in T
  <2>1. \A b \in 1 .. k - 1 : b \in LiveInBlocks(f, r) => DefinedBefore(f, r, b)
    BY <1>3
  <2>2. ASSUME k \in LiveInBlocks(f, r) PROVE DefinedBefore(f, r, k)
    <3>1. k # 1 /\ k \in Block(f)
      BY <1>1, <2>2 DEF IsSSA
    <3>2. PICK p \in Elems(f.preds[k]) : p < k
      BY <3>1 DEF InExecutionOrder
    <3>3. p \in Block(f) /\ k \in Elems(f.succs[p])
      <4>1. f.preds[k] \in Seq(Block(f))
        BY <3>1 DEF IsFunction, IsCFG, Block
      <4>2. p \in Block(f)
        BY <4>1 DEF Elems
      <4> QED BY <3>1, <4>2 DEF IsFunction, IsCFG, Block
    <3>4. CASE \E d \in DefSites(f, r) : d[1] = p
      BY <3>2, <3>4 DEF DefinedBefore
    <3>5. CASE \A d \in DefSites(f, r) : d[1] # p
      <4>1. p \in LiveInBlocks(f, r)
        BY <2>2, <3>3, <3>5, LiveBefore
      <4>2. p \in 1 .. k - 1
        BY <1>1, <3>2, <3>3
      <4>3. PICK d \in DefSites(f, r) : d[1] < p
        BY <2>1, <4>1, <4>2 DEF DefinedBefore
      <4>4. PICK c, j : DefShape(f, d, c, j)
        BY DefShapes
      <4>5. d[1] \in Nat
        BY <4>4 DEF DefShape
      <4>6. d[1] < k
        BY <3>2, <4>2, <4>3, <4>5
      <4> QED BY <4>6 DEF DefinedBefore
    <3> QED BY <3>4, <3>5
  <2> QED BY <2>1, <2>2
<1> HIDE DEF T
<1>4. \A k \in 0 .. n : k \in T
  BY <1>2, <1>3, SetInduction
<1>5. n \in T
  BY <1>4
<1> QED BY <1>1, <1>5 DEF T

LEMMA AllLiveArrived ==
  ASSUME NEW f, IsFunction(f), IsSSA(f), InExecutionOrder(f), NEW map, NEW a \in Block(f),
         NEW b \in Block(f), NEW q, Handled(f, map, <<b, q>>), a <= b
  PROVE  LiveArrived(f, map, a)
<1> SUFFICES ASSUME NEW r \in VRegs(f), a \in LiveInBlocks(f, r) PROVE r \in DOMAIN map
  BY DEF LiveArrived
<1>1. PICK d \in DefSites(f, r) : d[1] < a
  BY LiveDefinedBefore DEF DefinedBefore
<1>2. PICK c, j : DefShape(f, d, c, j)
  BY DefShapes
<1>3. d[1] \in Nat /\ a \in Nat /\ b \in Nat
  BY <1>2 DEF DefShape, Block, IsFunction, IsCFG
<1>4. d[1] < b
  BY <1>1, <1>3
<1>5. Before(d, <<b, q>>)
  BY <1>4 DEF Before
<1> QED BY <1>5 DEF Handled

(* The edge sets while the blocks are compiled.                            *)
EdgeInv ==
  /\ EdgeTypeOK /\ Progress /\ OnlyConnectedTogether
  /\ side # "computed" => blk = 1 /\ phase = "begin"

LEMMA EdgeInvInit == ExecInit => EdgeInv
<1> SUFFICES ASSUME ExecInit PROVE EdgeInv
  OBVIOUS
<1>1. EdgeInit /\ blk = 1 /\ phase = "begin"
  BY DEF ExecInit, Init
<1>2. OnlyConnectedTogether
  BY <1>1 DEF EdgeInit, StartEdgeSets, OnlyConnectedTogether, Edges
<1> QED BY <1>1, <1>2, EdgeInitType, ProgressInit DEF EdgeInv

LEMMA EdgeInvNextFunction == ASSUME EdgeInv, NextFunction PROVE EdgeInv'
<1>1. /\ fn' \in FollowUps /\ edgeSet' = [e \in CollectEdges(fn') |-> e]
      /\ mbb' = 1 /\ side' = "preds" /\ iter' = 2 /\ blk' = 1 /\ phase' = "begin"
  BY DEF NextFunction
<1>2. EdgeTypeOK'
  BY EdgesTyped DEF Next, EdgeInv
<1>3. IsCFG(fn')
  BY <1>1, MachineFunctions
<1>4. \A b \in Block(fn') : b \in Nat /\ ~(b < 1)
  BY <1>3 DEF Block, IsCFG
<1>5. InTogether(fn', edgeSet', 1, 1)
  <2> SUFFICES ASSUME NEW i \in 1 .. Len(fn'.preds[1]), i <= 1
               PROVE  edgeSet'[<<fn'.preds[1][i], 1>>] = edgeSet'[<<fn'.preds[1][1], 1>>]
    BY DEF InTogether
  <2>1. i = 1
    OBVIOUS
  <2> QED BY <2>1
<1>6. Progress'
  BY <1>1, <1>4, <1>5 DEF Progress
<1>7. OnlyConnectedTogether'
  BY <1>1 DEF OnlyConnectedTogether, Edges
<1> QED BY <1>1, <1>2, <1>6, <1>7 DEF EdgeInv

LEMMA EdgeInvCompile == ASSUME EdgeInv, Next PROVE EdgeInv'
<1>1. CASE NextFunction
  BY <1>1, EdgeInvNextFunction
<1>2. CASE ComputeEdgeSets
  <2>1. EdgeNext /\ blk' = blk /\ phase' = phase
    BY <1>2 DEF ComputeEdgeSets, allocVars
  <2>2. side # "computed"
    BY <2>1 DEF EdgeNext, MergePred, PredsMerged, MergeSucc, SuccsMerged
  <2>3. blk' = 1 /\ phase' = "begin"
    BY <2>1, <2>2 DEF EdgeInv
  <2>4. EdgeTypeOK' /\ Progress' /\ OnlyConnectedTogether'
    BY <2>1, EdgeNextType, ProgressNext, ConnectedNext DEF EdgeInv
  <2> QED BY <2>3, <2>4 DEF EdgeInv
<1>3. CASE ~NextFunction /\ ~ComputeEdgeSets
  <2>1. UNCHANGED edgeVars
    BY <1>3, EdgesStay
  <2>2. EdgeTypeOK' /\ Progress' /\ OnlyConnectedTogether'
    BY <2>1, EdgeNextType, ProgressNext, ConnectedNext DEF EdgeInv
  <2>3. side = "computed"
    BY <1>3 DEF Next, SkipEmptyBlock, BeginEntryBlock, BeginBlock, HandleUses, BadUse, DefNothing,
                DefUnused, DefLocal, DefMemory, CleanUpDeadRegisters, EndOfBlock, Running
  <2>4. side' = "computed"
    BY <2>1, <2>3 DEF edgeVars
  <2> QED BY <2>2, <2>4 DEF EdgeInv
<1> QED BY <1>1, <1>2, <1>3

LEMMA EdgeInvNext == EdgeInv /\ [ExecNext]_allVars => EdgeInv'
<1> SUFFICES ASSUME EdgeInv, [ExecNext]_allVars PROVE EdgeInv'
  OBVIOUS
<1>1. CASE Compile
  BY <1>1, EdgeInvCompile DEF Compile
<1>2. CASE UNCHANGED vars
  <2>1. UNCHANGED edgeVars /\ blk' = blk /\ phase' = phase /\ side' = side
    BY <1>2 DEF vars, allocVars, edgeVars
  <2>2. EdgeTypeOK' /\ Progress' /\ OnlyConnectedTogether'
    BY <2>1, EdgeNextType, ProgressNext, ConnectedNext DEF EdgeInv
  <2> QED BY <2>1, <2>2 DEF EdgeInv
<1>3. CASE Start
  BY <1>2, <1>3 DEF Start
<1>4. CASE ExecStep
  BY <1>2, <1>4 DEF ExecStep
<1>5. CASE Branch
  BY <1>2, <1>5 DEF Branch
<1>6. CASE UNCHANGED allVars
  BY <1>2, <1>6 DEF allVars
<1> QED BY <1>1, <1>3, <1>4, <1>5, <1>6 DEF ExecNext

-----------------------------------------------------------------------------
(* The edge set that block p stores its layout for; the last block so far  *)
(* to store one for that set.                                              *)
OutSet(p) == edgeSet[<<p, fn.succs[p][1]>>]

Latest(p) ==
  /\ fn.succs[p] # << >>
  /\ \A c \in Block(fn) : (p < c /\ c < blk /\ fn.succs[c] # << >>) => OutSet(c) # OutSet(p)

(* Every register block p leaves in memory has its slot in the layout that *)
(* was stored.                                                             *)
Remembered(p) ==
  /\ OutSet(p) \in DOMAIN edgeset2assignment
  /\ Owned(edgeset2assignment[OutSet(p)], regAssignments,
           Kept(fn, regAssignments, p, 2 * Len(fn.code[p]) + 1))

SlotsStored ==
  phase # "done" => \A p \in Block(fn) : p < blk /\ Latest(p) => Remembered(p)

SlotsHere ==
  /\ phase \in {"uses", "def"} => Owned(memoryAssignment, regAssignments, KeptHere(2 * idx))
  /\ phase \in {"clean", "end"} => Owned(memoryAssignment, regAssignments, KeptHere(2 * idx + 1))

SlotInv == SlotsKept /\ SlotsStored /\ SlotsHere

AllInOrder == \A f \in Functions \cup FollowUps : IsSSA(f) /\ InExecutionOrder(f)

LEMMA OwnedLess ==
  ASSUME NEW mem, NEW map, NEW V, NEW W, Owned(mem, map, V), W \subseteq V
  PROVE  Owned(mem, map, W)
  BY DEF Owned

LEMMA OwnedGrow ==
  ASSUME NEW mem, NEW map, NEW new, NEW V, Owned(mem, map, V), Extends(map, new)
  PROVE  Owned(mem, new, V)
  BY DEF Owned, Extends

LEMMA OwnedMemory ==
  ASSUME NEW mem, NEW new, NEW map, NEW V, Owned(mem, map, V), KeepsSlots(mem, new)
  PROVE  Owned(new, map, V)
<1> SUFFICES ASSUME NEW r \in V PROVE map[r].slot + 1 \in DOMAIN new /\ new[map[r].slot + 1] = r
  BY DEF Owned
<1>1. r # NoReg /\ map[r].slot + 1 \in DOMAIN mem /\ mem[map[r].slot + 1] = r
  BY DEF Owned
<1> QED BY <1>1 DEF KeepsSlots

(* Steps inside a block that assign nothing.                               *)
LEMMA StoredSame ==
  ASSUME SlotsStored, phase # "done",
         UNCHANGED <<fn, edgeSet, blk, regAssignments, edgeset2assignment>>
  PROVE  SlotsStored'
<1>1. ASSUME NEW p \in Block(fn) PROVE /\ Latest(p)' <=> Latest(p)
                                       /\ Remembered(p)' <=> Remembered(p)
  BY DEF Latest, Remembered, OutSet
<1>2. \A p \in Block(fn) : p < blk /\ Latest(p) => Remembered(p)
  BY DEF SlotsStored
<1> SUFFICES ASSUME NEW p \in Block(fn), p < blk, Latest(p)' PROVE Remembered(p)'
  BY DEF SlotsStored
<1> QED BY <1>1, <1>2

LEMMA StillSlots ==
  ASSUME ExecInv, SlotInv, HandleUses \/ BadUse \/ DefNothing \/ CleanUpDeadRegisters
  PROVE  SlotInv'
<1>1. /\ UNCHANGED <<fn, edgeSet, blk, regAssignments, memoryAssignment, edgeset2assignment>>
      /\ phase \in {"uses", "def", "clean"}
  BY DEF HandleUses, BadUse, DefNothing, CleanUpDeadRegisters, edgeVars, Running
<1>2. IsFunction(fn) /\ blk \in Block(fn) /\ idx \in 1 .. Len(fn.code[blk]) /\ idx \in Nat
  BY <1>1, WalkFunction, CodeType DEF ExecInv, Walk, IsFunction
<1>3. SlotsStored'
  BY <1>1, StoredSame DEF SlotInv
<1>4. SlotsKept'
  <2>1. hazards' \subseteq hazards \cup {"twoInPlace", "repeatedDying", "dyingInMemory",
                                         "beforeDefOps", "reversed"}
    <3>1. CASE BadUse \/ DefNothing
      BY <3>1 DEF BadUse, DefNothing
    <3>2. CASE HandleUses
      <4>1. hazards' = hazards \cup OperandHazards(UseTypes)
        BY <3>2 DEF HandleUses
      <4>2. OperandHazards(UseTypes) \subseteq {"twoInPlace", "repeatedDying", "dyingInMemory"}
        BY Zenon DEF OperandHazards
      <4> QED BY <4>1, <4>2
    <3>3. CASE CleanUpDeadRegisters
      <4>1. PICK code : hazards' = hazards \cup CleanUpHazards(code)
        BY <3>3 DEF CleanUpDeadRegisters
      <4>2. CleanUpHazards(code) \subseteq {"beforeDefOps", "reversed"}
        BY DEF CleanUpHazards
      <4> QED BY <4>1, <4>2
    <3> QED BY <3>1, <3>2, <3>3
  <2> QED BY <2>1 DEF SlotInv, SlotsKept
<1>5. CASE HandleUses
  <2>1. phase = "uses" /\ phase' = "def" /\ idx' = idx
    BY <1>5 DEF HandleUses, Running
  <2>2. SlotsHere'
    BY <1>1, <2>1 DEF SlotInv, SlotsHere, KeptHere
  <2> QED BY <1>3, <1>4, <2>2 DEF SlotInv
<1>6. CASE BadUse
  <2>1. phase' = phase /\ idx' = idx
    BY <1>6 DEF BadUse
  <2>2. SlotsHere'
    BY <1>1, <2>1 DEF SlotInv, SlotsHere, KeptHere
  <2> QED BY <1>3, <1>4, <2>2 DEF SlotInv
<1>7. CASE DefNothing
  <2>1. phase = "def" /\ phase' = "clean" /\ idx' = idx /\ fn.code[blk][idx].def = NoReg
    BY <1>7 DEF DefNothing, Running, Instr
  <2>2. Added(KeptHere(2 * idx + 1), KeptHere(2 * idx), NoReg)
    BY <1>2, <2>1, KeptAfter DEF KeptHere
  <2>3. NoReg \notin KeptHere(2 * idx + 1)
    <3>1. DOMAIN regAssignments \subseteq VRegs(fn)
      BY <2>1 DEF ExecInv, HandledSoFar, Handled
    <3> QED BY <3>1 DEF KeptHere, Kept, Needed, DefinedIn, VRegs
  <2>4. KeptHere(2 * idx + 1) \subseteq KeptHere(2 * idx)
    BY <2>2, <2>3 DEF Added
  <2>5. Owned(memoryAssignment, regAssignments, KeptHere(2 * idx + 1))
    BY <2>1, <2>4, OwnedLess DEF SlotInv, SlotsHere
  <2>6. SlotsHere'
    BY <1>1, <2>1, <2>5 DEF SlotsHere, KeptHere
  <2> QED BY <1>3, <1>4, <2>6 DEF SlotInv
<1>8. CASE CleanUpDeadRegisters
  <2>1. phase = "clean" /\ ((phase' = "uses" /\ idx' = idx + 1) \/ (phase' = "end" /\ idx' = idx))
    <3>1. /\ phase = "clean"
          /\ IF idx < Len(fn.code[blk]) THEN idx' = idx + 1 /\ phase' = "uses"
             ELSE idx' = idx /\ phase' = "end"
      BY <1>8 DEF CleanUpDeadRegisters, Running
    <3> QED BY <3>1
  <2>2. Owned(memoryAssignment, regAssignments, KeptHere(2 * idx + 1))
    BY <2>1 DEF SlotInv, SlotsHere
  <2>3. KeptHere(2 * (idx + 1)) \subseteq KeptHere(2 * idx + 1)
    BY <1>2, KeptAfter DEF KeptHere
  <2>4. Owned(memoryAssignment, regAssignments, KeptHere(2 * (idx + 1)))
    BY <2>2, <2>3, OwnedLess
  <2>5. SlotsHere'
    BY <1>1, <2>1, <2>2, <2>4 DEF SlotsHere, KeptHere
  <2> QED BY <1>3, <1>4, <2>5 DEF SlotInv
<1> QED BY <1>5, <1>6, <1>7, <1>8

LEMMA FunctionInOrder ==
  ASSUME AllInOrder, Walk
  PROVE  IsFunction(fn) /\ IsSSA(fn) /\ InExecutionOrder(fn)
  BY WalkFunction DEF AllInOrder, Walk

(* handleDef: the register is new, so that it gets the slot the call of    *)
(* allocateMemorySlot returned.                                            *)
PutAt(region, slot, mem) ==
  /\ regAssignments' = Assign(regAssignments, Instr.def, region, slot)
  /\ memoryAssignment' = mem
  /\ KeepsSlots(memoryAssignment, mem)
  /\ region = "NONSTACK" => slot \in Nat /\ slot + 1 \in DOMAIN mem /\ mem[slot + 1] = Instr.def

LEMMA DefSlots ==
  ASSUME AllInOrder, ExecInv, SlotInv, phase = "def", phase' = "clean", Instr.def # NoReg,
         UNCHANGED <<fn, edgeSet, blk, idx, edgeset2assignment>>,
         NEW region, NEW slot, NEW mem, PutAt(region, slot, mem)
  PROVE  SlotsStored' /\ SlotsHere'
<1>1. /\ IsFunction(fn) /\ IsSSA(fn) /\ InExecutionOrder(fn) /\ blk \in Block(fn) /\ blk \in Nat
      /\ idx \in 1 .. Len(fn.code[blk]) /\ Handled(fn, regAssignments, <<blk, 2 * idx>>)
  BY FunctionInOrder, WalkFunction DEF ExecInv, Walk, HandledSoFar
<1>2. PICK r : r = Instr.def /\ r = fn.code[blk][idx].def /\ r # NoReg
  BY DEF Instr
<1>3. PICK new : new = Assign(regAssignments, r, region, slot) /\ regAssignments' = new
  BY <1>2 DEF PutAt
<1>4. r \in VRegs(fn) /\ r \in Nat /\ r \notin DOMAIN regAssignments
  <2>0. LET x == fn.code[blk][idx].def
        IN  /\ x \in VRegs(fn) /\ x \in Nat \ {NoReg} /\ <<blk, 2 * idx>> \in DefSites(fn, x)
            /\ \A d : DefSites(fn, x) = {d} => d = <<blk, 2 * idx>> /\ x \notin DOMAIN regAssignments
    BY <1>1, <1>2, NewRegister
  <2>1. /\ r \in VRegs(fn) /\ r \in Nat /\ <<blk, 2 * idx>> \in DefSites(fn, r)
        /\ \A d : DefSites(fn, r) = {d} => r \notin DOMAIN regAssignments
    BY <1>2, <2>0
  <2>2. DefSites(fn, r) = {<<blk, 2 * idx>>}
    BY <1>1, <2>1 DEF IsSSA
  <2> QED BY <2>1, <2>2
<1>5. /\ Extends(regAssignments, new) /\ NewAfter(fn, regAssignments, new, blk, 2 * idx)
      /\ \A a \in Block(fn) : \A q : a < blk => NewAfter(fn, regAssignments, new, a, q)
  BY <1>1, <1>2, <1>3, AssignExtends, AssignAfter
<1>6. \A a \in Block(fn) : a <= blk => LiveArrived(fn, regAssignments, a)
  BY <1>1, AllLiveArrived
<1>7. DOMAIN new = DOMAIN regAssignments \cup {r} /\ new[r] = [region |-> region, slot |-> slot]
  BY <1>3, <1>4 DEF Assign
<1>8. SlotsHere'
  <2>1. Kept(fn, new, blk, 2 * idx) = Kept(fn, regAssignments, blk, 2 * idx)
    BY <1>1, <1>5, <1>6, KeptGrow
  <2>2. Owned(mem, new, Kept(fn, new, blk, 2 * idx))
    <3>1. Owned(memoryAssignment, regAssignments, Kept(fn, regAssignments, blk, 2 * idx))
      BY DEF SlotInv, SlotsHere, KeptHere
    <3>2. Owned(mem, regAssignments, Kept(fn, regAssignments, blk, 2 * idx))
      BY <3>1, OwnedMemory DEF PutAt
    <3> QED BY <1>5, <2>1, <3>2, OwnedGrow
  <2>3. Added(Kept(fn, new, blk, 2 * idx + 1), Kept(fn, new, blk, 2 * idx), r)
    BY <1>1, <1>2, KeptAfter
  <2>4. r \in Kept(fn, new, blk, 2 * idx + 1) => region = "NONSTACK"
    BY <1>7 DEF Kept, Needed, DefinedIn
  <2>5. region = "NONSTACK" => Owned(mem, new, {r})
    BY <1>2, <1>7 DEF Owned, PutAt
  <2>6. Owned(mem, new, Kept(fn, new, blk, 2 * idx + 1))
    BY <2>2, <2>3, <2>4, <2>5 DEF Owned, Added
  <2>7. memoryAssignment' = mem
    BY DEF PutAt
  <2> QED BY <1>3, <2>6, <2>7 DEF SlotsHere, KeptHere
<1>9. SlotsStored'
  <2> SUFFICES ASSUME NEW p \in Block(fn), p < blk, Latest(p)' PROVE Remembered(p)'
    BY DEF SlotsStored
  <2>1. Latest(p) /\ OutSet(p)' = OutSet(p)
    BY DEF Latest, OutSet
  <2>2. Remembered(p)
    BY <2>1 DEF SlotInv, SlotsStored
  <2>3. p \in Nat /\ p <= blk
    BY <1>1 DEF Block, IsFunction, IsCFG
  <2>4. PICK q : q = 2 * Len(fn.code[p]) + 1
    OBVIOUS
  <2>5. Kept(fn, new, p, q) = Kept(fn, regAssignments, p, q)
    BY <1>5, <1>6, <2>3, KeptGrow
  <2>6. OutSet(p) \in DOMAIN edgeset2assignment
        /\ Owned(edgeset2assignment[OutSet(p)], regAssignments, Kept(fn, regAssignments, p, q))
    BY <2>2, <2>4 DEF Remembered
  <2>7. Owned(edgeset2assignment[OutSet(p)], new, Kept(fn, new, p, q))
    BY <1>5, <2>5, <2>6, OwnedGrow
  <2> QED BY <1>3, <2>1, <2>4, <2>6, <2>7 DEF Remembered
<1> QED BY <1>8, <1>9

LEMMA DefPlacedSlots == ASSUME AllInOrder, ExecInv, SlotInv, DefUnused \/ DefLocal PROVE SlotInv'
<1>1. /\ Instr.def # NoReg /\ phase = "def" /\ phase' = "clean"
      /\ UNCHANGED <<fn, edgeSet, blk, idx, edgeset2assignment>>
      /\ memoryAssignment' = memoryAssignment
      /\ hazards' \subseteq hazards \cup {"unusedDef"}
      /\ \E region : region # "NONSTACK"
                     /\ regAssignments' = Assign(regAssignments, Instr.def, region, 0)
  BY DEF DefUnused, DefLocal, edgeVars, Running
<1>2. PICK region : PutAt(region, 0, memoryAssignment)
  BY <1>1 DEF PutAt, KeepsSlots
<1>3. SlotsStored' /\ SlotsHere'
  BY <1>1, <1>2, DefSlots
<1>4. SlotsKept'
  BY <1>1 DEF SlotInv, SlotsKept
<1> QED BY <1>3, <1>4 DEF SlotInv

LEMMA DefMemorySlots == ASSUME AllInOrder, ExecInv, MemInv, SlotInv, DefMemory PROVE SlotInv'
<1>1. PICK slot, mem, frame :
        /\ slot = AllocatedSlot(memoryAssignment)
        /\ mem = AllocatedMem(memoryAssignment, Instr.def)
        /\ frame = AllocatedFrame(memoryAssignment, memoryFrameSize)
  OBVIOUS
<1>2. /\ Instr.def # NoReg /\ phase = "def" /\ phase' = "clean"
      /\ UNCHANGED <<fn, edgeSet, blk, idx, edgeset2assignment>>
      /\ memoryAssignment' = mem
      /\ regAssignments' = Assign(regAssignments, Instr.def, "NONSTACK", slot)
      /\ hazards' \subseteq hazards \cup {"redefined"}
  BY <1>1 DEF DefMemory, edgeVars, Running
<1>3. Instr.def \in Nat
  BY <1>2, WalkFunction, InstrType DEF ExecInv, Walk
<1>4. memoryAssignment \in Seq(Nat) /\ memoryFrameSize \in Nat /\ NoReg \in Nat
  BY DEF MemInv, SlotTypes, NoReg
<1>5. GivesSlot(memoryAssignment, Instr.def, memoryFrameSize, mem, slot, frame, Nat)
  BY <1>1, <1>3, <1>4, AllocateProperties
<1>6. PutAt("NONSTACK", slot, mem)
  BY <1>2, <1>5 DEF GivesSlot, PutAt
<1>7. SlotsStored' /\ SlotsHere'
  BY <1>2, <1>6, DefSlots
<1>8. SlotsKept'
  BY <1>2 DEF SlotInv, SlotsKept
<1> QED BY <1>7, <1>8 DEF SlotInv

(* endOfBlockUpdates.                                                      *)
LEMMA EndOfBlockSlots == ASSUME ExecInv, SlotInv, EndOfBlock PROVE SlotInv'
<1>1. /\ phase = "end" /\ UNCHANGED <<fn, edgeSet, regAssignments, memoryAssignment, hazards>>
  BY DEF EndOfBlock, edgeVars, Running
<1>2. /\ IsFunction(fn) /\ blk \in Block(fn) /\ blk \in Nat /\ idx = Len(fn.code[blk])
      /\ \A p \in Block(fn) : p \in Nat
  BY <1>1, WalkFunction DEF ExecInv, Walk, Block
<1>3. SlotsKept'
  BY <1>1 DEF SlotInv, SlotsKept
<1>4. CASE stack # << >>
  <2>1. UNCHANGED <<blk, idx, phase, edgeset2assignment>>
    BY <1>4 DEF EndOfBlock
  <2>2. SlotsStored'
    BY <1>1, <2>1, StoredSame DEF SlotInv
  <2>3. SlotsHere'
    BY <1>1, <2>1 DEF SlotInv, SlotsHere, KeptHere
  <2> QED BY <1>3, <2>2, <2>3 DEF SlotInv
<1>5. CASE stack = << >>
  <2>1. NextBlock /\ phase' \in {"begin", "done"}
    BY <1>5 DEF EndOfBlock, NextBlock
  <2>2. SlotsHere'
    BY <2>1 DEF SlotsHere
  <2>3. SlotsStored'
    <3> SUFFICES ASSUME phase' # "done", NEW p \in Block(fn), p < blk', Latest(p)'
                 PROVE  Remembered(p)'
      BY <1>1 DEF SlotsStored
    <3>1. blk' = blk + 1
      BY <2>1 DEF NextBlock
    <3>2. OutSet(p)' = OutSet(p) /\ fn.succs[p] # << >>
          /\ \A c \in Block(fn) : (p < c /\ c < blk + 1 /\ fn.succs[c] # << >>) => OutSet(c) # OutSet(p)
      BY <1>1, <3>1 DEF Latest, OutSet
    <3>3. CASE p = blk
      <4>0. fn.succs[blk] # << >>
        BY <3>2, <3>3
      <4>1. edgeset2assignment' = [e \in DOMAIN edgeset2assignment \cup {OutSet(blk)} |->
                                     IF e = OutSet(blk) THEN memoryAssignment
                                     ELSE edgeset2assignment[e]]
        BY <1>5, <4>0, Zenon DEF EndOfBlock, OutSet, GetEdgeSetIndex
      <4>2. OutSet(p) \in DOMAIN edgeset2assignment' /\ edgeset2assignment'[OutSet(p)] = memoryAssignment
        BY <3>3, <4>1
      <4>3. Owned(memoryAssignment, regAssignments, Kept(fn, regAssignments, p, 2 * Len(fn.code[p]) + 1))
        BY <1>1, <1>2, <3>3 DEF SlotInv, SlotsHere, KeptHere
      <4> QED BY <1>1, <3>2, <4>2, <4>3 DEF Remembered
    <3>4. CASE p # blk
      <4>1. p < blk
        BY <1>2, <3>1, <3>4
      <4>2. Latest(p)
        <5>1. \A c \in Block(fn) : c < blk => c < blk + 1
          BY <1>2
        <5> QED BY <3>2, <5>1, Zenon DEF Latest
      <4>3. Remembered(p)
        BY <1>1, <4>1, <4>2 DEF SlotInv, SlotsStored
      <4>4. OutSet(p) \in DOMAIN edgeset2assignment'
            /\ edgeset2assignment'[OutSet(p)] = edgeset2assignment[OutSet(p)]
        <5>1. CASE fn.succs[blk] = << >>
          <6>1. edgeset2assignment' = edgeset2assignment
            BY <1>5, <5>1, Zenon DEF EndOfBlock
          <6> QED BY <4>3, <6>1 DEF Remembered
        <5>2. CASE fn.succs[blk] # << >>
          <6>1. edgeset2assignment' = [e \in DOMAIN edgeset2assignment \cup {OutSet(blk)} |->
                                         IF e = OutSet(blk) THEN memoryAssignment
                                         ELSE edgeset2assignment[e]]
            BY <1>5, <5>2, Zenon DEF EndOfBlock, OutSet, GetEdgeSetIndex
          <6>2. OutSet(blk) # OutSet(p)
            BY <1>2, <3>2, <4>1, <5>2
          <6>3. OutSet(p) \in DOMAIN edgeset2assignment
            BY <4>3 DEF Remembered
          <6> QED BY <6>1, <6>2, <6>3
        <5> QED BY <5>1, <5>2
      <4> QED BY <1>1, <3>2, <4>3, <4>4 DEF Remembered
    <3> QED BY <3>3, <3>4
  <2> QED BY <1>3, <2>2, <2>3 DEF SlotInv
<1> QED BY <1>4, <1>5

LEMMA GraphIsReal == ASSUME IsCFG(fn) PROVE GraphEdges(fn) = RealEdges
<1>1. ASSUME NEW e \in RealEdges PROVE e \in GraphEdges(fn)
  <2>1. e \in CollectEdges(fn) /\ e[1] # NullBlock /\ e[2] # NullBlock
    BY DEF RealEdges, Edges
  <2>2. e # <<NullBlock, 1>> /\ e # <<fn.n, NullBlock>>
    BY <2>1
  <2> QED BY <2>1, <2>2 DEF CollectEdges, GraphEdges
<1>2. ASSUME NEW e \in GraphEdges(fn) PROVE e \in RealEdges
  <2>1. e \in Block(fn) \X Block(fn) /\ e \in CollectEdges(fn)
    BY DEF GraphEdges, CollectEdges
  <2>2. e[1] # NullBlock /\ e[2] # NullBlock
    BY <2>1 DEF Block, NullBlock, IsCFG
  <2> QED BY <2>1, <2>2 DEF RealEdges, Edges
<1> QED BY <1>1, <1>2

(* The layout beginOfBlockUpdates looks up is the one a predecessor before *)
(* the block has stored.                                                   *)
LEMMA LayoutFound ==
  ASSUME ExecInv, EdgeInv, SlotsStored, Running("begin"), InExecutionOrder(fn), blk # 1
  PROVE  /\ fn.preds[blk] # << >>
         /\ \E p \in Block(fn) :
              /\ blk \in Elems(fn.succs[p]) /\ Remembered(p)
              /\ OutSet(p) = GetEdgeSetIndex(<<fn.preds[blk][1], blk>>)
<1>1. /\ IsFunction(fn) /\ IsCFG(fn) /\ blk \in Block(fn) /\ side = "computed" /\ phase = "begin"
      /\ \A c \in Block(fn) : c \in Nat
  BY WalkFunction DEF ExecInv, Walk, Running, IsFunction, IsCFG, Block
<1>2. PICK p \in Elems(fn.preds[blk]) :
        /\ p < blk
        /\ \A c \in p + 1 .. blk - 1 : \A s \in Elems(fn.succs[c]) : Apart(fn, <<c, s>>, <<p, blk>>)
  BY <1>1 DEF InExecutionOrder
<1>3. /\ \A b \in Block(fn) : /\ fn.preds[b] \in Seq(Block(fn))
                              /\ fn.succs[b] \in Seq(Block(fn))
      /\ \A b, c \in Block(fn) : c \in Elems(fn.succs[b]) <=> b \in Elems(fn.preds[c])
  BY <1>1 DEF IsCFG, Block
<1>4. p \in Block(fn) /\ blk \in Elems(fn.succs[p])
  <2>1. p \in Block(fn)
    BY <1>1, <1>2, <1>3 DEF Elems
  <2> QED BY <1>1, <1>2, <1>3, <2>1
<1>5. fn.preds[blk] # << >> /\ fn.succs[p] # << >>
  BY <1>2, <1>4 DEF Elems
<1>6. \A c \in Block(fn) : fn.succs[c] # << >> =>
        fn.succs[c][1] \in Elems(fn.succs[c]) /\ fn.succs[c][1] \in Block(fn)
  <2> SUFFICES ASSUME NEW c \in Block(fn), fn.succs[c] # << >>
               PROVE  fn.succs[c][1] \in Elems(fn.succs[c]) /\ fn.succs[c][1] \in Block(fn)
    OBVIOUS
  <2>1. PICK s : s = fn.succs[c] /\ s \in Seq(Block(fn)) /\ s # << >>
    BY <1>3
  <2>2. 1 \in DOMAIN s /\ s[1] \in Block(fn)
    BY <2>1
  <2> QED BY <2>1, <2>2 DEF Elems
<1>7. fn.preds[blk][1] \in Elems(fn.preds[blk]) /\ fn.preds[blk][1] \in Block(fn)
  <2>1. PICK s : s = fn.preds[blk] /\ s \in Seq(Block(fn)) /\ s # << >>
    BY <1>1, <1>3, <1>5
  <2>2. 1 \in DOMAIN s /\ s[1] \in Block(fn)
    BY <2>1
  <2> QED BY <2>1, <2>2 DEF Elems
<1>8. \A b, c \in Block(fn) : c \in Elems(fn.succs[b]) => <<b, c>> \in GraphEdges(fn)
  BY DEF GraphEdges
<1>9. /\ <<p, blk>> \in RealEdges /\ <<fn.preds[blk][1], blk>> \in RealEdges
      /\ <<p, fn.succs[p][1]>> \in RealEdges
  BY <1>1, <1>3, <1>4, <1>5, <1>6, <1>7, <1>8, GraphIsReal
<1>10. edgeSet[<<p, fn.succs[p][1]>>] = edgeSet[<<p, blk>>]
       /\ edgeSet[<<fn.preds[blk][1], blk>>] = edgeSet[<<p, blk>>]
  <2>1. \A e, g \in RealEdges : Share(e, g) => edgeSet[e] = edgeSet[g]
    BY <1>1, ProgressShares DEF EdgeInv, SharingEdgesTogether
  <2>2. Share(<<p, fn.succs[p][1]>>, <<p, blk>>) /\ Share(<<fn.preds[blk][1], blk>>, <<p, blk>>)
    BY DEF Share
  <2> QED BY <1>9, <2>1, <2>2
<1>11. ASSUME NEW c \in Block(fn), p < c, c < blk, fn.succs[c] # << >>
       PROVE  OutSet(c) # OutSet(p)
  <2>1. c \in p + 1 .. blk - 1
    BY <1>1, <1>4, <1>11
  <2>2. PICK e, g : e = <<c, fn.succs[c][1]>> /\ g = <<p, blk>>
    OBVIOUS
  <2>3. Apart(fn, e, g)
    BY <1>2, <1>6, <1>11, <2>1, <2>2
  <2>4. PICK S \in SUBSET RealEdges : Closed(S, RealEdges) /\ e \in S /\ g \notin S
    BY <1>1, <2>3, GraphIsReal DEF Apart
  <2>5. e \in RealEdges /\ e \in Edges /\ g \in Edges
    BY <1>9, <2>2, <2>4 DEF RealEdges
  <2>6. edgeSet[e] # edgeSet[g]
    BY <2>4, <2>5 DEF EdgeInv, OnlyConnectedTogether
  <2> QED BY <1>10, <2>2, <2>6 DEF OutSet
<1>12. Latest(p)
  BY <1>5, <1>11 DEF Latest
<1>13. Remembered(p)
  BY <1>1, <1>2, <1>4, <1>12 DEF SlotsStored
<1> QED BY <1>4, <1>5, <1>10, <1>13 DEF OutSet, GetEdgeSetIndex

(* Registers live at the start of a block are not dead to                  *)
(* regIsDeadAtBeginningOfMBB.                                              *)
LEMMA LiveNotDead ==
  ASSUME IsFunction(fn), InExecutionOrder(fn), blk \in Block(fn), NEW r, LiveIn(r)
  PROVE  ~RegIsDeadAtBeginningOfMBB(r)
<1>1. PICK u \in UseSites(fn, r) : u[1] \in Onward(fn, blk)
  BY LiveOnward DEF LiveIn
<1>2. u \in AllUses(r)
  BY DEF AllUses
<1> SUFFICES ASSUME RegIsDeadAtBeginningOfMBB(r) PROVE FALSE
  OBVIOUS
<1>3. u[1] # blk /\ \A s \in Elems(fn.succs[blk]) : u[1] < s
  BY <1>2 DEF RegIsDeadAtBeginningOfMBB
<1>4. PICK s \in Elems(fn.succs[blk]) : s <= u[1] /\ u[1] \in Block(fn)
  BY <1>1, <1>3 DEF Onward
<1>5. s \in Nat /\ u[1] \in Nat
  <2>1. fn.succs[blk] \in Seq(Block(fn))
    BY DEF IsFunction, IsCFG, Block
  <2>2. s \in Block(fn)
    BY <2>1 DEF Elems
  <2> QED BY <1>4, <2>2 DEF Block, IsFunction, IsCFG
<1> QED BY <1>3, <1>4, <1>5

LEMMA LayoutKept ==
  ASSUME AllInOrder, ExecInv, MemInv, EdgeInv, SlotInv, Running("begin"), blk # 1
  PROVE  /\ Owned(LayoutAtBegin, regAssignments, Needed(fn, regAssignments, blk))
         /\ LiveArrived(fn, regAssignments, blk)
<1>1. /\ IsFunction(fn) /\ IsSSA(fn) /\ InExecutionOrder(fn) /\ blk \in Block(fn) /\ blk \in Nat
      /\ Handled(fn, regAssignments, <<blk, 0>>)
  BY FunctionInOrder, WalkFunction DEF ExecInv, Walk, HandledSoFar, Running
<1>2. LiveArrived(fn, regAssignments, blk)
  BY <1>1, AllLiveArrived
<1>3. fn.preds[blk] # << >>
      /\ \E p \in Block(fn) :
           /\ blk \in Elems(fn.succs[p]) /\ Remembered(p)
           /\ OutSet(p) = GetEdgeSetIndex(<<fn.preds[blk][1], blk>>)
  BY <1>1, LayoutFound DEF SlotInv
<1>4. PICK p \in Block(fn) : /\ blk \in Elems(fn.succs[p]) /\ Remembered(p)
                             /\ OutSet(p) = GetEdgeSetIndex(<<fn.preds[blk][1], blk>>)
  BY <1>3
<1>5. PICK mem : mem = StoredLayout(GetEdgeSetIndex(<<fn.preds[blk][1], blk>>))
  OBVIOUS
<1>6. PICK dead : dead = { r \in Occupants(mem) : RegIsDeadAtBeginningOfMBB(r) }
  OBVIOUS
<1>7. LayoutAtBegin = FreeDeadSlots(mem, dead)
  BY <1>3, <1>5, <1>6, Zenon DEF LayoutAtBegin
<1>8. mem = edgeset2assignment[OutSet(p)] /\ OutSet(p) \in DOMAIN edgeset2assignment
  BY <1>4, <1>5 DEF StoredLayout, Remembered
<1>9. mem \in Seq(Nat) /\ NoReg \in Nat
  BY <1>8 DEF MemInv, NoReg
<1>10. PICK q : q = 2 * Len(fn.code[p]) + 1
  OBVIOUS
<1>11. Owned(mem, regAssignments, Kept(fn, regAssignments, p, q))
  BY <1>4, <1>8, <1>10 DEF Remembered
<1>12. ASSUME NEW r \in Needed(fn, regAssignments, blk)
       PROVE  Owned(LayoutAtBegin, regAssignments, {r})
  <2>1. r \in DOMAIN regAssignments /\ blk \in LiveInBlocks(fn, r) /\ r \in VRegs(fn)
    BY <1>1 DEF Needed, Handled
  <2>2. p = 1 => \E d \in DefSites(fn, r) : d[1] = 1
    <3> SUFFICES ASSUME p = 1, \A d \in DefSites(fn, r) : d[1] # 1 PROVE FALSE
      OBVIOUS
    <3>1. 1 \in LiveInBlocks(fn, r)
      BY <1>1, <1>4, <2>1, LiveBefore
    <3> QED BY <1>1, <2>1, <3>1 DEF IsSSA
  <2>3. r \in Kept(fn, regAssignments, p, q)
    BY <1>1, <1>4, <1>10, <2>2, NeededWasKept
  <2>4. PICK i : i = regAssignments[r].slot + 1
    OBVIOUS
  <2>5. r # NoReg /\ regAssignments[r].slot \in Nat /\ i \in DOMAIN mem /\ mem[i] = r
    BY <1>11, <2>3, <2>4 DEF Owned
  <2>6. r \notin dead
    BY <1>1, <1>6, <2>1, LiveNotDead DEF LiveIn
  <2>7. i \in DOMAIN FreeDeadSlots(mem, dead) /\ FreeDeadSlots(mem, dead)[i] = mem[i]
    BY <1>9, <2>5, <2>6, FreeDeadKeeps
  <2> QED BY <1>7, <2>1, <2>4, <2>5, <2>7 DEF Owned
<1>13. Owned(LayoutAtBegin, regAssignments, Needed(fn, regAssignments, blk))
  BY <1>12 DEF Owned
<1> QED BY <1>2, <1>13

LEMMA BeginBlockSlots ==
  ASSUME AllInOrder, ExecInv, MemInv, EdgeInv, SlotInv, BeginBlock PROVE SlotInv'
<1>1. /\ Running("begin") /\ blk # 1 /\ phase = "begin" /\ phase' = "uses" /\ idx' = 1
      /\ UNCHANGED <<fn, edgeSet, blk, regAssignments, edgeset2assignment>>
      /\ memoryAssignment' = LayoutAtBegin /\ hazards' = hazards \cup LayoutHazards(LayoutAtBegin)
  BY DEF BeginBlock, EnterBlock, edgeVars, Running
<1>2. IsFunction(fn) /\ blk \in Block(fn)
  BY WalkFunction DEF ExecInv, Walk
<1>3. PICK mem : mem = LayoutAtBegin
  OBVIOUS
<1>4. Owned(mem, regAssignments, Needed(fn, regAssignments, blk)) /\ LiveArrived(fn, regAssignments, blk)
  BY <1>1, <1>3, LayoutKept
<1>5. SlotsStored'
  BY <1>1, StoredSame DEF SlotInv
<1>6. SlotsHere'
  <2>1. Owned(mem, regAssignments, Kept(fn, regAssignments, blk, 2 * 1))
    BY <1>1, <1>2, <1>4, KeptAtBegin
  <2> QED BY <1>1, <1>3, <2>1 DEF SlotsHere, KeptHere
<1>7. "lostSlot" \notin LayoutHazards(mem)
  <2> SUFFICES ASSUME NEW r \in VRegs(fn), LiveIn(r), InMemory(r) PROVE HasSlot(mem, r)
    BY DEF LayoutHazards
  <2>1. r \in Needed(fn, regAssignments, blk)
    BY <1>1 DEF Needed, InMemory, LiveIn
  <2> QED BY <1>4, <2>1 DEF Owned, HasSlot
<1>8. "definedLater" \notin LayoutHazards(mem)
  <2> SUFFICES ASSUME NEW r \in VRegs(fn), LiveIn(r) PROVE r \in DOMAIN regAssignments
    BY DEF LayoutHazards
  <2> QED BY <1>1, <1>4 DEF LiveArrived, LiveIn
<1>9. SlotsKept'
  BY <1>1, <1>3, <1>7, <1>8 DEF SlotInv, SlotsKept
<1> QED BY <1>5, <1>6, <1>9 DEF SlotInv

(* tryToAnalyzeStackArgs.                                                  *)
LEMMA BeginEntryBlockSlots ==
  ASSUME ExecInv, MemInv, SlotInv, BeginEntryBlock PROVE SlotInv'
<1>1. Walk /\ Handled(fn, regAssignments, <<1, 0>>) /\ IsFunction(fn) /\ 1 \in Block(fn)
  BY WalkFunction DEF ExecInv, HandledSoFar, BeginEntryBlock, Running, Walk
<1>2. DOMAIN regAssignments = {}
  <2>1. DOMAIN NoAssignments = {} /\ Handled(fn, NoAssignments, <<1, 0>>)
    BY <1>1, Untouched DEF NoAssignments
  <2> QED BY <1>1, <2>1 DEF Handled
<1>3. PICK a : a = StackArgs
  OBVIOUS
<1>4. ArgsRun(a, fn)
  BY <1>1, <1>2, <1>3, EntryRun DEF MemInv, SlotTypes
<1>5. /\ memoryAssignment' = a.mem /\ regAssignments' = a.map /\ fn' = fn /\ hazards' = hazards
      /\ blk = 1 /\ blk' = 1 /\ idx' = 1 /\ phase' = "uses"
  BY <1>3 DEF BeginEntryBlock, EnterBlock, edgeVars
<1>6. Owned(a.mem, a.map, Kept(fn, a.map, 1, 2 * 1))
  <2>1. PICK V : Owned(a.mem, a.map, V) /\ InMem(a.map) \subseteq V
    BY <1>4 DEF ArgsRun, PartRun
  <2>2. Kept(fn, a.map, 1, 2 * 1) \subseteq V
    BY <2>1 DEF Kept, Needed, DefinedIn, InMem
  <2> QED BY <2>1, <2>2, OwnedLess
<1>7. SlotsHere'
  BY <1>5, <1>6 DEF SlotsHere, KeptHere
<1>8. SlotsStored'
  <2>1. \A p \in Block(fn) : ~(p < 1)
    BY <1>1 DEF Block, IsFunction, IsCFG
  <2> QED BY <1>5, <2>1 DEF SlotsStored
<1>9. SlotsKept'
  BY <1>5 DEF SlotInv, SlotsKept
<1> QED BY <1>7, <1>8, <1>9 DEF SlotInv

LEMMA NothingStored ==
  ASSUME NEW f, IsFunction(f) PROVE \A p \in Block(f) : ~(p < 1)
  BY DEF Block, IsFunction, IsCFG

LEMMA SlotInvInit == ExecInit => SlotInv
<1> SUFFICES ASSUME ExecInit PROVE SlotInv
  OBVIOUS
<1>1. blk = 1 /\ phase = "begin" /\ hazards = {} /\ fn \in Functions
  BY DEF ExecInit, Init, EdgeInit, StartEdgeSets
<1>2. \A p \in Block(fn) : ~(p < blk)
  BY <1>1, NothingStored, MachineFunctions DEF IsFunction
<1> QED BY <1>1, <1>2 DEF SlotInv, SlotsKept, SlotsStored, SlotsHere

LEMMA NextFunctionSlots == ASSUME NextFunction PROVE SlotInv'
<1>1. blk' = 1 /\ phase' = "begin" /\ hazards' = {} /\ fn' \in FollowUps
  BY DEF NextFunction
<1>2. \A p \in Block(fn') : ~(p < blk')
  BY <1>1, NothingStored, MachineFunctions DEF IsFunction
<1> QED BY <1>1, <1>2 DEF SlotInv, SlotsKept, SlotsStored, SlotsHere

LEMMA SlotInvCompile ==
  ASSUME AllInOrder, ExecInv, MemInv, EdgeInv, SlotInv, Next PROVE SlotInv'
<1>1. CASE ComputeEdgeSets
  <2>1. EdgeNext /\ UNCHANGED <<blk, phase, hazards>> /\ fn' = fn
    BY <1>1 DEF ComputeEdgeSets, allocVars, EdgeNext, MergePred, PredsMerged, MergeSucc, SuccsMerged
  <2>2. side # "computed"
    BY <2>1 DEF EdgeNext, MergePred, PredsMerged, MergeSucc, SuccsMerged
  <2>3. blk = 1 /\ phase = "begin"
    BY <2>2 DEF EdgeInv
  <2>4. \A p \in Block(fn) : ~(p < 1)
    BY NothingStored, WalkFunction DEF ExecInv
  <2> QED BY <2>1, <2>3, <2>4 DEF SlotInv, SlotsKept, SlotsStored, SlotsHere
<1>2. CASE SkipEmptyBlock
  <2>1. FALSE
    BY <1>2, FunctionInOrder DEF SkipEmptyBlock, IsEmptyBlock, InExecutionOrder, ExecInv, Walk
  <2> QED BY <2>1
<1>3. CASE BeginEntryBlock BY <1>3, BeginEntryBlockSlots
<1>4. CASE BeginBlock BY <1>4, BeginBlockSlots
<1>5. CASE HandleUses \/ BadUse \/ DefNothing \/ CleanUpDeadRegisters BY <1>5, StillSlots
<1>6. CASE DefUnused \/ DefLocal BY <1>6, DefPlacedSlots
<1>7. CASE DefMemory BY <1>7, DefMemorySlots
<1>8. CASE EndOfBlock BY <1>8, EndOfBlockSlots
<1>9. CASE NextFunction BY <1>9, NextFunctionSlots
<1> QED BY <1>1, <1>2, <1>3, <1>4, <1>5, <1>6, <1>7, <1>8, <1>9 DEF Next

LEMMA SlotInvNext ==
  ASSUME AllInOrder
  PROVE  ExecInv /\ MemInv /\ EdgeInv /\ SlotInv /\ [ExecNext]_allVars => SlotInv'
<1> SUFFICES ASSUME ExecInv, MemInv, EdgeInv, SlotInv, [ExecNext]_allVars PROVE SlotInv'
  OBVIOUS
<1>1. CASE Compile
  BY <1>1, SlotInvCompile DEF Compile
<1>2. CASE UNCHANGED vars
  <2>1. UNCHANGED <<fn, edgeSet, blk, idx, phase, regAssignments, memoryAssignment,
                    edgeset2assignment, hazards>>
    BY <1>2 DEF vars, edgeVars, allocVars
  <2>2. SlotsStored'
    <3>1. CASE phase = "done"
      BY <2>1, <3>1 DEF SlotsStored
    <3>2. CASE phase # "done"
      BY <2>1, <3>2, StoredSame DEF SlotInv
    <3> QED BY <3>1, <3>2
  <2>3. SlotsHere' /\ SlotsKept'
    BY <2>1 DEF SlotInv, SlotsHere, KeptHere, SlotsKept
  <2> QED BY <2>2, <2>3 DEF SlotInv
<1>3. CASE Start
  BY <1>2, <1>3 DEF Start
<1>4. CASE ExecStep
  BY <1>2, <1>4 DEF ExecStep
<1>5. CASE Branch
  BY <1>2, <1>5 DEF Branch
<1>6. CASE UNCHANGED allVars
  BY <1>2, <1>6 DEF allVars
<1> QED BY <1>1, <1>3, <1>4, <1>5, <1>6 DEF ExecNext

(* Stored layouts lead every register home: if each function is in SSA     *)
(* form and its blocks are laid out in execution order, then whichever     *)
(* predecessor's layout endOfBlockUpdates stored last, beginOfBlockUpdates *)
(* gives each live register its slot back, and no register is live into a  *)
(* block before its definition was handled.                                *)
THEOREM SlotsStay ==
  (\A f \in Functions \cup FollowUps : IsSSA(f) /\ InExecutionOrder(f))
    => (ExecSpec => []SlotsKept)
<1> SUFFICES ASSUME AllInOrder PROVE ExecSpec => []SlotsKept
  BY DEF AllInOrder
<1>1. ExecInit => EdgeInv /\ SlotInv
  BY EdgeInvInit, SlotInvInit
<1>2. ExecInv /\ MemInv /\ (EdgeInv /\ SlotInv) /\ [ExecNext]_allVars => (EdgeInv /\ SlotInv)'
  BY EdgeInvNext, SlotInvNext
<1>3. EdgeInv /\ SlotInv => SlotsKept
  BY DEF SlotInv
<1> QED BY <1>1, <1>2, <1>3, ExecInvariant, MemoryInvariant, PTL DEF ExecSpec
=============================================================================
