---------------------------- MODULE BranchesProofs ----------------------------
(***************************************************************************)
(* Splitting critical edges keeps branches, fall-through and successor     *)
(* lists right for any number of blocks and any order of splits.           *)
(***************************************************************************)
EXTENDS Branches, SequenceTheorems, TLAPS

(* The terminators ts go to y if the condition holds and to n if not, in   *)
(* one of the four forms that branch analysis understands; next is the     *)
(* block behind.                                                           *)
Form(ts, y, n, next) ==
  \/ ts = << >> /\ y = next /\ n = next
  \/ ts = << Pjumpto(n) >> /\ y = n
  \/ ts = << Pjumpif(y) >> /\ n = next /\ y # n
  \/ ts = << Pjumpif(y), Pjumpto(n) >> /\ y # n

(* What analyzeBranch finds in each form.                                  *)
LEMMA AnalyzeIf ==
  ASSUME NEW d \in Nat
  PROVE  /\ JumpIfs(<< Pjumpif(d) >>) = {1} /\ JumpTos(<< Pjumpif(d) >>) = {}
         /\ AnalyzeBranch(<< Pjumpif(d) >>)
              = [fails |-> FALSE, TBB |-> d, FBB |-> NoBlock, Cond |-> TRUE]
<1> DEFINE ts == << Pjumpif(d) >>
<1>1. JumpIfs(ts) = {1} /\ JumpTos(ts) = {}
  BY DEF JumpIfs, JumpTos, Pjumpif
<1>2. (CHOOSE i \in {1} : TRUE) = 1
  OBVIOUS
<1>3. ts[1].dest = d
  BY DEF Pjumpif
<1>4. LastDest(ts, { i \in {} : i > 1 }) = NoBlock
  BY DEF LastDest
<1> QED BY <1>1, <1>2, <1>3, <1>4 DEF AnalyzeBranch

LEMMA AnalyzeIfTo ==
  ASSUME NEW d \in Nat, NEW e \in Nat
  PROVE  LET ts == << Pjumpif(d), Pjumpto(e) >>
         IN  /\ JumpIfs(ts) = {1} /\ JumpTos(ts) = {2}
             /\ AnalyzeBranch(ts) = [fails |-> FALSE, TBB |-> d, FBB |-> e, Cond |-> TRUE]
<1> DEFINE ts == << Pjumpif(d), Pjumpto(e) >>
<1>1. JumpIfs(ts) = {1} /\ JumpTos(ts) = {2}
  BY DEF JumpIfs, JumpTos, Pjumpif, Pjumpto
<1>2. (CHOOSE i \in {1} : TRUE) = 1 /\ { i \in {2} : i > 1 } = {2}
  OBVIOUS
<1>3. ts[1].dest = d /\ ts[2].dest = e
  BY DEF Pjumpif, Pjumpto
<1>4. LastDest(ts, {2}) = e
  <2>1. (CHOOSE i \in {2} : \A j \in {2} : j <= i) = 2
    OBVIOUS
  <2> QED BY <2>1, <1>3 DEF LastDest
<1> QED BY <1>1, <1>2, <1>3, <1>4 DEF AnalyzeBranch

LEMMA AnalyzeNone ==
  AnalyzeBranch(<< >>) = [fails |-> FALSE, TBB |-> NoBlock, FBB |-> NoBlock, Cond |-> FALSE]
<1>1. JumpIfs(<< >>) = {} /\ JumpTos(<< >>) = {}
  BY DEF JumpIfs, JumpTos
<1> QED BY <1>1 DEF AnalyzeBranch, LastDest

LEMMA AnalyzeTo ==
  ASSUME NEW d \in Nat
  PROVE  AnalyzeBranch(<< Pjumpto(d) >>)
           = [fails |-> FALSE, TBB |-> d, FBB |-> NoBlock, Cond |-> FALSE]
<1> DEFINE ts == << Pjumpto(d) >>
<1>1. JumpIfs(ts) = {} /\ JumpTos(ts) = {1} /\ ts[1].dest = d
  BY DEF JumpIfs, JumpTos, Pjumpto
<1>2. LastDest(ts, {1}) = d
  <2>1. (CHOOSE i \in {1} : \A j \in {1} : j <= i) = 1
    OBVIOUS
  <2> QED BY <1>1, <2>1 DEF LastDest
<1> QED BY <1>1, <1>2 DEF AnalyzeBranch

(* A sequence of two elements put together.                                *)
LEMMA ConcatTwo ==
  ASSUME NEW a, NEW b
  PROVE  << a >> \o << b >> = << a, b >>
<1> DEFINE s == << a >> \o << b >>
           t == << a, b >>
<1>1. s \in Seq({a, b}) /\ Len(s) = 2 /\ s[1] = a /\ s[2] = b
  OBVIOUS
<1>2. t \in Seq({a, b}) /\ Len(t) = 2 /\ t[1] = a /\ t[2] = b
  OBVIOUS
<1> HIDE DEF s, t
<1>3. \A i \in 1 .. 2 : s[i] = t[i]
  BY <1>1, <1>2
<1>4. s = t
  BY <1>1, <1>2, <1>3, SeqEqual
<1> QED BY <1>4 DEF s, t

(* updateTerminator in the four situations a split leaves behind: the new  *)
(* block is the next one, and it is the target or the fall-through of the  *)
(* conditional jump.                                                       *)
LEMMA UpdateIfFallsToNew ==
  ASSUME NEW d \in Nat, NEW new \in Nat, d # new
  PROVE  UpdateTerminator(<< Pjumpif(d) >>, {d, new}, new) = << Pjumpif(d) >>
<1> DEFINE ts == << Pjumpif(d) >>
<1>1. {d, new} # {} /\ {d, new} \ {d} = {new} /\ (CHOOSE b \in {new} : TRUE) = new
  OBVIOUS
<1>2. AnalyzeBranch(ts) = [fails |-> FALSE, TBB |-> d, FBB |-> NoBlock, Cond |-> TRUE]
  BY AnalyzeIf
<1> HIDE DEF ts
<1>3. AnalyzeBranch(ts).TBB = d /\ AnalyzeBranch(ts).FBB = NoBlock
  BY <1>2
<1>4. AnalyzeBranch(ts).Cond = TRUE
  BY <1>2
<1>5. UpdateTerminator(ts, {d, new}, new) = ts
  BY <1>1, <1>3, <1>4 DEF UpdateTerminator
<1> QED BY <1>5 DEF ts

LEMMA UpdateIfToNew ==
  ASSUME NEW f \in Nat, NEW new \in Nat, f # new
  PROVE  UpdateTerminator(<< Pjumpif(new) >>, {f, new}, new)
           = << Pjumpif(new), Pjumpto(f) >>
<1> DEFINE ts == << Pjumpif(new) >>
<1>1. {f, new} # {} /\ {f, new} \ {new} = {f} /\ (CHOOSE b \in {f} : TRUE) = f
  OBVIOUS
<1>2. AnalyzeBranch(ts) = [fails |-> FALSE, TBB |-> new, FBB |-> NoBlock, Cond |-> TRUE]
  BY AnalyzeIf
<1>3. InsertBranch(ts, f, NoBlock, FALSE) = << Pjumpif(new), Pjumpto(f) >>
  <2>1. << Pjumpif(new) >> \o << Pjumpto(f) >> = << Pjumpif(new), Pjumpto(f) >>
    BY ConcatTwo
  <2> QED BY <2>1 DEF InsertBranch
<1> HIDE DEF ts
<1>4. AnalyzeBranch(ts).TBB = new /\ AnalyzeBranch(ts).FBB = NoBlock
  BY <1>2
<1>5. AnalyzeBranch(ts).Cond = TRUE
  BY <1>2
<1>6. UpdateTerminator(ts, {f, new}, new) = InsertBranch(ts, f, NoBlock, FALSE)
  BY <1>1, <1>4, <1>5
     DEF UpdateTerminator, ReverseBranchConditionFails, AddUnconditionalBranch
<1> QED BY <1>3, <1>6 DEF ts

LEMMA UpdateIfNewTo ==
  ASSUME NEW e \in Nat, NEW new \in Nat, e # new, e # NoBlock
  PROVE  UpdateTerminator(<< Pjumpif(new), Pjumpto(e) >>, {e, new}, new)
           = << Pjumpif(new), Pjumpto(e) >>
<1> DEFINE ts == << Pjumpif(new), Pjumpto(e) >>
<1>1. {e, new} # {}
  OBVIOUS
<1>2. AnalyzeBranch(ts) = [fails |-> FALSE, TBB |-> new, FBB |-> e, Cond |-> TRUE]
  BY AnalyzeIfTo
<1> HIDE DEF ts
<1>3. AnalyzeBranch(ts).TBB = new /\ AnalyzeBranch(ts).FBB = e
  BY <1>2
<1>4. AnalyzeBranch(ts).Cond = TRUE
  BY <1>2
<1>5. UpdateTerminator(ts, {e, new}, new) = ts
  BY <1>1, <1>3, <1>4 DEF UpdateTerminator, ReverseBranchConditionFails
<1> QED BY <1>5 DEF ts

LEMMA UpdateIfToToNew ==
  ASSUME NEW d \in Nat, NEW new \in Nat, d # new, new # NoBlock
  PROVE  UpdateTerminator(<< Pjumpif(d), Pjumpto(new) >>, {d, new}, new)
           = << Pjumpif(d) >>
<1> DEFINE ts == << Pjumpif(d), Pjumpto(new) >>
<1>1. {d, new} # {}
  OBVIOUS
<1>2. AnalyzeBranch(ts) = [fails |-> FALSE, TBB |-> d, FBB |-> new, Cond |-> TRUE]
  BY AnalyzeIfTo
<1>3. InsertBranch(RemoveBranch(ts), d, NoBlock, TRUE) = << Pjumpif(d) >>
  BY DEF InsertBranch, RemoveBranch
<1> HIDE DEF ts
<1>4. AnalyzeBranch(ts).TBB = d /\ AnalyzeBranch(ts).FBB = new
  BY <1>2
<1>5. AnalyzeBranch(ts).Cond = TRUE
  BY <1>2
<1>6. UpdateTerminator(ts, {d, new}, new)
        = InsertBranch(RemoveBranch(ts), d, NoBlock, TRUE)
  BY <1>1, <1>4, <1>5 DEF UpdateTerminator
<1> QED BY <1>3, <1>6 DEF ts

(* Where control goes in each form.                                        *)
LEMMA FormGoes ==
  ASSUME NEW b, NEW y, NEW n, Form(terms[b], y, n, LayoutSuccessor(b))
  PROVE  Goes(b, TRUE) = y /\ Goes(b, FALSE) = n
<1> DEFINE ts == terms[b]
           Least(S) == CHOOSE i \in S : \A j \in S : i <= j
<1>0. Least({1}) = 1 /\ Least({2}) = 2 /\ Least({1, 2}) = 1
  <2>1. Least({1}) = 1 /\ Least({2}) = 2
    OBVIOUS
  <2>2. Least({1, 2}) \in {1, 2} /\ \A j \in {1, 2} : Least({1, 2}) <= j
    <3>1. \E i \in {1, 2} : \A j \in {1, 2} : i <= j
      OBVIOUS
    <3> QED BY <3>1
  <2> QED BY <2>1, <2>2
<1>1. CASE ts = << >> /\ y = LayoutSuccessor(b) /\ n = LayoutSuccessor(b)
  <2>1. JumpTos(ts) = {} /\ JumpIfs(ts) = {}
    BY <1>1 DEF JumpTos, JumpIfs
  <2> QED BY <1>1, <2>1 DEF Goes
<1>2. CASE ts = << Pjumpto(n) >> /\ y = n
  <2>1. JumpTos(ts) = {1} /\ JumpIfs(ts) = {} /\ ts[1].dest = n
    BY <1>2 DEF JumpTos, JumpIfs, Pjumpto
  <2> QED BY <1>0, <1>2, <2>1 DEF Goes
<1>3. CASE ts = << Pjumpif(y) >> /\ n = LayoutSuccessor(b)
  <2>1. JumpTos(ts) = {} /\ JumpIfs(ts) = {1} /\ ts[1].dest = y
    BY <1>3 DEF JumpTos, JumpIfs, Pjumpif
  <2> QED BY <1>0, <1>3, <2>1 DEF Goes
<1>4. CASE ts = << Pjumpif(y), Pjumpto(n) >>
  <2>1. JumpTos(ts) = {2} /\ JumpIfs(ts) = {1} /\ ts[1].dest = y /\ ts[2].dest = n
    BY <1>4 DEF JumpTos, JumpIfs, Pjumpif, Pjumpto
  <2>2. {2} \cup {1} = {1, 2} /\ {2} \cup {} = {2}
    OBVIOUS
  <2> QED BY <1>0, <1>4, <2>1, <2>2 DEF Goes
<1> QED BY <1>1, <1>2, <1>3, <1>4 DEF Form
-----------------------------------------------------------------------------
(* The block behind b in a layout.                                         *)
At(L, b) == CHOOSE i \in DOMAIN L : L[i] = b
After(L, b) == IF At(L, b) = Len(L) THEN NoBlock ELSE L[At(L, b) + 1]

(* C is A, then e, then B.                                                 *)
Between(C, A, e, B) ==
  /\ C \in Seq(Nat) /\ Len(C) = Len(A) + 1 + Len(B) /\ C[Len(A) + 1] = e
  /\ \A i \in 1 .. Len(A) : C[i] = A[i]
  /\ \A i \in 1 .. Len(B) : C[Len(A) + 1 + i] = B[i]

LEMMA Middle ==
  ASSUME NEW A \in Seq(Nat), NEW B \in Seq(Nat), NEW e \in Nat
  PROVE  Between(A \o << e >> \o B, A, e, B)
<1>1. A \o << e >> \o B \in Seq(Nat)
  OBVIOUS
<1>2. Len(A \o << e >> \o B) = Len(A) + 1 + Len(B)
  OBVIOUS
<1>3. (A \o << e >> \o B)[Len(A) + 1] = e
  OBVIOUS
<1>4. ASSUME NEW i \in 1 .. Len(A) PROVE (A \o << e >> \o B)[i] = A[i]
  OBVIOUS
<1>5. ASSUME NEW i \in 1 .. Len(B) PROVE (A \o << e >> \o B)[Len(A) + 1 + i] = B[i]
  BY SMTT(40)
<1> QED BY <1>1, <1>2, <1>3, <1>4, <1>5, Zenon DEF Between

(* The two parts of a sequence at position p.                              *)
LEMMA Parts ==
  ASSUME NEW L \in Seq(Nat), NEW p \in DOMAIN L
  PROVE  /\ SubSeq(L, 1, p) \in Seq(Nat) /\ Len(SubSeq(L, 1, p)) = p
         /\ SubSeq(L, p + 1, Len(L)) \in Seq(Nat)
         /\ Len(SubSeq(L, p + 1, Len(L))) = Len(L) - p
         /\ \A i \in 1 .. p : SubSeq(L, 1, p)[i] = L[i]
         /\ \A i \in 1 .. Len(L) - p : SubSeq(L, p + 1, Len(L))[i] = L[p + i]
<1>1. SubSeq(L, 1, p) \in Seq(Nat) /\ Len(SubSeq(L, 1, p)) = p
  OBVIOUS
<1>2. SubSeq(L, p + 1, Len(L)) \in Seq(Nat) /\ Len(SubSeq(L, p + 1, Len(L))) = Len(L) - p
  <2> DEFINE q == p + 1
             n == Len(L)
  <2>1. q \in Int /\ n \in Int /\ q \in 1 .. n + 1 /\ \A i \in q .. n : L[i] \in Nat
    OBVIOUS
  <2>2. (IF q <= n THEN n - q + 1 ELSE 0) = n - p
    BY SMTT(40)
  <2> HIDE DEF q, n
  <2>3. SubSeq(L, q, n) \in Seq(Nat) /\ Len(SubSeq(L, q, n)) = (IF q <= n THEN n - q + 1 ELSE 0)
    BY <2>1, SubSeqProperties
  <2> QED BY <2>2, <2>3 DEF q, n
<1>3. \A i \in 1 .. p : SubSeq(L, 1, p)[i] = L[i]
  OBVIOUS
<1>4. \A i \in 1 .. Len(L) - p : SubSeq(L, p + 1, Len(L))[i] = L[p + i]
  BY SMTT(40)
<1> QED BY <1>1, <1>2, <1>3, <1>4, Zenon

(* M is L with e behind position p: what is behind moves by one position.  *)
Grown(L, M, n, p, e) ==
  /\ n \in Nat /\ p \in 1 .. n /\ Len(L) = n /\ Len(M) = n + 1
  /\ DOMAIN L = 1 .. n /\ DOMAIN M = 1 .. n + 1
  /\ M[p + 1] = e
  /\ \A i \in 1 .. p : M[i] = L[i]
  /\ \A i \in p + 1 .. n : M[i + 1] = L[i]

LEMMA Inserted ==
  ASSUME NEW L \in Seq(Nat), NEW p \in DOMAIN L, NEW e \in Nat,
         NEW q \in Nat, q = p + 1
  PROVE  InsertAt(L, q, e) \in Seq(Nat) /\ Grown(L, InsertAt(L, q, e), Len(L), p, e)
<1> DEFINE A == SubSeq(L, 1, p)
           B == SubSeq(L, p + 1, Len(L))
           C == A \o << e >> \o B
           n == Len(L)
<1>1. p \in 1 .. n /\ n \in Nat /\ DOMAIN L = 1 .. n
  OBVIOUS
<1>2. /\ A \in Seq(Nat) /\ Len(A) = p /\ B \in Seq(Nat) /\ Len(B) = n - p
      /\ \A i \in 1 .. p : A[i] = L[i]
      /\ \A i \in 1 .. n - p : B[i] = L[p + i]
  BY Parts, Zenon
<1>3. InsertAt(L, q, e) = C
  <2>1. p = q - 1
    BY <1>1
  <2> QED BY <2>1 DEF InsertAt
<1>4. Between(C, A, e, B)
  BY <1>2, Middle, Zenon
<1> HIDE DEF A, B, C, n
<1>5. /\ C \in Seq(Nat) /\ Len(C) = n + 1 /\ C[p + 1] = e
      /\ \A i \in 1 .. p : C[i] = A[i]
      /\ \A i \in 1 .. n - p : C[p + 1 + i] = B[i]
  BY <1>1, <1>2, <1>4 DEF Between
<1>6. ASSUME NEW i \in p + 1 .. n PROVE C[i + 1] = L[i]
  <2>1. i - p \in 1 .. n - p /\ p + (i - p) = i /\ p + 1 + (i - p) = i + 1
    BY <1>1, SMTT(40)
  <2>2. C[p + 1 + (i - p)] = B[i - p] /\ B[i - p] = L[p + (i - p)]
    BY <1>2, <1>5, <2>1, Zenon
  <2> QED BY <2>1, <2>2, Zenon
<1>7. DOMAIN C = 1 .. n + 1
  BY <1>5
<1>8. \A i \in 1 .. p : C[i] = L[i]
  BY <1>2, <1>5, Zenon
<1>9. Len(L) = n
  BY DEF n
<1>10. Grown(L, C, n, p, e)
  BY <1>1, <1>5, <1>6, <1>7, <1>8, <1>9, Zenon DEF Grown
<1> QED BY <1>3, <1>5, <1>9, <1>10, Zenon

(* Positions in a layout M that has e behind position p of a layout L.     *)
Positions(L, M, n, p, e) ==
  /\ IsInjective(M) /\ ToSet(M) = ToSet(L) \cup {e}
  /\ At(M, e) = p + 1
  /\ \A i \in 1 .. p : At(M, L[i]) = i
  /\ \A i \in p + 1 .. n : At(M, L[i]) = i + 1

LEMMA Shifted ==
  ASSUME NEW n, NEW p, NEW L, NEW M, NEW e, Grown(L, M, n, p, e),
         \A i, j \in 1 .. n : L[i] = L[j] => i = j,
         \A i \in 1 .. n : L[i] # e
  PROVE  Positions(L, M, n, p, e)
<1> USE DEF Grown
<1>1. \A i \in 1 .. n + 1 :
        \/ i \in 1 .. p /\ M[i] = L[i]
        \/ i = p + 1 /\ M[i] = e
        \/ i - 1 \in p + 1 .. n /\ M[i] = L[i - 1]
  <2> TAKE i \in 1 .. n + 1
  <2>1. CASE i > p + 1
    <3>1. i - 1 \in p + 1 .. n /\ (i - 1) + 1 = i
      BY <2>1
    <3>2. M[(i - 1) + 1] = L[i - 1]
      BY <3>1
    <3> QED BY <3>1, <3>2
  <2>2. CASE i <= p + 1
    BY <2>2
  <2> QED BY <2>1, <2>2
<1>2. \A i \in 1 .. p : i \in 1 .. n
  OBVIOUS
<1>3. \A i \in p + 1 .. n : i \in 1 .. n /\ i + 1 \in 1 .. n + 1
  OBVIOUS
<1>4. ASSUME NEW i \in 1 .. n + 1, NEW j \in 1 .. n + 1, M[i] = M[j] PROVE i = j
  <2>1. \A k \in 1 .. n + 1 : M[k] = e => k = p + 1
    BY <1>1, <1>2, <1>3
  <2>2. CASE M[i] = e
    BY <1>4, <2>1, <2>2
  <2>3. CASE M[i] # e
    <3>1. \/ i \in 1 .. n /\ i <= p /\ M[i] = L[i]
          \/ i - 1 \in 1 .. n /\ i - 1 > p /\ M[i] = L[i - 1]
      BY <1>1, <2>3
    <3>2. \/ j \in 1 .. n /\ j <= p /\ M[j] = L[j]
          \/ j - 1 \in 1 .. n /\ j - 1 > p /\ M[j] = L[j - 1]
      BY <1>1, <1>4, <2>3
    <3> QED BY <1>4, <3>1, <3>2
  <2> QED BY <2>2, <2>3
<1>5. IsInjective(M)
  BY <1>4 DEF IsInjective
<1>6. ToSet(M) = ToSet(L) \cup {e}
  <2>1. ASSUME NEW c \in ToSet(M) PROVE c \in ToSet(L) \cup {e}
    <3>1. PICK i \in 1 .. n + 1 : M[i] = c
      BY DEF ToSet
    <3>2. c = e \/ \E k \in 1 .. n : c = L[k]
      BY <1>1, <1>2, <1>3, <3>1
    <3> QED BY <3>2 DEF ToSet
  <2>2. e \in ToSet(M)
    <3>1. p + 1 \in DOMAIN M
      OBVIOUS
    <3> QED BY <3>1 DEF ToSet
  <2>3. ASSUME NEW c \in ToSet(L) PROVE c \in ToSet(M)
    <3>1. PICK i \in 1 .. n : L[i] = c
      BY DEF ToSet
    <3>2. CASE i \in 1 .. p
      <4>1. i \in DOMAIN M /\ M[i] = c
        BY <3>1, <3>2
      <4> QED BY <4>1 DEF ToSet
    <3>3. CASE i \in p + 1 .. n
      <4>1. i + 1 \in DOMAIN M /\ M[i + 1] = c
        BY <1>3, <3>1, <3>3
      <4> QED BY <4>1 DEF ToSet
    <3>4. i \in 1 .. p \/ i \in p + 1 .. n
      OBVIOUS
    <3> QED BY <3>2, <3>3, <3>4
  <2> QED BY <2>1, <2>2, <2>3
<1>7. ASSUME NEW i \in 1 .. n + 1 PROVE At(M, M[i]) = i
  <2>1. At(M, M[i]) \in 1 .. n + 1 /\ M[At(M, M[i])] = M[i]
    BY DEF At
  <2> QED BY <1>4, <2>1
<1>8. At(M, e) = p + 1
  <2>1. p + 1 \in 1 .. n + 1
    OBVIOUS
  <2> QED BY <1>7, <2>1
<1>9. ASSUME NEW i \in 1 .. p PROVE At(M, L[i]) = i
  <2>1. i \in 1 .. n + 1 /\ M[i] = L[i]
    OBVIOUS
  <2> QED BY <1>7, <2>1
<1>10. ASSUME NEW i \in p + 1 .. n PROVE At(M, L[i]) = i + 1
  <2>1. M[i + 1] = L[i]
    OBVIOUS
  <2> QED BY <1>3, <1>7, <2>1
<1> QED BY <1>5, <1>6, <1>8, <1>9, <1>10 DEF Positions

(* A new block e put behind b: b is followed by e, e by what followed b,   *)
(* and every other block by what followed it before.                       *)
Follows(L, M, b, e) ==
  /\ IsInjective(M) /\ ToSet(M) = ToSet(L) \cup {e}
  /\ After(M, b) = e /\ After(M, e) = After(L, b)
  /\ \A c \in ToSet(L) \ {b} : After(M, c) = After(L, c)

LEMMA AfterShift ==
  ASSUME NEW n, NEW p, NEW L, NEW M, NEW b, NEW e,
         Grown(L, M, n, p, e),
         \A i, j \in 1 .. n : L[i] = L[j] => i = j,
         b \in ToSet(L), e \notin ToSet(L), p = At(L, b)
  PROVE  Follows(L, M, b, e)
<1> USE DEF Grown
<1>1. \A i \in 1 .. n : L[i] # e
  BY DEF ToSet
<1>2. /\ IsInjective(M) /\ ToSet(M) = ToSet(L) \cup {e}
      /\ At(M, e) = p + 1
      /\ \A i \in 1 .. p : At(M, L[i]) = i
      /\ \A i \in p + 1 .. n : At(M, L[i]) = i + 1
  <2> HIDE DEF Grown
  <2>1. Positions(L, M, n, p, e)
    BY <1>1, Shifted, Zenon
  <2> QED BY <2>1, Zenon DEF Positions
<1>3. \A c \in ToSet(L) : At(L, c) \in 1 .. n /\ L[At(L, c)] = c
  BY DEF ToSet, At
<1>4. L[p] = b /\ p \in 1 .. p
  BY <1>3
<1>5. After(M, b) = e
  BY <1>2, <1>4 DEF After
<1>6. After(M, e) = After(L, b)
  <2>1. CASE p = n
    BY <1>2, <2>1 DEF After
  <2>2. CASE p # n
    <3>1. p + 1 \in p + 1 .. n
      BY <2>2
    <3>2. M[(p + 1) + 1] = L[p + 1]
      BY <3>1
    <3> QED BY <1>2, <2>2, <3>2 DEF After
  <2> QED BY <2>1, <2>2
<1>7. ASSUME NEW c \in ToSet(L) \ {b} PROVE After(M, c) = After(L, c)
  <2>1. PICK i \in 1 .. n : i = At(L, c) /\ L[i] = c /\ i # p
    BY <1>3, <1>4, <1>7
  <2>2. CASE i < p
    <3>1. i \in 1 .. p /\ i + 1 \in 1 .. p
      BY <2>2
    <3>2. At(M, c) = i /\ M[i + 1] = L[i + 1]
      BY <1>2, <2>1, <3>1
    <3> QED BY <2>1, <2>2, <3>2 DEF After
  <2>3. CASE i > p
    <3>1. i \in p + 1 .. n
      BY <2>3
    <3>2. At(M, c) = i + 1
      BY <1>2, <2>1, <3>1
    <3>3. CASE i = n
      BY <2>1, <3>2, <3>3 DEF After
    <3>4. CASE i # n
      <4>1. i + 1 \in p + 1 .. n
        BY <3>1, <3>4
      <4>2. M[(i + 1) + 1] = L[i + 1]
        BY <4>1
      <4> QED BY <2>1, <3>2, <3>4, <4>2 DEF After
    <3> QED BY <3>3, <3>4
  <2> QED BY <2>1, <2>2, <2>3
<1> QED BY <1>2, <1>5, <1>6, <1>7 DEF Follows

LEMMA AfterInsert ==
  ASSUME NEW L \in Seq(Nat), IsInjective(L), NEW b \in ToSet(L),
         NEW e \in Nat, e \notin ToSet(L),
         NEW M, M = InsertAt(L, At(L, b) + 1, e)
  PROVE  M \in Seq(Nat) /\ Len(M) = Len(L) + 1 /\ Follows(L, M, b, e)
<1> DEFINE p == At(L, b)
           q == p + 1
<1>1. p \in DOMAIN L
  BY DEF ToSet, At
<1>2. Len(L) \in Nat /\ DOMAIN L = 1 .. Len(L)
  OBVIOUS
<1> HIDE DEF p
<1>3. q \in Nat
  BY <1>1, <1>2
<1> HIDE DEF q
<1>4. q = p + 1 /\ M = InsertAt(L, q, e)
  BY DEF p, q
<1>5. M \in Seq(Nat) /\ Grown(L, M, Len(L), p, e)
  BY <1>1, <1>3, <1>4, Inserted, Zenon
<1>6. \A i, j \in 1 .. Len(L) : L[i] = L[j] => i = j
  BY <1>2 DEF IsInjective
<1>7. Follows(L, M, b, e)
  BY <1>5, <1>6, AfterShift, Zenon DEF p
<1> QED BY <1>5, <1>7 DEF Grown
-----------------------------------------------------------------------------
(* The program's target g is reached at c: directly, or through a block    *)
(* inserted on the edge.                                                   *)
Via(c, g) == IF c > N THEN succs[c] = {g} ELSE c = g

(* A block returns, or its terminators, its successors and the program     *)
(* agree on where it goes.                                                 *)
BlockOK(b) ==
  \/ succs[b] = {} /\ terms[b] = << >> /\ b \notin DOMAIN goal
  \/ \E y, n \in Blocks :
       /\ succs[b] = {y, n} /\ Form(terms[b], y, n, LayoutSuccessor(b))
       /\ b \in DOMAIN goal => Via(y, goal[b].yes) /\ Via(n, goal[b].no)

(* The inductive invariant.  An inserted block has one successor, a block  *)
(* of the program, and one predecessor: an edge is never split twice.      *)
Inv ==
  /\ layout \in Seq(Nat) /\ N <= Len(layout) /\ Len(layout) <= MaxBlocks
  /\ IsInjective(layout) /\ Blocks = 1 .. Len(layout)
  /\ DOMAIN terms = Blocks /\ DOMAIN succs = Blocks /\ DOMAIN goal = 1 .. N - 1
  /\ \A b \in Blocks : BlockOK(b)
  /\ \A c \in Blocks : c > N => \E s \in 1 .. N : succs[c] = {s}
  /\ \A c, p, q \in Blocks : c > N /\ c \in succs[p] /\ c \in succs[q] => p = q

(* The positions of the initial layout.                                    *)
LEMMA InitialLayout ==
  ASSUME NEW L, L = [i \in 1 .. N |-> i]
  PROVE  /\ L \in Seq(Nat) /\ Len(L) = N /\ IsInjective(L) /\ ToSet(L) = 1 .. N
         /\ \A b \in 1 .. N - 1 : After(L, b) = b + 1
<1>1. N \in Nat
  BY BlockNumbers
<1>2. L \in Seq(Nat) /\ Len(L) = N /\ DOMAIN L = 1 .. N
  BY <1>1
<1>3. IsInjective(L) /\ ToSet(L) = 1 .. N
  BY DEF IsInjective, ToSet
<1>4. ASSUME NEW b \in 1 .. N - 1 PROVE After(L, b) = b + 1
  <2>1. b \in 1 .. N /\ b + 1 \in 1 .. N /\ b # N
    BY <1>1
  <2>2. At(L, b) = b
    BY <2>1 DEF At
  <2> QED BY <1>2, <2>1, <2>2 DEF After
<1> QED BY <1>2, <1>3, <1>4

LEMMA LoweredFits ==
  ASSUME NEW g, NEW next
  PROVE  Form(Lowered(g, next), g.yes, g.no, next)
  BY DEF Form, Lowered

(* LayoutSuccessor is After, now and after a step.                         *)
LEMMA SuccessorIsAfter ==
  ASSUME NEW b
  PROVE  LayoutSuccessor(b) = After(layout, b) /\ LayoutSuccessor(b)' = After(layout', b)
  BY DEF LayoutSuccessor, Position, After, At

LEMMA InitInv == Init => Inv
<1> SUFFICES ASSUME Init PROVE Inv
  OBVIOUS
<1>1. N \in Nat \ {0} /\ MaxBlocks \in Nat /\ N <= MaxBlocks
  BY BlockNumbers
<1>2. /\ layout \in Seq(Nat) /\ Len(layout) = N /\ IsInjective(layout)
      /\ Blocks = 1 .. N
      /\ \A b \in 1 .. N - 1 : After(layout, b) = b + 1
  BY InitialLayout DEF Init, Blocks
<1>3. DOMAIN terms = 1 .. N /\ DOMAIN succs = 1 .. N /\ DOMAIN goal = 1 .. N - 1
  BY DEF Init
<1>4. \A b \in 1 .. N - 1 : goal[b].yes \in 1 .. N /\ goal[b].no \in 1 .. N
  BY DEF Init
<1>5. ASSUME NEW b \in 1 .. N PROVE BlockOK(b)
  <2>1. CASE b = N
    <3>1. succs[b] = {} /\ terms[b] = << >> /\ b \notin 1 .. N - 1
      BY <1>1, <2>1 DEF Init
    <3> QED BY <1>3, <3>1 DEF BlockOK
  <2>2. CASE b # N
    <3>1. b \in 1 .. N - 1
      BY <1>1, <2>2
    <3>2. terms[b] = Lowered(goal[b], b + 1) /\ succs[b] = {goal[b].yes, goal[b].no}
      BY <2>2 DEF Init
    <3>3. Form(terms[b], goal[b].yes, goal[b].no, LayoutSuccessor(b))
      BY <1>2, <3>1, <3>2, LoweredFits, SuccessorIsAfter
    <3>4. Via(goal[b].yes, goal[b].yes) /\ Via(goal[b].no, goal[b].no)
      BY <1>1, <1>4, <3>1 DEF Via
    <3> QED BY <1>2, <1>4, <3>1, <3>2, <3>3, <3>4 DEF BlockOK
  <2> QED BY <2>1, <2>2
<1>6. \A c \in Blocks : ~(c > N)
  BY <1>1, <1>2
<1> QED BY <1>1, <1>2, <1>3, <1>5, <1>6 DEF Inv

(* The terminators of the source of a split edge: y and n are its targets, *)
(* s is the one that new replaces.                                         *)
Redirect(d, s, new) == IF d = s THEN new ELSE d

LEMMA ReplaceIf ==
  ASSUME NEW d, NEW s, NEW new
  PROVE  ReplaceUses(<< Pjumpif(d) >>, s, new) = << Pjumpif(Redirect(d, s, new)) >>
  BY DEF ReplaceUses, Redirect, Pjumpif

LEMMA ReplaceIfTo ==
  ASSUME NEW d, NEW e, NEW s, NEW new
  PROVE  ReplaceUses(<< Pjumpif(d), Pjumpto(e) >>, s, new)
           = << Pjumpif(Redirect(d, s, new)), Pjumpto(Redirect(e, s, new)) >>
  BY DEF ReplaceUses, Redirect, Pjumpif, Pjumpto

LEMMA SourceFits ==
  ASSUME NEW y \in Nat, NEW n \in Nat, NEW s \in {y, n}, NEW new \in Nat, NEW ts, NEW next,
         y # n, new # y, new # n, y # NoBlock, n # NoBlock, new # NoBlock,
         Form(ts, y, n, next)
  PROVE  Form(UpdateTerminator(ReplaceUses(ts, s, new), ({y, n} \ {s}) \cup {new}, new),
              Redirect(y, s, new), Redirect(n, s, new), new)
<1>1. CASE s = y /\ ts = << Pjumpif(y) >>
  <2>1. ReplaceUses(ts, s, new) = << Pjumpif(new) >> /\ ({y, n} \ {s}) \cup {new} = {n, new}
    BY <1>1, ReplaceIf DEF Redirect
  <2>2. UpdateTerminator(<< Pjumpif(new) >>, {n, new}, new) = << Pjumpif(new), Pjumpto(n) >>
    BY UpdateIfToNew
  <2>3. Redirect(y, s, new) = new /\ Redirect(n, s, new) = n
    BY <1>1 DEF Redirect
  <2> QED BY <2>1, <2>2, <2>3 DEF Form
<1>2. CASE s = n /\ ts = << Pjumpif(y) >>
  <2>1. ReplaceUses(ts, s, new) = << Pjumpif(y) >> /\ ({y, n} \ {s}) \cup {new} = {y, new}
    BY <1>2, ReplaceIf DEF Redirect
  <2>2. UpdateTerminator(<< Pjumpif(y) >>, {y, new}, new) = << Pjumpif(y) >>
    BY UpdateIfFallsToNew
  <2>3. Redirect(y, s, new) = y /\ Redirect(n, s, new) = new
    BY <1>2 DEF Redirect
  <2> QED BY <2>1, <2>2, <2>3 DEF Form
<1>3. CASE s = y /\ ts = << Pjumpif(y), Pjumpto(n) >>
  <2>1. /\ ReplaceUses(ts, s, new) = << Pjumpif(new), Pjumpto(n) >>
        /\ ({y, n} \ {s}) \cup {new} = {n, new}
    BY <1>3, ReplaceIfTo DEF Redirect
  <2>2. UpdateTerminator(<< Pjumpif(new), Pjumpto(n) >>, {n, new}, new)
          = << Pjumpif(new), Pjumpto(n) >>
    BY UpdateIfNewTo
  <2>3. Redirect(y, s, new) = new /\ Redirect(n, s, new) = n
    BY <1>3 DEF Redirect
  <2> QED BY <2>1, <2>2, <2>3 DEF Form
<1>4. CASE s = n /\ ts = << Pjumpif(y), Pjumpto(n) >>
  <2>1. /\ ReplaceUses(ts, s, new) = << Pjumpif(y), Pjumpto(new) >>
        /\ ({y, n} \ {s}) \cup {new} = {y, new}
    BY <1>4, ReplaceIfTo DEF Redirect
  <2>2. UpdateTerminator(<< Pjumpif(y), Pjumpto(new) >>, {y, new}, new) = << Pjumpif(y) >>
    BY UpdateIfToToNew
  <2>3. Redirect(y, s, new) = y /\ Redirect(n, s, new) = new
    BY <1>4 DEF Redirect
  <2> QED BY <2>1, <2>2, <2>3 DEF Form
<1>5. ts = << Pjumpif(y) >> \/ ts = << Pjumpif(y), Pjumpto(n) >>
  BY DEF Form
<1> QED BY <1>1, <1>2, <1>3, <1>4, <1>5

LEMMA NewBlockFits ==
  ASSUME NEW s, NEW next
  PROVE  Form(BranchesOfNewBlock(s, next), s, s, next)
<1>1. << >> \o << Pjumpto(s) >> = << Pjumpto(s) >>
  OBVIOUS
<1> QED BY <1>1 DEF Form, BranchesOfNewBlock, InsertBranch

(* One split.                                                              *)
LEMMA SplitInv ==
  ASSUME Inv, NEW b \in Blocks, NEW s \in succs[b], SplitCriticalEdge(b, s),
         NEW new, new = Len(layout) + 1
  PROVE  Inv'
<1> DEFINE ss == (succs[b] \ {s}) \cup {new}
<1>1. N \in Nat \ {0} /\ Len(layout) \in Nat /\ new \in Nat /\ Len(layout) < MaxBlocks
      /\ new > N /\ Blocks = 1 .. Len(layout) /\ new \notin Blocks
  BY BlockNumbers DEF Inv, SplitCriticalEdge
<1>2. \A c \in Blocks : succs[c] \subseteq Blocks
  BY DEF Inv, BlockOK
<1>3. s \in Blocks /\ s <= N
  <2>1. PICK p \in Blocks \ {b} : s \in succs[p]
    BY DEF SplitCriticalEdge, Critical
  <2> QED BY <1>1, <1>2, <2>1 DEF Inv
<1>4. b <= N
  BY <1>1 DEF Inv, SplitCriticalEdge, Critical
<1>5. layout' = InsertAt(layout, At(layout, b) + 1, new)
  BY DEF SplitCriticalEdge, NewBlock, Position, At
<1>6. layout' \in Seq(Nat) /\ Len(layout') = new /\ Follows(layout, layout', b, new)
  <2>1. layout \in Seq(Nat) /\ IsInjective(layout) /\ Blocks = ToSet(layout)
    BY DEF Inv, Blocks
  <2>2. layout' \in Seq(Nat) /\ Len(layout') = Len(layout) + 1 /\ Follows(layout, layout', b, new)
    <3>1. b \in ToSet(layout) /\ new \notin ToSet(layout) /\ new \in Nat
      BY <1>1, <2>1
    <3> QED BY <1>5, <2>1, <3>1, AfterInsert
  <2> QED BY <2>2
<1>7. /\ IsInjective(layout') /\ Blocks' = Blocks \cup {new} /\ Blocks' = 1 .. new
      /\ LayoutSuccessor(b)' = new /\ LayoutSuccessor(new)' = LayoutSuccessor(b)
      /\ \A c \in Blocks \ {b} : LayoutSuccessor(c)' = LayoutSuccessor(c)
  <2>1. Blocks' = Blocks \cup {new}
    BY <1>6 DEF Follows, Blocks
  <2>2. Blocks \cup {new} = 1 .. new
    BY <1>1
  <2>3. LayoutSuccessor(b)' = new /\ LayoutSuccessor(new)' = LayoutSuccessor(b)
    BY <1>6, SuccessorIsAfter DEF Follows
  <2>4. ASSUME NEW c \in Blocks \ {b} PROVE LayoutSuccessor(c)' = LayoutSuccessor(c)
    <3>1. After(layout', c) = After(layout, c)
      BY <1>6 DEF Follows, Blocks
    <3> QED BY <3>1, SuccessorIsAfter
  <2> QED BY <1>6, <2>1, <2>2, <2>3, <2>4 DEF Follows
<1>8. /\ DOMAIN succs' = Blocks' /\ DOMAIN terms' = Blocks' /\ goal' = goal
      /\ succs'[b] = ss /\ succs'[new] = {s}
      /\ terms'[b] = UpdateTerminator(ReplaceUses(terms[b], s, new), ss, new)
      /\ terms'[new] = BranchesOfNewBlock(s, LayoutSuccessor(b))
      /\ \A c \in Blocks \ {b} : succs'[c] = succs[c] /\ terms'[c] = terms[c]
  BY <1>1, <1>7 DEF SplitCriticalEdge, NewBlock
<1>9. ASSUME NEW c \in Blocks, NEW g, c # s, Via(c, g) PROVE Via(c, g)'
  <2>1. CASE c > N
    <3>1. succs'[c] = succs[c]
      BY <1>1, <1>4, <1>8, <2>1
    <3> QED BY <1>9, <2>1, <3>1 DEF Via
  <2>2. CASE ~(c > N)
    BY <1>9, <2>2 DEF Via
  <2> QED BY <2>1, <2>2
<1>10. ASSUME NEW g, Via(s, g) PROVE Via(new, g)' /\ Via(s, g)'
  <2>1. g = s
    BY <1>1, <1>3, <1>10 DEF Via
  <2> QED BY <1>1, <1>3, <1>8, <2>1 DEF Via
<1>11. BlockOK(b)'
  <2>1. PICK y, n \in Blocks :
          /\ succs[b] = {y, n} /\ Form(terms[b], y, n, LayoutSuccessor(b))
          /\ b \in DOMAIN goal => Via(y, goal[b].yes) /\ Via(n, goal[b].no)
    BY DEF Inv, BlockOK
  <2>2. y # n /\ s \in {y, n} /\ new # y /\ new # n
    BY <1>1, <2>1 DEF SplitCriticalEdge, Critical
  <2>3. y \in Nat /\ n \in Nat /\ y # NoBlock /\ n # NoBlock /\ new # NoBlock
    BY <1>1 DEF NoBlock
  <2>0. PICK y1, n1 : y1 = Redirect(y, s, new) /\ n1 = Redirect(n, s, new)
    OBVIOUS
  <2>4. Form(terms'[b], y1, n1, new)
    BY <1>1, <1>8, <2>0, <2>1, <2>2, <2>3, SourceFits
  <2>5. y1 \in Blocks' /\ n1 \in Blocks' /\ succs'[b] = {y1, n1}
    BY <1>7, <1>8, <2>0, <2>1, <2>2 DEF Redirect
  <2>6. ASSUME NEW c \in {y, n}, NEW g, Via(c, g) PROVE Via(Redirect(c, s, new), g)'
    <3>1. CASE c = s
      BY <1>10, <2>6, <3>1 DEF Redirect
    <3>2. CASE c # s
      BY <1>9, <2>6, <3>2 DEF Redirect
    <3> QED BY <3>1, <3>2
  <2>7. ASSUME b \in DOMAIN goal'
        PROVE  Via(y1, goal[b].yes)' /\ Via(n1, goal[b].no)'
    <3>1. Via(y, goal[b].yes) /\ Via(n, goal[b].no)
      BY <1>8, <2>1, <2>7
    <3>2. Via(y1, goal[b].yes)'
      BY <1>8, <2>0, <2>6, <3>1
    <3> QED BY <1>8, <2>0, <2>6, <3>1, <3>2
  <2> QED BY <1>7, <2>4, <2>5, <2>7 DEF BlockOK, Form, Via
<1>12. BlockOK(new)'
  <2>1. Form(terms'[new], s, s, LayoutSuccessor(new)')
    BY <1>7, <1>8, NewBlockFits
  <2>2. new \notin DOMAIN goal' /\ succs'[new] = {s, s} /\ s \in Blocks'
    BY <1>1, <1>3, <1>7, <1>8 DEF Inv
  <2> QED BY <2>1, <2>2 DEF BlockOK, Form
<1>13. ASSUME NEW c \in Blocks \ {b} PROVE BlockOK(c)'
  <2>1. CASE succs[c] = {} /\ terms[c] = << >> /\ c \notin DOMAIN goal
    BY <1>8, <2>1 DEF BlockOK
  <2>2. CASE \E y, n \in Blocks :
               /\ succs[c] = {y, n} /\ Form(terms[c], y, n, LayoutSuccessor(c))
               /\ c \in DOMAIN goal => Via(y, goal[c].yes) /\ Via(n, goal[c].no)
    <3>1. PICK y, n \in Blocks :
            /\ succs[c] = {y, n} /\ Form(terms[c], y, n, LayoutSuccessor(c))
            /\ c \in DOMAIN goal => Via(y, goal[c].yes) /\ Via(n, goal[c].no)
      BY <2>2
    <3>2. succs'[c] = {y, n} /\ Form(terms'[c], y, n, LayoutSuccessor(c)')
      BY <1>7, <1>8, <3>1
    <3>3. ASSUME c \in DOMAIN goal'
          PROVE  Via(y, goal[c].yes)' /\ Via(n, goal[c].no)'
      <4>1. Via(y, goal[c].yes) /\ Via(n, goal[c].no) /\ goal' = goal
        BY <1>8, <3>1, <3>3
      <4>2. Via(y, goal[c].yes)'
        BY <1>9, <1>10, <4>1
      <4> QED BY <1>9, <1>10, <4>1, <4>2
    <3>4. y \in Blocks' /\ n \in Blocks'
      BY <1>7
    <3> QED BY <3>2, <3>3, <3>4 DEF BlockOK, Form, Via
  <2> QED BY <2>1, <2>2 DEF Inv, BlockOK
<1>14. \A c \in Blocks' : BlockOK(c)'
  BY <1>7, <1>11, <1>12, <1>13
<1>15. ASSUME NEW c \in Blocks', c > N PROVE \E t \in 1 .. N : succs'[c] = {t}
  <2>1. CASE c = new
    BY <1>1, <1>3, <1>8, <2>1
  <2>2. CASE c # new
    <3>1. c \in Blocks \ {b}
      BY <1>1, <1>4, <1>7, <1>15, <2>2
    <3> QED BY <1>8, <1>15, <3>1 DEF Inv
  <2> QED BY <2>1, <2>2
<1>16. ASSUME NEW c \in Blocks', NEW p \in Blocks', NEW q \in Blocks',
              c > N, c \in succs'[p], c \in succs'[q]
       PROVE  p = q
  <2>1. CASE c = new
    <3>1. \A r \in Blocks' : new \in succs'[r] => r = b
      BY <1>1, <1>2, <1>3, <1>7, <1>8
    <3> QED BY <1>16, <2>1, <3>1
  <2>2. CASE c # new
    <3>1. \A r \in Blocks' : c \in succs'[r] => r \in Blocks /\ c \in succs[r]
      BY <1>1, <1>3, <1>7, <1>8, <1>16, <2>2
    <3>2. c \in Blocks
      BY <1>7, <2>2
    <3> QED BY <1>16, <3>1, <3>2 DEF Inv
  <2> QED BY <2>1, <2>2
<1>17. N <= Len(layout') /\ Len(layout') <= MaxBlocks /\ Blocks' = 1 .. Len(layout')
  BY <1>1, <1>6, <1>7, BlockNumbers
<1>18. DOMAIN goal' = 1 .. N - 1
  BY <1>8 DEF Inv
<1> QED BY <1>6, <1>7, <1>8, <1>14, <1>15, <1>16, <1>17, <1>18 DEF Inv

LEMMA NextInv == Inv /\ [Next]_vars => Inv'
<1> SUFFICES ASSUME Inv, [Next]_vars PROVE Inv'
  OBVIOUS
<1>1. CASE Next
  BY <1>1, SplitInv DEF Next
<1>2. CASE UNCHANGED vars
  <2>1. layout' = layout /\ terms' = terms /\ succs' = succs /\ goal' = goal
    BY <1>2 DEF vars
  <2>2. Blocks' = Blocks
    BY <2>1 DEF Blocks
  <2>3. ASSUME NEW b \in Blocks PROVE BlockOK(b)'
    <3>1. LayoutSuccessor(b)' = LayoutSuccessor(b)
      BY <2>1 DEF LayoutSuccessor, Position
    <3>2. BlockOK(b)
      BY DEF Inv
    <3> QED BY <2>1, <2>2, <3>1, <3>2 DEF BlockOK, Form, Via
  <2> QED BY <2>1, <2>2, <2>3 DEF Inv
<1> QED BY <1>1, <1>2

LEMMA Invariance == Spec => []Inv
  BY InitInv, NextInv, PTL DEF Spec

(* Every jump goes to a block of the function, and no block number is      *)
(* given out twice.                                                        *)
THEOREM TypeCorrect == Spec => []TypeOK
<1>1. ASSUME Inv PROVE TypeOK
  <2>1. ASSUME NEW b \in Blocks, NEW t \in ToSet(terms[b]) PROVE t.dest \in Blocks
    <3>1. terms[b] # << >>
      BY DEF ToSet
    <3>2. PICK y, n \in Blocks : Form(terms[b], y, n, LayoutSuccessor(b))
      BY <1>1, <3>1 DEF Inv, BlockOK
    <3> QED BY <2>1, <3>2 DEF Form, ToSet, Pjumpto, Pjumpif
  <2> QED BY <1>1, <2>1 DEF Inv, TypeOK
<1> QED BY <1>1, Invariance, PTL

(* The successor lists say what the terminators do.                        *)
THEOREM SuccessorListsAgree == Spec => []SuccessorsAgree
<1>1. ASSUME Inv PROVE SuccessorsAgree
  <2>1. ASSUME NEW b \in Blocks, succs[b] # {}
        PROVE  succs[b] = {Goes(b, TRUE), Goes(b, FALSE)}
    BY <1>1, <2>1, FormGoes DEF Inv, BlockOK
  <2> QED BY <2>1 DEF SuccessorsAgree
<1> QED BY <1>1, Invariance, PTL

(* Every block continues where the program says, for both values of its    *)
(* condition, however many edges were split.                               *)
THEOREM TargetsKept == Spec => []BranchesKept
<1>1. ASSUME Inv PROVE BranchesKept
  <2>1. N \in Nat \ {0} /\ DOMAIN goal = 1 .. N - 1 /\ DOMAIN goal \subseteq Blocks
    BY <1>1, BlockNumbers DEF Inv
  <2>2. ASSUME NEW c \in Blocks, NEW g, Via(c, g), c > N
        PROVE  Goes(c, TRUE) = g /\ Goes(c, FALSE) = g
    <3>1. succs[c] = {g}
      BY <2>2 DEF Via
    <3>2. PICK y, n \in Blocks : succs[c] = {y, n} /\ Form(terms[c], y, n, LayoutSuccessor(c))
      BY <1>1, <3>1 DEF Inv, BlockOK
    <3>3. y = g /\ n = g
      BY <3>1, <3>2
    <3> QED BY <3>2, <3>3, FormGoes
  <2>3. ASSUME NEW b \in DOMAIN goal
        PROVE  Arrives(b, TRUE) = goal[b].yes /\ Arrives(b, FALSE) = goal[b].no
    <3>1. PICK y, n \in Blocks :
            /\ Form(terms[b], y, n, LayoutSuccessor(b))
            /\ Via(y, goal[b].yes) /\ Via(n, goal[b].no)
      BY <1>1, <2>1 DEF Inv, BlockOK
    <3>2. Goes(b, TRUE) = y /\ Goes(b, FALSE) = n
      BY <3>1, FormGoes
    <3>3. Arrives(b, TRUE) = goal[b].yes
      BY <2>2, <3>1, <3>2 DEF Arrives, Via
    <3>4. Arrives(b, FALSE) = goal[b].no
      BY <2>2, <3>1, <3>2 DEF Arrives, Via
    <3> QED BY <3>3, <3>4
  <2> QED BY <2>3 DEF BranchesKept
<1> QED BY <1>1, Invariance, PTL

(* However many edges were split, analyzeBranch reports the successors of  *)
(* every block.                                                            *)
THEOREM AlwaysUnderstood == Spec => []BranchesUnderstood
<1>1. ASSUME Inv PROVE BranchesUnderstood
  <2> SUFFICES ASSUME NEW b \in Blocks, succs[b] # {}
               PROVE  LET a     == AnalyzeBranch(terms[b])
                          Or(d) == IF d = NoBlock THEN LayoutSuccessor(b) ELSE d
                      IN  /\ ~a.fails
                          /\ IF a.Cond
                             THEN succs[b] = {a.TBB, Or(a.FBB)} /\ a.TBB # Or(a.FBB)
                             ELSE succs[b] = {Or(a.TBB)}
    BY DEF BranchesUnderstood
  <2> DEFINE next == LayoutSuccessor(b)
  <2>1. PICK y, n \in Blocks : succs[b] = {y, n} /\ Form(terms[b], y, n, next)
    BY <1>1 DEF Inv, BlockOK
  <2>2. y \in Nat /\ n \in Nat /\ y # NoBlock /\ n # NoBlock
    BY <1>1 DEF Inv, NoBlock
  <2> DEFINE Or(d) == IF d = NoBlock THEN next ELSE d
             a == AnalyzeBranch(terms[b])
  <2>3. CASE terms[b] = << >> /\ y = next /\ n = next
    <3>1. a = [fails |-> FALSE, TBB |-> NoBlock, FBB |-> NoBlock, Cond |-> FALSE]
      BY <2>2, <2>3, AnalyzeNone
    <3> HIDE DEF a
    <3>2. a.fails = FALSE /\ a.Cond = FALSE
      BY <3>1
    <3>3. a.TBB = NoBlock /\ a.FBB = NoBlock
      BY <3>1
    <3>4. /\ ~a.fails
          /\ IF a.Cond
             THEN succs[b] = {a.TBB, Or(a.FBB)} /\ a.TBB # Or(a.FBB)
             ELSE succs[b] = {Or(a.TBB)}
      BY <2>1, <2>2, <2>3, <3>2, <3>3
    <3> QED BY <3>4 DEF a
  <2>4. CASE terms[b] = << Pjumpto(n) >> /\ y = n
    <3>1. a = [fails |-> FALSE, TBB |-> n, FBB |-> NoBlock, Cond |-> FALSE]
      BY <2>2, <2>4, AnalyzeTo
    <3> HIDE DEF a
    <3>2. a.fails = FALSE /\ a.Cond = FALSE
      BY <3>1
    <3>3. a.TBB = n /\ a.FBB = NoBlock
      BY <3>1
    <3>4. /\ ~a.fails
          /\ IF a.Cond
             THEN succs[b] = {a.TBB, Or(a.FBB)} /\ a.TBB # Or(a.FBB)
             ELSE succs[b] = {Or(a.TBB)}
      BY <2>1, <2>2, <2>4, <3>2, <3>3
    <3> QED BY <3>4 DEF a
  <2>5. CASE terms[b] = << Pjumpif(y) >> /\ n = next /\ y # n
    <3>1. a = [fails |-> FALSE, TBB |-> y, FBB |-> NoBlock, Cond |-> TRUE]
      BY <2>2, <2>5, AnalyzeIf
    <3> HIDE DEF a
    <3>2. a.fails = FALSE /\ a.Cond = TRUE
      BY <3>1
    <3>3. a.TBB = y /\ a.FBB = NoBlock
      BY <3>1
    <3>4. /\ ~a.fails
          /\ IF a.Cond
             THEN succs[b] = {a.TBB, Or(a.FBB)} /\ a.TBB # Or(a.FBB)
             ELSE succs[b] = {Or(a.TBB)}
      BY <2>1, <2>2, <2>5, <3>2, <3>3
    <3> QED BY <3>4 DEF a
  <2>6. CASE terms[b] = << Pjumpif(y), Pjumpto(n) >> /\ y # n
    <3>1. a = [fails |-> FALSE, TBB |-> y, FBB |-> n, Cond |-> TRUE]
      BY <2>2, <2>6, AnalyzeIfTo
    <3> HIDE DEF a
    <3>2. a.fails = FALSE /\ a.Cond = TRUE
      BY <3>1
    <3>3. a.TBB = y /\ a.FBB = n
      BY <3>1
    <3>4. /\ ~a.fails
          /\ IF a.Cond
             THEN succs[b] = {a.TBB, Or(a.FBB)} /\ a.TBB # Or(a.FBB)
             ELSE succs[b] = {Or(a.TBB)}
      BY <2>1, <2>2, <2>6, <3>2, <3>3
    <3> QED BY <3>4 DEF a
  <2> QED BY <2>1, <2>3, <2>4, <2>5, <2>6 DEF Form
<1> QED BY <1>1, Invariance, PTL
=============================================================================
