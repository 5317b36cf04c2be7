---------------------------- MODULE VRegToMemProofs ----------------------------
(***************************************************************************)
(* EVMArgumentMove and EVMVRegToMem are right for every function: any      *)
(* number of arguments selected in any order, any control flow.            *)
(***************************************************************************)
EXTENDS VRegToMem, FiniteSetTheorems, TLAPS

(* e lists the n numbers of K in increasing order.                         *)
Enumerates(e, n, K) ==
  /\ n \in Nat
  /\ e \in [1 .. n -> K]
  /\ \A i, j \in 1 .. n : i < j => e[i] < e[j]
  /\ \A x \in K : \E k \in 1 .. n : e[k] = x

LEMMA SmallerThan ==
  ASSUME NEW K \in SUBSET Nat, IsFiniteSet(K), NEW i \in K
  PROVE  /\ Cardinality({ j \in K : j < i }) \in 0 .. Cardinality(K) - 1
         /\ \A k \in K : i < k =>
              Cardinality({ j \in K : j < i }) < Cardinality({ j \in K : j < k })
<1> DEFINE L(x) == { j \in K : j < x }
<1>1. \A x : IsFiniteSet(L(x)) /\ Cardinality(L(x)) \in Nat
  <2> TAKE x
  <2>1. L(x) \in SUBSET K
    OBVIOUS
  <2> HIDE DEF L
  <2> QED BY <2>1, FS_Subset, FS_CardinalityType
<1>2. Cardinality(L(i)) < Cardinality(K)
  <2>1. L(i) \in SUBSET K /\ L(i) # K
    OBVIOUS
  <2>2. Cardinality(K) \in Nat
    BY FS_CardinalityType
  <2> HIDE DEF L
  <2>3. Cardinality(L(i)) <= Cardinality(K) /\ Cardinality(L(i)) # Cardinality(K)
    BY <2>1, FS_Subset
  <2> QED BY <1>1, <2>2, <2>3
<1>3. ASSUME NEW k \in K, i < k
      PROVE  Cardinality(L(i)) < Cardinality(L(k))
  <2>1. L(i) \in SUBSET L(k) /\ L(i) # L(k)
    <3>1. i \in L(k) /\ i \notin L(i)
      <4>1. i \in Nat
        OBVIOUS
      <4>2. ~ (i < i)
        BY <4>1
      <4> QED BY <4>2, <1>3
    <3>2. L(i) \subseteq L(k)
      <4> SUFFICES ASSUME NEW j \in K, j < i PROVE j < k
        OBVIOUS
      <4>1. i \in Nat /\ j \in Nat /\ k \in Nat
        OBVIOUS
      <4> QED BY <4>1, <1>3
    <3> QED BY <3>1, <3>2
  <2>2. IsFiniteSet(L(k))
    BY <1>1
  <2> HIDE DEF L
  <2>3. Cardinality(L(i)) <= Cardinality(L(k)) /\ Cardinality(L(i)) # Cardinality(L(k))
    BY <2>1, <2>2, FS_Subset
  <2> QED BY <1>1, <2>3
<1> QED BY <1>1, <1>2, <1>3, FS_CardinalityType

LEMMA EnumerationExists ==
  ASSUME NEW K \in SUBSET Nat, IsFiniteSet(K)
  PROVE  Enumerates(Increasing(K), Cardinality(K), K)
<1> DEFINE n == Cardinality(K)
           rank(i) == Cardinality({ j \in K : j < i })
           g == [i \in K |-> rank(i) + 1]
           e == Increasing(K)
<1>1. n \in Nat
  BY FS_CardinalityType
<1>2. \A i \in K : rank(i) \in 0 .. n - 1
  BY SmallerThan
<1>3. \A i, k \in K : i < k => rank(i) < rank(k)
  BY SmallerThan
<1>4. e = [k \in 1 .. n |-> CHOOSE i \in K : rank(i) = k - 1]
  BY DEF Increasing
<1> HIDE DEF rank, n, e
<1>5. \A i, k \in K : rank(i) = rank(k) => i = k
  <2> SUFFICES ASSUME NEW i \in K, NEW k \in K, rank(i) = rank(k), i # k PROVE FALSE
    OBVIOUS
  <2>1. i < k \/ k < i
    OBVIOUS
  <2> QED BY <2>1, <1>2, <1>3
<1>6. g \in Injection(K, 1 .. n)
  <2>1. g \in [K -> 1 .. n]
    BY <1>1, <1>2
  <2>2. \A i, k \in K : g[i] = g[k] => i = k
    BY <1>2, <1>5
  <2> QED BY <2>1, <2>2 DEF Injection, IsInjective
<1>7. g \in Surjection(K, 1 .. n)
  <2>1. IsFiniteSet(1 .. n) /\ Cardinality(1 .. n) = n
    <3>1. 1 \in Int /\ n \in Int
      BY <1>1
    <3> QED BY <3>1, <1>1, FS_Interval
  <2> HIDE DEF g
  <2> QED BY <1>6, <2>1, FS_Injection DEF n
<1>8. \A k \in 1 .. n : e[k] \in K /\ rank(e[k]) = k - 1
  <2> TAKE k \in 1 .. n
  <2>1. PICK i \in K : g[i] = k
    BY <1>7 DEF Surjection
  <2>2. rank(i) = k - 1
    BY <2>1, <1>1, <1>2
  <2> QED BY <2>2, <1>4
<1>9. \A i, j \in 1 .. n : i < j => e[i] < e[j]
  <2> TAKE i, j \in 1 .. n
  <2> HAVE i < j
  <2>1. rank(e[i]) = i - 1 /\ rank(e[j]) = j - 1
    BY <1>8
  <2>2. e[i] \in Nat /\ e[j] \in Nat
    BY <1>8
  <2>3. ~ (e[j] < e[i]) /\ e[i] # e[j]
    <3>1. i - 1 < j - 1 /\ i - 1 # j - 1 /\ ~ (j - 1 < i - 1)
      OBVIOUS
    <3>2. e[i] \in K /\ e[j] \in K
      BY <1>8
    <3>3. e[j] < e[i] => j - 1 < i - 1
      BY <2>1, <3>2, <1>3
    <3> QED BY <2>1, <3>1, <3>3
  <2> QED BY <2>2, <2>3
<1>10. \A x \in K : \E k \in 1 .. n : e[k] = x
  <2> TAKE x \in K
  <2>1. rank(x) + 1 \in 1 .. n
    BY <1>1, <1>2
  <2>2. rank(e[rank(x) + 1]) = rank(x)
    BY <2>1, <1>2, <1>8
  <2> QED BY <2>1, <2>2, <1>5, <1>8
<1>11. e \in [1 .. n -> K]
  BY <1>4, <1>8
<1> QED BY <1>1, <1>9, <1>10, <1>11 DEF Enumerates, e, n

LEMMA EnumerationUnique ==
  ASSUME NEW K \in SUBSET Nat, NEW f, NEW m, Enumerates(f, m, K)
  PROVE  Cardinality(K) = m /\ Increasing(K) = f /\ IsFiniteSet(K)
<1> DEFINE rank(i) == Cardinality({ j \in K : j < i })
<1>1. m \in Nat /\ f \in [1 .. m -> K] /\ \A i, j \in 1 .. m : f[i] = f[j] => i = j
  <2>1. \A i, j \in 1 .. m : i < j => f[i] # f[j]
    <3>1. \A i \in 1 .. m : f[i] \in Nat
      BY DEF Enumerates
    <3>2. \A i, j \in 1 .. m : i < j => f[i] < f[j]
      BY DEF Enumerates
    <3> QED BY <3>1, <3>2
  <2>2. \A i, j \in 1 .. m : i # j => i < j \/ j < i
    OBVIOUS
  <2> QED BY <2>1, <2>2 DEF Enumerates
<1>2. ASSUME NEW k \in Nat, k <= m
      PROVE  /\ Cardinality({ f[l] : l \in 1 .. k }) = k
             /\ IsFiniteSet({ f[l] : l \in 1 .. k })
  <2> DEFINE h == [l \in 1 .. k |-> f[l]]
             S == { f[l] : l \in 1 .. k }
  <2>1. h \in Injection(1 .. k, S) /\ h \in Surjection(1 .. k, S)
    BY <1>1, <1>2 DEF Injection, Surjection, IsInjective
  <2>2. IsFiniteSet(1 .. k) /\ Cardinality(1 .. k) = k
    <3>1. 1 \in Int /\ k \in Int
      OBVIOUS
    <3> QED BY <3>1, <1>2, FS_Interval
  <2> HIDE DEF h, S
  <2>3. IsFiniteSet(S) /\ Cardinality(S) = k
    BY <2>1, <2>2, FS_Surjection
  <2> QED BY <2>3 DEF S
<1>3. K = { f[l] : l \in 1 .. m }
  BY DEF Enumerates
<1>4. Cardinality(K) = m /\ IsFiniteSet(K)
  BY <1>1, <1>2, <1>3
<1>5. \A k \in 1 .. m : rank(f[k]) = k - 1
  <2> TAKE k \in 1 .. m
  <2>1. { j \in K : j < f[k] } = { f[l] : l \in 1 .. k - 1 }
    <3>1. \A l \in 1 .. m : f[l] < f[k] <=> l < k
      <4>1. \A l \in 1 .. m : f[l] \in Nat
        BY <1>1
      <4> QED BY <4>1 DEF Enumerates
    <3> QED BY <3>1, <1>1, <1>3
  <2>2. k - 1 \in Nat /\ k - 1 <= m
    BY <1>1
  <2> QED BY <2>1, <2>2, <1>2
<1>6. Enumerates(Increasing(K), m, K)
  BY <1>4, EnumerationExists
<1>7. \A i, k \in K : rank(i) = rank(k) => i = k
  <2> SUFFICES ASSUME NEW i \in K, NEW k \in K, rank(i) = rank(k), i # k PROVE FALSE
    OBVIOUS
  <2>1. i < k \/ k < i
    OBVIOUS
  <2>2. rank(i) < rank(k) \/ rank(k) < rank(i)
    BY <2>1, <1>4, SmallerThan
  <2>3. rank(i) \in Nat /\ rank(k) \in Nat
    BY <1>4, SmallerThan
  <2> HIDE DEF rank
  <2> QED BY <2>2, <2>3
<1>8. Increasing(K) = [k \in 1 .. m |-> CHOOSE i \in K : rank(i) = k - 1]
  BY <1>4 DEF Increasing
<1> HIDE DEF rank
<1>9. \A k \in 1 .. m : Increasing(K)[k] = f[k]
  <2> TAKE k \in 1 .. m
  <2>1. f[k] \in K /\ rank(f[k]) = k - 1
    BY <1>1, <1>5
  <2> DEFINE c == CHOOSE i \in K : rank(i) = k - 1
  <2>2. c \in K /\ rank(c) = k - 1
    BY <2>1
  <2>3. c = f[k]
    BY <2>1, <2>2, <1>7
  <2> QED BY <2>3, <1>8
<1> QED BY <1>1, <1>4, <1>6, <1>9 DEF Enumerates

-----------------------------------------------------------------------------
(* Two sequences put together.                                             *)
LEMMA Concat ==
  ASSUME NEW S, NEW a \in Seq(S), NEW b \in Seq(S)
  PROVE  /\ a \o b \in Seq(S) /\ Len(a \o b) = Len(a) + Len(b)
         /\ \A i \in DOMAIN a : (a \o b)[i] = a[i] /\ i \in DOMAIN (a \o b)
         /\ \A i \in DOMAIN b : (a \o b)[Len(a) + i] = b[i] /\ Len(a) + i \in DOMAIN (a \o b)
         /\ \A j \in DOMAIN (a \o b) : (j \in DOMAIN a) \/ \E i \in DOMAIN b : j = Len(a) + i
<1>1. a \o b \in Seq(S) /\ Len(a \o b) = Len(a) + Len(b)
  OBVIOUS
<1>2. \A i \in DOMAIN a : (a \o b)[i] = a[i] /\ i \in DOMAIN (a \o b)
  OBVIOUS
<1>3. \A i \in DOMAIN b : (a \o b)[Len(a) + i] = b[i] /\ Len(a) + i \in DOMAIN (a \o b)
  OBVIOUS
<1>4. ASSUME NEW j \in DOMAIN (a \o b), j \notin DOMAIN a
      PROVE  \E i \in DOMAIN b : j = Len(a) + i
  <2>1. j - Len(a) \in DOMAIN b /\ j = Len(a) + (j - Len(a))
    BY <1>1, <1>4
  <2> QED BY <2>1
<1> QED BY <1>1, <1>2, <1>3, <1>4

(* What is selected from a sequence.                                       *)
LEMMA FinitePositions ==
  ASSUME NEW S, NEW s \in Seq(S), NEW K \in SUBSET DOMAIN s
  PROVE  K \in SUBSET Nat /\ IsFiniteSet(K)
<1>1. K \in SUBSET (1 .. Len(s)) /\ Len(s) \in Nat
  OBVIOUS
<1>2. IsFiniteSet(1 .. Len(s))
  <2>1. 1 \in Int /\ Len(s) \in Int
    OBVIOUS
  <2> QED BY <2>1, FS_Interval
<1>3. IsFiniteSet(K)
  BY <1>1, <1>2, FS_Subset
<1> QED BY <1>1, <1>3

LEMMA SelectedType ==
  ASSUME NEW S, NEW s \in Seq(S), NEW K \in SUBSET DOMAIN s
  PROVE  /\ Selected(s, K) \in Seq(S)
         /\ Len(Selected(s, K)) = Cardinality(K)
         /\ Cardinality(K) \in Nat
         /\ \A k \in DOMAIN Selected(s, K) : \E i \in K : Selected(s, K)[k] = s[i]
         /\ \A i \in K : \E k \in DOMAIN Selected(s, K) : Selected(s, K)[k] = s[i]
         /\ \A k, l \in DOMAIN Selected(s, K) : k # l =>
              \E i, j \in K : i # j /\ Selected(s, K)[k] = s[i] /\ Selected(s, K)[l] = s[j]
<1> DEFINE n == Cardinality(K)
           e == Increasing(K)
           t == Selected(s, K)
<1>1. K \in SUBSET Nat /\ IsFiniteSet(K) /\ \A i \in K : s[i] \in S
  BY FinitePositions
<1>2. Enumerates(e, n, K)
  BY <1>1, EnumerationExists
<1>3. t = [k \in 1 .. n |-> s[e[k]]]
  BY DEF Selected
<1> HIDE DEF t, e, n
<1>4. n \in Nat /\ \A k \in 1 .. n : e[k] \in K /\ t[k] = s[e[k]]
  BY <1>2, <1>3 DEF Enumerates
<1>5. t \in Seq(S) /\ Len(t) = n
  <2>1. \A k \in 1 .. n : s[e[k]] \in S
    BY <1>1, <1>4
  <2> QED BY <1>3, <1>4, <2>1
<1>6. \A k, l \in 1 .. n : k # l => e[k] # e[l]
  <2>1. \A k, l \in 1 .. n : k < l => e[k] # e[l]
    <3>1. \A k \in 1 .. n : e[k] \in Nat
      BY <1>1, <1>4
    <3>2. \A k, l \in 1 .. n : k < l => e[k] < e[l]
      BY <1>2 DEF Enumerates
    <3> QED BY <3>1, <3>2
  <2>2. \A k, l \in 1 .. n : k # l => k < l \/ l < k
    OBVIOUS
  <2> QED BY <2>1, <2>2
<1>7. DOMAIN t = 1 .. n
  BY <1>3
<1>8. \A i \in K : \E k \in DOMAIN t : t[k] = s[i]
  <2> TAKE i \in K
  <2>1. PICK k \in 1 .. n : e[k] = i
    BY <1>2 DEF Enumerates
  <2> QED BY <2>1, <1>4, <1>7
<1>9. \A k, l \in DOMAIN t : k # l => \E i, j \in K : i # j /\ t[k] = s[i] /\ t[l] = s[j]
  BY <1>4, <1>6, <1>7
<1> QED BY <1>4, <1>5, <1>7, <1>8, <1>9 DEF t, n

LEMMA SelectedBy ==
  ASSUME NEW s, NEW K \in SUBSET Nat, NEW f, NEW m, Enumerates(f, m, K)
  PROVE  Selected(s, K) = [k \in 1 .. m |-> s[f[k]]]
<1>1. Cardinality(K) = m /\ Increasing(K) = f
  BY EnumerationUnique
<1> QED BY <1>1 DEF Selected

LEMMA SelectedNone ==
  ASSUME NEW s
  PROVE  Selected(s, {}) = << >>
<1>1. Enumerates(<< >>, 0, {})
  BY DEF Enumerates
<1>2. Selected(s, {}) = [k \in 1 .. 0 |-> s[<< >>[k]]]
  BY <1>1, SelectedBy
<1> QED BY <1>2

(* Positions in the second part of a sequence.                             *)
LEMMA SelectedBehind ==
  ASSUME NEW S, NEW a \in Seq(S), NEW b \in Seq(S), NEW K \in SUBSET DOMAIN b
  PROVE  Selected(a \o b, { Len(a) + i : i \in K }) = Selected(b, K)
<1> DEFINE n == Cardinality(K)
           e == Increasing(K)
           L == { Len(a) + i : i \in K }
           f == [k \in 1 .. n |-> Len(a) + e[k]]
<1>1. K \in SUBSET Nat /\ IsFiniteSet(K)
  BY FinitePositions
<1>2. Enumerates(e, n, K)
  BY <1>1, EnumerationExists
<1> HIDE DEF e, n
<1>3. n \in Nat /\ \A k \in 1 .. n : e[k] \in K /\ e[k] \in Nat /\ e[k] \in 1 .. Len(b)
  BY <1>1, <1>2 DEF Enumerates
<1>4. L \in SUBSET Nat
  BY <1>1
<1>5. Enumerates(f, n, L)
  <2>1. f \in [1 .. n -> L]
    BY <1>3
  <2>2. \A i, j \in 1 .. n : i < j => f[i] < f[j]
    <3> TAKE i, j \in 1 .. n
    <3> HAVE i < j
    <3>1. e[i] < e[j]
      BY <1>2 DEF Enumerates
    <3>2. f[i] = Len(a) + e[i] /\ f[j] = Len(a) + e[j] /\ Len(a) \in Nat
      OBVIOUS
    <3> QED BY <3>1, <3>2, <1>3
  <2>3. \A x \in L : \E k \in 1 .. n : f[k] = x
    BY <1>2 DEF Enumerates
  <2> QED BY <1>3, <2>1, <2>2, <2>3 DEF Enumerates
<1>6. Selected(a \o b, L) = [k \in 1 .. n |-> (a \o b)[f[k]]]
  BY ZenonT(60), <1>4, <1>5, SelectedBy
<1>7. Selected(b, K) = [k \in 1 .. n |-> b[e[k]]]
  BY <1>1, <1>2, SelectedBy
<1>8. \A k \in 1 .. n : (a \o b)[f[k]] = b[e[k]]
  <2> TAKE k \in 1 .. n
  <2>1. e[k] \in 1 .. Len(b) /\ f[k] = Len(a) + e[k]
    BY <1>3
  <2>2. \A x \in 1 .. Len(b) : (a \o b)[Len(a) + x] = b[x]
    OBVIOUS
  <2> QED BY <2>1, <2>2
<1> QED BY <1>6, <1>7, <1>8

LEMMA SelectedAll ==
  ASSUME NEW S, NEW s \in Seq(S)
  PROVE  Selected(s, DOMAIN s) = s
<1> DEFINE f == [k \in 1 .. Len(s) |-> k]
<1>1. Enumerates(f, Len(s), DOMAIN s) /\ DOMAIN s \in SUBSET Nat
  BY DEF Enumerates
<1>2. Selected(s, DOMAIN s) = [k \in 1 .. Len(s) |-> s[f[k]]]
  BY <1>1, SelectedBy
<1> QED BY <1>2

LEMMA SelectedFront ==
  ASSUME NEW S, NEW a \in Seq(S), NEW b \in Seq(S)
  PROVE  Selected(a \o b, 1 .. Len(a)) = a
<1> DEFINE f == [k \in 1 .. Len(a) |-> k]
           K == 1 .. Len(a)
           c == a \o b
<1>1. Enumerates(f, Len(a), K) /\ K \in SUBSET Nat
  BY DEF Enumerates
<1>2. \A k \in 1 .. Len(a) : c[f[k]] = a[k]
  OBVIOUS
<1> HIDE DEF f, K, c
<1>3. Selected(c, K) = [k \in 1 .. Len(a) |-> c[f[k]]]
  BY <1>1, SelectedBy
<1>4. Selected(c, K) = a
  BY <1>2, <1>3
<1> QED BY <1>4 DEF c, K

(* Arguments in front of a sequence are none of its other instructions.    *)
OnlyArgs(s) == StackArgsAt(s) = DOMAIN s

LEMMA OthersBehindArgs ==
  ASSUME NEW S, NEW a \in Seq(S), NEW b \in Seq(S), OnlyArgs(a)
  PROVE  Others(a \o b) = Others(b)
<1> DEFINE K == DOMAIN b \ StackArgsAt(b)
<1>1. DOMAIN (a \o b) \ StackArgsAt(a \o b) = { Len(a) + i : i \in K }
  <2>1. \A i \in 1 .. Len(a) : (a \o b)[i] = a[i] /\ a[i].op = "STACKARG"
    BY DEF OnlyArgs, StackArgsAt
  <2>2. \A i \in 1 .. Len(b) : (a \o b)[Len(a) + i] = b[i]
    OBVIOUS
  <2>3. DOMAIN (a \o b) = 1 .. Len(a) + Len(b) /\ DOMAIN b = 1 .. Len(b)
    OBVIOUS
  <2>4. \A x \in 1 .. Len(a) + Len(b) :
          x \in 1 .. Len(a) \/ \E i \in 1 .. Len(b) : x = Len(a) + i
    <3> TAKE x \in 1 .. Len(a) + Len(b)
    <3>1. CASE x <= Len(a)
      BY <3>1
    <3>2. CASE x > Len(a)
      <4>1. x - Len(a) \in 1 .. Len(b) /\ x = Len(a) + (x - Len(a))
        BY <3>2
      <4> QED BY <4>1
    <3> QED BY <3>1, <3>2
  <2>5. \A i \in 1 .. Len(b) : Len(a) + i \in 1 .. Len(a) + Len(b)
    OBVIOUS
  <2>6. \A x \in 1 .. Len(a) + Len(b) :
          (a \o b)[x].op # "STACKARG" <=> \E i \in K : x = Len(a) + i
    <3> TAKE x \in 1 .. Len(a) + Len(b)
    <3>1. K = { i \in 1 .. Len(b) : b[i].op # "STACKARG" }
      BY <2>3 DEF StackArgsAt
    <3> HIDE DEF K
    <3>2. ASSUME NEW i \in 1 .. Len(b), x = Len(a) + i
          PROVE  (a \o b)[x].op # "STACKARG" <=> i \in K
      BY <3>1, <3>2, <2>2
    <3>3. CASE x \in 1 .. Len(a)
      <4>1. \A i \in 1 .. Len(b) : x # Len(a) + i
        BY <3>3
      <4> QED BY <4>1, <3>1, <3>3, <2>1
    <3>4. CASE \E i \in 1 .. Len(b) : x = Len(a) + i
      <4>1. PICK i \in 1 .. Len(b) : x = Len(a) + i
        BY <3>4
      <4>2. \A j \in 1 .. Len(b) : x = Len(a) + j => j = i
        BY <4>1
      <4> QED BY <4>1, <4>2, <3>1, <3>2
    <3> QED BY <3>3, <3>4, <2>4
  <2> QED BY <2>3, <2>5, <2>6 DEF StackArgsAt
<1>2. K \in SUBSET DOMAIN b
  OBVIOUS
<1> HIDE DEF K
<1>3. Selected(a \o b, { Len(a) + i : i \in K }) = Selected(b, K)
  BY <1>2, SelectedBehind
<1> QED BY <1>1, <1>3 DEF Others, K

LEMMA ArgsThenOthers ==
  ASSUME NEW S, NEW a \in Seq(S), NEW b \in Seq(S),
         OnlyArgs(a), StackArgsAt(b) = {}
  PROVE  StackArgs(a \o b) = a /\ Others(a \o b) = b
<1>1. Others(b) = b
  <2>1. DOMAIN b \ StackArgsAt(b) = DOMAIN b
    OBVIOUS
  <2> QED BY <2>1, SelectedAll DEF Others
<1>2. StackArgsAt(a \o b) = 1 .. Len(a)
  <2>1. \A i \in 1 .. Len(a) : (a \o b)[i] = a[i] /\ a[i].op = "STACKARG"
    BY DEF OnlyArgs, StackArgsAt
  <2>2. \A x \in 1 .. Len(a) + Len(b) : x \notin 1 .. Len(a) => (a \o b)[x].op # "STACKARG"
    <3> TAKE x \in 1 .. Len(a) + Len(b)
    <3> HAVE x \notin 1 .. Len(a)
    <3>1. x - Len(a) \in 1 .. Len(b) /\ (a \o b)[x] = b[x - Len(a)]
      OBVIOUS
    <3> QED BY <3>1 DEF StackArgsAt
  <2>3. DOMAIN (a \o b) = 1 .. Len(a) + Len(b) /\ 1 .. Len(a) \subseteq 1 .. Len(a) + Len(b)
    OBVIOUS
  <2> QED BY <2>1, <2>2, <2>3 DEF StackArgsAt
<1>3. Selected(a \o b, 1 .. Len(a)) = a
  BY SelectedFront
<1> QED BY <1>1, <1>2, <1>3, OthersBehindArgs DEF StackArgs

-----------------------------------------------------------------------------
(* The instructions of a function with k registers, pops included.         *)
AnyInstr(k) ==
  [op : {"STACKARG", "MI", "RETURN", "POP_r"}, def : 0 .. k, uses : Seq(1 .. k), n : Nat]

HasArg(s, n) == \E i \in StackArgsAt(s) : s[i].n = n

LEMMA MoreRegisters ==
  ASSUME NEW k \in Nat, NEW l \in Nat, k <= l
  PROVE  Instruction(k) \subseteq AnyInstr(l) /\ AnyInstr(k) \subseteq AnyInstr(l)
<1>1. 0 .. k \subseteq 0 .. l /\ 1 .. k \subseteq 1 .. l
  OBVIOUS
<1>2. Seq(1 .. k) \subseteq Seq(1 .. l)
  BY <1>1
<1> QED BY <1>1, <1>2 DEF Instruction, AnyInstr

LEMMA MoreRegistersSeq ==
  ASSUME NEW k \in Nat, NEW l \in Nat, k <= l, NEW s \in Seq(AnyInstr(k))
  PROVE  s \in Seq(AnyInstr(l))
BY MoreRegisters

(* The other instructions of a sequence.                                   *)
LEMMA OthersType ==
  ASSUME NEW S, NEW s \in Seq(S)
  PROVE  /\ Others(s) \in Seq(S)
         /\ \A k \in DOMAIN Others(s) :
              Others(s)[k].op # "STACKARG" /\ \E i \in DOMAIN s : Others(s)[k] = s[i]
         /\ \A i \in DOMAIN s : s[i].op # "STACKARG" => \E k \in DOMAIN Others(s) : Others(s)[k] = s[i]
<1> DEFINE K == DOMAIN s \ StackArgsAt(s)
<1>1. K \in SUBSET DOMAIN s /\ \A i \in DOMAIN s : i \in K <=> s[i].op # "STACKARG"
  BY DEF StackArgsAt
<1> HIDE DEF K
<1>2. /\ Selected(s, K) \in Seq(S)
      /\ \A k \in DOMAIN Selected(s, K) : \E i \in K : Selected(s, K)[k] = s[i]
      /\ \A i \in K : \E k \in DOMAIN Selected(s, K) : Selected(s, K)[k] = s[i]
  BY <1>1, SelectedType
<1>3. Others(s) = Selected(s, K)
  BY DEF Others, K
<1> QED BY <1>1, <1>2, <1>3

(* Its arguments.                                                          *)
LEMMA StackArgsType ==
  ASSUME NEW S, NEW s \in Seq(S)
  PROVE  /\ StackArgs(s) \in Seq(S)
         /\ \A k \in DOMAIN StackArgs(s) : \E i \in StackArgsAt(s) : StackArgs(s)[k] = s[i]
         /\ \A i \in StackArgsAt(s) : \E k \in DOMAIN StackArgs(s) : StackArgs(s)[k] = s[i]
         /\ \A k, l \in DOMAIN StackArgs(s) : k # l =>
              \E i, j \in StackArgsAt(s) :
                i # j /\ StackArgs(s)[k] = s[i] /\ StackArgs(s)[l] = s[j]
<1>1. StackArgsAt(s) \in SUBSET DOMAIN s
  BY DEF StackArgsAt
<1> QED BY <1>1, SelectedType DEF StackArgs

(* Arguments with new numbers and registers are put in front.              *)
LEMMA Prepend ==
  ASSUME NEW k \in Nat, NEW l \in Nat, k <= l,
         NEW a \in Seq(AnyInstr(l)), NEW s \in Seq(AnyInstr(k)),
         NEW h \in Nat, NEW m \in Nat, h <= m,
         OnlyArgs(a), SeparateArgs(a, m), SeparateArgs(s, h),
         \A i \in DOMAIN a : a[i].def > k /\ ~HasArg(s, a[i].n)
  PROVE  /\ a \o s \in Seq(AnyInstr(l))
         /\ SeparateArgs(a \o s, m)
         /\ Others(a \o s) = Others(s)
         /\ \A n : HasArg(a, n) \/ HasArg(s, n) => HasArg(a \o s, n)
         /\ \A i \in DOMAIN a : \E j \in DOMAIN (a \o s) : (a \o s)[j] = a[i]
         /\ \A i \in DOMAIN s : \E j \in DOMAIN (a \o s) : (a \o s)[j] = s[i]
<1> DEFINE c == a \o s
<1>1. s \in Seq(AnyInstr(l))
  BY MoreRegistersSeq
<1>2. c \in Seq(AnyInstr(l)) /\ Len(c) = Len(a) + Len(s)
  BY <1>1
<1>3. \A i \in DOMAIN a : i \in DOMAIN c /\ c[i] = a[i]
  BY <1>1
<1>4. \A i \in DOMAIN s : Len(a) + i \in DOMAIN c /\ c[Len(a) + i] = s[i]
  BY <1>1
<1>5. \A j \in DOMAIN c : (j \in DOMAIN a) \/ \E i \in DOMAIN s : j = Len(a) + i
  <2> TAKE j \in DOMAIN c
  <2>1. CASE j <= Len(a)
    BY <1>2, <2>1
  <2>2. CASE j > Len(a)
    <3>1. j - Len(a) \in DOMAIN s /\ j = Len(a) + (j - Len(a))
      BY <1>2, <2>2
    <3> QED BY <3>1
  <2> QED BY <2>1, <2>2, <1>2
<1>6. Others(c) = Others(s)
  BY <1>1, OthersBehindArgs
<1> HIDE DEF c
<1>7. \A i \in DOMAIN a : i \in StackArgsAt(a) /\ i \in StackArgsAt(c)
  BY <1>3 DEF OnlyArgs, StackArgsAt
<1>8. \A i \in DOMAIN s : i \in StackArgsAt(s) <=> Len(a) + i \in StackArgsAt(c)
  BY <1>4 DEF StackArgsAt
<1>9. SeparateArgs(c, m)
  <2> DEFINE Fits(x) == x.n < m /\ x.def # NoReg /\ x.uses = << >>
             Apart(x, y) == x.n # y.n /\ x.def # y.def
  <2>1. \A i \in DOMAIN a : Fits(a[i]) /\ \A j \in DOMAIN a : i # j => Apart(a[i], a[j])
    BY <1>7 DEF SeparateArgs
  <2>2. \A i \in StackArgsAt(s) : Fits(s[i]) /\ \A j \in StackArgsAt(s) : i # j => Apart(s[i], s[j])
    <3>1. \A i \in StackArgsAt(s) : s[i] \in AnyInstr(k)
      BY DEF StackArgsAt
    <3>2. \A i \in StackArgsAt(s) : s[i].n \in Nat
      BY <3>1 DEF AnyInstr
    <3> QED BY <3>2 DEF SeparateArgs
  <2>3. \A i \in DOMAIN a : \A j \in StackArgsAt(s) : Apart(a[i], s[j]) /\ Apart(s[j], a[i])
    <3> TAKE i \in DOMAIN a
    <3> TAKE j \in StackArgsAt(s)
    <3>1. a[i].n # s[j].n
      BY DEF HasArg
    <3>2. s[j] \in AnyInstr(k) /\ a[i] \in AnyInstr(l)
      BY DEF StackArgsAt
    <3>3. s[j].def \in 0 .. k /\ a[i].def \in 0 .. l /\ a[i].def > k
      BY <3>2 DEF AnyInstr
    <3> QED BY <3>1, <3>3
  <2> HIDE DEF Fits, Apart
  <2>4. \A j \in StackArgsAt(c) :
          (j \in DOMAIN a /\ c[j] = a[j])
            \/ \E i \in StackArgsAt(s) : j = Len(a) + i /\ c[j] = s[i]
    <3>1. StackArgsAt(c) \subseteq DOMAIN c /\ StackArgsAt(s) \subseteq DOMAIN s
      BY DEF StackArgsAt
    <3> QED BY <3>1, <1>3, <1>4, <1>5, <1>8
  <2>5. \A j \in StackArgsAt(c) : Fits(c[j])
    BY <2>1, <2>2, <2>4
  <2>6. \A i, j \in StackArgsAt(c) : i # j => Apart(c[i], c[j])
    <3> TAKE i, j \in StackArgsAt(c)
    <3> HAVE i # j
    <3>1. CASE i \in DOMAIN a /\ c[i] = a[i]
      BY <3>1, <2>1, <2>3, <2>4
    <3>2. CASE \E x \in StackArgsAt(s) : i = Len(a) + x /\ c[i] = s[x]
      BY <3>2, <2>2, <2>3, <2>4
    <3> QED BY <3>1, <3>2, <2>4
  <2> QED BY <2>5, <2>6 DEF SeparateArgs, Fits, Apart
<1>10. \A n : HasArg(a, n) \/ HasArg(s, n) => HasArg(c, n)
  <2>1. StackArgsAt(a) \subseteq DOMAIN a /\ StackArgsAt(s) \subseteq DOMAIN s
    BY DEF StackArgsAt
  <2> QED BY <2>1, <1>3, <1>4, <1>7, <1>8 DEF HasArg
<1> QED BY <1>2, <1>3, <1>4, <1>6, <1>9, <1>10 DEF c

-----------------------------------------------------------------------------
(* Returns get register r as their first operand, if there is one.         *)
Ret(s, r) == IF r = NoReg THEN s ELSE WithReturnAddress(s, r)

LEMMA ReturnsToType ==
  ASSUME NEW k \in Nat, NEW mi \in AnyInstr(k), NEW r \in 1 .. k
  PROVE  /\ ReturnsTo(mi, r) \in AnyInstr(k)
         /\ ReturnsTo(mi, r).op = mi.op
         /\ ReturnsTo(mi, r).def = mi.def
         /\ mi.op = "STACKARG" => ReturnsTo(mi, r) = mi
         /\ \A q : q \in ToSet(mi.uses) => q \in ToSet(ReturnsTo(mi, r).uses)
<1> DEFINE u == <<r>> \o mi.uses
<1>1. mi.uses \in Seq(1 .. k)
  BY DEF AnyInstr
<1>2. u \in Seq(1 .. k) /\ Len(u) = Len(mi.uses) + 1
  BY <1>1
<1>3. \A i \in 1 .. Len(mi.uses) : u[1 + i] = mi.uses[i] /\ 1 + i \in DOMAIN u
  BY <1>1
<1> HIDE DEF u
<1>4. \A q : q \in ToSet(mi.uses) => q \in ToSet(u)
  <2> SUFFICES ASSUME NEW i \in DOMAIN mi.uses PROVE \E j \in DOMAIN u : u[j] = mi.uses[i]
    BY DEF ToSet
  <2>1. i \in 1 .. Len(mi.uses)
    BY <1>1
  <2> QED BY <2>1, <1>3
<1>5. CASE mi.op # "RETURN"
  BY <1>5 DEF ReturnsTo
<1>6. CASE mi.op = "RETURN"
  <2>1. ReturnsTo(mi, r) = [mi EXCEPT !.uses = u]
    BY <1>6 DEF ReturnsTo, u
  <2>2. [mi EXCEPT !.uses = u] \in AnyInstr(k)
    BY <1>2 DEF AnyInstr
  <2>3. [mi EXCEPT !.uses = u].op = mi.op /\ [mi EXCEPT !.uses = u].def = mi.def
           /\ [mi EXCEPT !.uses = u].uses = u
    BY DEF AnyInstr
  <2> QED BY <1>4, <1>6, <2>1, <2>2, <2>3
<1> QED BY <1>5, <1>6

LEMMA RetType ==
  ASSUME NEW k \in Nat, NEW s \in Seq(AnyInstr(k)), NEW r \in 0 .. k
  PROVE  /\ Ret(s, r) \in Seq(AnyInstr(k))
         /\ Len(Ret(s, r)) = Len(s)
         /\ StackArgsAt(Ret(s, r)) = StackArgsAt(s)
         /\ \A i \in StackArgsAt(s) : Ret(s, r)[i] = s[i]
         /\ \A i \in DOMAIN s : /\ Ret(s, r)[i].op = s[i].op
                                /\ Ret(s, r)[i] = IF r = NoReg THEN s[i] ELSE ReturnsTo(s[i], r)
         /\ Others(Ret(s, r)) = Ret(Others(s), r)
<1>1. CASE r = NoReg
  BY <1>1 DEF Ret, StackArgsAt
<1>2. CASE r # NoReg
  <2> DEFINE w == WithReturnAddress(s, r)
             K == DOMAIN s \ StackArgsAt(s)
  <2>1. r \in 1 .. k
    BY <1>2 DEF NoReg
  <2>2. w = [i \in DOMAIN s |-> ReturnsTo(s[i], r)]
    BY DEF WithReturnAddress
  <2>3. \A i \in DOMAIN s : /\ s[i] \in AnyInstr(k) /\ w[i] = ReturnsTo(s[i], r)
                            /\ w[i] \in AnyInstr(k) /\ w[i].op = s[i].op
                            /\ s[i].op = "STACKARG" => w[i] = s[i]
    BY <2>1, <2>2, ReturnsToType
  <2> HIDE DEF w
  <2>4. w \in Seq(AnyInstr(k)) /\ Len(w) = Len(s) /\ DOMAIN w = DOMAIN s
    BY <2>2, <2>3
  <2>5. StackArgsAt(w) = StackArgsAt(s)
    BY <2>3, <2>4 DEF StackArgsAt
  <2>6. K \in SUBSET DOMAIN s
    OBVIOUS
  <2> HIDE DEF K
  <2>7. Selected(w, K) = WithReturnAddress(Selected(s, K), r)
    <3> DEFINE n == Cardinality(K)
               e == Increasing(K)
               t == Selected(s, K)
    <3>1. K \in SUBSET Nat /\ IsFiniteSet(K)
      BY <2>6, FinitePositions
    <3>2. Enumerates(e, n, K)
      BY <3>1, EnumerationExists
    <3>3. t = [j \in 1 .. n |-> s[e[j]]] /\ Selected(w, K) = [j \in 1 .. n |-> w[e[j]]]
      BY DEF Selected
    <3> HIDE DEF e, n, t
    <3>4. \A j \in 1 .. n : e[j] \in DOMAIN s
      BY <3>2, <2>6 DEF Enumerates
    <3>5. DOMAIN t = 1 .. n /\ \A j \in 1 .. n : w[e[j]] = ReturnsTo(t[j], r)
      BY <3>3, <3>4, <2>3
    <3>6. WithReturnAddress(t, r) = [j \in 1 .. n |-> ReturnsTo(t[j], r)]
      BY <3>5 DEF WithReturnAddress
    <3>7. [j \in 1 .. n |-> w[e[j]]] = [j \in 1 .. n |-> ReturnsTo(t[j], r)]
      BY <3>5
    <3> QED BY <3>3, <3>6, <3>7 DEF t
  <2>8. Others(w) = WithReturnAddress(Others(s), r)
    BY <2>4, <2>5, <2>7 DEF Others, K
  <2>9. StackArgsAt(s) \subseteq DOMAIN s /\ \A i \in StackArgsAt(s) : s[i].op = "STACKARG"
    BY DEF StackArgsAt
  <2> QED BY <1>2, <2>3, <2>4, <2>5, <2>8, <2>9 DEF Ret, w
<1> QED BY <1>1, <1>2

(* The body before the arguments are sorted: h of them are there, and all  *)
(* else is the selected function with r as return address.                 *)
Prepared(bd, k, f, h, r) ==
  /\ k \in Nat /\ k >= f.regs /\ r \in 0 .. k
  /\ bd \in [DOMAIN f.code -> Seq(AnyInstr(k))]
  /\ SeparateArgs(bd[1], h)
  /\ \A n \in 0 .. h - 1 : HasArg(bd[1], n)
  /\ \A i \in StackArgsAt(f.code[1]) : \E j \in DOMAIN bd[1] : bd[1][j] = f.code[1][i]
  /\ Others(bd[1]) = Ret(Others(f.code[1]), r)
  /\ \A b \in DOMAIN f.code : b # 1 => bd[b] = Ret(f.code[b], r)

LEMMA SelectedCode ==
  ASSUME NEW f, IsSelected(f)
  PROVE  /\ f.numArgs \in Nat /\ f.regs \in Nat /\ f.main \in BOOLEAN
         /\ 1 \in DOMAIN f.code /\ DOMAIN f.code = 1 .. Len(f.code) /\ Len(f.code) \in Nat
         /\ \A k \in Nat : k >= f.regs => f.code \in [DOMAIN f.code -> Seq(AnyInstr(k))]
         /\ \A b \in DOMAIN f.code : \A i \in DOMAIN f.code[b] : f.code[b][i].op # "POP_r"
         /\ SeparateArgs(f.code[1], f.numArgs)
         /\ \A b \in DOMAIN f.code : b # 1 => StackArgsAt(f.code[b]) = {}
         /\ \A b \in DOMAIN f.code : \A i \in DOMAIN f.succs[b] : f.succs[b][i] \in DOMAIN f.code \ {1}
<1>1. f.code \in Seq(Seq(Instruction(f.regs))) /\ f.code # << >>
  BY DEF IsSelected
<1>2. f.regs \in Nat /\ f.numArgs \in Nat /\ f.main \in BOOLEAN
  BY DEF IsSelected
<1>3. 1 \in DOMAIN f.code /\ DOMAIN f.code = 1 .. Len(f.code) /\ Len(f.code) \in Nat
  BY <1>1
<1>4. \A b \in DOMAIN f.code : f.code[b] \in Seq(Instruction(f.regs))
  BY <1>1
<1>5. \A b \in DOMAIN f.code : \A i \in DOMAIN f.code[b] :
        f.code[b][i] \in Instruction(f.regs) /\ f.code[b][i].op # "POP_r"
  <2> TAKE b \in DOMAIN f.code
  <2> TAKE i \in DOMAIN f.code[b]
  <2>1. f.code[b][i] \in Instruction(f.regs)
    BY <1>4
  <2> QED BY <2>1 DEF Instruction
<1>6. ASSUME NEW k \in Nat, k >= f.regs
      PROVE  f.code \in [DOMAIN f.code -> Seq(AnyInstr(k))]
  <2>1. Instruction(f.regs) \subseteq AnyInstr(k)
    BY <1>2, <1>6, MoreRegisters
  <2>2. \A b \in DOMAIN f.code : f.code[b] \in Seq(AnyInstr(k))
    BY <1>4, <2>1
  <2>3. f.code = [b \in DOMAIN f.code |-> f.code[b]]
    BY <1>1
  <2> QED BY <2>2, <2>3
<1>7. \A b \in DOMAIN f.code : \A i \in DOMAIN f.succs[b] : f.succs[b][i] \in DOMAIN f.code \ {1}
  BY DEF IsSelected
<1> QED BY <1>2, <1>3, <1>5, <1>6, <1>7 DEF IsSelected

IsMissing(M, f) == M = { n \in 0 .. f.numArgs - 1 : ~HasArg(f.code[1], n) }

AreNew(new, M, f) ==
  new = [k \in DOMAIN Increasing(M) |-> Stackarg(f.regs + k, Increasing(M)[k])]

(* arrangeStackArgs.                                                       *)
LEMMA ArrangeRight ==
  ASSUME NEW f, IsSelected(f),
         NEW M, IsMissing(M, f), NEW new, AreNew(new, M, f)
  PROVE  Prepared([f.code EXCEPT ![1] = Reverse(new) \o @], f.regs + Len(new),
                  f, f.numArgs, NoReg)
<1> DEFINE e == Increasing(M)
           m == Cardinality(M)
           s == f.code[1]
           k == f.regs
           l == k + m
           a == Reverse(new)
           bd == [f.code EXCEPT ![1] = a \o s]
<1>1. f.numArgs \in Nat /\ k \in Nat /\ 1 \in DOMAIN f.code
  BY SelectedCode
<1>2. M \in SUBSET Nat /\ IsFiniteSet(M)
  <2>1. M \in SUBSET (0 .. f.numArgs - 1)
    BY DEF IsMissing
  <2>2. 0 \in Int /\ f.numArgs - 1 \in Int
    BY <1>1
  <2>3. IsFiniteSet(0 .. f.numArgs - 1)
    BY <2>2, FS_Interval
  <2>4. IsFiniteSet(M)
    BY <2>1, <2>3, FS_Subset
  <2> QED BY <2>1, <2>4
<1>3. Enumerates(e, m, M)
  BY <1>2, EnumerationExists
<1>4. m \in Nat /\ DOMAIN e = 1 .. m /\ new = [j \in 1 .. m |-> Stackarg(k + j, e[j])]
  <2>1. m \in Nat /\ DOMAIN e = 1 .. m
    BY <1>3 DEF Enumerates
  <2> QED BY <2>1 DEF AreNew
<1>5. f.code \in [DOMAIN f.code -> Seq(AnyInstr(l))] /\ s \in Seq(AnyInstr(k)) /\ l \in Nat
  <2>1. l \in Nat /\ l >= f.regs /\ f.regs \in Nat /\ f.regs >= f.regs
    BY <1>1, <1>4
  <2> HIDE DEF l
  <2>2. f.code \in [DOMAIN f.code -> Seq(AnyInstr(l))]
    BY <2>1, SelectedCode
  <2>3. f.code \in [DOMAIN f.code -> Seq(AnyInstr(f.regs))]
    BY <2>1, SelectedCode
  <2> QED BY <1>1, <2>1, <2>2, <2>3
<1>6. SeparateArgs(s, f.numArgs)
  BY SelectedCode
<1> HIDE DEF e, m, k
<1>7. \A j \in 1 .. m : /\ e[j] \in M /\ e[j] \in Nat /\ e[j] < f.numArgs
                        /\ ~HasArg(s, e[j])
  BY <1>1, <1>2, <1>3 DEF Enumerates, IsMissing
<1>8. \A i, j \in 1 .. m : i # j => e[i] # e[j]
  <2>1. \A i, j \in 1 .. m : i < j => e[i] < e[j]
    BY <1>3 DEF Enumerates
  <2>2. \A i, j \in 1 .. m : i # j => i < j \/ j < i
    OBVIOUS
  <2>3. \A i, j \in 1 .. m : e[i] < e[j] => e[i] # e[j]
    BY <1>7
  <2> QED BY <2>1, <2>2, <2>3
<1>9. Len(new) = m
  BY <1>4
<1>10. /\ a \in Seq(AnyInstr(l)) /\ Len(a) = m
       /\ \A j \in 1 .. m : a[j] = Stackarg(k + (m - j + 1), e[m - j + 1])
  <2>1. a = [j \in 1 .. m |-> new[m - j + 1]]
    BY <1>4, <1>9 DEF Reverse
  <2>2. \A j \in 1 .. m : m - j + 1 \in 1 .. m
    BY <1>4
  <2>3. \A j \in 1 .. m : new[j] \in AnyInstr(l)
    <3> TAKE j \in 1 .. m
    <3>1. new[j] = [op |-> "STACKARG", def |-> k + j, uses |-> << >>, n |-> e[j]]
      BY <1>4 DEF Stackarg
    <3>2. k + j \in 0 .. l /\ e[j] \in Nat /\ << >> \in Seq(1 .. l)
      BY <1>1, <1>4, <1>7
    <3> HIDE DEF l
    <3> QED BY <3>1, <3>2 DEF AnyInstr
  <2>4. \A j \in 1 .. m : a[j] = new[m - j + 1] /\ a[j] \in AnyInstr(l)
    BY <2>1, <2>2, <2>3
  <2> HIDE DEF l, a
  <2>5. a \in Seq(AnyInstr(l)) /\ Len(a) = m
    BY <1>4, <2>1, <2>4
  <2> QED BY <1>4, <2>2, <2>4, <2>5
<1> HIDE DEF a
<1>11. \A j \in 1 .. m : /\ a[j].op = "STACKARG" /\ a[j].def = k + (m - j + 1)
                         /\ a[j].uses = << >> /\ a[j].n = e[m - j + 1]
                         /\ m - j + 1 \in 1 .. m
  BY <1>4, <1>10 DEF Stackarg
<1>12. OnlyArgs(a) /\ DOMAIN a = 1 .. m
  BY <1>10, <1>11 DEF OnlyArgs, StackArgsAt
<1>13. SeparateArgs(a, f.numArgs)
  <2>1. \A j \in 1 .. m : a[j].n < f.numArgs /\ a[j].def # NoReg
    BY <1>1, <1>7, <1>11 DEF NoReg
  <2>2. \A i, j \in 1 .. m : i # j => a[i].n # a[j].n /\ a[i].def # a[j].def
    <3> TAKE i, j \in 1 .. m
    <3> HAVE i # j
    <3>1. m - i + 1 # m - j + 1 /\ k + (m - i + 1) # k + (m - j + 1)
      BY <1>1, <1>4
    <3> QED BY <3>1, <1>8, <1>11
  <2> QED BY <2>1, <2>2, <1>11, <1>12 DEF SeparateArgs, OnlyArgs
<1>14. \A i \in DOMAIN a : a[i].def > k /\ ~HasArg(s, a[i].n)
  BY SMTT(60), <1>1, <1>4, <1>7, <1>11, <1>12
<1>15. k <= l /\ f.numArgs <= f.numArgs
  BY <1>1, <1>4
<1> HIDE DEF l, s
<1>16. /\ a \o s \in Seq(AnyInstr(l))
       /\ SeparateArgs(a \o s, f.numArgs)
       /\ Others(a \o s) = Others(s)
       /\ \A n : HasArg(a, n) \/ HasArg(s, n) => HasArg(a \o s, n)
       /\ \A i \in DOMAIN s : \E j \in DOMAIN (a \o s) : (a \o s)[j] = s[i]
  <2> DEFINE h == f.numArgs
  <2>1. /\ h \in Nat /\ h <= h /\ SeparateArgs(s, h) /\ SeparateArgs(a, h)
        /\ k \in Nat /\ l \in Nat /\ k <= l
        /\ a \in Seq(AnyInstr(l)) /\ s \in Seq(AnyInstr(k)) /\ OnlyArgs(a)
    BY <1>1, <1>5, <1>6, <1>10, <1>12, <1>13, <1>15 DEF s
  <2> HIDE DEF h
  <2>2. /\ a \o s \in Seq(AnyInstr(l))
        /\ SeparateArgs(a \o s, h)
        /\ Others(a \o s) = Others(s)
        /\ \A n : HasArg(a, n) \/ HasArg(s, n) => HasArg(a \o s, n)
        /\ \A i \in DOMAIN s : \E j \in DOMAIN (a \o s) : (a \o s)[j] = s[i]
    BY <1>14, <2>1, Prepend
  <2> QED BY <2>2 DEF h
<1>17. \A n \in 0 .. f.numArgs - 1 : HasArg(a \o s, n)
  <2> TAKE n \in 0 .. f.numArgs - 1
  <2>1. CASE n \in M
    <3>1. PICK j \in 1 .. m : e[j] = n
      BY <1>3, <2>1 DEF Enumerates
    <3>2. m - j + 1 \in 1 .. m /\ m - (m - j + 1) + 1 = j
      BY <1>4
    <3>3. a[m - j + 1].n = n /\ m - j + 1 \in StackArgsAt(a)
      BY <3>1, <3>2, <1>11, <1>12 DEF OnlyArgs
    <3> QED BY <3>3, <1>16 DEF HasArg
  <2>2. CASE n \notin M
    BY <2>2, <1>16 DEF s, IsMissing
  <2> QED BY <2>1, <2>2
<1>18. bd \in [DOMAIN f.code -> Seq(AnyInstr(l))] /\ bd[1] = a \o s
       /\ \A b \in DOMAIN f.code : b # 1 => bd[b] = f.code[b]
  BY <1>1, <1>5, <1>16
<1>19. \A i \in StackArgsAt(f.code[1]) : \E j \in DOMAIN bd[1] : bd[1][j] = f.code[1][i]
  BY <1>16, <1>18 DEF s, StackArgsAt
<1>20. l \in Nat /\ l >= f.regs /\ NoReg \in 0 .. l /\ l = f.regs + Len(new)
  BY <1>1, <1>4, <1>5, <1>9 DEF l, k, NoReg
<1>21. [f.code EXCEPT ![1] = Reverse(new) \o @] = bd
  BY DEF a, s
<1> HIDE DEF bd
<1>22. Prepared(bd, l, f, f.numArgs, NoReg)
  BY <1>16, <1>17, <1>18, <1>19, <1>20 DEF Prepared, Ret, s
<1> QED BY <1>20, <1>21, <1>22

NumStackArgs(f) == f.numArgs + (IF f.main THEN 0 ELSE 1)

(* r is the register with the return address.                              *)
ReturnArg(s, f, r) ==
  IF f.main THEN r = NoReg
  ELSE r # NoReg /\ \E i \in StackArgsAt(s) : s[i].n = f.numArgs /\ s[i].def = r

IsInserted(new, bd, k, f) ==
  new = [b \in DOMAIN bd |->
           (IF b = 1 THEN << Stackarg(k + 1, f.numArgs) >> ELSE << >>)
              \o WithReturnAddress(bd[b], k + 1)]

(* insertRetAddrArg.                                                       *)
LEMMA InsertRight ==
  ASSUME NEW f, IsSelected(f), ~f.main, NEW k, NEW bd,
         Prepared(bd, k, f, f.numArgs, NoReg),
         NEW new, IsInserted(new, bd, k, f)
  PROVE  Prepared(new, k + 1, f, NumStackArgs(f), k + 1) /\ ReturnArg(new[1], f, k + 1)
<1> DEFINE l == k + 1
           s == bd[1]
           a == << Stackarg(l, f.numArgs) >>
           w == Ret(s, l)
           h == f.numArgs
<1>1. h \in Nat /\ f.regs \in Nat /\ 1 \in DOMAIN f.code
  BY SelectedCode
<1>2. k \in Nat /\ k >= f.regs /\ bd \in [DOMAIN f.code -> Seq(AnyInstr(k))] /\ l \in Nat /\ l # NoReg
  BY <1>1 DEF Prepared, NoReg
<1>3. s \in Seq(AnyInstr(k)) /\ s \in Seq(AnyInstr(l)) /\ l \in 0 .. l
  <2>1. s \in Seq(AnyInstr(k))
    BY <1>1, <1>2
  <2>2. k <= l /\ l \in 0 .. l
    BY <1>2
  <2> QED BY <1>2, <2>1, <2>2, MoreRegistersSeq
<1> HIDE DEF s, l
<1>4. /\ w \in Seq(AnyInstr(l)) /\ Len(w) = Len(s) /\ StackArgsAt(w) = StackArgsAt(s)
      /\ \A i \in StackArgsAt(s) : w[i] = s[i]
      /\ Others(w) = Ret(Others(s), l)
  BY <1>2, <1>3, RetType
<1>5. SeparateArgs(s, h)
  BY DEF Prepared, s
<1>6. SeparateArgs(w, h) /\ \A n : HasArg(w, n) <=> HasArg(s, n)
  BY <1>4, <1>5 DEF SeparateArgs, HasArg
<1> HIDE DEF w
<1>7. /\ a \in Seq(AnyInstr(l)) /\ DOMAIN a = {1} /\ Len(a) = 1
      /\ a[1].op = "STACKARG" /\ a[1].def = l /\ a[1].uses = << >> /\ a[1].n = h
  <2>1. Stackarg(l, h) = [op |-> "STACKARG", def |-> l, uses |-> << >>, n |-> h]
    BY DEF Stackarg
  <2>2. Stackarg(l, h) \in AnyInstr(l)
    BY <1>1, <1>2, <1>3, <2>1 DEF AnyInstr
  <2> QED BY <2>1, <2>2
<1> HIDE DEF a
<1>8. OnlyArgs(a) /\ StackArgsAt(a) = {1}
  BY <1>7 DEF OnlyArgs, StackArgsAt
<1>9. SeparateArgs(a, h + 1)
  <2>1. h < h + 1
    BY <1>1
  <2> QED BY <1>2, <1>7, <1>8, <2>1 DEF SeparateArgs
<1>10. \A i \in StackArgsAt(w) : w[i].n < h /\ w[i].def <= k /\ w[i].n \in Nat /\ w[i].def \in Nat
  <2>1. \A i \in StackArgsAt(s) : s[i] \in AnyInstr(k) /\ s[i].n < h
    BY <1>3, <1>5 DEF SeparateArgs, StackArgsAt
  <2>2. \A i \in StackArgsAt(s) : s[i].def \in 0 .. k /\ s[i].n \in Nat
    BY <2>1 DEF AnyInstr
  <2> QED BY <1>4, <2>1, <2>2
<1> DEFINE c == a \o w
<1>11. c \in Seq(AnyInstr(l)) /\ Len(c) = Len(w) + 1 /\ c[1] = a[1]
       /\ \A i \in 1 .. Len(w) : c[1 + i] = w[i]
  <2> DEFINE S == AnyInstr(l)
  <2>0. DOMAIN w = 1 .. Len(w) /\ a \in Seq(S) /\ w \in Seq(S) /\ 1 \in DOMAIN a
    BY <1>4, <1>7
  <2> HIDE DEF S
  <2>1. /\ \A i \in DOMAIN w : c[Len(a) + i] = w[i]
        /\ c \in Seq(S) /\ Len(c) = Len(a) + Len(w) /\ c[1] = a[1]
    BY <2>0, Concat
  <2>2. Len(a) + Len(w) = Len(w) + 1
    BY <1>4, <1>7
  <2> QED BY <2>0, <2>1, <2>2, <1>7 DEF S
<1>12. Others(c) = Others(w)
  BY <1>4, <1>7, <1>8, OthersBehindArgs
<1> HIDE DEF c
<1>13. StackArgsAt(c) = {1} \cup { 1 + i : i \in StackArgsAt(w) }
  <2>1. DOMAIN c = 1 .. Len(w) + 1 /\ DOMAIN w = 1 .. Len(w) /\ Len(w) \in Nat
    BY <1>4, <1>11
  <2>2. \A i \in 1 .. Len(w) : 1 + i \in StackArgsAt(c) <=> i \in StackArgsAt(w)
    BY <2>1, <1>11 DEF StackArgsAt
  <2>3. 1 \in StackArgsAt(c)
    BY <2>1, <1>7, <1>11 DEF StackArgsAt
  <2>4. StackArgsAt(c) \subseteq 1 .. Len(w) + 1 /\ StackArgsAt(w) \subseteq 1 .. Len(w)
    BY <2>1 DEF StackArgsAt
  <2>5. ASSUME NEW j \in StackArgsAt(c), j # 1
        PROVE  \E i \in StackArgsAt(w) : j = 1 + i
    <3>1. j - 1 \in 1 .. Len(w) /\ j = 1 + (j - 1)
      BY <2>1, <2>4, <2>5
    <3> QED BY <3>1, <2>2
  <2> QED BY <2>2, <2>3, <2>4, <2>5
<1>14. \A i \in StackArgsAt(w) : c[1 + i] = w[i]
  BY <1>4, <1>11 DEF StackArgsAt
<1>15. SeparateArgs(c, h + 1)
  <2> DEFINE Fits(x) == x.n < h + 1 /\ x.def # NoReg /\ x.uses = << >>
             Apart(x, y) == x.n # y.n /\ x.def # y.def
  <2>1. Fits(c[1])
    BY <1>1, <1>2, <1>7, <1>11
  <2>2. \A i \in StackArgsAt(w) : Fits(w[i]) /\ \A j \in StackArgsAt(w) : i # j => Apart(w[i], w[j])
    BY <1>1, <1>6, <1>10 DEF SeparateArgs
  <2>3. \A i \in StackArgsAt(w) : Apart(c[1], w[i]) /\ Apart(w[i], c[1])
    BY <1>1, <1>2, <1>7, <1>10, <1>11 DEF l
  <2> HIDE DEF Fits, Apart
  <2>4. \A i \in StackArgsAt(c) : Fits(c[i]) /\ \A j \in StackArgsAt(c) : i # j => Apart(c[i], c[j])
    BY <1>13, <1>14, <2>1, <2>2, <2>3
  <2> QED BY <2>4 DEF Fits, Apart, SeparateArgs
<1>16. \A n \in 0 .. h : HasArg(c, n)
  <2> TAKE n \in 0 .. h
  <2>1. CASE n = h
    BY <2>1, <1>7, <1>11, <1>13 DEF HasArg
  <2>2. CASE n # h
    <3>1. n \in 0 .. h - 1
      BY <2>2, <1>1
    <3>2. HasArg(w, n)
      BY <3>1, <1>6 DEF Prepared, s
    <3> QED BY <3>2, <1>13, <1>14 DEF HasArg
  <2> QED BY <2>1, <2>2
<1>17. \A b \in DOMAIN f.code : b # 1 => bd[b] = f.code[b]
  BY DEF Prepared, Ret
<1>18. w = WithReturnAddress(s, l)
  BY <1>2 DEF w, Ret
<1>19. new[1] = c
  BY <1>1, <1>2, <1>18 DEF c, a, l, s, IsInserted
<1>20. ASSUME NEW b \in DOMAIN f.code, b # 1
       PROVE  new[b] = Ret(f.code[b], l) /\ new[b] \in Seq(AnyInstr(l))
  <2>1. new[b] = << >> \o WithReturnAddress(f.code[b], l)
    BY <1>2, <1>17, <1>20 DEF l, IsInserted
  <2>2. f.code[b] \in Seq(AnyInstr(l))
    <3>1. l >= f.regs
      BY <1>1, <1>2 DEF l
    <3> QED BY <1>2, <3>1, SelectedCode
  <2>3. Ret(f.code[b], l) = WithReturnAddress(f.code[b], l)
    BY <1>2 DEF Ret
  <2>4. Ret(f.code[b], l) \in Seq(AnyInstr(l))
    BY <1>2, <1>3, <2>2, RetType
  <2>5. << >> \o WithReturnAddress(f.code[b], l) = WithReturnAddress(f.code[b], l)
    BY <2>3, <2>4
  <2> QED BY <2>1, <2>3, <2>4, <2>5
<1>21. new \in [DOMAIN f.code -> Seq(AnyInstr(l))]
  <2>1. DOMAIN new = DOMAIN f.code /\ new = [b \in DOMAIN new |-> new[b]]
    BY <1>2 DEF IsInserted
  <2>2. \A b \in DOMAIN f.code : new[b] \in Seq(AnyInstr(l))
    BY <1>11, <1>19, <1>20
  <2> QED BY <2>1, <2>2
<1>22. \A i \in StackArgsAt(f.code[1]) : \E j \in DOMAIN c : c[j] = f.code[1][i]
  <2> TAKE i \in StackArgsAt(f.code[1])
  <2>1. PICK j \in DOMAIN s : s[j] = f.code[1][i]
    BY DEF Prepared, s
  <2>2. j \in StackArgsAt(s)
    BY <2>1 DEF StackArgsAt
  <2>3. c[1 + j] = s[j] /\ 1 + j \in DOMAIN c
    BY <2>2, <1>4, <1>13, <1>14 DEF StackArgsAt
  <2> QED BY <2>1, <2>3
<1>23. Others(c) = Ret(Others(f.code[1]), l)
  <2>1. Others(s) = Others(f.code[1])
    BY DEF Prepared, s, Ret
  <2> QED BY <2>1, <1>4, <1>12
<1>24. NumStackArgs(f) = h + 1 /\ h + 1 - 1 = h
  BY <1>1 DEF NumStackArgs
<1>25. l >= f.regs
  BY <1>1, <1>2 DEF l
<1>26. Prepared(new, l, f, NumStackArgs(f), l)
  <2>1. \A n \in 0 .. NumStackArgs(f) - 1 : HasArg(new[1], n)
    <3>0. h \in Nat
      BY <1>1
    <3> HIDE DEF h
    <3>1. NumStackArgs(f) - 1 = h
      BY <3>0, <1>24
    <3> QED BY <3>1, <1>16, <1>19
  <2>2. SeparateArgs(new[1], NumStackArgs(f))
    BY <1>15, <1>19, <1>24
  <2>3. \A b \in DOMAIN f.code : b # 1 => new[b] = Ret(f.code[b], l)
    BY <1>20
  <2>4. \A i \in StackArgsAt(f.code[1]) : \E j \in DOMAIN new[1] : new[1][j] = f.code[1][i]
    BY <1>19, <1>22
  <2>5. Others(new[1]) = Ret(Others(f.code[1]), l)
    BY <1>19, <1>23
  <2> QED BY <1>2, <1>3, <1>21, <1>25, <2>1, <2>2, <2>3, <2>4, <2>5, Zenon DEF Prepared
<1>27. ReturnArg(new[1], f, l)
  BY <1>2, <1>7, <1>11, <1>13, <1>19 DEF ReturnArg
<1> QED BY <1>26, <1>27 DEF l

-----------------------------------------------------------------------------
(* With the arguments 0 .. h - 1 present once there are h of them.         *)
LEMMA ArgsCounted ==
  ASSUME NEW k \in Nat, NEW s \in Seq(AnyInstr(k)), NEW h \in Nat,
         SeparateArgs(s, h), \A n \in 0 .. h - 1 : HasArg(s, n)
  PROVE  /\ StackArgs(s) \in Seq(AnyInstr(k)) /\ Len(StackArgs(s)) = h
         /\ \A i \in DOMAIN StackArgs(s) :
              /\ StackArgs(s)[i].op = "STACKARG" /\ StackArgs(s)[i].n \in 0 .. h - 1
              /\ StackArgs(s)[i].def # NoReg /\ StackArgs(s)[i].uses = << >>
              /\ \A j \in DOMAIN StackArgs(s) : i # j =>
                   /\ StackArgs(s)[i].n # StackArgs(s)[j].n
                   /\ StackArgs(s)[i].def # StackArgs(s)[j].def
         /\ \A n \in 0 .. h - 1 : \E i \in DOMAIN StackArgs(s) : StackArgs(s)[i].n = n
         /\ \A i \in StackArgsAt(s) : \E j \in DOMAIN StackArgs(s) : StackArgs(s)[j] = s[i]
<1> DEFINE K == StackArgsAt(s)
           A == StackArgs(s)
           I == AnyInstr(k)
           g == [i \in K |-> s[i].n]
<1>1. K \in SUBSET DOMAIN s /\ \A i \in K : s[i].op = "STACKARG" /\ s[i] \in I
  BY DEF StackArgsAt
<1>2. \A i \in K : s[i].n \in Nat
  BY <1>1 DEF AnyInstr
<1> HIDE DEF I
<1>3. /\ A \in Seq(I) /\ Len(A) = Cardinality(K)
      /\ \A i \in DOMAIN A : \E x \in K : A[i] = s[x]
      /\ \A x \in K : \E i \in DOMAIN A : A[i] = s[x]
      /\ \A i, j \in DOMAIN A : i # j =>
           \E x, y \in K : x # y /\ A[i] = s[x] /\ A[j] = s[y]
  <2>1. s \in Seq(I)
    BY DEF I
  <2> HIDE DEF K
  <2>2. A = Selected(s, K)
    BY DEF StackArgs, K
  <2> HIDE DEF A
  <2> QED BY <2>1, <2>2, <1>1, SelectedType
<1>4. \A i \in K : /\ s[i].n \in 0 .. h - 1 /\ s[i].def # NoReg /\ s[i].uses = << >>
                   /\ \A j \in K : i # j => s[i].n # s[j].n /\ s[i].def # s[j].def
  BY <1>2 DEF SeparateArgs
<1>5. \A n \in 0 .. h - 1 : \E i \in K : s[i].n = n
  BY DEF HasArg
<1>6. IsFiniteSet(K)
  <2>1. s \in Seq(I)
    BY DEF I
  <2> HIDE DEF K
  <2> QED BY <1>1, <2>1, FinitePositions
<1>7. g \in Bijection(K, 0 .. h - 1)
  BY <1>4, <1>5 DEF Bijection, Injection, Surjection, IsInjective
<1>8. Cardinality(K) = h
  <2>1. Cardinality(0 .. h - 1) = Cardinality(K)
    BY <1>6, <1>7, FS_Bijection DEF ExistsBijection
  <2>2. Cardinality(0 .. h - 1) = h
    <3>1. 0 \in Int /\ h - 1 \in Int
      OBVIOUS
    <3>2. Cardinality(0 .. h - 1) = IF 0 > h - 1 THEN 0 ELSE h - 1 - 0 + 1
      BY <3>1, FS_Interval
    <3> QED BY <3>2
  <2> QED BY <2>1, <2>2
<1> HIDE DEF K, A
<1>9. \A i \in DOMAIN A :
        /\ A[i].op = "STACKARG" /\ A[i].n \in 0 .. h - 1
        /\ A[i].def # NoReg /\ A[i].uses = << >>
        /\ \A j \in DOMAIN A : i # j => A[i].n # A[j].n /\ A[i].def # A[j].def
  <2>1. \A i \in DOMAIN A : /\ A[i].op = "STACKARG" /\ A[i].n \in 0 .. h - 1
                            /\ A[i].def # NoReg /\ A[i].uses = << >>
    BY SMTT(60), <1>1, <1>3, <1>4
  <2>2. \A i, j \in DOMAIN A : i # j => A[i].n # A[j].n /\ A[i].def # A[j].def
    <3> TAKE i, j \in DOMAIN A
    <3> HAVE i # j
    <3>1. PICK x \in K, y \in K : x # y /\ A[i] = s[x] /\ A[j] = s[y]
      BY <1>3
    <3> QED BY <3>1, <1>4
  <2> QED BY <2>1, <2>2
<1>10. \A n \in 0 .. h - 1 : \E i \in DOMAIN A : A[i].n = n
  <2> TAKE n \in 0 .. h - 1
  <2>1. PICK x \in K : s[x].n = n
    BY <1>5
  <2> QED BY <2>1, <1>3
<1> QED BY <1>3, <1>8, <1>9, <1>10 DEF A, K, I

(* The h arguments from the deepest, the one with the highest number, up.  *)
Sorted(A, h, k) ==
  /\ A \in Seq(AnyInstr(k)) /\ Len(A) = h
  /\ \A i \in 1 .. h : /\ A[i].op = "STACKARG" /\ A[i].n = h - i
                       /\ A[i].def # NoReg /\ A[i].uses = << >>
  /\ \A i, j \in 1 .. h : i # j => A[i].def # A[j].def

ArePops(P, k) ==
  P \in Seq(AnyInstr(k)) /\ \A i \in DOMAIN P : P[i].op = "POP_r" /\ P[i].def = NoReg

LEMMA SortedRight ==
  ASSUME NEW k \in Nat, body[1] \in Seq(AnyInstr(k)), NEW h \in Nat,
         SeparateArgs(body[1], h), \A n \in 0 .. h - 1 : HasArg(body[1], n)
  PROVE  /\ Len(Args) = h /\ 0 .. Len(Args) - 1 \subseteq Indices
         /\ Sorted(SortedArgs, h, k)
         /\ \A i \in StackArgsAt(body[1]) : \E j \in 1 .. h : SortedArgs[j] = body[1][i]
         /\ \A j \in 1 .. h : \E i \in DOMAIN Args : SortedArgs[j] = Args[i]
<1> DEFINE A == Args
           S == SortedArgs
<1>1. /\ A \in Seq(AnyInstr(k)) /\ Len(A) = h
      /\ \A i \in DOMAIN A :
           /\ A[i].op = "STACKARG" /\ A[i].n \in 0 .. h - 1
           /\ A[i].def # NoReg /\ A[i].uses = << >>
           /\ \A j \in DOMAIN A : i # j => A[i].n # A[j].n /\ A[i].def # A[j].def
      /\ \A n \in 0 .. h - 1 : \E i \in DOMAIN A : A[i].n = n
      /\ \A i \in StackArgsAt(body[1]) : \E j \in DOMAIN A : A[j] = body[1][i]
  <2> DEFINE s == body[1]
  <2>1. s \in Seq(AnyInstr(k)) /\ SeparateArgs(s, h) /\ \A n \in 0 .. h - 1 : HasArg(s, n)
    OBVIOUS
  <2> HIDE DEF s
  <2>2. /\ StackArgs(s) \in Seq(AnyInstr(k)) /\ Len(StackArgs(s)) = h
        /\ \A i \in DOMAIN StackArgs(s) :
             /\ StackArgs(s)[i].op = "STACKARG" /\ StackArgs(s)[i].n \in 0 .. h - 1
             /\ StackArgs(s)[i].def # NoReg /\ StackArgs(s)[i].uses = << >>
             /\ \A j \in DOMAIN StackArgs(s) : i # j =>
                  /\ StackArgs(s)[i].n # StackArgs(s)[j].n
                  /\ StackArgs(s)[i].def # StackArgs(s)[j].def
        /\ \A n \in 0 .. h - 1 : \E i \in DOMAIN StackArgs(s) : StackArgs(s)[i].n = n
        /\ \A i \in StackArgsAt(s) : \E j \in DOMAIN StackArgs(s) : StackArgs(s)[j] = s[i]
    BY <2>1, ArgsCounted
  <2>3. A = StackArgs(s)
    BY DEF Args, Entry, s
  <2> QED BY <2>2, <2>3 DEF s
<1>2. /\ S = [i \in 1 .. Len(A) |-> CHOOSE mi \in ToSet(A) : mi.n = Len(A) - i]
      /\ Indices = { mi.n : mi \in ToSet(A) }
      /\ ToSet(A) = { A[i] : i \in DOMAIN A }
  BY DEF SortedArgs, ArgOf, Indices, ToSet
<1> HIDE DEF A, S
<1>3. A \in Seq(AnyInstr(k)) /\ Len(A) = h
  BY <1>1
<1>4. \A i \in DOMAIN A : /\ A[i] \in AnyInstr(k)
                          /\ A[i].op = "STACKARG" /\ A[i].n \in 0 .. h - 1
                          /\ A[i].def # NoReg /\ A[i].uses = << >>
  BY <1>1
<1>5. \A i, j \in DOMAIN A : i # j => A[i].n # A[j].n /\ A[i].def # A[j].def
  BY <1>1
<1>6. \A i \in StackArgsAt(body[1]) : \E j \in DOMAIN A : A[j] = body[1][i]
  BY <1>1
<1>7. \A i \in 1 .. h : \E j \in DOMAIN A : S[i] = A[j] /\ A[j].n = h - i
  <2> TAKE i \in 1 .. h
  <2>1. h - i \in 0 .. h - 1
    OBVIOUS
  <2>2. PICK x \in DOMAIN A : A[x].n = h - i
    BY <1>1, <2>1
  <2>3. \E mi \in ToSet(A) : mi.n = h - i
    BY <1>2, <2>2
  <2>4. S[i] = CHOOSE mi \in ToSet(A) : mi.n = h - i
    BY <1>1, <1>2
  <2>5. S[i] \in ToSet(A) /\ S[i].n = h - i
    BY <2>3, <2>4
  <2> QED BY <2>5, <1>2
<1>8. S \in Seq(AnyInstr(k)) /\ Len(S) = h
  <2>1. \A i \in 1 .. h : S[i] \in AnyInstr(k)
    BY <1>4, <1>7
  <2>2. S = [i \in 1 .. h |-> S[i]]
    BY <1>1, <1>2
  <2> QED BY <2>1, <2>2
<1>9. \A i, j \in 1 .. h : i # j => S[i].def # S[j].def
  <2> TAKE i, j \in 1 .. h
  <2> HAVE i # j
  <2>1. PICK x \in DOMAIN A : S[i] = A[x] /\ A[x].n = h - i
    BY <1>7
  <2>2. PICK y \in DOMAIN A : S[j] = A[y] /\ A[y].n = h - j
    BY <1>7
  <2>3. h - i # h - j
    OBVIOUS
  <2>4. x # y
    BY <2>1, <2>2, <2>3
  <2> QED BY <1>5, <2>1, <2>2, <2>4
<1>10. \A i \in 1 .. h : /\ S[i].op = "STACKARG" /\ S[i].n = h - i
                        /\ S[i].def # NoReg /\ S[i].uses = << >>
  BY <1>4, <1>7
<1>11. \A j \in DOMAIN A : \E i \in 1 .. h : S[i] = A[j]
  <2> TAKE j \in DOMAIN A
  <2>1. A[j].n \in 0 .. h - 1
    BY <1>4
  <2>2. h - A[j].n \in 1 .. h /\ h - (h - A[j].n) = A[j].n
    BY <2>1
  <2>3. PICK x \in DOMAIN A : S[h - A[j].n] = A[x] /\ A[x].n = A[j].n
    BY <1>7, <2>2
  <2>4. x = j
    BY <1>5, <2>3
  <2> QED BY <2>2, <2>3, <2>4
<1>12. 0 .. h - 1 \subseteq Indices
  <2>1. \A n \in 0 .. h - 1 : \E mi \in ToSet(A) : mi.n = n
    BY <1>1, <1>2
  <2> QED BY <2>1, <1>2
<1>13. \A i \in StackArgsAt(body[1]) : \E j \in 1 .. h : S[j] = body[1][i]
  BY <1>6, <1>11
<1>14. Sorted(S, h, k)
  BY <1>8, <1>9, <1>10 DEF Sorted
<1> QED BY <1>3, <1>7, <1>12, <1>13, <1>14 DEF A, S

LEMMA PopsRight ==
  ASSUME NEW k \in Nat, Args \in Seq(AnyInstr(k)),
         \A i \in DOMAIN Args : Args[i].def # NoReg
  PROVE  /\ ArePops(Pops, k)
         /\ \A i \in DOMAIN Args : UseEmpty(Args[i].def) =>
              \E j \in DOMAIN Pops : Args[i].def \in ToSet(Pops[j].uses)
<1> DEFINE A == Args
           K == { i \in DOMAIN A : UseEmpty(A[i].def) }
           U == Selected(A, K)
           I == AnyInstr(k)
<1>1. Pops = [i \in DOMAIN U |-> PopReg(U[i].def)]
  BY DEF Pops
<1>2. A \in Seq(I) /\ K \in SUBSET DOMAIN A /\ \A i \in DOMAIN A : i \in K <=> UseEmpty(A[i].def)
  OBVIOUS
<1>3. \A i \in DOMAIN A : A[i].def \in 1 .. k
  <2>1. \A i \in DOMAIN A : A[i] \in I /\ A[i].def # NoReg
    OBVIOUS
  <2> HIDE DEF A
  <2> QED BY <2>1 DEF AnyInstr, NoReg
<1> HIDE DEF A, K, I
<1>4. /\ U \in Seq(I)
      /\ \A i \in DOMAIN U : \E x \in K : U[i] = A[x]
      /\ \A x \in K : \E i \in DOMAIN U : U[i] = A[x]
  BY <1>2, SelectedType
<1> HIDE DEF U
<1>5. \A i \in DOMAIN U : U[i].def \in 1 .. k
  BY <1>2, <1>3, <1>4
<1>6. \A i \in DOMAIN U : /\ PopReg(U[i].def).op = "POP_r" /\ PopReg(U[i].def).def = NoReg
                          /\ PopReg(U[i].def).uses = << U[i].def >>
  BY DEF PopReg
<1>7. \A i \in DOMAIN U : PopReg(U[i].def) \in I
  <2> TAKE i \in DOMAIN U
  <2>1. << U[i].def >> \in Seq(1 .. k) /\ NoReg \in 0 .. k /\ 0 \in Nat
    BY <1>5 DEF NoReg
  <2> QED BY <2>1 DEF PopReg, I, AnyInstr
<1>8. Pops \in Seq(I) /\ DOMAIN Pops = DOMAIN U
  <2>1. DOMAIN U = 1 .. Len(U) /\ Len(U) \in Nat
    BY <1>4
  <2> QED BY <1>1, <1>7, <2>1
<1>9. ArePops(Pops, k)
  BY <1>1, <1>6, <1>8 DEF ArePops, I
<1>10. \A i \in K : \E j \in DOMAIN Pops : A[i].def \in ToSet(Pops[j].uses)
  <2> TAKE i \in K
  <2>1. PICK j \in DOMAIN U : U[j] = A[i]
    BY <1>4
  <2>2. Pops[j].uses = << A[i].def >>
    BY <2>1, <1>1, <1>6
  <2>3. A[i].def \in ToSet(<< A[i].def >>)
    BY DEF ToSet
  <2> QED BY <2>1, <2>2, <2>3, <1>8
<1> QED BY <1>2, <1>9, <1>10 DEF A

LEMMA ConcatAssoc ==
  ASSUME NEW S, NEW a \in Seq(S), NEW b \in Seq(S), NEW c \in Seq(S)
  PROVE  (a \o b) \o c = a \o (b \o c)
OBVIOUS

LEMMA ConcatHolds ==
  ASSUME NEW S, NEW a \in Seq(S), NEW b \in Seq(S)
  PROVE  /\ \A i \in DOMAIN a : \E j \in DOMAIN (a \o b) : (a \o b)[j] = a[i]
         /\ \A i \in DOMAIN b : \E j \in DOMAIN (a \o b) : (a \o b)[j] = b[i]
<1>1. /\ \A i \in DOMAIN a : (a \o b)[i] = a[i] /\ i \in DOMAIN (a \o b)
      /\ \A i \in DOMAIN b : (a \o b)[Len(a) + i] = b[i] /\ Len(a) + i \in DOMAIN (a \o b)
  BY Concat
<1> DEFINE c == a \o b
<1> HIDE DEF c
<1>2. /\ \A i \in DOMAIN a : c[i] = a[i] /\ i \in DOMAIN c
      /\ \A i \in DOMAIN b : c[Len(a) + i] = b[i] /\ Len(a) + i \in DOMAIN c
  BY <1>1 DEF c
<1>3. /\ \A i \in DOMAIN a : \E j \in DOMAIN c : c[j] = a[i]
      /\ \A i \in DOMAIN b : \E j \in DOMAIN c : c[j] = b[i]
  BY <1>2
<1> QED BY <1>3 DEF c

UsedIn(bd, q) == \E b \in DOMAIN bd : \E i \in DOMAIN bd[b] : q \in ToSet(bd[b][i].uses)

(* The body when the arguments are sorted: they, the pops of the unused    *)
(* ones, and all else as selected, with r as return address.               *)
Moved(bd, k, f, r, A, P) ==
  /\ k \in Nat /\ k >= f.regs /\ r \in 0 .. k
  /\ bd \in [DOMAIN f.code -> Seq(AnyInstr(k))]
  /\ Sorted(A, NumStackArgs(f), k) /\ ArePops(P, k)
  /\ bd[1] = A \o (P \o Ret(Others(f.code[1]), r))
  /\ \A b \in DOMAIN f.code : b # 1 => bd[b] = Ret(f.code[b], r)
  /\ IF f.main THEN r = NoReg ELSE r # NoReg /\ A[1].def = r
  /\ \A i \in StackArgsAt(f.code[1]) : \E j \in DOMAIN A : A[j] = f.code[1][i]
  /\ \A j \in DOMAIN A : UsedIn(bd, A[j].def)

(* sortStackArgs.                                                          *)
LEMMA SortMoves ==
  ASSUME IsSelected(fn), NEW r, Prepared(body, regs, fn, NumStackArgs(fn), r),
         ReturnArg(body[1], fn, r),
         NEW bd, bd = [body EXCEPT ![1] = SortedArgs \o Pops \o Others(body[1])]
  PROVE  /\ 0 .. Len(Args) - 1 \subseteq Indices
         /\ Moved(bd, regs, fn, r, SortedArgs, Pops)
<1> DEFINE h == NumStackArgs(fn)
           k == regs
           s == body[1]
           S == SortedArgs
           P == Pops
           O == Others(s)
           I == AnyInstr(k)
<1>1. /\ fn.numArgs \in Nat /\ fn.main \in BOOLEAN /\ 1 \in DOMAIN fn.code
      /\ h = IF fn.main THEN fn.numArgs ELSE fn.numArgs + 1
  <2>1. fn.numArgs \in Nat /\ fn.main \in BOOLEAN /\ 1 \in DOMAIN fn.code
    BY SelectedCode
  <2> QED BY <2>1 DEF NumStackArgs
<1>2. /\ k \in Nat /\ k >= fn.regs /\ r \in 0 .. k
      /\ body \in [DOMAIN fn.code -> Seq(I)]
      /\ SeparateArgs(s, h)
      /\ \A n \in 0 .. h - 1 : HasArg(s, n)
      /\ \A i \in StackArgsAt(fn.code[1]) : \E j \in DOMAIN s : s[j] = fn.code[1][i]
      /\ O = Ret(Others(fn.code[1]), r)
      /\ \A b \in DOMAIN fn.code : b # 1 => body[b] = Ret(fn.code[b], r)
  BY DEF Prepared
<1>3. s \in Seq(I) /\ h \in Nat
  BY <1>1, <1>2
<1>4. /\ Len(Args) = h /\ 0 .. Len(Args) - 1 \subseteq Indices
      /\ Sorted(S, h, k)
      /\ \A i \in StackArgsAt(s) : \E j \in 1 .. h : S[j] = s[i]
      /\ \A j \in 1 .. h : \E i \in DOMAIN Args : S[j] = Args[i]
  <2> HIDE DEF h
  <2> QED BY <1>2, <1>3, SortedRight
<1>5. /\ Args \in Seq(I) /\ \A i \in DOMAIN Args : Args[i].def # NoReg
  <2>1. Args = StackArgs(s)
    BY DEF Args, Entry
  <2>2. \A i \in StackArgsAt(s) : s[i].def # NoReg
    BY <1>2 DEF SeparateArgs
  <2> HIDE DEF s, I
  <2> QED BY <1>3, <2>1, <2>2, StackArgsType
<1>6. /\ ArePops(P, k)
      /\ \A i \in DOMAIN Args : UseEmpty(Args[i].def) =>
           \E j \in DOMAIN P : Args[i].def \in ToSet(P[j].uses)
  BY <1>2, <1>5, PopsRight
<1>7. /\ O \in Seq(I)
      /\ \A i \in DOMAIN s : s[i].op # "STACKARG" => \E j \in DOMAIN O : O[j] = s[i]
  <2> HIDE DEF s, I
  <2> QED BY <1>3, OthersType
<1>8. bd = [body EXCEPT ![1] = (S \o P) \o O]
  OBVIOUS
<1>9. S \in Seq(I) /\ Len(S) = h /\ P \in Seq(I) /\ DOMAIN S = 1 .. h
  BY <1>4, <1>6 DEF Sorted, ArePops
<1> HIDE DEF S, P, O, s, I
<1>10. (S \o P) \o O = S \o (P \o O) /\ P \o O \in Seq(I)
  BY SMTT(60), <1>7, <1>9, ConcatAssoc
<1> DEFINE c == S \o (P \o O)
<1>11. /\ c \in Seq(I)
       /\ \A i \in DOMAIN P : \E j \in DOMAIN c : c[j] = P[i]
       /\ \A i \in DOMAIN O : \E j \in DOMAIN c : c[j] = O[i]
  <2> DEFINE d == P \o O
  <2>0. P \in Seq(I) /\ O \in Seq(I)
    BY <1>7, <1>9
  <2>1. d \in Seq(I) /\ \A i \in DOMAIN P : \E j \in DOMAIN d : d[j] = P[i]
    BY <2>0, ConcatHolds, Concat
  <2>2. \A i \in DOMAIN O : \E j \in DOMAIN d : d[j] = O[i]
    BY <2>0, ConcatHolds
  <2> HIDE DEF d
  <2>3. S \o d \in Seq(I) /\ \A i \in DOMAIN d : \E j \in DOMAIN (S \o d) : (S \o d)[j] = d[i]
    <3>1. S \in Seq(I) /\ d \in Seq(I)
      BY <1>9, <2>1
    <3> QED BY <3>1, ConcatHolds, Concat
  <2>4. c = S \o d
    BY DEF d
  <2> HIDE DEF c
  <2> QED BY ZenonT(60), <2>1, <2>2, <2>3, <2>4
<1> HIDE DEF c
<1>12. /\ bd \in [DOMAIN fn.code -> Seq(I)] /\ bd[1] = c
       /\ \A b \in DOMAIN fn.code : b # 1 => bd[b] = body[b]
  <2>1. bd = [body EXCEPT ![1] = c] /\ c \in Seq(I) /\ 1 \in DOMAIN fn.code
    BY <1>1, <1>8, <1>10, <1>11 DEF c
  <2>2. body \in [DOMAIN fn.code -> Seq(I)]
    BY <1>2
  <2> QED BY <2>1, <2>2
<1>13. ASSUME NEW j \in 1 .. h
       PROVE  UsedIn(bd, S[j].def)
  <2> DEFINE q == S[j].def
  <2>1. PICK i \in DOMAIN Args : S[j] = Args[i]
    BY <1>4
  <2>2. CASE UseEmpty(q)
    <3>1. PICK x \in DOMAIN P : q \in ToSet(P[x].uses)
      BY <1>6, <2>1, <2>2
    <3>2. PICK y \in DOMAIN c : c[y] = P[x]
      BY <1>11
    <3>3. 1 \in DOMAIN bd /\ y \in DOMAIN bd[1] /\ q \in ToSet(bd[1][y].uses)
      BY <3>1, <3>2, <1>1, <1>12
    <3> QED BY <3>3 DEF UsedIn
  <2>3. CASE ~UseEmpty(q)
    <3>1. PICK b \in DOMAIN body : \E mi \in ToSet(body[b]) : q \in ToSet(mi.uses)
      BY <2>3 DEF UseEmpty, InstrsOf
    <3>2. PICK x \in DOMAIN body[b] : q \in ToSet(body[b][x].uses)
      <4>1. ToSet(body[b]) = { body[b][x] : x \in DOMAIN body[b] }
        BY DEF ToSet
      <4> QED BY <3>1, <4>1
    <3>3. CASE b # 1
      BY <3>2, <3>3, <1>2, <1>12 DEF UsedIn
    <3>4. CASE b = 1
      <4>1. s[x].op # "STACKARG"
        <5>1. ToSet(<< >>) = {}
          BY DEF ToSet
        <5>2. x \in StackArgsAt(s) => s[x].uses = << >>
          BY <1>2 DEF SeparateArgs
        <5>3. q \in ToSet(s[x].uses) /\ x \in DOMAIN s
          BY <3>2, <3>4 DEF s
        <5> HIDE DEF q
        <5>4. x \notin StackArgsAt(s)
          BY <5>1, <5>2, <5>3
        <5> QED BY <5>3, <5>4 DEF StackArgsAt
      <4>2. PICK y \in DOMAIN O : O[y] = s[x]
        BY <1>7, <3>2, <3>4, <4>1 DEF s
      <4>3. PICK z \in DOMAIN c : c[z] = s[x]
        BY <1>11, <4>2
      <4> QED BY ZenonT(60), <3>2, <3>4, <4>3, <1>1, <1>12 DEF UsedIn, s
    <3> QED BY <3>3, <3>4
  <2> QED BY <2>2, <2>3
<1>14. \A i \in StackArgsAt(fn.code[1]) : \E j \in DOMAIN S : S[j] = fn.code[1][i]
  <2> TAKE i \in StackArgsAt(fn.code[1])
  <2>1. PICK j \in DOMAIN s : s[j] = fn.code[1][i]
    BY <1>2
  <2>2. j \in StackArgsAt(s)
    BY <2>1 DEF StackArgsAt
  <2> QED BY <2>1, <2>2, <1>4, <1>9
<1>15. IF fn.main THEN r = NoReg ELSE r # NoReg /\ S[1].def = r
  <2>1. CASE fn.main
    BY <2>1 DEF ReturnArg
  <2>2. CASE ~fn.main
    <3>1. r # NoReg /\ h = fn.numArgs + 1
      BY <2>2, <1>1 DEF ReturnArg
    <3>2. PICK i \in StackArgsAt(s) : s[i].n = fn.numArgs /\ s[i].def = r
      BY <2>2 DEF ReturnArg, s
    <3>3. PICK j \in 1 .. h : S[j] = s[i]
      BY <1>4
    <3>4. S[j].n = h - j
      BY <1>4 DEF Sorted
    <3>5. fn.numArgs = h - j
      BY <3>2, <3>3, <3>4
    <3> HIDE DEF h
    <3>6. j = 1
      BY <1>1, <1>3, <3>1, <3>5
    <3> QED BY <2>2, <3>1, <3>2, <3>3, <3>6
  <2> QED BY <2>1, <2>2
<1>16. Moved(bd, k, fn, r, S, P)
  <2>1. bd[1] = S \o (P \o Ret(Others(fn.code[1]), r))
    BY <1>2, <1>12 DEF c
  <2>2. \A b \in DOMAIN fn.code : b # 1 => bd[b] = Ret(fn.code[b], r)
    BY <1>2, <1>12
  <2>3. \A j \in DOMAIN S : UsedIn(bd, S[j].def)
    BY <1>9, <1>13
  <2> QED BY <1>2, <1>4, <1>6, <1>12, <1>14, <1>15, <2>1, <2>2, <2>3, Zenon DEF Moved, I
<1> QED BY <1>4, <1>16 DEF S, P

Rest(f, r) == Ret(Others(f.code[1]), r)

(* What the body consists of then.                                         *)
LEMMA MovedParts ==
  ASSUME IsSelected(fn), NEW r, NEW A, NEW P, Moved(body, regs, fn, r, A, P)
  PROVE  /\ Args = A /\ A \in Seq(AnyInstr(regs)) /\ Len(A) = NumStackArgs(fn)
         /\ P \in Seq(AnyInstr(regs)) /\ Rest(fn, r) \in Seq(AnyInstr(regs))
         /\ P \o Rest(fn, r) \in Seq(AnyInstr(regs))
         /\ body[1] = A \o (P \o Rest(fn, r))
         /\ Others(body[1]) = P \o Rest(fn, r)
         /\ \A i \in DOMAIN Rest(fn, r) : Rest(fn, r)[i].op \notin {"STACKARG", "POP_r"}
         /\ \A i \in DOMAIN (P \o Rest(fn, r)) : (P \o Rest(fn, r))[i].op # "STACKARG"
         /\ \A b \in DOMAIN fn.code : b # 1 =>
              /\ Others(fn.code[b]) = fn.code[b]
              /\ Others(body[b]) = body[b] /\ StackArgsAt(body[b]) = {}
              /\ \A i \in DOMAIN body[b] : body[b][i].op # "POP_r"
<1> DEFINE k == regs
           R == Rest(fn, r)
           I == AnyInstr(k)
           h == NumStackArgs(fn)
<1>1. /\ k \in Nat /\ k >= fn.regs /\ r \in 0 .. k
      /\ body \in [DOMAIN fn.code -> Seq(I)]
      /\ Sorted(A, h, k) /\ ArePops(P, k)
      /\ body[1] = A \o (P \o R)
      /\ \A b \in DOMAIN fn.code : b # 1 => body[b] = Ret(fn.code[b], r)
  BY DEF Moved, Rest
<1>2. /\ 1 \in DOMAIN fn.code /\ fn.code \in [DOMAIN fn.code -> Seq(I)]
      /\ \A b \in DOMAIN fn.code : \A i \in DOMAIN fn.code[b] : fn.code[b][i].op # "POP_r"
      /\ \A b \in DOMAIN fn.code : b # 1 => StackArgsAt(fn.code[b]) = {}
  BY <1>1, SelectedCode
<1>3. A \in Seq(I) /\ Len(A) = h /\ OnlyArgs(A)
  <2>1. A \in Seq(I) /\ Len(A) = h /\ \A i \in 1 .. h : A[i].op = "STACKARG"
    BY <1>1 DEF Sorted
  <2> HIDE DEF I, h
  <2>2. DOMAIN A = 1 .. h
    BY <2>1
  <2> QED BY <2>1, <2>2 DEF OnlyArgs, StackArgsAt
<1>4. P \in Seq(I) /\ \A i \in DOMAIN P : P[i].op = "POP_r"
  BY <1>1 DEF ArePops
<1>5. R \in Seq(I) /\ \A i \in DOMAIN R : R[i].op \notin {"STACKARG", "POP_r"}
  <2> DEFINE s == fn.code[1]
             O == Others(s)
  <2>1. s \in Seq(I) /\ \A i \in DOMAIN s : s[i].op # "POP_r"
    BY <1>2
  <2> HIDE DEF s, I
  <2>2. O \in Seq(I) /\ \A i \in DOMAIN O : O[i].op # "STACKARG" /\ \E j \in DOMAIN s : O[i] = s[j]
    BY <2>1, OthersType
  <2> HIDE DEF O
  <2>3. \A i \in DOMAIN O : O[i].op \notin {"STACKARG", "POP_r"}
    BY <2>1, <2>2
  <2>4. R = Ret(O, r)
    BY DEF Rest, O, s
  <2>5. R \in Seq(I) /\ Len(R) = Len(O) /\ \A i \in DOMAIN O : R[i].op = O[i].op
    BY <1>1, <2>2, <2>4, RetType DEF I
  <2> HIDE DEF R
  <2>6. DOMAIN R = DOMAIN O
    BY <2>2, <2>5
  <2> QED BY <2>3, <2>5, <2>6
<1> HIDE DEF I, R, h
<1> DEFINE d == P \o R
<1>6. d \in Seq(I) /\ \A i \in DOMAIN d : d[i].op # "STACKARG"
  <2>1. /\ d \in Seq(I) /\ \A i \in DOMAIN P : d[i] = P[i]
        /\ \A i \in DOMAIN R : d[Len(P) + i] = R[i]
        /\ \A j \in DOMAIN d : (j \in DOMAIN P) \/ \E i \in DOMAIN R : j = Len(P) + i
    BY SMTT(60), <1>4, <1>5, Concat
  <2> HIDE DEF d
  <2>2. \A i \in DOMAIN P : P[i].op # "STACKARG"
    BY <1>4
  <2> QED BY <1>5, <2>1, <2>2
<1> HIDE DEF d
<1>7. StackArgsAt(d) = {}
  BY <1>6 DEF StackArgsAt
<1>8. StackArgs(A \o d) = A /\ Others(A \o d) = d
  BY <1>3, <1>6, <1>7, ArgsThenOthers
<1>9. body[1] = A \o d
  BY <1>1 DEF d
<1>10. ASSUME NEW s \in Seq(I), StackArgsAt(s) = {}
       PROVE  Others(s) = s
  <2>1. Others(s) = Selected(s, DOMAIN s)
    BY <1>10 DEF Others
  <2> QED BY <2>1, SelectedAll
<1>11. ASSUME NEW b \in DOMAIN fn.code, b # 1
       PROVE  /\ Others(fn.code[b]) = fn.code[b]
              /\ Others(body[b]) = body[b] /\ StackArgsAt(body[b]) = {}
              /\ \A i \in DOMAIN body[b] : body[b][i].op # "POP_r"
  <2> DEFINE s == fn.code[b]
             w == body[b]
  <2>1. s \in Seq(I) /\ StackArgsAt(s) = {} /\ \A i \in DOMAIN s : s[i].op # "POP_r"
    BY <1>2, <1>11
  <2>2. w = Ret(s, r)
    BY <1>1, <1>11
  <2> HIDE DEF s, w
  <2>3. w \in Seq(I) /\ Len(w) = Len(s) /\ StackArgsAt(w) = StackArgsAt(s)
        /\ \A i \in DOMAIN s : w[i].op = s[i].op
    BY <1>1, <2>1, <2>2, RetType DEF I
  <2>4. DOMAIN w = DOMAIN s
    BY <2>1, <2>3
  <2> QED BY <1>10, <2>1, <2>3, <2>4 DEF s, w
<1>12. Args = A
  BY <1>8, <1>9 DEF Args, Entry
<1> QED BY <1>3, <1>4, <1>5, <1>6, <1>8, <1>9, <1>11, <1>12 DEF I, R, h, d

LEMMA MovedNamed ==
  ASSUME IsSelected(fn), NEW r, NEW A, NEW P, Moved(body, regs, fn, r, A, P)
  PROVE  ArgumentsNamed
<1> DEFINE k == regs
           R == Rest(fn, r)
           I == AnyInstr(k)
           h == NumStackArgs(fn)
           d == P \o R
<1>1. /\ Args = A /\ A \in Seq(I) /\ Len(A) = h
      /\ P \in Seq(I) /\ R \in Seq(I) /\ d \in Seq(I)
      /\ body[1] = A \o d /\ Others(body[1]) = d
      /\ \A i \in DOMAIN R : R[i].op \notin {"STACKARG", "POP_r"}
  BY MovedParts
<1>2. /\ k \in Nat /\ k >= fn.regs /\ r \in 0 .. k
      /\ body \in [DOMAIN fn.code -> Seq(I)]
      /\ Sorted(A, h, k) /\ ArePops(P, k)
      /\ \A b \in DOMAIN fn.code : b # 1 => body[b] = Ret(fn.code[b], r)
      /\ IF fn.main THEN r = NoReg ELSE r # NoReg /\ A[1].def = r
      /\ \A i \in StackArgsAt(fn.code[1]) : \E j \in DOMAIN A : A[j] = fn.code[1][i]
      /\ \A j \in DOMAIN A : UsedIn(body, A[j].def)
  BY DEF Moved
<1>3. \A b \in DOMAIN fn.code : b # 1 =>
        /\ Others(fn.code[b]) = fn.code[b] /\ Others(body[b]) = body[b]
        /\ \A i \in DOMAIN body[b] : body[b][i].op # "POP_r"
  BY MovedParts
<1>4. fn.numArgs \in Nat /\ fn.main \in BOOLEAN /\ 1 \in DOMAIN fn.code
      /\ fn.code \in [DOMAIN fn.code -> Seq(I)]
  BY <1>2, SelectedCode
<1>5. h = fn.numArgs + (IF fn.main THEN 0 ELSE 1) /\ h \in Nat
  BY <1>4 DEF NumStackArgs
<1>6. Len(ArgRegs) = h /\ DOMAIN ArgRegs = 1 .. h /\ \A i \in 1 .. h : ArgRegs[i] = A[i].def
  BY <1>1, <1>5 DEF ArgRegs
<1>7. SubSeq(Entry, 1, Len(Args)) = Args
  <2>1. Entry = A \o d
    BY <1>1 DEF Entry
  <2> HIDE DEF I, d
  <2> QED BY <1>1, <2>1
<1>8. ASSUME NEW mi \in ToSet(fn.code[1]), IsStackArg(mi)
      PROVE  ArgRegs[Len(Args) - mi.n] = mi.def
  <2>1. PICK i \in DOMAIN fn.code[1] : fn.code[1][i] = mi
    BY <1>8 DEF ToSet
  <2>2. i \in StackArgsAt(fn.code[1])
    BY <2>1, <1>8 DEF StackArgsAt, IsStackArg
  <2>3. PICK j \in DOMAIN A : A[j] = mi
    BY <2>1, <2>2, <1>2
  <2>4. j \in 1 .. h
    BY <1>1, <2>3
  <2>5. A[j].n = h - j
    BY <1>2, <2>4 DEF Sorted
  <2> HIDE DEF h
  <2>6. Len(Args) - mi.n = j
    BY <1>1, <1>5, <2>3, <2>4, <2>5
  <2> QED BY <1>6, <2>3, <2>4, <2>6
<1>9. ASSUME NEW q \in ToSet(ArgRegs) PROVE ~UseEmpty(q)
  <2>1. PICK j \in 1 .. h : q = A[j].def
    BY <1>6 DEF ToSet
  <2>2. UsedIn(body, q)
    BY <1>1, <1>2, <2>1
  <2>3. PICK b \in DOMAIN body : \E i \in DOMAIN body[b] : q \in ToSet(body[b][i].uses)
    BY <2>2 DEF UsedIn
  <2>4. PICK i \in DOMAIN body[b] : q \in ToSet(body[b][i].uses)
    BY <2>3
  <2>5. body[b][i] \in InstrsOf(body)
    BY <2>3, <2>4 DEF InstrsOf, ToSet
  <2> QED BY <2>4, <2>5 DEF UseEmpty
<1> HIDE DEF k, R, I, h, d
<1>10. Selected(d, { i \in DOMAIN d : d[i].op # "POP_r" }) = R
  <2> DEFINE K == { i \in DOMAIN d : d[i].op # "POP_r" }
             L == { Len(P) + i : i \in DOMAIN R }
  <2>1. \A i \in DOMAIN P : P[i].op = "POP_r"
    BY <1>2 DEF ArePops
  <2>2. /\ \A i \in DOMAIN P : d[i] = P[i]
        /\ \A i \in DOMAIN R : d[Len(P) + i] = R[i] /\ Len(P) + i \in DOMAIN d
        /\ \A j \in DOMAIN d : (j \in DOMAIN P) \/ \E i \in DOMAIN R : j = Len(P) + i
    BY SMTT(60), <1>1, Concat DEF d
  <2>3. K = L
    <3>1. \A j \in DOMAIN P : j \notin K
      BY <2>1, <2>2
    <3>2. \A i \in DOMAIN R : Len(P) + i \in K
      BY <1>1, <2>2
    <3>3. K \subseteq DOMAIN d
      OBVIOUS
    <3> HIDE DEF K
    <3> QED BY <2>2, <3>1, <3>2, <3>3
  <2>4. Selected(d, L) = Selected(R, DOMAIN R)
    <3>1. P \in Seq(I) /\ R \in Seq(I) /\ DOMAIN R \in SUBSET DOMAIN R
      BY <1>1
    <3>2. Selected(P \o R, { Len(P) + i : i \in DOMAIN R }) = Selected(R, DOMAIN R)
      BY <3>1, SelectedBehind
    <3> QED BY <3>2 DEF d
  <2>5. Selected(R, DOMAIN R) = R
    BY <1>1, SelectedAll
  <2> QED BY <2>3, <2>4, <2>5
<1>11. ASSUME NEW b \in DOMAIN fn.code
       PROVE  /\ Others(fn.code[b]) \in Seq(I)
              /\ Selected(Others(body[b]), { i \in DOMAIN Others(body[b]) : Others(body[b])[i].op # "POP_r" })
                   = Ret(Others(fn.code[b]), r)
  <2>1. Others(fn.code[b]) \in Seq(I)
    BY <1>4, OthersType
  <2>2. CASE b = 1
    BY <2>1, <2>2, <1>1, <1>10 DEF R, Rest
  <2>3. CASE b # 1
    <3> DEFINE w == body[b]
    <3>1. w \in Seq(I) /\ Others(w) = w /\ \A i \in DOMAIN w : w[i].op # "POP_r"
      BY <1>2, <1>3, <2>3
    <3>2. w = Ret(Others(fn.code[b]), r)
      BY <1>2, <1>3, <2>3
    <3> HIDE DEF w
    <3>3. { i \in DOMAIN w : w[i].op # "POP_r" } = DOMAIN w
      BY <3>1
    <3>4. Selected(w, DOMAIN w) = w
      BY <3>1, SelectedAll
    <3> QED BY <2>1, <3>1, <3>2, <3>3, <3>4 DEF w
  <2> QED BY <2>2, <2>3
<1>12. ASSUME NEW b \in DOMAIN body
       PROVE  LET old == Others(fn.code[b])
                  new == Selected(Code[b], { i \in DOMAIN Code[b] : Code[b][i].op # "POP_r" })
              IN  /\ Len(old) = Len(new)
                  /\ \A i \in DOMAIN old :
                       new[i] = IF fn.main THEN old[i] ELSE ReturnsTo(old[i], ArgRegs[1])
  <2> DEFINE old == Others(fn.code[b])
             new == Selected(Code[b], { i \in DOMAIN Code[b] : Code[b][i].op # "POP_r" })
  <2>1. b \in DOMAIN fn.code /\ Code[b] = Others(body[b])
    BY <1>2 DEF Code
  <2>2. old \in Seq(I) /\ new = Ret(old, r)
    BY <1>11, <2>1
  <2> HIDE DEF old, new
  <2>3. /\ Len(new) = Len(old)
        /\ \A i \in DOMAIN old : new[i] = IF r = NoReg THEN old[i] ELSE ReturnsTo(old[i], r)
    BY <1>2, <2>2, RetType DEF I, k
  <2>4. CASE fn.main
    BY <1>2, <2>3, <2>4 DEF old, new
  <2>5. CASE ~fn.main
    <3>1. r # NoReg /\ 1 \in 1 .. h /\ A[1].def = r
      BY <1>2, <1>4, <1>5, <2>5
    <3>2. ArgRegs[1] = r
      BY <1>6, <3>1
    <3> QED BY <2>3, <2>5, <3>1, <3>2 DEF old, new
  <2> QED BY <1>4, <2>4, <2>5
<1>13. Len(Args) = fn.numArgs + (IF fn.main THEN 0 ELSE 1)
  BY <1>1, <1>5
<1> QED BY <1>7, <1>8, <1>9, <1>12, <1>13, Zenon DEF ArgumentsNamed

-----------------------------------------------------------------------------
(* The parts of EVMArgumentMove, one after the other.                      *)
MoveInv ==
  /\ IsSelected(fn)
  /\ stage \in {"arrange", "return", "sort", "moved", "done"}
  /\ stage = "arrange" => body = fn.code /\ regs = fn.regs
  /\ stage = "return" => Prepared(body, regs, fn, fn.numArgs, NoReg)
  /\ stage = "sort" => \E r : /\ Prepared(body, regs, fn, NumStackArgs(fn), r)
                              /\ ReturnArg(body[1], fn, r)
  /\ stage \in {"moved", "done"} => \E r, A, P : Moved(body, regs, fn, r, A, P)

LEMMA IndicesAre ==
  ASSUME NEW k \in Nat, body[1] \in Seq(AnyInstr(k))
  PROVE  \A n : n \in Indices <=> HasArg(body[1], n)
<1> DEFINE s == body[1]
           A == StackArgs(s)
           I == AnyInstr(k)
<1>1. Indices = { mi.n : mi \in { A[i] : i \in DOMAIN A } }
  BY DEF Indices, Args, Entry, ToSet
<1>2. s \in Seq(I)
  OBVIOUS
<1> HIDE DEF s, I
<1>3. /\ \A i \in DOMAIN A : \E x \in StackArgsAt(s) : A[i] = s[x]
      /\ \A x \in StackArgsAt(s) : \E i \in DOMAIN A : A[i] = s[x]
  BY <1>2, StackArgsType
<1> HIDE DEF A
<1>4. \A n : (\E i \in DOMAIN A : A[i].n = n) <=> (\E x \in StackArgsAt(s) : s[x].n = n)
  BY <1>3
<1> QED BY <1>1, <1>4 DEF HasArg, s

LEMMA EmptyOthers == Others(<< >>) = << >>
<1>1. DOMAIN << >> = {}
  OBVIOUS
<1>2. DOMAIN << >> \ StackArgsAt(<< >>) = {}
  BY <1>1
<1> QED BY <1>2, SelectedNone DEF Others

LEMMA EmptyRet ==
  ASSUME NEW S, NEW s \in Seq(S), NEW r, Ret(s, r) = << >>
  PROVE  s = << >>
<1>1. CASE r = NoReg
  BY <1>1 DEF Ret
<1>2. CASE r # NoReg
  <2>1. << >> = [i \in DOMAIN s |-> ReturnsTo(s[i], r)]
    BY <1>2 DEF Ret, WithReturnAddress
  <2>2. DOMAIN << >> = DOMAIN s
    BY <2>1
  <2> QED BY <2>2
<1> QED BY <1>1, <1>2

LEMMA MoveStep ==
  ASSUME MoveInv, MoveNext
  PROVE  /\ MoveInv'
         /\ error' # NoError => NothingInEntry'
         /\ stage' # "done" /\ stage # "moved" /\ stage # "done" /\ fn' = fn
<1>1. /\ fn.numArgs \in Nat /\ fn.main \in BOOLEAN /\ 1 \in DOMAIN fn.code /\ fn.regs \in Nat
      /\ fn.code \in [DOMAIN fn.code -> Seq(AnyInstr(fn.regs))]
  <2>1. fn.regs \in Nat => fn.regs >= fn.regs
    OBVIOUS
  <2> QED BY <2>1, SelectedCode DEF MoveInv
<1>2. IsSelected(fn)
  BY DEF MoveInv
<1>3. CASE ArrangeStackArgs
  <2>1. stage = "arrange" /\ body = fn.code /\ regs = fn.regs /\ error = NoError
    BY <1>3 DEF ArrangeStackArgs, MoveInv
  <2>2. CASE Missing # {} /\ Entry = << >>
    <3>1. /\ fn' = fn /\ stage' = stage /\ body' = body /\ regs' = regs
      BY <1>3, <2>2 DEF ArrangeStackArgs, Stop
    <3>2. NothingInEntry'
      BY <2>1, <2>2, <3>1, EmptyOthers DEF NothingInEntry, Entry
    <3> QED BY <1>2, <2>1, <3>1, <3>2 DEF MoveInv
  <2>3. CASE ~(Missing # {} /\ Entry = << >>)
    <3> DEFINE new == [k \in DOMAIN Increasing(Missing) |-> Stackarg(regs + k, Increasing(Missing)[k])]
    <3>1. /\ body' = [body EXCEPT ![1] = Reverse(new) \o @]
          /\ regs' = regs + Len(new) /\ stage' = "return" /\ fn' = fn /\ error' = error
      BY <1>3, <2>3 DEF ArrangeStackArgs
    <3>2. AreNew(new, Missing, fn)
      BY <2>1 DEF AreNew
    <3>3. IsMissing(Missing, fn)
      <4>1. body[1] \in Seq(AnyInstr(fn.regs))
        BY <1>1, <2>1
      <4>2. \A n : n \in Indices <=> HasArg(body[1], n)
        BY <1>1, <4>1, IndicesAre
      <4> QED BY <2>1, <4>2 DEF IsMissing, Missing
    <3> HIDE DEF new
    <3>4. Prepared([fn.code EXCEPT ![1] = Reverse(new) \o @], fn.regs + Len(new),
                   fn, fn.numArgs, NoReg)
      BY <1>2, <3>2, <3>3, ArrangeRight
    <3>5. Prepared(body', regs', fn', fn'.numArgs, NoReg)
      BY <2>1, <3>1, <3>4
    <3> QED BY <1>2, <2>1, <3>1, <3>5 DEF MoveInv
  <2> QED BY <2>2, <2>3
<1>4. CASE InsertRetAddrArg
  <2>1. stage = "return" /\ error = NoError /\ Prepared(body, regs, fn, fn.numArgs, NoReg)
    BY <1>4 DEF InsertRetAddrArg, MoveInv
  <2>2. CASE fn.main
    <3>1. fn' = fn /\ stage' = "sort" /\ body' = body /\ regs' = regs /\ error' = error
      BY <1>4, <2>2 DEF InsertRetAddrArg
    <3>2. NumStackArgs(fn) = fn.numArgs
      BY <1>1, <2>2 DEF NumStackArgs
    <3>3. Prepared(body', regs', fn', NumStackArgs(fn'), NoReg) /\ ReturnArg(body'[1], fn', NoReg)
      BY <2>1, <2>2, <3>1, <3>2 DEF ReturnArg
    <3> QED BY <1>2, <2>1, <3>1, <3>3 DEF MoveInv
  <2>3. CASE ~fn.main /\ Entry = << >>
    <3>1. fn' = fn /\ stage' = stage /\ body' = body /\ regs' = regs
      BY <1>4, <2>3 DEF InsertRetAddrArg, Stop
    <3>2. Others(body[1]) = Others(fn.code[1])
      BY <2>1 DEF Prepared, Ret
    <3>3. NothingInEntry'
      BY <2>3, <3>1, <3>2, EmptyOthers DEF NothingInEntry, Entry
    <3> QED BY <1>2, <2>1, <3>1, <3>3 DEF MoveInv
  <2>4. CASE ~fn.main /\ Entry # << >>
    <3>1. /\ IsInserted(body', body, regs, fn) /\ regs' = regs + 1
          /\ stage' = "sort" /\ fn' = fn /\ error' = error
      BY <1>4, <2>4 DEF InsertRetAddrArg, RetAddrStackArgNum, IsInserted
    <3>2. /\ Prepared(body', regs + 1, fn, NumStackArgs(fn), regs + 1)
          /\ ReturnArg(body'[1], fn, regs + 1)
      BY <1>2, <2>1, <2>4, <3>1, InsertRight
    <3>3. Prepared(body', regs', fn', NumStackArgs(fn'), regs') /\ ReturnArg(body'[1], fn', regs')
      BY <3>1, <3>2
    <3> QED BY <1>2, <2>1, <3>1, <3>3 DEF MoveInv
  <2> QED BY <1>1, <2>2, <2>3, <2>4
<1>5. CASE SortStackArgs
  <2>1. stage = "sort" /\ error = NoError
    BY <1>5 DEF SortStackArgs
  <2>2. PICK r : Prepared(body, regs, fn, NumStackArgs(fn), r) /\ ReturnArg(body[1], fn, r)
    BY <2>1 DEF MoveInv
  <2> DEFINE bd == [body EXCEPT ![1] = SortedArgs \o Pops \o Others(body[1])]
  <2>3. 0 .. Len(Args) - 1 \subseteq Indices /\ Moved(bd, regs, fn, r, SortedArgs, Pops)
    BY <1>2, <2>2, SortMoves
  <2>4. CASE Pops # << >> /\ Others(Entry) = << >>
    <3>1. fn' = fn /\ stage' = stage /\ body' = body /\ regs' = regs
      BY <1>5, <2>3, <2>4 DEF SortStackArgs, Stop
    <3>2. Ret(Others(fn.code[1]), r) = << >>
      BY <2>2, <2>4 DEF Prepared, Entry
    <3>3. Others(fn.code[1]) \in Seq(AnyInstr(fn.regs))
      BY <1>1, OthersType
    <3>4. Others(fn.code[1]) = << >>
      BY <3>2, <3>3, EmptyRet
    <3>5. NothingInEntry'
      BY <3>1, <3>4 DEF NothingInEntry
    <3> QED BY <1>2, <2>1, <2>2, <3>1, <3>5 DEF MoveInv
  <2>5. CASE ~(Pops # << >> /\ Others(Entry) = << >>)
    <3>1. body' = bd /\ stage' = "moved" /\ fn' = fn /\ regs' = regs /\ error' = error
      BY <1>5, <2>3, <2>5 DEF SortStackArgs, Entry
    <3> HIDE DEF bd
    <3>2. Moved(body', regs', fn', r, SortedArgs, Pops)
      BY <2>3, <3>1
    <3>3. \E q, A, P : Moved(body', regs', fn', q, A, P)
      BY <3>2
    <3> QED BY <1>2, <2>1, <3>1, <3>3 DEF MoveInv
  <2> QED BY <2>4, <2>5
<1> QED BY <1>3, <1>4, <1>5 DEF MoveNext

-----------------------------------------------------------------------------
(* The code written for an instruction: its loads, itself unless it is a   *)
(* pSTACKARG_r, and the store of its result, behind the p first elements.  *)
OutInstr == [op : {"GETLOCAL", "PUTLOCAL", "POP", "MI"}, n : Nat]

Width(mi) ==
  Len(mi.uses) + (IF mi.op = "STACKARG" THEN 0 ELSE 1) + (IF mi.def = NoReg THEN 0 ELSE 1)

Piece(o, mi, i, p, m) ==
  /\ \A j \in 1 .. Len(mi.uses) :
       mi.uses[j] \in DOMAIN m /\ o[p + j] = Op("GETLOCAL", m[mi.uses[j]])
  /\ mi.op # "STACKARG" => o[p + (Len(mi.uses) + 1)] = Op("MI", i)
  /\ mi.def # NoReg =>
       \/ o[p + Width(mi)] = Op("POP", 0)
       \/ mi.def \in DOMAIN m /\ o[p + Width(mi)] = Op("PUTLOCAL", m[mi.def])

(* o is the code of the first n instructions of s, that of the i-th one    *)
(* behind the pos[i] first elements.                                       *)
Laid(o, s, n, pos, m) ==
  /\ n \in Nat /\ n <= Len(s) /\ o \in Seq(OutInstr)
  /\ pos \in [1 .. n + 1 -> Nat] /\ pos[1] = 0 /\ pos[n + 1] = Len(o)
  /\ \A i \in 1 .. n : /\ pos[i + 1] = pos[i] + Width(s[i]) /\ pos[i + 1] <= Len(o)
                       /\ Piece(o, s[i], i, pos[i], m)

LEMMA WidthType ==
  ASSUME NEW k \in Nat, NEW mi \in AnyInstr(k)
  PROVE  /\ Width(mi) \in Nat /\ Len(mi.uses) \in Nat
         /\ Len(mi.uses) <= Width(mi)
         /\ mi.op # "STACKARG" => Len(mi.uses) + 1 <= Width(mi)
         /\ mi.op # "STACKARG" /\ mi.def = NoReg => Width(mi) = Len(mi.uses) + 1
         /\ mi.op # "STACKARG" /\ mi.def # NoReg => Width(mi) = Len(mi.uses) + 2
         /\ mi.op = "STACKARG" /\ mi.def # NoReg => Width(mi) = Len(mi.uses) + 1
         /\ mi.def # NoReg => 1 <= Width(mi)
<1> DEFINE l == Len(mi.uses)
           a == IF mi.op = "STACKARG" THEN 0 ELSE 1
           d == IF mi.def = NoReg THEN 0 ELSE 1
<1>1. l \in Nat /\ Width(mi) = l + a + d
  BY DEF AnyInstr, Width
<1>2. /\ a \in 0 .. 1 /\ d \in 0 .. 1
      /\ mi.op = "STACKARG" => a = 0
      /\ mi.op # "STACKARG" => a = 1
      /\ mi.def = NoReg => d = 0
      /\ mi.def # NoReg => d = 1
  OBVIOUS
<1> HIDE DEF l, a, d
<1> QED BY <1>1, <1>2 DEF l

LEMMA PiecePrefix ==
  ASSUME NEW k \in Nat, NEW mi \in AnyInstr(k), NEW i, NEW m,
         NEW o \in Seq(OutInstr), NEW c \in Seq(OutInstr), NEW p \in Nat,
         p + Width(mi) <= Len(o), Piece(o, mi, i, p, m)
  PROVE  Piece(o \o c, mi, i, p, m)
<1> DEFINE l == Len(mi.uses)
           w == Width(mi)
           d == o \o c
<1>1. /\ w \in Nat /\ l \in Nat /\ l <= w
      /\ mi.op # "STACKARG" => l + 1 <= w
      /\ mi.def # NoReg => 1 <= w
  BY WidthType
<1>2. \A x \in 1 .. Len(o) : d[x] = o[x]
  OBVIOUS
<1>3. /\ \A j \in 1 .. l : mi.uses[j] \in DOMAIN m /\ o[p + j] = Op("GETLOCAL", m[mi.uses[j]])
      /\ mi.op # "STACKARG" => o[p + (l + 1)] = Op("MI", i)
      /\ mi.def # NoReg => \/ o[p + w] = Op("POP", 0)
                           \/ mi.def \in DOMAIN m /\ o[p + w] = Op("PUTLOCAL", m[mi.def])
  BY DEF Piece
<1>4. p + w <= Len(o) /\ Len(o) \in Nat
  OBVIOUS
<1> HIDE DEF l, w, d
<1>5. /\ \A j \in 1 .. l : p + j \in 1 .. Len(o)
      /\ mi.op # "STACKARG" => p + (l + 1) \in 1 .. Len(o)
      /\ mi.def # NoReg => p + w \in 1 .. Len(o)
  BY <1>1, <1>4
<1>6. /\ \A j \in 1 .. l : mi.uses[j] \in DOMAIN m /\ d[p + j] = Op("GETLOCAL", m[mi.uses[j]])
      /\ mi.op # "STACKARG" => d[p + (l + 1)] = Op("MI", i)
      /\ mi.def # NoReg => \/ d[p + w] = Op("POP", 0)
                           \/ mi.def \in DOMAIN m /\ d[p + w] = Op("PUTLOCAL", m[mi.def])
  BY <1>2, <1>3, <1>5
<1> QED BY <1>6 DEF Piece, l, w, d

LEMMA PieceBehind ==
  ASSUME NEW k \in Nat, NEW mi \in AnyInstr(k), NEW i, NEW m,
         NEW o \in Seq(OutInstr), NEW c \in Seq(OutInstr),
         Len(c) = Width(mi), Piece(c, mi, i, 0, m)
  PROVE  Piece(o \o c, mi, i, Len(o), m)
<1> DEFINE l == Len(mi.uses)
           w == Width(mi)
           d == o \o c
           p == Len(o)
<1>1. /\ w \in Nat /\ l \in Nat /\ l <= w
      /\ mi.op # "STACKARG" => l + 1 <= w
      /\ mi.def # NoReg => 1 <= w
  BY WidthType
<1>2. \A x \in 1 .. Len(c) : d[p + x] = c[x]
  OBVIOUS
<1>3. /\ \A j \in 1 .. l : mi.uses[j] \in DOMAIN m /\ c[0 + j] = Op("GETLOCAL", m[mi.uses[j]])
      /\ mi.op # "STACKARG" => c[0 + (l + 1)] = Op("MI", i)
      /\ mi.def # NoReg => \/ c[0 + w] = Op("POP", 0)
                           \/ mi.def \in DOMAIN m /\ c[0 + w] = Op("PUTLOCAL", m[mi.def])
  BY DEF Piece
<1>4. w = Len(c) /\ Len(o) \in Nat
  OBVIOUS
<1> HIDE DEF l, w, d, p
<1>5. /\ \A j \in 1 .. l : j \in 1 .. Len(c) /\ 0 + j = j
      /\ mi.op # "STACKARG" => l + 1 \in 1 .. Len(c) /\ 0 + (l + 1) = l + 1
      /\ mi.def # NoReg => w \in 1 .. Len(c) /\ 0 + w = w
  BY <1>1, <1>4
<1>6. /\ \A j \in 1 .. l : mi.uses[j] \in DOMAIN m /\ d[p + j] = Op("GETLOCAL", m[mi.uses[j]])
      /\ mi.op # "STACKARG" => d[p + (l + 1)] = Op("MI", i)
      /\ mi.def # NoReg => \/ d[p + w] = Op("POP", 0)
                           \/ mi.def \in DOMAIN m /\ d[p + w] = Op("PUTLOCAL", m[mi.def])
  BY <1>2, <1>3, <1>5
<1> QED BY <1>6 DEF Piece, l, w, d, p

Extends(m2, m1) == DOMAIN m1 \subseteq DOMAIN m2 /\ \A r \in DOMAIN m1 : m2[r] = m1[r]

LEMMA PieceExtends ==
  ASSUME NEW o, NEW mi, NEW i, NEW p, NEW m, NEW m2, Extends(m2, m), Piece(o, mi, i, p, m)
  PROVE  Piece(o, mi, i, p, m2)
BY DEF Piece, Extends

LEMMA LaidExtends ==
  ASSUME NEW o, NEW s, NEW n, NEW pos, NEW m, NEW m2, Extends(m2, m), Laid(o, s, n, pos, m)
  PROVE  Laid(o, s, n, pos, m2)
<1>1. \A i \in 1 .. n : Piece(o, s[i], i, pos[i], m2)
  BY PieceExtends DEF Laid
<1> QED BY <1>1, Zenon DEF Laid

LEMMA LaidNext ==
  ASSUME NEW k \in Nat, NEW s \in Seq(AnyInstr(k)), NEW o, NEW n, NEW pos, NEW m,
         Laid(o, s, n, pos, m), n < Len(s),
         NEW c \in Seq(OutInstr), Len(c) = Width(s[n + 1]), Piece(c, s[n + 1], n + 1, 0, m)
  PROVE  \E pos2 : Laid(o \o c, s, n + 1, pos2, m)
<1> DEFINE d == o \o c
           q == [i \in 1 .. n + 2 |-> IF i = n + 2 THEN Len(d) ELSE pos[i]]
<1>1. /\ n \in Nat /\ n + 1 \in Nat /\ n + 1 <= Len(s) /\ n + 1 \in 1 .. Len(s) /\ Len(s) \in Nat
      /\ \A i \in 1 .. n : i \in 1 .. Len(s)
  BY DEF Laid
<1>2. o \in Seq(OutInstr) /\ Len(o) \in Nat
  BY DEF Laid
<1>3. d \in Seq(OutInstr) /\ Len(d) = Len(o) + Width(s[n + 1]) /\ Len(d) \in Nat /\ Len(o) <= Len(d)
  BY SMTT(60), <1>2
<1>4. /\ pos \in [1 .. n + 1 -> Nat] /\ pos[1] = 0 /\ pos[n + 1] = Len(o)
      /\ \A i \in 1 .. n : /\ pos[i + 1] = pos[i] + Width(s[i]) /\ pos[i + 1] <= Len(o)
                           /\ Piece(o, s[i], i, pos[i], m)
  BY DEF Laid
<1>5. \A i \in 1 .. n : Piece(d, s[i], i, pos[i], m)
  <2> TAKE i \in 1 .. n
  <2>1. s[i] \in AnyInstr(k) /\ pos[i] \in Nat /\ pos[i] + Width(s[i]) <= Len(o)
        /\ Piece(o, s[i], i, pos[i], m)
    BY <1>1, <1>4
  <2> QED BY <1>2, <2>1, PiecePrefix
<1>6. Piece(d, s[n + 1], n + 1, pos[n + 1], m)
  <2>1. s[n + 1] \in AnyInstr(k)
    BY <1>1
  <2>2. Piece(d, s[n + 1], n + 1, Len(o), m)
    BY <1>2, <2>1, PieceBehind
  <2> QED BY <2>2, <1>4
<1> HIDE DEF d
<1>7. /\ q \in [1 .. n + 2 -> Nat] /\ q[n + 2] = Len(d)
      /\ \A i \in 1 .. n + 1 : q[i] = pos[i]
  BY SMTT(60), <1>1, <1>3, <1>4
<1> HIDE DEF q
<1>8. q[1] = 0 /\ (n + 1) + 1 = n + 2
  BY <1>1, <1>4, <1>7
<1>9. ASSUME NEW i \in 1 .. n + 1
      PROVE  q[i + 1] = q[i] + Width(s[i]) /\ q[i + 1] <= Len(d) /\ Piece(d, s[i], i, q[i], m)
  <2>1. CASE i = n + 1
    BY SMTT(60), <2>1, <1>3, <1>4, <1>6, <1>7, <1>8
  <2>2. CASE i # n + 1
    <3>1. i \in 1 .. n /\ i + 1 \in 1 .. n + 1
      BY <2>2, <1>1
    <3>2. pos[i + 1] \in Nat
      BY <1>4, <3>1
    <3>3. q[i + 1] = pos[i + 1] /\ q[i] = pos[i]
      BY <1>7, <3>1
    <3>4. pos[i + 1] = pos[i] + Width(s[i]) /\ pos[i + 1] <= Len(o) /\ Piece(d, s[i], i, pos[i], m)
      BY <1>4, <1>5, <3>1
    <3>5. pos[i + 1] <= Len(d)
      BY <1>2, <1>3, <3>2, <3>4
    <3> QED BY <3>3, <3>4, <3>5
  <2> QED BY <2>1, <2>2
<1>10. Laid(d, s, n + 1, q, m)
  BY <1>1, <1>3, <1>7, <1>8, <1>9, Zenon DEF Laid
<1> QED BY <1>10 DEF d

LEMMA LaidNothing ==
  ASSUME NEW s, Len(s) \in Nat, NEW m
  PROVE  \E pos : Laid(<< >>, s, 0, pos, m)
<1> DEFINE q == [i \in 1 .. 1 |-> 0]
<1>1. /\ q \in [1 .. 0 + 1 -> Nat] /\ q[1] = 0 /\ q[0 + 1] = 0
      /\ << >> \in Seq(OutInstr) /\ Len(<< >>) = 0 /\ 0 \in Nat /\ 0 <= Len(s)
  OBVIOUS
<1>2. 1 .. 0 = {}
  OBVIOUS
<1> HIDE DEF q
<1>3. Laid(<< >>, s, 0, q, m)
  BY <1>1, <1>2 DEF Laid
<1> QED BY <1>3

IsStore(Z, mi, m) ==
  /\ mi.def = NoReg => Z = << >>
  /\ mi.def # NoReg => \/ Z = << Op("POP", 0) >>
                       \/ mi.def \in DOMAIN m /\ Z = << Op("PUTLOCAL", m[mi.def]) >>

AreLoads(X, mi, m) == X = [j \in DOMAIN mi.uses |-> Op("GETLOCAL", m[mi.uses[j]])]

IsItself(Y, mi, i) ==
  /\ mi.op = "STACKARG" => Y = << >>
  /\ mi.op # "STACKARG" => Y = << Op("MI", i) >>

HasSlots(mi, m) ==
  ToSet(mi.uses) \subseteq DOMAIN m /\ \A x \in DOMAIN m : m[x] \in Nat

LEMMA NewPiece ==
  ASSUME NEW k \in Nat, NEW mi \in AnyInstr(k), NEW i \in Nat,
         NEW m, HasSlots(mi, m),
         NEW X, AreLoads(X, mi, m), NEW Y, IsItself(Y, mi, i), NEW Z, IsStore(Z, mi, m)
  PROVE  /\ X \in Seq(OutInstr) /\ Y \in Seq(OutInstr) /\ Z \in Seq(OutInstr)
         /\ Len(X \o (Y \o Z)) = Width(mi)
         /\ Piece(X \o (Y \o Z), mi, i, 0, m)
<1> DEFINE l == Len(mi.uses)
<1>1. mi.uses \in Seq(1 .. k) /\ l \in Nat /\ DOMAIN mi.uses = 1 .. l
  BY DEF AnyInstr
<1>2. \A j \in 1 .. l : mi.uses[j] \in DOMAIN m /\ m[mi.uses[j]] \in Nat
  <2>1. \A j \in 1 .. l : mi.uses[j] \in ToSet(mi.uses)
    BY <1>1 DEF ToSet
  <2> QED BY <2>1 DEF HasSlots
<1>3. \A x : Op("GETLOCAL", x).op = "GETLOCAL" /\ (x \in Nat => Op("GETLOCAL", x) \in OutInstr)
  BY DEF Op, OutInstr
<1>4. Op("MI", i) \in OutInstr /\ Op("POP", 0) \in OutInstr
  BY DEF Op, OutInstr
<1>5. \A x \in Nat : Op("PUTLOCAL", x) \in OutInstr
  BY DEF Op, OutInstr
<1>6. X = [j \in 1 .. l |-> Op("GETLOCAL", m[mi.uses[j]])]
  BY <1>1 DEF AreLoads
<1>7. X \in Seq(OutInstr) /\ Len(X) = l /\ \A j \in 1 .. l : X[j] = Op("GETLOCAL", m[mi.uses[j]])
  <2>1. \A j \in 1 .. l : X[j] = Op("GETLOCAL", m[mi.uses[j]]) /\ X[j] \in OutInstr
    BY <1>2, <1>3, <1>6
  <2> DEFINE S == OutInstr
             g == [j \in 1 .. l |-> Op("GETLOCAL", m[mi.uses[j]])]
  <2>2. X = g /\ g \in [1 .. l -> S] /\ l \in Nat
    BY <1>1, <1>6, <2>1
  <2> HIDE DEF l, S, g
  <2>3. g \in Seq(S) /\ Len(g) = l
    BY <2>2
  <2> QED BY <2>1, <2>2, <2>3 DEF S
<1>8. Y \in Seq(OutInstr) /\ (mi.op = "STACKARG" => Len(Y) = 0)
      /\ (mi.op # "STACKARG" => Len(Y) = 1 /\ Y[1] = Op("MI", i))
  <2> DEFINE e == Op("MI", i)
             S == OutInstr
  <2>1. e \in S /\ (mi.op = "STACKARG" => Y = << >>) /\ (mi.op # "STACKARG" => Y = << e >>)
    BY <1>4 DEF IsItself
  <2> HIDE DEF e, S
  <2>2. CASE mi.op = "STACKARG"
    BY <2>1, <2>2 DEF S
  <2>3. CASE mi.op # "STACKARG"
    <3>1. Y = << e >> /\ e \in S
      BY <2>1, <2>3
    <3>2. Y \in Seq(S) /\ Len(Y) = 1 /\ Y[1] = e
      BY <3>1
    <3> QED BY <2>3, <3>2 DEF S, e
  <2> QED BY <2>2, <2>3
<1>9. /\ Z \in Seq(OutInstr) /\ (mi.def = NoReg => Len(Z) = 0)
      /\ mi.def # NoReg => /\ Len(Z) = 1
                           /\ \/ Z[1] = Op("POP", 0)
                              \/ mi.def \in DOMAIN m /\ Z[1] = Op("PUTLOCAL", m[mi.def])
  <2>1. CASE mi.def = NoReg
    BY <2>1 DEF IsStore
  <2>2. CASE mi.def # NoReg
    <3>1. PICK e \in OutInstr : /\ Z = << e >>
                              /\ \/ e = Op("POP", 0)
                                 \/ mi.def \in DOMAIN m /\ e = Op("PUTLOCAL", m[mi.def])
      BY <1>4, <1>5, <2>2 DEF IsStore, HasSlots
    <3>2. Z \in Seq(OutInstr) /\ Len(Z) = 1 /\ Z[1] = e
      BY <3>1
    <3> QED BY <2>2, <3>1, <3>2
  <2> QED BY <2>1, <2>2
<1> HIDE DEF l
<1> DEFINE d == Y \o Z
           c == X \o d
<1>10. /\ d \in Seq(OutInstr) /\ Len(d) = Len(Y) + Len(Z)
       /\ Len(Y) = 1 => d[1] = Y[1]
       /\ Len(Z) = 1 => d[Len(d)] = Z[1]
  BY <1>8, <1>9
<1> HIDE DEF d
<1>11. /\ c \in Seq(OutInstr) /\ Len(c) = l + Len(d)
       /\ \A j \in 1 .. l : c[j] = X[j]
       /\ \A j \in 1 .. Len(d) : c[l + j] = d[j]
  <2>1. X \in Seq(OutInstr) /\ Len(X) = l /\ d \in Seq(OutInstr)
    BY <1>7, <1>10
  <2>2. c \in Seq(OutInstr) /\ Len(c) = Len(X) + Len(d)
    BY <2>1
  <2>3. \A j \in 1 .. Len(X) : c[j] = X[j]
    BY <2>1
  <2>4. \A j \in 1 .. Len(d) : c[Len(X) + j] = d[j]
    BY <2>1
  <2> QED BY <2>1, <2>2, <2>3, <2>4
<1> HIDE DEF c
<1>12. Len(Y) \in Nat /\ Len(Z) \in Nat /\ Len(d) \in Nat /\ l \in Nat
  BY <1>1, <1>8, <1>9, <1>10
<1>13. Len(c) = Width(mi)
  <2>1. Len(c) = l + Len(Y) + Len(Z)
    BY <1>10, <1>11, <1>12
  <2>2. Len(Y) = IF mi.op = "STACKARG" THEN 0 ELSE 1
    BY <1>8
  <2>3. Len(Z) = IF mi.def = NoReg THEN 0 ELSE 1
    BY <1>9
  <2> QED BY <2>1, <2>2, <2>3, Zenon DEF Width, l
<1>14. mi.op # "STACKARG" => c[0 + (l + 1)] = Op("MI", i)
  <2> SUFFICES ASSUME mi.op # "STACKARG" PROVE c[0 + (l + 1)] = Op("MI", i)
    OBVIOUS
  <2>1. 1 \in 1 .. Len(d) /\ d[1] = Op("MI", i) /\ 0 + (l + 1) = l + 1
    BY <1>8, <1>10, <1>12
  <2> QED BY <2>1, <1>11
<1>15. mi.def # NoReg => c[0 + Width(mi)] = Z[1]
  <2> SUFFICES ASSUME mi.def # NoReg PROVE c[0 + Width(mi)] = Z[1]
    OBVIOUS
  <2>1. Len(Z) = 1 /\ Len(d) = Len(Y) + Len(Z) /\ (Len(Z) = 1 => d[Len(d)] = Z[1])
    BY <1>9, <1>10
  <2>2. Len(c) = l + Len(d) /\ \A j \in 1 .. Len(d) : c[l + j] = d[j]
    BY <1>11
  <2>3. Len(d) \in 1 .. Len(d) /\ 0 + Width(mi) = l + Len(d)
    BY <1>12, <1>13, <2>1, <2>2
  <2> QED BY <2>1, <2>2, <2>3
<1>16. \A j \in 1 .. l : mi.uses[j] \in DOMAIN m /\ c[0 + j] = Op("GETLOCAL", m[mi.uses[j]])
  <2> TAKE j \in 1 .. l
  <2>1. 0 + j = j
    OBVIOUS
  <2> QED BY <2>1, <1>2, <1>7, <1>11
<1>17. Piece(c, mi, i, 0, m)
  BY <1>9, <1>14, <1>15, <1>16 DEF Piece, l
<1> QED BY <1>7, <1>8, <1>9, <1>13, <1>17 DEF c, d

(* Every register has a slot of its own within the frame.                  *)
SlotsOK(m, size, k) ==
  /\ IsFiniteSet(DOMAIN m) /\ DOMAIN m \subseteq 1 .. k
  /\ size \in Nat
  /\ \A r \in DOMAIN m : m[r] \in Nat /\ m[r] < Cardinality(DOMAIN m) /\ m[r] <= size
  /\ \A r, q \in DOMAIN m : m[r] = m[q] => r = q

LEMMA SlotsAdd ==
  ASSUME NEW k \in Nat, NEW m, NEW size, SlotsOK(m, size, k),
         NEW r \in 1 .. k, r \notin DOMAIN m, NEW c, c = Cardinality(DOMAIN m),
         NEW g, g = (IF size > c THEN size ELSE c)
  PROVE  /\ SlotsOK(With(m, r, c), g, k)
         /\ Extends(With(m, r, c), m)
         /\ r \in DOMAIN With(m, r, c) /\ With(m, r, c)[r] = c
<1> DEFINE w == With(m, r, c)
           D == DOMAIN m
<1>1. /\ IsFiniteSet(D) /\ D \subseteq 1 .. k /\ size \in Nat
      /\ \A x \in D : m[x] \in Nat /\ m[x] < c /\ m[x] <= size
      /\ \A x, y \in D : m[x] = m[y] => x = y
  BY DEF SlotsOK
<1>2. c \in Nat /\ IsFiniteSet(D \cup {r}) /\ Cardinality(D \cup {r}) = c + 1
  <2>1. c \in Nat
    BY <1>1, FS_CardinalityType
  <2> QED BY <1>1, <2>1, FS_AddElement
<1>3. DOMAIN w = D \cup {r} /\ w[r] = c /\ \A x \in D : w[x] = m[x]
  BY DEF With
<1> HIDE DEF w, D
<1>5. \A x \in D : m[x] \in Nat
  BY <1>1
<1>6. g \in Nat /\ c <= g /\ size <= g
  BY <1>1, <1>2
<1>7. \A x \in D \cup {r} : w[x] \in Nat /\ w[x] < c + 1 /\ w[x] <= g
  <2>1. \A x \in D : w[x] \in Nat /\ w[x] < c + 1 /\ w[x] <= g
    BY <1>1, <1>2, <1>3, <1>5, <1>6
  <2>2. w[r] \in Nat /\ w[r] < c + 1 /\ w[r] <= g
    BY <1>2, <1>3, <1>6
  <2> QED BY <2>1, <2>2
<1>8. \A x, y \in D \cup {r} : w[x] = w[y] => x = y
  <2>1. \A x \in D : m[x] # c
    BY <1>1, <1>2, <1>5
  <2> QED BY <1>1, <1>3, <2>1
<1>9. DOMAIN w \subseteq 1 .. k
  BY <1>1, <1>3
<1>10. SlotsOK(w, g, k)
  <2>1. /\ \A x \in DOMAIN w : w[x] \in Nat /\ w[x] < Cardinality(DOMAIN w) /\ w[x] <= g
        /\ IsFiniteSet(DOMAIN w)
    BY <1>2, <1>3, <1>7
  <2>2. \A x, y \in DOMAIN w : w[x] = w[y] => x = y
    BY <1>3, <1>8
  <2> QED BY <1>6, <1>9, <2>1, <2>2, Zenon DEF SlotsOK
<1>11. Extends(w, m)
  BY <1>3 DEF Extends, D
<1> QED BY <1>3, <1>10, <1>11 DEF w

-----------------------------------------------------------------------------
(* How many instructions of a block have been visited.                     *)
Visits(b) ==
  IF b < at[1] THEN Len(body[b]) ELSE IF b = at[1] THEN at[2] - 1 ELSE 0

Indexed(b, n) ==
  \A j \in 1 .. n :
    body[b][j].def # NoReg /\ ~UseEmpty(body[b][j].def) => body[b][j].def \in DOMAIN reg2index

IsLaid(b, n) == \E pos : Laid(out[b], body[b], n, pos, reg2index)

AtOK ==
  /\ at = <<at[1], at[2]>>
  /\ stage \notin {"moved", "done"} => at[1] = 1 /\ at[2] = 1
  /\ stage = "moved" => at[1] \in 1 .. Len(fn.code) /\ at[2] \in 1 .. Len(body[at[1]]) + 1
  /\ stage = "done" => at[1] = Len(fn.code) + 1 /\ at[2] = 1

(* The code written so far is that of the instructions visited, and the    *)
(* registers they define, if used at all, have slots.                      *)
AllocInv ==
  /\ AtOK
  /\ DOMAIN out = DOMAIN fn.code
  /\ stage \notin {"moved", "done"} =>
       DOMAIN reg2index = {} /\ \A b \in DOMAIN fn.code : out[b] = << >>
  /\ stage \in {"moved", "done"} =>
       \A b \in DOMAIN fn.code : Indexed(b, Visits(b)) /\ IsLaid(b, Visits(b))
  /\ regs \in Nat /\ SlotsOK(reg2index, memoryFrameSize, regs)

LEMMA MovedType ==
  ASSUME MoveInv, stage \in {"moved", "done"}
  PROVE  /\ regs \in Nat /\ body \in [DOMAIN fn.code -> Seq(AnyInstr(regs))]
         /\ DOMAIN fn.code = 1 .. Len(fn.code) /\ Len(fn.code) \in Nat
         /\ Len(body) = Len(fn.code) /\ DOMAIN body = DOMAIN fn.code
         /\ \A b \in DOMAIN fn.code : /\ body[b] \in Seq(AnyInstr(regs)) /\ Len(body[b]) \in Nat
                                      /\ DOMAIN body[b] = 1 .. Len(body[b])
<1>1. DOMAIN fn.code = 1 .. Len(fn.code) /\ Len(fn.code) \in Nat
  BY SelectedCode DEF MoveInv
<1>2. regs \in Nat /\ body \in [DOMAIN fn.code -> Seq(AnyInstr(regs))]
  BY DEF MoveInv, Moved
<1> DEFINE N == Len(fn.code)
           S == Seq(AnyInstr(regs))
<1>3. body \in [1 .. N -> S] /\ N \in Nat
  BY <1>1, <1>2
<1>4. \A b \in DOMAIN fn.code : body[b] \in S /\ Len(body[b]) \in Nat /\ DOMAIN body[b] = 1 .. Len(body[b])
  BY <1>2
<1> HIDE DEF N, S
<1>5. Len(body) = N /\ DOMAIN body = 1 .. N
  BY <1>3
<1> QED BY <1>1, <1>2, <1>4, <1>5 DEF N, S

LEMMA AllocMove ==
  ASSUME MoveInv, AllocInv, MoveNext, UNCHANGED allocVars
  PROVE  AllocInv'
<1>1. MoveInv' /\ stage' # "done" /\ stage \notin {"moved", "done"} /\ fn' = fn
  BY MoveStep
<1>2. /\ at' = at /\ reg2index' = reg2index /\ memoryFrameSize' = memoryFrameSize /\ out' = out
  BY DEF allocVars
<1>3. /\ at = <<at[1], at[2]>> /\ at[1] = 1 /\ at[2] = 1 /\ DOMAIN out = DOMAIN fn.code
      /\ DOMAIN reg2index = {} /\ \A b \in DOMAIN fn.code : out[b] = << >>
      /\ SlotsOK(reg2index, memoryFrameSize, regs)
  BY <1>1 DEF AllocInv, AtOK
<1>4. regs' \in Nat
  <2>1. CASE ArrangeStackArgs
    <3>1. stage' = "return" \/ regs' = regs
      BY <2>1 DEF ArrangeStackArgs, Stop
    <3>2. stage' = "return" => regs' \in Nat
      BY <1>1 DEF MoveInv, Prepared
    <3> QED BY <3>1, <3>2 DEF AllocInv
  <2>2. CASE InsertRetAddrArg
    <3>1. regs' = regs \/ regs' = regs + 1
      BY <2>2, Zenon DEF InsertRetAddrArg, Stop
    <3> QED BY <3>1 DEF AllocInv
  <2>3. CASE SortStackArgs
    BY <2>3 DEF SortStackArgs, Stop, AllocInv
  <2> QED BY <2>1, <2>2, <2>3 DEF MoveNext
<1>5. SlotsOK(reg2index', memoryFrameSize', regs')
  <2>1. SlotsOK(reg2index, memoryFrameSize, regs')
    BY <1>3 DEF SlotsOK
  <2> QED BY <1>2, <2>1
<1>6. ASSUME stage' = "moved", NEW b \in DOMAIN fn.code
      PROVE  Indexed(b, Visits(b))' /\ IsLaid(b, Visits(b))'
  <2>1. DOMAIN fn.code = 1 .. Len(fn.code) /\ Len(body'[b]) \in Nat /\ DOMAIN fn'.code = DOMAIN fn.code
    <3>1. DOMAIN fn.code = 1 .. Len(fn.code)
      BY SelectedCode DEF MoveInv
    <3>2. body' \in [DOMAIN fn'.code -> Seq(AnyInstr(regs'))]
      BY <1>1, <1>6 DEF MoveInv, Moved
    <3> QED BY <1>1, <3>1, <3>2
  <2>2. Visits(b)' = 0
    BY <1>2, <1>3, <2>1 DEF Visits
  <2>3. Indexed(b, Visits(b))'
    <3>1. 1 .. 0 = {}
      OBVIOUS
    <3> QED BY <2>2, <3>1 DEF Indexed
  <2>4. out'[b] = << >>
    BY <1>2, <1>3
  <2>5. \E pos : Laid(<< >>, body'[b], 0, pos, reg2index')
    BY <2>1, LaidNothing
  <2> QED BY <2>2, <2>3, <2>4, <2>5 DEF IsLaid
<1>7. stage' = "moved" => 1 \in 1 .. Len(fn'.code) /\ 1 \in 1 .. Len(body'[1]) + 1
  <2> SUFFICES ASSUME stage' = "moved"
               PROVE  1 \in 1 .. Len(fn'.code) /\ 1 \in 1 .. Len(body'[1]) + 1
    OBVIOUS
  <2>1. DOMAIN fn'.code = 1 .. Len(fn'.code) /\ 1 \in DOMAIN fn'.code
    BY <1>1, SelectedCode DEF MoveInv
  <2>2. body' \in [DOMAIN fn'.code -> Seq(AnyInstr(regs'))]
    BY <1>1 DEF MoveInv, Moved
  <2>3. Len(body'[1]) \in Nat
    BY <2>1, <2>2
  <2> QED BY <2>1, <2>3
<1>8. AtOK'
  <2>1. at' = <<at'[1], at'[2]>> /\ at'[1] = 1 /\ at'[2] = 1
    BY <1>2, <1>3
  <2> QED BY <1>1, <1>7, <2>1 DEF AtOK
<1> QED BY <1>1, <1>2, <1>3, <1>4, <1>5, <1>6, <1>8 DEF AllocInv

FourTogether(S, a, b, c, d) == a \o b \o c \o d = a \o (b \o (c \o d))

LEMMA FourParts ==
  ASSUME NEW S, NEW a \in Seq(S), NEW b \in Seq(S), NEW c \in Seq(S), NEW d \in Seq(S)
  PROVE  FourTogether(S, a, b, c, d)
<1>1. a \o b \in Seq(S) /\ c \o d \in Seq(S) /\ b \o (c \o d) \in Seq(S)
  OBVIOUS
<1>2. ((a \o b) \o c) \o d = (a \o b) \o (c \o d)
  BY SMTT(60), <1>1, ConcatAssoc
<1>3. (a \o b) \o (c \o d) = a \o (b \o (c \o d))
  BY SMTT(60), <1>1, ConcatAssoc
<1> QED BY <1>1, <1>2, <1>3 DEF FourTogether

(* One instruction: what it appends is its code, and the error means that  *)
(* it uses a register nothing before it defines.                           *)
LEMMA AllocVisit ==
  ASSUME MoveInv, AllocInv, VisitInstr
  PROVE  /\ MoveInv' /\ AllocInv'
         /\ error' # NoError => UsedBeforeDefined'
<1> DEFINE b == at[1]
           i == at[2]
           mi == body[b][i]
           k == regs
           keeps == mi.def # NoReg /\ ~UseEmpty(mi.def) /\ ~HasIndex(mi.def)
           slot == AllocateMemoryIndex(mi.def)
           map == IF keeps THEN With(reg2index, mi.def, slot) ELSE reg2index
<1>1. stage = "moved" /\ error = NoError /\ Visiting
  BY DEF VisitInstr
<1>2. /\ k \in Nat /\ body \in [DOMAIN fn.code -> Seq(AnyInstr(k))]
      /\ DOMAIN fn.code = 1 .. Len(fn.code) /\ Len(fn.code) \in Nat
      /\ Len(body) = Len(fn.code) /\ DOMAIN body = DOMAIN fn.code
      /\ \A x \in DOMAIN fn.code : /\ body[x] \in Seq(AnyInstr(k)) /\ Len(body[x]) \in Nat
                                   /\ DOMAIN body[x] = 1 .. Len(body[x])
  BY <1>1, MovedType
<1>3. /\ at = <<b, i>> /\ b \in DOMAIN fn.code /\ b \in Nat
      /\ i \in 1 .. Len(body[b]) /\ i \in Nat /\ i - 1 \in Nat /\ i \in DOMAIN body[b]
  <2>1. at = <<b, i>> /\ b \in 1 .. Len(fn.code) /\ i \in 1 .. Len(body[b]) + 1
    BY <1>1 DEF AllocInv, AtOK
  <2>2. i <= Len(body[b])
    BY <1>1 DEF Visiting
  <2> HIDE DEF b, i
  <2>3. Len(body[b]) \in Nat
    BY <1>2, <2>1
  <2> QED BY <1>2, <2>1, <2>2, <2>3
<1>4. mi \in AnyInstr(k) /\ mi.def \in 0 .. k /\ mi.uses \in Seq(1 .. k) /\ Visited = mi
  <2>1. mi \in AnyInstr(k)
    BY <1>2, <1>3
  <2>2. Visited = mi
    BY DEF Visited
  <2> HIDE DEF mi
  <2> QED BY <2>1, <2>2 DEF AnyInstr
<1>5. UNCHANGED <<fn, stage, body, regs>>
  <2>1. CASE ToSet(mi.uses) \subseteq DOMAIN map
    BY ZenonT(60), <1>4, <2>1 DEF VisitInstr, moveVars
  <2>2. CASE ~(ToSet(mi.uses) \subseteq DOMAIN map)
    BY <1>4, <2>2 DEF VisitInstr, Stop
  <2> QED BY SMTT(60), <2>1, <2>2
<1>6. MoveInv'
  BY <1>5 DEF MoveInv
<1>7. /\ SlotsOK(reg2index, memoryFrameSize, k)
      /\ \A x \in DOMAIN fn.code : Indexed(x, Visits(x)) /\ IsLaid(x, Visits(x))
      /\ DOMAIN out = DOMAIN fn.code
  BY SMTT(60), <1>1 DEF AllocInv
<1>8. /\ Extends(map, reg2index)
      /\ mi.def # NoReg /\ ~UseEmpty(mi.def) => mi.def \in DOMAIN map /\ map[mi.def] = slot
      /\ SlotsOK(map, IF keeps THEN UpdateMemoryFrameSize(slot) ELSE memoryFrameSize, k)
  <2>1. CASE keeps
    <3>1. slot = Cardinality(DOMAIN reg2index) /\ mi.def \notin DOMAIN reg2index /\ mi.def \in 1 .. k
      BY <1>4, <2>1 DEF AllocateMemoryIndex, HasIndex, NoReg
    <3>2. map = With(reg2index, mi.def, slot)
      BY <2>1
    <3> DEFINE g == UpdateMemoryFrameSize(slot)
    <3>3. g = IF memoryFrameSize > slot THEN memoryFrameSize ELSE slot
      BY DEF UpdateMemoryFrameSize
    <3> HIDE DEF slot, mi, map, g, keeps
    <3>4. /\ SlotsOK(With(reg2index, mi.def, slot), g, k)
          /\ Extends(With(reg2index, mi.def, slot), reg2index)
          /\ mi.def \in DOMAIN With(reg2index, mi.def, slot)
          /\ With(reg2index, mi.def, slot)[mi.def] = slot
      BY <1>2, <1>7, <3>1, <3>3, SlotsAdd
    <3> QED BY <2>1, <3>2, <3>4 DEF g
  <2>2. CASE ~keeps
    <3>1. map = reg2index
      BY <2>2
    <3>2. mi.def # NoReg /\ ~UseEmpty(mi.def) => mi.def \in DOMAIN reg2index /\ slot = reg2index[mi.def]
      BY <2>2 DEF HasIndex, AllocateMemoryIndex
    <3> HIDE DEF slot, mi, map, keeps
    <3> QED BY <1>7, <2>2, <3>1, <3>2 DEF Extends
  <2> QED BY <2>1, <2>2
<1>9. CASE ToSet(mi.uses) \subseteq DOMAIN map
  <2> DEFINE X == [j \in DOMAIN mi.uses |-> Op("GETLOCAL", map[mi.uses[j]])]
             Y == IF IsStackArg(mi) THEN << >> ELSE << Op("MI", i) >>
             Z == Stored(mi)
             c == X \o (Y \o Z)
             size == IF keeps THEN UpdateMemoryFrameSize(slot) ELSE memoryFrameSize
  <2>1. /\ reg2index' = map /\ memoryFrameSize' = size
        /\ out' = [out EXCEPT ![b] = @ \o X \o Y \o Z]
        /\ at' = [at EXCEPT ![2] = @ + 1] /\ error' = error
    BY ZenonT(60), <1>4, <1>9 DEF VisitInstr, moveVars
  <2>2. AreLoads(X, mi, map)
    BY DEF AreLoads
  <2>3. IsItself(Y, mi, i)
    BY DEF IsItself, IsStackArg
  <2>4. IsStore(Z, mi, map)
    <3> HIDE DEF map
    <3> QED BY SMTT(60), <1>8 DEF IsStore, Stored
  <2>5. HasSlots(mi, map)
    BY <1>8, <1>9 DEF HasSlots, SlotsOK
  <2> HIDE DEF X, Y, Z, map, slot, keeps, size
  <2>6. /\ X \in Seq(OutInstr) /\ Y \in Seq(OutInstr) /\ Z \in Seq(OutInstr)
        /\ Len(c) = Width(mi) /\ Piece(c, mi, i, 0, map)
    <3> HIDE DEF mi, i
    <3> QED BY <1>2, <1>3, <1>4, <2>2, <2>3, <2>4, <2>5, NewPiece
  <2>7. c \in Seq(OutInstr)
    BY <2>6
  <2>8. Visits(b) = i - 1
    BY <1>3 DEF Visits
  <2> DEFINE o == out[b]
  <2>9. PICK pos : Laid(o, body[b], i - 1, pos, reg2index)
    BY <1>3, <1>7, <2>8 DEF IsLaid
  <2>10. Laid(o, body[b], i - 1, pos, map)
    BY <1>8, <2>9, LaidExtends
  <2>11. o \in Seq(OutInstr)
    BY <2>10 DEF Laid
  <2>12. \E p : Laid(o \o c, body[b], i, p, map)
    <3> DEFINE n == i - 1
               s == body[b]
    <3>1. /\ n < Len(s) /\ n + 1 = i /\ s[n + 1] = mi /\ s \in Seq(AnyInstr(k))
          /\ Len(c) = Width(s[n + 1]) /\ Piece(c, s[n + 1], n + 1, 0, map)
          /\ Laid(o, s, n, pos, map)
      BY SMTT(60), <1>2, <1>3, <2>6, <2>10
    <3> HIDE DEF n, s, c, o, mi, i, b
    <3>2. \E p : Laid(o \o c, s, n + 1, p, map)
      BY <1>2, <2>7, <3>1, LaidNext
    <3> QED BY <3>1, <3>2 DEF s
  <2> HIDE DEF o
  <2>13. o \o X \o Y \o Z = o \o c
    <3>1. X \in Seq(OutInstr) /\ Y \in Seq(OutInstr) /\ Z \in Seq(OutInstr)
      BY <2>6
    <3>2. FourTogether(OutInstr, o, X, Y, Z)
      BY <2>11, <3>1, FourParts
    <3> QED BY <3>2 DEF FourTogether
  <2> HIDE DEF c
  <2>14. /\ out'[b] = o \o c /\ DOMAIN out' = DOMAIN out
         /\ \A x \in DOMAIN fn.code : x # b => out'[x] = out[x]
    BY <1>3, <1>7, <2>1, <2>13 DEF o
  <2>15. at' = <<b, i + 1>> /\ at'[1] = b /\ at'[2] = i + 1
    BY <1>3, <2>1
  <2>16. (i + 1) - 1 = i
    BY <1>3
  <2>17. \A x \in DOMAIN fn.code : /\ x = b => Visits(x)' = i
                                   /\ x # b => Visits(x)' = Visits(x)
    <3>1. /\ \A x \in DOMAIN fn.code : Visits(x)' =
               IF x < b THEN Len(body[x]) ELSE IF x = b THEN i ELSE 0
          /\ \A x \in DOMAIN fn.code : Visits(x) =
               IF x < b THEN Len(body[x]) ELSE IF x = b THEN i - 1 ELSE 0
      BY <1>3, <1>5, <2>15, <2>16 DEF Visits
    <3> HIDE DEF b, i
    <3> TAKE x \in DOMAIN fn.code
    <3>2. x = b => ~(x < b)
      BY <1>3
    <3>3. /\ Visits(x)' = IF x < b THEN Len(body[x]) ELSE IF x = b THEN i ELSE 0
          /\ Visits(x) = IF x < b THEN Len(body[x]) ELSE IF x = b THEN i - 1 ELSE 0
      BY <3>1
    <3> QED BY <3>2, <3>3
  <2>18. \A q : UseEmpty(q)' <=> UseEmpty(q)
    BY <1>5 DEF UseEmpty, InstrsOf
  <2>19. ASSUME NEW x \in DOMAIN fn.code
         PROVE  Indexed(x, Visits(x))'
    <3>1. \A n : Indexed(x, n) =>
            \A j \in 1 .. n : body[x][j].def # NoReg /\ ~UseEmpty(body[x][j].def) => body[x][j].def \in DOMAIN map
      BY <1>8 DEF Indexed, Extends
    <3>2. CASE x # b
      BY <1>5, <1>7, <2>1, <2>17, <2>18, <3>1, <3>2 DEF Indexed
    <3>3. CASE x = b
      <4>1. \A j \in 1 .. i - 1 : body[b][j].def # NoReg /\ ~UseEmpty(body[b][j].def) => body[b][j].def \in DOMAIN map
        BY <1>3, <1>7, <2>8, <3>1, <3>3
      <4>2. mi.def # NoReg /\ ~UseEmpty(mi.def) => mi.def \in DOMAIN map
        BY <1>8
      <4>3. \A j \in 1 .. i : j = i \/ j \in 1 .. i - 1
        BY <1>3
      <4>4. \A j \in 1 .. i : body[b][j].def # NoReg /\ ~UseEmpty(body[b][j].def) => body[b][j].def \in DOMAIN map
        BY <4>1, <4>2, <4>3
      <4> QED BY <1>5, <2>1, <2>17, <2>18, <3>3, <4>4 DEF Indexed
    <3> QED BY <3>2, <3>3
  <2>20. ASSUME NEW x \in DOMAIN fn.code
         PROVE  IsLaid(x, Visits(x))'
    <3>1. CASE x # b
      <4>1. PICK p : Laid(out[x], body[x], Visits(x), p, reg2index)
        BY <1>7 DEF IsLaid
      <4>2. Laid(out[x], body[x], Visits(x), p, map)
        BY <1>8, <4>1, LaidExtends
      <4>3. Laid(out'[x], body'[x], Visits(x)', p, reg2index')
        BY <1>5, <2>1, <2>14, <2>17, <3>1, <4>2
      <4> QED BY <4>3 DEF IsLaid
    <3>2. CASE x = b
      <4>1. out'[x] = o \o c /\ body'[x] = body[b] /\ Visits(x)' = i /\ reg2index' = map
        BY <1>5, <2>1, <2>14, <2>17, <3>2
      <4>2. \E p : Laid(out'[x], body'[x], Visits(x)', p, reg2index')
        BY <2>12, <4>1
      <4> QED BY <4>2 DEF IsLaid
    <3> QED BY <3>1, <3>2
  <2>21. AtOK'
    <3>1. at'[1] \in 1 .. Len(fn.code) /\ at'[2] \in 1 .. Len(body[b]) + 1
      <4> HIDE DEF i, b
      <4>1. Len(body[b]) \in Nat
        BY <1>2, <1>3
      <4> QED BY <1>2, <1>3, <2>15, <4>1
    <3>2. at' = <<at'[1], at'[2]>>
      BY <2>15
    <3> QED BY <1>1, <1>5, <2>15, <3>1, <3>2 DEF AtOK
  <2>22. SlotsOK(reg2index', memoryFrameSize', regs') /\ regs' \in Nat
    BY <1>2, <1>5, <1>8, <2>1 DEF size
  <2>23. AllocInv'
    BY <1>1, <1>5, <1>7, <2>14, <2>19, <2>20, <2>21, <2>22 DEF AllocInv
  <2> QED BY SMTT(60), <1>1, <1>6, <2>1, <2>23
<1>10. CASE ~(ToSet(mi.uses) \subseteq DOMAIN map)
  <2>1. UNCHANGED allocVars
    BY <1>4, <1>10 DEF VisitInstr
  <2>2. AllocInv'
    BY SMTT(60), <1>5, <2>1 DEF AllocInv, allocVars, AtOK, Indexed, Visits, IsLaid, UseEmpty, InstrsOf
  <2>3. PICK q \in ToSet(mi.uses) : q \notin DOMAIN map
    BY <1>10
  <2>4. q # NoReg /\ ~UseEmpty(q)
    <3>1. q \in 1 .. k
      <4> HIDE DEF mi
      <4> DEFINE u == mi.uses
                 R == 1 .. k
      <4>1. u \in Seq(R) /\ \E j \in DOMAIN u : q = u[j]
        BY <1>4, <2>3 DEF ToSet
      <4> HIDE DEF u, R
      <4>2. q \in R
        BY <4>1
      <4> QED BY <4>2 DEF R
    <3>2. mi \in InstrsOf(body)
      BY SMTT(60), <1>2, <1>3 DEF InstrsOf, ToSet
    <3> QED BY <2>3, <3>1, <3>2 DEF UseEmpty, NoReg
  <2>5. mi.def # q
    BY <1>8, <2>3, <2>4
  <2>6. \A x \in DOMAIN fn.code : \A j \in 1 .. Visits(x) : body[x][j].def # q
    <3>1. q \notin DOMAIN reg2index
      BY <1>8, <2>3 DEF Extends
    <3> QED BY SMTT(60), <1>7, <2>4, <3>1 DEF Indexed
  <2>7. ASSUME NEW x \in 1 .. b, NEW j \in DOMAIN body[x], body[x][j].def = q, x < b \/ j <= i
        PROVE  FALSE
    <3>1. x \in DOMAIN fn.code /\ x \in Nat
      BY <1>2, <1>3
    <3>2. j \in 1 .. Len(body[x])
      BY <1>2, <3>1
    <3>3. CASE x < b
      <4>1. Visits(x) = Len(body[x])
        BY <3>3 DEF Visits
      <4> QED BY <2>6, <2>7, <3>1, <3>2, <4>1
    <3>4. CASE x = b /\ j = i
      BY <2>5, <2>7, <3>4
    <3>5. CASE x = b /\ j < i
      <4>1. Visits(x) = i - 1
        BY <1>3, <3>5 DEF Visits
      <4>2. j \in 1 .. i - 1
        BY <1>3, <3>2, <3>5
      <4> QED BY <2>6, <2>7, <3>1, <4>1, <4>2
    <3>6. x = b \/ x < b
      BY <1>3
    <3>7. j < i \/ j = i \/ x < b
      BY <1>3, <2>7, <3>2
    <3> QED BY <3>3, <3>4, <3>5, <3>6, <3>7
  <2>8. ~\E x \in 1 .. b : \E j \in DOMAIN body[x] : body[x][j].def = q /\ (x < b \/ j <= i)
    BY <2>7
  <2>9. UsedBeforeDefined
    <3>1. b \in DOMAIN body /\ i \in DOMAIN body[b] /\ q \in ToSet(body[b][i].uses)
      BY <1>2, <1>3, <2>3
    <3> HIDE DEF b, i
    <3> QED BY <2>8, <3>1, Zenon DEF UsedBeforeDefined
  <2>10. UsedBeforeDefined'
    BY <1>5, <2>9 DEF UsedBeforeDefined
  <2> QED BY SMTT(60), <1>6, <2>2, <2>10
<1> QED BY SMTT(60), <1>9, <1>10

LEMMA AllocBlock ==
  ASSUME MoveInv, AllocInv, BlockVisited
  PROVE  MoveInv' /\ AllocInv' /\ error' = NoError
<1> DEFINE b == at[1]
           N == Len(fn.code)
<1>1. /\ stage = "moved" /\ error = NoError /\ ~Visiting /\ at' = <<b + 1, 1>>
      /\ stage' = (IF b = Len(body) THEN "done" ELSE stage)
      /\ UNCHANGED <<fn, body, regs, error, reg2index, memoryFrameSize, out>>
  BY DEF BlockVisited
<1>2. /\ DOMAIN fn.code = 1 .. N /\ N \in Nat /\ Len(body) = N
      /\ \A x \in DOMAIN fn.code : Len(body[x]) \in Nat
  BY <1>1, MovedType
<1>3. b \in 1 .. N /\ at[2] - 1 = Len(body[b])
  <2>1. b \in 1 .. N /\ at[2] \in 1 .. Len(body[b]) + 1
    BY <1>1 DEF AllocInv, AtOK
  <2>2. Len(body[b]) \in Nat
    BY <1>2, <2>1
  <2>3. ~(at[2] <= Len(body[b]))
    BY <1>1, <1>2, <2>1 DEF Visiting
  <2> QED BY <2>1, <2>2, <2>3
<1>4. at'[1] = b + 1 /\ at'[2] = 1 /\ at' = <<at'[1], at'[2]>>
  BY <1>1
<1> HIDE DEF N
<1>5. \A x \in 1 .. N : Visits(x)' = Visits(x)
  <2> TAKE x \in 1 .. N
  <2>1. Visits(x)' = IF x < b + 1 THEN Len(body[x]) ELSE IF x = b + 1 THEN 1 - 1 ELSE 0
    BY <1>1, <1>4 DEF Visits
  <2>2. Visits(x) = IF x < b THEN Len(body[x]) ELSE IF x = b THEN Len(body[b]) ELSE 0
    BY <1>3 DEF Visits
  <2> HIDE DEF b
  <2>3. CASE x < b
    BY <1>3, <2>1, <2>2, <2>3
  <2>4. CASE x = b
    BY <1>3, <2>1, <2>2, <2>4
  <2>5. CASE x > b
    BY <1>3, <2>1, <2>2, <2>5
  <2> QED BY <1>3, <2>3, <2>4, <2>5
<1>6. \A q : UseEmpty(q)' <=> UseEmpty(q)
  BY <1>1 DEF UseEmpty, InstrsOf
<1>7. \A x \in 1 .. N : Indexed(x, Visits(x))' /\ IsLaid(x, Visits(x))'
  <2> TAKE x \in 1 .. N
  <2>1. Indexed(x, Visits(x)) /\ IsLaid(x, Visits(x)) /\ Visits(x)' = Visits(x)
    BY <1>1, <1>2, <1>5 DEF AllocInv
  <2> QED BY <1>1, <1>6, <2>1 DEF Indexed, IsLaid
<1>8. /\ stage' \in {"moved", "done"} /\ (stage' = "done" => b = N)
      /\ (stage' = "moved" => b + 1 \in 1 .. N)
  BY <1>1, <1>2, <1>3
<1>9. MoveInv'
  <2>1. \E r, A, P : Moved(body, regs, fn, r, A, P)
    BY <1>1 DEF MoveInv
  <2>2. \E r, A, P : Moved(body', regs', fn', r, A, P)
    BY <1>1, <2>1
  <2> QED BY <1>1, <1>8, <2>2 DEF MoveInv
<1>10. AtOK'
  <2>1. stage' = "moved" => at'[1] \in 1 .. Len(fn'.code) /\ at'[2] \in 1 .. Len(body'[at'[1]]) + 1
    <3> SUFFICES ASSUME stage' = "moved"
                 PROVE  at'[1] \in 1 .. Len(fn'.code) /\ at'[2] \in 1 .. Len(body'[at'[1]]) + 1
      OBVIOUS
    <3>1. b + 1 \in 1 .. N /\ Len(body[b + 1]) \in Nat
      BY <1>2, <1>8
    <3> QED BY <1>1, <1>4, <3>1 DEF N
  <2>2. stage' = "done" => at'[1] = Len(fn'.code) + 1 /\ at'[2] = 1
    BY <1>1, <1>4, <1>8 DEF N
  <2> QED BY <1>4, <1>8, <2>1, <2>2 DEF AtOK
<1>11. AllocInv'
  BY <1>1, <1>2, <1>7, <1>8, <1>10 DEF AllocInv
<1> QED BY <1>1, <1>9, <1>11

LEMMA AllocSame ==
  ASSUME MoveInv, AllocInv, UNCHANGED <<moveVars, allocVars>>
  PROVE  MoveInv' /\ AllocInv' /\ (NothingInEntry <=> NothingInEntry')
         /\ (UsedBeforeDefined <=> UsedBeforeDefined') /\ error' = error
<1>1. UNCHANGED <<fn, stage, body, regs, error, at, reg2index, memoryFrameSize, out>>
  BY DEF moveVars, allocVars
<1>2. MoveInv'
  BY <1>1 DEF MoveInv
<1>3. AllocInv'
  BY <1>1 DEF AllocInv, AtOK, Indexed, Visits, IsLaid, UseEmpty, InstrsOf
<1> QED BY <1>1, <1>2, <1>3 DEF NothingInEntry, UsedBeforeDefined

-----------------------------------------------------------------------------
PassInv == MoveInv /\ AllocInv /\ OnlyHazardsFail

LEMMA PassInit ==
  ASSUME Init
  PROVE  PassInv
<1>1. /\ fn \in Functions /\ stage = "arrange" /\ body = fn.code /\ regs = fn.regs
      /\ error = NoError /\ at = <<1, 1>> /\ reg2index = << >> /\ memoryFrameSize = 0
      /\ out = [b \in DOMAIN body |-> << >>]
  BY DEF Init, MoveInit
<1>2. IsSelected(fn) /\ fn.regs \in Nat
  BY <1>1, FunctionsAssumption DEF IsSelected
<1>3. SlotsOK(reg2index, memoryFrameSize, regs)
  <2>1. DOMAIN reg2index = {} /\ IsFiniteSet({})
    BY <1>1, FS_EmptySet
  <2> QED BY <1>1, <2>1 DEF SlotsOK
<1>4. AtOK
  BY <1>1 DEF AtOK
<1>5. DOMAIN out = DOMAIN fn.code /\ DOMAIN reg2index = {} /\ \A b \in DOMAIN fn.code : out[b] = << >>
  BY <1>1
<1> QED BY <1>1, <1>2, <1>3, <1>4, <1>5 DEF PassInv, MoveInv, AllocInv, OnlyHazardsFail

LEMMA PassStep ==
  ASSUME PassInv, [Next]_vars
  PROVE  PassInv'
<1>1. MoveInv /\ AllocInv /\ OnlyHazardsFail
  BY DEF PassInv
<1>2. CASE ArgumentMove
  <2>1. MoveNext /\ UNCHANGED allocVars
    BY <1>2 DEF ArgumentMove
  <2> QED BY <1>1, <2>1, MoveStep, AllocMove DEF PassInv, OnlyHazardsFail
<1>3. CASE VisitInstr
  BY <1>1, <1>3, AllocVisit DEF PassInv, OnlyHazardsFail
<1>4. CASE BlockVisited
  BY <1>1, <1>4, AllocBlock DEF PassInv, OnlyHazardsFail
<1>5. CASE UNCHANGED <<moveVars, allocVars>>
  BY <1>1, <1>5, AllocSame DEF PassInv, OnlyHazardsFail
<1>6. CASE Start
  BY <1>5, <1>6 DEF Start
<1>7. CASE Execute
  BY <1>5, <1>7 DEF Execute
<1>8. CASE Branch
  BY <1>5, <1>8 DEF Branch
<1>9. CASE UNCHANGED vars
  BY <1>5, <1>9 DEF vars
<1> QED BY <1>2, <1>3, <1>4, <1>6, <1>7, <1>8, <1>9 DEF Next

(* At every moment of both passes the body is what their parts so far have *)
(* to make of the function, the code written is that of the instructions   *)
(* visited, and the registers have slots of their own.                     *)
THEOREM PassInvariant == Spec => []PassInv
<1>1. Init => PassInv
  BY PassInit
<1>2. PassInv /\ [Next]_vars => PassInv'
  BY PassStep
<1> QED BY <1>1, <1>2, PTL DEF Spec

(* sortStackArgs leaves the arguments in front in the order of the stack,  *)
(* under the names instruction selection gave them, and changes nothing    *)
(* else, for every function.                                               *)
THEOREM ArgumentsInPlace == Spec => []ArgumentsNamed
<1>1. PassInv => ArgumentsNamed
  <2> SUFFICES ASSUME PassInv, stage = "moved"
               PROVE  ArgumentsNamed
    BY DEF ArgumentsNamed
  <2>1. PICK r, A, P : Moved(body, regs, fn, r, A, P)
    BY DEF PassInv, MoveInv
  <2> QED BY <2>1, MovedNamed DEF PassInv, MoveInv
<1> QED BY <1>1, PassInvariant, PTL

(* The assertions of EVMArgumentMove and EVMVRegToMem fail only for a      *)
(* block laid out before a definition and for an entry block of arguments. *)
THEOREM OnlyTwoHazards == Spec => []OnlyHazardsFail
<1>1. PassInv => OnlyHazardsFail
  BY DEF PassInv
<1> QED BY <1>1, PassInvariant, PTL

(* update_memoryframesize records a size no slot exceeds.                  *)
THEOREM FrameCoversSlots == Spec => []SlotsInFrame
<1>1. PassInv => SlotsInFrame
  BY DEF PassInv, AllocInv, SlotsOK, SlotsInFrame
<1> QED BY <1>1, PassInvariant, PTL

-----------------------------------------------------------------------------
(* A block is a number of arguments, none but in the entry block, and the  *)
(* instructions of the machine function.                                   *)
Shape(s, a, c) ==
  /\ a \in Nat /\ a <= Len(s) /\ Len(c) = Len(s) - a
  /\ \A i \in 1 .. a : s[i].op = "STACKARG" /\ s[i].def # NoReg /\ s[i].uses = << >>
  /\ \A i, j \in 1 .. a : i # j => s[i].def # s[j].def
  /\ \A i \in a + 1 .. Len(s) : /\ s[i].op # "STACKARG"
                                /\ i - a \in 1 .. Len(c) /\ c[i - a] = s[i]

LEMMA BlockShape ==
  ASSUME MoveInv, stage = "done", NEW b \in DOMAIN fn.code
  PROVE  /\ Shape(body[b], ArgsIn(b), Code[b])
         /\ Code[b] \in Seq(AnyInstr(regs))
         /\ ArgsIn(1) = Len(Args) /\ (b # 1 => ArgsIn(b) = 0)
         /\ \A i \in 1 .. Len(Args) : Args[i] = body[1][i] /\ Args[i].n = Len(Args) - i
<1>1. PICK r, A, P : Moved(body, regs, fn, r, A, P)
  BY DEF MoveInv
<1> DEFINE I == AnyInstr(regs)
           R == Rest(fn, r)
           d == P \o R
           h == NumStackArgs(fn)
<1>2. /\ Args = A /\ A \in Seq(I) /\ Len(A) = h
      /\ d \in Seq(I) /\ body[1] = A \o d /\ Others(body[1]) = d
      /\ \A i \in DOMAIN d : d[i].op # "STACKARG"
      /\ \A x \in DOMAIN fn.code : x # 1 => Others(body[x]) = body[x] /\ StackArgsAt(body[x]) = {}
  BY ZenonT(60), <1>1, MovedParts DEF MoveInv
<1>3. body \in [DOMAIN fn.code -> Seq(I)] /\ Sorted(A, h, regs)
  BY <1>1 DEF Moved
<1>4. Code[b] = Others(body[b])
  BY <1>3 DEF Code
<1>5. /\ \A i \in 1 .. h : /\ A[i].op = "STACKARG" /\ A[i].n = h - i
                           /\ A[i].def # NoReg /\ A[i].uses = << >>
      /\ \A i, j \in 1 .. h : i # j => A[i].def # A[j].def
  BY <1>3 DEF Sorted
<1> HIDE DEF I, d, h
<1>6. /\ Len(body[1]) = h + Len(d) /\ h \in Nat /\ Len(d) \in Nat
      /\ \A i \in 1 .. h : body[1][i] = A[i]
      /\ \A i \in 1 .. Len(d) : body[1][h + i] = d[i]
  <2>1. A \in Seq(I) /\ d \in Seq(I)
    BY <1>2
  <2> DEFINE c == A \o d
  <2>2. Len(c) = Len(A) + Len(d) /\ Len(A) \in Nat /\ Len(d) \in Nat
    BY <2>1
  <2>3. \A i \in 1 .. Len(A) : c[i] = A[i]
    BY <2>1
  <2>4. \A i \in 1 .. Len(d) : c[Len(A) + i] = d[i]
    BY <2>1
  <2>5. body[1] = c /\ Len(A) = h
    BY <1>2
  <2> HIDE DEF c
  <2> QED BY <2>2, <2>3, <2>4, <2>5
<1>7. ArgsIn(1) = Len(Args) /\ (b # 1 => ArgsIn(b) = 0) /\ Len(Args) = h
  BY <1>2 DEF ArgsIn
<1>8. CASE b = 1
  <2>1. \A i \in h + 1 .. h + Len(d) :
          body[1][i].op # "STACKARG" /\ i - h \in 1 .. Len(d) /\ d[i - h] = body[1][i]
    <3> TAKE i \in h + 1 .. h + Len(d)
    <3>1. i - h \in 1 .. Len(d) /\ h + (i - h) = i
      BY <1>6
    <3>2. i - h \in DOMAIN d
      BY <1>2, <3>1
    <3> QED BY <1>2, <1>6, <3>1, <3>2
  <2>2. Len(d) = (h + Len(d)) - h /\ h <= h + Len(d)
    BY <1>6
  <2>3. Shape(body[1], h, d)
    <3> DEFINE s == body[1]
    <3>1. Len(s) = h + Len(d) /\ h \in Nat
      BY <1>6
    <3>2. h <= Len(s) /\ Len(d) = Len(s) - h
      BY <2>2, <3>1
    <3>3. \A i \in 1 .. h : s[i].op = "STACKARG" /\ s[i].def # NoReg /\ s[i].uses = << >>
      BY <1>5, <1>6
    <3>4. \A i, j \in 1 .. h : i # j => s[i].def # s[j].def
      BY ZenonT(60), <1>5, <1>6
    <3>5. \A i \in h + 1 .. Len(s) : s[i].op # "STACKARG" /\ i - h \in 1 .. Len(d) /\ d[i - h] = s[i]
      BY <2>1, <3>1
    <3> HIDE DEF s
    <3>6. Shape(s, h, d)
      BY <3>1, <3>2, <3>3, <3>4, <3>5 DEF Shape
    <3> QED BY <3>6 DEF s
  <2> QED BY ZenonT(60), <1>2, <1>4, <1>5, <1>6, <1>7, <1>8, <2>3 DEF I
<1>9. CASE b # 1
  <2> DEFINE s == body[b]
  <2>1. s \in Seq(I) /\ Code[b] = s /\ StackArgsAt(s) = {}
    BY <1>2, <1>3, <1>4, <1>9
  <2> HIDE DEF s
  <2>2. Len(s) \in Nat /\ DOMAIN s = 1 .. Len(s)
    BY <2>1
  <2>3. \A i \in 1 .. Len(s) : s[i].op # "STACKARG"
    BY <2>1, <2>2 DEF StackArgsAt
  <2>4. \A i \in 0 + 1 .. Len(s) : i \in 1 .. Len(s) /\ i - 0 = i
    BY <2>2
  <2>5. 1 .. 0 = {} /\ Len(s) = Len(s) - 0 /\ 0 <= Len(s)
    BY <2>2
  <2>6. Shape(s, 0, s)
    BY <2>3, <2>4, <2>5 DEF Shape
  <2> QED BY <1>2, <1>5, <1>6, <1>7, <1>9, <2>1, <2>6 DEF s, I
<1> QED BY <1>8, <1>9

(* The code of the i-th instruction in code without an EVM::POP.           *)
NoPop(o) == \A p \in DOMAIN o : o[p].op # "POP"

LEMMA PieceAt ==
  ASSUME NEW k \in Nat, NEW s \in Seq(AnyInstr(k)), NEW o, NEW n, NEW pos, NEW m,
         Laid(o, s, n, pos, m), NoPop(o), NEW i \in 1 .. n
  PROVE  /\ pos[i] \in Nat /\ pos[i + 1] \in Nat /\ pos[i + 1] = pos[i] + Width(s[i])
         /\ \A j \in 1 .. Len(s[i].uses) :
              /\ pos[i] + j \in DOMAIN o /\ s[i].uses[j] \in DOMAIN m
              /\ o[pos[i] + j].op = "GETLOCAL" /\ o[pos[i] + j].n = m[s[i].uses[j]]
         /\ s[i].op # "STACKARG" =>
              /\ pos[i] + (Len(s[i].uses) + 1) \in DOMAIN o
              /\ o[pos[i] + (Len(s[i].uses) + 1)].op = "MI"
              /\ o[pos[i] + (Len(s[i].uses) + 1)].n = i
         /\ s[i].def # NoReg =>
              /\ pos[i + 1] \in DOMAIN o /\ s[i].def \in DOMAIN m
              /\ o[pos[i + 1]].op = "PUTLOCAL" /\ o[pos[i + 1]].n = m[s[i].def]
<1> DEFINE mi == s[i]
           l == Len(mi.uses)
           w == Width(mi)
           p == pos[i]
<1>1. /\ n \in Nat /\ n <= Len(s) /\ o \in Seq(OutInstr) /\ pos \in [1 .. n + 1 -> Nat]
      /\ pos[i + 1] = p + w /\ pos[i + 1] <= Len(o) /\ Piece(o, mi, i, p, m)
  BY DEF Laid
<1>2. p \in Nat /\ pos[i + 1] \in Nat /\ mi \in AnyInstr(k)
  <2>1. i \in 1 .. n + 1 /\ i + 1 \in 1 .. n + 1 /\ i \in 1 .. Len(s)
    BY <1>1
  <2> QED BY <1>1, <2>1
<1>3. DOMAIN o = 1 .. Len(o) /\ Len(o) \in Nat
  BY <1>1
<1> HIDE DEF mi
<1>4. /\ w \in Nat /\ l \in Nat /\ l <= w
      /\ mi.op # "STACKARG" => l + 1 <= w
      /\ mi.def # NoReg => 1 <= w
  BY <1>2, WidthType
<1>5. /\ \A j \in 1 .. l : mi.uses[j] \in DOMAIN m /\ o[p + j] = Op("GETLOCAL", m[mi.uses[j]])
      /\ mi.op # "STACKARG" => o[p + (l + 1)] = Op("MI", i)
      /\ mi.def # NoReg => \/ o[p + w] = Op("POP", 0)
                           \/ mi.def \in DOMAIN m /\ o[p + w] = Op("PUTLOCAL", m[mi.def])
  BY <1>1 DEF Piece
<1>6. /\ \A x : Op("GETLOCAL", x).op = "GETLOCAL" /\ Op("GETLOCAL", x).n = x
      /\ \A x : Op("PUTLOCAL", x).op = "PUTLOCAL" /\ Op("PUTLOCAL", x).n = x
      /\ \A x : Op("MI", x).op = "MI" /\ Op("MI", x).n = x
      /\ Op("POP", 0).op = "POP"
  BY DEF Op
<1> HIDE DEF l, w, p
<1>7. /\ \A j \in 1 .. l : p + j \in 1 .. Len(o)
      /\ mi.op # "STACKARG" => p + (l + 1) \in 1 .. Len(o)
      /\ mi.def # NoReg => p + w \in 1 .. Len(o)
  BY SMTT(60), <1>1, <1>2, <1>3, <1>4
<1>8. \A j \in 1 .. l : /\ p + j \in DOMAIN o /\ mi.uses[j] \in DOMAIN m
                        /\ o[p + j].op = "GETLOCAL" /\ o[p + j].n = m[mi.uses[j]]
  BY <1>3, <1>5, <1>6, <1>7
<1>9. mi.op # "STACKARG" => /\ p + (l + 1) \in DOMAIN o
                            /\ o[p + (l + 1)].op = "MI" /\ o[p + (l + 1)].n = i
  BY <1>3, <1>5, <1>6, <1>7
<1>10. mi.def # NoReg => /\ p + w \in DOMAIN o /\ mi.def \in DOMAIN m
                         /\ o[p + w].op = "PUTLOCAL" /\ o[p + w].n = m[mi.def]
  BY <1>3, <1>5, <1>6, <1>7 DEF NoPop
<1>11. mi.def # NoReg => /\ pos[i + 1] \in DOMAIN o /\ mi.def \in DOMAIN m
                         /\ o[pos[i + 1]].op = "PUTLOCAL" /\ o[pos[i + 1]].n = m[mi.def]
  BY <1>1, <1>10
<1> QED BY <1>1, <1>2, <1>8, <1>9, <1>11 DEF l, p, w, mi

-----------------------------------------------------------------------------
(* The run of the code written.  Every register that has a value and a     *)
(* slot has its value there, but for the registers X.                      *)
MemOK(X) ==
  \A r \in DOMAIN vals : r \in DOMAIN reg2index /\ r \notin X =>
    reg2index[r] \in DOMAIN pmem /\ pmem[reg2index[r]] = vals[r]

Block == body[xblk]
InArgs == ArgsIn(xblk)

PendingArgs(i) == { Block[x].def : x \in i .. InArgs }

(* Before the code of the i-th instruction: the arguments from there on    *)
(* are on the stack.                                                       *)
BetweenAt(pos, i) ==
  /\ i \in 1 .. Len(Block) + 1 /\ xpc = pos[i] + 1
  /\ i <= InArgs => /\ xidx = 1 /\ Len(pstack) = InArgs - i + 1
                    /\ \A x \in 1 .. Len(pstack) : pstack[x] = x
                    /\ \A x \in i .. InArgs : /\ Block[x].def \in DOMAIN vals
                                              /\ vals[Block[x].def] = InArgs - x + 1
                    /\ MemOK(PendingArgs(i))
  /\ i > InArgs => xidx = i - InArgs /\ Len(pstack) = 0 /\ MemOK({})

(* The first j operands are on the stack.                                  *)
LoadingAt(pos, i, j) ==
  /\ i \in InArgs + 1 .. Len(Block) /\ j \in 0 .. Len(Block[i].uses)
  /\ xpc = pos[i] + (j + 1) /\ xidx = i - InArgs
  /\ Len(pstack) = j
  /\ \A x \in 1 .. j : Block[i].uses[x] \in DOMAIN vals => pstack[x] = vals[Block[i].uses[x]]
  /\ MemOK({})

(* The result is on the stack.                                             *)
StoringAt(pos, i) ==
  /\ i \in InArgs + 1 .. Len(Block) /\ Block[i].def # NoReg
  /\ xpc = pos[i + 1] /\ xidx = i - InArgs + 1
  /\ Len(pstack) = 1 /\ pstack[1] = clock
  /\ Block[i].def \in DOMAIN vals /\ vals[Block[i].def] = clock
  /\ MemOK({Block[i].def})

RunTypes ==
  /\ clock \in Nat /\ pstack \in Seq(0 .. clock)
  /\ \A x \in DOMAIN pmem : pmem[x] \in 0 .. clock
  /\ \A r \in DOMAIN vals : vals[r] \in 0 .. clock

Running(pos) ==
  /\ stage = "done" /\ xblk \in DOMAIN fn.code /\ regs \in Nat
  /\ Block \in Seq(AnyInstr(regs)) /\ Shape(Block, InArgs, Code[xblk])
  /\ NoPop(out[xblk]) /\ Laid(out[xblk], Block, Len(Block), pos, reg2index)
  /\ SlotsOK(reg2index, memoryFrameSize, regs)

SameCode == UNCHANGED <<moveVars, allocVars, xblk>>

LEMMA SameBlock ==
  ASSUME SameCode
  PROVE  /\ Block' = Block /\ InArgs' = InArgs /\ reg2index' = reg2index /\ out' = out
         /\ xblk' = xblk /\ Code' = Code /\ fn' = fn /\ body' = body /\ stage' = stage
         /\ \A pos : Running(pos) => Running(pos)'
<1>1. UNCHANGED <<fn, stage, body, regs, error, at, reg2index, memoryFrameSize, out, xblk>>
  BY DEF SameCode, moveVars, allocVars
<1>2. Block' = Block /\ InArgs' = InArgs /\ Code' = Code
  BY <1>1 DEF Block, InArgs, ArgsIn, Args, Entry, Code
<1> QED BY <1>1, <1>2 DEF Running

LEMMA LoadStep ==
  ASSUME NEW pos, NEW i, NEW j, Running(pos), RunTypes, LoadingAt(pos, i, j),
         j < Len(Block[i].uses), Execute
  PROVE  RunTypes' /\ LoadingAt(pos, i, j + 1)' /\ UNCHANGED <<xidx, vals, operands, clock>>
<1> DEFINE s == Block
           a == InArgs
           o == out[xblk]
           u == s[i].uses
           k == regs
<1>1. /\ k \in Nat /\ s \in Seq(AnyInstr(k)) /\ Laid(o, s, Len(s), pos, reg2index) /\ NoPop(o)
      /\ a \in Nat /\ Len(s) \in Nat
  BY DEF Running, Shape
<1>2. i \in a + 1 .. Len(s) /\ j \in 0 .. Len(u) /\ j < Len(u)
  BY DEF LoadingAt
<1>3. i \in 1 .. Len(s)
  BY <1>1, <1>2
<1>4. u \in Seq(1 .. k) /\ Len(u) \in Nat
  <2>1. s[i] \in AnyInstr(k)
    BY <1>1, <1>3
  <2> QED BY <2>1 DEF AnyInstr
<1>5. j \in Nat /\ j + 1 \in 1 .. Len(u) /\ (j + 1) + 1 = j + 2
  BY <1>2, <1>4
<1> HIDE DEF s, a, o, k
<1>6. /\ pos[i] \in Nat /\ pos[i] + (j + 1) \in DOMAIN o /\ u[j + 1] \in DOMAIN reg2index
      /\ o[pos[i] + (j + 1)].op = "GETLOCAL" /\ o[pos[i] + (j + 1)].n = reg2index[u[j + 1]]
  BY SMTT(60), <1>1, <1>3, <1>5, PieceAt
<1> HIDE DEF u
<1>7. xpc = pos[i] + (j + 1) /\ xidx = i - a /\ Len(pstack) = j /\ MemOK({})
      /\ \A x \in 1 .. j : u[x] \in DOMAIN vals => pstack[x] = vals[u[x]]
  BY DEF LoadingAt, u, s, a
<1> DEFINE q == u[j + 1]
           n == reg2index[q]
           v == IF n \in DOMAIN pmem THEN pmem[n] ELSE 0
<1>8. Current.op = "GETLOCAL" /\ Current.n = n
  BY <1>6, <1>7 DEF Current, o
<1>9. /\ pstack' = Append(pstack, v) /\ xpc' = xpc + 1
      /\ UNCHANGED <<xidx, pmem, vals, operands, clock>> /\ SameCode
  BY <1>8 DEF Execute, ExecGetLocal, ExecPutLocal, ExecInstr, SameCode
<1>10. /\ Block' = Block /\ InArgs' = InArgs /\ reg2index' = reg2index
  BY <1>9, SameBlock
<1>11. v \in 0 .. clock /\ pstack \in Seq(0 .. clock) /\ clock \in Nat
  BY DEF RunTypes
<1>12. q \in DOMAIN vals => v = vals[q]
  BY <1>6, <1>7 DEF MemOK
<1> HIDE DEF v, q, n
<1>13. /\ pstack' \in Seq(0 .. clock) /\ Len(pstack') = j + 1
       /\ pstack'[j + 1] = v /\ \A x \in 1 .. j : pstack'[x] = pstack[x]
  BY <1>5, <1>7, <1>9, <1>11
<1>14. \A x \in 1 .. j + 1 : u[x] \in DOMAIN vals => pstack'[x] = vals[u[x]]
  <2> TAKE x \in 1 .. j + 1
  <2>1. x = j + 1 \/ x \in 1 .. j
    BY <1>5
  <2> QED BY <2>1, <1>7, <1>12, <1>13 DEF q
<1>15. RunTypes'
  BY <1>9, <1>13 DEF RunTypes
<1>16. MemOK({})'
  BY <1>7, <1>9, <1>10 DEF MemOK
<1>17. xpc' = pos[i] + ((j + 1) + 1)
  BY SMTT(60), <1>5, <1>6, <1>7, <1>9
<1>18. j + 1 \in 0 .. Len(u)
  BY <1>4, <1>5
<1>19. LoadingAt(pos, i, j + 1)'
  BY <1>2, <1>7, <1>9, <1>10, <1>13, <1>14, <1>16, <1>17, <1>18 DEF LoadingAt, u, s, a
<1> QED BY <1>9, <1>15, <1>19

(* An instruction that has received its l operands, the last one first.    *)
Received(mi, l) ==
  /\ xidx' = xidx + 1 /\ clock' = clock + 1
  /\ vals' = IF mi.def = NoReg THEN vals ELSE With(vals, mi.def, clock + 1)
  /\ DOMAIN operands' = 1 .. l
  /\ \A x \in 1 .. l : mi.uses[l - x + 1] \in DOMAIN vals =>
       operands'[x] = vals[mi.uses[l - x + 1]]

LEMMA InstrStep ==
  ASSUME NEW pos, NEW i, NEW j, Running(pos), RunTypes, LoadingAt(pos, i, j),
         j = Len(Block[i].uses), Execute
  PROVE  /\ RunTypes'
         /\ BetweenAt(pos, i + 1)' \/ StoringAt(pos, i)'
         /\ Received(Block[i], j)
<1> DEFINE s == Block
           a == InArgs
           o == out[xblk]
           u == s[i].uses
           d == s[i].def
           k == regs
<1>1. /\ k \in Nat /\ s \in Seq(AnyInstr(k)) /\ Laid(o, s, Len(s), pos, reg2index) /\ NoPop(o)
      /\ a \in Nat /\ Len(s) \in Nat
      /\ \A x \in a + 1 .. Len(s) : s[x].op # "STACKARG"
  BY DEF Running, Shape
<1>2. i \in a + 1 .. Len(s) /\ j = Len(u)
  BY DEF LoadingAt
<1>3. i \in 1 .. Len(s) /\ i \in Nat /\ s[i].op # "STACKARG"
  BY <1>1, <1>2
<1>4. u \in Seq(1 .. k) /\ j \in Nat /\ d \in 0 .. k /\ s[i] \in AnyInstr(k)
  <2>1. s[i] \in AnyInstr(k)
    BY <1>1, <1>3
  <2> QED BY <1>2, <2>1 DEF AnyInstr
<1> HIDE DEF s, a, o, k
<1>5. /\ pos[i] \in Nat /\ pos[i] + (j + 1) \in DOMAIN o
      /\ o[pos[i] + (j + 1)].op = "MI" /\ o[pos[i] + (j + 1)].n = i
      /\ pos[i + 1] = pos[i] + Width(s[i])
  BY <1>1, <1>2, <1>3, PieceAt
<1>6. /\ d = NoReg => Width(s[i]) = j + 1
      /\ d # NoReg => Width(s[i]) = j + 2
  BY <1>1, <1>2, <1>3, <1>4, WidthType
<1> HIDE DEF u, d
<1>7. xpc = pos[i] + (j + 1) /\ xidx = i - a /\ Len(pstack) = j /\ MemOK({})
      /\ \A x \in 1 .. j : u[x] \in DOMAIN vals => pstack[x] = vals[u[x]]
  BY DEF LoadingAt, u, s, a
<1>8. Current.op = "MI" /\ Current.n = i
  BY <1>5, <1>7 DEF Current, o
<1>9. Instr = s[i] /\ Instr.uses = u /\ Instr.def = d
  BY <1>8 DEF Instr, s, u, d, Block
<1> DEFINE left == Len(pstack) - Len(u)
           rest == SubSeq(pstack, 1, left)
<1>10. /\ operands' = Reverse(SubSeq(pstack, left + 1, Len(pstack)))
       /\ pstack' = (IF d = NoReg THEN rest ELSE Append(rest, clock + 1))
       /\ vals' = (IF d = NoReg THEN vals ELSE With(vals, d, clock + 1))
       /\ clock' = clock + 1 /\ xidx' = i - ArgsIn(xblk) + 1 /\ pmem' = pmem
       /\ xpc' = xpc + 1 /\ SameCode
  BY <1>8, <1>9 DEF Execute, ExecGetLocal, ExecPutLocal, ExecInstr, SameCode
<1>11. Block' = Block /\ InArgs' = InArgs /\ reg2index' = reg2index
  BY <1>10, SameBlock
<1>12. /\ clock \in Nat /\ pstack \in Seq(0 .. clock)
       /\ \A x \in DOMAIN pmem : pmem[x] \in 0 .. clock
       /\ \A r \in DOMAIN vals : vals[r] \in 0 .. clock
  BY DEF RunTypes
<1>13. left = 0 /\ rest = << >>
  BY <1>2, <1>4, <1>7, <1>12
<1>14. SubSeq(pstack, left + 1, Len(pstack)) = pstack
  BY <1>12, <1>13
<1>15. operands' = [x \in 1 .. j |-> pstack[j - x + 1]]
  BY <1>7, <1>10, <1>14 DEF Reverse
<1> HIDE DEF left, rest
<1>16. \A x \in 1 .. j : u[j - x + 1] \in DOMAIN vals => operands'[x] = vals[u[j - x + 1]]
  <2> TAKE x \in 1 .. j
  <2>1. j - x + 1 \in 1 .. j
    BY <1>4
  <2> QED BY <2>1, <1>7, <1>15
<1>17. xidx' = i - a + 1
  BY <1>10 DEF a, InArgs
<1>18. MemOK({d})'
  <2>1. \A r \in DOMAIN vals' : r # d => r \in DOMAIN vals /\ vals'[r] = vals[r]
    BY <1>10 DEF With
  <2>2. d' = d
    BY <1>11 DEF d, s
  <2>3. pmem' = pmem /\ reg2index' = reg2index /\ MemOK({})
    BY <1>7, <1>10, <1>11
  <2> QED BY <2>1, <2>2, <2>3 DEF MemOK
<1>19. CASE d = NoReg
  <2>1. pstack' = << >> /\ vals' = vals /\ Len(pstack') = 0 /\ pstack' \in Seq(0 .. clock')
    BY <1>10, <1>13, <1>19
  <2>2. RunTypes'
    <3>1. \A y : y \in 0 .. clock => y \in 0 .. clock + 1
      BY <1>12
    <3> QED BY <1>10, <1>12, <2>1, <3>1 DEF RunTypes
  <2>3. MemOK({})'
    BY <1>7, <1>10, <1>11, <2>1 DEF MemOK
  <2>4. i + 1 \in 1 .. Len(s) + 1 /\ i + 1 > a /\ ~(i + 1 <= a) /\ (i + 1) - a = i - a + 1
    BY <1>1, <1>2, <1>3
  <2>5. xpc' = pos[i + 1] + 1
    BY <1>4, <1>5, <1>6, <1>7, <1>10, <1>19
  <2>6. BetweenAt(pos, i + 1)'
    BY <1>11, <1>17, <2>1, <2>3, <2>4, <2>5 DEF BetweenAt, s, a
  <2>7. xidx' = xidx + 1 /\ DOMAIN operands' = 1 .. j
    BY <1>1, <1>3, <1>7, <1>15, <1>17
  <2>8. Received(s[i], j)
    BY <1>10, <1>16, <2>7 DEF Received, u, d
  <2> QED BY <2>2, <2>6, <2>8 DEF s
<1>20. CASE d # NoReg
  <2>1. pstack' = << clock + 1 >> /\ vals' = With(vals, d, clock + 1)
    BY <1>10, <1>13, <1>20
  <2>2. Len(pstack') = 1 /\ pstack'[1] = clock' /\ pstack' \in Seq(0 .. clock')
    <3>1. clock + 1 \in 0 .. clock + 1
      BY <1>12
    <3>2. clock' = clock + 1 /\ pstack' = << clock + 1 >>
      BY <1>10, <2>1
    <3> QED BY <3>1, <3>2
  <2>3. d \in DOMAIN vals' /\ vals'[d] = clock'
    BY <1>10, <2>1 DEF With
  <2>4. RunTypes'
    <3>1. \A y : y \in 0 .. clock => y \in 0 .. clock + 1
      BY <1>12
    <3>2. \A r \in DOMAIN vals' : r = d \/ (r \in DOMAIN vals /\ vals'[r] = vals[r])
      BY <2>1 DEF With
    <3>3. \A r \in DOMAIN vals' : vals'[r] \in 0 .. clock + 1
      BY <1>10, <1>12, <2>3, <3>1, <3>2
    <3> QED BY <1>10, <1>12, <2>2, <3>1, <3>3 DEF RunTypes
  <2>5. xpc' = pos[i + 1]
    <3>1. /\ pos[i] \in Nat /\ j \in Nat /\ Width(s[i]) = j + 2
          /\ pos[i + 1] = pos[i] + Width(s[i])
      BY <1>4, <1>5, <1>6, <1>20
    <3>2. xpc' = (pos[i] + (j + 1)) + 1
      BY <1>7, <1>10
    <3> QED BY <3>1, <3>2
  <2>6. StoringAt(pos, i)'
    BY <1>2, <1>11, <1>17, <1>18, <1>20, <2>2, <2>3, <2>5 DEF StoringAt, s, a, d
  <2>7. xidx' = xidx + 1 /\ DOMAIN operands' = 1 .. j
    BY <1>1, <1>3, <1>7, <1>15, <1>17
  <2>8. Received(s[i], j)
    BY <1>10, <1>16, <2>7 DEF Received, u, d
  <2> QED BY <2>4, <2>6, <2>8 DEF s
<1> QED BY <1>19, <1>20

(* A store puts the value of a register where it belongs.                  *)
LEMMA MemStore ==
  ASSUME NEW d \in DOMAIN reg2index, d \in DOMAIN vals, NEW X, NEW Y,
         \A r : r \in X => r \in Y \/ r = d,
         \A r, q \in DOMAIN reg2index : reg2index[r] = reg2index[q] => r = q,
         MemOK(X), pmem' = With(pmem, reg2index[d], vals[d]),
         vals' = vals, reg2index' = reg2index
  PROVE  MemOK(Y)'
<1> DEFINE n == reg2index[d]
<1>1. /\ n \in DOMAIN pmem' /\ pmem'[n] = vals[d]
      /\ \A x \in DOMAIN pmem : x # n => x \in DOMAIN pmem' /\ pmem'[x] = pmem[x]
  BY DEF With
<1> HIDE DEF n
<1>2. ASSUME NEW r \in DOMAIN vals, r \in DOMAIN reg2index, r \notin Y
      PROVE  reg2index[r] \in DOMAIN pmem' /\ pmem'[reg2index[r]] = vals[r]
  <2>1. CASE r = d
    BY <1>1, <2>1 DEF n
  <2>2. CASE r # d
    <3>1. reg2index[r] # n
      BY <1>2, <2>2 DEF n
    <3>2. reg2index[r] \in DOMAIN pmem /\ pmem[reg2index[r]] = vals[r]
      BY <1>2, <2>2 DEF MemOK
    <3> QED BY <1>1, <3>1, <3>2
  <2> QED BY <2>1, <2>2
<1> QED BY <1>2 DEF MemOK

LEMMA StoreStep ==
  ASSUME NEW pos, NEW i, Running(pos), RunTypes, StoringAt(pos, i), Execute
  PROVE  RunTypes' /\ BetweenAt(pos, i + 1)' /\ UNCHANGED <<xidx, vals, operands, clock>>
<1> DEFINE s == Block
           a == InArgs
           o == out[xblk]
           d == s[i].def
           k == regs
<1>1. /\ k \in Nat /\ s \in Seq(AnyInstr(k)) /\ Laid(o, s, Len(s), pos, reg2index) /\ NoPop(o)
      /\ a \in Nat /\ Len(s) \in Nat
      /\ \A r, q \in DOMAIN reg2index : reg2index[r] = reg2index[q] => r = q
  BY DEF Running, Shape, SlotsOK
<1>2. /\ i \in a + 1 .. Len(s) /\ d # NoReg /\ xpc = pos[i + 1] /\ xidx = i - a + 1
      /\ Len(pstack) = 1 /\ pstack[1] = clock
      /\ d \in DOMAIN vals /\ vals[d] = clock /\ MemOK({d})
  BY DEF StoringAt
<1>3. i \in 1 .. Len(s) /\ i \in Nat
  BY <1>1, <1>2
<1> HIDE DEF s, a, o, k
<1>4. /\ pos[i + 1] \in Nat /\ pos[i + 1] \in DOMAIN o /\ d \in DOMAIN reg2index
      /\ o[pos[i + 1]].op = "PUTLOCAL" /\ o[pos[i + 1]].n = reg2index[d]
  BY SMTT(60), <1>1, <1>2, <1>3, PieceAt
<1>5. Current.op = "PUTLOCAL" /\ Current.n = reg2index[d]
  BY <1>2, <1>4 DEF Current, o
<1> HIDE DEF d
<1>6. /\ pmem' = With(pmem, reg2index[d], Last(pstack)) /\ pstack' = Front(pstack)
      /\ xpc' = xpc + 1 /\ UNCHANGED <<xidx, vals, operands, clock>> /\ SameCode
  BY <1>5 DEF Execute, ExecGetLocal, ExecPutLocal, ExecInstr, SameCode
<1>7. Block' = Block /\ InArgs' = InArgs /\ reg2index' = reg2index
  BY <1>6, SameBlock
<1>8. /\ clock \in Nat /\ pstack \in Seq(0 .. clock)
      /\ \A x \in DOMAIN pmem : pmem[x] \in 0 .. clock
      /\ \A r \in DOMAIN vals : vals[r] \in 0 .. clock
  BY DEF RunTypes
<1>9. Last(pstack) = clock /\ pstack' = << >>
  BY <1>2, <1>6, <1>8 DEF Last, Front
<1>10. pmem' = With(pmem, reg2index[d], vals[d])
  BY <1>2, <1>6, <1>9
<1>11. MemOK({})'
  <2>1. \A r : r \in {d} => r \in {} \/ r = d
    OBVIOUS
  <2>2. MemOK({d}) /\ d \in DOMAIN vals /\ d \in DOMAIN reg2index
    BY <1>2, <1>4
  <2> QED BY <1>1, <1>6, <1>7, <1>10, <2>1, <2>2, MemStore
<1>12. RunTypes'
  <2>1. \A x \in DOMAIN pmem' : pmem'[x] \in 0 .. clock
    <3>1. \A x \in DOMAIN pmem' : pmem'[x] = vals[d] \/ (x \in DOMAIN pmem /\ pmem'[x] = pmem[x])
      BY <1>10 DEF With
    <3> QED BY <1>2, <1>8, <3>1
  <2>2. pstack' \in Seq(0 .. clock)
    BY <1>9
  <2>3. clock' = clock /\ vals' = vals
    BY <1>6
  <2> QED BY <1>8, <2>1, <2>2, <2>3 DEF RunTypes
<1>13. i + 1 \in 1 .. Len(s) + 1 /\ i + 1 > a /\ ~(i + 1 <= a) /\ (i + 1) - a = i - a + 1
  BY <1>1, <1>2, <1>3
<1>14. BetweenAt(pos, i + 1)'
  <2>1. xpc' = pos[i + 1] + 1 /\ xidx' = (i + 1) - a /\ Len(pstack') = 0
    BY <1>2, <1>6, <1>9, <1>13
  <2>2. s' = s /\ a' = a
    BY <1>7 DEF s, a
  <2> QED BY <1>11, <1>13, <2>1, <2>2 DEF BetweenAt, s, a
<1> QED BY <1>6, <1>12, <1>14

LEMMA ArgStep ==
  ASSUME NEW pos, NEW i, Running(pos), RunTypes, BetweenAt(pos, i), i <= InArgs, Execute
  PROVE  RunTypes' /\ BetweenAt(pos, i + 1)' /\ UNCHANGED <<xidx, vals, operands, clock>>
<1> DEFINE s == Block
           a == InArgs
           o == out[xblk]
           d == s[i].def
           k == regs
<1>1. /\ k \in Nat /\ s \in Seq(AnyInstr(k)) /\ Laid(o, s, Len(s), pos, reg2index) /\ NoPop(o)
      /\ a \in Nat /\ Len(s) \in Nat /\ a <= Len(s)
      /\ \A r, q \in DOMAIN reg2index : reg2index[r] = reg2index[q] => r = q
      /\ \A x \in 1 .. a : s[x].op = "STACKARG" /\ s[x].def # NoReg /\ s[x].uses = << >>
  BY DEF Running, Shape, SlotsOK
<1>2. /\ i \in 1 .. Len(s) + 1 /\ i <= a /\ xpc = pos[i] + 1 /\ xidx = 1
      /\ Len(pstack) = a - i + 1 /\ \A x \in 1 .. Len(pstack) : pstack[x] = x
      /\ \A x \in i .. a : s[x].def \in DOMAIN vals /\ vals[s[x].def] = a - x + 1
      /\ MemOK(PendingArgs(i))
  BY DEF BetweenAt
<1>3. i \in 1 .. Len(s) /\ i \in Nat /\ i \in 1 .. a /\ i \in i .. a
  BY <1>1, <1>2
<1> HIDE DEF s, a, o, k
<1>4. s[i].op = "STACKARG" /\ d # NoReg /\ Len(s[i].uses) = 0 /\ s[i] \in AnyInstr(k)
  BY <1>1, <1>3
<1>5. /\ pos[i] \in Nat /\ pos[i + 1] \in Nat /\ pos[i + 1] \in DOMAIN o /\ d \in DOMAIN reg2index
      /\ o[pos[i + 1]].op = "PUTLOCAL" /\ o[pos[i + 1]].n = reg2index[d]
      /\ pos[i + 1] = pos[i] + Width(s[i])
  BY <1>1, <1>3, <1>4, PieceAt
<1>6. Width(s[i]) = 1
  BY <1>1, <1>4, WidthType
<1>7. xpc = pos[i + 1]
  BY <1>2, <1>5, <1>6
<1>8. Current.op = "PUTLOCAL" /\ Current.n = reg2index[d]
  BY <1>5, <1>7 DEF Current, o
<1>9. d \in DOMAIN vals /\ vals[d] = a - i + 1
  BY <1>2, <1>3
<1> HIDE DEF d
<1>10. /\ pmem' = With(pmem, reg2index[d], Last(pstack)) /\ pstack' = Front(pstack)
       /\ xpc' = xpc + 1 /\ UNCHANGED <<xidx, vals, operands, clock>> /\ SameCode
  BY <1>8 DEF Execute, ExecGetLocal, ExecPutLocal, ExecInstr, SameCode
<1>11. Block' = Block /\ InArgs' = InArgs /\ reg2index' = reg2index
  BY <1>10, SameBlock
<1>12. s' = s /\ a' = a
  BY <1>11 DEF s, a
<1>13. /\ clock \in Nat /\ pstack \in Seq(0 .. clock)
       /\ \A x \in DOMAIN pmem : pmem[x] \in 0 .. clock
       /\ \A r \in DOMAIN vals : vals[r] \in 0 .. clock
  BY DEF RunTypes
<1> DEFINE n == Len(pstack)
<1>14. n \in Nat /\ n >= 1 /\ n = a - i + 1 /\ n - 1 = a - (i + 1) + 1 /\ n \in 1 .. n
  BY <1>1, <1>2, <1>3, <1>13
<1>15. Last(pstack) = n /\ pstack' = SubSeq(pstack, 1, n - 1)
  BY <1>2, <1>10, <1>14 DEF Last, Front
<1>16. /\ pstack' \in Seq(0 .. clock) /\ Len(pstack') = n - 1
       /\ \A x \in 1 .. n - 1 : pstack'[x] = pstack[x]
  BY <1>13, <1>14, <1>15
<1> HIDE DEF n
<1>17. pmem' = With(pmem, reg2index[d], vals[d])
  BY <1>9, <1>10, <1>14, <1>15
<1>18. RunTypes'
  <2>1. \A x \in DOMAIN pmem' : pmem'[x] \in 0 .. clock
    <3>1. \A x \in DOMAIN pmem' : pmem'[x] = vals[d] \/ (x \in DOMAIN pmem /\ pmem'[x] = pmem[x])
      BY <1>17 DEF With
    <3> QED BY <1>9, <1>13, <3>1
  <2>2. clock' = clock /\ vals' = vals
    BY <1>10
  <2> QED BY <1>13, <1>16, <2>1, <2>2 DEF RunTypes
<1>19. ASSUME NEW Y, \A x \in i + 1 .. a : s[x].def \in Y
       PROVE  MemOK(Y)'
  <2> DEFINE X == PendingArgs(i)
  <2>1. \A r : r \in X => r \in Y \/ r = d
    <3>1. \A x \in i .. a : x = i \/ x \in i + 1 .. a
      BY <1>1, <1>3
    <3>2. \A r \in X : \E x \in i .. a : r = s[x].def
      BY DEF PendingArgs, s, a
    <3> QED BY <1>19, <3>1, <3>2 DEF d
  <2>2. MemOK(X) /\ d \in DOMAIN vals /\ d \in DOMAIN reg2index
    BY <1>2, <1>5, <1>9
  <2> HIDE DEF X
  <2> QED BY <1>1, <1>10, <1>11, <1>17, <2>1, <2>2, MemStore
<1>20. i + 1 \in 1 .. Len(s) + 1 /\ xpc' = pos[i + 1] + 1
  BY <1>1, <1>3, <1>7, <1>10
<1>21. CASE i + 1 <= a
  <2>1. ~(i + 1 > a)
    BY <1>1, <1>3, <1>21
  <2>2. \A x \in 1 .. n - 1 : pstack'[x] = x
    <3>1. \A x \in 1 .. n - 1 : x \in 1 .. n
      BY <1>14
    <3> QED BY <1>2, <1>16, <3>1 DEF n
  <2>3. \A x \in i + 1 .. a : s[x].def \in DOMAIN vals' /\ vals'[s[x].def] = a - x + 1
    <3>1. \A x \in i + 1 .. a : x \in i .. a
      BY <1>1, <1>3
    <3> QED BY <1>2, <1>10, <3>1
  <2>4. MemOK(PendingArgs(i + 1))'
    <3> PICK Y : Y = { s[x].def : x \in i + 1 .. a }
      OBVIOUS
    <3>1. PendingArgs(i + 1)' = Y
      BY <1>11 DEF PendingArgs, s, a
    <3>2. \A x \in i + 1 .. a : s[x].def \in Y
      OBVIOUS
    <3>3. MemOK(Y)'
      BY <1>19, <3>2
    <3> QED BY <3>1, <3>3 DEF MemOK
  <2>5. xidx' = 1 /\ Len(pstack') = a - (i + 1) + 1
    BY <1>2, <1>10, <1>14, <1>16
  <2> QED BY <1>10, <1>12, <1>16, <1>18, <1>20, <1>21, <2>1, <2>2, <2>3, <2>4, <2>5 DEF BetweenAt, s, a
<1>22. CASE ~(i + 1 <= a)
  <2>1. i = a /\ i + 1 > a /\ (i + 1) - a = 1 /\ n - 1 = 0
    BY <1>1, <1>3, <1>14, <1>22
  <2>2. MemOK({})'
    <3>1. \A x \in i + 1 .. a : s[x].def \in {}
      BY <1>1, <1>3, <1>22
    <3> QED BY <1>19, <3>1
  <2>3. xidx' = (i + 1) - a /\ Len(pstack') = 0
    BY <1>2, <1>10, <1>16, <2>1
  <2> QED BY <1>10, <1>12, <1>18, <1>20, <1>22, <2>1, <2>2, <2>3 DEF BetweenAt, s, a
<1> QED BY <1>21, <1>22

(* Where a run can be.                                                     *)
Doing(pos) ==
  \/ \E i : BetweenAt(pos, i) /\ i <= InArgs
  \/ \E i, j : LoadingAt(pos, i, j)
  \/ \E i : StoringAt(pos, i)

AtEnd(pos) == BetweenAt(pos, Len(Block) + 1) /\ Len(Block) + 1 > InArgs

LEMMA Goes ==
  \A pos, i : Running(pos) /\ BetweenAt(pos, i) => Doing(pos) \/ AtEnd(pos)
<1> SUFFICES ASSUME NEW pos, NEW i, Running(pos), BetweenAt(pos, i)
             PROVE  Doing(pos) \/ AtEnd(pos)
  OBVIOUS
<1> DEFINE s == Block
           a == InArgs
           k == regs
<1>1. k \in Nat /\ s \in Seq(AnyInstr(k)) /\ a \in Nat /\ Len(s) \in Nat /\ a <= Len(s)
      /\ Laid(out[xblk], s, Len(s), pos, reg2index)
  BY DEF Running, Shape
<1>2. i \in 1 .. Len(s) + 1 /\ i \in Nat /\ xpc = pos[i] + 1
  BY <1>1 DEF BetweenAt
<1>3. CASE i <= a
  BY <1>3 DEF Doing
<1>4. CASE i > a /\ i # Len(s) + 1
  <2>1. i \in a + 1 .. Len(s) /\ i \in 1 .. Len(s)
    BY <1>1, <1>2, <1>4
  <2>2. s[i] \in AnyInstr(k)
    BY <1>1, <2>1
  <2>3. Len(s[i].uses) \in Nat
    BY <1>1, <2>2, WidthType
  <2>4. 0 \in 0 .. Len(s[i].uses) /\ 1 .. 0 = {} /\ 0 + 1 = 1
    BY <2>3
  <2>5. xidx = i - a /\ Len(pstack) = 0 /\ MemOK({})
    BY <1>4 DEF BetweenAt
  <2>6. LoadingAt(pos, i, 0)
    BY <1>2, <2>1, <2>4, <2>5 DEF LoadingAt
  <2> QED BY <2>6 DEF Doing
<1>5. CASE i > a /\ i = Len(s) + 1
  BY <1>5 DEF AtEnd
<1> QED BY <1>1, <1>2, <1>3, <1>4, <1>5

LEMMA DoingExecutes ==
  ASSUME NEW pos, Running(pos), Doing(pos)
  PROVE  xpc \in DOMAIN out[xblk]
<1> DEFINE s == Block
           a == InArgs
           k == regs
           o == out[xblk]
<1>1. /\ k \in Nat /\ s \in Seq(AnyInstr(k)) /\ a \in Nat /\ Len(s) \in Nat /\ a <= Len(s)
      /\ Laid(o, s, Len(s), pos, reg2index) /\ NoPop(o)
      /\ \A x \in 1 .. a : s[x].op = "STACKARG" /\ s[x].def # NoReg /\ s[x].uses = << >>
      /\ \A x \in a + 1 .. Len(s) : s[x].op # "STACKARG"
  BY DEF Running, Shape
<1>2. ASSUME NEW i, BetweenAt(pos, i), i <= a
      PROVE  xpc \in DOMAIN o
  <2>1. i \in 1 .. a /\ i \in 1 .. Len(s) /\ xpc = pos[i] + 1
    BY <1>1, <1>2 DEF BetweenAt
  <2> HIDE DEF s, a, o, k
  <2>2. s[i].op = "STACKARG" /\ s[i].def # NoReg /\ Len(s[i].uses) = 0 /\ s[i] \in AnyInstr(k)
    BY <1>1, <2>1
  <2>3. pos[i + 1] \in DOMAIN o /\ pos[i + 1] = pos[i] + Width(s[i])
    BY <1>1, <2>1, <2>2, PieceAt
  <2>4. Width(s[i]) = 1
    BY <1>1, <2>2, WidthType
  <2> QED BY <2>1, <2>3, <2>4
<1>3. ASSUME NEW i, NEW j, LoadingAt(pos, i, j)
      PROVE  xpc \in DOMAIN o
  <2>1. /\ i \in a + 1 .. Len(s) /\ i \in 1 .. Len(s) /\ xpc = pos[i] + (j + 1)
        /\ j \in 0 .. Len(s[i].uses)
    BY <1>1, <1>3 DEF LoadingAt
  <2> HIDE DEF s, a, o, k
  <2>2. s[i] \in AnyInstr(k) /\ s[i].op # "STACKARG"
    BY <1>1, <2>1
  <2>3. Len(s[i].uses) \in Nat
    BY <1>1, <2>2, WidthType
  <2>4. \/ j + 1 \in 1 .. Len(s[i].uses)
        \/ j = Len(s[i].uses)
    BY <2>1, <2>3
  <2>5. /\ \A x \in 1 .. Len(s[i].uses) : pos[i] + x \in DOMAIN o
        /\ pos[i] + (Len(s[i].uses) + 1) \in DOMAIN o
    BY <1>1, <2>1, <2>2, PieceAt
  <2> QED BY <2>1, <2>4, <2>5
<1>4. ASSUME NEW i, StoringAt(pos, i)
      PROVE  xpc \in DOMAIN o
  <2>1. i \in 1 .. Len(s) /\ xpc = pos[i + 1] /\ s[i].def # NoReg
    BY <1>1, <1>4 DEF StoringAt
  <2> HIDE DEF s, a, o, k
  <2> QED BY <1>1, <2>1, PieceAt
<1> QED BY <1>2, <1>3, <1>4 DEF Doing

LEMMA EndStops ==
  ASSUME NEW pos, Running(pos), AtEnd(pos)
  PROVE  /\ xpc \notin DOMAIN out[xblk]
         /\ Len(pstack) = 0 /\ xidx = Len(Code[xblk]) + 1 /\ MemOK({})
<1> DEFINE s == Block
           a == InArgs
           o == out[xblk]
           c == Code[xblk]
<1>1. /\ Laid(o, s, Len(s), pos, reg2index) /\ Shape(s, a, c) /\ s \in Seq(AnyInstr(regs))
  BY DEF Running
<1>2. /\ Len(pstack) = 0 /\ xidx = (Len(s) + 1) - a /\ MemOK({}) /\ xpc = pos[Len(s) + 1] + 1
  <2> DEFINE i == Len(s) + 1
  <2>1. BetweenAt(pos, i) /\ i > a
    BY DEF AtEnd
  <2> HIDE DEF i
  <2> QED BY <2>1, Zenon DEF BetweenAt, i
<1> HIDE DEF s, a, o, c
<1>3. Len(s) \in Nat /\ a \in Nat /\ Len(c) = Len(s) - a
  <2>1. a \in Nat /\ Len(c) = Len(s) - a
    BY <1>1 DEF Shape
  <2>2. Len(s) \in Nat
    BY <1>1
  <2> QED BY <2>1, <2>2
<1>4. pos[Len(s) + 1] = Len(o) /\ o \in Seq(OutInstr)
  BY <1>1 DEF Laid
<1>5. Len(o) \in Nat /\ DOMAIN o = 1 .. Len(o)
  BY <1>4
<1>6. xpc \notin DOMAIN o
  BY <1>2, <1>4, <1>5
<1> QED BY <1>2, <1>3, <1>6 DEF o, c

-----------------------------------------------------------------------------
NoPops == \A b \in DOMAIN out : NoPop(out[b])

NotStarted ==
  xblk = 0 => /\ xpc = 1 /\ xidx = 1 /\ pstack = << >> /\ pmem = << >> /\ vals = << >>
              /\ operands = << >> /\ clock = 0

(* While the code runs, the stack holds the arguments not yet stored, the  *)
(* operands loaded so far, or a result; everything else is in its slot.    *)
ExecInv ==
  /\ RunTypes /\ NotStarted
  /\ xblk # 0 => /\ stage = "done" /\ NoPops
                 /\ \E pos : Running(pos) /\ (Doing(pos) \/ AtEnd(pos))

(* The code of a block, when the run enters it.                            *)
LEMMA Entered ==
  ASSUME MoveInv, AllocInv, stage = "done", NoPops, UNCHANGED <<moveVars, allocVars>>,
         xblk' \in DOMAIN fn.code
  PROVE  NoPops' /\ stage' = "done" /\ \E pos : Running(pos)' /\ pos[1] = 0
<1> DEFINE b == xblk'
<1>1. UNCHANGED <<fn, stage, body, regs, error, at, reg2index, memoryFrameSize, out>>
  BY DEF moveVars, allocVars
<1>2. /\ regs \in Nat /\ Len(fn.code) \in Nat /\ DOMAIN fn.code = 1 .. Len(fn.code)
      /\ body[b] \in Seq(AnyInstr(regs))
  BY MovedType
<1>3. /\ IsLaid(b, Visits(b)) /\ SlotsOK(reg2index, memoryFrameSize, regs)
      /\ at[1] = Len(fn.code) + 1 /\ b \in DOMAIN out
  BY DEF AllocInv, AtOK
<1>4. Visits(b) = Len(body[b])
  BY <1>2, <1>3 DEF Visits
<1>5. PICK pos : Laid(out[b], body[b], Len(body[b]), pos, reg2index)
  BY <1>3, <1>4 DEF IsLaid
<1>6. Shape(body[b], ArgsIn(b), Code[b])
  BY BlockShape
<1>7. /\ Block' = body[b] /\ InArgs' = ArgsIn(b) /\ (Code[xblk])' = Code[b]
  BY <1>1 DEF Block, InArgs, ArgsIn, Args, Entry, Code
<1>8. NoPop(out[b])
  BY <1>3 DEF NoPops
<1>9. Running(pos)'
  BY <1>1, <1>2, <1>3, <1>5, <1>6, <1>7, <1>8 DEF Running
<1>10. pos[1] = 0
  BY <1>5 DEF Laid
<1>11. NoPops'
  BY <1>1 DEF NoPops
<1> QED BY <1>1, <1>9, <1>10, <1>11

LEMMA GoesNext ==
  (\A pos, i : Running(pos) /\ BetweenAt(pos, i) => Doing(pos) \/ AtEnd(pos))'
<1> QED BY Goes, PTL

LEMMA BranchStep ==
  ASSUME PassInv, ExecInv, Branch
  PROVE  ExecInv' /\ xidx = Len(Code[xblk]) + 1
<1>1. MoveInv /\ AllocInv /\ xblk # 0 /\ ~Executing
  BY DEF PassInv, Branch
<1>2. PICK p : Running(p) /\ (Doing(p) \/ AtEnd(p))
  BY <1>1 DEF ExecInv
<1>3. AtEnd(p)
  BY <1>1, <1>2, DoingExecutes DEF Executing
<1>4. Len(pstack) = 0 /\ xidx = Len(Code[xblk]) + 1 /\ MemOK({})
  BY <1>2, <1>3, EndStops
<1>5. /\ UNCHANGED <<moveVars, allocVars, pstack, pmem, vals, operands, clock>>
      /\ xpc' = 1 /\ xidx' = 1 /\ xblk' \in ToSet(fn.succs[xblk])
  BY DEF Branch
<1>6. stage = "done" /\ NoPops /\ RunTypes /\ xblk \in DOMAIN fn.code
  BY <1>1, <1>2 DEF ExecInv, Running
<1>7. xblk' \in DOMAIN fn.code /\ xblk' # 1 /\ xblk' # 0
  <2>1. /\ fn.succs \in [DOMAIN fn.code -> Seq(DOMAIN fn.code \ {1})]
        /\ DOMAIN fn.code = 1 .. Len(fn.code) /\ Len(fn.code) \in Nat
    <3>1. IsSelected(fn)
      BY <1>1 DEF MoveInv
    <3> QED BY <3>1, SelectedCode DEF IsSelected
  <2>2. fn.succs[xblk] \in Seq(DOMAIN fn.code \ {1})
    BY <1>6, <2>1
  <2>3. xblk' \in DOMAIN fn.code \ {1}
    BY <1>5, <2>2 DEF ToSet
  <2> QED BY <2>1, <2>3
<1>8. /\ NoPops' /\ stage' = "done" /\ UNCHANGED <<moveVars, allocVars>>
  BY <1>1, <1>5, <1>6, <1>7, Entered
<1>9. PICK pos : Running(pos)' /\ pos[1] = 0
  BY <1>1, <1>5, <1>6, <1>7, Entered
<1>10. RunTypes'
  BY <1>5, <1>6 DEF RunTypes
<1>11. MemOK({})'
  <2>1. reg2index' = reg2index
    BY <1>5 DEF allocVars
  <2> QED BY <1>4, <1>5, <2>1 DEF MemOK
<1>12. InArgs' = 0
  BY <1>7 DEF InArgs, ArgsIn
<1>13. 1 \in 1 .. Len(Block') + 1
  BY <1>9 DEF Running
<1>14. BetweenAt(pos, 1)'
  BY <1>4, <1>5, <1>9, <1>11, <1>12, <1>13 DEF BetweenAt
<1>15. Doing(pos)' \/ AtEnd(pos)'
  BY <1>9, <1>14, GoesNext
<1> QED BY <1>4, <1>7, <1>8, <1>9, <1>10, <1>15 DEF ExecInv, NotStarted

LEMMA PopsSeen ==
  ASSUME ~UnusedDef
  PROVE  NoPops
<1>1. \A b \in DOMAIN out : \A p \in DOMAIN out[b] : out[b][p] \in ToSet(out[b])
  BY DEF ToSet
<1> QED BY <1>1 DEF UnusedDef, NoPops, NoPop

(* The arguments, when the entry block is entered.                         *)
LEMMA ArgValues ==
  ASSUME PassInv, stage = "done",
         vals' = [r \in ToSet(ArgRegs) |-> 1 + (CHOOSE mi \in ToSet(Args) : mi.def = r).n]
  PROVE  /\ Len(Args) \in Nat /\ DOMAIN Args = 1 .. Len(Args) /\ 1 \in DOMAIN fn.code
         /\ ArgsIn(1) = Len(Args) /\ \A k \in 1 .. Len(Args) : body[1][k] = Args[k]
         /\ \A i, j \in 1 .. Len(Args) : Args[i].def = Args[j].def => i = j
         /\ DOMAIN vals' = { Args[k].def : k \in 1 .. Len(Args) }
         /\ \A k \in 1 .. Len(Args) : vals'[Args[k].def] = Len(Args) - k + 1
<1> DEFINE A == Args
           h == Len(A)
<1>1. MoveInv /\ 1 \in DOMAIN fn.code
  <2>1. IsSelected(fn) /\ MoveInv
    BY DEF PassInv, MoveInv
  <2> QED BY <2>1, SelectedCode
<1>2. /\ ArgsIn(1) = h /\ Shape(body[1], h, Code[1])
      /\ \A i \in 1 .. h : A[i] = body[1][i] /\ A[i].n = h - i
  BY <1>1, BlockShape
<1>3. h \in Nat /\ \A i, j \in 1 .. h : i # j => body[1][i].def # body[1][j].def
  BY <1>2 DEF Shape
<1>4. \A i, j \in 1 .. h : A[i].def = A[j].def => i = j
  BY <1>2, <1>3
<1>5. DOMAIN A = 1 .. h
  <2>1. body[1] \in Seq(AnyInstr(regs)) /\ regs \in Nat
    BY <1>1, MovedType
  <2>2. StackArgs(body[1]) \in Seq(AnyInstr(regs))
    BY <2>1, StackArgsType
  <2> QED BY <2>2 DEF Args, Entry
<1>6. ToSet(A) = { A[i] : i \in 1 .. h }
  BY <1>5 DEF ToSet
<1>7. ToSet(ArgRegs) = { A[i].def : i \in 1 .. h }
  BY DEF ToSet, ArgRegs
<1> HIDE DEF A, h
<1>8. ASSUME NEW k \in 1 .. h
      PROVE  vals'[A[k].def] = h - k + 1
  <2>1. (CHOOSE mi \in ToSet(A) : mi.def = A[k].def) = A[k]
    <3>1. A[k] \in ToSet(A) /\ \A mi \in ToSet(A) : mi.def = A[k].def => mi = A[k]
      BY <1>4, <1>6, <1>8
    <3> QED BY <3>1
  <2>2. A[k].def \in ToSet(ArgRegs)
    BY <1>7
  <2>3. vals'[A[k].def] = 1 + A[k].n
    BY <2>1, <2>2 DEF A
  <2>4. A[k].n = h - k /\ k \in Nat
    BY <1>2, <1>3
  <2> QED BY <1>3, <2>3, <2>4
<1>9. DOMAIN vals' = { A[i].def : i \in 1 .. h }
  BY <1>7
<1> QED BY <1>1, <1>2, <1>3, <1>4, <1>5, <1>8, <1>9 DEF A, h

LEMMA StartStep ==
  ASSUME PassInv, ExecInv, Start
  PROVE  ExecInv'
<1> DEFINE A == Args
           h == Len(A)
<1>1. /\ MoveInv /\ AllocInv /\ stage = "done" /\ ~UnusedDef /\ xblk = 0 /\ xblk' = 1
      /\ pstack' = [i \in DOMAIN A |-> i] /\ clock' = h
      /\ UNCHANGED <<moveVars, allocVars, xpc, xidx, pmem, operands>>
      /\ vals' = [r \in ToSet(ArgRegs) |-> 1 + (CHOOSE mi \in ToSet(Args) : mi.def = r).n]
  BY DEF PassInv, Start
<1>2. /\ h \in Nat /\ DOMAIN A = 1 .. h /\ 1 \in DOMAIN fn.code
      /\ ArgsIn(1) = h /\ \A k \in 1 .. h : body[1][k] = A[k]
      /\ DOMAIN vals' = { A[k].def : k \in 1 .. h }
      /\ \A k \in 1 .. h : vals'[A[k].def] = h - k + 1
  BY <1>1, ArgValues
<1>3. xpc' = 1 /\ xidx' = 1 /\ DOMAIN pmem' = {}
  BY <1>1 DEF ExecInv, NotStarted
<1>4. NoPops
  BY <1>1, PopsSeen
<1>5. NoPops' /\ stage' = "done" /\ \E pos : Running(pos)' /\ pos[1] = 0
  BY <1>1, <1>2, <1>4, Entered
<1>6. PICK pos : Running(pos)' /\ pos[1] = 0
  BY <1>5
<1>7. Block' = body[1] /\ InArgs' = h
  BY <1>1, <1>2 DEF Block, InArgs, ArgsIn, Args, Entry, moveVars
<1> HIDE DEF A, h
<1>8. /\ pstack' \in Seq(0 .. h) /\ Len(pstack') = h
      /\ \A x \in 1 .. h : pstack'[x] = x
  BY <1>1, <1>2
<1>9. RunTypes'
  <2>1. \A k \in 1 .. h : h - k + 1 \in 0 .. h
    BY <1>2
  <2>2. \A r \in DOMAIN vals' : vals'[r] \in 0 .. h
    BY <1>2, <2>1
  <2> QED BY <1>1, <1>2, <1>3, <1>8, <2>2 DEF RunTypes
<1>10. /\ Block' \in Seq(AnyInstr(regs'))
  BY <1>6 DEF Running
<1>11. 1 \in 1 .. Len(Block') + 1 /\ 1 + h - 1 = h
  BY <1>2, <1>10
<1>12. PendingArgs(1)' = DOMAIN vals'
  <2>1. PendingArgs(1)' = { body[1][x].def : x \in 1 .. h }
    BY <1>7 DEF PendingArgs
  <2> QED BY ZenonT(60), <1>2, <2>1
<1>13. MemOK(PendingArgs(1))'
  BY <1>12 DEF MemOK
<1>14. h = 0 => MemOK({})'
  BY <1>2 DEF MemOK
<1>15. \A x \in 1 .. h : Block'[x].def \in DOMAIN vals' /\ vals'[Block'[x].def] = h - x + 1
  BY <1>2, <1>7
<1>16. xpc' = pos[1] + 1 /\ h - 1 + 1 = h
  BY <1>2, <1>3, <1>6
<1>17. BetweenAt(pos, 1)'
  <2>1. CASE h = 0
    BY <1>3, <1>7, <1>8, <1>11, <1>14, <1>16, <2>1 DEF BetweenAt
  <2>2. CASE h # 0
    <3>1. ~(1 > h)
      BY <1>2, <2>2
    <3> QED BY <1>3, <1>7, <1>8, <1>11, <1>13, <1>15, <1>16, <3>1 DEF BetweenAt
  <2> QED BY <2>1, <2>2
<1>18. Doing(pos)' \/ AtEnd(pos)'
  BY <1>6, <1>17, GoesNext
<1> QED BY <1>1, <1>5, <1>6, <1>9, <1>18 DEF ExecInv, NotStarted

-----------------------------------------------------------------------------
(* What an instruction of the machine function does with the registers.    *)
MachineStep ==
  /\ xidx \in 1 .. Len(Code[xblk])
  /\ Received(Code[xblk][xidx], Len(Code[xblk][xidx].uses))

LEMMA ExecStep ==
  ASSUME PassInv, ExecInv, Execute
  PROVE  /\ ExecInv' /\ SameCode /\ xblk # 0
         /\ UNCHANGED <<xidx, vals, operands, clock>> \/ MachineStep
<1>1. Executing /\ SameCode /\ xblk # 0
  BY DEF Execute, Executing, SameCode
<1>2. RunTypes /\ stage = "done" /\ NoPops
  BY <1>1 DEF ExecInv
<1>3. PICK pos : Running(pos) /\ (Doing(pos) \/ AtEnd(pos))
  BY <1>1 DEF ExecInv
<1>4. Doing(pos)
  BY <1>1, <1>3, EndStops DEF Executing
<1>5. Running(pos)' /\ stage' = "done" /\ xblk' # 0 /\ NoPops'
  <2>1. Running(pos)' /\ stage' = "done" /\ xblk' # 0 /\ out' = out
    BY <1>1, <1>2, <1>3, SameBlock
  <2> QED BY <1>2, <2>1 DEF NoPops
<1>6. ASSUME RunTypes', Doing(pos)' \/ AtEnd(pos)'
      PROVE  ExecInv'
  BY <1>5, <1>6 DEF ExecInv, NotStarted
<1>7. ASSUME NEW i, BetweenAt(pos, i), i <= InArgs
      PROVE  ExecInv' /\ UNCHANGED <<xidx, vals, operands, clock>>
  <2>1. RunTypes' /\ BetweenAt(pos, i + 1)' /\ UNCHANGED <<xidx, vals, operands, clock>>
    BY <1>2, <1>3, <1>7, ArgStep
  <2> QED BY <1>5, <1>6, <2>1, GoesNext
<1>8. ASSUME NEW i, StoringAt(pos, i)
      PROVE  ExecInv' /\ UNCHANGED <<xidx, vals, operands, clock>>
  <2>1. RunTypes' /\ BetweenAt(pos, i + 1)' /\ UNCHANGED <<xidx, vals, operands, clock>>
    BY <1>2, <1>3, <1>8, StoreStep
  <2> QED BY <1>5, <1>6, <2>1, GoesNext
<1>9. ASSUME NEW i, NEW j, LoadingAt(pos, i, j), j < Len(Block[i].uses)
      PROVE  ExecInv' /\ UNCHANGED <<xidx, vals, operands, clock>>
  <2>1. RunTypes' /\ LoadingAt(pos, i, j + 1)' /\ UNCHANGED <<xidx, vals, operands, clock>>
    BY <1>2, <1>3, <1>9, LoadStep
  <2>2. Doing(pos)'
    BY <2>1 DEF Doing
  <2> QED BY <1>6, <2>1, <2>2
<1>10. ASSUME NEW i, NEW j, LoadingAt(pos, i, j), j = Len(Block[i].uses)
       PROVE  ExecInv' /\ MachineStep
  <2>1. /\ RunTypes' /\ (BetweenAt(pos, i + 1)' \/ StoringAt(pos, i)')
        /\ Received(Block[i], j)
    BY <1>2, <1>3, <1>10, InstrStep
  <2>2. Doing(pos)' \/ AtEnd(pos)'
    <3>1. CASE BetweenAt(pos, i + 1)'
      BY <1>5, <3>1, GoesNext
    <3>2. CASE StoringAt(pos, i)'
      BY <3>2 DEF Doing
    <3> QED BY <2>1, <3>1, <3>2
  <2>3. xidx = i - InArgs /\ i \in InArgs + 1 .. Len(Block)
    BY <1>10 DEF LoadingAt
  <2>4. xidx \in 1 .. Len(Code[xblk]) /\ Code[xblk][xidx] = Block[i]
    <3> DEFINE s == Block
               a == InArgs
               c == Code[xblk]
    <3>1. Shape(s, a, c)
      BY <1>3 DEF Running
    <3>2. xidx = i - a /\ i \in a + 1 .. Len(s)
      BY <2>3
    <3> HIDE DEF s, a, c
    <3>3. i - a \in 1 .. Len(c) /\ c[i - a] = s[i]
      BY <3>1, <3>2 DEF Shape
    <3> QED BY <3>2, <3>3 DEF c, s
  <2>5. MachineStep
    BY <1>10, <2>1, <2>4 DEF MachineStep
  <2> QED BY <1>6, <2>1, <2>2, <2>5
<1>11. \A i, j : LoadingAt(pos, i, j) => j < Len(Block[i].uses) \/ j = Len(Block[i].uses)
  <2> TAKE i, j
  <2> HAVE LoadingAt(pos, i, j)
  <2>1. i \in InArgs + 1 .. Len(Block) /\ j \in 0 .. Len(Block[i].uses)
    BY DEF LoadingAt
  <2>2. regs \in Nat /\ Block \in Seq(AnyInstr(regs)) /\ InArgs \in Nat
    BY <1>3 DEF Running, Shape
  <2>3. Block[i] \in AnyInstr(regs)
    BY <2>1, <2>2
  <2>4. Len(Block[i].uses) \in Nat
    BY <2>2, <2>3, WidthType
  <2> QED BY <2>1, <2>4
<1>12. ExecInv' /\ (UNCHANGED <<xidx, vals, operands, clock>> \/ MachineStep)
  BY <1>4, <1>7, <1>8, <1>9, <1>10, <1>11, Zenon DEF Doing
<1> QED BY <1>1, <1>12

LEMMA ExecSame ==
  ASSUME ExecInv, UNCHANGED execVars, xblk = 0
  PROVE  ExecInv'
<1>1. UNCHANGED <<xblk, xpc, xidx, pstack, pmem, vals, operands, clock>>
  BY DEF execVars
<1> QED BY <1>1 DEF ExecInv, RunTypes, NotStarted

LEMMA ExecStutters ==
  ASSUME ExecInv, UNCHANGED vars
  PROVE  ExecInv'
<1>1. UNCHANGED <<fn, stage, body, regs, error, at, reg2index, memoryFrameSize, out,
                  xblk, xpc, xidx, pstack, pmem, vals, operands, clock>>
  BY DEF vars, moveVars, allocVars, execVars
<1>2. /\ Block' = Block /\ InArgs' = InArgs /\ Code' = Code
  BY <1>1 DEF Block, InArgs, ArgsIn, Args, Entry, Code
<1>3. \A X : MemOK(X)' <=> MemOK(X)
  BY <1>1 DEF MemOK
<1>4. \A i : PendingArgs(i)' = PendingArgs(i)
  BY <1>2 DEF PendingArgs
<1>5. NoPops' <=> NoPops
  BY <1>1 DEF NoPops
<1>6. RunTypes' /\ NotStarted'
  BY <1>1 DEF ExecInv, RunTypes, NotStarted
<1>7. ASSUME xblk # 0
      PROVE  \E pos : Running(pos)' /\ (Doing(pos)' \/ AtEnd(pos)')
  <2>1. PICK pos : Running(pos) /\ (Doing(pos) \/ AtEnd(pos))
    BY <1>7 DEF ExecInv
  <2>2. Running(pos)'
    BY <1>1, <1>2, <2>1 DEF Running
  <2>3. Doing(pos)' <=> Doing(pos)
    <3>1. \A i : BetweenAt(pos, i)' <=> BetweenAt(pos, i)
      BY <1>1, <1>2, <1>3, <1>4 DEF BetweenAt, MemOK
    <3>2. \A i, j : LoadingAt(pos, i, j)' <=> LoadingAt(pos, i, j)
      BY <1>1, <1>2, <1>3 DEF LoadingAt
    <3>3. \A i : StoringAt(pos, i)' <=> StoringAt(pos, i)
      BY <1>1, <1>2 DEF StoringAt, MemOK
    <3> QED BY <1>2, <3>1, <3>2, <3>3, Zenon DEF Doing
  <2>4. AtEnd(pos)' <=> AtEnd(pos)
    BY <1>1, <1>2, <1>3, <1>4 DEF AtEnd, BetweenAt, MemOK
  <2> QED BY <2>1, <2>2, <2>3, <2>4
<1> QED BY <1>1, <1>5, <1>6, <1>7 DEF ExecInv

(* Every argument in s has a number up to n.                               *)
NumberedTo(s, n) == \A i \in StackArgsAt(s) : s[i].n <= n

LEMMA PreparedNumbers ==
  ASSUME IsSelected(fn), NEW bd, NEW k, NEW h \in Nat, h <= fn.numArgs + 1, NEW r,
         Prepared(bd, k, fn, h, r)
  PROVE  /\ k \in Nat /\ bd \in [DOMAIN fn.code -> Seq(AnyInstr(k))]
         /\ \A b \in DOMAIN fn.code : NumberedTo(bd[b], fn.numArgs)
<1>1. /\ k \in Nat /\ k >= fn.regs /\ r \in 0 .. k
      /\ bd \in [DOMAIN fn.code -> Seq(AnyInstr(k))] /\ SeparateArgs(bd[1], h)
      /\ \A b \in DOMAIN fn.code : b # 1 => bd[b] = Ret(fn.code[b], r)
  BY DEF Prepared
<1>2. /\ fn.numArgs \in Nat /\ 1 \in DOMAIN fn.code /\ fn.code \in [DOMAIN fn.code -> Seq(AnyInstr(k))]
      /\ \A b \in DOMAIN fn.code : b # 1 => StackArgsAt(fn.code[b]) = {}
  BY <1>1, SelectedCode
<1>3. NumberedTo(bd[1], fn.numArgs)
  <2> DEFINE s == bd[1]
             N == fn.numArgs
  <2>1. s \in Seq(AnyInstr(k)) /\ SeparateArgs(s, h) /\ N \in Nat /\ h <= N + 1
    BY <1>1, <1>2
  <2> HIDE DEF s, N
  <2>2. \A i \in StackArgsAt(s) : i \in DOMAIN s /\ s[i].n < h
    BY <2>1 DEF SeparateArgs, StackArgsAt
  <2>3. \A i \in DOMAIN s : s[i].n \in Nat
    <3>1. \A mi \in AnyInstr(k) : mi.n \in Nat
      BY DEF AnyInstr
    <3> QED BY <2>1, <3>1
  <2>4. NumberedTo(s, N)
    BY <2>1, <2>2, <2>3 DEF NumberedTo
  <2> QED BY <2>4 DEF s, N
<1>4. ASSUME NEW b \in DOMAIN fn.code, b # 1
      PROVE  NumberedTo(bd[b], fn.numArgs)
  <2>1. fn.code[b] \in Seq(AnyInstr(k))
    BY <1>2
  <2>2. StackArgsAt(Ret(fn.code[b], r)) = StackArgsAt(fn.code[b])
    BY <1>1, <2>1, RetType
  <2>3. StackArgsAt(bd[b]) = {}
    BY <1>1, <1>2, <1>4, <2>2
  <2> QED BY <2>3 DEF NumberedTo
<1> QED BY <1>1, <1>3, <1>4

LEMMA BodyTypes ==
  ASSUME MoveInv
  PROVE  /\ regs \in Nat /\ body \in [DOMAIN fn.code -> Seq(AnyInstr(regs))]
         /\ fn.numArgs \in Nat /\ \A b \in DOMAIN fn.code : NumberedTo(body[b], fn.numArgs)
<1>1. /\ IsSelected(fn) /\ fn.numArgs \in Nat /\ fn.regs \in Nat /\ fn.regs >= fn.regs
      /\ fn.main \in BOOLEAN /\ 1 \in DOMAIN fn.code
      /\ fn.code \in [DOMAIN fn.code -> Seq(AnyInstr(fn.regs))]
      /\ SeparateArgs(fn.code[1], fn.numArgs)
      /\ \A b \in DOMAIN fn.code : b # 1 => StackArgsAt(fn.code[b]) = {}
  <2>1. IsSelected(fn)
    BY DEF MoveInv
  <2>2. fn.regs \in Nat
    BY <2>1 DEF IsSelected
  <2>3. fn.regs >= fn.regs
    BY <2>2
  <2> QED BY <2>1, <2>2, <2>3, SelectedCode
<1>2. NumStackArgs(fn) \in Nat /\ NumStackArgs(fn) <= fn.numArgs + 1
      /\ fn.numArgs <= fn.numArgs + 1
  BY <1>1 DEF NumStackArgs
<1>3. CASE stage = "arrange"
  <2>1. body = fn.code /\ regs = fn.regs
    BY <1>3 DEF MoveInv
  <2>2. NumberedTo(fn.code[1], fn.numArgs)
    <3> DEFINE s == fn.code[1]
               N == fn.numArgs
    <3>1. s \in Seq(AnyInstr(fn.regs)) /\ SeparateArgs(s, N) /\ N \in Nat
      BY <1>1
    <3> HIDE DEF s, N
    <3>2. \A i \in StackArgsAt(s) : i \in DOMAIN s /\ s[i].n < N
      BY <3>1 DEF SeparateArgs, StackArgsAt
    <3>3. \A i \in DOMAIN s : s[i].n \in Nat
      <4>1. \A mi \in AnyInstr(fn.regs) : mi.n \in Nat
        BY DEF AnyInstr
      <4> QED BY <3>1, <4>1
    <3>4. NumberedTo(s, N)
      BY <3>1, <3>2, <3>3 DEF NumberedTo
    <3> QED BY <3>4 DEF s, N
  <2>3. \A b \in DOMAIN fn.code : b # 1 => NumberedTo(fn.code[b], fn.numArgs)
    BY <1>1 DEF NumberedTo
  <2> QED BY <1>1, <2>1, <2>2, <2>3
<1>4. CASE stage = "return"
  <2>1. Prepared(body, regs, fn, fn.numArgs, NoReg)
    BY <1>4 DEF MoveInv
  <2> QED BY <1>1, <1>2, <2>1, PreparedNumbers
<1>5. CASE stage = "sort"
  <2>1. PICK r : Prepared(body, regs, fn, NumStackArgs(fn), r)
    BY <1>5 DEF MoveInv
  <2> QED BY <1>1, <1>2, <2>1, PreparedNumbers
<1>6. CASE stage \in {"moved", "done"}
  <2>1. PICK r, A, P : Moved(body, regs, fn, r, A, P)
    BY <1>6 DEF MoveInv
  <2> DEFINE d == P \o Rest(fn, r)
             h == NumStackArgs(fn)
             I == AnyInstr(regs)
             N == fn.numArgs
  <2>2. /\ A \in Seq(I) /\ Len(A) = h /\ d \in Seq(I) /\ body[1] = A \o d
        /\ \A i \in DOMAIN d : d[i].op # "STACKARG"
        /\ \A b \in DOMAIN fn.code : b # 1 => StackArgsAt(body[b]) = {}
    BY ZenonT(60), <1>1, <2>1, MovedParts
  <2>3. \A i \in 1 .. h : A[i].n = h - i
    BY <2>1 DEF Moved, Sorted
  <2>4. N \in Nat /\ h \in Nat /\ h <= N + 1
    BY <1>1, <1>2
  <2> HIDE DEF d, h, I, N
  <2>5. NumberedTo(A \o d, N)
    <3> SUFFICES ASSUME NEW i \in StackArgsAt(A \o d)
                 PROVE  (A \o d)[i].n <= N
      BY DEF NumberedTo
    <3>0. i \in DOMAIN (A \o d) /\ (A \o d)[i].op = "STACKARG"
      BY DEF StackArgsAt
    <3>1. Len(d) \in Nat /\ Len(A \o d) = h + Len(d) /\ i \in 1 .. h + Len(d)
      <4>1. Len(d) \in Nat /\ Len(A \o d) = Len(A) + Len(d) /\ DOMAIN (A \o d) = 1 .. Len(A) + Len(d)
        <5>1. A \in Seq(I) /\ d \in Seq(I)
          BY <2>2
        <5> QED BY <5>1
      <4>2. Len(A) = h
        BY <2>2
      <4> QED BY <3>0, <4>1, <4>2
    <3>2. i \in 1 .. h \/ (i \in h + 1 .. h + Len(d) /\ i - h \in 1 .. Len(d))
      BY <2>4, <3>1
    <3>3. CASE i \in 1 .. h
      <4>1. (A \o d)[i] = A[i]
        BY <2>2, <3>3
      <4> QED BY <2>3, <2>4, <3>3, <4>1
    <3>4. CASE i \in h + 1 .. h + Len(d) /\ i - h \in 1 .. Len(d)
      <4>1. (A \o d)[i] = d[i - h] /\ i - h \in DOMAIN d
        BY <2>2, <2>4, <3>1, <3>4
      <4> QED BY <2>2, <3>0, <4>1
    <3> QED BY <3>2, <3>3, <3>4
  <2>6. \A b \in DOMAIN fn.code : NumberedTo(body[b], N)
    BY <2>2, <2>5 DEF NumberedTo
  <2> QED BY <1>1, <1>6, <2>6, MovedType DEF N
<1> QED BY <1>3, <1>4, <1>5, <1>6 DEF MoveInv

LEMMA SeqRange ==
  ASSUME NEW S, NEW u \in Seq(S)
  PROVE  ToSet(u) \subseteq S
<1>1. \A j \in DOMAIN u : u[j] \in S
  OBVIOUS
<1> QED BY <1>1 DEF ToSet

LEMMA ExecInit ==
  ASSUME Init
  PROVE  ExecInv
<1>1. /\ xblk = 0 /\ xpc = 1 /\ xidx = 1 /\ pstack = << >> /\ pmem = << >> /\ vals = << >>
      /\ operands = << >> /\ clock = 0
  BY DEF Init
<1>2. DOMAIN pmem = {} /\ DOMAIN vals = {} /\ pstack \in Seq(0 .. clock)
  BY <1>1
<1> QED BY <1>1, <1>2 DEF ExecInv, RunTypes, NotStarted

LEMMA ExecNext ==
  ASSUME PassInv, ExecInv, [Next]_vars
  PROVE  ExecInv'
<1>1. xblk # 0 => stage = "done"
  BY DEF ExecInv
<1>2. CASE ArgumentMove
  <2>1. MoveInv /\ MoveNext /\ UNCHANGED execVars
    BY <1>2 DEF PassInv, ArgumentMove
  <2> QED BY <1>1, <2>1, MoveStep, ExecSame
<1>3. CASE VisitInstr
  <2>1. stage = "moved" /\ UNCHANGED execVars
    BY <1>3 DEF VisitInstr
  <2> QED BY SMTT(60), <1>1, <2>1, ExecSame
<1>4. CASE BlockVisited
  <2>1. stage = "moved" /\ UNCHANGED execVars
    BY <1>4 DEF BlockVisited
  <2> QED BY <1>1, <2>1, ExecSame
<1>5. CASE Start
  BY <1>5, StartStep
<1>6. CASE Execute
  BY <1>6, ExecStep
<1>7. CASE Branch
  BY <1>7, BranchStep
<1>8. CASE UNCHANGED vars
  BY <1>8, ExecStutters
<1> QED BY <1>2, <1>3, <1>4, <1>5, <1>6, <1>7, <1>8 DEF Next

(* While the code written by EVMVRegToMem runs, every value that is not on *)
(* the stack for the instruction at hand is in the slot of its register.   *)
THEOREM RunInvariant == Spec => []ExecInv
<1>1. Init => ExecInv
  BY ExecInit
<1>2. PassInv /\ ExecInv /\ [Next]_vars => ExecInv'
  BY ExecNext
<1> QED BY <1>1, <1>2, PassInvariant, PTL DEF Spec

(* The code that EVMVRegToMem writes for a block takes off the stack       *)
(* whatever it puts there, for every function.                             *)
THEOREM BlocksLeaveNothing == Spec => []StackEmptyBetweenBlocks
<1>1. ExecInv => StackEmptyBetweenBlocks
  <2> SUFFICES ASSUME ExecInv, xblk # 0, ~Executing
               PROVE  pstack = << >>
    BY DEF StackEmptyBetweenBlocks
  <2>1. PICK pos : Running(pos) /\ (Doing(pos) \/ AtEnd(pos))
    BY DEF ExecInv
  <2>2. AtEnd(pos)
    BY <2>1, DoingExecutes DEF Executing
  <2>3. Len(pstack) = 0
    BY <2>1, <2>2, EndStops
  <2>4. pstack \in Seq(0 .. clock)
    BY DEF ExecInv, RunTypes
  <2> QED BY <2>3, <2>4
<1> QED BY <1>1, RunInvariant, PTL

(* Both passes only make instructions of registers they know, and the code *)
(* only moves values that were made.                                       *)
THEOREM TypeCorrect == Spec => []TypeOK
<1>1. PassInv /\ ExecInv => TypeOK
  <2> SUFFICES ASSUME PassInv, ExecInv
               PROVE  TypeOK
    OBVIOUS
  <2>1. /\ regs \in Nat /\ body \in [DOMAIN fn.code -> Seq(AnyInstr(regs))]
        /\ fn.numArgs \in Nat /\ \A b \in DOMAIN fn.code : NumberedTo(body[b], fn.numArgs)
    BY BodyTypes DEF PassInv
  <2>2. ASSUME NEW b \in DOMAIN body, NEW mi \in ToSet(body[b])
        PROVE  /\ mi.def \in 0 .. regs /\ ToSet(mi.uses) \subseteq 1 .. regs
               /\ IsStackArg(mi) => mi.n \in 0 .. fn.numArgs
    <3> DEFINE s == body[b]
               N == fn.numArgs
    <3>1. s \in Seq(AnyInstr(regs)) /\ NumberedTo(s, N) /\ N \in Nat
      BY <2>1
    <3> HIDE DEF s, N
    <3>2. PICK i \in DOMAIN s : mi = s[i]
      BY <2>2 DEF ToSet, s
    <3>3. mi \in AnyInstr(regs)
      BY <3>1, <3>2
    <3>4. mi.def \in 0 .. regs /\ mi.uses \in Seq(1 .. regs) /\ mi.n \in Nat
      BY <3>3 DEF AnyInstr
    <3>5. ToSet(mi.uses) \subseteq 1 .. regs
      BY <3>4, SeqRange
    <3>6. IsStackArg(mi) => mi.n <= N
      <4>1. IsStackArg(mi) => i \in StackArgsAt(s)
        BY <3>2 DEF IsStackArg, StackArgsAt
      <4>2. NumberedTo(s, N)
        BY <3>1
      <4> QED BY <3>2, <4>1, <4>2 DEF NumberedTo
    <3>7. IsStackArg(mi) => mi.n \in 0 .. N
      BY <3>1, <3>4, <3>6
    <3> QED BY <3>4, <3>5, <3>7 DEF N
  <2>3. DOMAIN reg2index \subseteq 1 .. regs
    BY DEF PassInv, AllocInv, SlotsOK
  <2>4. pstack \in Seq(0 .. clock)
    BY DEF ExecInv, RunTypes
  <2> QED BY <2>2, <2>3, <2>4 DEF TypeOK
<1> QED BY <1>1, PassInvariant, RunInvariant, PTL

-----------------------------------------------------------------------------
(* The function that the code implements.                                  *)
Reversed(mi) == [def |-> mi.def, uses |-> Reverse(mi.uses)]

ReversedCode ==
  [b \in DOMAIN Code |-> [i \in DOMAIN Code[b] |->
     [def |-> Code[b][i].def, uses |-> Reverse(Code[b][i].uses)]]]

ReversedFn == [args |-> Reverse(ArgRegs), succs |-> fn.succs, code |-> ReversedCode]

LEMMA RefInit ==
  ASSUME Init
  PROVE  RM!Init
<1>1. vals = << >> /\ xblk = 0 /\ xidx = 1 /\ operands = << >> /\ clock = 0
  BY DEF Init
<1>2. << >> = [r \in {} |-> 0]
  OBVIOUS
<1> QED BY <1>1, <1>2 DEF RM!Init

LEMMA RefLoad ==
  ASSUME xblk = 0, UNCHANGED execVars
  PROVE  [RM!Next]_(RM!rvars)
<1>1. UNCHANGED <<xblk, xidx, vals, operands, clock>> /\ xblk = 0
  BY DEF execVars
<1>2. CASE ReversedFn' = ReversedFn
  BY <1>1, <1>2 DEF RM!rvars, ReversedFn, ReversedCode
<1>3. CASE ReversedFn' # ReversedFn
  <2>1. RM!Load
    BY <1>1, <1>3 DEF RM!Load, ReversedFn, ReversedCode
  <2> QED BY <2>1 DEF RM!Next
<1> QED BY <1>2, <1>3

LEMMA SameFn ==
  ASSUME UNCHANGED moveVars
  PROVE  ReversedFn' = ReversedFn
<1>1. UNCHANGED <<fn, stage, body, regs, error>>
  BY DEF moveVars
<1>2. Code' = Code /\ ArgRegs' = ArgRegs
  BY <1>1 DEF Code, ArgRegs, Args, Entry
<1> QED BY <1>1, <1>2 DEF ReversedFn, ReversedCode

LEMMA RefStutter ==
  ASSUME UNCHANGED <<moveVars, xblk, xidx, vals, operands, clock>>
  PROVE  UNCHANGED RM!rvars
<1>1. ReversedFn' = ReversedFn
  BY SameFn
<1> QED BY <1>1 DEF RM!rvars, ReversedFn, ReversedCode

LEMMA RefStart ==
  ASSUME PassInv, ExecInv, Start
  PROVE  RM!Start
<1> DEFINE A == Args
           h == Len(A)
           R == ReversedFn.args
<1>1. /\ stage = "done" /\ xblk = 0 /\ xblk' = 1 /\ clock' = h
      /\ UNCHANGED <<moveVars, xidx, operands>>
      /\ vals' = [r \in ToSet(ArgRegs) |-> 1 + (CHOOSE mi \in ToSet(Args) : mi.def = r).n]
  BY DEF Start
<1>2. /\ h \in Nat /\ \A i, j \in 1 .. h : A[i].def = A[j].def => i = j
      /\ DOMAIN vals' = { A[k].def : k \in 1 .. h }
      /\ \A k \in 1 .. h : vals'[A[k].def] = h - k + 1
  BY <1>1, ArgValues
<1>3. DOMAIN ArgRegs = 1 .. h /\ Len(ArgRegs) = h /\ \A k \in 1 .. h : ArgRegs[k] = A[k].def
  BY <1>2 DEF ArgRegs
<1>4. DOMAIN R = 1 .. h /\ Len(R) = h /\ \A k \in 1 .. h : R[k] = A[h - k + 1].def
  <2>1. R = [k \in 1 .. h |-> ArgRegs[h - k + 1]]
    <3>1. R = Reverse(ArgRegs)
      BY DEF ReversedFn
    <3> HIDE DEF R
    <3> QED BY <1>2, <1>3, <3>1 DEF Reverse
  <2>2. \A k \in 1 .. h : h - k + 1 \in 1 .. h
    BY <1>2
  <2> HIDE DEF R, A, h
  <2> QED BY <1>2, <1>3, <2>1, <2>2
<1>5. vals' = [r \in DOMAIN vals' |-> vals'[r]]
  BY <1>1
<1> HIDE DEF A, h, R
<1>6. \A k \in 1 .. h : h - k + 1 \in 1 .. h /\ h - (h - k + 1) + 1 = k
  BY <1>2
<1>7. DOMAIN vals' = { R[i] : i \in DOMAIN R }
  <2>1. \A i \in 1 .. h : \E k \in 1 .. h : R[i] = A[k].def
    BY <1>4, <1>6
  <2>2. \A k \in 1 .. h : \E i \in 1 .. h : R[i] = A[k].def
    <3> TAKE k \in 1 .. h
    <3>1. R[h - k + 1] = A[k].def /\ h - k + 1 \in 1 .. h
      <4> DEFINE x == h - k + 1
      <4>1. x \in 1 .. h /\ h - x + 1 = k
        BY <1>6
      <4> HIDE DEF x
      <4>2. R[x] = A[k].def
        BY <1>4, <4>1
      <4> QED BY <4>1, <4>2 DEF x
    <3> QED BY <3>1
  <2>3. \A r : r \in { A[k].def : k \in 1 .. h } <=> r \in { R[i] : i \in 1 .. h }
    BY ZenonT(60), <2>1, <2>2
  <2> QED BY <1>2, <1>4, <2>3
<1>8. ASSUME NEW r \in DOMAIN vals'
      PROVE  vals'[r] = CHOOSE i \in DOMAIN R : R[i] = r
  <2>1. PICK k \in 1 .. h : r = A[k].def
    BY <1>2
  <2> DEFINE x == h - k + 1
  <2>2. x \in 1 .. h /\ h - x + 1 = k
    BY <1>6
  <2>3. vals'[r] = x
    BY <1>2, <2>1
  <2> HIDE DEF x
  <2>4. R[x] = r
    BY <1>4, <2>1, <2>2
  <2>5. \A i \in 1 .. h : R[i] = r => i = x
    <3> TAKE i \in 1 .. h
    <3> HAVE R[i] = r
    <3>1. A[h - i + 1].def = A[k].def /\ h - i + 1 \in 1 .. h
      BY <1>4, <1>6, <2>1
    <3>2. h - i + 1 = k
      BY <1>2, <3>1
    <3> QED BY <1>2, <2>2, <3>2
  <2>6. x \in DOMAIN R /\ R[x] = r /\ \A i \in DOMAIN R : R[i] = r => i = x
    BY <1>4, <2>2, <2>4, <2>5
  <2>7. (CHOOSE i \in DOMAIN R : R[i] = r) = x
    BY <2>6
  <2> QED BY <2>3, <2>7
<1>9. vals' = [r \in { R[i] : i \in DOMAIN R } |-> CHOOSE i \in DOMAIN R : R[i] = r]
  BY <1>5, <1>7, <1>8
<1>10. ReversedFn' = ReversedFn
  BY <1>1, SameFn
<1>11. clock' = Len(R)
  BY <1>1, <1>4
<1> QED BY <1>1, <1>9, <1>10, <1>11, Zenon DEF RM!Start, ReversedFn, ReversedCode, R

(* Where the run is, the reversed function has the same number of          *)
(* instructions, each with its operands reversed.                          *)
LEMMA ReversedAt ==
  ASSUME PassInv, ExecInv, xblk # 0
  PROVE  /\ xblk \in DOMAIN Code /\ Code[xblk] \in Seq(AnyInstr(regs))
         /\ Len(ReversedFn.code[xblk]) = Len(Code[xblk])
         /\ DOMAIN ReversedFn.code[xblk] = 1 .. Len(Code[xblk])
         /\ \A i \in 1 .. Len(Code[xblk]) : ReversedFn.code[xblk][i] = Reversed(Code[xblk][i])
<1>1. xblk \in DOMAIN fn.code /\ stage = "done" /\ MoveInv
  BY DEF ExecInv, Running, PassInv
<1>2. Code[xblk] \in Seq(AnyInstr(regs))
  BY <1>1, BlockShape
<1>3. xblk \in DOMAIN Code
  BY <1>1, MovedType DEF Code
<1> DEFINE c == Code[xblk]
           d == [i \in DOMAIN c |-> Reversed(c[i])]
<1>4. ReversedFn.code[xblk] = d
  BY <1>3 DEF ReversedFn, ReversedCode, Reversed
<1>5. c \in Seq(AnyInstr(regs))
  BY <1>2
<1> HIDE DEF c
<1>6. DOMAIN c = 1 .. Len(c) /\ Len(c) \in Nat
  BY <1>5
<1>7. DOMAIN d = 1 .. Len(c) /\ Len(d) = Len(c) /\ \A i \in 1 .. Len(c) : d[i] = Reversed(c[i])
  BY <1>6
<1> HIDE DEF d
<1> QED BY <1>2, <1>3, <1>4, <1>7 DEF c

LEMMA RefExecute ==
  ASSUME PassInv, ExecInv, Execute, MachineStep
  PROVE  RM!Execute
<1> DEFINE F == ReversedFn
           mi == Code[xblk][xidx]
           l == Len(mi.uses)
           in == F.code[xblk][xidx]
<1>1. SameCode /\ xblk # 0 /\ UNCHANGED <<moveVars, xblk>>
  BY DEF Execute, Executing, SameCode
<1>2. /\ xidx \in 1 .. Len(Code[xblk]) /\ Received(mi, l)
  BY DEF MachineStep
<1>3. /\ Code[xblk] \in Seq(AnyInstr(regs)) /\ regs \in Nat
      /\ xidx \in DOMAIN F.code[xblk] /\ in = Reversed(mi)
  <2>1. regs \in Nat
    BY <1>1 DEF ExecInv, Running
  <2> QED BY <1>1, <1>2, <2>1, ReversedAt
<1>4. F' = F
  BY <1>1, SameFn
<1>5. mi \in AnyInstr(regs)
  BY <1>2, <1>3
<1> HIDE DEF mi, in, F
<1>6. in.def = mi.def /\ in.uses = Reverse(mi.uses)
  BY <1>3 DEF Reversed
<1>7. mi.uses \in Seq(1 .. regs) /\ l \in Nat /\ DOMAIN mi.uses = 1 .. l
  <2>1. mi.uses \in Seq(1 .. regs)
    BY <1>5 DEF AnyInstr
  <2> QED BY <2>1
<1>8. in.uses = [x \in 1 .. l |-> mi.uses[l - x + 1]]
  BY <1>6, <1>7 DEF Reverse
<1>9. DOMAIN in.uses = 1 .. l /\ \A x \in 1 .. l : in.uses[x] = mi.uses[l - x + 1]
  BY <1>8
<1> HIDE DEF l
<1>10. /\ xidx' = xidx + 1 /\ clock' = clock + 1
       /\ vals' = IF mi.def = NoReg THEN vals ELSE With(vals, mi.def, clock + 1)
       /\ DOMAIN operands' = 1 .. l
       /\ \A x \in 1 .. l : mi.uses[l - x + 1] \in DOMAIN vals =>
            operands'[x] = vals[mi.uses[l - x + 1]]
  BY <1>2 DEF Received
<1>11. /\ DOMAIN operands' = DOMAIN in.uses
       /\ \A x \in DOMAIN in.uses : in.uses[x] \in DOMAIN vals => operands'[x] = vals[in.uses[x]]
  BY <1>9, <1>10
<1>12. vals' = IF in.def = NoReg THEN vals
               ELSE [r \in DOMAIN vals \cup {in.def} |-> IF r = in.def THEN clock + 1 ELSE vals[r]]
  BY <1>6, <1>10 DEF With
<1> QED BY <1>1, <1>3, <1>4, <1>10, <1>11, <1>12, Zenon
        DEF RM!Execute, F, in, ReversedFn, ReversedCode

LEMMA RefBranch ==
  ASSUME PassInv, ExecInv, Branch
  PROVE  RM!Branch
<1>1. /\ xblk # 0 /\ xblk' \in ToSet(fn.succs[xblk]) /\ xidx' = 1
      /\ UNCHANGED <<moveVars, vals, operands, clock>>
  BY DEF Branch
<1>2. xidx = Len(Code[xblk]) + 1
  BY BranchStep
<1>3. Len(ReversedFn.code[xblk]) = Len(Code[xblk]) /\ Len(Code[xblk]) \in Nat
  BY <1>1, ReversedAt
<1>4. xidx > Len(ReversedFn.code[xblk])
  BY <1>2, <1>3
<1>5. \E i \in DOMAIN ReversedFn.succs[xblk] : xblk' = ReversedFn.succs[xblk][i]
  BY <1>1 DEF ReversedFn, ToSet
<1>6. ReversedFn' = ReversedFn
  BY <1>1, SameFn
<1> QED BY <1>1, <1>4, <1>5, <1>6, Zenon DEF RM!Branch, ReversedFn, ReversedCode

LEMMA RefNext ==
  ASSUME PassInv, ExecInv, [Next]_vars
  PROVE  [RM!Next]_(RM!rvars)
<1>1. xblk # 0 => stage = "done"
  BY DEF ExecInv
<1>2. CASE ArgumentMove
  <2>1. MoveInv /\ MoveNext /\ UNCHANGED execVars
    BY <1>2 DEF PassInv, ArgumentMove
  <2>2. xblk = 0
    BY <1>1, <2>1, MoveStep
  <2> QED BY <2>1, <2>2, RefLoad
<1>3. CASE VisitInstr
  <2>1. stage = "moved" /\ UNCHANGED execVars
    BY <1>3, Zenon DEF VisitInstr
  <2> QED BY <1>1, <2>1, RefLoad
<1>4. CASE BlockVisited
  <2>1. stage = "moved" /\ UNCHANGED execVars
    BY <1>4 DEF BlockVisited
  <2> QED BY <1>1, <2>1, RefLoad
<1>5. CASE Start
  <2>1. RM!Start
    BY <1>5, RefStart
  <2> QED BY <2>1 DEF RM!Next
<1>6. CASE Execute
  <2>1. CASE MachineStep
    <3>1. RM!Execute
      BY <1>6, <2>1, RefExecute
    <3> QED BY <3>1 DEF RM!Next
  <2>2. CASE UNCHANGED <<xidx, vals, operands, clock>>
    <3>1. UNCHANGED <<moveVars, xblk>>
      BY <1>6 DEF Execute
    <3>2. UNCHANGED RM!rvars
      BY <2>2, <3>1, RefStutter
    <3> QED BY <3>2
  <2> QED BY <1>6, <2>1, <2>2, ExecStep
<1>7. CASE Branch
  <2>1. RM!Branch
    BY <1>7, RefBranch
  <2> QED BY <2>1 DEF RM!Next
<1>8. CASE UNCHANGED vars
  <2>1. UNCHANGED <<moveVars, xblk, xidx, vals, operands, clock>>
    BY <1>8 DEF vars, execVars
  <2>2. UNCHANGED RM!rvars
    BY <2>1, RefStutter
  <2> QED BY <2>2
<1> QED BY <1>2, <1>3, <1>4, <1>5, <1>6, <1>7, <1>8 DEF Next

(* The code that EVMArgumentMove and EVMVRegToMem make of a function       *)
(* computes what the function does, on every path and in loops, for every  *)
(* function - with every list of operands reversed.                        *)
THEOREM CodeImplementsReversed == Spec => ImplementsReversed
<1>1. Init => RM!Init
  BY RefInit
<1>2. PassInv /\ ExecInv /\ [Next]_vars => [RM!Next]_(RM!rvars)
  BY RefNext
<1> QED BY <1>1, <1>2, PassInvariant, RunInvariant, PTL DEF Spec, ImplementsReversed, RM!Spec
===============================================================================
