-------------------------- MODULE CodeLayoutProofs --------------------------
(***************************************************************************)
(* Where the bytes of a program are, whatever the program.                 *)
(*                                                                         *)
(* The passes replace one instruction after the other, so the code of a    *)
(* source instruction p is Final(chosen, p), a list of items known from p  *)
(* alone; Laid and FlattenLaid say how FlattenSeq puts the lists together. *)
(*                                                                         *)
(* The tape is the sequence of all items written so far: for each its      *)
(* source position p, its index q in the code of p and its offset at.      *)
(* Tape(T) holds in every state of the compiler for some T: the items      *)
(* follow each other without gaps (Layout), their bytes are in contents    *)
(* (BytesOK), the two bytes of a symbol wait for a fixup or hold the       *)
(* address of the symbol, labels and return addresses are where the        *)
(* program has blocks and calls.  Loading(T): the machine, which knows     *)
(* only bytes, takes exactly the JUMPDEST items for jump destinations.     *)
(***************************************************************************)
EXTENDS CodeExec, SequenceTheorems, FiniteSetTheorems, WellFoundedInduction, TLAPS

(* A set of natural numbers has a least element.                           *)
LEMMA LeastNatural ==
  ASSUME NEW T \in SUBSET Nat, T # {}
  PROVE  \E n \in T : \A m \in T : n <= m
<1> DEFINE R == OpToRel(<, Nat)
<1>1. \E n \in T : \A m \in T : ~ (<<m, n>> \in R)
  BY NatLessThanWellFounded, WFMin
<1>2. \A n, m \in Nat : ~ (<<m, n>> \in R) => n <= m
  BY DEF OpToRel
<1> HIDE DEF R
<1> QED BY <1>1, <1>2

(* A property of numbers is the set of those that have it.                 *)
LEMMA SetInduction ==
  ASSUME NEW n \in Nat, NEW T \in SUBSET Nat, 0 \in T,
         \A k \in 1 .. n : k - 1 \in T => k \in T
  PROVE  \A k \in 0 .. n : k \in T
<1> SUFFICES ASSUME NEW j \in 0 .. n, j \notin T PROVE FALSE
  OBVIOUS
<1> DEFINE B == { k \in 0 .. n : k \notin T }
<1>1. B \in SUBSET Nat /\ B # {}
  OBVIOUS
<1>2. PICK m \in B : \A k \in B : m <= k
  BY <1>1, LeastNatural
<1>3. m # 0 /\ m - 1 \in 0 .. n /\ m \in 1 .. n
  BY <1>2
<1>4. m - 1 \in T
  BY <1>2, <1>3
<1> QED BY <1>2, <1>3, <1>4

(* The elements of a sequence.                                             *)
LEMMA Elements ==
  ASSUME NEW S, NEW s \in Seq(S)
  PROVE  /\ Len(s) \in Nat /\ DOMAIN s = 1 .. Len(s)
         /\ \A i \in 1 .. Len(s) : s[i] \in S
  OBVIOUS
-----------------------------------------------------------------------------
Byte == 0 .. 255

(* Leading counts the bytes before the first one that differs.             *)
LEMMA LeadingIs ==
  ASSUME NEW s \in Seq(Byte), NEW x
  PROVE  /\ Leading(s, x) \in 0 .. Len(s)
         /\ \A j \in 1 .. Leading(s, x) : s[j] = x
         /\ Leading(s, x) < Len(s) => s[Leading(s, x) + 1] # x
<1> DEFINE D == { i \in DOMAIN s : s[i] # x }
           C == { i \in DOMAIN s : \A j \in 1 .. i : s[j] = x }
<1>1. Len(s) \in Nat /\ DOMAIN s = 1 .. Len(s)
  OBVIOUS
<1>2. \E z \in 0 .. Len(s) : C = 1 .. z /\ (z < Len(s) => s[z + 1] # x)
  <2>1. CASE \A i \in 1 .. Len(s) : s[i] = x
    <3>1. \A i \in 1 .. Len(s) : i \in C
      BY <1>1, <2>1
    <3>2. \A i \in C : i \in 1 .. Len(s)
      BY <1>1
    <3> HIDE DEF C
    <3>3. C = 1 .. Len(s)
      BY <3>1, <3>2
    <3> WITNESS Len(s) \in 0 .. Len(s)
    <3> QED BY <1>1, <3>3
  <2>2. CASE ~ \A i \in 1 .. Len(s) : s[i] = x
    <3>1. D \in SUBSET Nat /\ D # {}
      BY <1>1, <2>2
    <3>2. \A i : i \in D <=> i \in 1 .. Len(s) /\ s[i] # x
      BY <1>1
    <3> HIDE DEF D
    <3>3. PICK m \in D : \A i \in D : m <= i
      BY <3>1, LeastNatural
    <3>4. m \in 1 .. Len(s) /\ s[m] # x /\ \A i \in 1 .. m - 1 : s[i] = x
      BY <1>1, <3>2, <3>3
    <3>5. C = 1 .. m - 1
      BY <1>1, <3>4
    <3> QED BY <1>1, <3>4, <3>5
  <2> QED BY <2>1, <2>2
<1>3. PICK z \in 0 .. Len(s) : C = 1 .. z /\ (z < Len(s) => s[z + 1] # x)
  BY <1>2
<1>4. Cardinality(1 .. z) = z
  BY <1>1, FS_Interval
<1>5. Leading(s, x) = z
  BY <1>3, <1>4 DEF Leading
<1>6. \A j \in 1 .. z : s[j] = x
  <2> SUFFICES ASSUME NEW j \in 1 .. z PROVE s[j] = x
    OBVIOUS
  <2>1. j \in C
    BY <1>3
  <2> QED BY <1>1, <2>1
<1> QED BY <1>3, <1>5, <1>6

(* The bytes of a number without leading zeros.                            *)
LEMMA WordIs ==
  ASSUME NEW s \in Seq(Byte), NEW z \in 0 .. Len(s),
         \A j \in 1 .. z : s[j] = 0, z < Len(s) => s[z + 1] # 0
  PROVE  Word(s) = SubSeq(s, z + 1, Len(s)) /\ Word(s) \in Seq(Byte)
<1>1. Leading(s, 0) \in 0 .. Len(s) /\ Len(s) \in Nat
  BY LeadingIs
<1>2. Leading(s, 0) = z
  BY <1>1, LeadingIs
<1>3. Len(s) - (Len(s) - z) + 1 = z + 1
  BY <1>1
<1>4. Word(s) = SubSeq(s, z + 1, Len(s))
  BY <1>1, <1>2, <1>3 DEF Word, LastBytes
<1>5. SubSeq(s, z + 1, Len(s)) \in Seq(Byte)
  BY <1>1, SubSeqProperties
<1> QED BY <1>4, <1>5

LEMMA WordType == ASSUME NEW s \in Seq(Byte) PROVE Word(s) \in Seq(Byte)
BY LeadingIs, WordIs

(* Zeros in front do not count.                                            *)
LEMMA WordSuffix ==
  ASSUME NEW s \in Seq(Byte), NEW k \in 0 .. Len(s), \A j \in 1 .. k : s[j] = 0
  PROVE  Word(SubSeq(s, k + 1, Len(s))) = Word(s)
<1> DEFINE t == SubSeq(s, k + 1, Len(s))
           z == Leading(s, 0)
<1>1. /\ z \in 0 .. Len(s) /\ Len(s) \in Nat
      /\ \A j \in 1 .. z : s[j] = 0
      /\ z < Len(s) => s[z + 1] # 0
  BY LeadingIs
<1> HIDE DEF z
<1>2. k <= z
  BY <1>1
<1>3. t \in Seq(Byte) /\ Len(t) = Len(s) - k /\ \A j \in 1 .. Len(s) - k : t[j] = s[k + j]
  BY <1>1, SubSeqProperties
<1> HIDE DEF t
<1>4. Word(t) = SubSeq(t, (z - k) + 1, Len(t))
  <2>1. z - k \in 0 .. Len(t)
    BY <1>1, <1>2, <1>3
  <2>2. ASSUME NEW j \in 1 .. z - k PROVE t[j] = 0
    <3>1. j \in 1 .. Len(s) - k /\ k + j \in 1 .. z
      BY <1>1, <1>2
    <3> QED BY <1>1, <1>3, <3>1
  <2>3. ASSUME z - k < Len(t) PROVE t[(z - k) + 1] # 0
    <3>1. (z - k) + 1 \in 1 .. Len(s) - k /\ k + ((z - k) + 1) = z + 1 /\ z < Len(s)
      BY <1>1, <1>2, <1>3, <2>3
    <3> QED BY <1>1, <1>3, <3>1
  <2> HIDE DEF t
  <2> QED BY <1>3, <2>1, <2>2, <2>3, WordIs
<1>5. Word(s) = SubSeq(s, z + 1, Len(s))
  BY <1>1, WordIs
<1>6. SubSeq(t, (z - k) + 1, Len(t)) = SubSeq(s, z + 1, Len(s))
  BY <1>1, <1>2, <1>3
<1> QED BY <1>4, <1>5, <1>6 DEF t

-----------------------------------------------------------------------------
(* Small numbers.                                                          *)
LEMMA DigitsAre ==
  ASSUME NEW n \in Nat
  PROVE  /\ Digits(n) \in Seq(Byte) /\ Len(Digits(n)) = 3
         /\ Digits(n)[1] = ((n \div 256) \div 256) % 256
         /\ Digits(n)[2] = (n \div 256) % 256
         /\ Digits(n)[3] = n % 256
<1>1. ((n \div 256) \div 256) % 256 \in Byte /\ (n \div 256) % 256 \in Byte /\ n % 256 \in Byte
  BY SMT DEF Byte
<1> QED BY SMT, <1>1 DEF Digits

LEMMA ByteOf ==
  ASSUME NEW n \in Nat
  PROVE  /\ n \div 256 \in Nat /\ n % 256 \in Byte
         /\ n = 256 * (n \div 256) + (n % 256)
         /\ n < 256 => n % 256 = n
<1>1. n \div 256 \in Nat /\ n % 256 \in 0 .. 255
  BY SMT
<1>2. n - 256 * (n \div 256) = n % 256
  BY SMT
<1>3. n = 256 * (n \div 256) + (n % 256)
  BY <1>1, <1>2
<1>4. ASSUME n < 256 PROVE n % 256 = n
  BY SMT, <1>4
<1> QED BY <1>1, <1>3, <1>4 DEF Byte

(* A number below the limit is the value of its bytes.                     *)
LEMMA DigitsValue ==
  ASSUME NEW n \in Nat, n < Limit
  PROVE  256 * (256 * Digits(n)[1] + Digits(n)[2]) + Digits(n)[3] = n
<1> DEFINE q == n \div 256
           h == q \div 256
<1>1. q \in Nat /\ n % 256 \in Nat /\ n = 256 * q + (n % 256)
  BY ByteOf DEF Byte
<1>2. q < 256 * 256
  BY SMT DEF Limit
<1>3. Digits(n)[1] = h % 256 /\ Digits(n)[2] = q % 256 /\ Digits(n)[3] = n % 256
  BY DigitsAre
<1> HIDE DEF q
<1>4. h \in Nat /\ q % 256 \in Nat /\ q = 256 * h + (q % 256)
  BY <1>1, ByteOf DEF Byte
<1>5. h < 256
  BY SMT, <1>1, <1>2
<1>6. h % 256 = h
  BY <1>4, <1>5, ByteOf
<1> HIDE DEF h
<1>7. 256 * (256 * h + (q % 256)) + (n % 256) = n
  BY <1>1, <1>4
<1>8. Digits(n)[1] = h /\ Digits(n)[2] = q % 256 /\ Digits(n)[3] = n % 256
  BY <1>3, <1>6
<1> HIDE DEF q
<1> QED BY <1>1, <1>4, <1>7, <1>8

LEMMA NumType == ASSUME NEW n \in Nat PROVE Num(n) \in Seq(Byte)
BY DigitsAre, WordType DEF Num

LEMMA NumberOfNum ==
  ASSUME NEW n \in Nat, n < Limit
  PROVE  NumberOf(Num(n)) = n
<1> DEFINE d == Digits(n)
           z == Leading(d, 0)
           w == SubSeq(d, z + 1, 3)
           s == <<0, 0, 0>> \o w
<1>1. /\ d \in Seq(Byte) /\ Len(d) = 3
      /\ 256 * (256 * d[1] + d[2]) + d[3] = n
  BY DigitsAre, DigitsValue
<1> HIDE DEF d
<1>2. \A i \in 1 .. 3 : d[i] \in Byte
  BY <1>1, ElementOfSeq
<1>3. /\ z \in 0 .. 3 /\ \A j \in 1 .. z : d[j] = 0
      /\ z < 3 => d[z + 1] # 0
  BY <1>1, LeadingIs
<1> HIDE DEF z
<1>4. Word(d) = w
  BY <1>1, <1>3, WordIs
<1>5. w \in Seq(Byte) /\ Len(w) = 3 - z /\ \A i \in 1 .. 3 - z : w[i] = d[z + i]
  <2>1. \A i \in z + 1 .. 3 : d[i] \in Byte
    BY <1>2, <1>3
  <2> QED BY <1>3, <2>1, SubSeqProperties
<1> HIDE DEF w
<1>6. <<0, 0, 0>> \in Seq(Byte) /\ Len(<<0, 0, 0>>) = 3
  BY DEF Byte
<1>7. /\ Len(s) = 6 - z
      /\ \A i \in 1 .. 6 - z : s[i] = IF i <= 3 THEN 0 ELSE w[i - 3]
  BY <1>3, <1>5, <1>6, ConcatProperties
<1> HIDE DEF s
<1>8. NumberOf(w) = 256 * (256 * s[(6 - z) - 2] + s[(6 - z) - 1]) + s[6 - z]
  <2>1. ~(Len(w) > 3)
    BY <1>3, <1>5
  <2> QED BY <1>7, <2>1 DEF NumberOf, s
<1>9. CASE z = 0
  <2>1. s[4] = d[1] /\ s[5] = d[2] /\ s[6] = d[3]
    BY <1>5, <1>7, <1>9
  <2> QED BY <1>1, <1>4, <1>8, <1>9, <2>1 DEF Num, d
<1>10. CASE z = 1
  <2>1. s[3] = 0 /\ s[4] = d[2] /\ s[5] = d[3] /\ d[1] = 0
    BY <1>3, <1>5, <1>7, <1>10
  <2> QED BY <1>1, <1>2, <1>4, <1>8, <1>10, <2>1 DEF Num, d, Byte
<1>11. CASE z = 2
  <2>1. s[2] = 0 /\ s[3] = 0 /\ s[4] = d[3] /\ d[1] = 0 /\ d[2] = 0
    BY <1>3, <1>5, <1>7, <1>11
  <2> QED BY <1>1, <1>2, <1>4, <1>8, <1>11, <2>1 DEF Num, d, Byte
<1>12. CASE z = 3
  <2>1. s[1] = 0 /\ s[2] = 0 /\ s[3] = 0 /\ d[1] = 0 /\ d[2] = 0 /\ d[3] = 0
    BY <1>3, <1>5, <1>7, <1>12
  <2> QED BY <1>1, <1>4, <1>8, <1>12, <2>1 DEF Num, d
<1> QED BY <1>3, <1>9, <1>10, <1>11, <1>12

-----------------------------------------------------------------------------
(* Push instructions: shrinking keeps the number.                          *)
LEMMA LastBytesAre ==
  ASSUME NEW s \in Seq(Byte), NEW n \in 0 .. Len(s)
  PROVE  /\ LastBytes(s, n) \in Seq(Byte) /\ Len(LastBytes(s, n)) = n
         /\ \A i \in 1 .. n : LastBytes(s, n)[i] = s[(Len(s) - n) + i]
<1>1. Len(s) \in Nat /\ \A i \in 1 .. Len(s) : s[i] \in Byte
  OBVIOUS
<1>2. \A i \in (Len(s) - n) + 1 .. Len(s) : s[i] \in Byte
  BY <1>1
<1> DEFINE m == (Len(s) - n) + 1
<1>3. m \in Int /\ Len(s) \in Int /\ (Len(s) - m) + 1 = n
  BY <1>1
<1>4. \A i \in 1 .. n : (m + i) - 1 = (Len(s) - n) + i
  BY <1>1
<1>5. LastBytes(s, n) = SubSeq(s, m, Len(s))
  BY DEF LastBytes
<1> HIDE DEF m
<1>6. /\ SubSeq(s, m, Len(s)) \in Seq(Byte)
      /\ Len(SubSeq(s, m, Len(s))) = IF m <= Len(s) THEN Len(s) - m + 1 ELSE 0
      /\ \A i \in 1 .. Len(s) - m + 1 : SubSeq(s, m, Len(s))[i] = s[m + i - 1]
  BY <1>2, <1>3, SubSeqProperties DEF m
<1>7. IF m <= Len(s) THEN Len(s) - m + 1 = n ELSE n = 0
  BY <1>1 DEF m
<1> QED BY <1>1, <1>3, <1>4, <1>5, <1>6, <1>7

LEMMA LastBytesWord ==
  ASSUME NEW s \in Seq(Byte), NEW n \in 0 .. Len(s), Len(s) - n <= Leading(s, 0)
  PROVE  Word(LastBytes(s, n)) = Word(s)
<1>1. Len(s) \in Nat /\ Leading(s, 0) \in 0 .. Len(s)
  BY LeadingIs
<1>2. \A j \in 1 .. Len(s) - n : s[j] = 0
  BY <1>1, LeadingIs
<1>3. Word(SubSeq(s, (Len(s) - n) + 1, Len(s))) = Word(s)
  BY <1>1, <1>2, WordSuffix
<1> QED BY <1>3 DEF LastBytes

LEMMA Below128 == ASSUME NEW x \in Byte PROVE x >= 128 <=> ~(x < 128)
  BY DEF Byte

(* The size chosen for a number of w bytes of which z are leading zeros.   *)
LEMMA ChosenSize ==
  ASSUME NEW w \in Nat \ {0}, NEW z \in 0 .. w
  PROVE  LET n == IF w - z = 0 THEN 1 ELSE w - z
         IN  n \in 1 .. w /\ w - n <= z /\ w - n >= 0
  OBVIOUS

LEMMA ConstantIs ==
  ASSUME NEW a \in Constants
  PROVE  \/ /\ a.kind = "imm" /\ a.bytes \in Seq(Byte) /\ Len(a.bytes) = 8
            /\ a.bytes[1] < 128
         \/ a.kind = "cimm" /\ a.bytes \in Seq(Byte) /\ Len(a.bytes) = 32
<1>1. CASE a \in [kind : {"imm"}, bytes : { s \in Bytes(8) : ~Negative(s) }]
  <2>1. a.kind = "imm" /\ a.bytes \in Bytes(8) /\ ~Negative(a.bytes)
    BY <1>1
  <2>2. a.bytes \in Seq(Byte) /\ Len(a.bytes) = 8
    BY <2>1 DEF Bytes, Byte
  <2>3. a.bytes[1] \in Byte
    BY <2>2
  <2>4. ~(a.bytes[1] >= 128)
    BY <2>1 DEF Negative
  <2>5. a.bytes[1] < 128
    BY <2>3, <2>4, Below128
  <2> QED BY <2>1, <2>2, <2>5
<1>2. CASE a \in [kind : {"cimm"}, bytes : Bytes(32)]
  BY <1>2 DEF Bytes, Byte
<1> QED BY <1>1, <1>2 DEF Constants

(* What the machine pushes when it meets the encoding of mi.               *)
Width(mi) == mi.op - PUSH1 + 1
PushData(mi) == LastBytes(mi.arg.bytes, Width(mi))

IsNumberPush(mi, v) ==
  /\ mi.op \in PUSH1 .. PUSH32 /\ mi.arg.kind # "symbol"
  /\ PushData(mi) \in Seq(Byte) /\ Len(PushData(mi)) = Width(mi)
  /\ Word(PushData(mi)) = v

LEMMA ImmPush ==
  ASSUME NEW s \in Seq(Byte), NEW n \in 1 .. 32, n <= Len(s), Len(s) \in {8, 32},
         Len(s) - n <= Leading(s, 0), NEW k \in {"imm", "cimm"}
  PROVE  IsNumberPush(MI(GetPushOpcode(n), [kind |-> k, bytes |-> s]), Word(s))
<1> DEFINE mi == MI(GetPushOpcode(n), [kind |-> k, bytes |-> s])
<1>1. mi.op = 95 + n /\ mi.arg.kind = k /\ mi.arg.bytes = s
  BY DEF MI, GetPushOpcode, PUSH1
<1> HIDE DEF mi
<1>2. Width(mi) = n /\ mi.op \in PUSH1 .. PUSH32
  BY <1>1 DEF Width, PUSH1, PUSH32
<1>3. PushData(mi) = LastBytes(s, n)
  BY <1>1, <1>2 DEF PushData
<1>4. n \in 0 .. Len(s)
  OBVIOUS
<1>5. LastBytes(s, n) \in Seq(Byte) /\ Len(LastBytes(s, n)) = n /\ Word(LastBytes(s, n)) = Word(s)
  BY <1>4, LastBytesAre, LastBytesWord
<1>6. k # "symbol"
  OBVIOUS
<1> QED BY <1>1, <1>2, <1>3, <1>5, <1>6 DEF IsNumberPush, mi

LEMMA ShrinkImmIs ==
  ASSUME NEW s \in Seq(Byte), Len(s) = 8, s[1] < 128
  PROVE  \E mi : ShrinkImm(s) = << mi >> /\ IsNumberPush(mi, Word(s))
<1> DEFINE z == Leading(s, 0)
           n == IF 8 - z = 0 THEN 1 ELSE 8 - z
           mi == MI(GetPushOpcode(n), [kind |-> "imm", bytes |-> s])
<1>1. z \in 0 .. 8
  BY LeadingIs
<1>2. s[1] \in Byte
  <2> HIDE DEF z, n, mi
  <2> QED BY ElementOfSeq
<1>3. ~Negative(s)
  BY <1>2, Below128 DEF Negative
<1>4. GetImmSize(s) = n
  BY <1>3 DEF GetImmSize
<1>5. ShrinkImm(s) = << mi >>
  BY <1>3, <1>4 DEF ShrinkImm
<1>6. n \in 1 .. 32 /\ n <= Len(s) /\ Len(s) - n <= Leading(s, 0)
  <2>1. n \in 1 .. 8 /\ 8 - n <= z
    BY <1>1, ChosenSize
  <2> HIDE DEF n
  <2> QED BY <2>1
<1> HIDE DEF n
<1>7. IsNumberPush(mi, Word(s))
  BY <1>6, ImmPush
<1> QED BY <1>5, <1>7

LEMMA ShrinkCImmIs ==
  ASSUME NEW c \in Seq(Byte), Len(c) = 32
  PROVE  \E mi : ShrinkCImm(c) = << mi >> /\ IsNumberPush(mi, Word(c))
<1> DEFINE z == Leading(c, 0)
           n == IF 32 - z = 0 THEN 1 ELSE 32 - z
           s == LastBytes(c, 8)
<1>1. /\ z \in 0 .. 32 /\ \A j \in 1 .. z : c[j] = 0
      /\ z < 32 => c[z + 1] # 0
  <2> HIDE DEF n, s
  <2>1. /\ z \in 0 .. Len(c) /\ \A j \in 1 .. z : c[j] = 0
        /\ z < Len(c) => c[z + 1] # 0
    BY LeadingIs
  <2> QED BY <2>1
<1>2. ActiveBytes(c) = n
  BY DEF ActiveBytes
<1>3. n \in 1 .. 32 /\ 32 - n <= z
  <2>1. z \in 0 .. 32
    BY <1>1
  <2> HIDE DEF z
  <2> QED BY <2>1, ChosenSize
<1>4. CASE n <= 8
  <2> DEFINE mi == MI(GetPushOpcode(n), [kind |-> "imm", bytes |-> s])
  <2>1. ShrinkCImm(c) = << mi >>
    BY <1>2, <1>4 DEF ShrinkCImm
  <2>2. s \in Seq(Byte) /\ Len(s) = 8 /\ \A i \in 1 .. 8 : s[i] = c[24 + i]
    <3>1. 8 \in 0 .. Len(c) /\ Len(c) - 8 = 24
      OBVIOUS
    <3>2. /\ LastBytes(c, 8) \in Seq(Byte) /\ Len(LastBytes(c, 8)) = 8
          /\ \A i \in 1 .. 8 : LastBytes(c, 8)[i] = c[(Len(c) - 8) + i]
      BY <3>1, LastBytesAre
    <3> QED BY <3>1, <3>2
  <2>3. Word(s) = Word(c)
    <3>1. 8 \in 0 .. Len(c) /\ Len(c) - 8 <= Leading(c, 0)
      BY <1>1, <1>3, <1>4, SMTT(30)
    <3> QED BY <3>1, LastBytesWord
  <2>4. 8 - n <= Leading(s, 0)
    <3> DEFINE l == Leading(s, 0)
    <3> HIDE DEF s, n, z
    <3>1. l \in 0 .. 8 /\ (l < 8 => s[l + 1] # 0)
      <4>1. l \in 0 .. Len(s) /\ (l < Len(s) => s[l + 1] # 0)
        BY <2>2, LeadingIs
      <4> QED BY <2>2, <4>1
    <3> HIDE DEF l
    <3>2. n \in 1 .. 8 /\ z \in 0 .. 32
      BY <1>1, <1>3, <1>4
    <3>3. ASSUME l < 8 - n PROVE FALSE
      <4>1. l < 8 /\ l + 1 \in 1 .. 8 /\ 24 + (l + 1) \in 1 .. z
        BY <1>3, <3>1, <3>2, <3>3
      <4>2. s[l + 1] = 0
        BY <1>1, <2>2, <4>1
      <4> QED BY <3>1, <4>1, <4>2
    <3> QED BY <3>1, <3>2, <3>3 DEF l
  <2> HIDE DEF n, s
  <2>5. IsNumberPush(mi, Word(s))
    BY <1>3, <1>4, <2>2, <2>4, ImmPush
  <2> QED BY <2>1, <2>3, <2>5
<1>5. CASE ~(n <= 8)
  <2> DEFINE mi == MI(PUSH32, [kind |-> "cimm", bytes |-> c])
  <2>1. ShrinkCImm(c) = << mi >>
    BY <1>2, <1>5 DEF ShrinkCImm
  <2>2. GetPushOpcode(32) = PUSH32
    BY DEF GetPushOpcode, PUSH1, PUSH32
  <2>3. Len(c) - 32 <= Leading(c, 0) /\ Len(c) \in {8, 32} /\ 32 <= Len(c) /\ 32 \in 1 .. 32
    <3>1. z \in 0 .. 32
      BY <1>1
    <3> HIDE DEF z
    <3>2. Len(c) - 32 <= z /\ Len(c) \in {8, 32} /\ 32 <= Len(c) /\ 32 \in 1 .. 32
      BY <3>1
    <3> QED BY <3>2 DEF z
  <2>4. IsNumberPush(MI(GetPushOpcode(32), [kind |-> "cimm", bytes |-> c]), Word(c))
    BY <2>3, ImmPush
  <2> QED BY <2>1, <2>2, <2>4
<1> QED BY <1>4, <1>5

LEMMA ShrinkConstant ==
  ASSUME NEW a \in Constants, NEW m, m.op = PUSH32, m.arg = a
  PROVE  \E mi : ShrinkPush(m) = << mi >> /\ IsNumberPush(mi, Word(a.bytes))
<1>1. CASE a.kind = "imm"
  <2>1. ShrinkPush(m) = ShrinkImm(a.bytes)
    BY <1>1 DEF ShrinkPush
  <2> QED BY <1>1, <2>1, ConstantIs, ShrinkImmIs
<1>2. CASE a.kind = "cimm"
  <2>1. ShrinkPush(m) = ShrinkCImm(a.bytes)
    BY <1>2 DEF ShrinkPush
  <2> QED BY <1>2, <2>1, ConstantIs, ShrinkCImmIs
<1> QED BY <1>1, <1>2, ConstantIs

(* The numbers the passes themselves push.                                 *)
LEMMA ImmIs ==
  ASSUME NEW n \in Nat
  PROVE  Imm(n) \in Constants /\ Word(Imm(n).bytes) = Num(n)
<1> DEFINE d == Digits(n)
           o == <<0, 0, 0, 0, 0>>
           s == o \o d
<1>1. d \in Seq(Byte) /\ Len(d) = 3
  BY DigitsAre
<1>2. o \in Seq(Byte) /\ Len(o) = 5 /\ \A i \in 1 .. 5 : o[i] = 0
  BY DEF Byte
<1> HIDE DEF o, d
<1>3. s \in Seq(Byte) /\ Len(s) = 8 /\ \A i \in 1 .. 8 : s[i] = IF i <= 5 THEN 0 ELSE d[i - 5]
  <2>1. /\ s \in Seq(Byte) /\ Len(s) = Len(o) + Len(d)
        /\ \A i \in 1 .. Len(o) + Len(d) : s[i] = IF i <= Len(o) THEN o[i] ELSE d[i - Len(o)]
    BY <1>1, <1>2, ConcatProperties
  <2> HIDE DEF s
  <2>2. Len(o) + Len(d) = 8
    BY <1>1, <1>2
  <2> QED BY <1>2, <2>1, <2>2
<1> HIDE DEF s
<1>4. Imm(n) = [kind |-> "imm", bytes |-> s]
  BY DEF Imm, s, o, d
<1>5. s[1] = 0
  BY <1>3
<1>6. s \in Bytes(8) /\ ~Negative(s)
  BY <1>3, <1>5 DEF Bytes, Byte, Negative
<1>7. Imm(n) \in Constants
  BY <1>4, <1>6 DEF Constants
<1>8. Word(SubSeq(s, 5 + 1, Len(s))) = Word(s)
  <2>1. 5 \in 0 .. Len(s) /\ \A j \in 1 .. 5 : s[j] = 0
    BY <1>3
  <2> QED BY <1>3, <2>1, WordSuffix
<1>9. SubSeq(s, 5 + 1, Len(s)) = d
  <2>1. \A i \in 6 .. 8 : s[i] \in Byte
    <3>1. s \in Seq(Byte) /\ Len(s) = 8
      BY <1>3
    <3>2. \A i \in 1 .. Len(s) : s[i] \in Byte
      BY <3>1, Elements
    <3> QED BY <3>1, <3>2
  <2>2. /\ SubSeq(s, 6, 8) \in Seq(Byte) /\ Len(SubSeq(s, 6, 8)) = 3
        /\ \A i \in 1 .. 3 : SubSeq(s, 6, 8)[i] = s[5 + i]
    BY <2>1, SubSeqProperties
  <2>3. \A i \in 1 .. 3 : s[5 + i] = d[i]
    BY <1>3
  <2> QED BY <1>1, <1>3, <2>2, <2>3, SeqEqual
<1>10. Imm(n).bytes = s
  BY <1>4
<1> QED BY <1>7, <1>8, <1>9, <1>10 DEF Num, d

(* Sequences, whatever their elements.                                     *)
IsSeq(s) == \E X : s \in Seq(X)

LEMMA SeqFacts ==
  ASSUME NEW s, IsSeq(s)
  PROVE  Len(s) \in Nat /\ DOMAIN s = 1 .. Len(s)
<1>1. PICK X : s \in Seq(X)
  BY DEF IsSeq
<1> QED BY <1>1

LEMMA SeqConcat ==
  ASSUME NEW s, NEW t, IsSeq(s), IsSeq(t)
  PROVE  /\ IsSeq(s \o t) /\ Len(s \o t) = Len(s) + Len(t)
         /\ \A i \in 1 .. Len(s) : (s \o t)[i] = s[i]
         /\ \A i \in 1 .. Len(t) : (s \o t)[Len(s) + i] = t[i]
<1>1. PICK X : s \in Seq(X)
  BY DEF IsSeq
<1>2. PICK Y : t \in Seq(Y)
  BY DEF IsSeq
<1>3. s \in Seq(X \cup Y) /\ t \in Seq(X \cup Y)
  BY <1>1, <1>2
<1>4. s \o t \in Seq(X \cup Y)
  BY <1>3
<1> QED BY <1>3, <1>4 DEF IsSeq

Joined(z, s, t) ==
  /\ IsSeq(z) /\ Len(z) = Len(s) + Len(t)
  /\ \A i \in 1 .. Len(s) : z[i] = s[i]
  /\ \A i \in 1 .. Len(t) : z[Len(s) + i] = t[i]

LEMMA SeqJoined ==
  ASSUME NEW s, NEW t, IsSeq(s), IsSeq(t)
  PROVE  Joined(s \o t, s, t)
  BY SeqConcat DEF Joined

LEMMA SeqFunction ==
  ASSUME NEW n \in Nat, NEW s, s = [i \in 1 .. n |-> s[i]]
  PROVE  IsSeq(s) /\ Len(s) = n /\ DOMAIN s = 1 .. n
<1> DEFINE X == { s[i] : i \in 1 .. n }
<1>1. \A i \in 1 .. n : s[i] \in X
  OBVIOUS
<1> HIDE DEF X
<1>2. s \in [1 .. n -> X]
  BY <1>1
<1>3. s \in Seq(X)
  BY <1>2
<1>4. Len(s) = n /\ DOMAIN s = 1 .. n
  BY <1>2
<1> QED BY <1>3, <1>4 DEF IsSeq

(* The item x of c is the J[x]-th of the I[x]-th part.                     *)
Chain(c, parts, I, J) ==
  /\ \A x \in 1 .. Len(c) :
       /\ I[x] \in 1 .. Len(parts) /\ J[x] \in 1 .. Len(parts[I[x]])
       /\ c[x] = parts[I[x]][J[x]]
       /\ x = 1 => I[x] = 1 /\ J[x] = 1
       /\ x = Len(c) => I[x] = Len(parts) /\ J[x] = Len(parts[I[x]])
  /\ \A x \in 1 .. Len(c) - 1 :
       IF J[x] < Len(parts[I[x]]) THEN I[x + 1] = I[x] /\ J[x + 1] = J[x] + 1
       ELSE I[x + 1] = I[x] + 1 /\ J[x + 1] = 1
  /\ \A x, y \in 1 .. Len(c) :
       x < y => I[x] < I[y] \/ (I[x] = I[y] /\ J[x] < J[y])
  /\ Len(c) = 0 <=> Len(parts) = 0

Parts(ps) == IsSeq(ps) /\ \A i \in 1 .. Len(ps) : IsSeq(ps[i]) /\ Len(ps[i]) > 0

Laid(c, parts) == IsSeq(c) /\ \E I, J : Chain(c, parts, I, J)

(* One more part.                                                          *)
LEMMA ChainMore ==
  ASSUME NEW qs, NEW ps, Parts(qs), Parts(ps), Len(qs) = Len(ps) + 1,
         \A i \in 1 .. Len(ps) : qs[i] = ps[i],
         NEW c, Laid(c, ps)
  PROVE  Laid(c \o qs[Len(qs)], qs)
<1> DEFINE m == Len(ps)
           t == qs[Len(qs)]
           d == c \o t
<1>1. PICK I, J : Chain(c, ps, I, J)
  BY DEF Laid
<1>2. m \in Nat /\ Len(qs) = m + 1 /\ IsSeq(t) /\ Len(t) \in Nat /\ Len(t) > 0
  BY SeqFacts DEF Parts
<1>3. IsSeq(c) /\ Len(c) \in Nat
  BY SeqFacts DEF Laid
<1>4. /\ IsSeq(d) /\ Len(d) = Len(c) + Len(t)
      /\ \A i \in 1 .. Len(c) : d[i] = c[i]
      /\ \A i \in 1 .. Len(t) : d[Len(c) + i] = t[i]
  BY <1>2, <1>3, SeqConcat
<1> DEFINE I2 == [x \in 1 .. Len(d) |-> IF x <= Len(c) THEN I[x] ELSE m + 1]
           J2 == [x \in 1 .. Len(d) |-> IF x <= Len(c) THEN J[x] ELSE x - Len(c)]
<1>5. \A x \in 1 .. Len(c) : x \in 1 .. Len(d) /\ I2[x] = I[x] /\ J2[x] = J[x]
  BY <1>2, <1>3, <1>4
<1>6. \A x \in 1 .. Len(d) : ~(x \in 1 .. Len(c)) => I2[x] = m + 1 /\ J2[x] = x - Len(c)
  BY <1>2, <1>3, <1>4
<1>7. \A i \in 1 .. m : qs[i] = ps[i] /\ Len(ps[i]) \in Nat /\ Len(ps[i]) > 0
  BY <1>2, SeqFacts DEF Parts
<1>8. qs[m + 1] = t
  BY <1>2
<1> HIDE DEF I2, J2, d, t
<1>10. \A x \in 1 .. Len(c) :
       /\ I[x] \in 1 .. m /\ J[x] \in 1 .. Len(ps[I[x]])
       /\ c[x] = ps[I[x]][J[x]]
       /\ x = 1 => I[x] = 1 /\ J[x] = 1
       /\ x = Len(c) => I[x] = m /\ J[x] = Len(ps[I[x]])
  BY <1>1 DEF Chain
<1>11. \A x \in 1 .. Len(c) - 1 :
       IF J[x] < Len(ps[I[x]]) THEN I[x + 1] = I[x] /\ J[x + 1] = J[x] + 1
       ELSE I[x + 1] = I[x] + 1 /\ J[x + 1] = 1
  BY <1>1 DEF Chain
<1>12. \A x, y \in 1 .. Len(c) : x < y => I[x] < I[y] \/ (I[x] = I[y] /\ J[x] < J[y])
  BY <1>1 DEF Chain
<1>13. Len(c) = 0 <=> m = 0
  BY <1>1 DEF Chain
<1> HIDE DEF m
<1>20. ASSUME NEW x \in 1 .. Len(d)
       PROVE  /\ I2[x] \in 1 .. m + 1 /\ J2[x] \in 1 .. Len(qs[I2[x]])
              /\ d[x] = qs[I2[x]][J2[x]]
              /\ x = 1 => I2[x] = 1 /\ J2[x] = 1
              /\ x = Len(d) => I2[x] = m + 1 /\ J2[x] = Len(qs[I2[x]])
  <2>1. CASE x \in 1 .. Len(c)
    <3>1. I2[x] = I[x] /\ J2[x] = J[x] /\ I[x] \in 1 .. m /\ qs[I[x]] = ps[I[x]] /\ d[x] = c[x]
      BY <1>4, <1>5, <1>7, <1>10, <2>1
    <3>2. x # Len(d)
      BY <1>2, <1>3, <1>4, <2>1
    <3> QED BY <1>2, <1>10, <2>1, <3>1, <3>2
  <2>2. CASE ~(x \in 1 .. Len(c))
    <3>1. I2[x] = m + 1 /\ J2[x] = x - Len(c) /\ qs[I2[x]] = t
      BY <1>6, <1>8, <2>2
    <3>2. x - Len(c) \in 1 .. Len(t) /\ Len(c) + (x - Len(c)) = x
      BY <1>2, <1>3, <1>4, <2>2
    <3>3. d[x] = t[x - Len(c)]
      BY <1>4, <3>2
    <3>4. x = 1 => Len(c) = 0
      BY <1>3, <2>2
    <3>5. x = Len(d) => x - Len(c) = Len(t)
      BY <1>2, <1>3, <1>4
    <3> QED BY <1>2, <1>3, <1>13, <3>1, <3>2, <3>3, <3>4, <3>5
  <2> QED BY <2>1, <2>2
<1>21. ASSUME NEW x \in 1 .. Len(d) - 1
       PROVE  IF J2[x] < Len(qs[I2[x]]) THEN I2[x + 1] = I2[x] /\ J2[x + 1] = J2[x] + 1
              ELSE I2[x + 1] = I2[x] + 1 /\ J2[x + 1] = 1
  <2>0. x \in 1 .. Len(d) /\ x + 1 \in 1 .. Len(d)
    BY <1>2, <1>3, <1>4
  <2>1. CASE x + 1 \in 1 .. Len(c)
    <3>1. x \in 1 .. Len(c) /\ x \in 1 .. Len(c) - 1
      BY <1>3, <2>0, <2>1
    <3>2. I2[x] = I[x] /\ J2[x] = J[x] /\ I2[x + 1] = I[x + 1] /\ J2[x + 1] = J[x + 1] /\ qs[I[x]] = ps[I[x]]
      BY <1>5, <1>7, <1>10, <2>1, <3>1
    <3> QED BY <1>11, <3>1, <3>2
  <2>2. CASE x = Len(c)
    <3>1. x \in 1 .. Len(c) /\ ~(x + 1 \in 1 .. Len(c))
      BY <1>3, <2>0, <2>2
    <3>2. I2[x] = m /\ J2[x] = Len(ps[m]) /\ m \in 1 .. m /\ qs[m] = ps[m] /\ Len(ps[m]) \in Nat
      BY <1>2, <1>5, <1>7, <1>10, <2>2, <3>1
    <3>3. I2[x + 1] = m + 1 /\ J2[x + 1] = (x + 1) - Len(c)
      BY <1>6, <2>0, <3>1
    <3> QED BY <1>3, <2>2, <3>2, <3>3
  <2>3. CASE ~(x \in 1 .. Len(c))
    <3>1. ~(x + 1 \in 1 .. Len(c))
      BY <1>3, <2>0, <2>3
    <3>2. I2[x] = m + 1 /\ J2[x] = x - Len(c) /\ I2[x + 1] = m + 1 /\ J2[x + 1] = (x + 1) - Len(c) /\ qs[I2[x]] = t
      BY <1>6, <1>8, <2>0, <2>3, <3>1
    <3>3. x - Len(c) < Len(t)
      BY <1>2, <1>3, <1>4
    <3> QED BY <1>3, <3>2, <3>3
  <2> QED BY <1>3, <2>0, <2>1, <2>2, <2>3
<1>22. ASSUME NEW x \in 1 .. Len(d), NEW y \in 1 .. Len(d), x < y
       PROVE  I2[x] < I2[y] \/ (I2[x] = I2[y] /\ J2[x] < J2[y])
  <2>1. CASE y \in 1 .. Len(c)
    <3>1. x \in 1 .. Len(c)
      BY <1>3, <1>22, <2>1
    <3> QED BY <1>5, <1>12, <1>22, <2>1, <3>1
  <2>2. CASE x \in 1 .. Len(c) /\ ~(y \in 1 .. Len(c))
    BY <1>2, <1>5, <1>6, <1>10, <2>2
  <2>3. CASE ~(x \in 1 .. Len(c)) /\ ~(y \in 1 .. Len(c))
    BY <1>3, <1>6, <1>22, <2>3
  <2> QED BY <2>1, <2>2, <2>3, <1>3, <1>22
<1>23. Len(d) # 0 /\ Len(qs) # 0
  BY <1>2, <1>3, <1>4
<1>24. Chain(d, qs, I2, J2)
  BY <1>2, <1>20, <1>21, <1>22, <1>23 DEF Chain
<1> QED BY <1>4, <1>24 DEF Laid, d, t

(* The function by which FlattenSeq computes.                              *)
Flattens(g, ps, k) ==
  g = [i \in 1 .. k |-> IF i = 1 THEN ps[i] ELSE g[i - 1] \o ps[i]]

LEMMA FlattensExists ==
  ASSUME NEW ps, NEW n \in Nat
  PROVE  \E g : Flattens(g, ps, n)
<1> DEFINE T == { k \in 0 .. n : \E g : Flattens(g, ps, k) }
<1>1. 0 \in T
  <2> DEFINE g == [i \in 1 .. 0 |-> 0]
  <2>1. Flattens(g, ps, 0)
    BY DEF Flattens
  <2> QED BY <2>1
<1>2. ASSUME NEW k \in 1 .. n, k - 1 \in T PROVE k \in T
  <2>1. PICK g : Flattens(g, ps, k - 1)
    BY <1>2
  <2> DEFINE h == [i \in 1 .. k |-> IF i <= k - 1 THEN g[i]
                                    ELSE IF i = 1 THEN ps[i] ELSE g[i - 1] \o ps[i]]
  <2>2. \A i \in 1 .. k - 1 : i \in 1 .. k /\ h[i] = g[i]
    OBVIOUS
  <2>3. \A i \in 1 .. k - 1 : g[i] = IF i = 1 THEN ps[i] ELSE g[i - 1] \o ps[i]
    BY <2>1 DEF Flattens
  <2>4. h[k] = IF k = 1 THEN ps[k] ELSE g[k - 1] \o ps[k]
    OBVIOUS
  <2>5. DOMAIN h = 1 .. k /\ h = [i \in 1 .. k |-> h[i]]
    OBVIOUS
  <2> HIDE DEF h
  <2>6. ASSUME NEW i \in 1 .. k
        PROVE  h[i] = IF i = 1 THEN ps[i] ELSE h[i - 1] \o ps[i]
    <3>1. i # 1 => i - 1 \in 1 .. k - 1
      OBVIOUS
    <3>2. i # 1 => h[i - 1] = g[i - 1]
      BY <2>2, <3>1
    <3>3. CASE i = k
      BY <2>4, <3>2, <3>3
    <3>4. CASE i # k
      <4>1. i \in 1 .. k - 1
        BY <3>4
      <4> QED BY <2>2, <2>3, <3>2, <4>1
    <3> QED BY <3>3, <3>4
  <2>7. Flattens(h, ps, k)
    BY <2>5, <2>6 DEF Flattens
  <2> QED BY <2>7
<1>3. T \in SUBSET Nat
  OBVIOUS
<1> HIDE DEF T
<1>4. \A k \in 0 .. n : k \in T
  BY <1>1, <1>2, <1>3, SetInduction
<1> QED BY <1>4 DEF T

LEMMA EmptyLaid == Laid(<< >>, << >>)
<1>1. IsSeq(<< >>)
  <2>1. << >> \in Seq({})
    OBVIOUS
  <2> QED BY <2>1 DEF IsSeq
<1>2. Chain(<< >>, << >>, << >>, << >>)
  BY DEF Chain
<1> QED BY <1>1, <1>2 DEF Laid

LEMMA FlattenLaid ==
  ASSUME NEW ps, Parts(ps)
  PROVE  Laid(FlattenSeq(ps), ps)
<1> DEFINE n == Len(ps)
<1>1. IsSeq(ps) /\ n \in Nat /\ DOMAIN ps = 1 .. n
  BY SeqFacts DEF Parts
<1>2. CASE n = 0
  <2>1. ps = << >>
    BY <1>1, <1>2 DEF IsSeq
  <2>2. FlattenSeq(ps) = << >>
    BY <1>2, <2>1 DEF FlattenSeq
  <2> QED BY <2>1, <2>2, EmptyLaid
<1>3. CASE n # 0
  <2> DEFINE g == CHOOSE h : Flattens(h, ps, n)
             pre(k) == [i \in 1 .. k |-> ps[i]]
             T == { k \in 0 .. n : k = 0 \/ Laid(g[k], pre(k)) }
  <2>1. FlattenSeq(ps) = g[n]
    BY <1>3 DEF FlattenSeq, Flattens
  <2>2. Flattens(g, ps, n)
    <3>1. \E h : Flattens(h, ps, n)
      BY <1>1, FlattensExists
    <3> QED BY <3>1
  <2> HIDE DEF g
  <2>3. \A i \in 1 .. n : g[i] = IF i = 1 THEN ps[i] ELSE g[i - 1] \o ps[i]
    BY <2>2 DEF Flattens
  <2>4. \A k \in 0 .. n : /\ IsSeq(pre(k)) /\ Len(pre(k)) = k
                          /\ \A i \in 1 .. k : pre(k)[i] = ps[i] /\ i \in 1 .. n
    <3> SUFFICES ASSUME NEW k \in 0 .. n
                 PROVE  /\ IsSeq(pre(k)) /\ Len(pre(k)) = k
                        /\ \A i \in 1 .. k : pre(k)[i] = ps[i] /\ i \in 1 .. n
      OBVIOUS
    <3>1. k \in Nat /\ pre(k) = [i \in 1 .. k |-> pre(k)[i]]
      BY <1>1
    <3>2. \A i \in 1 .. k : pre(k)[i] = ps[i] /\ i \in 1 .. n
      BY <1>1
    <3> HIDE DEF pre
    <3> QED BY <3>1, <3>2, SeqFunction
  <2>5. pre(n) = ps
    BY <1>1 DEF IsSeq
  <2>6. pre(0) = << >>
    OBVIOUS
  <2> HIDE DEF pre
  <2>7. \A k \in 0 .. n : Parts(pre(k))
    BY <2>4 DEF Parts
  <2>8. ASSUME NEW k \in 1 .. n, k - 1 \in T PROVE k \in T
    <3>1. k - 1 \in 0 .. n /\ k \in 0 .. n /\ k \in 1 .. k
      BY <1>1
    <3>2. Len(pre(k)) = Len(pre(k - 1)) + 1 /\ pre(k)[Len(pre(k))] = ps[k] /\ k \in 1 .. n
      BY <2>4, <3>1
    <3>3. \A i \in 1 .. Len(pre(k - 1)) : pre(k)[i] = pre(k - 1)[i]
      BY <2>4, <3>1
    <3>4. CASE k = 1
      <4>1. pre(k - 1) = << >> /\ Laid(<< >>, pre(k - 1))
        BY <2>6, <3>4, EmptyLaid
      <4>2. Laid(<< >> \o ps[k], pre(k))
        BY <2>7, <3>1, <3>2, <3>3, <4>1, ChainMore
      <4>3. << >> \o ps[k] = ps[k]
        BY <3>2 DEF Parts, IsSeq
      <4>4. g[k] = ps[k]
        BY <2>3, <3>2, <3>4
      <4> QED BY <3>1, <4>2, <4>3, <4>4
    <3>5. CASE k # 1
      <4>1. Laid(g[k - 1], pre(k - 1))
        BY <2>8, <3>5
      <4>2. Laid(g[k - 1] \o ps[k], pre(k))
        BY <2>7, <3>1, <3>2, <3>3, <4>1, ChainMore
      <4>3. g[k] = g[k - 1] \o ps[k]
        BY <2>3, <3>2, <3>5
      <4> QED BY <3>1, <4>2, <4>3
    <3> QED BY <3>4, <3>5
  <2>9. T \in SUBSET Nat /\ 0 \in T
    BY <1>1
  <2> HIDE DEF T
  <2>10. \A k \in 0 .. n : k \in T
    BY <1>1, <2>8, <2>9, SetInduction
  <2>11. n \in T
    BY <1>1, <2>10
  <2> QED BY <1>3, <2>1, <2>5, <2>11 DEF T
<1> QED BY <1>2, <1>3

LEMMA MoreThanOne ==
  ASSUME NEW k \in Nat, NEW x \in 1 .. k, NEW y, y \in 1 .. k \/ y = k, x < y
  PROVE  k # 1
  OBVIOUS

(* A pass that replaces each item by a part of its own: a part of one item *)
(* becomes what replaces the item, in longer parts every item is replaced  *)
(* by one.                                                                 *)
LEMMA ComposeLaid ==
  ASSUME NEW c, NEW ps, NEW I, NEW J, Parts(ps), IsSeq(c), Chain(c, ps, I, J),
         NEW ts, Parts(ts), Len(ts) = Len(c),
         NEW qs, Parts(qs), Len(qs) = Len(ps),
         \A n \in 1 .. Len(c) :
           \/ Len(ps[I[n]]) = 1 /\ qs[I[n]] = ts[n]
           \/ /\ Len(ps[I[n]]) # 1 /\ Len(ts[n]) = 1 /\ Len(qs[I[n]]) = Len(ps[I[n]])
              /\ qs[I[n]][J[n]] = ts[n][1],
         NEW d, Laid(d, ts)
  PROVE  Laid(d, qs)
<1>1. PICK U, V : Chain(d, ts, U, V)
  BY DEF Laid
<1>2. Len(c) \in Nat /\ Len(ps) \in Nat /\ IsSeq(d) /\ Len(d) \in Nat
  BY SeqFacts DEF Laid, Parts
<1> DEFINE I2 == [x \in 1 .. Len(d) |-> I[U[x]]]
           J2 == [x \in 1 .. Len(d) |-> IF Len(ps[I[U[x]]]) = 1 THEN V[x] ELSE J[U[x]]]
           A(n) == Len(ps[I[n]]) = 1 /\ qs[I[n]] = ts[n]
           B(n) == /\ Len(ps[I[n]]) # 1 /\ Len(ts[n]) = 1 /\ Len(qs[I[n]]) = Len(ps[I[n]])
                   /\ qs[I[n]][J[n]] = ts[n][1]
<1>3. \A n \in 1 .. Len(c) : A(n) \/ B(n)
  OBVIOUS
<1>4. \A x \in 1 .. Len(d) : /\ I2[x] = I[U[x]]
                             /\ A(U[x]) => J2[x] = V[x]
                             /\ B(U[x]) => J2[x] = J[U[x]]
  OBVIOUS
<1>5. \A n \in 1 .. Len(c) :
       /\ I[n] \in 1 .. Len(ps) /\ J[n] \in 1 .. Len(ps[I[n]]) /\ Len(ps[I[n]]) \in Nat
       /\ n = 1 => I[n] = 1 /\ J[n] = 1
       /\ n = Len(c) => I[n] = Len(ps) /\ J[n] = Len(ps[I[n]])
  BY SeqFacts DEF Chain, Parts
<1>6. \A n \in 1 .. Len(c) - 1 :
       IF J[n] < Len(ps[I[n]]) THEN I[n + 1] = I[n] /\ J[n + 1] = J[n] + 1
       ELSE I[n + 1] = I[n] + 1 /\ J[n + 1] = 1
  BY DEF Chain
<1>7. \A x, y \in 1 .. Len(c) : x < y => I[x] < I[y] \/ (I[x] = I[y] /\ J[x] < J[y])
  BY DEF Chain
<1>8. \A x \in 1 .. Len(d) :
       /\ U[x] \in 1 .. Len(c) /\ V[x] \in 1 .. Len(ts[U[x]]) /\ Len(ts[U[x]]) \in Nat
       /\ d[x] = ts[U[x]][V[x]]
       /\ x = 1 => U[x] = 1 /\ V[x] = 1
       /\ x = Len(d) => U[x] = Len(c) /\ V[x] = Len(ts[U[x]])
  BY <1>1, SeqFacts DEF Chain, Parts
<1>9. \A x \in 1 .. Len(d) - 1 :
       IF V[x] < Len(ts[U[x]]) THEN U[x + 1] = U[x] /\ V[x + 1] = V[x] + 1
       ELSE U[x + 1] = U[x] + 1 /\ V[x + 1] = 1
  BY <1>1 DEF Chain
<1>10. \A x, y \in 1 .. Len(d) : x < y => U[x] < U[y] \/ (U[x] = U[y] /\ V[x] < V[y])
  BY <1>1 DEF Chain
<1>11. Len(d) = 0 <=> Len(qs) = 0
  BY <1>1 DEF Chain
<1> HIDE DEF I2, J2
<1>20. ASSUME NEW x \in 1 .. Len(d)
       PROVE  /\ I2[x] \in 1 .. Len(qs) /\ J2[x] \in 1 .. Len(qs[I2[x]])
              /\ d[x] = qs[I2[x]][J2[x]]
              /\ x = 1 => I2[x] = 1 /\ J2[x] = 1
              /\ x = Len(d) => I2[x] = Len(qs) /\ J2[x] = Len(qs[I2[x]])
  <2> DEFINE n == U[x]
  <2>1. /\ n \in 1 .. Len(c) /\ V[x] \in 1 .. Len(ts[n]) /\ d[x] = ts[n][V[x]]
        /\ x = 1 => n = 1 /\ V[x] = 1
        /\ x = Len(d) => n = Len(c) /\ V[x] = Len(ts[n])
    BY <1>8
  <2>2. I2[x] = I[n]
    BY <1>4
  <2>3. CASE A(n)
    <3>1. J2[x] = V[x]
      BY <1>4, <2>3
    <3> HIDE DEF n
    <3>2. 1 \in 1 .. Len(c) => I[1] = 1
      BY <1>5
    <3> QED BY <1>5, <2>1, <2>2, <2>3, <3>1, <3>2
  <2>4. CASE B(n)
    <3>1. J2[x] = J[n]
      BY <1>4, <2>4
    <3> HIDE DEF n
    <3>2. V[x] = 1
      <4>1. Len(ts[n]) = 1
        BY <2>4
      <4> QED BY <2>1, <4>1
    <3> QED BY <1>5, <2>1, <2>2, <2>4, <3>1, <3>2
  <2> QED BY <1>3, <2>1, <2>3, <2>4
<1>21. ASSUME NEW x \in 1 .. Len(d) - 1
       PROVE  IF J2[x] < Len(qs[I2[x]]) THEN I2[x + 1] = I2[x] /\ J2[x + 1] = J2[x] + 1
              ELSE I2[x + 1] = I2[x] + 1 /\ J2[x + 1] = 1
  <2> DEFINE n == U[x]
             m == U[x + 1]
  <2>1. x \in 1 .. Len(d) /\ x + 1 \in 1 .. Len(d)
    BY <1>2
  <2>2. /\ n \in 1 .. Len(c) /\ V[x] \in 1 .. Len(ts[n]) /\ m \in 1 .. Len(c)
        /\ Len(ts[n]) \in Nat /\ V[x + 1] \in 1 .. Len(ts[m]) /\ Len(ts[m]) \in Nat
    BY <1>8, <2>1
  <2>3. IF V[x] < Len(ts[n]) THEN m = n /\ V[x + 1] = V[x] + 1
        ELSE m = n + 1 /\ V[x + 1] = 1
    BY <1>9
  <2>4. I2[x] = I[n] /\ I2[x + 1] = I[m]
    BY <1>4, <2>1
  <2>5. /\ A(n) => J2[x] = V[x]
        /\ B(n) => J2[x] = J[n]
        /\ A(m) => J2[x + 1] = V[x + 1]
        /\ B(m) => J2[x + 1] = J[m]
    BY <1>4, <2>1
  <2>6. /\ J[n] \in 1 .. Len(ps[I[n]]) /\ Len(ps[I[n]]) \in Nat
        /\ J[m] \in 1 .. Len(ps[I[m]]) /\ Len(ps[I[m]]) \in Nat
        /\ I[n] \in 1 .. Len(ps) /\ I[m] \in 1 .. Len(ps)
    BY <1>5, <2>2
  <2> HIDE DEF n, m
  <2>7. CASE V[x] < Len(ts[n])
    <3>1. A(n)
      <4>1. A(n) \/ B(n)
        BY <1>3, <2>2
      <4>2. Len(ts[n]) # 1
        BY <2>2, <2>7, MoreThanOne
      <4> QED BY <4>1, <4>2
    <3> QED BY <2>3, <2>4, <2>5, <2>7, <3>1
  <2>8. CASE ~(V[x] < Len(ts[n]))
    <3>1. m = n + 1 /\ V[x + 1] = 1 /\ V[x] = Len(ts[n]) /\ n \in 1 .. Len(c) - 1
      BY <1>2, <2>2, <2>3, <2>8
    <3>2. IF J[n] < Len(ps[I[n]]) THEN I[m] = I[n] /\ J[m] = J[n] + 1
          ELSE I[m] = I[n] + 1 /\ J[m] = 1
      BY <1>6, <3>1
    <3>3. J[m] = 1 => J2[x + 1] = 1
      <4>1. A(m) \/ B(m)
        BY <1>3, <2>2
      <4>2. (J2[x + 1] = V[x + 1]) \/ (J2[x + 1] = J[m])
        BY <2>5, <4>1
      <4> QED BY <3>1, <4>2
    <3>4. CASE A(n)
      <4>0. Len(ps[I[n]]) = 1 /\ qs[I[n]] = ts[n] /\ J2[x] = V[x]
        BY <2>5, <3>4
      <4>1. J[n] = Len(ps[I[n]]) /\ J2[x] = Len(qs[I[n]])
        BY <2>6, <3>1, <4>0
      <4>2. ~(J2[x] < Len(qs[I2[x]]))
        BY <2>2, <2>4, <3>4, <4>1
      <4> QED BY <2>4, <2>6, <3>2, <3>3, <4>1, <4>2
    <3>5. CASE B(n)
      <4>1. J2[x] = J[n] /\ Len(qs[I2[x]]) = Len(ps[I[n]])
        BY <2>4, <2>5, <3>5
      <4>2. CASE J[n] < Len(ps[I[n]])
        <5>1. I[m] = I[n] /\ J[m] = J[n] + 1
          BY <3>2, <4>2
        <5>2. B(m)
          BY <1>3, <2>2, <3>5, <5>1
        <5> QED BY <2>4, <2>5, <4>1, <4>2, <5>1, <5>2
      <4>3. CASE ~(J[n] < Len(ps[I[n]]))
        BY <2>4, <3>2, <3>3, <4>1, <4>3
      <4> QED BY <4>2, <4>3
    <3> QED BY <1>3, <2>2, <3>4, <3>5
  <2> QED BY <2>7, <2>8
<1>22. ASSUME NEW x \in 1 .. Len(d), NEW y \in 1 .. Len(d), x < y
       PROVE  I2[x] < I2[y] \/ (I2[x] = I2[y] /\ J2[x] < J2[y])
  <2> DEFINE n == U[x]
             m == U[y]
  <2>1. /\ n \in 1 .. Len(c) /\ V[x] \in 1 .. Len(ts[n]) /\ m \in 1 .. Len(c)
        /\ V[y] \in 1 .. Len(ts[m]) /\ I2[x] = I[n] /\ I2[y] = I[m]
    BY <1>4, <1>8
  <2>2. n < m \/ (n = m /\ V[x] < V[y])
    BY <1>10, <1>22
  <2>3. /\ A(n) => J2[x] = V[x]
        /\ B(n) => J2[x] = J[n]
        /\ A(m) => J2[y] = V[y]
        /\ B(m) => J2[y] = J[m]
    BY <1>4
  <2> HIDE DEF n, m
  <2>4. CASE n = m /\ V[x] < V[y]
    <3>1. A(n)
      <4>1. A(n) \/ B(n)
        BY <1>3, <2>1
      <4>2. Len(ts[n]) # 1
        <5>1. Len(ts[n]) \in Nat /\ V[x] \in 1 .. Len(ts[n]) /\ V[y] \in 1 .. Len(ts[n])
          BY <1>8, <2>1, <2>4 DEF n
        <5> QED BY <2>4, <5>1, MoreThanOne
      <4> QED BY <4>1, <4>2
    <3> QED BY <2>1, <2>3, <2>4, <3>1
  <2>5. CASE n < m
    <3>1. I[n] < I[m] \/ (I[n] = I[m] /\ J[n] < J[m])
      BY <1>7, <2>1, <2>5
    <3>2. CASE I[n] = I[m] /\ J[n] < J[m]
      <4>0. J[n] \in 1 .. Len(ps[I[n]]) /\ J[m] \in 1 .. Len(ps[I[m]]) /\ Len(ps[I[n]]) \in Nat
        BY <1>5, <2>1
      <4>1. Len(ps[I[n]]) # 1
        BY <3>2, <4>0, MoreThanOne
      <4>2. B(n) /\ B(m)
        BY <1>3, <2>1, <3>2, <4>1
      <4> QED BY <2>1, <2>3, <3>2, <4>2
    <3> QED BY <2>1, <3>1, <3>2
  <2> QED BY <2>2, <2>4, <2>5
<1>23. Chain(d, qs, I2, J2)
  BY <1>11, <1>20, <1>21, <1>22 DEF Chain
<1> QED BY <1>2, <1>23 DEF Laid

(* The parts of a block: what has become of each source instruction.       *)
PartsOf(f, b, m, E) == [i \in 1 .. m |-> Paired(<<f, b, i>>, E[i])]

LEMMA PairedIs ==
  ASSUME NEW from, NEW mis, IsSeq(mis)
  PROVE  /\ IsSeq(Paired(from, mis)) /\ Len(Paired(from, mis)) = Len(mis)
         /\ \A k \in 1 .. Len(mis) : Paired(from, mis)[k] = [from |-> from, mi |-> mis[k]]
<1>1. Len(mis) \in Nat /\ DOMAIN mis = 1 .. Len(mis)
  BY SeqFacts
<1>2. Paired(from, mis) = [k \in 1 .. Len(mis) |-> [from |-> from, mi |-> mis[k]]]
  BY <1>1 DEF Paired
<1>3. \A k \in 1 .. Len(mis) : Paired(from, mis)[k] = [from |-> from, mi |-> mis[k]]
  BY <1>2
<1>4. Paired(from, mis) = [k \in 1 .. Len(mis) |-> Paired(from, mis)[k]]
  BY <1>2
<1> QED BY <1>1, <1>3, <1>4, SeqFunction

ArePartsOf(ps, f, b, m, E) ==
  /\ Parts(ps) /\ Len(ps) = m
  /\ \A i \in 1 .. m :
       /\ ps[i] = Paired(<<f, b, i>>, E[i]) /\ Len(ps[i]) = Len(E[i])
       /\ \A k \in 1 .. Len(E[i]) : ps[i][k] = [from |-> <<f, b, i>>, mi |-> E[i][k]]

LEMMA PartsOfIs ==
  ASSUME NEW f, NEW b, NEW m \in Nat, NEW E,
         \A i \in 1 .. m : IsSeq(E[i]) /\ Len(E[i]) > 0
  PROVE  ArePartsOf(PartsOf(f, b, m, E), f, b, m, E)
<1> DEFINE ps == PartsOf(f, b, m, E)
<1>1. ps = [i \in 1 .. m |-> ps[i]] /\ \A i \in 1 .. m : ps[i] = Paired(<<f, b, i>>, E[i])
  BY DEF PartsOf
<1> HIDE DEF ps
<1>2. IsSeq(ps) /\ Len(ps) = m
  BY <1>1, SeqFunction
<1>3. \A i \in 1 .. m : /\ IsSeq(ps[i]) /\ Len(ps[i]) = Len(E[i])
                        /\ \A k \in 1 .. Len(E[i]) : ps[i][k] = [from |-> <<f, b, i>>, mi |-> E[i][k]]
  <2> SUFFICES ASSUME NEW i \in 1 .. m
               PROVE  /\ IsSeq(ps[i]) /\ Len(ps[i]) = Len(E[i])
                      /\ \A k \in 1 .. Len(E[i]) : ps[i][k] = [from |-> <<f, b, i>>, mi |-> E[i][k]]
    OBVIOUS
  <2>1. ps[i] = Paired(<<f, b, i>>, E[i]) /\ IsSeq(E[i])
    BY <1>1
  <2> QED BY <2>1, PairedIs
<1>4. Parts(ps)
  BY <1>2, <1>3 DEF Parts
<1> QED BY <1>1, <1>2, <1>3, <1>4 DEF ps, ArePartsOf

(* G comes from E when every item mi of E is replaced by X.                *)
Replaced(m, E, X, G) ==
  \A i \in 1 .. m :
    /\ IsSeq(E[i]) /\ Len(E[i]) > 0
    /\ \A k \in 1 .. Len(E[i]) : IsSeq(X[i][k]) /\ Len(X[i][k]) > 0
    /\ IF Len(E[i]) = 1 THEN G[i] = X[i][1]
       ELSE /\ \A k \in 1 .. Len(E[i]) : Len(X[i][k]) = 1
            /\ G[i] = [k \in 1 .. Len(E[i]) |-> X[i][k][1]]

LEMMA ReplacedParts ==
  ASSUME NEW m, NEW E, NEW X, NEW G, Replaced(m, E, X, G)
  PROVE  \A i \in 1 .. m : IsSeq(G[i]) /\ Len(G[i]) > 0
<1> SUFFICES ASSUME NEW i \in 1 .. m PROVE IsSeq(G[i]) /\ Len(G[i]) > 0
  OBVIOUS
<1>1. IsSeq(E[i]) /\ Len(E[i]) > 0 /\ Len(E[i]) \in Nat
  BY SeqFacts DEF Replaced
<1>2. CASE Len(E[i]) = 1
  <2>1. G[i] = X[i][1] /\ IsSeq(X[i][1]) /\ Len(X[i][1]) > 0
    <3>1. 1 \in 1 .. Len(E[i])
      BY <1>2
    <3> QED BY <1>2, <3>1 DEF Replaced
  <2> QED BY <2>1
<1>3. CASE Len(E[i]) # 1
  <2>1. G[i] = [k \in 1 .. Len(E[i]) |-> X[i][k][1]]
    BY <1>3 DEF Replaced
  <2>2. G[i] = [k \in 1 .. Len(E[i]) |-> G[i][k]]
    BY <2>1
  <2> QED BY <1>1, <2>2, SeqFunction
<1> QED BY <1>2, <1>3

LEMMA PassLaid ==
  ASSUME NEW f, NEW b, NEW m \in Nat, NEW E, NEW X, NEW G, Replaced(m, E, X, G),
         NEW c, Laid(c, PartsOf(f, b, m, E)),
         NEW ts, ts = [n \in DOMAIN c |-> ts[n]],
         \A n \in DOMAIN c : \A i \in 1 .. m : \A k \in 1 .. Len(E[i]) :
           c[n] = [from |-> <<f, b, i>>, mi |-> E[i][k]]
             => ts[n] = Paired(<<f, b, i>>, X[i][k])
  PROVE  Laid(FlattenSeq(ts), PartsOf(f, b, m, G))
<1> DEFINE ps == PartsOf(f, b, m, E)
           qs == PartsOf(f, b, m, G)
<1>0. \A i \in 1 .. m : IsSeq(E[i]) /\ Len(E[i]) > 0
  BY DEF Replaced
<1>1. \A i \in 1 .. m : Len(E[i]) \in Nat
  BY <1>0, SeqFacts
<1>2. \A i \in 1 .. m : IsSeq(G[i]) /\ Len(G[i]) > 0
  BY ReplacedParts
<1>3. /\ Parts(ps) /\ Len(ps) = m
      /\ \A i \in 1 .. m :
           /\ ps[i] = Paired(<<f, b, i>>, E[i]) /\ Len(ps[i]) = Len(E[i])
           /\ \A k \in 1 .. Len(E[i]) : ps[i][k] = [from |-> <<f, b, i>>, mi |-> E[i][k]]
  <2>1. ArePartsOf(ps, f, b, m, E)
    BY <1>0, PartsOfIs
  <2> HIDE DEF ps, qs
  <2> QED BY <2>1 DEF ArePartsOf
<1>4. /\ Parts(qs) /\ Len(qs) = m
      /\ \A i \in 1 .. m :
           /\ qs[i] = Paired(<<f, b, i>>, G[i]) /\ Len(qs[i]) = Len(G[i])
           /\ \A k \in 1 .. Len(G[i]) : qs[i][k] = [from |-> <<f, b, i>>, mi |-> G[i][k]]
  <2>1. ArePartsOf(qs, f, b, m, G)
    BY <1>2, PartsOfIs
  <2> HIDE DEF ps, qs
  <2> QED BY <2>1 DEF ArePartsOf
<1>5. IsSeq(c) /\ Len(c) \in Nat /\ DOMAIN c = 1 .. Len(c)
  BY SeqFacts DEF Laid
<1>6. PICK I, J : Chain(c, ps, I, J)
  BY DEF Laid
<1> HIDE DEF ps, qs
<1>7. \A n \in 1 .. Len(c) : I[n] \in 1 .. m /\ J[n] \in 1 .. Len(E[I[n]]) /\ c[n] = ps[I[n]][J[n]]
  BY <1>3, <1>6 DEF Chain
<1>8. \A n \in 1 .. Len(c) : ts[n] = Paired(<<f, b, I[n]>>, X[I[n]][J[n]])
  <2> SUFFICES ASSUME NEW n \in 1 .. Len(c)
               PROVE  ts[n] = Paired(<<f, b, I[n]>>, X[I[n]][J[n]])
    OBVIOUS
  <2>1. I[n] \in 1 .. m /\ J[n] \in 1 .. Len(E[I[n]])
    BY <1>7
  <2>2. c[n] = [from |-> <<f, b, I[n]>>, mi |-> E[I[n]][J[n]]]
    BY <1>3, <1>7, <2>1
  <2> QED BY <1>5, <2>1, <2>2
<1>9. IsSeq(ts) /\ Len(ts) = Len(c)
  BY <1>5, SeqFunction
<1>10. \A n \in 1 .. Len(c) : IsSeq(X[I[n]][J[n]]) /\ Len(X[I[n]][J[n]]) > 0
  BY <1>7 DEF Replaced
<1>11. \A n \in 1 .. Len(c) :
         /\ IsSeq(ts[n]) /\ Len(ts[n]) = Len(X[I[n]][J[n]])
         /\ \A k \in 1 .. Len(X[I[n]][J[n]]) : ts[n][k] = [from |-> <<f, b, I[n]>>, mi |-> X[I[n]][J[n]][k]]
  <2> SUFFICES ASSUME NEW n \in 1 .. Len(c)
               PROVE  /\ IsSeq(ts[n]) /\ Len(ts[n]) = Len(X[I[n]][J[n]])
                      /\ \A k \in 1 .. Len(X[I[n]][J[n]]) :
                           ts[n][k] = [from |-> <<f, b, I[n]>>, mi |-> X[I[n]][J[n]][k]]
    OBVIOUS
  <2>1. ts[n] = Paired(<<f, b, I[n]>>, X[I[n]][J[n]]) /\ IsSeq(X[I[n]][J[n]])
    BY <1>8, <1>10
  <2> QED BY <2>1, PairedIs
<1>12. Parts(ts)
  BY <1>9, <1>10, <1>11 DEF Parts
<1>13. Laid(FlattenSeq(ts), ts)
  BY <1>12, FlattenLaid
<1>14. ASSUME NEW n \in 1 .. Len(c)
       PROVE  \/ Len(ps[I[n]]) = 1 /\ qs[I[n]] = ts[n]
              \/ /\ Len(ps[I[n]]) # 1 /\ Len(ts[n]) = 1 /\ Len(qs[I[n]]) = Len(ps[I[n]])
                 /\ qs[I[n]][J[n]] = ts[n][1]
  <2>1. I[n] \in 1 .. m /\ J[n] \in 1 .. Len(E[I[n]]) /\ Len(E[I[n]]) \in Nat /\ Len(ps[I[n]]) = Len(E[I[n]])
    BY <1>1, <1>3, <1>7
  <2>2. CASE Len(E[I[n]]) = 1
    <3>1. J[n] = 1
      BY <2>1, <2>2
    <3>2. G[I[n]] = X[I[n]][1]
      BY <2>1, <2>2 DEF Replaced
    <3>3. qs[I[n]] = Paired(<<f, b, I[n]>>, G[I[n]])
      BY <1>4, <2>1
    <3>4. ts[n] = Paired(<<f, b, I[n]>>, X[I[n]][J[n]])
      BY <1>8
    <3>5. qs[I[n]] = ts[n]
      BY <3>1, <3>2, <3>3, <3>4
    <3> QED BY <2>1, <2>2, <3>5
  <2>3. CASE Len(E[I[n]]) # 1
    <3>1. /\ Len(X[I[n]][J[n]]) = 1
          /\ G[I[n]] = [k \in 1 .. Len(E[I[n]]) |-> X[I[n]][k][1]]
      BY <2>1, <2>3 DEF Replaced
    <3>2. G[I[n]] = [k \in 1 .. Len(E[I[n]]) |-> G[I[n]][k]] /\ G[I[n]][J[n]] = X[I[n]][J[n]][1]
      BY <2>1, <3>1
    <3>3. Len(G[I[n]]) = Len(E[I[n]])
      BY <2>1, <3>2, SeqFunction
    <3>4. qs[I[n]][J[n]] = [from |-> <<f, b, I[n]>>, mi |-> X[I[n]][J[n]][1]]
      BY <1>4, <2>1, <3>2, <3>3, SMTT(30)
    <3>5. 1 \in 1 .. Len(X[I[n]][J[n]])
      BY <3>1
    <3>6. ts[n][1] = [from |-> <<f, b, I[n]>>, mi |-> X[I[n]][J[n]][1]] /\ Len(ts[n]) = 1
      BY <1>11, <3>1, <3>5
    <3>7. Len(qs[I[n]]) = Len(ps[I[n]])
      BY <1>4, <2>1, <3>3
    <3> QED BY <2>1, <2>3, <3>4, <3>6, <3>7
  <2> QED BY <2>2, <2>3
<1>15. Len(qs) = Len(ps)
  BY <1>3, <1>4
<1>16. Laid(FlattenSeq(ts), qs)
  BY <1>3, <1>4, <1>5, <1>6, <1>9, <1>12, <1>13, <1>14, <1>15, ComposeLaid
<1> QED BY <1>16 DEF qs

LEMMA OneIs == ASSUME NEW a PROVE IsSeq(<< a >>) /\ Len(<< a >>) = 1 /\ << a >>[1] = a
<1>1. << a >> \in Seq({a})
  OBVIOUS
<1> QED BY <1>1 DEF IsSeq

LEMMA TwoIs == ASSUME NEW a, NEW b PROVE IsSeq(<< a, b >>) /\ Len(<< a, b >>) = 2
<1>1. << a, b >> \in Seq({a, b})
  OBVIOUS
<1> QED BY <1>1 DEF IsSeq

LEMMA FiveIs ==
  ASSUME NEW a, NEW b, NEW c, NEW d, NEW e
  PROVE  IsSeq(<< a, b, c, d, e >>) /\ Len(<< a, b, c, d, e >>) = 5
<1>1. << a, b, c, d, e >> \in Seq({a, b, c, d, e})
  OBVIOUS
<1> QED BY <1>1 DEF IsSeq

LEMMA MoveIs ==
  ASSUME NEW a, NEW n
  PROVE  IsSeq(MoveFramePointer(a, n)) /\ Len(MoveFramePointer(a, n)) = 15
<1>1. PICK X : X = { Push(a), Plain(MLOAD), Plain(DUP1), Push(32 * n), Plain(ADD),
     Plain(MSTORE), Push(32 * (n + 1)), Push(a + 32) }
  OBVIOUS
<1>2. MoveFramePointer(a, n) \in Seq(X)
  BY <1>1 DEF MoveFramePointer
<1> QED BY <1>2 DEF IsSeq, MoveFramePointer

LEMMA RestoreIs ==
  ASSUME NEW a
  PROVE  IsSeq(RestoreFramePointer(a)) /\ Len(RestoreFramePointer(a)) = 9
<1>1. PICK X : X = { Plain(JUMPDEST), Push(a), Plain(MLOAD), Push(32), Plain(SWAP1),
     Plain(SUB), Plain(MSTORE) }
  OBVIOUS
<1>2. RestoreFramePointer(a) \in Seq(X)
  BY <1>1 DEF RestoreFramePointer
<1> QED BY <1>2 DEF IsSeq, RestoreFramePointer

LEMMA JumpToCalleeIs ==
  ASSUME NEW n
  PROVE  IsSeq(JumpToCallee(n)) /\ Len(JumpToCallee(n)) = 5
  BY FiveIs DEF JumpToCallee

-----------------------------------------------------------------------------
(* Source positions, and the instructions with the open constant filled in *)
Blks(f) == Program[f].blocks
Positions ==
  { p \in (DOMAIN Program) \X Nat \X Nat :
      p[2] \in 1 .. Len(Blks(p[1])) /\ p[3] \in 1 .. Len(Blks(p[1])[p[2]]) }
SrcAt(p) == Blks(p[1])[p[2]][p[3]]
Src(ch, p) == IF SrcAt(p).arg.kind = "open" THEN MI(SrcAt(p).op, ch) ELSE SrcAt(p)

(* The kinds of instructions.                                              *)
IsConst(m) == m.op = PUSH32 /\ m.arg \in Constants
IsAddress(m) == m.op = PUSH32 /\ \E g \in DOMAIN Program : m.arg = Symbol(g, 1)
IsSimple(m) == m.op \in {CALLDATASIZE, POP, pRETURNSUB, STOP} /\ m.arg = NoOperand
IsCounted(m) == m.op \in {SWAP_r, DUP_r, pJUMPSUB} /\ \E n \in 1 .. 16 : m.arg = Count(n)
IsLocal(m, f) ==
  /\ m.op \in {pGETLOCAL, pPUTLOCAL}
  /\ \E n \in Nat : m.arg = Count(n) /\ n < Program[f].slots
IsJump(m, f) ==
  m.op \in {pJUMPTO, pJUMPIF} /\ \E b \in 1 .. Len(Blks(f)) : m.arg = Symbol(f, b)

IsSource(m, f) ==
  \/ IsConst(m) \/ IsAddress(m) \/ IsSimple(m) \/ IsCounted(m)
  \/ IsLocal(m, f) \/ IsJump(m, f)

LEMMA FunctionIs ==
  ASSUME NEW f \in DOMAIN Program
  PROVE  /\ Blks(f) \in Seq(Seq(Instructions(f))) /\ Len(Blks(f)) \in Nat
         /\ Len(Blks(f)) > 0 /\ Blks(f)[Len(Blks(f))] # << >>
         /\ Len(Blks(f)[Len(Blks(f))]) > 0
         /\ Blks(f)[Len(Blks(f))][Len(Blks(f)[Len(Blks(f))])].op \in {pJUMPTO, pRETURNSUB, STOP}
         /\ Program[f].slots \in Nat /\ Program[f].objects \in Nat
         /\ DOMAIN Blks(f) = 1 .. Len(Blks(f))
         /\ \A b \in 1 .. Len(Blks(f)) :
              /\ Blks(f)[b] \in Seq(Instructions(f)) /\ Len(Blks(f)[b]) \in Nat
              /\ DOMAIN Blks(f)[b] = 1 .. Len(Blks(f)[b])
              /\ \A i \in 1 .. Len(Blks(f)[b]) : Blks(f)[b][i] \in Instructions(f)
<1> DEFINE B == Blks(f)
           S == Instructions(f)
           l == B[Len(B)]
<1>1. IsFunction(f)
  BY ProgramAssumption
<1>2. /\ B \in Seq(Seq(S)) /\ B # << >> /\ Last(B) # << >>
      /\ Last(Last(B)).op \in {pJUMPTO, pRETURNSUB, STOP}
      /\ Program[f].slots \in Nat /\ Program[f].objects \in Nat
  BY <1>1 DEF IsFunction, Blks
<1> HIDE DEF S, B
<1>3. Len(B) \in Nat /\ Len(B) > 0 /\ DOMAIN B = 1 .. Len(B) /\ \A b \in 1 .. Len(B) : B[b] \in Seq(S)
  BY <1>2
<1>4. \A b \in 1 .. Len(B) : /\ Len(B[b]) \in Nat /\ DOMAIN B[b] = 1 .. Len(B[b])
                            /\ \A i \in 1 .. Len(B[b]) : B[b][i] \in S
  BY <1>3, Elements
<1>5. Last(B) = l /\ Last(l) = l[Len(l)]
  BY DEF Last
<1>6. l \in Seq(S) /\ l # << >>
  BY <1>2, <1>3, <1>5
<1> HIDE DEF l
<1>7. Len(l) > 0
  BY <1>6
<1>8. l[Len(l)].op \in {pJUMPTO, pRETURNSUB, STOP}
  BY <1>2, <1>5
<1> QED BY <1>2, <1>3, <1>4, <1>6, <1>7, <1>8 DEF B, S, l

LEMMA SourceIs ==
  ASSUME NEW p \in Positions, NEW ch \in Operands
  PROVE  IsSource(Src(ch, p), p[1])
<1> DEFINE f == p[1]
           m == SrcAt(p)
<1>1. f \in DOMAIN Program /\ p[2] \in 1 .. Len(Blks(f)) /\ p[3] \in 1 .. Len(Blks(f)[p[2]])
  BY DEF Positions
<1>2. m \in Instructions(f)
  BY <1>1, FunctionIs DEF SrcAt
<1>3. ch \in Constants
  BY ProgramAssumption
<1>4. ToSet(Funcs) = DOMAIN Program
  BY ProgramAssumption
<1>5. Program[f].slots \in Nat /\ DOMAIN Blks(f) = 1 .. Len(Blks(f))
  BY <1>1, FunctionIs
<1>6. ch.kind # "open"
  BY <1>3, ConstantIs
<1> HIDE DEF f, m
<1>7. CASE m \in [op : {PUSH32}, arg : Constants \cup {[kind |-> "open"]}
                          \cup { Symbol(g, 1) : g \in ToSet(Funcs) }]
  <2>1. m.op = PUSH32 /\ (m.arg \in Constants \/ m.arg = [kind |-> "open"] \/ \E g \in DOMAIN Program : m.arg = Symbol(g, 1))
    BY <1>4, <1>7
  <2>2. CASE m.arg \in Constants
    <3>1. m.arg.kind # "open"
      BY <2>2, ConstantIs
    <3> QED BY <2>1, <2>2, <3>1 DEF IsSource, IsConst, Src, m, f
  <2>3. CASE m.arg = [kind |-> "open"]
    <3>1. Src(ch, p) = MI(PUSH32, ch)
      BY <2>1, <2>3 DEF Src, m
    <3>2. Src(ch, p).op = PUSH32 /\ Src(ch, p).arg = ch
      BY <3>1 DEF MI
    <3> QED BY <1>3, <3>2 DEF IsSource, IsConst
  <2>4. CASE \E g \in DOMAIN Program : m.arg = Symbol(g, 1)
    <3>1. m.arg.kind # "open"
      BY <2>4 DEF Symbol
    <3> QED BY <2>1, <2>4, <3>1 DEF IsSource, IsAddress, Src, m, f
  <2> QED BY <2>1, <2>2, <2>3, <2>4
<1>8. CASE m \in [op : {CALLDATASIZE, POP, pRETURNSUB, STOP}, arg : {NoOperand}]
  <2>1. m.op \in {CALLDATASIZE, POP, pRETURNSUB, STOP} /\ m.arg = NoOperand
    BY <1>8
  <2>2. m.arg.kind # "open"
    BY <2>1 DEF NoOperand
  <2> QED BY <2>1, <2>2 DEF IsSource, IsSimple, Src, m, f
<1>9. CASE m \in [op : {SWAP_r, DUP_r, pJUMPSUB}, arg : { Count(n) : n \in 1 .. 16 }]
  <2>1. m.op \in {SWAP_r, DUP_r, pJUMPSUB} /\ \E n \in 1 .. 16 : m.arg = Count(n)
    BY <1>9
  <2>2. m.arg.kind # "open"
    BY <2>1 DEF Count
  <2> QED BY <2>1, <2>2 DEF IsSource, IsCounted, Src, m, f
<1>10. CASE m \in [op : {pGETLOCAL, pPUTLOCAL}, arg : { Count(n) : n \in 0 .. Program[f].slots - 1 }]
  <2>1. m.op \in {pGETLOCAL, pPUTLOCAL} /\ \E n \in 0 .. Program[f].slots - 1 : m.arg = Count(n)
    BY <1>10
  <2>2. PICK n \in 0 .. Program[f].slots - 1 : m.arg = Count(n)
    BY <2>1
  <2>3. n \in Nat /\ n < Program[f].slots
    BY <1>5
  <2>4. m.arg.kind # "open"
    BY <2>1 DEF Count
  <2> QED BY <2>1, <2>2, <2>3, <2>4 DEF IsSource, IsLocal, Src, m, f
<1>11. CASE m \in [op : {pJUMPTO, pJUMPIF}, arg : { Symbol(f, b) : b \in DOMAIN Blks(f) }]
  <2>1. m.op \in {pJUMPTO, pJUMPIF} /\ \E b \in 1 .. Len(Blks(f)) : m.arg = Symbol(f, b)
    BY <1>5, <1>11
  <2>2. m.arg.kind # "open"
    BY <2>1 DEF Symbol
  <2> QED BY <2>1, <2>2 DEF IsSource, IsJump, Src, m, f
<1> QED BY <1>2, <1>7, <1>8, <1>9, <1>10, <1>11 DEF Instructions, Blks

-----------------------------------------------------------------------------
(* What the passes make of one instruction of f.                           *)
Expanded(m, f) == ExpandPseudo(m, FPAddr, Program[f].objects)
Conv(m, f) == ConvertInstr(m, FPAddr, SaveIndex(f))
Converted(m, f) ==
  IF Len(Expanded(m, f)) = 1 THEN Conv(Expanded(m, f)[1], f)
  ELSE [k \in 1 .. Len(Expanded(m, f)) |-> Conv(Expanded(m, f)[k], f)[1]]
Shrunk(m, f) ==
  IF Len(Converted(m, f)) = 1 THEN ShrinkPush(Converted(m, f)[1])
  ELSE [k \in 1 .. Len(Converted(m, f)) |-> ShrinkPush(Converted(m, f)[k])[1]]

(* Items of the converted code, and what is finally encoded.               *)
IsPlain(mi) == mi.arg = NoOperand /\ mi.op \in 0 .. 255 /\ ~IsPush(mi.op)
IsSymbolPush(mi) ==
  /\ mi.op = PUSH1 + 1
  /\ \E g \in DOMAIN Program : \E b \in 1 .. Len(Blks(g)) : mi.arg = Symbol(g, b)
Unshrunk(mi) ==
  \/ IsPlain(mi)
  \/ mi.op # PUSH32 /\ \E v : IsNumberPush(mi, v)
  \/ mi.op = PUSH32 /\ mi.arg \in Constants
  \/ mi.op = PUSH32 /\ \E g \in DOMAIN Program : \E b \in 1 .. Len(Blks(g)) : mi.arg = Symbol(g, b)
ItemOK(mi) == IsPlain(mi) \/ (\E v : IsNumberPush(mi, v)) \/ IsSymbolPush(mi)

LEMMA ShrinkItem ==
  ASSUME NEW mi, Unshrunk(mi)
  PROVE  \E r : ShrinkPush(mi) = << r >> /\ ItemOK(r)
<1>1. CASE IsPlain(mi)
  <2>1. mi.op # PUSH32
    BY <1>1 DEF IsPlain, IsPush, PUSH1, PUSH32
  <2> QED BY <1>1, <2>1 DEF ShrinkPush, ItemOK
<1>2. CASE mi.op # PUSH32 /\ \E v : IsNumberPush(mi, v)
  BY <1>2 DEF ShrinkPush, ItemOK
<1>3. CASE mi.op = PUSH32 /\ mi.arg \in Constants
  <2>1. PICK r : ShrinkPush(mi) = << r >> /\ IsNumberPush(r, Word(mi.arg.bytes))
    BY <1>3, ShrinkConstant
  <2> QED BY <2>1 DEF ItemOK
<1>4. CASE mi.op = PUSH32 /\ \E g \in DOMAIN Program : \E b \in 1 .. Len(Blks(g)) : mi.arg = Symbol(g, b)
  <2>1. mi.arg.kind = "symbol"
    BY <1>4 DEF Symbol
  <2>2. ShrinkPush(mi) = << MI(GetPushOpcode(2), mi.arg) >>
    BY <1>4, <2>1 DEF ShrinkPush
  <2>3. IsSymbolPush(MI(GetPushOpcode(2), mi.arg))
    BY <1>4 DEF IsSymbolPush, MI, GetPushOpcode, PUSH1
  <2> QED BY <2>2, <2>3 DEF ItemOK
<1> QED BY <1>1, <1>2, <1>3, <1>4 DEF Unshrunk

LEMMA PlainShrinks ==
  ASSUME NEW op \in 0 .. 255, ~IsPush(op)
  PROVE  ShrinkPush(Plain(op)) = << Plain(op) >> /\ Unshrunk(Plain(op)) /\ IsPlain(Plain(op))
<1>1. Plain(op).op = op /\ Plain(op).arg = NoOperand
  BY DEF Plain, MI
<1>2. op # PUSH32
  BY DEF IsPush, PUSH1, PUSH32
<1> QED BY <1>1, <1>2 DEF ShrinkPush, Unshrunk, IsPlain

LEMMA PlainOps ==
  \A op \in {ADD, SUB, CALLDATASIZE, POP, MLOAD, MSTORE, JUMP, JUMPI, GETPC, JUMPDEST, STOP}
              \cup (DUP1 .. DUP1 + 15) \cup (SWAP1 .. SWAP1 + 15) :
     op \in 0 .. 255 /\ ~IsPush(op)
  BY DEF ADD, SUB, CALLDATASIZE, POP, MLOAD, MSTORE, JUMP, JUMPI, GETPC, JUMPDEST, STOP,
         DUP1, SWAP1, IsPush, PUSH1, PUSH32

(* The push of a number the passes put in.                                 *)
N(n) == ShrinkPush(Push(n))[1]

LEMMA PushShrinks ==
  ASSUME NEW n \in Nat
  PROVE  /\ ShrinkPush(Push(n)) = << N(n) >> /\ Unshrunk(Push(n))
         /\ IsNumberPush(N(n), Num(n))
<1>1. Push(n).op = PUSH32 /\ Push(n).arg = Imm(n)
  BY DEF Push, MI
<1>2. Imm(n) \in Constants /\ Word(Imm(n).bytes) = Num(n)
  BY ImmIs
<1>3. PICK r : ShrinkPush(Push(n)) = << r >> /\ IsNumberPush(r, Num(n))
  <2>1. \E r : ShrinkPush(Push(n)) = << r >> /\ IsNumberPush(r, Word(Imm(n).bytes))
    BY <1>1, <1>2, ShrinkConstant
  <2> QED BY <1>2, <2>1
<1>4. N(n) = r
  BY <1>3 DEF N
<1> QED BY <1>1, <1>2, <1>3, <1>4 DEF Unshrunk

(* Four bytes from the PC to the return address.                           *)
LEMMA FourIs ==
  /\ ShrinkPush(MI(PUSH1, Imm(4))) = << MI(PUSH1, Imm(4)) >>
  /\ Unshrunk(MI(PUSH1, Imm(4))) /\ IsNumberPush(MI(PUSH1, Imm(4)), Num(4))
<1> DEFINE mi == MI(PUSH1, Imm(4))
           s == Imm(4).bytes
<1>1. mi.op = PUSH1 /\ mi.arg = Imm(4) /\ PUSH1 # PUSH32
  BY DEF MI, PUSH1, PUSH32
<1>2. Imm(4) \in Constants /\ Word(s) = Num(4)
  BY ImmIs
<1>3. Imm(4) = [kind |-> "imm", bytes |-> s]
  BY DEF Imm
<1>4. s \in Seq(Byte) /\ Len(s) = 8
  BY <1>2, <1>3, ConstantIs
<1>5. \A i \in 1 .. 7 : s[i] = 0
  <2>1. Digits(4) = <<0, 0, 4>>
    BY DEF Digits
  <2>2. s = <<0, 0, 0, 0, 0>> \o <<0, 0, 4>>
    BY <1>3, <2>1 DEF Imm
  <2>3. \A i \in 1 .. 7 : (<<0, 0, 0, 0, 0>> \o <<0, 0, 4>>)[i] = 0
    <3>1. IsSeq(<<0, 0, 0, 0, 0>>) /\ Len(<<0, 0, 0, 0, 0>>) = 5
      BY FiveIs
    <3>2. IsSeq(<<0, 0, 4>>) /\ Len(<<0, 0, 4>>) = 3
      <4>1. <<0, 0, 4>> \in Seq({0, 4})
        OBVIOUS
      <4> QED BY <4>1 DEF IsSeq
    <3> DEFINE x == <<0, 0, 0, 0, 0>>
               y == <<0, 0, 4>>
    <3>3. (\A i \in 1 .. 5 : x[i] = 0) /\ y[1] = 0 /\ y[2] = 0
      OBVIOUS
    <3>4. Len(x) = 5 /\ Len(y) = 3 /\ IsSeq(x) /\ IsSeq(y)
      BY <3>1, <3>2
    <3> HIDE DEF x, y
    <3> DEFINE z == x \o y
    <3>5. /\ \A i \in 1 .. Len(x) : z[i] = x[i]
          /\ \A i \in 1 .. Len(y) : z[Len(x) + i] = y[i]
      <4>1. Joined(z, x, y)
        BY <3>4, SeqJoined
      <4> HIDE DEF z
      <4> QED BY <4>1 DEF Joined
    <3> HIDE DEF z
    <3>6. /\ \A i \in 1 .. 5 : z[i] = x[i]
          /\ \A i \in 1 .. 3 : z[5 + i] = y[i]
      <4>1. Len(x) = 5 /\ Len(y) = 3
        BY <3>4
      <4>2. \A i \in 1 .. 5 : z[i] = x[i]
        BY <3>5, <4>1, Zenon
      <4>3. \A i \in 1 .. 3 : z[5 + i] = y[i]
        BY <3>5, <4>1, Zenon
      <4> QED BY <4>2, <4>3
    <3>7. 1 \in 1 .. 3 /\ 2 \in 1 .. 3
      OBVIOUS
    <3>8. z[5 + 1] = 0 /\ z[5 + 2] = 0
      BY <3>3, <3>6, <3>7
    <3>9. \A i \in 1 .. 7 : i \in 1 .. 5 \/ i = 5 + 1 \/ i = 5 + 2
      OBVIOUS
    <3>10. \A i \in 1 .. 7 : z[i] = 0
      BY <3>3, <3>6, <3>8, <3>9
    <3> QED BY <3>10 DEF x, y, z
  <2> QED BY <2>2, <2>3
<1> HIDE DEF s, mi
<1>6. 7 <= Leading(s, 0)
  <2>1. /\ Leading(s, 0) \in 0 .. 8
        /\ Leading(s, 0) < 8 => s[Leading(s, 0) + 1] # 0
    <3>1. /\ Leading(s, 0) \in 0 .. Len(s)
          /\ Leading(s, 0) < Len(s) => s[Leading(s, 0) + 1] # 0
      BY <1>4, LeadingIs
    <3> QED BY <1>4, <3>1
  <2>2. ASSUME Leading(s, 0) < 7 PROVE FALSE
    <3>1. Leading(s, 0) + 1 \in 1 .. 7 /\ Leading(s, 0) < 8
      BY <2>1, <2>2
    <3> QED BY <1>5, <2>1, <3>1
  <2> QED BY <2>1, <2>2
<1>7. GetPushOpcode(1) = PUSH1
  BY DEF GetPushOpcode, PUSH1
<1>8. IsNumberPush(MI(GetPushOpcode(1), [kind |-> "imm", bytes |-> s]), Word(s))
  <2>1. 1 \in 1 .. 32 /\ 1 <= Len(s) /\ Len(s) \in {8, 32}
    BY <1>4
  <2>2. Leading(s, 0) \in Nat
    <3>1. Leading(s, 0) \in 0 .. Len(s)
      BY <1>4, LeadingIs
    <3> QED BY <1>4, <3>1
  <2>3. Len(s) - 1 <= Leading(s, 0)
    BY <1>4, <1>6, <2>2
  <2> QED BY <1>4, <2>1, <2>3, ImmPush
<1>9. IsNumberPush(mi, Num(4))
  BY <1>2, <1>3, <1>7, <1>8 DEF mi
<1>10. ShrinkPush(mi) = << mi >> /\ Unshrunk(mi)
  BY <1>1, <1>9 DEF ShrinkPush, Unshrunk
<1> QED BY <1>9, <1>10 DEF mi

-----------------------------------------------------------------------------
PassOK(m, f) ==
  /\ IsSeq(Expanded(m, f)) /\ Len(Expanded(m, f)) > 0
  /\ \A k \in 1 .. Len(Expanded(m, f)) :
       /\ IsSeq(Conv(Expanded(m, f)[k], f)) /\ Len(Conv(Expanded(m, f)[k], f)) > 0
       /\ Len(Expanded(m, f)) # 1 => Len(Conv(Expanded(m, f)[k], f)) = 1
  /\ IsSeq(Converted(m, f)) /\ Len(Converted(m, f)) > 0
  /\ \A k \in 1 .. Len(Converted(m, f)) : Unshrunk(Converted(m, f)[k])

LEMMA ShrunkIs ==
  ASSUME NEW m, NEW f, PassOK(m, f)
  PROVE  /\ IsSeq(Shrunk(m, f)) /\ Len(Shrunk(m, f)) = Len(Converted(m, f))
         /\ \A k \in 1 .. Len(Converted(m, f)) :
              /\ ShrinkPush(Converted(m, f)[k]) = << Shrunk(m, f)[k] >>
              /\ ItemOK(Shrunk(m, f)[k])
<1> DEFINE c == Converted(m, f)
           s == Shrunk(m, f)
<1>1. IsSeq(c) /\ Len(c) \in Nat /\ Len(c) > 0
  BY SeqFacts DEF PassOK
<1>2. \A k \in 1 .. Len(c) : \E r : ShrinkPush(c[k]) = << r >> /\ ItemOK(r)
  BY ShrinkItem DEF PassOK
<1>3. s = IF Len(c) = 1 THEN ShrinkPush(c[1]) ELSE [k \in 1 .. Len(c) |-> ShrinkPush(c[k])[1]]
  BY DEF Shrunk
<1> HIDE DEF c, s
<1>4. CASE Len(c) = 1
  <2>1. PICK r : ShrinkPush(c[1]) = << r >> /\ ItemOK(r)
    BY <1>2, <1>4
  <2>2. s = << r >> /\ IsSeq(s) /\ Len(s) = 1 /\ s[1] = r
    BY <1>3, <1>4, <2>1, OneIs
  <2> QED BY <1>4, <2>1, <2>2 DEF c, s
<1>5. CASE Len(c) # 1
  <2>1. s = [k \in 1 .. Len(c) |-> ShrinkPush(c[k])[1]]
    BY <1>3, <1>5
  <2>2. s = [k \in 1 .. Len(c) |-> s[k]] /\ \A k \in 1 .. Len(c) : s[k] = ShrinkPush(c[k])[1]
    BY <2>1
  <2>3. IsSeq(s) /\ Len(s) = Len(c)
    BY <1>1, <2>2, SeqFunction
  <2>4. \A k \in 1 .. Len(c) : ShrinkPush(c[k]) = << s[k] >> /\ ItemOK(s[k])
    BY <1>2, <2>2
  <2> QED BY <2>3, <2>4 DEF c, s
<1> QED BY <1>4, <1>5

(* The opcodes are different from each other.                              *)
LEMMA PseudosDiffer ==
  /\ {pJUMPTO, pJUMPIF} \cap ({pGETLOCAL, pPUTLOCAL, SWAP_r, DUP_r, pJUMPSUB, pRETURNSUB, PUSH32} \cup 0 .. 255) = {}
  /\ {pGETLOCAL, pPUTLOCAL} \cap ({SWAP_r, DUP_r, pJUMPSUB, pRETURNSUB, PUSH32} \cup 0 .. 255) = {}
  /\ {SWAP_r, DUP_r, pJUMPSUB, pRETURNSUB} \cap 0 .. 255 = {}
  /\ pJUMPTO # pJUMPIF /\ pGETLOCAL # pPUTLOCAL
  /\ SWAP_r # DUP_r /\ SWAP_r # pJUMPSUB /\ SWAP_r # pRETURNSUB /\ DUP_r # pJUMPSUB
  /\ DUP_r # pRETURNSUB /\ pJUMPSUB # pRETURNSUB
  /\ PUSH32 \in 0 .. 255
  BY DEF pJUMPTO, pJUMPIF, pGETLOCAL, pPUTLOCAL, SWAP_r, DUP_r, pJUMPSUB, pRETURNSUB, PUSH32

LEMMA KeptByConv ==
  ASSUME NEW m, NEW f, m.op \in 0 .. 255
  PROVE  Conv(m, f) = << m >>
  BY PseudosDiffer, ZenonT(40) DEF Conv, ConvertInstr

LEMMA PlainKept ==
  ASSUME NEW op \in 0 .. 255, NEW f
  PROVE  Conv(Plain(op), f) = << Plain(op) >>
<1>1. Plain(op).op = op
  BY DEF Plain, MI
<1> QED BY <1>1, KeptByConv

LEMMA PushKept ==
  ASSUME NEW n, NEW f
  PROVE  Conv(Push(n), f) = << Push(n) >>
<1>1. Push(n).op = PUSH32
  BY DEF Push, MI
<1> QED BY <1>1, KeptByConv, PseudosDiffer

(* An instruction that is not expanded.                                    *)
LEMMA NotExpanded ==
  ASSUME NEW m, NEW f, m.op \notin {pJUMPTO, pJUMPIF, pGETLOCAL, pPUTLOCAL}
  PROVE  Expanded(m, f) = << m >> /\ Converted(m, f) = Conv(m, f)
<1>1. Expanded(m, f) = << m >>
  BY DEF Expanded, ExpandPseudo
<1> QED BY <1>1, OneIs DEF Converted

(* ... and replaced by one.                                                *)
LEMMA SingleOK ==
  ASSUME NEW m, NEW f, NEW r, m.op \notin {pJUMPTO, pJUMPIF, pGETLOCAL, pPUTLOCAL},
         Conv(m, f) = << r >>, Unshrunk(r)
  PROVE  /\ PassOK(m, f) /\ Len(Shrunk(m, f)) = 1
         /\ ShrinkPush(r) = << Shrunk(m, f)[1] >>
<1>1. Expanded(m, f) = << m >> /\ Converted(m, f) = << r >>
  BY NotExpanded
<1>2. /\ IsSeq(<< m >>) /\ Len(<< m >>) = 1 /\ << m >>[1] = m
      /\ IsSeq(<< r >>) /\ Len(<< r >>) = 1 /\ << r >>[1] = r
  BY OneIs
<1>3. PassOK(m, f)
  BY <1>1, <1>2 DEF PassOK
<1> QED BY <1>1, <1>2, <1>3, ShrunkIs

LEMMA JumpCode ==
  ASSUME NEW m, NEW f \in DOMAIN Program, IsJump(m, f)
  PROVE  /\ PassOK(m, f) /\ Len(Shrunk(m, f)) = 2
         /\ Shrunk(m, f)[1] = MI(PUSH1 + 1, m.arg)
         /\ Shrunk(m, f)[2] = Plain(IF m.op = pJUMPTO THEN JUMP ELSE JUMPI)
<1> DEFINE x == MI(PUSH32, m.arg)
           j == IF m.op = pJUMPTO THEN JUMP ELSE JUMPI
<1>1. Expanded(m, f) = << x, Plain(j) >>
  BY DEF IsJump, Expanded, ExpandPseudo, ExpandJUMP
<1>2. x.op = PUSH32 /\ x.arg = m.arg
  BY DEF MI
<1>3. Conv(x, f) = << x >>
  BY <1>2, KeptByConv, PseudosDiffer
<1>4. j \in 0 .. 255 /\ ~IsPush(j)
  BY PlainOps
<1> HIDE DEF x, j
<1>5. Conv(Plain(j), f) = << Plain(j) >>
  BY <1>4, PlainKept
<1> DEFINE e == << x, Plain(j) >>
<1>6. IsSeq(e) /\ Len(e) = 2
  BY TwoIs
<1>7. e[1] = x /\ e[2] = Plain(j)
  OBVIOUS
<1> HIDE DEF e
<1>8. \A k \in 1 .. 2 : k = 1 \/ k = 2
  OBVIOUS
<1>9. Converted(m, f) = [k \in 1 .. 2 |-> Conv(e[k], f)[1]]
  BY <1>1, <1>6 DEF Converted, e
<1> DEFINE c == Converted(m, f)
<1>10. c = [k \in 1 .. 2 |-> c[k]] /\ c[1] = x /\ c[2] = Plain(j)
  <2>1. c[1] = Conv(e[1], f)[1] /\ c[2] = Conv(e[2], f)[1]
    BY <1>9
  <2> QED BY <1>3, <1>5, <1>7, <1>9, <2>1, OneIs
<1> HIDE DEF c
<1>11. IsSeq(c) /\ Len(c) = 2
  BY <1>10, SeqFunction
<1>12. Unshrunk(x)
  BY <1>2 DEF IsJump, Unshrunk
<1>13. Unshrunk(Plain(j)) /\ ShrinkPush(Plain(j)) = << Plain(j) >>
  BY <1>4, PlainShrinks
<1>14. \A k \in 1 .. 2 : Len(Conv(e[k], f)) = 1 /\ IsSeq(Conv(e[k], f))
  BY <1>3, <1>5, <1>7, <1>8, OneIs
<1>15. \A k \in 1 .. 2 : Unshrunk(c[k])
  BY <1>8, <1>10, <1>12, <1>13
<1>16. PassOK(m, f)
  BY <1>1, <1>6, <1>11, <1>14, <1>15 DEF PassOK, c, e
<1>17. ShrinkPush(x) = << MI(PUSH1 + 1, m.arg) >>
  <2>1. m.arg.kind = "symbol"
    BY DEF IsJump, Symbol
  <2>2. GetPushOpcode(2) = PUSH1 + 1
    BY DEF GetPushOpcode, PUSH1
  <2> QED BY <1>2, <2>1, <2>2 DEF ShrinkPush
<1>18. /\ Len(Shrunk(m, f)) = 2 /\ ShrinkPush(c[1]) = << Shrunk(m, f)[1] >>
       /\ ShrinkPush(c[2]) = << Shrunk(m, f)[2] >>
  BY <1>11, <1>16, ShrunkIs DEF c
<1> QED BY <1>10, <1>13, <1>16, <1>17, <1>18 DEF j

LEMMA LocalCode ==
  ASSUME NEW m, NEW f \in DOMAIN Program, IsLocal(m, f)
  PROVE  /\ PassOK(m, f) /\ Len(Shrunk(m, f)) = 5
         /\ Shrunk(m, f)[1] = N(FPAddr) /\ Shrunk(m, f)[2] = Plain(MLOAD)
         /\ Shrunk(m, f)[3] = N(32 * (m.arg.n + Program[f].objects))
         /\ Shrunk(m, f)[4] = Plain(ADD)
         /\ Shrunk(m, f)[5] = Plain(IF m.op = pGETLOCAL THEN MLOAD ELSE MSTORE)
<1> DEFINE a == 32 * (m.arg.n + Program[f].objects)
           j == IF m.op = pGETLOCAL THEN MLOAD ELSE MSTORE
<1>1. Expanded(m, f) = << Push(FPAddr), Plain(MLOAD), Push(a), Plain(ADD), Plain(j) >>
  <2>1. m.op \in {pGETLOCAL, pPUTLOCAL} /\ m.op \notin {pJUMPTO, pJUMPIF}
    BY PseudosDiffer DEF IsLocal
  <2> QED BY <2>1 DEF Expanded, ExpandPseudo, ExpandLOCAL
<1>2. a \in Nat /\ FPAddr \in Nat
  <2>1. PICK n \in Nat : m.arg = Count(n)
    BY DEF IsLocal
  <2>2. m.arg.n = n /\ Program[f].objects \in Nat
    BY <2>1, FunctionIs DEF Count
  <2> QED BY <2>2, ProgramAssumption DEF FPAddr
<1>3. /\ Conv(Push(a), f) = << Push(a) >> /\ Conv(Push(FPAddr), f) = << Push(FPAddr) >>
  BY PushKept
<1>4. j \in 0 .. 255 /\ ~IsPush(j) /\ MLOAD \in 0 .. 255 /\ ~IsPush(MLOAD) /\ ADD \in 0 .. 255 /\ ~IsPush(ADD)
  BY PlainOps
<1> HIDE DEF j, a
<1>5. /\ Conv(Plain(j), f) = << Plain(j) >> /\ Conv(Plain(MLOAD), f) = << Plain(MLOAD) >>
      /\ Conv(Plain(ADD), f) = << Plain(ADD) >>
  BY <1>4, PlainKept
<1> DEFINE e == << Push(FPAddr), Plain(MLOAD), Push(a), Plain(ADD), Plain(j) >>
<1>6. IsSeq(e) /\ Len(e) = 5
  BY FiveIs
<1>7. e[1] = Push(FPAddr) /\ e[2] = Plain(MLOAD) /\ e[3] = Push(a) /\ e[4] = Plain(ADD) /\ e[5] = Plain(j)
  OBVIOUS
<1> HIDE DEF e
<1>8. \A k \in 1 .. 5 : k = 1 \/ k = 2 \/ k = 3 \/ k = 4 \/ k = 5
  OBVIOUS
<1>9. Converted(m, f) = [k \in 1 .. 5 |-> Conv(e[k], f)[1]]
  BY <1>1, <1>6 DEF Converted, e
<1> DEFINE c == Converted(m, f)
<1>10. \A k \in 1 .. 5 : Conv(e[k], f) = << e[k] >>
  BY <1>3, <1>5, <1>7, <1>8
<1>11. c = [k \in 1 .. 5 |-> c[k]] /\ \A k \in 1 .. 5 : c[k] = e[k]
  <2>1. \A k \in 1 .. 5 : c[k] = Conv(e[k], f)[1]
    BY <1>9
  <2> QED BY <1>9, <1>10, <2>1, OneIs
<1> HIDE DEF c
<1>12. IsSeq(c) /\ Len(c) = 5
  BY <1>11, SeqFunction
<1>13. /\ Unshrunk(Plain(j)) /\ ShrinkPush(Plain(j)) = << Plain(j) >>
       /\ Unshrunk(Plain(MLOAD)) /\ ShrinkPush(Plain(MLOAD)) = << Plain(MLOAD) >>
       /\ Unshrunk(Plain(ADD)) /\ ShrinkPush(Plain(ADD)) = << Plain(ADD) >>
  BY <1>4, PlainShrinks
<1>14. /\ Unshrunk(Push(a)) /\ ShrinkPush(Push(a)) = << N(a) >>
       /\ Unshrunk(Push(FPAddr)) /\ ShrinkPush(Push(FPAddr)) = << N(FPAddr) >>
  BY <1>2, PushShrinks
<1>15. \A k \in 1 .. 5 : Len(Conv(e[k], f)) = 1 /\ IsSeq(Conv(e[k], f))
  BY <1>10, OneIs
<1>16. \A k \in 1 .. 5 : Unshrunk(c[k])
  BY <1>7, <1>8, <1>11, <1>13, <1>14
<1>17. PassOK(m, f)
  <2>1. Expanded(m, f) = e
    BY <1>1 DEF e
  <2>2. Len(e) > 0 /\ Len(c) > 0
    BY <1>6, <1>12
  <2>3. \A k \in 1 .. Len(e) : Len(Conv(e[k], f)) = 1 /\ IsSeq(Conv(e[k], f)) /\ Len(Conv(e[k], f)) > 0
    <3> SUFFICES ASSUME NEW k \in 1 .. Len(e)
                 PROVE  Len(Conv(e[k], f)) = 1 /\ IsSeq(Conv(e[k], f)) /\ Len(Conv(e[k], f)) > 0
      OBVIOUS
    <3>1. k \in 1 .. 5
      BY <1>6
    <3>2. Len(Conv(e[k], f)) = 1 /\ IsSeq(Conv(e[k], f))
      BY <1>15, <3>1
    <3> QED BY <3>2
  <2>4. \A k \in 1 .. Len(c) : Unshrunk(c[k])
    BY <1>12, <1>16
  <2>5. Converted(m, f) = c
    BY DEF c
  <2> QED BY <1>6, <1>12, <2>1, <2>2, <2>3, <2>4, <2>5 DEF PassOK
<1>18. Len(Shrunk(m, f)) = 5 /\ \A k \in 1 .. 5 : ShrinkPush(e[k]) = << Shrunk(m, f)[k] >>
  <2>1. /\ Len(Shrunk(m, f)) = Len(c)
        /\ \A k \in 1 .. Len(c) : ShrinkPush(c[k]) = << Shrunk(m, f)[k] >>
    BY <1>17, ShrunkIs DEF c
  <2> QED BY <1>11, <1>12, <2>1
<1>19. /\ << N(FPAddr) >> = << Shrunk(m, f)[1] >> /\ << Plain(MLOAD) >> = << Shrunk(m, f)[2] >>
       /\ << N(a) >> = << Shrunk(m, f)[3] >> /\ << Plain(ADD) >> = << Shrunk(m, f)[4] >>
       /\ << Plain(j) >> = << Shrunk(m, f)[5] >>
  BY <1>7, <1>13, <1>14, <1>18
<1> QED BY <1>17, <1>18, <1>19 DEF j, a

(* The code of a call: the frame pointer is saved and moved, the return    *)
(* address computed and put under the arguments; behind the jump the frame *)
(* pointer is restored.                                                    *)
CallTable(s, n, f) ==
  LET fp == N(FPAddr)
  IN
  /\ s[1] = fp /\ s[2] = Plain(MLOAD) /\ s[3] = Plain(DUP1)
  /\ s[4] = N(32 * SaveIndex(f)) /\ s[5] = Plain(ADD) /\ s[6] = Plain(MSTORE)
  /\ s[7] = fp /\ s[8] = Plain(MLOAD) /\ s[9] = N(32 * (SaveIndex(f) + 1))
  /\ s[10] = Plain(ADD) /\ s[11] = Plain(DUP1) /\ s[12] = fp /\ s[13] = Plain(MSTORE)
  /\ s[14] = N(FPAddr + 32) /\ s[15] = Plain(MSTORE)
  /\ s[16] = MI(PUSH1, Imm(4)) /\ s[17] = Plain(GETPC) /\ s[18] = Plain(ADD)
  /\ s[19] = Plain(SWAP1 + n - 1) /\ s[20] = Plain(JUMP)
  /\ s[21] = Plain(JUMPDEST) /\ s[22] = fp /\ s[23] = Plain(MLOAD) /\ s[24] = N(32)
  /\ s[25] = Plain(SWAP1) /\ s[26] = Plain(SUB) /\ s[27] = Plain(MLOAD)
  /\ s[28] = fp /\ s[29] = Plain(MSTORE)

LEMMA CallCode ==
  ASSUME NEW m, NEW f \in DOMAIN Program, m.op = pJUMPSUB,
         NEW n \in 1 .. 16, m.arg = Count(n)
  PROVE  /\ PassOK(m, f) /\ Len(Shrunk(m, f)) = 29
         /\ CallTable(Shrunk(m, f), n, f)
<1> DEFINE i == SaveIndex(f)
           a == MoveFramePointer(FPAddr, i)
           b == JumpToCallee(n)
           r == RestoreFramePointer(FPAddr)
           c == (a \o b) \o r
<1>1. FPAddr \in Nat /\ i \in Nat
  BY FunctionIs, ProgramAssumption DEF FPAddr, SaveIndex
<1>2. Expanded(m, f) = << m >> /\ Converted(m, f) = Conv(m, f)
  <2>1. m.op \notin {pJUMPTO, pJUMPIF, pGETLOCAL, pPUTLOCAL}
    BY DEF pJUMPSUB, pJUMPTO, pJUMPIF, pGETLOCAL, pPUTLOCAL
  <2> QED BY <2>1, NotExpanded
<1>3. m.arg.n = n
  BY DEF Count
<1>4. Conv(m, f) = c
  BY <1>3, PseudosDiffer DEF Conv, ConvertInstr
<1>5. /\ IsSeq(a) /\ Len(a) = 15 /\ IsSeq(b) /\ Len(b) = 5 /\ IsSeq(r) /\ Len(r) = 9
  BY MoveIs, JumpToCalleeIs, RestoreIs
<1>6. /\ a[1] = Push(FPAddr) /\ a[2] = Plain(MLOAD) /\ a[3] = Plain(DUP1)
      /\ a[4] = Push(32 * i) /\ a[5] = Plain(ADD) /\ a[6] = Plain(MSTORE)
      /\ a[7] = Push(FPAddr) /\ a[8] = Plain(MLOAD) /\ a[9] = Push(32 * (i + 1))
      /\ a[10] = Plain(ADD) /\ a[11] = Plain(DUP1) /\ a[12] = Push(FPAddr) /\ a[13] = Plain(MSTORE)
      /\ a[14] = Push(FPAddr + 32) /\ a[15] = Plain(MSTORE)
  BY DEF MoveFramePointer
<1>7. /\ b[1] = MI(PUSH1, Imm(4)) /\ b[2] = Plain(GETPC) /\ b[3] = Plain(ADD)
      /\ b[4] = Plain(SWAP1 + n - 1) /\ b[5] = Plain(JUMP)
  BY DEF JumpToCallee, SWAPOpcode
<1>8. /\ r[1] = Plain(JUMPDEST) /\ r[2] = Push(FPAddr) /\ r[3] = Plain(MLOAD) /\ r[4] = Push(32)
      /\ r[5] = Plain(SWAP1) /\ r[6] = Plain(SUB) /\ r[7] = Plain(MLOAD)
      /\ r[8] = Push(FPAddr) /\ r[9] = Plain(MSTORE)
  BY DEF RestoreFramePointer
<1> HIDE DEF a, b, r, i
<1> DEFINE ab == a \o b
<1>9. Joined(ab, a, b)
  BY <1>5, SeqJoined
<1> HIDE DEF ab
<1>10. IsSeq(ab) /\ Len(ab) = 20
  BY <1>5, <1>9 DEF Joined
<1>11. Joined(c, ab, r)
  BY <1>5, <1>10, SeqJoined DEF ab
<1> HIDE DEF c
<1>12. IsSeq(c) /\ Len(c) = 29
  BY <1>5, <1>10, <1>11 DEF Joined
<1>13. \A k \in 1 .. 15 : c[k] = a[k]
  <2>1. \A k \in 1 .. 15 : ab[k] = a[k]
    BY <1>5, <1>9 DEF Joined
  <2>2. \A k \in 1 .. 20 : c[k] = ab[k]
    BY <1>10, <1>11 DEF Joined
  <2> QED BY <2>1, <2>2
<1>14. \A k \in 1 .. 5 : c[15 + k] = b[k]
  <2>1. \A k \in 1 .. 5 : ab[15 + k] = b[k]
    BY <1>5, <1>9 DEF Joined
  <2>2. \A k \in 1 .. 20 : c[k] = ab[k]
    BY <1>10, <1>11 DEF Joined
  <2>3. \A k \in 1 .. 5 : 15 + k \in 1 .. 20
    OBVIOUS
  <2> QED BY <2>1, <2>2, <2>3
<1>15. \A k \in 1 .. 9 : c[20 + k] = r[k]
  BY <1>5, <1>10, <1>11 DEF Joined
<1>16. \A k \in 1 .. 29 : k \in 1 .. 15 \/ (\E l \in 1 .. 5 : k = 15 + l) \/ (\E l \in 1 .. 9 : k = 20 + l)
  <2> SUFFICES ASSUME NEW k \in 1 .. 29, k \notin 1 .. 15
               PROVE  (\E l \in 1 .. 5 : k = 15 + l) \/ (\E l \in 1 .. 9 : k = 20 + l)
    OBVIOUS
  <2>1. k - 15 \in 1 .. 5 \/ k - 20 \in 1 .. 9
    OBVIOUS
  <2>2. k = 15 + (k - 15) /\ k = 20 + (k - 20)
    OBVIOUS
  <2> QED BY <2>1, <2>2
<1> DEFINE PS == {ADD, SUB, MLOAD, MSTORE, JUMP, GETPC, JUMPDEST, DUP1, SWAP1, SWAP1 + n - 1}
           NS == {FPAddr, 32 * i, 32 * (i + 1), FPAddr + 32, 32}
<1>17. \A op \in PS : op \in 0 .. 255 /\ ~IsPush(op)
  <2>1. DUP1 \in DUP1 .. DUP1 + 15 /\ SWAP1 \in SWAP1 .. SWAP1 + 15 /\ SWAP1 + n - 1 \in SWAP1 .. SWAP1 + 15
    BY DEF DUP1, SWAP1
  <2> QED BY <2>1, PlainOps
<1>18. \A op \in PS : ShrinkPush(Plain(op)) = << Plain(op) >> /\ Unshrunk(Plain(op))
  BY <1>17, PlainShrinks
<1>19. \A v \in NS : v \in Nat
  BY <1>1
<1>20. \A v \in NS : ShrinkPush(Push(v)) = << N(v) >> /\ Unshrunk(Push(v))
  BY <1>19, PushShrinks
<1>21. ShrinkPush(MI(PUSH1, Imm(4))) = << MI(PUSH1, Imm(4)) >> /\ Unshrunk(MI(PUSH1, Imm(4)))
  BY FourIs
<1>22. ADD \in PS /\ SUB \in PS /\ MLOAD \in PS /\ MSTORE \in PS /\ JUMP \in PS /\ GETPC \in PS
       /\ JUMPDEST \in PS /\ DUP1 \in PS /\ SWAP1 \in PS /\ (SWAP1 + n - 1) \in PS
       /\ FPAddr \in NS /\ 32 * i \in NS /\ 32 * (i + 1) \in NS /\ FPAddr + 32 \in NS /\ 32 \in NS
  OBVIOUS
<1> HIDE DEF PS, NS
<1>23. \A k \in 1 .. 15 : Unshrunk(a[k])
  <2>1. \A k \in 1 .. 15 : \/ k = 1 \/ k = 2 \/ k = 3 \/ k = 4 \/ k = 5 \/ k = 6 \/ k = 7 \/ k = 8
                           \/ k = 9 \/ k = 10 \/ k = 11 \/ k = 12 \/ k = 13 \/ k = 14 \/ k = 15
    OBVIOUS
  <2>2. /\ Unshrunk(a[1]) /\ Unshrunk(a[2]) /\ Unshrunk(a[3]) /\ Unshrunk(a[4]) /\ Unshrunk(a[5])
        /\ Unshrunk(a[6]) /\ Unshrunk(a[7]) /\ Unshrunk(a[8]) /\ Unshrunk(a[9]) /\ Unshrunk(a[10])
        /\ Unshrunk(a[11]) /\ Unshrunk(a[12]) /\ Unshrunk(a[13]) /\ Unshrunk(a[14]) /\ Unshrunk(a[15])
    BY <1>6, <1>18, <1>20, <1>22
  <2> QED BY <2>1, <2>2
<1>24. \A k \in 1 .. 5 : Unshrunk(b[k])
  <2>1. \A k \in 1 .. 5 : k = 1 \/ k = 2 \/ k = 3 \/ k = 4 \/ k = 5
    OBVIOUS
  <2>2. Unshrunk(b[1]) /\ Unshrunk(b[2]) /\ Unshrunk(b[3]) /\ Unshrunk(b[4]) /\ Unshrunk(b[5])
    BY <1>7, <1>18, <1>21, <1>22
  <2> QED BY <2>1, <2>2
<1>25. \A k \in 1 .. 9 : Unshrunk(r[k])
  <2>1. \A k \in 1 .. 9 : \/ k = 1 \/ k = 2 \/ k = 3 \/ k = 4 \/ k = 5 \/ k = 6 \/ k = 7 \/ k = 8 \/ k = 9
    OBVIOUS
  <2>2. /\ Unshrunk(r[1]) /\ Unshrunk(r[2]) /\ Unshrunk(r[3]) /\ Unshrunk(r[4]) /\ Unshrunk(r[5])
        /\ Unshrunk(r[6]) /\ Unshrunk(r[7]) /\ Unshrunk(r[8]) /\ Unshrunk(r[9])
    BY <1>8, <1>18, <1>20, <1>22
  <2> QED BY <2>1, <2>2
<1>26. \A k \in 1 .. 29 : Unshrunk(c[k])
  BY <1>13, <1>14, <1>15, <1>16, <1>23, <1>24, <1>25
<1>27. Converted(m, f) = c
  BY <1>2, <1>4
<1>28. PassOK(m, f)
  <2>1. IsSeq(<< m >>) /\ Len(<< m >>) = 1 /\ << m >>[1] = m
    BY OneIs
  <2>2. \A k \in 1 .. 1 : k = 1
    OBVIOUS
  <2>3. \A k \in 1 .. Len(Expanded(m, f)) : Conv(Expanded(m, f)[k], f) = c
    BY <1>2, <1>4, <2>1, <2>2
  <2>4. IsSeq(Expanded(m, f)) /\ Len(Expanded(m, f)) = 1
    BY <1>2, <2>1
  <2>5. Len(c) > 0 /\ 1 > 0
    BY <1>12
  <2>6. \A k \in 1 .. Len(c) : Unshrunk(c[k])
    BY <1>12, <1>26
  <2> QED BY <1>12, <1>27, <2>3, <2>4, <2>5, <2>6 DEF PassOK
<1> DEFINE s == Shrunk(m, f)
<1>29. Len(s) = 29 /\ \A k \in 1 .. 29 : ShrinkPush(c[k]) = << s[k] >>
  BY <1>12, <1>27, <1>28, ShrunkIs
<1> HIDE DEF s
<1>30. \A x, y : << x >> = << y >> => x = y
  OBVIOUS
<1>31. \A k \in 1 .. 29 : \A op \in PS : c[k] = Plain(op) => s[k] = Plain(op)
  BY <1>18, <1>29, <1>30
<1>32. \A k \in 1 .. 29 : \A v \in NS : c[k] = Push(v) => s[k] = N(v)
  BY <1>20, <1>29, <1>30
<1>33. /\ s[1] = N(FPAddr) /\ s[2] = Plain(MLOAD) /\ s[3] = Plain(DUP1)
       /\ s[4] = N(32 * i) /\ s[5] = Plain(ADD) /\ s[6] = Plain(MSTORE)
       /\ s[7] = N(FPAddr) /\ s[8] = Plain(MLOAD) /\ s[9] = N(32 * (i + 1))
       /\ s[10] = Plain(ADD) /\ s[11] = Plain(DUP1) /\ s[12] = N(FPAddr) /\ s[13] = Plain(MSTORE)
       /\ s[14] = N(FPAddr + 32) /\ s[15] = Plain(MSTORE)
  <2>1. \A k \in 1 .. 15 : k \in 1 .. 29
    OBVIOUS
  <2>2. \A k \in 1 .. 15 : \A op \in PS : a[k] = Plain(op) => s[k] = Plain(op)
    BY <1>13, <1>31, <2>1
  <2>3. \A k \in 1 .. 15 : \A v \in NS : a[k] = Push(v) => s[k] = N(v)
    BY <1>13, <1>32, <2>1
  <2> QED BY <1>6, <1>22, <2>2, <2>3
<1>34. /\ s[15 + 1] = MI(PUSH1, Imm(4)) /\ s[15 + 2] = Plain(GETPC) /\ s[15 + 3] = Plain(ADD)
       /\ s[15 + 4] = Plain(SWAP1 + n - 1) /\ s[15 + 5] = Plain(JUMP)
  <2>1. \A k \in 1 .. 5 : 15 + k \in 1 .. 29
    OBVIOUS
  <2>2. \A k \in 1 .. 5 : \A op \in PS : b[k] = Plain(op) => s[15 + k] = Plain(op)
    BY <1>14, <1>31, <2>1
  <2>3. ShrinkPush(c[15 + 1]) = << s[15 + 1] >> /\ c[15 + 1] = b[1]
    BY <1>14, <1>29
  <2>4. 2 \in 1 .. 5 /\ 3 \in 1 .. 5 /\ 4 \in 1 .. 5 /\ 5 \in 1 .. 5
    OBVIOUS
  <2> QED BY <1>7, <1>21, <1>22, <1>30, <2>2, <2>3, <2>4
<1>35. /\ s[20 + 1] = Plain(JUMPDEST) /\ s[20 + 2] = N(FPAddr) /\ s[20 + 3] = Plain(MLOAD) /\ s[20 + 4] = N(32)
       /\ s[20 + 5] = Plain(SWAP1) /\ s[20 + 6] = Plain(SUB) /\ s[20 + 7] = Plain(MLOAD)
       /\ s[20 + 8] = N(FPAddr) /\ s[20 + 9] = Plain(MSTORE)
  <2>1. \A k \in 1 .. 9 : 20 + k \in 1 .. 29
    OBVIOUS
  <2>2. \A k \in 1 .. 9 : \A op \in PS : r[k] = Plain(op) => s[20 + k] = Plain(op)
    BY <1>15, <1>31, <2>1
  <2>3. \A k \in 1 .. 9 : \A v \in NS : r[k] = Push(v) => s[20 + k] = N(v)
    BY <1>15, <1>32, <2>1
  <2> QED BY <1>8, <1>22, <2>2, <2>3
<1>36. /\ s[16] = MI(PUSH1, Imm(4)) /\ s[17] = Plain(GETPC) /\ s[18] = Plain(ADD)
       /\ s[19] = Plain(SWAP1 + n - 1) /\ s[20] = Plain(JUMP)
  BY <1>34
<1>37. /\ s[21] = Plain(JUMPDEST) /\ s[22] = N(FPAddr) /\ s[23] = Plain(MLOAD) /\ s[24] = N(32)
       /\ s[25] = Plain(SWAP1) /\ s[26] = Plain(SUB) /\ s[27] = Plain(MLOAD)
       /\ s[28] = N(FPAddr) /\ s[29] = Plain(MSTORE)
  BY <1>35
<1>38. CallTable(s, n, f)
  BY <1>33, <1>36, <1>37 DEF CallTable, i
<1> QED BY <1>28, <1>29, <1>38 DEF s

LEMMA ConstCode ==
  ASSUME NEW m, NEW f, IsConst(m)
  PROVE  /\ PassOK(m, f) /\ Len(Shrunk(m, f)) = 1
         /\ IsNumberPush(Shrunk(m, f)[1], Word(m.arg.bytes))
<1>1. m.op = PUSH32 /\ m.arg \in Constants
  BY DEF IsConst
<1>2. m.op \notin {pJUMPTO, pJUMPIF, pGETLOCAL, pPUTLOCAL} /\ m.op \in 0 .. 255
  BY <1>1 DEF PUSH32, pJUMPTO, pJUMPIF, pGETLOCAL, pPUTLOCAL
<1>3. Conv(m, f) = << m >>
  BY <1>2, KeptByConv
<1>4. Unshrunk(m)
  BY <1>1 DEF Unshrunk
<1>5. /\ PassOK(m, f) /\ Len(Shrunk(m, f)) = 1
      /\ ShrinkPush(m) = << Shrunk(m, f)[1] >>
  BY <1>2, <1>3, <1>4, SingleOK
<1>6. PICK r : ShrinkPush(m) = << r >> /\ IsNumberPush(r, Word(m.arg.bytes))
  BY <1>1, ShrinkConstant
<1>7. Shrunk(m, f)[1] = r
  BY <1>5, <1>6
<1> QED BY <1>5, <1>6, <1>7

LEMMA AddressCode ==
  ASSUME NEW m, NEW f, IsAddress(m)
  PROVE  /\ PassOK(m, f) /\ Len(Shrunk(m, f)) = 1
         /\ Shrunk(m, f)[1] = MI(PUSH1 + 1, m.arg)
<1>1. PICK g \in DOMAIN Program : m.arg = Symbol(g, 1)
  BY DEF IsAddress
<1>2. m.op = PUSH32 /\ 1 \in 1 .. Len(Blks(g)) /\ m.arg.kind = "symbol"
  BY <1>1, FunctionIs DEF IsAddress, Symbol
<1>3. m.op \notin {pJUMPTO, pJUMPIF, pGETLOCAL, pPUTLOCAL} /\ m.op \in 0 .. 255
  BY <1>2 DEF PUSH32, pJUMPTO, pJUMPIF, pGETLOCAL, pPUTLOCAL
<1>4. Conv(m, f) = << m >>
  BY <1>3, KeptByConv
<1>5. Unshrunk(m)
  BY <1>1, <1>2 DEF Unshrunk
<1>6. /\ PassOK(m, f) /\ Len(Shrunk(m, f)) = 1
      /\ ShrinkPush(m) = << Shrunk(m, f)[1] >>
  BY <1>3, <1>4, <1>5, SingleOK
<1>7. GetPushOpcode(2) = PUSH1 + 1
  BY DEF GetPushOpcode, PUSH1
<1>8. ShrinkPush(m) = << MI(PUSH1 + 1, m.arg) >>
  BY <1>2, <1>7 DEF ShrinkPush
<1> QED BY <1>6, <1>8

LEMMA SimpleCode ==
  ASSUME NEW m, NEW f, IsSimple(m)
  PROVE  /\ PassOK(m, f) /\ Len(Shrunk(m, f)) = 1
         /\ Shrunk(m, f)[1].op = IF m.op = pRETURNSUB THEN JUMP ELSE m.op
         /\ Shrunk(m, f)[1].arg = NoOperand
         /\ Shrunk(m, f)[1] = IF m.op = pRETURNSUB THEN Plain(JUMP) ELSE m
<1>1. m.op \notin {pJUMPTO, pJUMPIF, pGETLOCAL, pPUTLOCAL}
  BY DEF IsSimple, CALLDATASIZE, POP, STOP, pRETURNSUB, pJUMPTO, pJUMPIF, pGETLOCAL, pPUTLOCAL
<1>2. CASE m.op = pRETURNSUB
  <2>1. Conv(m, f) = << Plain(JUMP) >>
    BY <1>2, PseudosDiffer DEF Conv, ConvertInstr
  <2>2. JUMP \in 0 .. 255 /\ ~IsPush(JUMP)
    BY PlainOps
  <2>3. Unshrunk(Plain(JUMP)) /\ ShrinkPush(Plain(JUMP)) = << Plain(JUMP) >>
    BY <2>2, PlainShrinks
  <2>4. /\ PassOK(m, f) /\ Len(Shrunk(m, f)) = 1
        /\ ShrinkPush(Plain(JUMP)) = << Shrunk(m, f)[1] >>
    BY <1>1, <2>1, <2>3, SingleOK
  <2>5. Shrunk(m, f)[1] = Plain(JUMP)
    BY <2>3, <2>4
  <2> QED BY <1>2, <2>4, <2>5 DEF Plain, MI
<1>3. CASE m.op # pRETURNSUB
  <2>1. m.op \in {CALLDATASIZE, POP, STOP} /\ m.arg = NoOperand
    BY <1>3 DEF IsSimple
  <2>2. m.op \in 0 .. 255 /\ ~IsPush(m.op)
    BY <2>1, PlainOps
  <2>3. Conv(m, f) = << m >>
    BY <2>2, KeptByConv
  <2>4. m.op # PUSH32
    BY <2>2 DEF IsPush, PUSH1, PUSH32
  <2>5. ShrinkPush(m) = << m >> /\ Unshrunk(m)
    BY <2>1, <2>2, <2>4 DEF ShrinkPush, Unshrunk, IsPlain
  <2>6. /\ PassOK(m, f) /\ Len(Shrunk(m, f)) = 1
        /\ ShrinkPush(m) = << Shrunk(m, f)[1] >>
    BY <1>1, <2>3, <2>5, SingleOK
  <2>7. Shrunk(m, f)[1] = m
    BY <2>5, <2>6
  <2> QED BY <1>3, <2>1, <2>6, <2>7
<1> QED BY <1>2, <1>3

SwapDupOp(m, n) == IF m.op = SWAP_r THEN SWAP1 + n - 1 ELSE DUP1 + n - 1

LEMMA SwapDupCode ==
  ASSUME NEW m, NEW f, m.op \in {SWAP_r, DUP_r}, NEW n \in 1 .. 16, m.arg = Count(n)
  PROVE  /\ PassOK(m, f) /\ Len(Shrunk(m, f)) = 1
         /\ Shrunk(m, f)[1] = Plain(SwapDupOp(m, n))
<1> DEFINE op == IF m.op = SWAP_r THEN SWAP1 + n - 1 ELSE DUP1 + n - 1
<1>1. m.op \notin {pJUMPTO, pJUMPIF, pGETLOCAL, pPUTLOCAL}
  BY DEF SWAP_r, DUP_r, pJUMPTO, pJUMPIF, pGETLOCAL, pPUTLOCAL
<1>2. m.arg.n = n
  BY DEF Count
<1>3. Conv(m, f) = << Plain(op) >>
  <2>1. CASE m.op = SWAP_r
    <3>1. ConvertSWAP(n) = Plain(SWAP1 + n - 1)
      BY DEF ConvertSWAP, SWAPOpcode
    <3> QED BY <1>2, <2>1, <3>1, PseudosDiffer DEF Conv, ConvertInstr
  <2>2. CASE m.op = DUP_r
    <3>1. m.op # SWAP_r
      BY <2>2, PseudosDiffer
    <3> QED BY <1>2, <2>2, <3>1, PseudosDiffer DEF Conv, ConvertInstr, DUPOpcode
  <2> QED BY <2>1, <2>2
<1>4. op \in 0 .. 255 /\ ~IsPush(op)
  BY DEF SWAP1, DUP1, IsPush, PUSH1, PUSH32
<1> HIDE DEF op
<1>5. Unshrunk(Plain(op)) /\ ShrinkPush(Plain(op)) = << Plain(op) >>
  BY <1>4, PlainShrinks
<1>6. /\ PassOK(m, f) /\ Len(Shrunk(m, f)) = 1
      /\ ShrinkPush(Plain(op)) = << Shrunk(m, f)[1] >>
  BY <1>1, <1>3, <1>5, SingleOK
<1>7. Shrunk(m, f)[1] = Plain(op)
  BY <1>5, <1>6
<1> QED BY <1>6, <1>7 DEF op, SwapDupOp

LEMMA SourceOK ==
  ASSUME NEW m, NEW f \in DOMAIN Program, IsSource(m, f)
  PROVE  PassOK(m, f)
<1>1. CASE IsConst(m)
  BY <1>1, ConstCode
<1>2. CASE IsAddress(m)
  BY <1>2, AddressCode
<1>3. CASE IsSimple(m)
  BY <1>3, SimpleCode
<1>4. CASE IsCounted(m)
  <2>1. PICK n \in 1 .. 16 : m.arg = Count(n)
    BY <1>4 DEF IsCounted
  <2>2. CASE m.op \in {SWAP_r, DUP_r}
    BY <2>1, <2>2, SwapDupCode, SMTT(30)
  <2>3. CASE m.op = pJUMPSUB
    BY <2>1, <2>3, CallCode
  <2> QED BY <1>4, <2>2, <2>3 DEF IsCounted
<1>5. CASE IsLocal(m, f)
  BY <1>5, LocalCode
<1>6. CASE IsJump(m, f)
  BY <1>6, JumpCode
<1> QED BY <1>1, <1>2, <1>3, <1>4, <1>5, <1>6 DEF IsSource

(* A JUMPDEST in front of the first part.                                  *)
LEMMA PrefixLaid ==
  ASSUME NEW ps, NEW qs, Parts(ps), Parts(qs), Len(qs) = Len(ps),
         NEW c, Laid(c, ps), Len(c) > 0,
         NEW z, IsSeq(z), Len(z) = 1, qs[1] = z \o ps[1],
         \A i \in 2 .. Len(ps) : qs[i] = ps[i]
  PROVE  Laid(z \o c, qs)
<1> DEFINE d == z \o c
           m == Len(ps)
<1>1. PICK I, J : Chain(c, ps, I, J)
  BY DEF Laid
<1>2. IsSeq(c) /\ Len(c) \in Nat /\ m \in Nat /\ Joined(d, z, c)
  BY SeqFacts, SeqJoined DEF Laid, Parts
<1>3. m # 0
  <2>1. Len(c) = 0 <=> m = 0
    BY <1>1 DEF Chain
  <2> QED BY <1>2, <2>1
<1>4. IsSeq(ps[1]) /\ Len(ps[1]) \in Nat /\ Len(ps[1]) > 0 /\ Joined(qs[1], z, ps[1])
  <2>1. 1 \in 1 .. m
    BY <1>2, <1>3
  <2> QED BY <2>1, SeqFacts, SeqJoined DEF Parts
<1> HIDE DEF d
<1>5. IsSeq(d) /\ Len(d) = Len(c) + 1 /\ d[1] = z[1] /\ \A x \in 1 .. Len(c) : d[1 + x] = c[x]
  BY <1>2 DEF Joined
<1>6. Len(qs[1]) = Len(ps[1]) + 1 /\ qs[1][1] = z[1] /\ \A k \in 1 .. Len(ps[1]) : qs[1][1 + k] = ps[1][k]
  BY <1>2, <1>4 DEF Joined
<1> DEFINE I2 == [x \in 1 .. Len(d) |-> IF x = 1 THEN 1 ELSE I[x - 1]]
           J2 == [x \in 1 .. Len(d) |-> IF x = 1 THEN 1
                                        ELSE IF I[x - 1] = 1 THEN J[x - 1] + 1 ELSE J[x - 1]]
<1>7. 1 \in 1 .. Len(d) /\ I2[1] = 1 /\ J2[1] = 1
  BY <1>2, <1>5
<1>8. \A y \in 1 .. Len(c) : /\ 1 + y \in 1 .. Len(d) /\ I2[1 + y] = I[y]
                             /\ J2[1 + y] = IF I[y] = 1 THEN J[y] + 1 ELSE J[y]
  <2> SUFFICES ASSUME NEW y \in 1 .. Len(c)
               PROVE  /\ 1 + y \in 1 .. Len(d) /\ I2[1 + y] = I[y]
                      /\ J2[1 + y] = IF I[y] = 1 THEN J[y] + 1 ELSE J[y]
    OBVIOUS
  <2>1. 1 + y \in 1 .. Len(d) /\ (1 + y) - 1 = y /\ 1 + y # 1
    BY <1>2, <1>5
  <2> QED BY <2>1
<1>9. \A x \in 1 .. Len(d) : x = 1 \/ \E y \in 1 .. Len(c) : x = 1 + y
  <2> SUFFICES ASSUME NEW x \in 1 .. Len(d), x # 1 PROVE \E y \in 1 .. Len(c) : x = 1 + y
    OBVIOUS
  <2>1. x - 1 \in 1 .. Len(c) /\ x = 1 + (x - 1)
    BY <1>2, <1>5
  <2> QED BY <2>1
<1> HIDE DEF I2, J2
<1>10. \A x \in 1 .. Len(c) :
       /\ I[x] \in 1 .. m /\ J[x] \in 1 .. Len(ps[I[x]])
       /\ c[x] = ps[I[x]][J[x]]
       /\ x = 1 => I[x] = 1 /\ J[x] = 1
       /\ x = Len(c) => I[x] = m /\ J[x] = Len(ps[I[x]])
  BY <1>1 DEF Chain
<1>11. \A x \in 1 .. Len(c) - 1 :
       IF J[x] < Len(ps[I[x]]) THEN I[x + 1] = I[x] /\ J[x + 1] = J[x] + 1
       ELSE I[x + 1] = I[x] + 1 /\ J[x + 1] = 1
  BY <1>1 DEF Chain
<1>12. \A x, y \in 1 .. Len(c) : x < y => I[x] < I[y] \/ (I[x] = I[y] /\ J[x] < J[y])
  BY <1>1 DEF Chain
<1>13. \A i \in 1 .. m : Len(ps[i]) \in Nat /\ (i # 1 => qs[i] = ps[i])
  BY <1>2, SeqFacts DEF Parts
<1>14. m \in Nat /\ Len(qs) = m
  BY <1>2
<1> HIDE DEF m
<1>20. ASSUME NEW y \in 1 .. Len(c)
       PROVE  /\ I2[1 + y] \in 1 .. m /\ J2[1 + y] \in 1 .. Len(qs[I2[1 + y]])
              /\ d[1 + y] = qs[I2[1 + y]][J2[1 + y]]
              /\ 1 + y = Len(d) => I2[1 + y] = m /\ J2[1 + y] = Len(qs[I2[1 + y]])
  <2>1. /\ I2[1 + y] = I[y] /\ d[1 + y] = c[y] /\ c[y] = ps[I[y]][J[y]] /\ I[y] \in 1 .. m
        /\ J[y] \in 1 .. Len(ps[I[y]]) /\ Len(ps[I[y]]) \in Nat
        /\ J2[1 + y] = IF I[y] = 1 THEN J[y] + 1 ELSE J[y]
    BY <1>5, <1>8, <1>10, <1>13
  <2>2. 1 + y = Len(d) => I[y] = m /\ J[y] = Len(ps[I[y]])
    BY <1>2, <1>5, <1>10
  <2>3. CASE I[y] = 1
    <3>1. J2[1 + y] = J[y] + 1 /\ Len(ps[1]) \in Nat /\ J[y] \in 1 .. Len(ps[1])
      BY <2>1, <2>3
    <3>2. J[y] + 1 \in 1 .. Len(qs[1]) /\ (J[y] = Len(ps[1]) => J[y] + 1 = Len(qs[1]))
      BY <1>6, <3>1, SMTT(30)
    <3>3. qs[1][J[y] + 1] = ps[1][J[y]]
      <4>1. J[y] + 1 = 1 + J[y]
        BY <3>1
      <4> QED BY <1>6, <3>1, <4>1
    <3> QED BY <2>1, <2>2, <2>3, <3>1, <3>2, <3>3
  <2>4. CASE I[y] # 1
    <3>1. qs[I[y]] = ps[I[y]] /\ J2[1 + y] = J[y]
      BY <1>13, <2>1, <2>4
    <3> QED BY <2>1, <2>2, <3>1
  <2> QED BY <2>3, <2>4
<1>21. ASSUME NEW x \in 1 .. Len(d)
       PROVE  /\ I2[x] \in 1 .. m /\ J2[x] \in 1 .. Len(qs[I2[x]])
              /\ d[x] = qs[I2[x]][J2[x]]
              /\ x = 1 => I2[x] = 1 /\ J2[x] = 1
              /\ x = Len(d) => I2[x] = m /\ J2[x] = Len(qs[I2[x]])
  <2>1. CASE x = 1
    <3>1. 1 \in 1 .. m /\ 1 \in 1 .. Len(qs[1]) /\ 1 # Len(d)
      BY <1>2, <1>3, <1>4, <1>5, <1>6, <1>14 DEF m
    <3> QED BY <1>5, <1>6, <1>7, <2>1, <3>1
  <2>2. CASE x # 1
    <3>1. PICK y \in 1 .. Len(c) : x = 1 + y
      BY <1>9, <2>2
    <3> QED BY <1>20, <2>2, <3>1
  <2> QED BY <2>1, <2>2
<1>22. ASSUME NEW x \in 1 .. Len(d) - 1
       PROVE  IF J2[x] < Len(qs[I2[x]]) THEN I2[x + 1] = I2[x] /\ J2[x + 1] = J2[x] + 1
              ELSE I2[x + 1] = I2[x] + 1 /\ J2[x + 1] = 1
  <2>0. x \in 1 .. Len(d) /\ x \in 1 .. Len(c) /\ x + 1 = 1 + x
    BY <1>2, <1>5
  <2>1. I2[x + 1] = I[x] /\ J2[x + 1] = IF I[x] = 1 THEN J[x] + 1 ELSE J[x]
    BY <1>8, <2>0
  <2>2. CASE x = 1
    <3>1. I[x] = 1 /\ J[x] = 1 /\ Len(qs[1]) > 1
      BY <1>4, <1>6, <1>10, <2>0, <2>2
    <3> QED BY <1>7, <2>1, <2>2, <3>1
  <2>3. CASE x # 1
    <3> DEFINE y == x - 1
    <3>1. y \in 1 .. Len(c) /\ y \in 1 .. Len(c) - 1 /\ x = 1 + y /\ x = y + 1
      BY <1>2, <2>0, <2>3
    <3>2. I2[x] = I[y] /\ J2[x] = IF I[y] = 1 THEN J[y] + 1 ELSE J[y]
      BY <1>8, <3>1
    <3>3. IF J[y] < Len(ps[I[y]]) THEN I[x] = I[y] /\ J[x] = J[y] + 1
          ELSE I[x] = I[y] + 1 /\ J[x] = 1
      BY <1>11, <3>1
    <3>4. I[y] \in 1 .. m /\ J[y] \in 1 .. Len(ps[I[y]]) /\ Len(ps[I[y]]) \in Nat
      BY <1>10, <1>13, <3>1
    <3> HIDE DEF y
    <3>5. CASE I[y] = 1
      <4>1. J2[x] = J[y] + 1 /\ Len(qs[I2[x]]) = Len(ps[I[y]]) + 1
        BY <1>6, <3>2, <3>5
      <4>2. CASE J[y] < Len(ps[I[y]])
        BY <2>1, <3>2, <3>3, <3>4, <3>5, <4>1, <4>2
      <4>3. CASE ~(J[y] < Len(ps[I[y]]))
        <5>1. I[x] = 2 /\ J[x] = 1
          BY <3>3, <3>5, <4>3
        <5> QED BY <2>1, <3>2, <3>4, <3>5, <4>1, <4>3, <5>1
      <4> QED BY <4>2, <4>3
    <3>6. CASE I[y] # 1
      <4>1. J2[x] = J[y] /\ Len(qs[I2[x]]) = Len(ps[I[y]])
        BY <1>13, <3>2, <3>4, <3>6
      <4>2. I[x] # 1
        BY <3>3, <3>4, <3>6
      <4> QED BY <2>1, <3>2, <3>3, <4>1, <4>2
    <3> QED BY <3>5, <3>6
  <2> QED BY <2>2, <2>3
<1>23. ASSUME NEW x \in 1 .. Len(d), NEW y \in 1 .. Len(d), x < y
       PROVE  I2[x] < I2[y] \/ (I2[x] = I2[y] /\ J2[x] < J2[y])
  <2>1. y # 1
    BY <1>23
  <2>2. PICK v \in 1 .. Len(c) : y = 1 + v
    BY <1>9, <2>1
  <2>3. /\ I2[y] = I[v] /\ J2[y] = IF I[v] = 1 THEN J[v] + 1 ELSE J[v]
        /\ I[v] \in 1 .. m /\ J[v] \in 1 .. Len(ps[I[v]])
    BY <1>8, <1>10, <2>2
  <2>4. CASE x = 1
    BY <1>7, <2>3, <2>4
  <2>5. CASE x # 1
    <3>1. PICK u \in 1 .. Len(c) : x = 1 + u
      BY <1>9, <2>5
    <3>2. /\ I2[x] = I[u] /\ J2[x] = IF I[u] = 1 THEN J[u] + 1 ELSE J[u]
          /\ I[u] \in 1 .. m /\ J[u] \in 1 .. Len(ps[I[u]])
      BY <1>8, <1>10, <3>1
    <3>3. u < v
      BY <1>23, <2>2, <3>1
    <3>4. I[u] < I[v] \/ (I[u] = I[v] /\ J[u] < J[v])
      BY <1>12, <3>3
    <3> QED BY <2>3, <3>2, <3>4, SMTT(30)
  <2> QED BY <2>4, <2>5
<1>24. Len(d) # 0 /\ m # 0
  BY <1>2, <1>3, <1>5 DEF m
<1>25. Chain(d, qs, I2, J2)
  BY <1>14, <1>21, <1>22, <1>23, <1>24 DEF Chain
<1> QED BY <1>5, <1>25 DEF Laid, d

-----------------------------------------------------------------------------
(* What has become of the instructions of a block, pass by pass.           *)
Size(f, b) == Len(Blks(f)[b])
Row0(ch, f, b) == [i \in 1 .. Size(f, b) |-> << Src(ch, <<f, b, i>>) >>]
Row1(ch, f, b) == [i \in 1 .. Size(f, b) |-> Expanded(Src(ch, <<f, b, i>>), f)]
Row2(ch, f, b) == [i \in 1 .. Size(f, b) |-> Converted(Src(ch, <<f, b, i>>), f)]
Row3(ch, f, b) == [i \in 1 .. Size(f, b) |-> Shrunk(Src(ch, <<f, b, i>>), f)]

(* ... and the replacements of the three passes.                           *)
By1(ch, f, b) == [i \in 1 .. Size(f, b) |-> [k \in 1 .. 1 |-> Row1(ch, f, b)[i]]]
By2(ch, f, b) ==
  [i \in 1 .. Size(f, b) |->
     [k \in 1 .. Len(Row1(ch, f, b)[i]) |-> Conv(Row1(ch, f, b)[i][k], f)]]
By3(ch, f, b) ==
  [i \in 1 .. Size(f, b) |->
     [k \in 1 .. Len(Row2(ch, f, b)[i]) |-> ShrinkPush(Row2(ch, f, b)[i][k])]]

LaidOn(c, f, b, E) == Laid(c, PartsOf(f, b, Size(f, b), E))

LEMMA InBlock ==
  ASSUME NEW f \in DOMAIN Program, NEW b \in 1 .. Len(Blks(f)), NEW ch \in Operands
  PROVE  /\ Size(f, b) \in Nat
         /\ \A i \in 1 .. Size(f, b) :
              <<f, b, i>> \in Positions /\ PassOK(Src(ch, <<f, b, i>>), f)
<1>1. Size(f, b) \in Nat
  BY FunctionIs DEF Size
<1>2. ASSUME NEW i \in 1 .. Size(f, b)
      PROVE  <<f, b, i>> \in Positions /\ PassOK(Src(ch, <<f, b, i>>), f)
  <2> DEFINE p == <<f, b, i>>
  <2>1. p[1] = f /\ p[2] = b /\ p[3] = i
    OBVIOUS
  <2>2. b \in Nat /\ i \in Nat
    BY <1>1, FunctionIs
  <2>3. p \in Positions
    BY <2>1, <2>2 DEF Positions, Size
  <2> HIDE DEF p
  <2>4. IsSource(Src(ch, p), f)
    BY <2>1, <2>3, SourceIs
  <2>5. PassOK(Src(ch, p), f)
    BY <2>4, SourceOK
  <2> QED BY <2>3, <2>5 DEF p
<1> QED BY <1>1, <1>2

LEMMA Replaced1 ==
  ASSUME NEW f \in DOMAIN Program, NEW b \in 1 .. Len(Blks(f)), NEW ch \in Operands
  PROVE  Replaced(Size(f, b), Row0(ch, f, b), By1(ch, f, b), Row1(ch, f, b))
<1> DEFINE E == Row0(ch, f, b)
           X == By1(ch, f, b)
           G == Row1(ch, f, b)
<1>1. ASSUME NEW i \in 1 .. Size(f, b)
      PROVE  /\ IsSeq(E[i]) /\ Len(E[i]) > 0
             /\ \A k \in 1 .. Len(E[i]) : IsSeq(X[i][k]) /\ Len(X[i][k]) > 0
             /\ IF Len(E[i]) = 1 THEN G[i] = X[i][1]
                ELSE /\ \A k \in 1 .. Len(E[i]) : Len(X[i][k]) = 1
                     /\ G[i] = [k \in 1 .. Len(E[i]) |-> X[i][k][1]]
  <2>1. E[i] = << Src(ch, <<f, b, i>>) >>
    BY DEF Row0
  <2>2. G[i] = Expanded(Src(ch, <<f, b, i>>), f)
    BY DEF Row1
  <2>3. PassOK(Src(ch, <<f, b, i>>), f)
    BY InBlock
  <2>4. IsSeq(G[i]) /\ Len(G[i]) > 0
    BY <2>2, <2>3 DEF PassOK
  <2>5. X[i] = [k \in 1 .. 1 |-> G[i]]
    BY DEF By1
  <2>6. \A k \in 1 .. 1 : X[i][k] = G[i]
    BY <2>5
  <2>7. IsSeq(E[i]) /\ Len(E[i]) = 1
    BY <2>1, OneIs
  <2> HIDE DEF E, X, G
  <2> QED BY <2>4, <2>6, <2>7
<1> QED BY <1>1 DEF Replaced

LEMMA Replaced2 ==
  ASSUME NEW f \in DOMAIN Program, NEW b \in 1 .. Len(Blks(f)), NEW ch \in Operands
  PROVE  Replaced(Size(f, b), Row1(ch, f, b), By2(ch, f, b), Row2(ch, f, b))
<1> DEFINE E == Row1(ch, f, b)
           X == By2(ch, f, b)
           G == Row2(ch, f, b)
<1>1. ASSUME NEW i \in 1 .. Size(f, b)
      PROVE  /\ IsSeq(E[i]) /\ Len(E[i]) > 0
             /\ \A k \in 1 .. Len(E[i]) : IsSeq(X[i][k]) /\ Len(X[i][k]) > 0
             /\ IF Len(E[i]) = 1 THEN G[i] = X[i][1]
                ELSE /\ \A k \in 1 .. Len(E[i]) : Len(X[i][k]) = 1
                     /\ G[i] = [k \in 1 .. Len(E[i]) |-> X[i][k][1]]
  <2> DEFINE m == Src(ch, <<f, b, i>>)
             e == Expanded(m, f)
  <2>1. E[i] = e /\ G[i] = Converted(m, f)
    BY DEF Row1, Row2
  <2>2. X[i] = [k \in 1 .. Len(E[i]) |-> Conv(E[i][k], f)]
    BY DEF By2
  <2>3. \A k \in 1 .. Len(e) : X[i][k] = Conv(e[k], f)
    BY <2>1, <2>2
  <2>4. PassOK(m, f)
    BY InBlock
  <2>5. IsSeq(e) /\ Len(e) > 0 /\ Len(e) \in Nat
    BY <2>4, SeqFacts DEF PassOK
  <2>6. \A k \in 1 .. Len(e) : /\ IsSeq(Conv(e[k], f)) /\ Len(Conv(e[k], f)) > 0
                               /\ Len(e) # 1 => Len(Conv(e[k], f)) = 1
    BY <2>4 DEF PassOK
  <2>7. Converted(m, f) = IF Len(e) = 1 THEN Conv(e[1], f) ELSE [k \in 1 .. Len(e) |-> Conv(e[k], f)[1]]
    BY DEF Converted
  <2> HIDE DEF E, X, G, m, e
  <2>8. CASE Len(e) = 1
    <3>1. X[i][1] = Conv(e[1], f)
      BY <2>3, <2>8
    <3>2. G[i] = X[i][1]
      BY <2>1, <2>7, <2>8, <3>1
    <3> QED BY <2>1, <2>3, <2>5, <2>6, <2>8, <3>2
  <2>9. CASE Len(e) # 1
    <3>1. [k \in 1 .. Len(e) |-> Conv(e[k], f)[1]] = [k \in 1 .. Len(e) |-> X[i][k][1]]
      BY <2>3
    <3>2. G[i] = [k \in 1 .. Len(e) |-> X[i][k][1]]
      BY <2>1, <2>7, <2>9, <3>1
    <3> QED BY <2>1, <2>3, <2>5, <2>6, <2>9, <3>2
  <2> QED BY <2>8, <2>9
<1> QED BY <1>1 DEF Replaced

LEMMA Replaced3 ==
  ASSUME NEW f \in DOMAIN Program, NEW b \in 1 .. Len(Blks(f)), NEW ch \in Operands
  PROVE  Replaced(Size(f, b), Row2(ch, f, b), By3(ch, f, b), Row3(ch, f, b))
<1> DEFINE E == Row2(ch, f, b)
           X == By3(ch, f, b)
           G == Row3(ch, f, b)
<1>1. ASSUME NEW i \in 1 .. Size(f, b)
      PROVE  /\ IsSeq(E[i]) /\ Len(E[i]) > 0
             /\ \A k \in 1 .. Len(E[i]) : IsSeq(X[i][k]) /\ Len(X[i][k]) > 0
             /\ IF Len(E[i]) = 1 THEN G[i] = X[i][1]
                ELSE /\ \A k \in 1 .. Len(E[i]) : Len(X[i][k]) = 1
                     /\ G[i] = [k \in 1 .. Len(E[i]) |-> X[i][k][1]]
  <2> DEFINE m == Src(ch, <<f, b, i>>)
             e == Converted(m, f)
  <2>1. E[i] = e /\ G[i] = Shrunk(m, f)
    BY DEF Row2, Row3
  <2>2. X[i] = [k \in 1 .. Len(E[i]) |-> ShrinkPush(E[i][k])]
    BY DEF By3
  <2>3. \A k \in 1 .. Len(e) : X[i][k] = ShrinkPush(e[k])
    BY <2>1, <2>2
  <2>4. PassOK(m, f)
    BY InBlock
  <2>5. IsSeq(e) /\ Len(e) > 0 /\ Len(e) \in Nat
    BY <2>4, SeqFacts DEF PassOK
  <2>6. \A k \in 1 .. Len(e) : IsSeq(ShrinkPush(e[k])) /\ Len(ShrinkPush(e[k])) = 1
    BY <2>4, ShrunkIs, OneIs
  <2>60. \A k \in 1 .. Len(e) : IsSeq(X[i][k]) /\ Len(X[i][k]) = 1
    BY <2>3, <2>6
  <2>7. Shrunk(m, f) = IF Len(e) = 1 THEN ShrinkPush(e[1]) ELSE [k \in 1 .. Len(e) |-> ShrinkPush(e[k])[1]]
    BY DEF Shrunk
  <2> HIDE DEF E, X, G, m, e
  <2>61. \A k \in 1 .. Len(e) : Len(X[i][k]) > 0
    BY <2>60
  <2>8. CASE Len(e) = 1
    <3>1. X[i][1] = ShrinkPush(e[1])
      BY <2>3, <2>8
    <3>2. G[i] = X[i][1]
      BY <2>1, <2>7, <2>8, <3>1
    <3> QED BY <2>1, <2>5, <2>60, <2>61, <2>8, <3>2
  <2>9. CASE Len(e) # 1
    <3>1. [k \in 1 .. Len(e) |-> ShrinkPush(e[k])[1]] = [k \in 1 .. Len(e) |-> X[i][k][1]]
      BY <2>3
    <3>2. G[i] = [k \in 1 .. Len(e) |-> X[i][k][1]]
      BY <2>1, <2>7, <2>9, <3>1
    <3> QED BY <2>1, <2>5, <2>60, <2>61, <2>9, <3>2
  <2> QED BY <2>8, <2>9
<1> QED BY <1>1 DEF Replaced

-----------------------------------------------------------------------------
(* What is written for the instruction at p.                               *)
Final(ch, p) ==
  IF p[3] = 1 THEN << Plain(JUMPDEST) >> \o Shrunk(Src(ch, p), p[1])
  ELSE Shrunk(Src(ch, p), p[1])
Row4(ch, f, b) == [i \in 1 .. Size(f, b) |-> Final(ch, <<f, b, i>>)]

RowOf(st, ch, f, b) ==
  CASE st = "expand"   -> Row0(ch, f, b)
    [] st = "convert"  -> Row1(ch, f, b)
    [] st = "shrink"   -> Row2(ch, f, b)
    [] st = "finalize" -> Row3(ch, f, b)
    [] OTHER           -> Row4(ch, f, b)

CodeIs(c, st, ch, f) ==
  /\ IsSeq(c) /\ Len(c) = Len(Blks(f))
  /\ \A b \in 1 .. Len(Blks(f)) : LaidOn(c[b], f, b, RowOf(st, ch, f, b))

LEMMA SelectedIs ==
  ASSUME NEW f \in DOMAIN Program, chosen \in Operands
  PROVE  CodeIs(Selected(f), "expand", chosen, f)
<1> DEFINE c == Selected(f)
           L == Len(Blks(f))
<1>1. L \in Nat /\ DOMAIN Blks(f) = 1 .. L
  BY FunctionIs
<1>2. \A b \in 1 .. L : DOMAIN Blks(f)[b] = 1 .. Size(f, b) /\ Size(f, b) \in Nat
  BY FunctionIs DEF Size
<1>3. c = [b \in 1 .. L |-> [i \in 1 .. Size(f, b) |->
                 [from |-> <<f, b, i>>, mi |-> Src(chosen, <<f, b, i>>)]]]
  BY <1>1, <1>2 DEF Selected, Src, SrcAt, Blks
<1>4. c = [b \in 1 .. L |-> c[b]]
  BY <1>3
<1> HIDE DEF c
<1>5. IsSeq(c) /\ Len(c) = L
  BY <1>1, <1>4, SeqFunction
<1>6. ASSUME NEW b \in 1 .. L PROVE LaidOn(c[b], f, b, Row0(chosen, f, b))
  <2> DEFINE E == Row0(chosen, f, b)
             n == Size(f, b)
             ps == PartsOf(f, b, n, E)
             d == c[b]
             I == [x \in 1 .. n |-> x]
             J == [x \in 1 .. n |-> 1]
  <2>1. d = [i \in 1 .. n |-> [from |-> <<f, b, i>>, mi |-> Src(chosen, <<f, b, i>>)]]
    BY <1>3
  <2>2. n \in Nat /\ d = [i \in 1 .. n |-> d[i]]
    BY <1>2, <2>1
  <2>3. \A i \in 1 .. n : E[i] = << Src(chosen, <<f, b, i>>) >>
    BY DEF Row0
  <2>4. \A i \in 1 .. n : IsSeq(E[i]) /\ Len(E[i]) = 1 /\ E[i][1] = Src(chosen, <<f, b, i>>)
    BY <2>3, OneIs
  <2> HIDE DEF E
  <2>5. \A i \in 1 .. n : IsSeq(E[i]) /\ Len(E[i]) > 0
    <3> SUFFICES ASSUME NEW i \in 1 .. n PROVE IsSeq(E[i]) /\ Len(E[i]) > 0
      OBVIOUS
    <3>1. IsSeq(E[i]) /\ Len(E[i]) = 1
      BY <2>4
    <3> QED BY <3>1
  <2>6. ArePartsOf(ps, f, b, n, E)
    BY <2>2, <2>5, PartsOfIs
  <2> HIDE DEF ps, n, d
  <2>7. /\ Len(ps) = n /\ \A i \in 1 .. n : /\ Len(ps[i]) = 1
                          /\ ps[i][1] = [from |-> <<f, b, i>>, mi |-> Src(chosen, <<f, b, i>>)]
    BY <2>4, <2>6 DEF ArePartsOf
  <2>8. IsSeq(d) /\ Len(d) = n
    BY <2>2, SeqFunction
  <2>9. \A x \in 1 .. n : I[x] = x /\ J[x] = 1 /\ d[x] = ps[x][1]
    BY <2>1, <2>7
  <2> HIDE DEF I, J
  <2>10. Chain(d, ps, I, J)
    <3>1. \A x \in 1 .. n :
            /\ I[x] \in 1 .. n /\ J[x] \in 1 .. Len(ps[I[x]])
            /\ d[x] = ps[I[x]][J[x]]
            /\ x = 1 => I[x] = 1 /\ J[x] = 1
            /\ x = n => I[x] = n /\ J[x] = Len(ps[I[x]])
      <4> SUFFICES ASSUME NEW x \in 1 .. n
                   PROVE  /\ I[x] \in 1 .. n /\ J[x] \in 1 .. Len(ps[I[x]])
                          /\ d[x] = ps[I[x]][J[x]]
                          /\ x = 1 => I[x] = 1 /\ J[x] = 1
                          /\ x = n => I[x] = n /\ J[x] = Len(ps[I[x]])
        OBVIOUS
      <4>1. I[x] = x /\ J[x] = 1 /\ d[x] = ps[x][1] /\ Len(ps[x]) = 1
        BY <2>7, <2>9
      <4> QED BY <4>1
    <3>2. \A x \in 1 .. n - 1 : x \in 1 .. n /\ x + 1 \in 1 .. n
      BY <2>2
    <3>3. \A x \in 1 .. n - 1 :
             IF J[x] < Len(ps[I[x]]) THEN I[x + 1] = I[x] /\ J[x + 1] = J[x] + 1
             ELSE I[x + 1] = I[x] + 1 /\ J[x + 1] = 1
      <4> SUFFICES ASSUME NEW x \in 1 .. n - 1
                   PROVE  IF J[x] < Len(ps[I[x]]) THEN I[x + 1] = I[x] /\ J[x + 1] = J[x] + 1
                          ELSE I[x + 1] = I[x] + 1 /\ J[x + 1] = 1
        OBVIOUS
      <4>1. I[x] = x /\ J[x] = 1 /\ I[x + 1] = x + 1 /\ J[x + 1] = 1 /\ Len(ps[x]) = 1
        BY <2>7, <2>9, <3>2
      <4> QED BY <4>1
    <3>4. \A x, y \in 1 .. n : x < y => I[x] < I[y] \/ (I[x] = I[y] /\ J[x] < J[y])
      BY <2>9
    <3> QED BY <2>7, <2>8, <3>1, <3>3, <3>4 DEF Chain
  <2> QED BY <2>8, <2>10 DEF LaidOn, Laid, d, ps, n, E
<1>7. \A b \in 1 .. L : RowOf("expand", chosen, f, b) = Row0(chosen, f, b)
  BY DEF RowOf
<1> QED BY <1>5, <1>6, <1>7 DEF CodeIs, c

(* The functions of the program are those of the module.                   *)
LEMMA FuncsIs ==
  /\ Funcs \in Seq(DOMAIN Program) /\ Len(Funcs) \in Nat
  /\ \A i \in 1 .. Len(Funcs) : Funcs[i] \in DOMAIN Program
  /\ \A i, j \in 1 .. Len(Funcs) : Funcs[i] = Funcs[j] => i = j
  /\ \A f \in DOMAIN Program : \E i \in 1 .. Len(Funcs) : Funcs[i] = f
<1>1. Funcs \in Seq(DOMAIN Program) /\ IsInjective(Funcs) /\ DOMAIN Program = ToSet(Funcs)
  BY ProgramAssumption
<1>2. Len(Funcs) \in Nat /\ DOMAIN Funcs = 1 .. Len(Funcs) /\ \A i \in 1 .. Len(Funcs) : Funcs[i] \in DOMAIN Program
  BY <1>1, Elements
<1>3. \A i, j \in 1 .. Len(Funcs) : Funcs[i] = Funcs[j] => i = j
  BY <1>1, <1>2 DEF IsInjective
<1>4. \A f \in DOMAIN Program : \E i \in 1 .. Len(Funcs) : Funcs[i] = f
  BY <1>1, <1>2 DEF ToSet
<1> QED BY <1>1, <1>2, <1>3, <1>4

(* The passes over a function, one after the other.                        *)
LEMMA PassIs ==
  ASSUME NEW c, NEW d, NEW f \in DOMAIN Program, NEW st, NEW ch \in Operands,
         IsSeq(c), Len(c) = Len(Blks(f)), d = [b \in DOMAIN c |-> d[b]],
         \A b \in 1 .. Len(Blks(f)) : LaidOn(d[b], f, b, RowOf(st, ch, f, b))
  PROVE  CodeIs(d, st, ch, f)
<1>1. DOMAIN c = 1 .. Len(Blks(f)) /\ Len(Blks(f)) \in Nat
  BY SeqFacts
<1>2. IsSeq(d) /\ Len(d) = Len(Blks(f))
  BY <1>1, SeqFunction
<1> QED BY <1>2 DEF CodeIs

LEMMA ExpandStep ==
  ASSUME NEW f \in DOMAIN Program, f = Fn, chosen \in Operands, CodeIs(code, "expand", chosen, f), ExpandPseudos
  PROVE  CodeIs(code', "convert", chosen, f)
<1> DEFINE d == code'
<1>1. d = [b \in DOMAIN code |-> FlattenSeq([i \in DOMAIN code[b] |->
                Paired(code[b][i].from, Expanded(code[b][i].mi, f))])]
  BY DEF ExpandPseudos, Expanded
<1>2. IsSeq(code) /\ Len(code) = Len(Blks(f)) /\ DOMAIN code = 1 .. Len(Blks(f))
  BY SeqFacts DEF CodeIs
<1>3. d = [b \in DOMAIN code |-> d[b]]
  BY <1>1
<1>4. ASSUME NEW b \in 1 .. Len(Blks(f)) PROVE LaidOn(d[b], f, b, RowOf("convert", chosen, f, b))
  <2> DEFINE E == Row0(chosen, f, b)
             X == By1(chosen, f, b)
             G == Row1(chosen, f, b)
             cb == code[b]
             ts == [i \in DOMAIN cb |-> Paired(cb[i].from, Expanded(cb[i].mi, f))]
  <2>1. d[b] = FlattenSeq(ts)
    BY <1>1, <1>2
  <2>2. Laid(cb, PartsOf(f, b, Size(f, b), E))
    BY DEF CodeIs, LaidOn, RowOf
  <2>3. Replaced(Size(f, b), E, X, G) /\ Size(f, b) \in Nat
    BY Replaced1, InBlock
  <2>4. \A i \in 1 .. Size(f, b) : \A k \in 1 .. Len(E[i]) :
          k = 1 /\ X[i][k] = Expanded(E[i][k], f)
    <3> SUFFICES ASSUME NEW i \in 1 .. Size(f, b), NEW k \in 1 .. Len(E[i])
                 PROVE  k = 1 /\ X[i][k] = Expanded(E[i][k], f)
      OBVIOUS
    <3>1. E[i] = << Src(chosen, <<f, b, i>>) >>
      BY DEF Row0
    <3>2. k = 1 /\ E[i][k] = Src(chosen, <<f, b, i>>)
      BY <3>1, OneIs
    <3>3. X[i][k] = Expanded(Src(chosen, <<f, b, i>>), f)
      BY <3>2 DEF By1, Row1
    <3> QED BY <3>2, <3>3
  <2>5. ts = [n \in DOMAIN cb |-> ts[n]]
    OBVIOUS
  <2>6. \A n \in DOMAIN cb : ts[n] = Paired(cb[n].from, Expanded(cb[n].mi, f))
    OBVIOUS
  <2> HIDE DEF E, X, G, cb, ts
  <2>7. \A n \in DOMAIN cb : \A i \in 1 .. Size(f, b) : \A k \in 1 .. Len(E[i]) :
          cb[n] = [from |-> <<f, b, i>>, mi |-> E[i][k]] => ts[n] = Paired(<<f, b, i>>, X[i][k])
    BY <2>4, <2>6
  <2>8. Laid(FlattenSeq(ts), PartsOf(f, b, Size(f, b), G))
    BY <2>2, <2>3, <2>5, <2>7, PassLaid
  <2>9. RowOf("convert", chosen, f, b) = G
    BY DEF RowOf, G
  <2> QED BY <2>1, <2>8, <2>9 DEF LaidOn
<1> HIDE DEF d
<1>5. CodeIs(d, "convert", chosen, f)
  BY <1>2, <1>3, <1>4, PassIs
<1> QED BY <1>5 DEF d

LEMMA ConvertStep ==
  ASSUME NEW f \in DOMAIN Program, f = Fn, chosen \in Operands, CodeIs(code, "convert", chosen, f), ConvertRegToStack
  PROVE  CodeIs(code', "shrink", chosen, f)
<1> DEFINE d == code'
<1>1. d = [b \in DOMAIN code |-> FlattenSeq([i \in DOMAIN code[b] |->
                Paired(code[b][i].from, Conv(code[b][i].mi, f))])]
  BY DEF ConvertRegToStack, Conv
<1>2. IsSeq(code) /\ Len(code) = Len(Blks(f)) /\ DOMAIN code = 1 .. Len(Blks(f))
  BY SeqFacts DEF CodeIs
<1>3. d = [b \in DOMAIN code |-> d[b]]
  BY <1>1
<1>4. ASSUME NEW b \in 1 .. Len(Blks(f)) PROVE LaidOn(d[b], f, b, RowOf("shrink", chosen, f, b))
  <2> DEFINE E == Row1(chosen, f, b)
             X == By2(chosen, f, b)
             G == Row2(chosen, f, b)
             cb == code[b]
             ts == [i \in DOMAIN cb |-> Paired(cb[i].from, Conv(cb[i].mi, f))]
  <2>1. d[b] = FlattenSeq(ts)
    BY <1>1, <1>2
  <2>2. Laid(cb, PartsOf(f, b, Size(f, b), E))
    BY DEF CodeIs, LaidOn, RowOf
  <2>3. Replaced(Size(f, b), E, X, G) /\ Size(f, b) \in Nat
    BY Replaced2, InBlock
  <2>4. \A i \in 1 .. Size(f, b) : \A k \in 1 .. Len(E[i]) : X[i][k] = Conv(E[i][k], f)
    BY DEF By2
  <2>5. ts = [n \in DOMAIN cb |-> ts[n]]
    OBVIOUS
  <2>6. \A n \in DOMAIN cb : ts[n] = Paired(cb[n].from, Conv(cb[n].mi, f))
    OBVIOUS
  <2> HIDE DEF E, X, G, cb, ts
  <2>7. \A n \in DOMAIN cb : \A i \in 1 .. Size(f, b) : \A k \in 1 .. Len(E[i]) :
          cb[n] = [from |-> <<f, b, i>>, mi |-> E[i][k]] => ts[n] = Paired(<<f, b, i>>, X[i][k])
    BY <2>4, <2>6
  <2>8. Laid(FlattenSeq(ts), PartsOf(f, b, Size(f, b), G))
    BY <2>2, <2>3, <2>5, <2>7, PassLaid
  <2>9. RowOf("shrink", chosen, f, b) = G
    BY DEF RowOf, G
  <2> QED BY <2>1, <2>8, <2>9 DEF LaidOn
<1> HIDE DEF d
<1>5. CodeIs(d, "shrink", chosen, f)
  BY <1>2, <1>3, <1>4, PassIs
<1> QED BY <1>5 DEF d

LEMMA ShrinkStep ==
  ASSUME NEW f \in DOMAIN Program, f = Fn, chosen \in Operands, CodeIs(code, "shrink", chosen, f), Shrinkpush
  PROVE  CodeIs(code', "finalize", chosen, f)
<1> DEFINE d == code'
<1>1. d = [b \in DOMAIN code |-> FlattenSeq([i \in DOMAIN code[b] |->
                Paired(code[b][i].from, ShrinkPush(code[b][i].mi))])]
  BY DEF Shrinkpush
<1>2. IsSeq(code) /\ Len(code) = Len(Blks(f)) /\ DOMAIN code = 1 .. Len(Blks(f))
  BY SeqFacts DEF CodeIs
<1>3. d = [b \in DOMAIN code |-> d[b]]
  BY <1>1
<1>4. ASSUME NEW b \in 1 .. Len(Blks(f)) PROVE LaidOn(d[b], f, b, RowOf("finalize", chosen, f, b))
  <2> DEFINE E == Row2(chosen, f, b)
             X == By3(chosen, f, b)
             G == Row3(chosen, f, b)
             cb == code[b]
             ts == [i \in DOMAIN cb |-> Paired(cb[i].from, ShrinkPush(cb[i].mi))]
  <2>1. d[b] = FlattenSeq(ts)
    BY <1>1, <1>2
  <2>2. Laid(cb, PartsOf(f, b, Size(f, b), E))
    BY DEF CodeIs, LaidOn, RowOf
  <2>3. Replaced(Size(f, b), E, X, G) /\ Size(f, b) \in Nat
    BY Replaced3, InBlock
  <2>4. \A i \in 1 .. Size(f, b) : \A k \in 1 .. Len(E[i]) : X[i][k] = ShrinkPush(E[i][k])
    BY DEF By3
  <2>5. ts = [n \in DOMAIN cb |-> ts[n]]
    OBVIOUS
  <2>6. \A n \in DOMAIN cb : ts[n] = Paired(cb[n].from, ShrinkPush(cb[n].mi))
    OBVIOUS
  <2> HIDE DEF E, X, G, cb, ts
  <2>7. \A n \in DOMAIN cb : \A i \in 1 .. Size(f, b) : \A k \in 1 .. Len(E[i]) :
          cb[n] = [from |-> <<f, b, i>>, mi |-> E[i][k]] => ts[n] = Paired(<<f, b, i>>, X[i][k])
    BY <2>4, <2>6
  <2>8. Laid(FlattenSeq(ts), PartsOf(f, b, Size(f, b), G))
    BY <2>2, <2>3, <2>5, <2>7, PassLaid
  <2>9. RowOf("finalize", chosen, f, b) = G
    BY DEF RowOf, G
  <2> QED BY <2>1, <2>8, <2>9 DEF LaidOn
<1> HIDE DEF d
<1>5. CodeIs(d, "finalize", chosen, f)
  BY <1>2, <1>3, <1>4, PassIs
<1> QED BY <1>5 DEF d

LEMMA SeqSame ==
  ASSUME NEW s, NEW t, IsSeq(s), IsSeq(t), Len(s) = Len(t),
         \A i \in 1 .. Len(s) : s[i] = t[i]
  PROVE  s = t
<1>1. PICK X : s \in Seq(X)
  BY DEF IsSeq
<1>2. PICK Y : t \in Seq(Y)
  BY DEF IsSeq
<1>3. s \in Seq(X \cup Y) /\ t \in Seq(X \cup Y)
  BY <1>1, <1>2
<1> QED BY <1>3, SeqEqual

LEMMA JoinedParts ==
  ASSUME NEW s, NEW t, NEW z, IsSeq(s), IsSeq(t), Joined(z, s, t), NEW i \in 1 .. Len(z)
  PROVE  \/ i \in 1 .. Len(s) /\ z[i] = s[i]
         \/ \E j \in 1 .. Len(t) : i = Len(s) + j /\ z[i] = t[j]
<1>1. Len(s) \in Nat /\ Len(t) \in Nat /\ Len(z) = Len(s) + Len(t)
  BY SeqFacts DEF Joined
<1>2. CASE i \in 1 .. Len(s)
  BY <1>2 DEF Joined
<1>3. CASE i \notin 1 .. Len(s)
  <2>1. i - Len(s) \in 1 .. Len(t) /\ i = Len(s) + (i - Len(s))
    BY <1>1, <1>3
  <2>2. z[Len(s) + (i - Len(s))] = t[i - Len(s)]
    BY <2>1 DEF Joined
  <2> QED BY <2>1, <2>2
<1> QED BY <1>2, <1>3

LEMMA PairedJoin ==
  ASSUME NEW from, NEW s, NEW t, IsSeq(s), IsSeq(t)
  PROVE  Paired(from, s \o t) = Paired(from, s) \o Paired(from, t)
<1> DEFINE z == s \o t
           a == Paired(from, s)
           b == Paired(from, t)
           l == Paired(from, z)
           r == a \o b
<1>1. Joined(z, s, t) /\ IsSeq(z)
  BY SeqJoined DEF Joined
<1> HIDE DEF z
<1>2. /\ IsSeq(a) /\ Len(a) = Len(s) /\ \A k \in 1 .. Len(s) : a[k] = [from |-> from, mi |-> s[k]]
      /\ IsSeq(b) /\ Len(b) = Len(t) /\ \A k \in 1 .. Len(t) : b[k] = [from |-> from, mi |-> t[k]]
      /\ IsSeq(l) /\ Len(l) = Len(z) /\ \A k \in 1 .. Len(z) : l[k] = [from |-> from, mi |-> z[k]]
  BY <1>1, PairedIs
<1> HIDE DEF a, b, l
<1>3. Joined(r, a, b)
  BY <1>2, SeqJoined
<1> HIDE DEF r
<1>4. Len(r) = Len(s) + Len(t) /\ Len(z) = Len(s) + Len(t) /\ IsSeq(r)
  BY <1>1, <1>2, <1>3 DEF Joined
<1>5. ASSUME NEW i \in 1 .. Len(z) PROVE l[i] = r[i]
  <2>1. CASE i \in 1 .. Len(s) /\ z[i] = s[i]
    BY <1>2, <1>3, <2>1 DEF Joined
  <2>2. CASE \E j \in 1 .. Len(t) : i = Len(s) + j /\ z[i] = t[j]
    <3>1. PICK j \in 1 .. Len(t) : i = Len(s) + j /\ z[i] = t[j]
      BY <2>2
    <3>2. r[Len(a) + j] = b[j]
      BY <1>2, <1>3, <3>1 DEF Joined
    <3>3. l[i] = [from |-> from, mi |-> t[j]] /\ b[j] = [from |-> from, mi |-> t[j]]
      BY <1>2, <3>1
    <3> QED BY <1>2, <3>1, <3>2, <3>3
  <2> QED BY <1>1, <2>1, <2>2, JoinedParts
<1>6. l = r
  BY <1>2, <1>4, <1>5, SeqSame
<1> QED BY <1>6 DEF l, r, a, b, z

(* A block's first instruction gets one more.                              *)
Off(p) == IF p[3] = 1 THEN 1 ELSE 0
ShrunkAt(ch, p) == Shrunk(Src(ch, p), p[1])

LEMMA FinalIs ==
  ASSUME NEW p \in Positions, NEW ch \in Operands
  PROVE  /\ IsSeq(ShrunkAt(ch, p)) /\ Len(ShrunkAt(ch, p)) \in Nat /\ Len(ShrunkAt(ch, p)) > 0
         /\ IsSeq(Final(ch, p)) /\ Len(Final(ch, p)) = Off(p) + Len(ShrunkAt(ch, p))
         /\ Len(Final(ch, p)) \in Nat /\ Len(Final(ch, p)) > 0
         /\ \A k \in 1 .. Len(ShrunkAt(ch, p)) : Final(ch, p)[Off(p) + k] = ShrunkAt(ch, p)[k]
         /\ p[3] = 1 => Final(ch, p)[1] = Plain(JUMPDEST)
         /\ \A k \in 1 .. Len(Final(ch, p)) : ItemOK(Final(ch, p)[k])
<1> DEFINE m == Src(ch, p)
           f == p[1]
           s == ShrunkAt(ch, p)
           z == Final(ch, p)
           j == << Plain(JUMPDEST) >>
<1>1. f \in DOMAIN Program
  BY DEF Positions
<1>2. PassOK(m, f)
  BY <1>1, SourceIs, SourceOK
<1>3. /\ IsSeq(s) /\ Len(s) = Len(Converted(m, f))
      /\ \A k \in 1 .. Len(Converted(m, f)) : ItemOK(s[k])
  BY <1>2, ShrunkIs DEF ShrunkAt
<1>4. Len(s) \in Nat /\ Len(s) > 0 /\ \A k \in 1 .. Len(s) : ItemOK(s[k])
  BY <1>2, <1>3, SeqFacts DEF PassOK
<1>5. z = IF p[3] = 1 THEN j \o s ELSE s
  BY DEF Final, ShrunkAt
<1>6. IsSeq(j) /\ Len(j) = 1 /\ j[1] = Plain(JUMPDEST)
  BY OneIs
<1>7. ItemOK(j[1])
  <2>1. JUMPDEST \in 0 .. 255 /\ ~IsPush(JUMPDEST)
    BY PlainOps
  <2> QED BY <1>6, <2>1, PlainShrinks DEF ItemOK
<1> HIDE DEF s, z, j
<1>8. CASE p[3] = 1
  <2>1. z = j \o s /\ Off(p) = 1
    BY <1>5, <1>8 DEF Off
  <2>2. Joined(z, j, s)
    BY <1>3, <1>6, <2>1, SeqJoined
  <2>3. IsSeq(z) /\ Len(z) = 1 + Len(s) /\ (\A k \in 1 .. Len(s) : z[1 + k] = s[k]) /\ z[1] = Plain(JUMPDEST)
    BY <1>6, <2>2 DEF Joined
  <2>4. \A k \in 1 .. Len(z) : ItemOK(z[k])
    <3> SUFFICES ASSUME NEW k \in 1 .. Len(z) PROVE ItemOK(z[k])
      OBVIOUS
    <3>1. \/ k \in 1 .. Len(j) /\ z[k] = j[k]
          \/ \E x \in 1 .. Len(s) : k = Len(j) + x /\ z[k] = s[x]
      <4>1. IsSeq(j) /\ IsSeq(s)
        BY <1>3, <1>6
      <4> HIDE <1>3, <1>4, <1>6, <2>3
      <4> QED BY <2>2, <4>1, JoinedParts
    <3>2. CASE k \in 1 .. Len(j) /\ z[k] = j[k]
      <4>1. k = 1
        BY <1>6, <3>2
      <4> QED BY <1>7, <3>2, <4>1
    <3> QED BY <1>4, <3>1, <3>2
  <2> QED BY <1>3, <1>4, <2>1, <2>3, <2>4 DEF s, z
<1>9. CASE p[3] # 1
  <2>1. z = s /\ Off(p) = 0
    BY <1>5, <1>9 DEF Off
  <2>2. \A k \in 1 .. Len(s) : 0 + k = k
    BY <1>4
  <2>3. Len(z) = 0 + Len(s) /\ \A k \in 1 .. Len(s) : z[0 + k] = s[k]
    BY <1>4, <2>1, <2>2
  <2> QED BY <1>3, <1>4, <1>9, <2>1, <2>3 DEF s, z
<1> QED BY <1>8, <1>9

LEMMA FinalizeStep ==
  ASSUME NEW f \in DOMAIN Program, chosen \in Operands, CodeIs(code, "finalize", chosen, f), Finalization
  PROVE  CodeIs(code', "emit", chosen, f)
<1> DEFINE d == code'
<1>1. d = [b \in DOMAIN code |->
                IF code[b] # << >>
                THEN Paired(code[b][1].from, << Plain(JUMPDEST) >>) \o code[b]
                ELSE code[b]]
  BY DEF Finalization, ShouldInsertJUMPDEST
<1>2. IsSeq(code) /\ Len(code) = Len(Blks(f)) /\ DOMAIN code = 1 .. Len(Blks(f))
  BY SeqFacts DEF CodeIs
<1>3. d = [b \in DOMAIN code |-> d[b]]
  BY <1>1
<1>4. ASSUME NEW b \in 1 .. Len(Blks(f)) PROVE LaidOn(d[b], f, b, RowOf("emit", chosen, f, b))
  <2> DEFINE E == Row3(chosen, f, b)
             G == Row4(chosen, f, b)
             n == Size(f, b)
             ps == PartsOf(f, b, n, E)
             qs == PartsOf(f, b, n, G)
             c == code[b]
             j == << Plain(JUMPDEST) >>
             z == Paired(<<f, b, 1>>, j)
  <2>1. d[b] = IF c # << >> THEN Paired(c[1].from, j) \o c ELSE c
    BY <1>1, <1>2
  <2>2. Laid(c, ps)
    BY DEF CodeIs, LaidOn, RowOf
  <2>3. n \in Nat /\ \A i \in 1 .. n : <<f, b, i>> \in Positions
    BY InBlock
  <2>4. \A i \in 1 .. n : E[i] = ShrunkAt(chosen, <<f, b, i>>) /\ G[i] = Final(chosen, <<f, b, i>>)
    BY DEF Row3, Row4, ShrunkAt
  <2>5. \A i \in 1 .. n : G[i] = IF i = 1 THEN j \o E[i] ELSE E[i]
    BY <2>4 DEF Final, ShrunkAt
  <2>6. \A i \in 1 .. n : IsSeq(E[i]) /\ Len(E[i]) > 0 /\ IsSeq(G[i]) /\ Len(G[i]) > 0
    BY <2>3, <2>4, FinalIs
  <2>7. RowOf("emit", chosen, f, b) = G
    BY DEF RowOf
  <2>8. IsSeq(j) /\ Len(j) = 1
    BY OneIs
  <2> HIDE DEF E, G, n, j, c
  <2>9. ArePartsOf(ps, f, b, n, E) /\ ArePartsOf(qs, f, b, n, G)
    BY <2>3, <2>6, PartsOfIs
  <2>10. IsSeq(z) /\ Len(z) = 1
    BY <2>8, PairedIs
  <2> HIDE DEF ps, qs, z
  <2>11. Parts(ps) /\ Parts(qs) /\ Len(ps) = n /\ Len(qs) = n
    BY <2>9 DEF ArePartsOf
  <2>12. PICK I, J : Chain(c, ps, I, J)
    BY <2>2 DEF Laid
  <2>13. IsSeq(c) /\ Len(c) \in Nat /\ (Len(c) = 0 <=> n = 0)
    BY <2>2, <2>11, <2>12, SeqFacts DEF Laid, Chain
  <2>14. CASE c = << >>
    <3>1. Len(c) = 0
      BY <2>14
    <3>2. n = 0
      BY <2>13, <3>1
    <3>3. ps = qs
      <4>1. IsSeq(ps) /\ IsSeq(qs) /\ Len(ps) = 0 /\ Len(qs) = 0
        BY <2>11, <3>2 DEF Parts
      <4> QED BY <4>1, SeqSame
    <3>4. d[b] = c
      BY <2>1, <2>14
    <3> QED BY <2>2, <2>7, <3>3, <3>4 DEF LaidOn, qs, n
  <2>15. CASE c # << >>
    <3>1. Len(c) > 0
      <4>1. Len(c) = 0 => c = << >>
        <5>1. PICK X : c \in Seq(X)
          BY <2>13 DEF IsSeq
        <5> QED BY <5>1
      <4> QED BY <2>13, <2>15, <4>1
    <3>2. 1 \in 1 .. Len(c) /\ 1 \in 1 .. n
      BY <2>3, <2>13, <3>1
    <3>3. I[1] = 1 /\ J[1] = 1 /\ c[1] = ps[1][1]
      BY <2>12, <3>2 DEF Chain
    <3>4. ps[1][1] = [from |-> <<f, b, 1>>, mi |-> E[1][1]]
      <4>1. 1 \in 1 .. Len(E[1])
        <5>1. IsSeq(E[1]) /\ Len(E[1]) > 0
          BY <2>6, <3>2
        <5>2. Len(E[1]) \in Nat
          BY <5>1, SeqFacts
        <5> QED BY <5>1, <5>2
      <4> QED BY <2>9, <3>2, <4>1 DEF ArePartsOf
    <3>5. c[1].from = <<f, b, 1>>
      BY <3>3, <3>4
    <3>6. d[b] = z \o c
      BY <2>1, <2>15, <3>5 DEF z
    <3>7. qs[1] = z \o ps[1]
      <4>1. ps[1] = Paired(<<f, b, 1>>, E[1]) /\ qs[1] = Paired(<<f, b, 1>>, G[1])
        BY <2>9, <3>2 DEF ArePartsOf
      <4>2. G[1] = j \o E[1] /\ IsSeq(E[1])
        BY <2>5, <2>6, <3>2
      <4> QED BY <2>8, <4>1, <4>2, PairedJoin DEF z
    <3>8. \A i \in 2 .. Len(ps) : qs[i] = ps[i]
      <4> SUFFICES ASSUME NEW i \in 2 .. n PROVE qs[i] = ps[i]
        BY <2>11
      <4>1. i \in 1 .. n /\ i # 1
        BY <2>3
      <4>2. G[i] = E[i]
        BY <2>5, <4>1
      <4>3. ps[i] = Paired(<<f, b, i>>, E[i]) /\ qs[i] = Paired(<<f, b, i>>, G[i])
        BY <2>9, <4>1 DEF ArePartsOf
      <4> QED BY <4>2, <4>3
    <3>9. Laid(z \o c, qs)
      BY <2>2, <2>10, <2>11, <3>1, <3>7, <3>8, PrefixLaid
    <3> QED BY <2>7, <3>6, <3>9 DEF LaidOn, qs, n
  <2> QED BY <2>14, <2>15
<1> HIDE DEF d
<1>5. CodeIs(d, "emit", chosen, f)
  BY <1>2, <1>3, <1>4, PassIs
<1> QED BY <1>5 DEF d

(* The bytes of an instruction.                                            *)
Encoded(mi) ==
  LET e == EncodeInstruction(mi)
  IN  /\ IsSeq(e) /\ Len(e) \in Nat /\ Len(e) = 1 + DataSize(mi.op) /\ Len(e) > 0
      /\ mi.op \in Byte /\ e[1] = mi.op
      /\ \A i \in 1 .. Len(e) : e[i] \in Byte
      /\ IsSymbolPush(mi) => Len(e) = 3 /\ DataSize(mi.op) = 2
      /\ \A v : IsNumberPush(mi, v) =>
           DataSize(mi.op) = Width(mi) /\ \A i \in 1 .. Width(mi) : e[1 + i] = PushData(mi)[i]

LEMMA EncodeIs ==
  ASSUME NEW mi, ItemOK(mi)
  PROVE  Encoded(mi)
<1> DEFINE e == EncodeInstruction(mi)
<1>1. CASE IsPlain(mi)
  <2>1. e = << mi.op >> \o << >> /\ DataSize(mi.op) = 0 /\ mi.op \in Byte
    BY <1>1 DEF IsPlain, EncodeInstruction, DataSize, Byte
  <2>2. e = << mi.op >>
    BY <2>1
  <2>3. IsSeq(e) /\ Len(e) = 1 /\ e[1] = mi.op
    BY <2>2, OneIs
  <2>4. ~IsSymbolPush(mi) /\ \A v : ~IsNumberPush(mi, v)
    BY <1>1 DEF IsPlain, IsSymbolPush, IsNumberPush, IsPush, PUSH1, PUSH32
  <2> HIDE DEF e
  <2>5. \A i \in 1 .. Len(e) : e[i] \in Byte
    <3> SUFFICES ASSUME NEW i \in 1 .. 1 PROVE e[i] \in Byte
      BY <2>3
    <3>1. i = 1
      OBVIOUS
    <3> QED BY <2>1, <2>3, <3>1
  <2> QED BY <2>1, <2>3, <2>4, <2>5 DEF Encoded, e
<1>2. CASE \E v : IsNumberPush(mi, v)
  <2> DEFINE d == PushData(mi)
  <2>1. /\ mi.op \in PUSH1 .. PUSH32 /\ mi.arg.kind # "symbol"
        /\ d \in Seq(Byte) /\ Len(d) = Width(mi)
    BY <1>2 DEF IsNumberPush
  <2>2. mi.op \in 96 .. 127 /\ mi.op \in Byte /\ IsPush(mi.op)
    BY <2>1 DEF PUSH1, PUSH32, IsPush, Byte
  <2>3. e = << mi.op >> \o d
    BY <2>1, <2>2 DEF EncodeInstruction, PushData, Width
  <2>4. DataSize(mi.op) = Width(mi) /\ Width(mi) \in Nat
    BY <2>2 DEF DataSize, Width, PUSH1
  <2>5. ~IsSymbolPush(mi)
    <3> SUFFICES ASSUME IsSymbolPush(mi) PROVE FALSE
      OBVIOUS
    <3>1. PICK g, b : mi.arg = Symbol(g, b)
      BY DEF IsSymbolPush
    <3>2. mi.arg.kind = "symbol"
      BY <3>1 DEF Symbol
    <3> QED BY <2>1, <3>2
  <2> DEFINE o == << mi.op >>
  <2>6. IsSeq(o) /\ Len(o) = 1 /\ o[1] = mi.op /\ IsSeq(d)
    BY <2>1, OneIs DEF IsSeq
  <2> HIDE DEF o, d
  <2>7. Joined(e, o, d)
    BY <2>3, <2>6, SeqJoined DEF o
  <2> HIDE DEF e
  <2>8. IsSeq(e) /\ Len(e) = 1 + Width(mi) /\ e[1] = mi.op
    BY <2>1, <2>6, <2>7 DEF Joined
  <2>9. \A i \in 1 .. Width(mi) : e[1 + i] = d[i]
    BY <2>1, <2>6, <2>7 DEF Joined
  <2>10. \A i \in 1 .. Len(e) : e[i] \in Byte
    <3> SUFFICES ASSUME NEW i \in 1 .. Len(e) PROVE e[i] \in Byte
      OBVIOUS
    <3>1. \/ i \in 1 .. Len(o) /\ e[i] = o[i]
          \/ \E x \in 1 .. Len(d) : i = Len(o) + x /\ e[i] = d[x]
      <4>1. IsSeq(o) /\ IsSeq(d)
        BY <2>6
      <4> QED BY <2>7, <4>1, JoinedParts
    <3>2. CASE i \in 1 .. Len(o) /\ e[i] = o[i]
      <4>1. i = 1
        BY <2>6, <3>2
      <4> QED BY <2>2, <2>6, <3>2, <4>1
    <3>3. \A x \in 1 .. Len(d) : d[x] \in Byte
      BY <2>1, Elements
    <3> QED BY <3>1, <3>2, <3>3
  <2>11. Len(e) \in Nat /\ Len(e) > 0
    BY <2>4, <2>8
  <2> QED BY <2>2, <2>4, <2>5, <2>8, <2>9, <2>10, <2>11 DEF Encoded, e, d
<1>3. CASE IsSymbolPush(mi)
  <2>1. mi.op = 97 /\ mi.arg.kind = "symbol" /\ mi.op \in Byte
    BY <1>3 DEF IsSymbolPush, Symbol, PUSH1, Byte
  <2>2. e = << mi.op >> \o <<0, 0>> /\ DataSize(mi.op) = 2
    BY <2>1 DEF EncodeInstruction, IsPush, PUSH1, PUSH32, DataSize
  <2>4. \A v : ~IsNumberPush(mi, v)
    BY <2>1 DEF IsNumberPush
  <2> DEFINE o == << mi.op >>
             d == <<0, 0>>
  <2>3. /\ IsSeq(o) /\ Len(o) = 1 /\ o[1] = mi.op
        /\ IsSeq(d) /\ Len(d) = 2 /\ d[1] = 0 /\ d[2] = 0
    BY OneIs, TwoIs
  <2> HIDE DEF o, d
  <2>5. Joined(e, o, d)
    BY <2>2, <2>3, SeqJoined DEF o, d
  <2>7. IsSeq(e) /\ Len(e) = 3 /\ e[1] = mi.op /\ e[2] = 0 /\ e[3] = 0
    <3>1. IsSeq(e) /\ Len(e) = 1 + 2 /\ (\A i \in 1 .. 1 : e[i] = o[i])
          /\ (\A i \in 1 .. 2 : e[1 + i] = d[i])
      BY <2>3, <2>5 DEF Joined
    <3>2. 1 \in 1 .. 1 /\ 1 \in 1 .. 2 /\ 2 \in 1 .. 2 /\ 1 + 1 = 2 /\ 1 + 2 = 3
      OBVIOUS
    <3> QED BY <2>3, <3>1, <3>2
  <2>6. \A i \in 1 .. Len(e) : e[i] \in Byte
    <3>1. 0 \in Byte
      BY DEF Byte
    <3> SUFFICES ASSUME NEW i \in 1 .. 3 PROVE e[i] \in Byte
      BY <2>7
    <3>2. i = 1 \/ i = 2 \/ i = 3
      OBVIOUS
    <3> QED BY <2>1, <2>7, <3>1, <3>2
  <2> HIDE DEF e
  <2> QED BY <2>1, <2>2, <2>4, <2>6, <2>7 DEF Encoded, e
<1> QED BY <1>1, <1>2, <1>3 DEF ItemOK
-----------------------------------------------------------------------------
(* The tape: what has been written, item after item.  An entry holds the   *)
(* source instruction, which of its final instructions it is, and where.   *)
ItemOf(ch, e) == Final(ch, e.p)[e.q]
Sz(ch, e) == Len(EncodeInstruction(ItemOf(ch, e)))
EntryOK(ch, e) ==
  e.p \in Positions /\ e.q \in 1 .. Len(Final(ch, e.p)) /\ e.at \in Nat

IsLast(p) == p[2] = Len(Blks(p[1])) /\ p[3] = Size(p[1], p[2])
Follows(ch, d, e) ==
  IF d.q < Len(Final(ch, d.p)) THEN e.p = d.p /\ e.q = d.q + 1
  ELSE e.q = 1 /\ (~IsLast(d.p) => e.p = Blk!After(d.p))

Layout(T, ch, pre, here) ==
  /\ IsSeq(T)
  /\ \A j \in 1 .. Len(T) :
       EntryOK(ch, T[j]) /\ pre <= T[j].at /\ T[j].at + Sz(ch, T[j]) <= here
  /\ \A i, j \in 1 .. Len(T) : i < j => T[i].at + Sz(ch, T[i]) <= T[j].at
  /\ \A j \in 1 .. Len(T) - 1 :
       T[j + 1].at = T[j].at + Sz(ch, T[j]) /\ Follows(ch, T[j], T[j + 1])
  /\ \A i, j \in 1 .. Len(T) : T[i].p = T[j].p /\ T[i].q = T[j].q => i = j
  /\ IF Len(T) = 0 THEN here = pre
     ELSE T[1].at = pre /\ T[Len(T)].at + Sz(ch, T[Len(T)]) = here

LEMMA EntryIs ==
  ASSUME NEW ch \in Operands, NEW e, EntryOK(ch, e)
  PROVE  /\ ItemOK(ItemOf(ch, e)) /\ Encoded(ItemOf(ch, e))
         /\ Sz(ch, e) \in Nat /\ Sz(ch, e) > 0
<1>1. ItemOK(ItemOf(ch, e))
  BY FinalIs DEF EntryOK, ItemOf
<1>2. Encoded(ItemOf(ch, e))
  BY <1>1, EncodeIs
<1> QED BY <1>1, <1>2 DEF Encoded, Sz

LEMMA Appended ==
  ASSUME NEW T, IsSeq(T), NEW e
  PROVE  /\ IsSeq(Append(T, e)) /\ Len(Append(T, e)) = Len(T) + 1
         /\ \A j \in 1 .. Len(T) : Append(T, e)[j] = T[j]
         /\ Append(T, e)[Len(T) + 1] = e
<1>1. PICK X : T \in Seq(X)
  BY DEF IsSeq
<1>2. T \in Seq(X \cup {e}) /\ e \in X \cup {e}
  BY <1>1
<1>3. Append(T, e) \in Seq(X \cup {e})
  BY <1>2
<1> QED BY <1>2, <1>3 DEF IsSeq

LEMMA LayoutMore ==
  ASSUME NEW T, NEW ch \in Operands, NEW pre \in Nat, NEW here \in Nat, Layout(T, ch, pre, here),
         NEW e, EntryOK(ch, e), e.at = here,
         Len(T) # 0 => Follows(ch, T[Len(T)], e),
         \A j \in 1 .. Len(T) : ~(T[j].p = e.p /\ T[j].q = e.q)
  PROVE  Layout(Append(T, e), ch, pre, here + Sz(ch, e))
<1> DEFINE U == Append(T, e)
           n == Len(T)
           new == here + Sz(ch, e)
<1>1. IsSeq(T) /\ n \in Nat
  BY SeqFacts DEF Layout
<1>2. IsSeq(U) /\ Len(U) = n + 1 /\ (\A j \in 1 .. n : U[j] = T[j]) /\ U[n + 1] = e
  BY <1>1, Appended
<1>3. Sz(ch, e) \in Nat /\ Sz(ch, e) > 0 /\ new \in Nat /\ new > here
  BY EntryIs
<1> HIDE DEF U, n, new
<1>4. \A j \in 1 .. n : /\ EntryOK(ch, T[j]) /\ pre <= T[j].at /\ T[j].at + Sz(ch, T[j]) <= here
                        /\ T[j].at \in Nat /\ Sz(ch, T[j]) \in Nat /\ Sz(ch, T[j]) > 0
  <2> SUFFICES ASSUME NEW j \in 1 .. n PROVE /\ EntryOK(ch, T[j]) /\ pre <= T[j].at /\ T[j].at + Sz(ch, T[j]) <= here
                        /\ T[j].at \in Nat /\ Sz(ch, T[j]) \in Nat /\ Sz(ch, T[j]) > 0
    OBVIOUS
  <2>1. EntryOK(ch, T[j]) /\ pre <= T[j].at /\ T[j].at + Sz(ch, T[j]) <= here
    BY DEF Layout, n
  <2> QED BY <2>1, EntryIs DEF EntryOK
<1>5. pre <= here
  <2>1. CASE n = 0
    BY <2>1 DEF Layout, n
  <2>2. CASE n # 0
    <3>1. 1 \in 1 .. n
      BY <1>1, <2>2
    <3> QED BY <1>4, <3>1
  <2> QED BY <2>1, <2>2
<1>6. ASSUME NEW j \in 1 .. Len(U)
      PROVE  EntryOK(ch, U[j]) /\ pre <= U[j].at /\ U[j].at + Sz(ch, U[j]) <= new
  <2>1. CASE j \in 1 .. n
    BY <1>2, <1>3, <1>4, <2>1
  <2>2. CASE j = n + 1
    BY <1>2, <1>3, <1>5, <2>2 DEF new
  <2> QED BY <1>1, <1>2, <2>1, <2>2
<1>7. ASSUME NEW i \in 1 .. Len(U), NEW j \in 1 .. Len(U), i < j
      PROVE  U[i].at + Sz(ch, U[i]) <= U[j].at
  <2>1. i \in 1 .. n
    BY <1>1, <1>2, <1>7
  <2>2. CASE j \in 1 .. n
    BY <1>2, <1>7, <2>1, <2>2 DEF Layout, n
  <2>3. CASE j = n + 1
    BY <1>2, <1>4, <2>1, <2>3
  <2> QED BY <1>1, <1>2, <2>2, <2>3
<1>8. ASSUME NEW j \in 1 .. Len(U) - 1
      PROVE  U[j + 1].at = U[j].at + Sz(ch, U[j]) /\ Follows(ch, U[j], U[j + 1])
  <2>1. j \in 1 .. n
    BY <1>1, <1>2
  <2>2. CASE j = n
    <3>1. n # 0 /\ U[j + 1] = e /\ U[j] = T[n]
      BY <1>1, <1>2, <2>1, <2>2
    <3>2. T[n].at + Sz(ch, T[n]) = here
      BY <3>1 DEF Layout, n
    <3> QED BY <3>1, <3>2 DEF n
  <2>3. CASE j # n
    <3>1. j \in 1 .. n - 1 /\ j + 1 \in 1 .. n
      BY <1>1, <2>1, <2>3
    <3> QED BY <1>2, <2>1, <3>1 DEF Layout, n
  <2> QED BY <2>2, <2>3
<1>9. ASSUME NEW i \in 1 .. Len(U), NEW j \in 1 .. Len(U), U[i].p = U[j].p, U[i].q = U[j].q
      PROVE  i = j
  <2>1. CASE i \in 1 .. n /\ j \in 1 .. n
    BY <1>2, <1>9, <2>1 DEF Layout, n
  <2>2. CASE i \in 1 .. n /\ j = n + 1
    BY <1>2, <1>9, <2>2 DEF n
  <2>3. CASE i = n + 1 /\ j \in 1 .. n
    BY <1>2, <1>9, <2>3 DEF n
  <2> QED BY <1>1, <1>2, <2>1, <2>2, <2>3
<1>10. U[1].at = pre /\ U[Len(U)].at + Sz(ch, U[Len(U)]) = new /\ Len(U) # 0
  <2>1. U[Len(U)] = e /\ Len(U) # 0
    BY <1>1, <1>2
  <2>2. U[1].at = pre
    <3>1. CASE n = 0
      <4>1. U[1] = e /\ here = pre
        BY <1>2, <3>1 DEF Layout, n
      <4> QED BY <4>1
    <3>2. CASE n # 0
      <4>1. 1 \in 1 .. n /\ T[1].at = pre
        BY <1>1, <3>2 DEF Layout, n
      <4> QED BY <1>2, <4>1
    <3> QED BY <3>1, <3>2
  <2> QED BY <2>1, <2>2 DEF new
<1> QED BY <1>2, <1>6, <1>7, <1>8, <1>9, <1>10 DEF Layout, U, new

-----------------------------------------------------------------------------
(* The order of the source.                                                *)
Later(f, b) == { c \in b + 1 .. Len(Blks(f)) : Blks(f)[c] # << >> }

LEMMA SettleIs ==
  ASSUME NEW f \in DOMAIN Program, NEW b, NEW i
  PROVE  Blk!Settle(f, b, i) =
           IF i <= Size(f, b) THEN <<f, b, i>>
           ELSE IF Later(f, b) = {} THEN <<f, Len(Blks(f)) + 1, 1>>
           ELSE <<f, CHOOSE c \in Later(f, b) : \A d \in Later(f, b) : c <= d, 1>>
BY DEF Blk!Settle, Blk!Blocks, Later, Blks, Size

LEMMA EmptyBlock ==
  ASSUME NEW f \in DOMAIN Program, NEW b \in 1 .. Len(Blks(f))
  PROVE  /\ Size(f, b) \in Nat
         /\ Blks(f)[b] = << >> <=> Size(f, b) = 0
<1>1. Blks(f)[b] \in Seq(Instructions(f))
  BY FunctionIs
<1> DEFINE s == Blks(f)[b]
           X == Instructions(f)
<1> HIDE DEF s, X
<1>2. s \in Seq(X)
  BY <1>1 DEF s, X
<1>3. Len(s) \in Nat /\ (s = << >> <=> Len(s) = 0)
  BY <1>2
<1> QED BY <1>3 DEF s, Size

LEMMA FirstLater ==
  ASSUME NEW f \in DOMAIN Program, NEW b \in 1 .. Len(Blks(f)), Later(f, b) # {}
  PROVE  LET c == CHOOSE c \in Later(f, b) : \A d \in Later(f, b) : c <= d
         IN  c \in Later(f, b) /\ \A d \in Later(f, b) : c <= d
<1>1. Len(Blks(f)) \in Nat
  BY FunctionIs
<1>2. Later(f, b) \in SUBSET Nat
  BY <1>1 DEF Later
<1>3. \E c \in Later(f, b) : \A d \in Later(f, b) : c <= d
  BY <1>2, LeastNatural
<1> QED BY <1>3

LEMMA SettleNext ==
  ASSUME NEW f \in DOMAIN Program, NEW b \in 1 .. Len(Blks(f)), b < Len(Blks(f))
  PROVE  Blk!Settle(f, b, Size(f, b) + 1) = Blk!Settle(f, b + 1, 1)
<1> DEFINE L == Later(f, b)
           M == Later(f, b + 1)
           n == Len(Blks(f))
<1>1. n \in Nat /\ b + 1 \in 1 .. n /\ Size(f, b) \in Nat /\ Size(f, b + 1) \in Nat
  <2>1. n \in Nat /\ b + 1 \in 1 .. n
    BY FunctionIs
  <2> QED BY <2>1, EmptyBlock
<1>2. ~(Size(f, b) + 1 <= Size(f, b))
  BY <1>1
<1>3. CASE Size(f, b + 1) = 0
  <2>1. L = M
    <3>1. Blks(f)[b + 1] = << >>
      BY <1>1, <1>3, EmptyBlock
    <3>2. \A c : c \in b + 1 .. n <=> c = b + 1 \/ c \in (b + 1) + 1 .. n
      BY <1>1
    <3> QED BY <3>1, <3>2 DEF Later
  <2>2. ~(1 <= Size(f, b + 1))
    BY <1>3
  <2>3. Blk!Settle(f, b, Size(f, b) + 1) =
          IF L = {} THEN <<f, n + 1, 1>> ELSE <<f, CHOOSE c \in L : \A d \in L : c <= d, 1>>
    BY <1>2, SettleIs
  <2>4. Blk!Settle(f, b + 1, 1) =
          IF M = {} THEN <<f, n + 1, 1>> ELSE <<f, CHOOSE c \in M : \A d \in M : c <= d, 1>>
    BY <2>2, SettleIs
  <2> HIDE DEF L, M
  <2> QED BY <2>1, <2>3, <2>4
<1>4. CASE Size(f, b + 1) # 0
  <2>1. b + 1 \in L /\ \A c \in L : b + 1 <= c
    BY <1>1, <1>4, EmptyBlock DEF Later
  <2>2. L # {} /\ 1 <= Size(f, b + 1)
    BY <1>1, <1>4, <2>1
  <2> DEFINE c == CHOOSE c \in L : \A d \in L : c <= d
  <2>3. c \in L /\ \A d \in L : c <= d
    BY <2>2, FirstLater
  <2>4. c = b + 1
    <3>1. c <= b + 1 /\ b + 1 <= c /\ c \in Nat
      BY <1>1, <2>1, <2>3 DEF Later
    <3> QED BY <1>1, <3>1
  <2>5. Blk!Settle(f, b, Size(f, b) + 1) = <<f, c, 1>>
    BY <1>2, <2>2, SettleIs
  <2>6. Blk!Settle(f, b + 1, 1) = <<f, b + 1, 1>>
    BY <2>2, SettleIs
  <2> QED BY <2>4, <2>5, <2>6
<1> QED BY <1>3, <1>4

LEMMA SettleIn ==
  ASSUME NEW f \in DOMAIN Program, NEW b \in 1 .. Len(Blks(f)), NEW i \in Nat \ {0},
         b = Len(Blks(f)) => i <= Size(f, b)
  PROVE  /\ Blk!Settle(f, b, i) \in Positions /\ Blk!Settle(f, b, i)[1] = f
         /\ i > Size(f, b) \/ i = 1 => Blk!Settle(f, b, i)[3] = 1
<1> DEFINE n == Len(Blks(f))
           r == Blk!Settle(f, b, i)
<1>1. n \in Nat /\ n > 0 /\ Size(f, b) \in Nat /\ (n \in Later(f, b) \/ b = n)
  <2>1. n \in Nat /\ n > 0 /\ Blks(f)[n] # << >>
    BY FunctionIs
  <2>2. CASE b # n
    <3>1. n \in b + 1 .. n
      BY <2>1, <2>2
    <3> QED BY <2>1, <3>1, EmptyBlock DEF Later
  <2> QED BY <2>1, <2>2, EmptyBlock
<1>2. CASE i <= Size(f, b)
  <2>1. r = <<f, b, i>>
    BY <1>2, SettleIs
  <2>2. <<f, b, i>> \in Positions
    BY <1>1, <1>2 DEF Positions, Size
  <2> HIDE DEF r
  <2>3. r \in Positions /\ r[1] = f /\ r[3] = i
    BY <2>1, <2>2
  <2>4. ~(i > Size(f, b))
    BY <1>1, <1>2
  <2> QED BY <2>3, <2>4 DEF r
<1>3. CASE ~(i <= Size(f, b))
  <2>1. Later(f, b) # {}
    BY <1>1, <1>3
  <2> DEFINE c == CHOOSE c \in Later(f, b) : \A d \in Later(f, b) : c <= d
  <2>2. c \in Later(f, b)
    BY <2>1, FirstLater
  <2>3. r = <<f, c, 1>>
    BY <1>3, <2>1, SettleIs
  <2> HIDE DEF c, r
  <2>4. c \in 1 .. n /\ Blks(f)[c] # << >>
    BY <1>1, <2>2 DEF Later
  <2>5. Size(f, c) \in Nat /\ Size(f, c) # 0
    BY <2>4, EmptyBlock
  <2>6. <<f, c, 1>> \in Positions
    BY <2>4, <2>5 DEF Positions, Size
  <2> QED BY <2>3, <2>6 DEF r
<1> QED BY <1>2, <1>3

(* What comes behind an instruction.                                       *)
LEMMA AfterIs ==
  ASSUME NEW p \in Positions
  PROVE  /\ p = <<p[1], p[2], p[3]>> /\ p[1] \in DOMAIN Program
         /\ p[2] \in 1 .. Len(Blks(p[1])) /\ p[3] \in 1 .. Size(p[1], p[2])
         /\ ~IsLast(p) => Blk!After(p) \in Positions /\ Blk!After(p)[1] = p[1]
         /\ p[3] < Size(p[1], p[2]) => Blk!After(p) = <<p[1], p[2], p[3] + 1>> /\ ~IsLast(p)
         /\ p[3] = Size(p[1], p[2]) /\ p[2] < Len(Blks(p[1])) =>
              Blk!After(p) = Blk!StartOf(p[1], p[2] + 1) /\ ~IsLast(p)
<1> DEFINE f == p[1]
           b == p[2]
           i == p[3]
           n == Len(Blks(f))
           z == Size(f, b)
<1>1. p = <<f, b, i>> /\ f \in DOMAIN Program /\ b \in 1 .. n /\ i \in 1 .. z
  BY DEF Positions, Size
<1>2. Blk!After(p) = Blk!Settle(f, b, i + 1)
  BY DEF Blk!After
<1>3. z \in Nat /\ n \in Nat
  BY <1>1, EmptyBlock, FunctionIs
<1>4. i + 1 \in Nat \ {0}
  BY <1>1, <1>3
<1>5. ASSUME ~IsLast(p) PROVE Blk!After(p) \in Positions /\ Blk!After(p)[1] = f
  <2>1. b = n => i + 1 <= z
    BY <1>1, <1>3, <1>5 DEF IsLast
  <2> HIDE DEF f, b, i, n, z
  <2>2. Blk!Settle(f, b, i + 1) \in Positions /\ Blk!Settle(f, b, i + 1)[1] = f
    BY <1>1, <1>4, <2>1, SettleIn DEF n, z
  <2> QED BY <1>2, <2>2
<1>6. ASSUME i < z PROVE Blk!After(p) = <<f, b, i + 1>> /\ ~IsLast(p)
  <2>1. i + 1 <= z /\ i # z
    BY <1>1, <1>3, <1>6
  <2> QED BY <1>1, <1>2, <2>1, SettleIs DEF IsLast
<1>7. ASSUME i = z, b < n PROVE Blk!After(p) = Blk!StartOf(f, b + 1) /\ ~IsLast(p)
  <2>1. ~IsLast(p)
    BY <1>1, <1>3, <1>7 DEF IsLast
  <2> QED BY <1>1, <1>2, <1>7, <2>1, SettleNext DEF Blk!StartOf
<1> QED BY <1>1, <1>5, <1>6, <1>7

-----------------------------------------------------------------------------
(* The final code of a block: item x is item J[x] of instruction I[x].     *)
Walks(c, ch, f, b, I, J) ==
  /\ IsSeq(c) /\ Len(c) \in Nat /\ (Len(c) = 0 <=> Size(f, b) = 0)
  /\ \A x \in 1 .. Len(c) :
       /\ I[x] \in 1 .. Size(f, b) /\ <<f, b, I[x]>> \in Positions
       /\ J[x] \in 1 .. Len(Final(ch, <<f, b, I[x]>>))
       /\ c[x].from = <<f, b, I[x]>>
       /\ c[x].mi = Final(ch, <<f, b, I[x]>>)[J[x]]
       /\ x = 1 => I[x] = 1 /\ J[x] = 1
       /\ x = Len(c) => I[x] = Size(f, b) /\ J[x] = Len(Final(ch, <<f, b, I[x]>>))
  /\ \A x \in 1 .. Len(c) - 1 :
       IF J[x] < Len(Final(ch, <<f, b, I[x]>>)) THEN I[x + 1] = I[x] /\ J[x + 1] = J[x] + 1
       ELSE I[x + 1] = I[x] + 1 /\ J[x + 1] = 1
  /\ \A x, y \in 1 .. Len(c) :
       x < y => I[x] < I[y] \/ (I[x] = I[y] /\ J[x] < J[y])

Walk(c, ch, f, b) == CHOOSE w : Walks(c, ch, f, b, w[1], w[2])

LEMMA WalkIs ==
  ASSUME NEW f \in DOMAIN Program, NEW b \in 1 .. Len(Blks(f)), NEW ch \in Operands,
         NEW c, LaidOn(c, f, b, RowOf("emit", ch, f, b))
  PROVE  Walks(c, ch, f, b, Walk(c, ch, f, b)[1], Walk(c, ch, f, b)[2])
<1> DEFINE n == Size(f, b)
           G == Row4(ch, f, b)
           ps == PartsOf(f, b, n, G)
<1>1. Laid(c, ps)
  BY DEF LaidOn, RowOf
<1>2. n \in Nat /\ \A i \in 1 .. n : <<f, b, i>> \in Positions
  BY InBlock
<1>3. \A i \in 1 .. n : G[i] = Final(ch, <<f, b, i>>)
  BY DEF Row4
<1>4. \A i \in 1 .. n : IsSeq(G[i]) /\ Len(G[i]) > 0
  BY <1>2, <1>3, FinalIs
<1> HIDE DEF G, n
<1>5. ArePartsOf(ps, f, b, n, G)
  BY <1>2, <1>4, PartsOfIs
<1> HIDE DEF ps
<1>6. PICK I, J : Chain(c, ps, I, J)
  BY <1>1 DEF Laid
<1>7. IsSeq(c) /\ Len(c) \in Nat /\ Len(ps) = n
  BY <1>1, <1>5, SeqFacts DEF Laid, ArePartsOf
<1>8. Len(c) = 0 <=> n = 0
  BY <1>6, <1>7 DEF Chain
<1>9. ASSUME NEW x \in 1 .. Len(c)
      PROVE  /\ I[x] \in 1 .. n /\ <<f, b, I[x]>> \in Positions
             /\ J[x] \in 1 .. Len(Final(ch, <<f, b, I[x]>>))
             /\ Len(ps[I[x]]) = Len(Final(ch, <<f, b, I[x]>>))
             /\ c[x].from = <<f, b, I[x]>>
             /\ c[x].mi = Final(ch, <<f, b, I[x]>>)[J[x]]
             /\ x = 1 => I[x] = 1 /\ J[x] = 1
             /\ x = Len(c) => I[x] = n /\ J[x] = Len(Final(ch, <<f, b, I[x]>>))
  <2>1. /\ I[x] \in 1 .. n /\ J[x] \in 1 .. Len(ps[I[x]]) /\ c[x] = ps[I[x]][J[x]]
        /\ x = 1 => I[x] = 1 /\ J[x] = 1
        /\ x = Len(c) => I[x] = n /\ J[x] = Len(ps[I[x]])
    BY <1>6, <1>7 DEF Chain
  <2>2. Len(ps[I[x]]) = Len(G[I[x]])
    BY <1>5, <2>1 DEF ArePartsOf
  <2>3. c[x] = [from |-> <<f, b, I[x]>>, mi |-> G[I[x]][J[x]]]
    <3>1. J[x] \in 1 .. Len(G[I[x]])
      BY <2>1, <2>2
    <3> QED BY <1>5, <2>1, <3>1 DEF ArePartsOf
  <2>4. G[I[x]] = Final(ch, <<f, b, I[x]>>)
    BY <1>3, <2>1
  <2>5. c[x].from = <<f, b, I[x]>> /\ c[x].mi = Final(ch, <<f, b, I[x]>>)[J[x]]
    BY <2>3, <2>4
  <2>6. <<f, b, I[x]>> \in Positions
    BY <1>2, <2>1
  <2> QED BY <2>1, <2>2, <2>4, <2>5, <2>6
<1>10. ASSUME NEW x \in 1 .. Len(c) - 1
       PROVE  IF J[x] < Len(Final(ch, <<f, b, I[x]>>)) THEN I[x + 1] = I[x] /\ J[x + 1] = J[x] + 1
              ELSE I[x + 1] = I[x] + 1 /\ J[x + 1] = 1
  <2>1. x \in 1 .. Len(c)
    BY <1>7
  <2>2. Len(ps[I[x]]) = Len(Final(ch, <<f, b, I[x]>>))
    BY <1>9, <2>1
  <2>3. IF J[x] < Len(ps[I[x]]) THEN I[x + 1] = I[x] /\ J[x + 1] = J[x] + 1
        ELSE I[x + 1] = I[x] + 1 /\ J[x + 1] = 1
    BY <1>6 DEF Chain
  <2> QED BY <2>2, <2>3
<1>11. \A x, y \in 1 .. Len(c) : x < y => I[x] < I[y] \/ (I[x] = I[y] /\ J[x] < J[y])
  BY <1>6 DEF Chain
<1>12. Walks(c, ch, f, b, I, J)
  BY <1>7, <1>8, <1>9, <1>10, <1>11 DEF Walks, n
<1>13. Walks(c, ch, f, b, <<I, J>>[1], <<I, J>>[2])
  BY <1>12
<1>14. \E w : Walks(c, ch, f, b, w[1], w[2])
  BY <1>13
<1> QED BY <1>14 DEF Walk

(* No item comes twice.                                                    *)
LEMMA WalkOnce ==
  ASSUME NEW c, NEW ch, NEW f, NEW b, NEW I, NEW J, Walks(c, ch, f, b, I, J), Size(f, b) \in Nat,
         NEW x \in 1 .. Len(c), NEW y \in 1 .. Len(c), I[x] = I[y], J[x] = J[y],
         Len(Final(ch, <<f, b, I[x]>>)) \in Nat
  PROVE  x = y
<1>1. Len(c) \in Nat /\ I[x] \in 1 .. Size(f, b) /\ J[x] \in 1 .. Len(Final(ch, <<f, b, I[x]>>))
  BY DEF Walks
<1>2. I[x] \in Nat /\ J[x] \in Nat
  BY <1>1
<1>3. x \in Nat /\ y \in Nat
  BY <1>1
<1>4. ~(x < y)
  <2>1. x < y => I[x] < I[y] \/ (I[x] = I[y] /\ J[x] < J[y])
    BY DEF Walks
  <2> QED BY <1>2, <2>1
<1>5. ~(y < x)
  <2>1. y < x => I[y] < I[x] \/ (I[y] = I[x] /\ J[y] < J[x])
    BY DEF Walks
  <2> QED BY <1>2, <2>1
<1> QED BY <1>3, <1>4, <1>5

(* The bytes of the items, but for the addresses still to be filled in.    *)
Code(ch, e) == EncodeInstruction(ItemOf(ch, e))
IsSymbol(ch, e) == IsSymbolPush(ItemOf(ch, e))
BytesOK(T, ch, pre, c) ==
  /\ IsSeq(c) /\ \A i \in 1 .. Len(c) : c[i] \in Byte
  /\ \A j \in 1 .. Len(T) : \A i \in 1 .. Sz(ch, T[j]) :
       i = 1 \/ ~IsSymbol(ch, T[j]) => c[(T[j].at - pre) + i] = Code(ch, T[j])[i]

(* Where the bytes of an item are.                                         *)
LEMMA ItemBytes ==
  ASSUME NEW T, NEW ch \in Operands, NEW pre \in Nat, NEW n \in Nat, Layout(T, ch, pre, pre + n),
         NEW j \in 1 .. Len(T)
  PROVE  /\ EntryOK(ch, T[j]) /\ T[j].at \in Nat /\ T[j].at - pre \in Nat
         /\ Sz(ch, T[j]) \in Nat /\ Sz(ch, T[j]) > 0
         /\ \A i \in 1 .. Sz(ch, T[j]) : (T[j].at - pre) + i \in 1 .. n
<1>1. EntryOK(ch, T[j]) /\ pre <= T[j].at /\ T[j].at + Sz(ch, T[j]) <= pre + n
  BY DEF Layout
<1>2. T[j].at \in Nat /\ Sz(ch, T[j]) \in Nat /\ Sz(ch, T[j]) > 0
  BY <1>1, EntryIs DEF EntryOK
<1> QED BY <1>1, <1>2, SMTT(30)

LEMMA BytesMore ==
  ASSUME NEW T, NEW ch \in Operands, NEW pre \in Nat, NEW c, Layout(T, ch, pre, pre + Len(c)),
         BytesOK(T, ch, pre, c), NEW e, EntryOK(ch, e), e.at = pre + Len(c)
  PROVE  /\ BytesOK(Append(T, e), ch, pre, c \o Code(ch, e))
         /\ Len(c \o Code(ch, e)) = Len(c) + Sz(ch, e)
<1> DEFINE U == Append(T, e)
           k == Code(ch, e)
           d == c \o k
           n == Len(T)
<1>1. IsSeq(c) /\ Len(c) \in Nat /\ IsSeq(T) /\ n \in Nat
  BY SeqFacts DEF BytesOK, Layout
<1>2. IsSeq(k) /\ Len(k) = Sz(ch, e) /\ Sz(ch, e) \in Nat /\ \A i \in 1 .. Len(k) : k[i] \in Byte
  BY EntryIs DEF Encoded, Code, Sz
<1>3. Len(U) = n + 1 /\ (\A j \in 1 .. n : U[j] = T[j]) /\ U[n + 1] = e
  BY <1>1, Appended
<1> HIDE DEF k, U, n
<1>4. Joined(d, c, k)
  BY <1>1, <1>2, SeqJoined
<1> HIDE DEF d
<1>5. IsSeq(d) /\ Len(d) = Len(c) + Len(k)
  BY <1>4 DEF Joined
<1>6. \A i \in 1 .. Len(d) : d[i] \in Byte
  <2> SUFFICES ASSUME NEW i \in 1 .. Len(d) PROVE d[i] \in Byte
    OBVIOUS
  <2>1. IsSeq(c) /\ IsSeq(k)
    BY <1>1, <1>2
  <2>2. \/ i \in 1 .. Len(c) /\ d[i] = c[i]
        \/ \E x \in 1 .. Len(k) : i = Len(c) + x /\ d[i] = k[x]
    BY <1>4, <2>1, JoinedParts
  <2>3. \A x \in 1 .. Len(c) : c[x] \in Byte
    BY DEF BytesOK
  <2> QED BY <1>2, <2>2, <2>3
<1>7. ASSUME NEW j \in 1 .. Len(U), NEW i \in 1 .. Sz(ch, U[j]), i = 1 \/ ~IsSymbol(ch, U[j])
      PROVE  d[(U[j].at - pre) + i] = Code(ch, U[j])[i]
  <2>1. CASE j \in 1 .. n
    <3>1. U[j] = T[j]
      BY <1>3, <2>1
    <3>2. (T[j].at - pre) + i \in 1 .. Len(c)
      BY <1>1, <2>1, <3>1, ItemBytes DEF n
    <3>3. c[(T[j].at - pre) + i] = Code(ch, T[j])[i]
      BY <1>7, <2>1, <3>1 DEF BytesOK, n
    <3>4. d[(T[j].at - pre) + i] = c[(T[j].at - pre) + i]
      BY <1>4, <3>2 DEF Joined
    <3> QED BY <3>1, <3>3, <3>4
  <2>2. CASE j = n + 1
    <3>1. U[j] = e /\ i \in 1 .. Len(k)
      BY <1>2, <1>3, <2>2
    <3>2. (e.at - pre) + i = Len(c) + i
      BY <1>1, <3>1
    <3>3. d[Len(c) + i] = k[i]
      BY <1>4, <3>1 DEF Joined
    <3> QED BY <3>1, <3>2, <3>3 DEF k
  <2> QED BY <1>1, <1>3, <2>1, <2>2
<1>8. BytesOK(U, ch, pre, d)
  BY <1>5, <1>6, <1>7 DEF BytesOK
<1> QED BY <1>2, <1>5, <1>8 DEF U, d, k

(* Fixups: where they are, and for which label.                            *)
KeyOf(mi) == <<mi.arg.f, mi.arg.b>>
FixOf(ch, pre, e) == <<(e.at - pre) + 1, KeyOf(ItemOf(ch, e))>>
FixupsOK(T, ch, pre, fx) ==
  /\ IsSeq(fx)
  /\ \A x \in 1 .. Len(fx) : \E j \in 1 .. Len(T) :
       IsSymbol(ch, T[j]) /\ fx[x] = FixOf(ch, pre, T[j])
Waiting(ch, pre, fx, e) == \E x \in 1 .. Len(fx) : fx[x] = FixOf(ch, pre, e)
Patched(ch, pre, c, l, e) ==
  LET v == l[KeyOf(ItemOf(ch, e))]
  IN  /\ v \in Nat /\ v <= 65535
      /\ c[(e.at - pre) + 2] = (v \div 256) % 256
      /\ c[(e.at - pre) + 3] = v % 256
AllWait(T, ch, pre, fx) ==
  \A j \in 1 .. Len(T) : IsSymbol(ch, T[j]) => Waiting(ch, pre, fx, T[j])

LEMMA SymbolKind ==
  ASSUME NEW mi, ItemOK(mi)
  PROVE  mi.arg.kind = "symbol" <=> IsSymbolPush(mi)
<1>1. CASE IsPlain(mi)
  BY <1>1 DEF IsPlain, NoOperand, IsSymbolPush, PUSH1, IsPush, PUSH32
<1>2. CASE \E v : IsNumberPush(mi, v)
  <2>1. mi.arg.kind # "symbol"
    BY <1>2 DEF IsNumberPush
  <2>2. ASSUME IsSymbolPush(mi) PROVE FALSE
    <3>1. PICK g, b : mi.arg = Symbol(g, b)
      BY <2>2 DEF IsSymbolPush
    <3>2. mi.arg.kind = "symbol"
      BY <3>1 DEF Symbol
    <3> QED BY <2>1, <3>2
  <2> QED BY <2>1, <2>2
<1>3. CASE IsSymbolPush(mi)
  <2>1. PICK g, b : mi.arg = Symbol(g, b)
    BY <1>3 DEF IsSymbolPush
  <2>2. mi.arg.kind = "symbol"
    BY <2>1 DEF Symbol
  <2> QED BY <1>3, <2>2
<1> QED BY <1>1, <1>2, <1>3 DEF ItemOK

LEMMA FixupsMore ==
  ASSUME NEW T, IsSeq(T), NEW ch \in Operands, NEW pre \in Nat, NEW fx, FixupsOK(T, ch, pre, fx),
         AllWait(T, ch, pre, fx), NEW e, EntryOK(ch, e), NEW gx,
         gx = IF ItemOf(ch, e).arg.kind = "symbol" THEN Append(fx, FixOf(ch, pre, e)) ELSE fx
  PROVE  FixupsOK(Append(T, e), ch, pre, gx) /\ AllWait(Append(T, e), ch, pre, gx)
<1> DEFINE U == Append(T, e)
           n == Len(T)
           fe == FixOf(ch, pre, e)
           m == Len(fx)
<1>1. n \in Nat /\ IsSeq(fx) /\ m \in Nat
  BY SeqFacts DEF FixupsOK
<1>2. Len(U) = n + 1 /\ (\A j \in 1 .. n : U[j] = T[j]) /\ U[n + 1] = e
  BY Appended
<1>3. ItemOf(ch, e).arg.kind = "symbol" <=> IsSymbol(ch, e)
  BY EntryIs, SymbolKind DEF IsSymbol
<1>4. \A x \in 1 .. m : \E j \in 1 .. n : IsSymbol(ch, T[j]) /\ fx[x] = FixOf(ch, pre, T[j])
  BY DEF FixupsOK
<1>5. \A j \in 1 .. n : IsSymbol(ch, T[j]) => \E x \in 1 .. m : fx[x] = FixOf(ch, pre, T[j])
  BY DEF AllWait, Waiting
<1> HIDE DEF U, n, fe, m
<1>6. \A x \in 1 .. m : \E j \in 1 .. Len(U) : IsSymbol(ch, U[j]) /\ fx[x] = FixOf(ch, pre, U[j])
  <2> SUFFICES ASSUME NEW x \in 1 .. m
               PROVE  \E j \in 1 .. Len(U) : IsSymbol(ch, U[j]) /\ fx[x] = FixOf(ch, pre, U[j])
    OBVIOUS
  <2>1. PICK j \in 1 .. n : IsSymbol(ch, T[j]) /\ fx[x] = FixOf(ch, pre, T[j])
    BY <1>4
  <2>2. j \in 1 .. Len(U) /\ U[j] = T[j]
    BY <1>1, <1>2
  <2> QED BY <2>1, <2>2
<1>7. CASE ~IsSymbol(ch, e)
  <2>1. gx = fx
    BY <1>3, <1>7
  <2>2. FixupsOK(U, ch, pre, fx)
    BY <1>1, <1>6 DEF FixupsOK, m
  <2>3. AllWait(U, ch, pre, fx)
    <3> SUFFICES ASSUME NEW j \in 1 .. Len(U), IsSymbol(ch, U[j]) PROVE Waiting(ch, pre, fx, U[j])
      BY DEF AllWait
    <3>1. j # n + 1
      BY <1>2, <1>7
    <3>2. j \in 1 .. n /\ U[j] = T[j]
      BY <1>1, <1>2, <3>1
    <3> QED BY <1>5, <3>2 DEF Waiting, m
  <2> QED BY <2>1, <2>2, <2>3 DEF U
<1>8. CASE IsSymbol(ch, e)
  <2>1. gx = Append(fx, fe)
    BY <1>3, <1>8 DEF fe
  <2>2. IsSeq(gx) /\ Len(gx) = m + 1 /\ (\A x \in 1 .. m : gx[x] = fx[x]) /\ gx[m + 1] = fe
    BY <1>1, <2>1, Appended DEF m
  <2>3. ASSUME NEW x \in 1 .. Len(gx)
        PROVE  \E j \in 1 .. Len(U) : IsSymbol(ch, U[j]) /\ gx[x] = FixOf(ch, pre, U[j])
    <3>1. CASE x \in 1 .. m
      BY <1>6, <2>2, <3>1
    <3>2. CASE x = m + 1
      <4>1. n + 1 \in 1 .. Len(U) /\ IsSymbol(ch, U[n + 1]) /\ gx[x] = FixOf(ch, pre, U[n + 1])
        BY <1>1, <1>2, <1>8, <2>2, <3>2 DEF fe
      <4> QED BY <4>1
    <3> QED BY <1>1, <2>2, <3>1, <3>2
  <2>4. AllWait(U, ch, pre, gx)
    <3> SUFFICES ASSUME NEW j \in 1 .. Len(U), IsSymbol(ch, U[j]) PROVE Waiting(ch, pre, gx, U[j])
      BY DEF AllWait
    <3>1. CASE j = n + 1
      <4>1. m + 1 \in 1 .. Len(gx) /\ gx[m + 1] = FixOf(ch, pre, U[j])
        BY <1>1, <1>2, <2>2, <3>1 DEF fe
      <4> QED BY <4>1 DEF Waiting
    <3>2. CASE j \in 1 .. n
      <4>1. PICK x \in 1 .. m : fx[x] = FixOf(ch, pre, T[j])
        BY <1>2, <1>5, <3>2
      <4>2. x \in 1 .. Len(gx) /\ gx[x] = FixOf(ch, pre, U[j])
        BY <1>1, <1>2, <2>2, <3>2, <4>1
      <4> QED BY <4>2 DEF Waiting
    <3> QED BY <1>1, <1>2, <3>1, <3>2
  <2> QED BY <2>2, <2>3, <2>4 DEF FixupsOK, U
<1> QED BY <1>7, <1>8

-----------------------------------------------------------------------------
LEMMA OneMore ==
  ASSUME NEW a, NEW v, NEW f
  PROVE  /\ DOMAIN Written(f, a, v) = DOMAIN f \cup {a}
         /\ Written(f, a, v)[a] = v
         /\ \A x \in DOMAIN f : x # a => Written(f, a, v)[x] = f[x]
BY DEF Written

(* The history of where source instructions start.                         *)
OriginOK(T, o) ==
  /\ \A j \in 1 .. Len(T) : T[j].q = 1 => T[j].at \in DOMAIN o /\ o[T[j].at] = T[j].p
  /\ \A a \in DOMAIN o : \E j \in 1 .. Len(T) : T[j].at = a /\ T[j].q = 1

LEMMA OriginMore ==
  ASSUME NEW T, NEW ch \in Operands, NEW pre \in Nat, NEW here \in Nat, Layout(T, ch, pre, here),
         NEW o, OriginOK(T, o), NEW e, e.at = here, NEW r,
         r = IF e.q = 1 THEN Written(o, here, e.p) ELSE o
  PROVE  OriginOK(Append(T, e), r)
<1> DEFINE U == Append(T, e)
           n == Len(T)
<1>1. n \in Nat /\ IsSeq(T)
  BY SeqFacts DEF Layout
<1>2. Len(U) = n + 1 /\ (\A j \in 1 .. n : U[j] = T[j]) /\ U[n + 1] = e
  BY <1>1, Appended
<1>3. \A j \in 1 .. n : T[j].at # here
  <2> SUFFICES ASSUME NEW j \in 1 .. n PROVE T[j].at # here
    OBVIOUS
  <2>1. EntryOK(ch, T[j]) /\ T[j].at + Sz(ch, T[j]) <= here
    BY DEF Layout
  <2>2. Sz(ch, T[j]) \in Nat /\ Sz(ch, T[j]) > 0 /\ T[j].at \in Nat
    BY <2>1, EntryIs DEF EntryOK
  <2> QED BY <2>1, <2>2
<1> HIDE DEF U, n
<1>4. /\ DOMAIN r = (IF e.q = 1 THEN DOMAIN o \cup {here} ELSE DOMAIN o)
      /\ e.q = 1 => r[here] = e.p
      /\ \A a \in DOMAIN o : a # here => r[a] = o[a]
  <2>1. CASE e.q = 1
    <3>1. r = Written(o, here, e.p)
      BY <2>1
    <3>2. DOMAIN r = DOMAIN o \cup {here} /\ r[here] = e.p
      BY <3>1 DEF Written
    <3>3. \A a \in DOMAIN o : a # here => r[a] = o[a]
      BY <3>1 DEF Written
    <3> QED BY <2>1, <3>2, <3>3
  <2>2. CASE e.q # 1
    BY <2>2
  <2> QED BY <2>1, <2>2
<1>5. ASSUME NEW j \in 1 .. Len(U), U[j].q = 1
      PROVE  U[j].at \in DOMAIN r /\ r[U[j].at] = U[j].p
  <2>1. CASE j \in 1 .. n
    <3>1. U[j] = T[j] /\ T[j].at # here
      BY <1>2, <1>3, <2>1
    <3>2. T[j].at \in DOMAIN o /\ o[T[j].at] = T[j].p
      BY <1>5, <2>1, <3>1 DEF OriginOK, n
    <3> QED BY <1>4, <3>1, <3>2
  <2>2. CASE j = n + 1
    BY <1>2, <1>4, <1>5, <2>2
  <2> QED BY <1>1, <1>2, <2>1, <2>2
<1>6. ASSUME NEW a \in DOMAIN r
      PROVE  \E j \in 1 .. Len(U) : U[j].at = a /\ U[j].q = 1
  <2>1. CASE a \in DOMAIN o
    <3>1. PICK j \in 1 .. n : T[j].at = a /\ T[j].q = 1
      BY <2>1 DEF OriginOK, n
    <3>2. j \in 1 .. Len(U) /\ U[j] = T[j]
      BY <1>1, <1>2
    <3> QED BY <3>1, <3>2
  <2>2. CASE a \notin DOMAIN o
    <3>1. e.q = 1 /\ a = here
      BY <1>4, <1>6, <2>2
    <3>2. n + 1 \in 1 .. Len(U) /\ U[n + 1] = e
      BY <1>1, <1>2
    <3> QED BY <3>1, <3>2
  <2> QED BY <2>1, <2>2
<1> QED BY <1>5, <1>6 DEF OriginOK, U

(* Return points.                                                          *)
IsBack(ch, e) == e.q > Off(e.p) /\ ItemOf(ch, e).op = JUMPDEST
BackOK(T, ch, k) ==
  /\ \A j \in 1 .. Len(T) : IsBack(ch, T[j]) => T[j].p \in DOMAIN k /\ k[T[j].p] = T[j].at
  /\ \A p \in DOMAIN k : \E j \in 1 .. Len(T) : T[j].p = p /\ IsBack(ch, T[j])

LEMMA PushOps == \A o \in PUSH1 .. PUSH32 : o \in 96 .. 127 /\ o # JUMPDEST
BY DEF PUSH1, PUSH32, JUMPDEST

LEMMA NumberPushOp ==
  ASSUME NEW n \in Nat
  PROVE  N(n).op \in 96 .. 127 /\ N(n).op # JUMPDEST
<1>1. IsNumberPush(N(n), Num(n))
  BY PushShrinks
<1>2. N(n).op \in PUSH1 .. PUSH32
  BY <1>1 DEF IsNumberPush
<1> QED BY <1>2 DEF PUSH1, PUSH32, JUMPDEST

LEMMA PlainIs == ASSUME NEW o PROVE Plain(o).op = o /\ Plain(o).arg = NoOperand
BY DEF Plain, MI

LEMMA SourceAddresses ==
  ASSUME NEW f \in DOMAIN Program
  PROVE  /\ FPAddr \in Nat /\ SaveIndex(f) \in Nat /\ SaveIndex(f) > 0
         /\ Program[f].slots \in Nat /\ Program[f].objects \in Nat
         /\ 32 * SaveIndex(f) \in Nat /\ 32 * (SaveIndex(f) + 1) \in Nat
<1>1. AllocatedGlobalSlots \in Nat /\ Program[f].slots \in Nat /\ Program[f].objects \in Nat
  BY ProgramAssumption, FunctionIs
<1>2. FPAddr \in Nat
  BY <1>1 DEF FPAddr
<1>3. SaveIndex(f) \in Nat /\ SaveIndex(f) > 0
  BY <1>1 DEF SaveIndex
<1> QED BY <1>1, <1>2, <1>3

LEMMA NoBack ==
  ASSUME NEW m, NEW f \in DOMAIN Program, IsSource(m, f), m.op # pJUMPSUB,
         NEW k \in 1 .. Len(Shrunk(m, f))
  PROVE  Shrunk(m, f)[k].op # JUMPDEST
<1> DEFINE s == Shrunk(m, f)
<1>0. JUMPDEST = 91
  BY DEF JUMPDEST
<1>1. CASE IsConst(m)
  <2>1. Len(s) = 1 /\ IsNumberPush(s[1], Word(m.arg.bytes))
    BY <1>1, ConstCode
  <2>2. k = 1
    BY <2>1
  <2>3. s[1].op \in PUSH1 .. PUSH32
    BY <2>1 DEF IsNumberPush
  <2>4. s[1].op # JUMPDEST
    BY <2>3, PushOps
  <2> QED BY <2>2, <2>4
<1>2. CASE IsAddress(m)
  <2>1. Len(s) = 1 /\ s[1] = MI(PUSH1 + 1, m.arg)
    BY <1>2, AddressCode
  <2>2. k = 1
    BY <2>1
  <2>3. s[1].op # JUMPDEST
    BY <2>1 DEF MI, PUSH1, JUMPDEST
  <2> QED BY <2>2, <2>3
<1>3. CASE IsSimple(m)
  <2>1. Len(s) = 1 /\ s[1].op = IF m.op = pRETURNSUB THEN JUMP ELSE m.op
    BY <1>3, SimpleCode
  <2>2. k = 1
    BY <2>1
  <2>3. s[1].op # JUMPDEST
    BY <1>3, <2>1 DEF IsSimple, CALLDATASIZE, POP, STOP, JUMP, pRETURNSUB, JUMPDEST
  <2> QED BY <2>2, <2>3
<1>4. CASE IsCounted(m)
  <2>1. PICK n \in 1 .. 16 : m.arg = Count(n)
    BY <1>4 DEF IsCounted
  <2>2. m.op \in {SWAP_r, DUP_r}
    BY <1>4 DEF IsCounted
  <2>3. Len(Shrunk(m, f)) = 1 /\ Shrunk(m, f)[1] = Plain(SwapDupOp(m, n))
    BY <2>1, <2>2, SwapDupCode, SMTT(30)
  <2>4. k = 1
    BY <2>3
  <2>5. s[1].op # JUMPDEST
    <3>1. s[1].op = SWAP1 + n - 1 \/ s[1].op = DUP1 + n - 1
      BY <2>3, PlainIs DEF SwapDupOp
    <3> QED BY <3>1 DEF SWAP1, DUP1, JUMPDEST
  <2> QED BY <2>4, <2>5
<1>5. CASE IsLocal(m, f)
  <2>1. /\ Len(s) = 5 /\ s[1] = N(FPAddr) /\ s[2] = Plain(MLOAD)
        /\ s[3] = N(32 * (m.arg.n + Program[f].objects)) /\ s[4] = Plain(ADD)
        /\ s[5] = Plain(IF m.op = pGETLOCAL THEN MLOAD ELSE MSTORE)
    BY <1>5, LocalCode
  <2>2. m.arg.n \in Nat
    <3>1. PICK n \in Nat : m.arg = Count(n)
      BY <1>5 DEF IsLocal
    <3>2. m.arg.n = n
      BY <3>1 DEF Count
    <3> QED BY <3>2
  <2>3. FPAddr \in Nat /\ 32 * (m.arg.n + Program[f].objects) \in Nat
    <3>1. FPAddr \in Nat /\ Program[f].objects \in Nat
      BY SourceAddresses
    <3> QED BY <2>2, <3>1
  <2>4. s[1].op # JUMPDEST /\ s[3].op # JUMPDEST
    BY <2>1, <2>3, NumberPushOp
  <2>5. s[2].op = MLOAD /\ s[4].op = ADD /\ s[5].op \in {MLOAD, MSTORE}
    BY <2>1, PlainIs
  <2>6. s[2].op # JUMPDEST /\ s[4].op # JUMPDEST /\ s[5].op # JUMPDEST
    BY <2>5 DEF MLOAD, ADD, MSTORE, JUMPDEST
  <2>7. k = 1 \/ k = 2 \/ k = 3 \/ k = 4 \/ k = 5
    BY <2>1
  <2> HIDE DEF s
  <2> QED BY <2>4, <2>6, <2>7 DEF s
<1>6. CASE IsJump(m, f)
  <2>1. /\ Len(s) = 2 /\ s[1] = MI(PUSH1 + 1, m.arg)
        /\ s[2] = Plain(IF m.op = pJUMPTO THEN JUMP ELSE JUMPI)
    BY <1>6, JumpCode
  <2>2. s[1].op = PUSH1 + 1 /\ s[2].op \in {JUMP, JUMPI}
    BY <2>1, PlainIs DEF MI
  <2>3. s[1].op # JUMPDEST /\ s[2].op # JUMPDEST
    BY <2>2 DEF PUSH1, JUMP, JUMPI, JUMPDEST
  <2>4. k = 1 \/ k = 2
    BY <2>1
  <2> HIDE DEF s
  <2> QED BY <2>3, <2>4 DEF s
<1> QED BY <1>1, <1>2, <1>3, <1>4, <1>5, <1>6 DEF IsSource

LEMMA CallOps ==
  ASSUME NEW f \in DOMAIN Program, NEW n \in 1 .. 16, NEW s, CallTable(s, n, f), NEW k \in 1 .. 29
  PROVE  s[k].op = JUMPDEST <=> k = 21
<1>1. FPAddr \in Nat /\ 32 * SaveIndex(f) \in Nat /\ 32 * (SaveIndex(f) + 1) \in Nat
  BY SourceAddresses
<1>2. FPAddr + 32 \in Nat /\ 32 \in Nat
  BY <1>1
<1>3. /\ N(FPAddr).op # JUMPDEST /\ N(32 * SaveIndex(f)).op # JUMPDEST
      /\ N(32 * (SaveIndex(f) + 1)).op # JUMPDEST /\ N(FPAddr + 32).op # JUMPDEST
      /\ N(32).op # JUMPDEST
  BY <1>1, <1>2, NumberPushOp
<1>4. /\ \A o \in {MLOAD, DUP1, ADD, MSTORE, GETPC, JUMP, SWAP1, SUB, PUSH1} : o # JUMPDEST
      /\ SWAP1 + n - 1 # JUMPDEST
  BY DEF MLOAD, DUP1, ADD, MSTORE, GETPC, JUMP, SWAP1, SUB, PUSH1, JUMPDEST
<1>5. MI(PUSH1, Imm(4)).op = PUSH1
  BY DEF MI
<1>6. /\ s[1].op # JUMPDEST /\ s[4].op # JUMPDEST /\ s[7].op # JUMPDEST /\ s[9].op # JUMPDEST
      /\ s[12].op # JUMPDEST /\ s[14].op # JUMPDEST /\ s[16].op # JUMPDEST
      /\ s[22].op # JUMPDEST /\ s[24].op # JUMPDEST /\ s[28].op # JUMPDEST
  BY <1>3, <1>4, <1>5 DEF CallTable
<1>7. /\ s[2].op = MLOAD /\ s[3].op = DUP1 /\ s[5].op = ADD /\ s[6].op = MSTORE /\ s[8].op = MLOAD
      /\ s[10].op = ADD /\ s[11].op = DUP1 /\ s[13].op = MSTORE /\ s[15].op = MSTORE
      /\ s[17].op = GETPC /\ s[18].op = ADD /\ s[19].op = SWAP1 + n - 1 /\ s[20].op = JUMP
      /\ s[21].op = JUMPDEST /\ s[23].op = MLOAD /\ s[25].op = SWAP1 /\ s[26].op = SUB
      /\ s[27].op = MLOAD /\ s[29].op = MSTORE
  BY PlainIs DEF CallTable
<1>8. \/ k = 1 \/ k = 2 \/ k = 3 \/ k = 4 \/ k = 5 \/ k = 6 \/ k = 7 \/ k = 8 \/ k = 9 \/ k = 10
      \/ k = 11 \/ k = 12 \/ k = 13 \/ k = 14 \/ k = 15 \/ k = 16 \/ k = 17 \/ k = 18 \/ k = 19
      \/ k = 20 \/ k = 21 \/ k = 22 \/ k = 23 \/ k = 24 \/ k = 25 \/ k = 26 \/ k = 27 \/ k = 28
      \/ k = 29
  OBVIOUS
<1> QED BY <1>4, <1>6, <1>7, <1>8

(* A source instruction in the final code.                                 *)
LEMMA EntryAt ==
  ASSUME NEW ch \in Operands, NEW e, EntryOK(ch, e)
  PROVE  LET m == Src(ch, e.p)
             s == Shrunk(m, e.p[1])
         IN  /\ e.p[1] \in DOMAIN Program /\ IsSource(m, e.p[1]) /\ Len(s) \in Nat /\ Len(s) > 0
             /\ Off(e.p) \in {0, 1} /\ e.q \in Nat /\ e.q > 0
             /\ Len(Final(ch, e.p)) = Off(e.p) + Len(s)
             /\ e.q <= Off(e.p) => e.q = 1 /\ Off(e.p) = 1 /\ ItemOf(ch, e) = Plain(JUMPDEST)
             /\ e.q > Off(e.p) => e.q - Off(e.p) \in 1 .. Len(s)
                                    /\ ItemOf(ch, e) = s[e.q - Off(e.p)]
<1> DEFINE p == e.p
           m == Src(ch, p)
           s == Shrunk(m, p[1])
           o == Off(p)
           z == Final(ch, p)
           q == e.q
<1>1. p \in Positions /\ q \in 1 .. Len(z)
  BY DEF EntryOK
<1>2. p[1] \in DOMAIN Program /\ IsSource(m, p[1])
  BY <1>1, SourceIs DEF Positions
<1>3. /\ Len(s) \in Nat /\ Len(s) > 0 /\ Len(z) = o + Len(s)
      /\ (\A k \in 1 .. Len(s) : z[o + k] = s[k]) /\ (p[3] = 1 => z[1] = Plain(JUMPDEST))
  BY <1>1, FinalIs DEF ShrunkAt
<1>4. o \in {0, 1} /\ (o = 1 => p[3] = 1)
  BY DEF Off
<1>5. ItemOf(ch, e) = z[q]
  BY DEF ItemOf
<1> HIDE DEF p, m, s, o, z, q
<1>6. q \in Nat /\ q > 0
  BY <1>1, <1>3, <1>4
<1>7. ASSUME q <= o PROVE q = 1 /\ o = 1 /\ z[q] = Plain(JUMPDEST)
  BY <1>3, <1>4, <1>6, <1>7
<1>8. ASSUME q > o PROVE q - o \in 1 .. Len(s) /\ z[q] = s[q - o]
  <2>1. q - o \in 1 .. Len(s) /\ o + (q - o) = q
    BY <1>1, <1>3, <1>4, <1>6, <1>8
  <2> QED BY <1>3, <2>1
<1> QED BY <1>2, <1>3, <1>4, <1>5, <1>6, <1>7, <1>8 DEF p, m, s, o, z, q

LEMMA BackIs ==
  ASSUME NEW ch \in Operands, NEW e, EntryOK(ch, e)
  PROVE  IsBack(ch, e) <=> Src(ch, e.p).op = pJUMPSUB /\ e.q = Off(e.p) + 21
<1> DEFINE m == Src(ch, e.p)
           f == e.p[1]
           s == Shrunk(m, f)
           o == Off(e.p)
           k == e.q - o
<1>1. /\ f \in DOMAIN Program /\ IsSource(m, f) /\ Len(s) \in Nat /\ o \in {0, 1} /\ e.q \in Nat
      /\ Len(Final(ch, e.p)) = o + Len(s)
      /\ e.q > o => k \in 1 .. Len(s) /\ ItemOf(ch, e) = s[k]
  BY EntryAt
<1> HIDE DEF m, f, s, o
<1>2. CASE m.op = pJUMPSUB
  <2>1. IsCounted(m)
    <3>1. m.op # PUSH32 /\ m.op \notin {CALLDATASIZE, POP, pRETURNSUB, STOP}
          /\ m.op \notin {pGETLOCAL, pPUTLOCAL} /\ m.op \notin {pJUMPTO, pJUMPIF}
      BY <1>2 DEF pJUMPSUB, PUSH32, CALLDATASIZE, POP, pRETURNSUB, STOP, pGETLOCAL, pPUTLOCAL,
                  pJUMPTO, pJUMPIF
    <3> QED BY <1>1, <3>1 DEF IsSource, IsConst, IsAddress, IsSimple, IsLocal, IsJump
  <2>2. PICK n \in 1 .. 16 : m.arg = Count(n)
    BY <2>1 DEF IsCounted
  <2>3. Len(s) = 29 /\ CallTable(s, n, f)
    BY <1>1, <1>2, <2>2, CallCode DEF s
  <2>4. CASE e.q > o
    <3>1. k \in 1 .. 29 /\ ItemOf(ch, e) = s[k]
      BY <1>1, <2>3, <2>4
    <3>2. s[k].op = JUMPDEST <=> k = 21
      BY <1>1, <2>3, <3>1, CallOps
    <3>3. k = 21 <=> e.q = o + 21
      BY <1>1
    <3> QED BY <1>2, <2>4, <3>1, <3>2, <3>3 DEF IsBack, o, m
  <2>5. CASE ~(e.q > o)
    <3>1. e.q # o + 21
      BY <1>1, <2>5
    <3> QED BY <2>5, <3>1 DEF IsBack, o
  <2> QED BY <2>4, <2>5
<1>3. CASE m.op # pJUMPSUB
  <2>1. ASSUME e.q > o PROVE ItemOf(ch, e).op # JUMPDEST
    BY <1>1, <1>3, <2>1, NoBack DEF s
  <2> QED BY <1>3, <2>1 DEF IsBack, o, m
<1> QED BY <1>2, <1>3

LEMMA BackMore ==
  ASSUME NEW T, NEW ch \in Operands, NEW pre \in Nat, NEW here \in Nat, Layout(T, ch, pre, here),
         NEW k, BackOK(T, ch, k), NEW e, EntryOK(ch, e), e.at = here, NEW r,
         \A j \in 1 .. Len(T) : ~(T[j].p = e.p /\ T[j].q = e.q),
         r = IF IsBack(ch, e) THEN Written(k, e.p, here) ELSE k
  PROVE  BackOK(Append(T, e), ch, r)
<1> DEFINE U == Append(T, e)
           n == Len(T)
<1>1. n \in Nat /\ IsSeq(T)
  BY SeqFacts DEF Layout
<1>2. Len(U) = n + 1 /\ (\A j \in 1 .. n : U[j] = T[j]) /\ U[n + 1] = e
  BY <1>1, Appended
<1>3. ASSUME IsBack(ch, e) PROVE \A j \in 1 .. n : IsBack(ch, T[j]) => T[j].p # e.p
  <2> SUFFICES ASSUME NEW j \in 1 .. n, IsBack(ch, T[j]), T[j].p = e.p PROVE FALSE
    OBVIOUS
  <2>1. EntryOK(ch, T[j])
    BY DEF Layout
  <2>2. T[j].q = Off(e.p) + 21 /\ e.q = Off(e.p) + 21
    BY <1>3, <2>1, BackIs
  <2> QED BY <2>2
<1> HIDE DEF U, n
<1>4. CASE IsBack(ch, e)
  <2>1. r = Written(k, e.p, here)
    BY <1>4
  <2>2. DOMAIN r = DOMAIN k \cup {e.p} /\ r[e.p] = here
    BY <2>1 DEF Written
  <2>3. \A a \in DOMAIN k : a # e.p => r[a] = k[a]
    BY <2>1 DEF Written
  <2>4. ASSUME NEW j \in 1 .. Len(U), IsBack(ch, U[j])
        PROVE  U[j].p \in DOMAIN r /\ r[U[j].p] = U[j].at
    <3>1. CASE j \in 1 .. n
      <4>1. U[j] = T[j] /\ T[j].p # e.p
        BY <1>2, <1>3, <1>4, <2>4, <3>1
      <4>2. T[j].p \in DOMAIN k /\ k[T[j].p] = T[j].at
        BY <2>4, <3>1, <4>1 DEF BackOK, n
      <4> QED BY <2>2, <2>3, <4>1, <4>2
    <3>2. CASE j = n + 1
      BY <1>2, <2>2, <3>2
    <3> QED BY <1>1, <1>2, <3>1, <3>2
  <2>5. ASSUME NEW p \in DOMAIN r PROVE \E j \in 1 .. Len(U) : U[j].p = p /\ IsBack(ch, U[j])
    <3>1. CASE p \in DOMAIN k
      <4>1. PICK j \in 1 .. n : T[j].p = p /\ IsBack(ch, T[j])
        BY <3>1 DEF BackOK, n
      <4>2. j \in 1 .. Len(U) /\ U[j] = T[j]
        BY <1>1, <1>2
      <4> QED BY <4>1, <4>2
    <3>2. CASE p = e.p
      <4>1. n + 1 \in 1 .. Len(U) /\ U[n + 1] = e
        BY <1>1, <1>2
      <4> QED BY <1>4, <3>2, <4>1
    <3> QED BY <2>2, <2>5, <3>1, <3>2
  <2> QED BY <2>4, <2>5 DEF BackOK, U
<1>5. CASE ~IsBack(ch, e)
  <2>1. r = k
    BY <1>5
  <2>2. ASSUME NEW j \in 1 .. Len(U), IsBack(ch, U[j])
        PROVE  U[j].p \in DOMAIN k /\ k[U[j].p] = U[j].at
    <3>1. j # n + 1
      BY <1>2, <1>5, <2>2
    <3>2. j \in 1 .. n /\ U[j] = T[j]
      BY <1>1, <1>2, <3>1
    <3> QED BY <2>2, <3>2 DEF BackOK, n
  <2>3. ASSUME NEW p \in DOMAIN k PROVE \E j \in 1 .. Len(U) : U[j].p = p /\ IsBack(ch, U[j])
    <3>1. PICK j \in 1 .. n : T[j].p = p /\ IsBack(ch, T[j])
      BY DEF BackOK, n
    <3>2. j \in 1 .. Len(U) /\ U[j] = T[j]
      BY <1>1, <1>2
    <3> QED BY <3>1, <3>2
  <2> QED BY <2>1, <2>2, <2>3 DEF BackOK, U
<1> QED BY <1>4, <1>5

(* Steps along the code of a block.                                        *)
StepOK(c, ch, f, b, I, J, k) ==
  /\ k = 1 \/ c[k].from # c[k - 1].from <=> J[k] = 1
  /\ k > 1 <=> J[k] > Off(<<f, b, I[k]>>)
  /\ \A d, e : /\ k > 1 /\ d.p = <<f, b, I[k - 1]>> /\ d.q = J[k - 1]
               /\ e.p = <<f, b, I[k]>> /\ e.q = J[k]
               => Follows(ch, d, e)

LEMMA WalkStep ==
  ASSUME NEW f \in DOMAIN Program, NEW b \in 1 .. Len(Blks(f)), NEW ch \in Operands,
         NEW c, NEW I, NEW J, Walks(c, ch, f, b, I, J), NEW k \in 1 .. Len(c)
  PROVE  StepOK(c, ch, f, b, I, J, k)
<1>1. Len(c) \in Nat /\ k \in Nat /\ k > 0 /\ Size(f, b) \in Nat
  BY EmptyBlock DEF Walks
<1>2. \A x \in 1 .. Len(c) :
        /\ I[x] \in 1 .. Size(f, b) /\ <<f, b, I[x]>> \in Positions
        /\ J[x] \in 1 .. Len(Final(ch, <<f, b, I[x]>>)) /\ c[x].from = <<f, b, I[x]>>
        /\ x = 1 => I[x] = 1 /\ J[x] = 1
  BY DEF Walks
<1>3. \A x \in 1 .. Len(c) : I[x] \in Nat /\ I[x] > 0 /\ J[x] \in Nat /\ J[x] > 0
  <2> SUFFICES ASSUME NEW x \in 1 .. Len(c)
               PROVE  I[x] \in Nat /\ I[x] > 0 /\ J[x] \in Nat /\ J[x] > 0
    OBVIOUS
  <2>1. I[x] \in 1 .. Size(f, b) /\ J[x] \in 1 .. Len(Final(ch, <<f, b, I[x]>>))
    BY <1>2
  <2>2. Len(Final(ch, <<f, b, I[x]>>)) \in Nat
    BY <1>2, FinalIs
  <2> QED BY <1>1, <2>1, <2>2
<1>4. CASE k = 1
  <2>1. I[k] = 1 /\ J[k] = 1
    BY <1>2, <1>4
  <2>2. <<f, b, I[k]>>[3] = I[k]
    OBVIOUS
  <2>3. Off(<<f, b, I[k]>>) = 1
    BY <2>1, <2>2 DEF Off
  <2> QED BY <1>4, <2>1, <2>3 DEF StepOK
<1>5. CASE k > 1
  <2> DEFINE h == k - 1
             z == Len(Final(ch, <<f, b, I[h]>>))
  <2>1. h \in 1 .. Len(c) - 1 /\ h \in 1 .. Len(c) /\ h + 1 = k /\ 1 \in 1 .. Len(c)
    BY <1>1, <1>5
  <2>2. IF J[h] < z THEN I[k] = I[h] /\ J[k] = J[h] + 1 ELSE I[k] = I[h] + 1 /\ J[k] = 1
    <3> HIDE DEF h, z
    <3>1. IF J[h] < Len(Final(ch, <<f, b, I[h]>>)) THEN I[h + 1] = I[h] /\ J[h + 1] = J[h] + 1
          ELSE I[h + 1] = I[h] + 1 /\ J[h + 1] = 1
      BY <2>1 DEF Walks
    <3> QED BY <2>1, <3>1 DEF z
  <2>3. I[1] = 1 /\ J[1] = 1
    BY <1>2, <2>1
  <2>4. I[1] < I[k] \/ (I[1] = I[k] /\ J[1] < J[k])
    BY <1>5, <2>1 DEF Walks
  <2>5. c[k].from = <<f, b, I[k]>> /\ c[h].from = <<f, b, I[h]>>
    BY <1>2, <2>1
  <2>6. I[h] \in Nat /\ J[h] \in Nat /\ J[h] > 0 /\ I[k] \in Nat /\ J[k] \in Nat /\ J[k] > 0
    BY <1>3, <2>1
  <2>7. c[k].from # c[h].from <=> I[k] # I[h]
    BY <2>5
  <2>8. I[k] # I[h] <=> J[k] = 1
    BY <2>2, <2>6
  <2>9. J[k] > Off(<<f, b, I[k]>>)
    <3>1. Off(<<f, b, I[k]>>) = IF I[k] = 1 THEN 1 ELSE 0
      BY DEF Off
    <3> QED BY <2>3, <2>4, <2>6, <3>1
  <2>10. ASSUME NEW d, NEW e, d.p = <<f, b, I[h]>>, d.q = J[h], e.p = <<f, b, I[k]>>, e.q = J[k]
         PROVE  Follows(ch, d, e)
    <3>1. CASE J[h] < z
      BY <2>2, <2>10, <3>1 DEF Follows
    <3>2. CASE ~(J[h] < z)
      <4>1. I[k] = I[h] + 1 /\ J[k] = 1
        BY <2>2, <3>2
      <4>2. I[k] \in 1 .. Size(f, b) /\ <<f, b, I[h]>> \in Positions
        BY <1>2, <2>1
      <4>3. I[h] < Size(f, b)
        BY <1>1, <2>6, <4>1, <4>2
      <4>4. d.p \in Positions /\ d.p[1] = f /\ d.p[2] = b /\ d.p[3] = I[h]
        BY <2>10, <4>2
      <4>5. Blk!After(d.p) = <<f, b, I[h] + 1>>
        BY <4>3, <4>4, AfterIs
      <4> QED BY <2>10, <3>2, <4>1, <4>5 DEF Follows
    <3> QED BY <3>1, <3>2
  <2> QED BY <1>5, <2>7, <2>8, <2>9, <2>10 DEF StepOK
<1> QED BY <1>1, <1>4, <1>5
-----------------------------------------------------------------------------
(* The state of the compiler.                                              *)
Passes == {"expand", "convert", "shrink", "finalize"}
Done == {"fixup", "run", "failed"}
W(b) == Walk(code[b], chosen, Fn, b)
Old(g) == \E x \in 1 .. Len(Funcs) : Funcs[x] = g /\ (x < cur \/ stage \in Done)

Static ==
  /\ chosen \in Operands /\ prefix \in Nat /\ cur \in 1 .. Len(Funcs)
  /\ stage \in Passes \cup {"emit"} \cup Done
  /\ stage \in Passes \cup {"emit"} => CodeIs(code, stage, chosen, Fn)

CursorOK ==
  stage = "emit" =>
    /\ at = <<at[1], at[2]>> /\ at[1] \in 1 .. Len(code) + 1
    /\ at[1] <= Len(code) => at[2] \in 0 .. Len(code[at[1]]) + 1
    /\ at[1] > Len(code) => at[2] = 0

Fresh(T) ==
  \A j \in 1 .. Len(T) :
    \/ Old(T[j].p[1])
    \/ /\ stage = "emit" /\ T[j].p[1] = Fn
       /\ \/ T[j].p[2] < at[1]
          \/ /\ T[j].p[2] = at[1] /\ at[1] <= Len(code)
             /\ \E k \in 1 .. Len(code[at[1]]) :
                  k < at[2] /\ T[j].p[3] = W(at[1])[1][k] /\ T[j].q = W(at[1])[2][k]

InBlockEnd(e) ==
  /\ stage = "emit" /\ at[1] <= Len(code) /\ at[2] >= 2
  /\ e.p = <<Fn, at[1], W(at[1])[1][at[2] - 1]>> /\ e.q = W(at[1])[2][at[2] - 1]
BetweenBlocks(e) ==
  /\ e.q = Len(Final(chosen, e.p)) /\ (stage = "emit" => at[2] <= 1)
  /\ \/ IsLast(e.p)
     \/ /\ stage = "emit" /\ at[1] <= Len(code) /\ ~IsLast(e.p)
        /\ Blk!After(e.p) = Blk!StartOf(Fn, at[1])
Ends(T) == Len(T) # 0 => InBlockEnd(T[Len(T)]) \/ BetweenBlocks(T[Len(T)])

Labelled(f, b) ==
  Old(f) \/ (stage = "emit" /\ f = Fn /\ (b < at[1] \/ (b = at[1] /\ at[2] >= 1)))
PlacedAt(T, v, f, b) ==
  \E j \in 1 .. Len(T) : T[j].p = Blk!StartOf(f, b) /\ T[j].q = 1 /\ T[j].at = v
Pending(v, f, b) ==
  /\ stage = "emit" /\ at[1] <= Len(code) /\ at[2] <= 1
  /\ v = Here /\ Blk!StartOf(f, b) = Blk!StartOf(Fn, at[1])
LabelsOK(T) ==
  \A f \in DOMAIN Program : \A b \in 1 .. Len(Blks(f)) :
    Labelled(f, b) => /\ <<f, b>> \in DOMAIN labels
                      /\ \/ PlacedAt(T, labels[<<f, b>>], f, b)
                         \/ Pending(labels[<<f, b>>], f, b)

Output(T) ==
  /\ Layout(T, chosen, prefix, Here) /\ BytesOK(T, chosen, prefix, contents)
  /\ FixupsOK(T, chosen, prefix, fixups) /\ OriginOK(T, origin) /\ BackOK(T, chosen, back)
  /\ stage \in Passes \cup {"emit"} => AllWait(T, chosen, prefix, fixups)
  /\ stage \in {"fixup", "run"} =>
       \A j \in 1 .. Len(T) : IsSymbol(chosen, T[j]) =>
         \/ Waiting(chosen, prefix, fixups, T[j])
         \/ Patched(chosen, prefix, contents, labels, T[j])
  /\ stage = "run" => fixups = << >>

Tape(T) ==
  Static /\ CursorOK /\ Output(T) /\ Fresh(T) /\ Ends(T) /\ LabelsOK(T)

LEMMA FnIs ==
  ASSUME cur \in 1 .. Len(Funcs)
  PROVE  Fn \in DOMAIN Program
BY FuncsIs DEF Fn

LEMMA EmptyIs == IsSeq(<< >>) /\ Len(<< >>) = 0
<1>1. << >> \in Seq({})
  OBVIOUS
<1> QED BY <1>1 DEF IsSeq

LEMMA SomeFunction == 1 \in 1 .. Len(Funcs)
<1>1. Len(Funcs) \in Nat /\ Main \in ToSet(Funcs)
  BY FuncsIs, EntryAssumption
<1>2. \E i \in DOMAIN Funcs : Funcs[i] = Main
  BY <1>1 DEF ToSet
<1>3. DOMAIN Funcs = 1 .. Len(Funcs)
  BY FuncsIs
<1> QED BY <1>1, <1>2, <1>3

LEMMA StagesDiffer ==
  /\ Passes \cap Done = {} /\ "emit" \notin Passes /\ "emit" \notin Done
  /\ {"fixup", "run"} \cap Passes = {} /\ "emit" \notin {"fixup", "run"}
  /\ {"fixup", "run", "failed"} = Done /\ "fixup" # "run" /\ "failed" \notin {"fixup", "run"}
  /\ "expand" \in Passes /\ "convert" \in Passes /\ "shrink" \in Passes /\ "finalize" \in Passes
BY DEF Passes, Done

LEMMA TapeInit ==
  ASSUME EmitInit
  PROVE  Tape(<< >>)
<1> DEFINE T == << >>
<1>1. /\ chosen \in Operands /\ prefix \in PrefixSizes /\ stage = "expand" /\ cur = 1
      /\ code = Selected(Fn) /\ contents = << >> /\ fixups = << >> /\ labels = << >>
      /\ origin = << >> /\ back = << >>
  BY DEF EmitInit
<1>2. IsSeq(T) /\ Len(T) = 0
  BY EmptyIs
<1>3. prefix \in Nat /\ Here = prefix
  <2>1. prefix \in Nat
    BY <1>1, ProgramAssumption
  <2>2. Len(contents) = 0
    BY <1>1, EmptyIs
  <2> QED BY <2>1, <2>2 DEF Here
<1>4. Static
  <2>1. cur \in 1 .. Len(Funcs)
    BY <1>1, SomeFunction
  <2>2. Fn \in DOMAIN Program
    BY <2>1, FnIs
  <2>3. CodeIs(code, "expand", chosen, Fn)
    BY <1>1, <2>2, SelectedIs
  <2> QED BY <1>1, <1>3, <2>1, <2>3 DEF Static, Passes
<1>5. CursorOK
  BY <1>1 DEF CursorOK
<1> HIDE DEF T
<1>6. \A j \in 1 .. Len(T) : FALSE
  BY <1>2
<1>7. Output(T)
  <2>1. Layout(T, chosen, prefix, Here)
    <3>1. \A j \in 1 .. Len(T) - 1 : FALSE
      BY <1>2
    <3> QED BY <1>2, <1>3, <1>6, <3>1 DEF Layout
  <2>2. BytesOK(T, chosen, prefix, contents)
    <3>1. \A j \in 1 .. Len(contents) : FALSE
      BY <1>1, EmptyIs
    <3> QED BY <1>1, <1>6, <3>1, EmptyIs DEF BytesOK
  <2>3. FixupsOK(T, chosen, prefix, fixups)
    <3>1. \A j \in 1 .. Len(fixups) : FALSE
      BY <1>1, EmptyIs
    <3> QED BY <1>1, <3>1, EmptyIs DEF FixupsOK
  <2>4. DOMAIN origin = {} /\ DOMAIN back = {}
    BY <1>1
  <2>5. OriginOK(T, origin) /\ BackOK(T, chosen, back) /\ AllWait(T, chosen, prefix, fixups)
    BY <1>6, <2>4 DEF OriginOK, BackOK, AllWait
  <2> QED BY <1>1, <2>1, <2>2, <2>3, <2>5 DEF Output
<1>8. Fresh(T) /\ Ends(T)
  BY <1>2, <1>6 DEF Fresh, Ends
<1>9. LabelsOK(T)
  <2>1. \A f : ~Old(f)
    BY <1>1, StagesDiffer, SomeFunction DEF Old
  <2>2. \A f, b : ~Labelled(f, b)
    BY <1>1, <2>1 DEF Labelled
  <2> QED BY <2>2 DEF LabelsOK
<1> QED BY <1>4, <1>5, <1>7, <1>8, <1>9 DEF Tape, T

LEMMA TapePass ==
  ASSUME NEW T, Tape(T), ExpandPseudos \/ ConvertRegToStack \/ Shrinkpush \/ Finalization
  PROVE  Tape(T)'
<1>1. /\ stage \in Passes /\ stage' \in Passes \cup {"emit"}
      /\ UNCHANGED <<chosen, prefix, cur, contents, fixups, labels, origin, back>>
      /\ stage' = "emit" => at' = <<1, 0>>
  BY DEF ExpandPseudos, ConvertRegToStack, Shrinkpush, Finalization, Passes
<1>2. Static /\ Output(T) /\ Fresh(T) /\ Ends(T) /\ LabelsOK(T)
  BY DEF Tape
<1>3. Fn' = Fn /\ Here' = Here /\ Fn \in DOMAIN Program
  BY <1>1, <1>2, FnIs DEF Static, Fn, Here
<1>4. stage # "emit" /\ stage \notin Done /\ stage' \notin Done /\ stage' \notin {"fixup", "run"}
  BY <1>1, StagesDiffer
<1>5. CodeIs(code', stage', chosen, Fn)
  <2>1. chosen \in Operands /\ CodeIs(code, stage, chosen, Fn)
    BY <1>1, <1>2 DEF Static
  <2>2. CASE ExpandPseudos
    <3>1. stage = "expand" /\ stage' = "convert"
      BY <2>2 DEF ExpandPseudos
    <3> QED BY <1>3, <2>1, <2>2, <3>1, ExpandStep
  <2>3. CASE ConvertRegToStack
    <3>1. stage = "convert" /\ stage' = "shrink"
      BY <2>3 DEF ConvertRegToStack
    <3> QED BY <1>3, <2>1, <2>3, <3>1, ConvertStep
  <2>4. CASE Shrinkpush
    <3>1. stage = "shrink" /\ stage' = "finalize"
      BY <2>4 DEF Shrinkpush
    <3> QED BY <1>3, <2>1, <2>4, <3>1, ShrinkStep
  <2>5. CASE Finalization
    <3>1. stage = "finalize" /\ stage' = "emit"
      BY <2>5 DEF Finalization
    <3> QED BY <1>3, <2>1, <2>5, <3>1, FinalizeStep
  <2> QED BY <2>2, <2>3, <2>4, <2>5
<1>6. Static'
  BY <1>1, <1>2, <1>3, <1>5 DEF Static
<1>7. CursorOK'
  <2> SUFFICES ASSUME stage' = "emit"
               PROVE  /\ at' = <<at'[1], at'[2]>> /\ at'[1] \in 1 .. Len(code') + 1
                      /\ at'[1] <= Len(code') => at'[2] \in 0 .. Len(code'[at'[1]]) + 1
                      /\ at'[1] > Len(code') => at'[2] = 0
    BY DEF CursorOK
  <2>1. at' = <<1, 0>> /\ at'[1] = 1 /\ at'[2] = 0
    BY <1>1
  <2>2. Len(code') = Len(Blks(Fn)) /\ Len(Blks(Fn)) \in Nat /\ Len(Blks(Fn)) > 0
    BY <1>3, <1>5, FunctionIs DEF CodeIs
  <2>3. LaidOn(code'[1], Fn, 1, RowOf(stage', chosen, Fn, 1))
    BY <1>5, <2>2 DEF CodeIs
  <2>4. Len(code'[1]) \in Nat
    BY <2>3, SeqFacts DEF LaidOn, Laid
  <2> QED BY <2>1, <2>2, <2>4
<1>8. Output(T)'
  BY <1>1, <1>2, <1>3, <1>4, StagesDiffer DEF Output
<1>9. \A g : Old(g)' <=> Old(g)
  BY <1>1, <1>4 DEF Old
<1>10. Fresh(T)'
  BY <1>2, <1>4, <1>9 DEF Fresh
<1>11. Ends(T)'
  <2> SUFFICES ASSUME Len(T) # 0 PROVE BetweenBlocks(T[Len(T)])'
    BY DEF Ends
  <2>1. BetweenBlocks(T[Len(T)])
    BY <1>2, <1>4 DEF Ends, InBlockEnd
  <2>2. T[Len(T)].q = Len(Final(chosen, T[Len(T)].p)) /\ IsLast(T[Len(T)].p)
    BY <1>4, <2>1 DEF BetweenBlocks
  <2>3. stage' = "emit" => at'[2] <= 1
    BY <1>1
  <2> QED BY <1>1, <2>2, <2>3 DEF BetweenBlocks
<1>12. LabelsOK(T)'
  <2> SUFFICES ASSUME NEW f \in DOMAIN Program, NEW b \in 1 .. Len(Blks(f)), Labelled(f, b)'
               PROVE  /\ <<f, b>> \in DOMAIN labels'
                      /\ PlacedAt(T, labels'[<<f, b>>], f, b)
    BY DEF LabelsOK
  <2>1. Old(f)'
    <3>1. ~(stage' = "emit" /\ (b < at'[1] \/ (b = at'[1] /\ at'[2] >= 1)))
      <4> SUFFICES ASSUME stage' = "emit" PROVE ~(b < at'[1] \/ (b = at'[1] /\ at'[2] >= 1))
        OBVIOUS
      <4>1. at'[1] = 1 /\ at'[2] = 0
        BY <1>1
      <4>2. b >= 1 /\ b \in Nat
        BY FunctionIs
      <4> QED BY <4>1, <4>2
    <3> QED BY <3>1 DEF Labelled
  <2>2. Labelled(f, b)
    BY <1>9, <2>1 DEF Labelled
  <2>3. <<f, b>> \in DOMAIN labels /\ PlacedAt(T, labels[<<f, b>>], f, b)
    BY <1>2, <1>4, <2>2 DEF LabelsOK, Pending
  <2> QED BY <1>1, <2>3
<1> QED BY <1>6, <1>7, <1>8, <1>10, <1>11, <1>12 DEF Tape

(* While a function is written.                                            *)
LEMMA Emitting ==
  ASSUME Static, CursorOK, stage = "emit"
  PROVE  /\ Fn \in DOMAIN Program /\ chosen \in Operands
         /\ Len(code) = Len(Blks(Fn)) /\ Len(code) \in Nat /\ Len(code) > 0
         /\ at[1] \in Nat /\ at[1] > 0 /\ at[2] \in Nat /\ at = <<at[1], at[2]>>
         /\ \A b \in 1 .. Len(code) :
              /\ Walks(code[b], chosen, Fn, b, W(b)[1], W(b)[2]) /\ Len(code[b]) \in Nat
              /\ Len(code[b]) = 0 <=> Size(Fn, b) = 0
         /\ Len(code[Len(code)]) > 0
         /\ ~Old(Fn)
<1>1. Fn \in DOMAIN Program /\ chosen \in Operands /\ cur \in 1 .. Len(Funcs)
  BY FnIs DEF Static
<1>2. CodeIs(code, "emit", chosen, Fn)
  BY DEF Static
<1>3. Len(code) = Len(Blks(Fn)) /\ Len(code) \in Nat /\ Len(code) > 0
  BY <1>1, <1>2, FunctionIs DEF CodeIs
<1>4. ASSUME NEW b \in 1 .. Len(code)
      PROVE  /\ Walks(code[b], chosen, Fn, b, W(b)[1], W(b)[2]) /\ Len(code[b]) \in Nat
             /\ Len(code[b]) = 0 <=> Size(Fn, b) = 0
  <2>1. LaidOn(code[b], Fn, b, RowOf("emit", chosen, Fn, b))
    BY <1>2, <1>3 DEF CodeIs
  <2>2. Walks(code[b], chosen, Fn, b, W(b)[1], W(b)[2])
    BY <1>1, <1>3, <2>1, WalkIs DEF W
  <2> QED BY <2>2 DEF Walks
<1>5. at[1] \in Nat /\ at[1] > 0 /\ at = <<at[1], at[2]>>
  BY <1>3 DEF CursorOK
<1>6. at[2] \in Nat
  <2>1. CASE at[1] <= Len(code)
    <3>1. at[1] \in 1 .. Len(code) /\ at[2] \in 0 .. Len(code[at[1]]) + 1
      BY <1>3, <1>5, <2>1 DEF CursorOK
    <3>2. Len(code[at[1]]) \in Nat
      BY <1>4, <3>1
    <3> QED BY <3>1, <3>2
  <2>2. CASE at[1] > Len(code)
    BY <2>2 DEF CursorOK
  <2> QED BY <1>3, <1>5, <2>1, <2>2
<1>7. Len(code[Len(code)]) > 0
  <2>1. Len(code) \in 1 .. Len(code)
    BY <1>3
  <2>2. Len(Blks(Fn)[Len(Blks(Fn))]) > 0
    BY <1>1, FunctionIs
  <2>3. Size(Fn, Len(code)) > 0
    BY <1>3, <2>2 DEF Size
  <2> QED BY <1>4, <2>1, <2>3
<1>8. ~Old(Fn)
  <2> SUFFICES ASSUME NEW x \in 1 .. Len(Funcs), Funcs[x] = Fn, x < cur \/ stage \in Done
               PROVE  FALSE
    BY DEF Old
  <2>1. x < cur
    BY StagesDiffer
  <2>2. x = cur
    BY <1>1, FuncsIs DEF Fn
  <2> QED BY <1>1, <2>1, <2>2, FuncsIs
<1> QED BY <1>1, <1>3, <1>4, <1>5, <1>6, <1>7, <1>8

LEMMA TapeLabel ==
  ASSUME NEW T, Tape(T), EmitLabel
  PROVE  Tape(T)'
<1>1. /\ stage = "emit" /\ at[1] <= Len(code) /\ at[2] = 0
      /\ labels' = Written(labels, <<Fn, at[1]>>, Here) /\ at' = <<at[1], 1>>
      /\ UNCHANGED <<chosen, prefix, stage, cur, code, contents, fixups, origin, back>>
  BY DEF EmitLabel
<1>2. Static /\ CursorOK /\ Output(T) /\ Fresh(T) /\ Ends(T) /\ LabelsOK(T)
  BY DEF Tape
<1>3. /\ Fn \in DOMAIN Program /\ Len(code) \in Nat /\ at[1] \in Nat /\ at[1] > 0
      /\ \A b \in 1 .. Len(code) : Len(code[b]) \in Nat
      /\ ~Old(Fn)
  BY <1>1, <1>2, Emitting
<1>4. at'[1] = at[1] /\ at'[2] = 1 /\ Fn' = Fn /\ Here' = Here /\ (\A b : W(b)' = W(b))
  BY <1>1 DEF Fn, Here, W
<1>5. \A g : Old(g)' <=> Old(g)
  BY <1>1 DEF Old
<1>6. Static'
  BY <1>1, <1>2, <1>4 DEF Static
<1>7. CursorOK'
  <2>1. at[1] \in 1 .. Len(code)
    BY <1>1, <1>3
  <2>2. 1 \in 0 .. Len(code[at[1]]) + 1
    BY <1>3, <2>1
  <2>3. at'[1] \in 1 .. Len(code') + 1 /\ at'[2] \in 0 .. Len(code'[at'[1]]) + 1
    BY <1>1, <1>3, <1>4, <2>1, <2>2
  <2> QED BY <1>1, <1>3, <1>4, <2>1, <2>3 DEF CursorOK
<1>8. Output(T)'
  BY <1>1, <1>2, <1>4, StagesDiffer DEF Output
<1>9. Fresh(T)'
  <2> SUFFICES ASSUME NEW j \in 1 .. Len(T)
               PROVE  \/ Old(T[j].p[1])
                      \/ T[j].p[1] = Fn /\ T[j].p[2] < at[1]
    BY <1>1, <1>4, <1>5 DEF Fresh
  <2>1. ~\E k \in 1 .. Len(code[at[1]]) : k < at[2]
    BY <1>1
  <2> QED BY <1>1, <1>2, <2>1 DEF Fresh
<1>10. Ends(T)'
  <2> SUFFICES ASSUME Len(T) # 0 PROVE BetweenBlocks(T[Len(T)])'
    BY DEF Ends
  <2>1. BetweenBlocks(T[Len(T)])
    BY <1>1, <1>2 DEF Ends, InBlockEnd
  <2> QED BY <1>1, <1>4, <2>1 DEF BetweenBlocks
<1>11. LabelsOK(T)'
  <2> SUFFICES ASSUME NEW f \in DOMAIN Program, NEW b \in 1 .. Len(Blks(f)), Labelled(f, b)'
               PROVE  /\ <<f, b>> \in DOMAIN labels'
                      /\ \/ PlacedAt(T, labels'[<<f, b>>], f, b)
                         \/ Pending(labels[<<f, b>>], f, b)'
    BY DEF LabelsOK
  <2>1. CASE f = Fn /\ b = at[1]
    <3>1. <<f, b>> \in DOMAIN labels' /\ labels'[<<f, b>>] = Here
      BY <1>1, <2>1 DEF Written
    <3> QED BY <1>1, <1>4, <2>1, <3>1 DEF Pending
  <2>2. CASE ~(f = Fn /\ b = at[1])
    <3>1. Labelled(f, b)
      BY <1>1, <1>4, <1>5, <2>2 DEF Labelled
    <3>2. /\ <<f, b>> \in DOMAIN labels
          /\ \/ PlacedAt(T, labels[<<f, b>>], f, b)
             \/ Pending(labels[<<f, b>>], f, b)
      BY <1>2, <3>1 DEF LabelsOK
    <3>3. <<f, b>> # <<Fn, at[1]>>
      BY <2>2
    <3>4. <<f, b>> \in DOMAIN labels' /\ labels'[<<f, b>>] = labels[<<f, b>>]
      BY <1>1, <3>2, <3>3 DEF Written
    <3> QED BY <1>1, <1>4, <3>2, <3>4 DEF Pending
  <2> QED BY <2>1, <2>2
<1> QED BY <1>6, <1>7, <1>8, <1>9, <1>10, <1>11 DEF Tape

LEMMA TapeBlock ==
  ASSUME NEW T, Tape(T), BlockWritten
  PROVE  Tape(T)'
<1> DEFINE b == at[1]
           n == Len(code)
<1>1. /\ stage = "emit" /\ b <= n /\ at[2] > Len(code[b]) /\ at' = <<b + 1, 0>>
      /\ UNCHANGED <<chosen, prefix, stage, cur, code, contents, fixups, labels, origin, back>>
  BY DEF BlockWritten
<1>2. Static /\ CursorOK /\ Output(T) /\ Fresh(T) /\ Ends(T) /\ LabelsOK(T)
  BY DEF Tape
<1>3. /\ Fn \in DOMAIN Program /\ n = Len(Blks(Fn)) /\ n \in Nat /\ b \in Nat /\ b > 0 /\ at[2] \in Nat
      /\ chosen \in Operands /\ n > 0 /\ Len(code[n]) > 0
  BY <1>1, <1>2, Emitting
<1>4. b \in 1 .. n
  BY <1>1, <1>3
<1>5. /\ Walks(code[b], chosen, Fn, b, W(b)[1], W(b)[2]) /\ Len(code[b]) \in Nat
      /\ (Len(code[b]) = 0 <=> Size(Fn, b) = 0)
  BY <1>1, <1>2, <1>4, Emitting
<1>6. at[2] = Len(code[b]) + 1
  <2>1. at[2] \in 0 .. Len(code[b]) + 1
    BY <1>1, <1>2 DEF CursorOK
  <2> QED BY <1>1, <1>3, <1>5, <2>1
<1>7. at'[1] = b + 1 /\ at'[2] = 0 /\ Fn' = Fn /\ Here' = Here /\ (\A c : W(c)' = W(c))
  BY <1>1 DEF Fn, Here, W
<1>8. \A g : Old(g)' <=> Old(g)
  BY <1>1 DEF Old
<1> HIDE DEF b, n
<1>9. Static'
  BY <1>1, <1>2, <1>7 DEF Static
<1>10. CursorOK'
  <2>1. at' = <<at'[1], at'[2]>> /\ at'[1] \in 1 .. Len(code') + 1
    BY <1>1, <1>3, <1>4, <1>7 DEF n
  <2>2. ASSUME at'[1] <= Len(code') PROVE at'[2] \in 0 .. Len(code'[at'[1]]) + 1
    <3>1. b + 1 \in 1 .. n
      BY <1>1, <1>3, <1>4, <1>7, <2>2 DEF n
    <3>2. Len(code[b + 1]) \in Nat
      BY <1>1, <1>2, <3>1, Emitting DEF n
    <3> QED BY <1>1, <1>7, <3>2
  <2> QED BY <1>7, <2>1, <2>2 DEF CursorOK
<1>11. Output(T)'
  BY <1>1, <1>2, <1>7, StagesDiffer DEF Output
<1>12. Fresh(T)'
  <2> SUFFICES ASSUME NEW j \in 1 .. Len(T)
               PROVE  \/ Old(T[j].p[1])
                      \/ T[j].p[1] = Fn /\ T[j].p[2] < b + 1
    BY <1>1, <1>7, <1>8 DEF Fresh
  <2>1. T[j].p \in Positions
    BY <1>2 DEF Output, Layout, EntryOK
  <2>2. T[j].p[2] \in Nat
    BY <2>1 DEF Positions
  <2>3. \/ Old(T[j].p[1])
        \/ T[j].p[1] = Fn /\ (T[j].p[2] < b \/ T[j].p[2] = b)
    BY <1>2 DEF Fresh, b
  <2> QED BY <1>3, <2>2, <2>3
<1>13. CASE Len(code[b]) = 0
  <2>1. b < n /\ at[2] = 1
    BY <1>3, <1>4, <1>6, <1>13
  <2>2. Size(Fn, b) = 0
    BY <1>5, <1>13
  <2>3. Blk!StartOf(Fn, b) = Blk!StartOf(Fn, b + 1)
    <3>1. Blk!Settle(Fn, b, Size(Fn, b) + 1) = Blk!Settle(Fn, b + 1, 1)
      BY <1>3, <1>4, <2>1, SettleNext
    <3>2. Size(Fn, b) + 1 = 1
      BY <2>2
    <3> QED BY <3>1, <3>2 DEF Blk!StartOf
  <2>4. at'[1] <= Len(code')
    BY <1>1, <1>3, <1>7, <2>1 DEF n
  <2>5. Ends(T)'
    <3> SUFFICES ASSUME Len(T) # 0 PROVE BetweenBlocks(T[Len(T)])'
      BY DEF Ends
    <3>1. BetweenBlocks(T[Len(T)])
      BY <1>2, <2>1 DEF Ends, InBlockEnd
    <3> QED BY <1>1, <1>7, <2>3, <2>4, <3>1 DEF BetweenBlocks, b
  <2>6. LabelsOK(T)'
    <3> SUFFICES ASSUME NEW f \in DOMAIN Program, NEW c \in 1 .. Len(Blks(f)), Labelled(f, c)'
                 PROVE  /\ <<f, c>> \in DOMAIN labels'
                        /\ \/ PlacedAt(T, labels'[<<f, c>>], f, c)
                           \/ Pending(labels[<<f, c>>], f, c)'
      BY DEF LabelsOK
    <3>1. Labelled(f, c)
      <4>1. c \in Nat
        BY FunctionIs
      <4>2. Old(f) \/ (f = Fn /\ (c < b + 1 \/ (c = b + 1 /\ 0 >= 1)))
        BY <1>7, <1>8 DEF Labelled
      <4>3. Old(f) \/ (f = Fn /\ (c < b \/ c = b))
        BY <1>3, <4>1, <4>2
      <4> QED BY <1>1, <2>1, <4>3 DEF Labelled, b
    <3>2. /\ <<f, c>> \in DOMAIN labels
          /\ \/ PlacedAt(T, labels[<<f, c>>], f, c)
             \/ Pending(labels[<<f, c>>], f, c)
      BY <1>2, <3>1 DEF LabelsOK
    <3> QED BY <1>1, <1>7, <2>3, <2>4, <3>2 DEF Pending, b
  <2> QED BY <1>9, <1>10, <1>11, <1>12, <2>5, <2>6 DEF Tape
<1>14. CASE Len(code[b]) # 0
  <2> DEFINE x == Len(code[b])
             I == W(b)[1]
             J == W(b)[2]
  <2>1. at[2] >= 2 /\ at[2] - 1 = x /\ x \in 1 .. x
    BY <1>5, <1>6, <1>14
  <2>2. /\ I[x] = Size(Fn, b) /\ J[x] = Len(Final(chosen, <<Fn, b, I[x]>>))
        /\ <<Fn, b, I[x]>> \in Positions
    BY <1>5, <2>1 DEF Walks
  <2>3. Ends(T)'
    <3> SUFFICES ASSUME Len(T) # 0 PROVE BetweenBlocks(T[Len(T)])'
      BY DEF Ends
    <3> DEFINE e == T[Len(T)]
    <3>1. InBlockEnd(e)
      <4>1. ~(at[2] <= 1)
        BY <1>3, <2>1
      <4> QED BY <1>1, <1>2, <4>1 DEF Ends, BetweenBlocks
    <3>2. e.p = <<Fn, b, Size(Fn, b)>> /\ e.q = Len(Final(chosen, e.p))
      BY <2>1, <2>2, <3>1 DEF InBlockEnd, b
    <3>3. e.p \in Positions /\ e.p[1] = Fn /\ e.p[2] = b /\ e.p[3] = Size(Fn, b)
      BY <2>2, <3>2
    <3> HIDE DEF e
    <3>4. CASE b < n
      <4>1. Blk!After(e.p) = Blk!StartOf(Fn, b + 1) /\ ~IsLast(e.p)
        BY <1>3, <3>3, <3>4, AfterIs
      <4>2. at'[1] <= Len(code')
        BY <1>1, <1>3, <1>7, <3>4 DEF n
      <4> QED BY <1>1, <1>7, <3>2, <4>1, <4>2 DEF BetweenBlocks, e
    <3>5. CASE b = n
      <4>1. IsLast(e.p)
        BY <1>3, <3>3, <3>5 DEF IsLast
      <4> QED BY <1>1, <1>7, <3>2, <4>1 DEF BetweenBlocks, e
    <3> QED BY <1>3, <1>4, <3>4, <3>5
  <2>4. LabelsOK(T)'
    <3> SUFFICES ASSUME NEW f \in DOMAIN Program, NEW c \in 1 .. Len(Blks(f)), Labelled(f, c)'
                 PROVE  /\ <<f, c>> \in DOMAIN labels'
                        /\ PlacedAt(T, labels'[<<f, c>>], f, c)
      BY DEF LabelsOK
    <3>1. Labelled(f, c)
      <4>1. c \in Nat
        BY FunctionIs
      <4>2. Old(f) \/ (f = Fn /\ (c < b + 1 \/ (c = b + 1 /\ 0 >= 1)))
        BY <1>7, <1>8 DEF Labelled
      <4>3. Old(f) \/ (f = Fn /\ (c < b \/ c = b))
        BY <1>3, <4>1, <4>2
      <4>4. at[2] >= 1
        BY <1>3, <2>1
      <4> QED BY <1>1, <4>3, <4>4 DEF Labelled, b
    <3>2. ~(at[2] <= 1)
      BY <1>3, <2>1
    <3>3. <<f, c>> \in DOMAIN labels /\ PlacedAt(T, labels[<<f, c>>], f, c)
      BY <1>2, <3>1, <3>2 DEF LabelsOK, Pending
    <3> QED BY <1>1, <3>3
  <2> QED BY <1>9, <1>10, <1>11, <1>12, <2>3, <2>4 DEF Tape
<1> QED BY <1>13, <1>14

LEMMA TapeFunction ==
  ASSUME NEW T, Tape(T), FunctionWritten
  PROVE  Tape(T)'
<1>1. /\ stage = "emit" /\ at[1] > Len(code)
      /\ UNCHANGED <<chosen, prefix, at, contents, fixups, labels, origin, back>>
      /\ \/ cur < Len(Funcs) /\ stage' = "expand" /\ cur' = cur + 1 /\ code' = Selected(Funcs[cur + 1])
         \/ ~(cur < Len(Funcs)) /\ stage' = "fixup" /\ UNCHANGED <<cur, code>>
  BY DEF FunctionWritten
<1>2. Static /\ CursorOK /\ Output(T) /\ Fresh(T) /\ Ends(T) /\ LabelsOK(T)
  BY DEF Tape
<1>3. /\ Fn \in DOMAIN Program /\ chosen \in Operands /\ Len(code) = Len(Blks(Fn)) /\ Len(code) \in Nat
      /\ at[1] \in Nat /\ at[2] = 0
  BY <1>1, <1>2, Emitting DEF CursorOK
<1>4. cur \in 1 .. Len(Funcs) /\ Len(Funcs) \in Nat /\ Here' = Here
  BY <1>1, <1>2, FuncsIs DEF Static, Here
<1>5. stage' # "emit" /\ stage' # "run"
  BY <1>1
<1>6. \A g \in DOMAIN Program : Old(g)' <=> Old(g) \/ g = Fn
  <2> SUFFICES ASSUME NEW g \in DOMAIN Program PROVE Old(g)' <=> Old(g) \/ g = Fn
    OBVIOUS
  <2>1. PICK x \in 1 .. Len(Funcs) : Funcs[x] = g
    BY FuncsIs
  <2>2. \A y \in 1 .. Len(Funcs) : Funcs[y] = g => y = x
    BY <2>1, FuncsIs
  <2>3. Old(g) <=> x < cur
    BY <1>1, <2>1, <2>2, StagesDiffer DEF Old
  <2>4. g = Fn <=> x = cur
    BY <1>4, <2>1, <2>2 DEF Fn
  <2>5. Old(g)' <=> x < cur' \/ stage' \in Done
    BY <2>1, <2>2 DEF Old
  <2>6. x < cur' \/ stage' \in Done <=> x < cur \/ x = cur
    <3>1. CASE cur < Len(Funcs)
      <4>1. stage' \notin Done /\ cur' = cur + 1
        BY <1>1, <3>1, StagesDiffer
      <4> QED BY <1>4, <4>1
    <3>2. CASE ~(cur < Len(Funcs))
      <4>1. stage' \in Done /\ cur = Len(Funcs)
        BY <1>1, <1>4, <3>2, StagesDiffer
      <4> QED BY <1>4, <4>1
    <3> QED BY <3>1, <3>2
  <2> QED BY <2>3, <2>4, <2>5, <2>6
<1>7. Static'
  <2>1. CASE cur < Len(Funcs)
    <3>1. cur + 1 \in 1 .. Len(Funcs)
      BY <1>4, <2>1
    <3>2. Funcs[cur + 1] \in DOMAIN Program
      BY <3>1, FuncsIs
    <3>3. CodeIs(Selected(Funcs[cur + 1]), "expand", chosen, Funcs[cur + 1])
      BY <1>3, <3>2, SelectedIs
    <3> QED BY <1>1, <1>2, <2>1, <3>1, <3>3 DEF Static, Fn, Passes
  <2>2. CASE ~(cur < Len(Funcs))
    <3>1. stage' \in Done /\ stage' \notin Passes \cup {"emit"}
      BY <1>1, <2>2, StagesDiffer
    <3> QED BY <1>1, <1>2, <2>2, <3>1 DEF Static
  <2> QED BY <2>1, <2>2
<1>8. CursorOK'
  BY <1>5 DEF CursorOK
<1>9. Output(T)'
  <2>1. AllWait(T, chosen, prefix, fixups)
    BY <1>1, <1>2 DEF Output
  <2>2. \A j \in 1 .. Len(T) : IsSymbol(chosen, T[j]) => Waiting(chosen, prefix, fixups, T[j])
    BY <2>1 DEF AllWait
  <2> QED BY <1>1, <1>2, <1>4, <1>5, <2>1, <2>2 DEF Output
<1>10. \A j \in 1 .. Len(T) : T[j].p[1] \in DOMAIN Program
  BY <1>2 DEF Output, Layout, EntryOK, Positions
<1>11. Fresh(T)'
  <2> SUFFICES ASSUME NEW j \in 1 .. Len(T) PROVE Old(T[j].p[1])'
    BY DEF Fresh
  <2>1. Old(T[j].p[1]) \/ T[j].p[1] = Fn
    BY <1>2 DEF Fresh
  <2> QED BY <1>6, <1>10, <2>1
<1>12. Ends(T)'
  <2> SUFFICES ASSUME Len(T) # 0 PROVE BetweenBlocks(T[Len(T)])'
    BY DEF Ends
  <2>0. ~(at[1] <= Len(code))
    BY <1>1, <1>3
  <2>1. BetweenBlocks(T[Len(T)])
    BY <1>2, <2>0 DEF Ends, InBlockEnd
  <2>2. IsLast(T[Len(T)].p) /\ T[Len(T)].q = Len(Final(chosen, T[Len(T)].p))
    BY <2>0, <2>1 DEF BetweenBlocks
  <2> QED BY <1>1, <1>5, <2>2 DEF BetweenBlocks
<1>13. LabelsOK(T)'
  <2> SUFFICES ASSUME NEW f \in DOMAIN Program, NEW b \in 1 .. Len(Blks(f)), Labelled(f, b)'
               PROVE  /\ <<f, b>> \in DOMAIN labels'
                      /\ PlacedAt(T, labels'[<<f, b>>], f, b)
    BY DEF LabelsOK
  <2>1. Old(f) \/ f = Fn
    BY <1>5, <1>6 DEF Labelled
  <2>2. Labelled(f, b)
    <3>1. CASE Old(f)
      BY <3>1 DEF Labelled
    <3>2. CASE f = Fn
      <4>1. b < at[1]
        BY <1>1, <1>3, <3>2
      <4> QED BY <1>1, <3>2, <4>1 DEF Labelled
    <3> QED BY <2>1, <3>1, <3>2
  <2>3. ~(at[1] <= Len(code))
    BY <1>1, <1>3
  <2>4. <<f, b>> \in DOMAIN labels /\ PlacedAt(T, labels[<<f, b>>], f, b)
    BY <1>2, <2>2, <2>3 DEF LabelsOK, Pending
  <2> QED BY <1>1, <2>4
<1> QED BY <1>7, <1>8, <1>9, <1>11, <1>12, <1>13 DEF Tape

LEMMA TapeInstr ==
  ASSUME NEW T, Tape(T), EmitInstruction
  PROVE  \E U : Tape(U)'
<1> DEFINE b == at[1]
           k == at[2]
           c == code[b]
           I == W(b)[1]
           J == W(b)[2]
           n == Len(T)
<1>0. PICK e : e = [p |-> <<Fn, b, I[k]>>, q |-> J[k], at |-> Here]
  OBVIOUS
<1> DEFINE U == Append(T, e)
<1>1. /\ stage = "emit" /\ b <= Len(code) /\ k \in DOMAIN c
      /\ contents' = contents \o EncodeInstruction(c[k].mi)
      /\ fixups' = IF c[k].mi.arg.kind = "symbol"
                   THEN Append(fixups, <<Len(contents) + 1, <<c[k].mi.arg.f, c[k].mi.arg.b>>>>)
                   ELSE fixups
      /\ origin' = IF k = 1 \/ c[k].from # c[k - 1].from THEN Written(origin, Here, c[k].from) ELSE origin
      /\ back' = IF k > 1 /\ c[k].mi.op = JUMPDEST THEN Written(back, c[k].from, Here) ELSE back
      /\ at' = [at EXCEPT ![2] = @ + 1]
      /\ UNCHANGED <<chosen, prefix, stage, cur, code, labels>>
  BY DEF EmitInstruction, Item, StartsSource, BehindCall, FixupOffset
<1>2. Static /\ CursorOK /\ Output(T) /\ Fresh(T) /\ Ends(T) /\ LabelsOK(T)
  BY DEF Tape
<1>3. /\ Fn \in DOMAIN Program /\ chosen \in Operands /\ Len(code) = Len(Blks(Fn)) /\ Len(code) \in Nat
      /\ b \in Nat /\ b > 0 /\ k \in Nat /\ at = <<b, k>> /\ ~Old(Fn)
  BY <1>1, <1>2, Emitting
<1>4. b \in 1 .. Len(code) /\ b \in 1 .. Len(Blks(Fn))
  BY <1>1, <1>3
<1>5. Walks(c, chosen, Fn, b, I, J) /\ Len(c) \in Nat
  BY <1>1, <1>2, <1>4, Emitting
<1>6. k \in 1 .. Len(c)
  BY <1>1, <1>5, SeqFacts DEF Walks
<1>7. /\ at'[1] = b /\ at'[2] = k + 1 /\ at' = <<at'[1], at'[2]>> /\ Fn' = Fn
      /\ (\A x : W(x)' = W(x))
  <2>1. at' = <<b, k + 1>>
    BY <1>1, <1>3, SMTT(30)
  <2> QED BY <1>1, <2>1 DEF Fn, W
<1>8. e.p = <<Fn, b, I[k]>> /\ e.q = J[k] /\ e.at = Here
  BY <1>0
<1>9. /\ I[k] \in 1 .. Size(Fn, b) /\ e.p \in Positions /\ J[k] \in 1 .. Len(Final(chosen, e.p))
      /\ c[k].from = e.p /\ c[k].mi = Final(chosen, e.p)[J[k]]
  BY <1>5, <1>6, <1>8 DEF Walks
<1>10. prefix \in Nat /\ Len(contents) \in Nat /\ Here \in Nat /\ Here = prefix + Len(contents)
  <2>1. prefix \in Nat /\ IsSeq(contents)
    BY <1>2 DEF Static, Output, BytesOK
  <2>2. Len(contents) \in Nat
    BY <2>1, SeqFacts
  <2> QED BY <2>1, <2>2 DEF Here
<1> HIDE DEF b, k, c, I, J, U, n
<1>11. EntryOK(chosen, e) /\ ItemOf(chosen, e) = c[k].mi /\ c[k].from = e.p
  BY <1>8, <1>9, <1>10 DEF EntryOK, ItemOf
<1>12. /\ (k = 1 \/ c[k].from # c[k - 1].from <=> e.q = 1)
       /\ (k > 1 <=> e.q > Off(e.p))
       /\ \A d : k > 1 /\ d.p = <<Fn, b, I[k - 1]>> /\ d.q = J[k - 1] => Follows(chosen, d, e)
  <2>1. /\ (k = 1 \/ c[k].from # c[k - 1].from <=> J[k] = 1)
        /\ (k > 1 <=> J[k] > Off(<<Fn, b, I[k]>>))
        /\ \A d, x : /\ k > 1 /\ d.p = <<Fn, b, I[k - 1]>> /\ d.q = J[k - 1]
                     /\ x.p = <<Fn, b, I[k]>> /\ x.q = J[k]
                     => Follows(chosen, d, x)
    <3>1. StepOK(c, chosen, Fn, b, I, J, k)
      BY <1>3, <1>4, <1>5, <1>6, WalkStep
    <3> QED BY <3>1 DEF StepOK
  <2> QED BY <1>8, <2>1
<1>13. \A j \in 1 .. Len(T) : ~(T[j].p = e.p /\ T[j].q = e.q)
  <2> SUFFICES ASSUME NEW j \in 1 .. Len(T), T[j].p = e.p, T[j].q = e.q PROVE FALSE
    OBVIOUS
  <2>1. T[j].p[1] = Fn /\ T[j].p[2] = b /\ T[j].p[3] = I[k] /\ T[j].q = J[k]
    BY <1>8
  <2>2. ~(b < b)
    BY <1>3
  <2>3. PICK x \in 1 .. Len(c) : x < k /\ I[k] = I[x] /\ J[k] = J[x]
    BY <1>2, <1>3, <2>1, <2>2 DEF Fresh, b, k, c, I, J
  <2>4. Size(Fn, b) \in Nat /\ Len(Final(chosen, <<Fn, b, I[x]>>)) \in Nat
    <3>1. <<Fn, b, I[x]>> \in Positions
      BY <1>5 DEF Walks
    <3> QED BY <1>3, <1>4, <3>1, EmptyBlock, FinalIs
  <2>5. x = k
    <3>1. I[x] = I[k] /\ J[x] = J[k]
      BY <2>3
    <3> QED BY <1>5, <1>6, <2>4, <3>1, WalkOnce
  <2> QED BY <1>3, <2>3, <2>5
<1>14. n # 0 => Follows(chosen, T[n], e)
  <2> SUFFICES ASSUME n # 0 PROVE Follows(chosen, T[n], e)
    OBVIOUS
  <2>1. CASE InBlockEnd(T[n])
    <3>1. k >= 2 /\ T[n].p = <<Fn, b, I[k - 1]>> /\ T[n].q = J[k - 1]
      BY <2>1 DEF InBlockEnd, b, k, I, J
    <3>2. k > 1
      BY <1>3, <3>1
    <3> QED BY <1>12, <3>1, <3>2
  <2>2. CASE BetweenBlocks(T[n])
    <3>1. k = 1
      <4>1. k <= 1
        BY <1>1, <2>2 DEF BetweenBlocks, k
      <4> QED BY <1>5, <1>6, <4>1
    <3>2. I[k] = 1 /\ J[k] = 1
      BY <1>5, <1>6, <3>1 DEF Walks
    <3>3. T[n].q = Len(Final(chosen, T[n].p)) /\ (~IsLast(T[n].p) => Blk!After(T[n].p) = Blk!StartOf(Fn, b))
      BY <2>2 DEF BetweenBlocks, b
    <3>4. Blk!StartOf(Fn, b) = <<Fn, b, 1>>
      <4>1. 1 <= Size(Fn, b)
        BY <1>3, <1>4, <1>9, EmptyBlock
      <4> QED BY <1>3, <4>1, SettleIs DEF Blk!StartOf
    <3>5. ~(T[n].q < Len(Final(chosen, T[n].p)))
      <4>1. n \in 1 .. n
        <5>1. n \in Nat
          BY <1>2, SeqFacts DEF Output, Layout, n
        <5> QED BY <5>1
      <4>2. EntryOK(chosen, T[n])
        BY <1>2, <4>1 DEF Output, Layout, n
      <4>3. Len(Final(chosen, T[n].p)) \in Nat
        BY <1>3, <4>2, FinalIs DEF EntryOK
      <4> QED BY <3>3, <4>3
    <3> QED BY <1>8, <3>2, <3>3, <3>4, <3>5 DEF Follows
  <2> QED BY <1>2, <2>1, <2>2 DEF Ends, n
<1>15. Layout(T, chosen, prefix, Here) /\ IsSeq(T) /\ n \in Nat
  BY <1>2, SeqFacts DEF Output, Layout, n
<1>16. IsSeq(U) /\ Len(U) = n + 1 /\ (\A j \in 1 .. n : U[j] = T[j]) /\ U[n + 1] = e
  BY <1>15, Appended DEF U, n
<1>17. /\ contents' = contents \o Code(chosen, e)
       /\ BytesOK(U, chosen, prefix, contents') /\ Len(contents') = Len(contents) + Sz(chosen, e)
  <2>1. contents' = contents \o Code(chosen, e)
    BY <1>1, <1>11 DEF Code
  <2>2. BytesOK(T, chosen, prefix, contents) /\ Layout(T, chosen, prefix, prefix + Len(contents))
    BY <1>2, <1>10, <1>15 DEF Output
  <2>3. e.at = prefix + Len(contents)
    BY <1>8, <1>10
  <2>4. /\ BytesOK(U, chosen, prefix, contents \o Code(chosen, e))
        /\ Len(contents \o Code(chosen, e)) = Len(contents) + Sz(chosen, e)
    BY <1>3, <1>10, <1>11, <2>2, <2>3, BytesMore DEF U
  <2> QED BY <2>1, <2>4
<1>18. Layout(U, chosen, prefix, Here') /\ Here' = Here + Sz(chosen, e)
  <2>1. Sz(chosen, e) \in Nat
    BY <1>3, <1>11, EntryIs
  <2>2. Here' = Here + Sz(chosen, e)
    BY <1>1, <1>10, <1>17, <2>1 DEF Here
  <2>3. Layout(U, chosen, prefix, Here + Sz(chosen, e))
    BY <1>3, <1>8, <1>10, <1>11, <1>13, <1>14, <1>15, LayoutMore DEF U, n
  <2> QED BY <2>2, <2>3
<1>19. OriginOK(U, origin')
  <2>1. OriginOK(T, origin) /\ origin' = IF e.q = 1 THEN Written(origin, Here, e.p) ELSE origin
    BY <1>1, <1>2, <1>11, <1>12 DEF Output
  <2> QED BY <1>3, <1>8, <1>10, <1>15, <2>1, OriginMore DEF U
<1>20. BackOK(U, chosen, back')
  <2>1. IsBack(chosen, e) <=> k > 1 /\ c[k].mi.op = JUMPDEST
    BY <1>11, <1>12 DEF IsBack
  <2>2. BackOK(T, chosen, back) /\ back' = IF IsBack(chosen, e) THEN Written(back, e.p, Here) ELSE back
    BY <1>1, <1>2, <1>11, <2>1 DEF Output
  <2> QED BY <1>3, <1>8, <1>10, <1>11, <1>13, <1>15, <2>2, BackMore DEF U
<1>21. FixupsOK(U, chosen, prefix, fixups') /\ AllWait(U, chosen, prefix, fixups')
  <2>1. FixOf(chosen, prefix, e) = <<Len(contents) + 1, <<c[k].mi.arg.f, c[k].mi.arg.b>>>>
    <3>1. (e.at - prefix) + 1 = Len(contents) + 1
      BY <1>8, <1>10
    <3> QED BY <1>11, <3>1 DEF FixOf, KeyOf
  <2>2. fixups' = IF ItemOf(chosen, e).arg.kind = "symbol" THEN Append(fixups, FixOf(chosen, prefix, e)) ELSE fixups
    BY <1>1, <1>11, <2>1
  <2>3. FixupsOK(T, chosen, prefix, fixups) /\ AllWait(T, chosen, prefix, fixups)
    BY <1>1, <1>2 DEF Output
  <2> QED BY <1>3, <1>10, <1>11, <1>15, <2>2, <2>3, FixupsMore DEF U
<1>22. Output(U)'
  <2>1. stage' \notin {"fixup", "run"}
    BY <1>1
  <2> QED BY <1>1, <1>17, <1>18, <1>19, <1>20, <1>21, <2>1 DEF Output
<1>23. Static'
  BY <1>1, <1>2, <1>7 DEF Static
<1>24. CursorOK'
  <2>1. at'[1] \in 1 .. Len(code') + 1
    BY <1>1, <1>3, <1>4, <1>7
  <2>2. at'[2] \in 0 .. Len(code'[at'[1]]) + 1
    BY <1>1, <1>5, <1>6, <1>7 DEF c
  <2>3. ~(at'[1] > Len(code'))
    BY <1>1, <1>3, <1>4, <1>7
  <2> QED BY <1>7, <2>1, <2>2, <2>3 DEF CursorOK
<1>25. \A g : Old(g)' <=> Old(g)
  BY <1>1 DEF Old
<1>26. Fresh(U)'
  <2> SUFFICES ASSUME NEW j \in 1 .. Len(U)
               PROVE  \/ Old(U[j].p[1])
                      \/ /\ U[j].p[1] = Fn
                         /\ \/ U[j].p[2] < b
                            \/ /\ U[j].p[2] = b
                               /\ \E x \in 1 .. Len(c) :
                                    x < k + 1 /\ U[j].p[3] = I[x] /\ U[j].q = J[x]
    <3>1. W(at[1])' = W(b)
      BY <1>1, <1>7 DEF W, Fn
    <3>2. code'[at'[1]] = c /\ b <= Len(code')
      BY <1>1, <1>7 DEF c
    <3> QED BY <1>1, <1>7, <1>25, <3>1, <3>2, ZenonT(40) DEF Fresh, I, J
  <2>1. CASE j \in 1 .. n
    <3>1. U[j] = T[j]
      BY <1>16, <2>1
    <3>2. \/ Old(U[j].p[1])
          \/ /\ U[j].p[1] = Fn
             /\ \/ U[j].p[2] < b
                \/ /\ U[j].p[2] = b
                   /\ \E x \in 1 .. Len(c) : x < k /\ U[j].p[3] = I[x] /\ U[j].q = J[x]
      BY <1>2, <2>1, <3>1 DEF Fresh, b, k, c, I, J, n
    <3>3. \A x \in 1 .. Len(c) : x < k => x < k + 1
      BY <1>3, <1>5
    <3> QED BY <3>2, <3>3
  <2>2. CASE j = n + 1
    <3>1. U[j].p[1] = Fn /\ U[j].p[2] = b /\ U[j].p[3] = I[k] /\ U[j].q = J[k]
      BY <1>8, <1>16, <2>2
    <3>2. k < k + 1
      BY <1>3
    <3> QED BY <1>6, <3>1, <3>2
  <2> QED BY <1>15, <1>16, <2>1, <2>2
<1>27. Ends(U)'
  <2>1. U[Len(U)] = e /\ at'[2] >= 2 /\ at'[2] - 1 = k
    BY <1>5, <1>6, <1>7, <1>15, <1>16
  <2>2. InBlockEnd(e)'
    BY <1>1, <1>7, <1>8, <2>1 DEF InBlockEnd, I, J, b
  <2> QED BY <2>1, <2>2 DEF Ends
<1>28. LabelsOK(U)'
  <2> SUFFICES ASSUME NEW f \in DOMAIN Program, NEW x \in 1 .. Len(Blks(f)), Labelled(f, x)'
               PROVE  /\ <<f, x>> \in DOMAIN labels
                      /\ PlacedAt(U, labels[<<f, x>>], f, x)
    BY <1>1 DEF LabelsOK
  <2>1. Labelled(f, x)
    <3>1. k >= 1
      BY <1>5, <1>6
    <3> QED BY <1>1, <1>7, <1>25, <3>1 DEF Labelled, b, k
  <2>2. /\ <<f, x>> \in DOMAIN labels
        /\ \/ PlacedAt(T, labels[<<f, x>>], f, x)
           \/ Pending(labels[<<f, x>>], f, x)
    BY <1>2, <2>1 DEF LabelsOK
  <2>3. CASE PlacedAt(T, labels[<<f, x>>], f, x)
    <3>1. PICK j \in 1 .. n : T[j].p = Blk!StartOf(f, x) /\ T[j].q = 1 /\ T[j].at = labels[<<f, x>>]
      BY <2>3 DEF PlacedAt, n
    <3>2. j \in 1 .. Len(U) /\ U[j] = T[j]
      BY <1>15, <1>16
    <3> QED BY <2>2, <3>1, <3>2 DEF PlacedAt
  <2>4. CASE Pending(labels[<<f, x>>], f, x)
    <3>1. k <= 1 /\ labels[<<f, x>>] = Here /\ Blk!StartOf(f, x) = Blk!StartOf(Fn, b)
      BY <2>4 DEF Pending, k, b
    <3>2. k = 1
      BY <1>5, <1>6, <3>1
    <3>3. I[k] = 1 /\ J[k] = 1
      BY <1>5, <1>6, <3>2 DEF Walks
    <3>4. Blk!StartOf(Fn, b) = <<Fn, b, 1>>
      <4>1. 1 <= Size(Fn, b)
        BY <1>3, <1>4, <1>9, EmptyBlock
      <4> QED BY <1>3, <4>1, SettleIs DEF Blk!StartOf
    <3>5. n + 1 \in 1 .. Len(U) /\ U[n + 1] = e
      BY <1>15, <1>16
    <3> QED BY <1>8, <2>2, <3>1, <3>3, <3>4, <3>5 DEF PlacedAt
  <2> QED BY <2>2, <2>3, <2>4
<1>29. Tape(U)'
  BY <1>22, <1>23, <1>24, <1>26, <1>27, <1>28 DEF Tape
<1> QED BY <1>29

LEMMA SymbolSize ==
  ASSUME NEW ch \in Operands, NEW e, EntryOK(ch, e), IsSymbol(ch, e)
  PROVE  Sz(ch, e) = 3 /\ ItemOf(ch, e).arg.kind = "symbol"
<1>1. Encoded(ItemOf(ch, e)) /\ ItemOK(ItemOf(ch, e))
  BY EntryIs
<1> QED BY <1>1, SymbolKind DEF Encoded, IsSymbol, Sz

(* Two bytes of an item are replaced, and no other byte.                   *)
PatchDone(T, ch, pre, c, d, x, v) ==
  /\ BytesOK(T, ch, pre, d) /\ Len(d) = Len(c)
  /\ d[(T[x].at - pre) + 2] = (v \div 256) % 256
  /\ d[(T[x].at - pre) + 3] = v % 256
  /\ \A j \in 1 .. Len(T) : j # x /\ IsSymbol(ch, T[j]) =>
       /\ d[(T[j].at - pre) + 2] = c[(T[j].at - pre) + 2]
       /\ d[(T[j].at - pre) + 3] = c[(T[j].at - pre) + 3]

LEMMA PatchBytes ==
  ASSUME NEW T, NEW ch \in Operands, NEW pre \in Nat, NEW c, Layout(T, ch, pre, pre + Len(c)),
         BytesOK(T, ch, pre, c), NEW x \in 1 .. Len(T), IsSymbol(ch, T[x]), NEW v \in Nat,
         NEW d, d = ApplyFixupValue(c, (T[x].at - pre) + 1, v)
  PROVE  PatchDone(T, ch, pre, c, d, x, v)
<1> DEFINE o == T[x].at - pre
           hi == (v \div 256) % 256
           lo == v % 256
<1>1. IsSeq(c) /\ Len(c) \in Nat /\ DOMAIN c = 1 .. Len(c) /\ Len(T) \in Nat
  BY SeqFacts DEF BytesOK, Layout
<1>2. /\ EntryOK(ch, T[x]) /\ T[x].at \in Nat /\ o \in Nat
      /\ \A i \in 1 .. Sz(ch, T[x]) : o + i \in 1 .. Len(c)
  <2>1. EntryOK(ch, T[x])
    BY DEF Layout
  <2>2. /\ T[x].at \in Nat /\ T[x].at - pre \in Nat
        /\ \A i \in 1 .. Sz(ch, T[x]) : (T[x].at - pre) + i \in 1 .. Len(c)
    BY <1>1, ItemBytes
  <2> QED BY <2>1, <2>2
<1>3. Sz(ch, T[x]) = 3
  BY <1>2, SymbolSize
<1>4. o + 2 \in 1 .. Len(c) /\ o + 3 \in 1 .. Len(c)
  BY <1>2, <1>3
<1>5. (o + 1) + 1 = o + 2 /\ (o + 1) + 2 = o + 3 /\ o + 2 # o + 3
  <2>1. o \in Nat
    BY <1>2
  <2> HIDE DEF o
  <2> QED BY <2>1
<1>6. d = [i \in 1 .. Len(c) |-> IF i = o + 3 THEN lo ELSE IF i = o + 2 THEN hi ELSE c[i]]
  <2>1. d = [c EXCEPT ![o + 2] = hi, ![o + 3] = lo]
    BY <1>5 DEF ApplyFixupValue
  <2>2. c = [i \in 1 .. Len(c) |-> c[i]]
    BY <1>1 DEF IsSeq
  <2> HIDE DEF hi, lo, o
  <2> QED BY <1>1, <1>4, <2>1, <2>2
<1>7. hi \in Byte /\ lo \in Byte
  BY ByteOf
<1> HIDE DEF hi, lo
<1>8. /\ d[o + 2] = hi /\ d[o + 3] = lo
      /\ \A i \in 1 .. Len(c) : i # o + 2 /\ i # o + 3 => d[i] = c[i]
  BY <1>4, <1>5, <1>6
<1>9. IsSeq(d) /\ Len(d) = Len(c)
  <2>1. d = [i \in 1 .. Len(c) |-> d[i]]
    BY <1>6
  <2> QED BY <1>1, <2>1, SeqFunction
<1>10. \A i \in 1 .. Len(d) : d[i] \in Byte
  <2>1. \A i \in 1 .. Len(c) : c[i] \in Byte
    BY DEF BytesOK
  <2> QED BY <1>7, <1>8, <1>9, <2>1
<1>11. ASSUME NEW j \in 1 .. Len(T), j # x, NEW i \in 1 .. Sz(ch, T[j])
       PROVE  /\ (T[j].at - pre) + i \in 1 .. Len(c)
              /\ (T[j].at - pre) + i # o + 2 /\ (T[j].at - pre) + i # o + 3
  <2> DEFINE a == T[j].at
             z == Sz(ch, T[j])
             t == T[x].at
  <2>1. a \in Nat /\ a - pre \in Nat /\ z \in Nat /\ (a - pre) + i \in 1 .. Len(c)
    BY <1>1, ItemBytes
  <2>2. a + z <= t \/ t + 3 <= a
    <3>1. j < x \/ x < j
      BY <1>1, <1>11
    <3>2. j < x => a + z <= t
      BY DEF Layout
    <3>3. x < j => t + Sz(ch, T[x]) <= a
      BY DEF Layout
    <3> QED BY <1>3, <3>1, <3>2, <3>3
  <2>3. t \in Nat /\ o = t - pre
    BY <1>2
  <2> HIDE DEF a, z, t, o
  <2>4. i \in Nat /\ i >= 1 /\ i <= z
    BY <2>1 DEF z
  <2>5. (a - pre) + i # o + 2 /\ (a - pre) + i # o + 3
    BY <2>1, <2>2, <2>3, <2>4
  <2> QED BY <2>1, <2>5 DEF a
<1>12. ASSUME NEW j \in 1 .. Len(T), NEW i \in 1 .. Sz(ch, T[j]), i = 1 \/ ~IsSymbol(ch, T[j])
       PROVE  d[(T[j].at - pre) + i] = Code(ch, T[j])[i]
  <2>1. c[(T[j].at - pre) + i] = Code(ch, T[j])[i]
    BY <1>12 DEF BytesOK
  <2>2. /\ (T[j].at - pre) + i \in 1 .. Len(c)
        /\ (T[j].at - pre) + i # o + 2 /\ (T[j].at - pre) + i # o + 3
    <3>1. CASE j # x
      BY <1>11, <3>1
    <3>2. CASE j = x
      <4>1. i = 1
        BY <1>12, <3>2
      <4>2. T[j].at - pre = o
        BY <3>2
      <4>3. o \in Nat /\ 1 \in 1 .. 3
        BY <1>2
      <4>4. o + 1 \in 1 .. Len(c)
        BY <1>2, <1>3, <4>3
      <4> HIDE DEF o
      <4>5. o + 1 # o + 2 /\ o + 1 # o + 3
        BY <4>3
      <4> QED BY <4>1, <4>2, <4>4, <4>5
    <3> QED BY <3>1, <3>2
  <2> QED BY <1>8, <2>1, <2>2
<1>13. ASSUME NEW j \in 1 .. Len(T), j # x, IsSymbol(ch, T[j])
       PROVE  /\ d[(T[j].at - pre) + 2] = c[(T[j].at - pre) + 2]
              /\ d[(T[j].at - pre) + 3] = c[(T[j].at - pre) + 3]
  <2>1. EntryOK(ch, T[j])
    BY DEF Layout
  <2>2. Sz(ch, T[j]) = 3
    BY <1>13, <2>1, SymbolSize
  <2>3. 2 \in 1 .. Sz(ch, T[j]) /\ 3 \in 1 .. Sz(ch, T[j])
    BY <2>2
  <2> QED BY <1>8, <1>11, <1>13, <2>3
<1>14. BytesOK(T, ch, pre, d)
  BY <1>9, <1>10, <1>12 DEF BytesOK
<1> QED BY <1>8, <1>9, <1>13, <1>14 DEF PatchDone, o, hi, lo

(* The symbol of an item is a block of the program.                        *)
LEMMA SymbolKey ==
  ASSUME NEW ch \in Operands, NEW e, IsSymbol(ch, e)
  PROVE  \E g \in DOMAIN Program : \E b \in 1 .. Len(Blks(g)) :
           KeyOf(ItemOf(ch, e)) = <<g, b>> /\ ItemOf(ch, e).arg = Symbol(g, b)
<1>1. PICK g \in DOMAIN Program : \E b \in 1 .. Len(Blks(g)) : ItemOf(ch, e).arg = Symbol(g, b)
  BY DEF IsSymbol, IsSymbolPush
<1>2. PICK b \in 1 .. Len(Blks(g)) : ItemOf(ch, e).arg = Symbol(g, b)
  BY <1>1
<1>3. KeyOf(ItemOf(ch, e)) = <<g, b>>
  BY <1>2 DEF KeyOf, Symbol
<1> QED BY <1>2, <1>3

(* When everything is written every label is the place of its block.       *)
LEMMA AllPlaced ==
  ASSUME NEW T, Tape(T), stage \in Done, NEW f \in DOMAIN Program, NEW b \in 1 .. Len(Blks(f))
  PROVE  /\ <<f, b>> \in DOMAIN labels /\ labels[<<f, b>>] \in Nat
         /\ PlacedAt(T, labels[<<f, b>>], f, b)
<1>1. Old(f)
  BY FuncsIs DEF Old
<1>2. Labelled(f, b) /\ stage # "emit"
  BY <1>1, StagesDiffer DEF Labelled
<1>3. <<f, b>> \in DOMAIN labels /\ PlacedAt(T, labels[<<f, b>>], f, b)
  BY <1>2 DEF Tape, LabelsOK, Pending
<1>4. PICK j \in 1 .. Len(T) : T[j].at = labels[<<f, b>>]
  BY <1>3 DEF PlacedAt
<1>5. T[j].at \in Nat
  BY DEF Tape, Output, Layout, EntryOK
<1> QED BY <1>3, <1>4, <1>5

LEMMA TailIs ==
  ASSUME NEW s, IsSeq(s), s # << >>
  PROVE  /\ IsSeq(Tail(s)) /\ Len(s) > 0 /\ Len(Tail(s)) = Len(s) - 1 /\ Head(s) = s[1]
         /\ \A i \in 1 .. Len(s) - 1 : Tail(s)[i] = s[i + 1]
<1>1. PICK X : s \in Seq(X)
  BY DEF IsSeq
<1>2. Tail(s) \in Seq(X)
  BY <1>1
<1> QED BY <1>1, <1>2 DEF IsSeq

LEMMA TapeFixup ==
  ASSUME NEW T, Tape(T), ApplyFixup
  PROVE  Tape(T)'
<1> DEFINE o == Head(fixups)[1]
           v == labels[Head(fixups)[2]]
<1>1. /\ stage = "fixup" /\ fixups # << >> /\ fixups' = Tail(fixups)
      /\ UNCHANGED <<chosen, prefix, cur, code, at, labels, origin, back>>
      /\ \/ FixupFits(v) /\ contents' = ApplyFixupValue(contents, o, v) /\ UNCHANGED stage
         \/ stage' = "failed" /\ UNCHANGED contents
  BY DEF ApplyFixup
<1>2. Static /\ CursorOK /\ Output(T) /\ Fresh(T) /\ Ends(T) /\ LabelsOK(T)
  BY DEF Tape
<1>3. /\ chosen \in Operands /\ prefix \in Nat /\ Layout(T, chosen, prefix, Here)
      /\ BytesOK(T, chosen, prefix, contents) /\ FixupsOK(T, chosen, prefix, fixups)
      /\ OriginOK(T, origin) /\ BackOK(T, chosen, back)
  BY <1>2 DEF Static, Output
<1>4. /\ IsSeq(fixups) /\ Len(fixups) \in Nat /\ IsSeq(contents) /\ Len(contents) \in Nat
      /\ IsSeq(T) /\ Len(T) \in Nat
  BY <1>3, SeqFacts DEF FixupsOK, BytesOK, Layout
<1>5. /\ IsSeq(fixups') /\ Len(fixups) > 0 /\ Len(fixups') = Len(fixups) - 1
      /\ Head(fixups) = fixups[1] /\ \A i \in 1 .. Len(fixups) - 1 : fixups'[i] = fixups[i + 1]
  BY <1>1, <1>4, TailIs
<1>6. PICK x \in 1 .. Len(T) : IsSymbol(chosen, T[x]) /\ fixups[1] = FixOf(chosen, prefix, T[x])
  BY <1>3, <1>4, <1>5 DEF FixupsOK
<1>7. o = (T[x].at - prefix) + 1 /\ Head(fixups)[2] = KeyOf(ItemOf(chosen, T[x]))
  BY <1>5, <1>6 DEF FixOf
<1>8. v \in Nat
  <2>1. PICK g \in DOMAIN Program : \E b \in 1 .. Len(Blks(g)) : KeyOf(ItemOf(chosen, T[x])) = <<g, b>>
    BY <1>3, <1>6, SymbolKey
  <2>2. PICK b \in 1 .. Len(Blks(g)) : KeyOf(ItemOf(chosen, T[x])) = <<g, b>>
    BY <2>1
  <2> QED BY <1>1, <1>7, <2>2, AllPlaced DEF Done
<1> HIDE DEF o, v
<1>9. FixupsOK(T, chosen, prefix, fixups')
  <2> SUFFICES ASSUME NEW y \in 1 .. Len(fixups')
               PROVE  \E j \in 1 .. Len(T) : IsSymbol(chosen, T[j]) /\ fixups'[y] = FixOf(chosen, prefix, T[j])
    BY <1>5 DEF FixupsOK
  <2>1. y \in 1 .. Len(fixups) - 1 /\ y + 1 \in 1 .. Len(fixups)
    BY <1>4, <1>5
  <2> QED BY <1>3, <1>5, <2>1 DEF FixupsOK
<1>10. stage' \in Done /\ stage' \notin Passes \cup {"emit"} /\ stage' # "emit" /\ stage' # "run" /\ stage \in Done
  BY <1>1, StagesDiffer
<1>11. Fn' = Fn /\ \A g : Old(g)' <=> Old(g)
  BY <1>1, <1>10 DEF Old, Fn
<1>12. Static' /\ CursorOK'
  BY <1>1, <1>2, <1>10 DEF Static, CursorOK
<1>13. Fresh(T)'
  BY <1>2, <1>10, <1>11, StagesDiffer DEF Fresh
<1>14. Ends(T)'
  <2>1. stage # "emit"
    BY <1>1
  <2>2. Len(T) # 0 => T[Len(T)].q = Len(Final(chosen, T[Len(T)].p)) /\ IsLast(T[Len(T)].p)
    BY <1>2, <2>1 DEF Ends, InBlockEnd, BetweenBlocks
  <2> QED BY <1>1, <1>10, <2>2 DEF Ends, BetweenBlocks
<1>15. LabelsOK(T)'
  <2> SUFFICES ASSUME NEW f \in DOMAIN Program, NEW b \in 1 .. Len(Blks(f))
               PROVE  <<f, b>> \in DOMAIN labels' /\ PlacedAt(T, labels'[<<f, b>>], f, b)
    BY DEF LabelsOK
  <2> QED BY <1>1, <1>10, AllPlaced
<1>16. Output(T)'
  <2>1. CASE stage' = "failed" /\ UNCHANGED contents
    <3>1. Here' = Here /\ stage' \notin {"fixup", "run"}
      BY <1>1, <2>1 DEF Here
    <3> QED BY <1>1, <1>3, <1>9, <1>10, <2>1, <3>1 DEF Output
  <2>2. CASE FixupFits(v) /\ contents' = ApplyFixupValue(contents, o, v) /\ UNCHANGED stage
    <3>1. Here = prefix + Len(contents)
      BY DEF Here
    <3>2. PatchDone(T, chosen, prefix, contents, contents', x, v)
      BY <1>3, <1>6, <1>7, <1>8, <2>2, <3>1, PatchBytes
    <3>3. Here' = Here
      BY <1>1, <3>2 DEF Here, PatchDone
    <3>4. ASSUME NEW j \in 1 .. Len(T), IsSymbol(chosen, T[j])
          PROVE  \/ Waiting(chosen, prefix, fixups', T[j])
                 \/ Patched(chosen, prefix, contents', labels, T[j])
      <4>1. CASE j = x
        <5>1. v = labels[KeyOf(ItemOf(chosen, T[j]))] /\ v <= 65535
          BY <1>7, <2>2, <4>1 DEF FixupFits, v
        <5> QED BY <1>8, <3>2, <4>1, <5>1 DEF Patched, PatchDone
      <4>2. CASE j # x /\ Patched(chosen, prefix, contents, labels, T[j])
        <5>1. /\ contents'[(T[j].at - prefix) + 2] = contents[(T[j].at - prefix) + 2]
              /\ contents'[(T[j].at - prefix) + 3] = contents[(T[j].at - prefix) + 3]
          BY <3>2, <3>4, <4>2 DEF PatchDone
        <5> QED BY <4>2, <5>1 DEF Patched
      <4>3. CASE j # x /\ Waiting(chosen, prefix, fixups, T[j])
        <5>1. PICK y \in 1 .. Len(fixups) : fixups[y] = FixOf(chosen, prefix, T[j])
          BY <4>3 DEF Waiting
        <5>2. y # 1
          <6> SUFFICES ASSUME y = 1 PROVE FALSE
            OBVIOUS
          <6>1. FixOf(chosen, prefix, T[j])[1] = FixOf(chosen, prefix, T[x])[1]
            BY <1>6, <5>1
          <6>2. (T[j].at - prefix) + 1 = (T[x].at - prefix) + 1
            BY <6>1 DEF FixOf
          <6>3. /\ EntryOK(chosen, T[j]) /\ EntryOK(chosen, T[x])
                /\ j < x => T[j].at + Sz(chosen, T[j]) <= T[x].at
                /\ x < j => T[x].at + Sz(chosen, T[x]) <= T[j].at
            BY <1>3 DEF Layout
          <6>4. /\ T[j].at \in Nat /\ T[x].at \in Nat
                /\ Sz(chosen, T[j]) \in Nat /\ Sz(chosen, T[j]) > 0
                /\ Sz(chosen, T[x]) \in Nat /\ Sz(chosen, T[x]) > 0
            BY <1>3, <6>3, EntryIs DEF EntryOK
          <6>5. T[j].at = T[x].at
            <7>1. PICK aj, ax : aj = T[j].at /\ ax = T[x].at
              OBVIOUS
            <7>2. aj \in Nat /\ ax \in Nat /\ prefix \in Nat /\ (aj - prefix) + 1 = (ax - prefix) + 1
              BY <1>3, <6>2, <6>4, <7>1
            <7>3. aj = ax
              BY <7>2
            <7> QED BY <7>1, <7>3
          <6>6. j < x \/ x < j
            BY <1>4, <4>3
          <6>7. PICK aj, ax, sj, sx : /\ aj = T[j].at /\ ax = T[x].at
                                      /\ sj = Sz(chosen, T[j]) /\ sx = Sz(chosen, T[x])
            OBVIOUS
          <6>8. /\ aj \in Nat /\ aj = ax /\ sj \in Nat /\ sj > 0 /\ sx \in Nat /\ sx > 0
                /\ aj + sj <= ax \/ ax + sx <= aj
            BY <6>3, <6>4, <6>5, <6>6, <6>7
          <6> HIDE <6>7
          <6> QED BY <6>8
        <5>3. y - 1 \in 1 .. Len(fixups') /\ y - 1 \in 1 .. Len(fixups) - 1 /\ (y - 1) + 1 = y
          BY <1>4, <1>5, <5>2
        <5>4. fixups'[y - 1] = FixOf(chosen, prefix, T[j])
          BY <1>5, <5>1, <5>3
        <5> QED BY <5>3, <5>4 DEF Waiting
      <4>4. \/ Waiting(chosen, prefix, fixups, T[j])
            \/ Patched(chosen, prefix, contents, labels, T[j])
        BY <1>1, <1>2, <3>4 DEF Output
      <4> QED BY <4>1, <4>2, <4>3, <4>4
    <3>5. BytesOK(T, chosen, prefix, contents')
      BY <3>2 DEF PatchDone
    <3> QED BY <1>1, <1>3, <1>9, <1>10, <3>3, <3>4, <3>5 DEF Output
  <2> QED BY <1>1, <2>1, <2>2
<1> QED BY <1>12, <1>13, <1>14, <1>15, <1>16 DEF Tape

LEMMA TapeWrite ==
  ASSUME NEW T, Tape(T), WriteObject
  PROVE  Tape(T)'
<1>1. /\ stage = "fixup" /\ fixups = << >> /\ stage' = "run"
      /\ UNCHANGED <<chosen, prefix, cur, at, contents, fixups, labels, origin, back>>
  BY DEF WriteObject
<1>2. Static /\ CursorOK /\ Output(T) /\ Fresh(T) /\ Ends(T) /\ LabelsOK(T)
  BY DEF Tape
<1>3. stage' \in Done /\ stage' \notin Passes \cup {"emit"} /\ stage' # "emit" /\ stage \in Done /\ stage # "emit"
  BY <1>1, StagesDiffer
<1>4. Fn' = Fn /\ Here' = Here /\ \A g : Old(g)' <=> Old(g)
  BY <1>1, <1>3 DEF Old, Fn, Here
<1>5. Static' /\ CursorOK'
  BY <1>1, <1>2, <1>3 DEF Static, CursorOK
<1>6. Fresh(T)'
  BY <1>2, <1>3, <1>4 DEF Fresh
<1>7. Ends(T)'
  <2>1. Len(T) # 0 => T[Len(T)].q = Len(Final(chosen, T[Len(T)].p)) /\ IsLast(T[Len(T)].p)
    BY <1>2, <1>3 DEF Ends, InBlockEnd, BetweenBlocks
  <2> QED BY <1>1, <1>3, <2>1 DEF Ends, BetweenBlocks
<1>8. LabelsOK(T)'
  <2> SUFFICES ASSUME NEW f \in DOMAIN Program, NEW b \in 1 .. Len(Blks(f))
               PROVE  <<f, b>> \in DOMAIN labels' /\ PlacedAt(T, labels'[<<f, b>>], f, b)
    BY DEF LabelsOK
  <2> QED BY <1>1, <1>3, AllPlaced
<1>9. Output(T)'
  BY <1>1, <1>2, <1>3, <1>4 DEF Output
<1> QED BY <1>5, <1>6, <1>7, <1>8, <1>9 DEF Tape

LEMMA TapeKept ==
  ASSUME NEW T, Tape(T), UNCHANGED emitVars
  PROVE  Tape(T)'
<1>1. UNCHANGED <<chosen, prefix, stage, cur, code, at, contents, fixups, labels, origin, back>>
  BY DEF emitVars
<1> QED BY <1>1, SMTT(30) DEF Tape, Static, CursorOK, Output, Fresh, Ends, LabelsOK, Fn, Here, Old, W,
                    InBlockEnd, BetweenBlocks, Labelled, Pending

LEMMA TapeNext ==
  ASSUME NEW T, Tape(T), EmitNext
  PROVE  \E U : Tape(U)'
<1>1. CASE EmitInstruction
  BY <1>1, TapeInstr
<1>2. CASE ~EmitInstruction
  <2>1. Tape(T)'
    <3>1. CASE ExpandPseudos \/ ConvertRegToStack \/ Shrinkpush \/ Finalization
      BY <3>1, TapePass
    <3>2. CASE EmitLabel
      BY <3>2, TapeLabel
    <3>3. CASE BlockWritten
      BY <3>3, TapeBlock
    <3>4. CASE FunctionWritten
      BY <3>4, TapeFunction
    <3>5. CASE ApplyFixup
      BY <3>5, TapeFixup
    <3>6. CASE WriteObject
      BY <3>6, TapeWrite
    <3> QED BY <1>2, <3>1, <3>2, <3>3, <3>4, <3>5, <3>6 DEF EmitNext
  <2> QED BY <2>1
<1> QED BY <1>1, <1>2

IsDest(e) == ItemOf(chosen, e).op = JUMPDEST

(* Where the machine stands when it has looked at the items before n.      *)
PlaceOf(T, n) == IF n <= Len(T) THEN T[n].at ELSE Here

Marked(T, n) ==
  /\ \A j \in 1 .. n - 1 : IsDest(T[j]) => T[j].at \in dests
  /\ \A a \in dests : \E j \in 1 .. Len(T) : IsDest(T[j]) /\ T[j].at = a

Loading(T) ==
  /\ status \in {"loading", "running", "stopped", "fault"}
  /\ stage # "run" => status = "loading" /\ pc = prefix /\ dests = {}
  /\ stage = "run" /\ status = "loading" =>
       \E n \in 1 .. Len(T) + 1 : pc = PlaceOf(T, n) /\ Marked(T, n)
  /\ status # "loading" => Marked(T, Len(T) + 1)

(* The code as the machine finds it.                                       *)
Image(T) ==
  /\ chosen \in Operands /\ prefix \in Nat /\ Len(contents) \in Nat /\ IsSeq(contents)
  /\ IsSeq(T) /\ Len(T) \in Nat /\ Layout(T, chosen, prefix, prefix + Len(contents))
  /\ BytesOK(T, chosen, prefix, contents)

LEMMA ImageIs ==
  ASSUME NEW T, Tape(T)
  PROVE  Image(T) /\ Here = End /\ End = prefix + Len(contents)
<1>1. Static /\ Output(T)
  BY DEF Tape
<1>2. chosen \in Operands /\ prefix \in Nat
  BY <1>1 DEF Static
<1>3. BytesOK(T, chosen, prefix, contents) /\ Layout(T, chosen, prefix, Here)
  BY <1>1 DEF Output
<1>4. IsSeq(contents) /\ IsSeq(T)
  BY <1>3 DEF BytesOK, Layout
<1>5. Len(contents) \in Nat /\ Len(T) \in Nat
  BY <1>4, SeqFacts
<1>6. Here = prefix + Len(contents) /\ End = prefix + Len(contents)
  BY DEF Here, End
<1> QED BY <1>2, <1>3, <1>4, <1>5, <1>6 DEF Image

(* The byte at the place of an item is its opcode, and the next item comes *)
(* behind the data.                                                        *)
LEMMA FetchAt ==
  ASSUME NEW T, Image(T), NEW j \in 1 .. Len(T)
  PROVE  /\ EntryOK(chosen, T[j]) /\ T[j].at \in Nat /\ T[j].at < End
         /\ ItemOK(ItemOf(chosen, T[j])) /\ Encoded(ItemOf(chosen, T[j]))
         /\ ByteAt(T[j].at) = ItemOf(chosen, T[j]).op
         /\ Sz(chosen, T[j]) = 1 + DataSize(ItemOf(chosen, T[j]).op)
         /\ T[j].at + Sz(chosen, T[j]) = IF j < Len(T) THEN T[j + 1].at ELSE End
<1> DEFINE e == T[j]
           mi == ItemOf(chosen, e)
<1>1. /\ chosen \in Operands /\ prefix \in Nat /\ Len(contents) \in Nat
      /\ Layout(T, chosen, prefix, prefix + Len(contents)) /\ Len(T) \in Nat
      /\ BytesOK(T, chosen, prefix, contents) /\ End = prefix + Len(contents)
  BY DEF Image, End
<1>2. /\ EntryOK(chosen, e) /\ e.at \in Nat /\ e.at - prefix \in Nat
      /\ Sz(chosen, e) \in Nat /\ Sz(chosen, e) > 0
      /\ \A i \in 1 .. Sz(chosen, e) : (e.at - prefix) + i \in 1 .. Len(contents)
  BY <1>1, ItemBytes
<1>3. ItemOK(mi) /\ Encoded(mi)
  BY <1>1, <1>2, EntryIs
<1>4. Sz(chosen, e) = 1 + DataSize(mi.op) /\ Code(chosen, e)[1] = mi.op
  BY <1>3 DEF Encoded, Sz, Code
<1>5. 1 \in 1 .. Sz(chosen, e)
  BY <1>2
<1>6. contents[(e.at - prefix) + 1] = Code(chosen, e)[1]
  BY <1>1, <1>5 DEF BytesOK
<1>7. ByteAt(e.at) = mi.op
  BY <1>4, <1>6 DEF ByteAt
<1>8. (e.at - prefix) + 1 \in 1 .. Len(contents)
  BY <1>2, <1>5
<1> HIDE DEF e
<1>9. e.at < End
  BY <1>1, <1>2, <1>8
<1>10. e.at + Sz(chosen, e) = IF j < Len(T) THEN T[j + 1].at ELSE End
  <2>1. CASE j < Len(T)
    <3>1. j \in 1 .. Len(T) - 1
      BY <1>1, <2>1
    <3> QED BY <1>1, <2>1, <3>1 DEF Layout, e
  <2>2. CASE ~(j < Len(T))
    <3>1. j = Len(T) /\ Len(T) # 0
      BY <1>1, <2>2
    <3> QED BY <1>1, <2>2, <3>1 DEF Layout, e
  <2> QED BY <2>1, <2>2
<1> QED BY <1>2, <1>3, <1>4, <1>7, <1>9, <1>10 DEF e

LEMMA LoadingInit ==
  ASSUME EmitInit, ExecInit
  PROVE  Loading(<< >>)
<1>1. stage = "expand" /\ status = "loading" /\ pc = prefix /\ dests = {}
  BY DEF EmitInit, ExecInit
<1> QED BY <1>1 DEF Loading

(* The compiler has not started the machine.                               *)
LEMMA LoadingCompile ==
  ASSUME NEW T, Loading(T), EmitNext, UNCHANGED execVars, NEW U, Tape(U)'
  PROVE  Loading(U)'
<1>1. UNCHANGED <<pc, status, dests>>
  BY DEF execVars
<1>2. stage # "run" /\ prefix' = prefix
  <2>1. stage \in Passes \cup {"emit", "fixup"}
    BY DEF EmitNext, ExpandPseudos, ConvertRegToStack, Shrinkpush, Finalization, EmitLabel,
           EmitInstruction, BlockWritten, FunctionWritten, ApplyFixup, WriteObject, Passes
  <2>2. prefix' = prefix
    BY DEF EmitNext, ExpandPseudos, ConvertRegToStack, Shrinkpush, Finalization, EmitLabel,
           EmitInstruction, BlockWritten, FunctionWritten, ApplyFixup, WriteObject
  <2> QED BY <2>1, <2>2, StagesDiffer
<1>3. status' = "loading" /\ pc' = prefix' /\ dests' = {}
  BY <1>1, <1>2 DEF Loading
<1>4. stage' = "run" => \E n \in 1 .. Len(U) + 1 : pc' = PlaceOf(U, n)' /\ Marked(U, n)'
  <2>1. /\ (Len(U) \in Nat)' /\ Layout(U, chosen, prefix, Here)'
    BY SeqFacts DEF Tape, Output, Layout
  <2>2. pc' = PlaceOf(U, 1)'
    <3>1. CASE Len(U) = 0
      BY <1>3, <2>1, <3>1 DEF Layout, PlaceOf
    <3>2. CASE Len(U) # 0
      BY <1>3, <2>1, <3>2 DEF Layout, PlaceOf
    <3> QED BY <3>1, <3>2
  <2>3. Marked(U, 1)'
    BY <1>3 DEF Marked
  <2>4. 1 \in 1 .. Len(U) + 1
    BY <2>1
  <2> QED BY <2>2, <2>3, <2>4
<1> QED BY <1>3, <1>4 DEF Loading

LEMMA DataSizeIs == ASSUME NEW o \in Byte PROVE o \in Nat /\ DataSize(o) \in Nat
BY DEF DataSize, IsPush, PUSH1, PUSH32, Byte

LEMMA LoadingAnalyze ==
  ASSUME NEW T, Tape(T), Loading(T), Analyze
  PROVE  Loading(T)'
<1>1. /\ stage = "run" /\ status = "loading" /\ pc < End
      /\ dests' = IF ByteAt(pc) = JUMPDEST THEN dests \cup {pc} ELSE dests
      /\ pc' = pc + 1 + DataSize(ByteAt(pc))
      /\ status' = status /\ UNCHANGED emitVars
  BY DEF Analyze
<1>2. UNCHANGED <<chosen, prefix, stage, contents>>
  BY <1>1 DEF emitVars
<1>3. Image(T) /\ Here = End
  BY ImageIs
<1>4. PICK n \in 1 .. Len(T) + 1 : pc = PlaceOf(T, n) /\ Marked(T, n)
  BY <1>1 DEF Loading
<1>5. Len(T) \in Nat /\ End \in Nat
  BY <1>3 DEF Image, End
<1>6. n <= Len(T) /\ n \in 1 .. Len(T)
  BY <1>1, <1>3, <1>4, <1>5 DEF PlaceOf
<1>7. pc = T[n].at
  BY <1>4, <1>6 DEF PlaceOf
<1>8. /\ T[n].at \in Nat /\ ByteAt(T[n].at) = ItemOf(chosen, T[n]).op
      /\ Sz(chosen, T[n]) = 1 + DataSize(ItemOf(chosen, T[n]).op)
      /\ T[n].at + Sz(chosen, T[n]) = IF n < Len(T) THEN T[n + 1].at ELSE End
  BY <1>3, <1>6, FetchAt
<1>9. DataSize(ByteAt(pc)) \in Nat /\ pc' = T[n].at + Sz(chosen, T[n])
  <2>1. EntryOK(chosen, T[n])
    BY <1>3, <1>6, FetchAt
  <2>2. Sz(chosen, T[n]) \in Nat /\ Sz(chosen, T[n]) > 0 /\ Encoded(ItemOf(chosen, T[n]))
    BY <1>3, <2>1, EntryIs DEF Image
  <2>3. DataSize(ItemOf(chosen, T[n]).op) \in Nat
    <3>1. ItemOf(chosen, T[n]).op \in Byte
      BY <2>2 DEF Encoded
    <3> QED BY <3>1, DataSizeIs
  <2> QED BY <1>1, <1>7, <1>8, <2>3
<1>10. pc' = PlaceOf(T, n + 1)'
  <2>1. Here' = Here
    BY <1>2 DEF Here
  <2>2. n < Len(T) <=> n + 1 <= Len(T)
    BY <1>5, <1>6
  <2> QED BY <1>3, <1>8, <1>9, <2>1, <2>2 DEF PlaceOf
<1>11. ASSUME NEW e PROVE IsDest(e)' <=> IsDest(e)
  BY <1>2 DEF IsDest
<1>12. dests \subseteq dests' /\ (IsDest(T[n]) => T[n].at \in dests')
  BY <1>1, <1>7, <1>8 DEF IsDest
<1>13. Marked(T, n + 1)'
  <2>1. ASSUME NEW j \in 1 .. (n + 1) - 1, IsDest(T[j])
        PROVE  T[j].at \in dests'
    <3>1. j \in 1 .. n - 1 \/ j = n
      BY <1>6, <1>5
    <3> QED BY <1>4, <1>12, <2>1, <3>1 DEF Marked
  <2>2. ASSUME NEW a \in dests'
        PROVE  \E j \in 1 .. Len(T) : IsDest(T[j]) /\ T[j].at = a
    <3>1. CASE a \in dests
      BY <1>4, <3>1 DEF Marked
    <3>2. CASE a \notin dests
      <4>1. a = pc /\ ByteAt(pc) = JUMPDEST
        BY <1>1, <3>2
      <4>2. IsDest(T[n]) /\ T[n].at = a
        BY <1>7, <1>8, <4>1 DEF IsDest
      <4> QED BY <1>6, <4>2
    <3> QED BY <3>1, <3>2
  <2> QED BY <1>11, <2>1, <2>2 DEF Marked
<1>14. n + 1 \in 1 .. Len(T) + 1
  BY <1>5, <1>6
<1> QED BY <1>1, <1>2, <1>10, <1>13, <1>14 DEF Loading

LEMMA LoadingStart ==
  ASSUME NEW T, Tape(T), Loading(T), Start
  PROVE  Loading(T)'
<1>1. /\ stage = "run" /\ status = "loading" /\ pc >= End /\ dests' = dests
      /\ status' = "running" /\ UNCHANGED emitVars
  BY DEF Start
<1>2. UNCHANGED <<chosen, stage>>
  BY <1>1 DEF emitVars
<1>3. Image(T) /\ Here = End
  BY ImageIs
<1>4. PICK n \in 1 .. Len(T) + 1 : pc = PlaceOf(T, n) /\ Marked(T, n)
  BY <1>1 DEF Loading
<1>5. Len(T) \in Nat /\ End \in Nat
  BY <1>3 DEF Image, End
<1>6. ~(n <= Len(T))
  <2> SUFFICES ASSUME n <= Len(T) PROVE FALSE
    OBVIOUS
  <2>1. n \in 1 .. Len(T)
    BY <1>5
  <2>2. T[n].at \in Nat /\ T[n].at < End
    BY <1>3, <2>1, FetchAt
  <2>3. pc = T[n].at
    BY <1>4 DEF PlaceOf
  <2> QED BY <1>1, <1>5, <2>2, <2>3
<1>7. n = Len(T) + 1
  BY <1>5, <1>6
<1>8. Marked(T, Len(T) + 1)'
  BY <1>1, <1>2, <1>4, <1>7 DEF Marked, IsDest
<1> QED BY <1>1, <1>2, <1>8 DEF Loading

LEMMA LoadingRest ==
  ASSUME NEW T, Loading(T), Execute \/ Stop \/ UNCHANGED vars
  PROVE  Loading(T)'
<1>1. UNCHANGED emitVars /\ dests' = dests
  BY DEF Execute, Stop, vars, emitVars
<1>2. UNCHANGED <<chosen, prefix, stage, contents>>
  BY <1>1 DEF emitVars
<1>3. \A n : /\ Marked(T, n)' <=> Marked(T, n)
             /\ PlaceOf(T, n)' = PlaceOf(T, n)
  BY <1>1, <1>2 DEF Marked, IsDest, PlaceOf, Here
<1>4. CASE UNCHANGED vars
  <2>1. UNCHANGED <<pc, status>>
    BY <1>4 DEF vars
  <2> QED BY <1>1, <1>2, <1>3, <2>1 DEF Loading
<1>5. CASE Execute \/ Stop
  <2>1. status = "running" /\ status' \in {"running", "stopped", "fault"}
    BY <1>5 DEF Execute, Stop
  <2>2. stage = "run" /\ Marked(T, Len(T) + 1)
    BY <2>1 DEF Loading
  <2> QED BY <1>2, <1>3, <2>1, <2>2 DEF Loading
<1> QED BY <1>4, <1>5
=============================================================================
