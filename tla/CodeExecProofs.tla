--------------------------- MODULE CodeExecProofs ---------------------------
(***************************************************************************)
(* The bytes behave as the program says.                                   *)
(*                                                                         *)
(* In the middle of a source instruction the machine stands before one of  *)
(* its items, and a table with a row for each item says what the stack and *)
(* the memory have become since the instruction began (InsideWith,         *)
(* LocalRow, CallRow; BackRow behind a call, when the callee has           *)
(* returned).  Each item takes the machine to the next row, the last one   *)
(* completes the step of the source (Reaches).  The frames of the active   *)
(* functions lie one behind the other, and the words that lead back from   *)
(* each to its caller's are in place (FramesOK): a return finds the frame  *)
(* pointer the call has saved.                                             *)
(*                                                                         *)
(* What the program must bring along is Disciplined, of CodeExec.          *)
(***************************************************************************)
EXTENDS CodeLayoutProofs, FiniteSetTheorems, TLAPS

(* A stack with x on top of s.                                             *)
C(x, s) == << x >> \o s

LEMMA SubSeqIs ==
  ASSUME NEW s, IsSeq(s), NEW m \in Nat, NEW n \in Nat, m >= 1, n <= Len(s), m <= n + 1
  PROVE  /\ IsSeq(SubSeq(s, m, n)) /\ Len(SubSeq(s, m, n)) = (n - m) + 1
         /\ \A i \in 1 .. (n - m) + 1 : SubSeq(s, m, n)[i] = s[(m + i) - 1]
<1>1. PICK X : s \in Seq(X)
  BY DEF IsSeq
<1>2. Len(s) \in Nat /\ DOMAIN s = 1 .. Len(s) /\ \A i \in 1 .. Len(s) : s[i] \in X
  BY <1>1, Elements
<1> DEFINE t == [i \in 1 .. (n - m) + 1 |-> s[(m + i) - 1]]
<1>3. SubSeq(s, m, n) = t
  BY <1>1, <1>2
<1>4. (n - m) + 1 \in Nat
  OBVIOUS
<1>5. IsSeq(t) /\ Len(t) = (n - m) + 1
  BY <1>4, SeqFunction
<1> QED BY <1>3, <1>5

LEMMA ConsIs ==
  ASSUME NEW x, NEW s, IsSeq(s)
  PROVE  /\ IsSeq(C(x, s)) /\ Len(C(x, s)) = Len(s) + 1 /\ Len(s) \in Nat
         /\ C(x, s)[1] = x /\ \A i \in 1 .. Len(s) : C(x, s)[i + 1] = s[i]
<1>1. IsSeq(<< x >>) /\ Len(<< x >>) = 1 /\ << x >>[1] = x
  BY OneIs
<1>2. Joined(C(x, s), << x >>, s)
  BY <1>1, SeqJoined DEF C
<1>3. Len(s) \in Nat
  BY SeqFacts
<1>4. IsSeq(C(x, s)) /\ Len(C(x, s)) = 1 + Len(s)
  BY <1>1, <1>2 DEF Joined
<1>5. C(x, s)[1] = x
  <2>1. 1 \in 1 .. Len(<< x >>)
    BY <1>1
  <2> QED BY <1>1, <1>2, <2>1 DEF Joined
<1>6. ASSUME NEW i \in 1 .. Len(s) PROVE C(x, s)[i + 1] = s[i]
  <2>1. C(x, s)[1 + i] = s[i]
    BY <1>1, <1>2 DEF Joined
  <2>2. 1 + i = i + 1
    BY <1>3
  <2> QED BY <2>1, <2>2
<1> QED BY <1>3, <1>4, <1>5, <1>6

(* What is left below the first or the first two.                          *)
LEMMA ConsRest ==
  ASSUME NEW x, NEW s, IsSeq(s)
  PROVE  SubSeq(C(x, s), 1 + 1, Len(C(x, s))) = s
<1>1. /\ IsSeq(C(x, s)) /\ Len(C(x, s)) = Len(s) + 1 /\ Len(s) \in Nat
      /\ \A i \in 1 .. Len(s) : C(x, s)[i + 1] = s[i]
  BY ConsIs
<1> DEFINE t == SubSeq(C(x, s), 2, Len(s) + 1)
<1>2. IsSeq(t) /\ Len(t) = Len(s) /\ \A i \in 1 .. Len(s) : t[i] = C(x, s)[(2 + i) - 1]
  <2>1. Len(s) + 1 \in Nat /\ Len(s) + 1 <= Len(C(x, s)) /\ 2 <= (Len(s) + 1) + 1
    BY <1>1
  <2>2. ((Len(s) + 1) - 2) + 1 = Len(s)
    BY <1>1
  <2> HIDE DEF t
  <2>3. t = SubSeq(C(x, s), 2, Len(s) + 1)
    BY DEF t
  <2>4. /\ IsSeq(t) /\ Len(t) = ((Len(s) + 1) - 2) + 1
        /\ \A i \in 1 .. ((Len(s) + 1) - 2) + 1 : t[i] = C(x, s)[(2 + i) - 1]
    BY <1>1, <2>1, <2>3, SubSeqIs
  <2> QED BY <2>2, <2>4
<1> HIDE DEF t
<1>3. ASSUME NEW i \in 1 .. Len(t) PROVE t[i] = s[i]
  <2>1. (2 + i) - 1 = i + 1 /\ i \in 1 .. Len(s)
    BY <1>1, <1>2
  <2> QED BY <1>1, <1>2, <2>1
<1>4. t = s
  BY <1>2, <1>3, SeqSame
<1>5. 1 + 1 = 2
  OBVIOUS
<1> QED BY <1>1, <1>4, <1>5 DEF t

LEMMA ConsRestTwo ==
  ASSUME NEW x, NEW y, NEW s, IsSeq(s)
  PROVE  SubSeq(C(x, C(y, s)), 2 + 1, Len(C(x, C(y, s)))) = s
<1> DEFINE u == C(x, C(y, s))
<1>1. /\ IsSeq(C(y, s)) /\ Len(C(y, s)) = Len(s) + 1 /\ Len(s) \in Nat
      /\ \A i \in 1 .. Len(s) : C(y, s)[i + 1] = s[i]
  BY ConsIs
<1>2. /\ IsSeq(u) /\ Len(u) = (Len(s) + 1) + 1
      /\ \A i \in 1 .. Len(s) + 1 : u[i + 1] = C(y, s)[i]
  BY <1>1, ConsIs
<1> HIDE DEF u
<1> DEFINE t == SubSeq(u, 3, Len(u))
<1>3. IsSeq(t) /\ Len(t) = (Len(u) - 3) + 1 /\ \A i \in 1 .. (Len(u) - 3) + 1 : t[i] = u[(3 + i) - 1]
  <2>1. Len(u) \in Nat /\ 3 <= Len(u) + 1 /\ Len(u) <= Len(u)
    BY <1>1, <1>2
  <2> QED BY <1>2, <2>1, SubSeqIs
<1> HIDE DEF t
<1>4. (Len(u) - 3) + 1 = Len(s)
  BY <1>1, <1>2
<1>5. ASSUME NEW i \in 1 .. Len(t) PROVE t[i] = s[i]
  <2>1. (3 + i) - 1 = (i + 1) + 1 /\ i \in 1 .. Len(s) /\ i + 1 \in 1 .. Len(s) + 1
    BY <1>1, <1>3, <1>4
  <2> QED BY <1>1, <1>2, <1>3, <1>4, <2>1
<1>6. t = s
  BY <1>3, <1>4, <1>5, SeqSame
<1>7. 2 + 1 = 3
  OBVIOUS
<1> QED BY <1>6, <1>7 DEF t, u

(* Every stack that is not empty has a top.                                *)
LEMMA ConsOf ==
  ASSUME NEW s, IsSeq(s), Len(s) >= 1
  PROVE  /\ IsSeq(SubSeq(s, 2, Len(s))) /\ s = C(s[1], SubSeq(s, 2, Len(s)))
         /\ Len(SubSeq(s, 2, Len(s))) = Len(s) - 1
<1> DEFINE t == SubSeq(s, 2, Len(s))
<1>1. Len(s) \in Nat
  BY SeqFacts
<1>2. IsSeq(t) /\ Len(t) = (Len(s) - 2) + 1 /\ \A i \in 1 .. (Len(s) - 2) + 1 : t[i] = s[(2 + i) - 1]
  <2>1. Len(s) \in Nat /\ 2 <= Len(s) + 1 /\ Len(s) <= Len(s)
    BY <1>1
  <2>2. PICK n : n = Len(s)
    OBVIOUS
  <2>3. t = SubSeq(s, 2, n)
    BY <2>2
  <2> HIDE DEF t
  <2>4. n \in Nat /\ n <= Len(s) /\ 2 <= n + 1
    BY <2>1, <2>2
  <2>5. IsSeq(t) /\ Len(t) = (n - 2) + 1 /\ \A i \in 1 .. (n - 2) + 1 : t[i] = s[(2 + i) - 1]
    BY <2>3, <2>4, SubSeqIs
  <2> QED BY <2>2, <2>5
<1> HIDE DEF t
<1>3. Len(t) = Len(s) - 1 /\ Len(t) + 1 = Len(s)
  BY <1>1, <1>2
<1> DEFINE u == C(s[1], t)
<1>4. /\ IsSeq(u) /\ Len(u) = Len(t) + 1 /\ u[1] = s[1] /\ \A i \in 1 .. Len(t) : u[i + 1] = t[i]
  BY <1>2, ConsIs
<1> HIDE DEF u
<1>5. ASSUME NEW i \in 1 .. Len(s) PROVE s[i] = u[i]
  <2>1. CASE i = 1
    BY <1>4, <2>1
  <2>2. CASE i # 1
    <3>1. i - 1 \in 1 .. Len(t) /\ (i - 1) + 1 = i /\ (2 + (i - 1)) - 1 = i /\ Len(t) = (Len(s) - 2) + 1
      BY <1>1, <1>3, <2>2
    <3> QED BY <1>2, <1>4, <3>1
  <2> QED BY <2>1, <2>2
<1>6. s = u
  BY <1>3, <1>4, <1>5, SeqSame
<1> QED BY <1>2, <1>3, <1>6 DEF t, u

-----------------------------------------------------------------------------
(* The machine stands at an item.                                          *)
Standing(T, j) ==
  /\ Tape(T) /\ Loading(T) /\ status = "running"
  /\ j \in 1 .. Len(T) /\ pc = T[j].at

Now(T, j) == ItemOf(chosen, T[j])
Behind(T, j) == T[j].at + Sz(chosen, T[j])

LEMMA StandingIs ==
  ASSUME NEW T, NEW j, Standing(T, j)
  PROVE  /\ Image(T) /\ stage = "run" /\ j \in 1 .. Len(T) /\ EntryOK(chosen, T[j])
         /\ pc = T[j].at /\ pc \in Nat /\ pc < End /\ Fetch = Now(T, j).op
         /\ ItemOK(Now(T, j)) /\ Encoded(Now(T, j)) /\ Now(T, j).op \in Byte
         /\ Behind(T, j) = pc + 1 + DataSize(Now(T, j).op)
         /\ Behind(T, j) = IF j < Len(T) THEN T[j + 1].at ELSE End
<1>1. Image(T) /\ j \in 1 .. Len(T) /\ pc = T[j].at
  BY ImageIs DEF Standing
<1>2. stage = "run"
  BY DEF Standing, Loading
<1>3. /\ EntryOK(chosen, T[j]) /\ T[j].at \in Nat /\ T[j].at < End
      /\ ItemOK(ItemOf(chosen, T[j])) /\ Encoded(ItemOf(chosen, T[j]))
      /\ ByteAt(T[j].at) = ItemOf(chosen, T[j]).op
      /\ Sz(chosen, T[j]) = 1 + DataSize(ItemOf(chosen, T[j]).op)
      /\ T[j].at + Sz(chosen, T[j]) = IF j < Len(T) THEN T[j + 1].at ELSE End
  BY <1>1, FetchAt
<1>4. Now(T, j).op \in Byte
  BY <1>3 DEF Encoded, Now
<1>5. DataSize(Now(T, j).op) \in Nat
  BY <1>4, DataSizeIs
<1>6. Behind(T, j) = pc + 1 + DataSize(Now(T, j).op)
  BY <1>1, <1>3, <1>5 DEF Behind, Now
<1> QED BY <1>1, <1>2, <1>3, <1>4, <1>6 DEF Behind, Now, Fetch

LEMMA DataIs ==
  ASSUME NEW T, NEW j, Standing(T, j), NEW n \in Nat, n = DataSize(Now(T, j).op)
  PROVE  /\ IsSeq(Data(n)) /\ Len(Data(n)) = n
         /\ \A i \in 1 .. n : Data(n)[i] = contents[(T[j].at - prefix) + (1 + i)]
         /\ \A i \in 1 .. n : 1 + i \in 1 .. Sz(chosen, T[j])
<1>1. /\ Image(T) /\ j \in 1 .. Len(T) /\ pc = T[j].at /\ pc \in Nat
      /\ EntryOK(chosen, T[j]) /\ Encoded(Now(T, j))
  BY StandingIs
<1>2. /\ prefix \in Nat /\ Len(contents) \in Nat /\ IsSeq(contents) /\ chosen \in Operands
      /\ Layout(T, chosen, prefix, prefix + Len(contents))
  BY <1>1 DEF Image
<1>3. /\ pc - prefix \in Nat /\ Sz(chosen, T[j]) \in Nat
      /\ \A i \in 1 .. Sz(chosen, T[j]) : (pc - prefix) + i \in 1 .. Len(contents)
  BY <1>1, <1>2, ItemBytes
<1>4. Sz(chosen, T[j]) = 1 + n
  BY <1>1 DEF Encoded, Sz, Now
<1> DEFINE o == pc - prefix
           d == SubSeq(contents, o + 2, o + 1 + n)
<1>5. Data(n) = d
  BY DEF Data
<1> HIDE DEF o
<1>6. o + (1 + n) \in 1 .. Len(contents)
  <2>1. 1 + n \in 1 .. Sz(chosen, T[j])
    BY <1>4
  <2> QED BY <1>3, <2>1 DEF o
<1>7. o \in Nat
  BY <1>3 DEF o
<1>8. /\ o + 2 \in Nat /\ o + 1 + n \in Nat /\ o + 2 >= 1 /\ o + 1 + n <= Len(contents)
      /\ o + 2 <= (o + 1 + n) + 1 /\ ((o + 1 + n) - (o + 2)) + 1 = n
  BY <1>2, <1>6, <1>7
<1>9. /\ IsSeq(d) /\ Len(d) = ((o + 1 + n) - (o + 2)) + 1
      /\ \A i \in 1 .. ((o + 1 + n) - (o + 2)) + 1 : d[i] = contents[((o + 2) + i) - 1]
  <2>1. PICK a, b : a = o + 2 /\ b = o + 1 + n
    OBVIOUS
  <2>2. a \in Nat /\ b \in Nat /\ a >= 1 /\ b <= Len(contents) /\ a <= b + 1
    BY <1>8, <2>1
  <2>3. d = SubSeq(contents, a, b)
    BY <2>1
  <2> HIDE DEF d
  <2>4. /\ IsSeq(d) /\ Len(d) = (b - a) + 1
        /\ \A i \in 1 .. (b - a) + 1 : d[i] = contents[(a + i) - 1]
    BY <1>2, <2>2, <2>3, SubSeqIs
  <2> QED BY <2>1, <2>4
<1> HIDE DEF d
<1>10. ASSUME NEW i \in 1 .. n PROVE d[i] = contents[o + (1 + i)]
  <2>1. ((o + 2) + i) - 1 = o + (1 + i)
    BY <1>7
  <2> QED BY <1>8, <1>9, <2>1
<1>11. \A i \in 1 .. n : 1 + i \in 1 .. Sz(chosen, T[j])
  BY <1>4
<1> QED BY <1>1, <1>5, <1>8, <1>9, <1>10, <1>11 DEF o

LEMMA NumberData ==
  ASSUME NEW T, NEW j, Standing(T, j), NEW v, IsNumberPush(Now(T, j), v)
  PROVE  /\ DataSize(Now(T, j).op) = Width(Now(T, j)) /\ Width(Now(T, j)) \in Nat
         /\ Word(Data(Width(Now(T, j)))) = v
<1> DEFINE mi == Now(T, j)
           n == Width(mi)
<1>1. /\ Image(T) /\ j \in 1 .. Len(T) /\ Encoded(mi) /\ EntryOK(chosen, T[j]) /\ mi.op \in Byte
  BY StandingIs
<1>2. DataSize(mi.op) = n /\ \A i \in 1 .. n : EncodeInstruction(mi)[1 + i] = PushData(mi)[i]
  BY <1>1 DEF Encoded
<1>3. n \in Nat
  BY <1>1, <1>2, DataSizeIs
<1>4. /\ IsSeq(Data(n)) /\ Len(Data(n)) = n
      /\ \A i \in 1 .. n : Data(n)[i] = contents[(T[j].at - prefix) + (1 + i)]
      /\ \A i \in 1 .. n : 1 + i \in 1 .. Sz(chosen, T[j])
  BY <1>2, <1>3, DataIs
<1>5. ~IsSymbol(chosen, T[j])
  <2>1. mi.arg.kind # "symbol"
    BY DEF IsNumberPush
  <2> QED BY <1>1, <2>1, EntryIs, SymbolKind DEF IsSymbol, Now, Image
<1>6. \A i \in 1 .. Sz(chosen, T[j]) : contents[(T[j].at - prefix) + i] = Code(chosen, T[j])[i]
  BY <1>1, <1>5 DEF Image, BytesOK
<1>7. IsSeq(PushData(mi)) /\ Len(PushData(mi)) = n /\ Word(PushData(mi)) = v
  BY DEF IsNumberPush, IsSeq
<1> HIDE DEF n
<1>8. ASSUME NEW i \in 1 .. n PROVE Data(n)[i] = PushData(mi)[i]
  <2>1. 1 + i \in 1 .. Sz(chosen, T[j])
    BY <1>4
  <2>2. contents[(T[j].at - prefix) + (1 + i)] = Code(chosen, T[j])[1 + i]
    BY <1>6, <2>1
  <2>3. Code(chosen, T[j])[1 + i] = PushData(mi)[i]
    BY <1>2 DEF Code, Now
  <2> QED BY <1>4, <2>2, <2>3
<1>9. Data(n) = PushData(mi)
  BY <1>4, <1>7, <1>8, SeqSame
<1> QED BY <1>2, <1>3, <1>7, <1>9 DEF n

LEMMA DigitsLow ==
  ASSUME NEW v \in Nat, v <= 65535
  PROVE  ((v \div 256) \div 256) % 256 = 0
<1>1. v = 256 * (v \div 256) + (v % 256) /\ v \div 256 \in Nat /\ v % 256 \in Byte
  BY ByteOf
<1>2. PICK h : h = v \div 256
  OBVIOUS
<1>3. h \in Nat /\ h < 256
  BY <1>1, <1>2 DEF Byte
<1>4. h = 256 * (h \div 256) + (h % 256) /\ h \div 256 \in Nat /\ h % 256 \in Byte
  BY <1>3, ByteOf
<1>5. h \div 256 = 0
  BY <1>3, <1>4 DEF Byte
<1> QED BY <1>2, <1>5

LEMMA WordOfDigits ==
  ASSUME NEW s \in Seq(Byte), Len(s) = 3, s[1] = 0, NEW d, IsSeq(d), Len(d) = 2,
         d[1] = s[2], d[2] = s[3]
  PROVE  Word(d) = Word(s)
<1>1. IsSeq(s)
  BY DEF IsSeq
<1> DEFINE t == SubSeq(s, 1 + 1, Len(s))
<1>2. Word(t) = Word(s)
  <2>1. 1 \in 0 .. Len(s) /\ \A j \in 1 .. 1 : s[j] = 0
    OBVIOUS
  <2> QED BY <2>1, WordSuffix
<1>3. IsSeq(t) /\ Len(t) = 2 /\ \A i \in 1 .. 2 : t[i] = s[(2 + i) - 1]
  <2>1. t = SubSeq(s, 2, 3)
    OBVIOUS
  <2> HIDE DEF t
  <2>2. 3 <= Len(s) /\ (3 - 2) + 1 = 2 /\ 2 <= 3 + 1
    OBVIOUS
  <2>3. PICK a \in Nat, b \in Nat : a = 2 /\ b = 3
    OBVIOUS
  <2>4. a >= 1 /\ b <= Len(s) /\ a <= b + 1 /\ t = SubSeq(s, a, b)
    BY <2>1, <2>2, <2>3
  <2>5. IsSeq(t) /\ Len(t) = (b - a) + 1 /\ \A i \in 1 .. (b - a) + 1 : t[i] = s[(a + i) - 1]
    BY <1>1, <2>4, SubSeqIs
  <2> QED BY <2>2, <2>3, <2>5
<1> HIDE DEF t
<1>4. t[1] = s[2] /\ t[2] = s[3]
  <2>1. 1 \in 1 .. 2 /\ 2 \in 1 .. 2 /\ (2 + 1) - 1 = 2 /\ (2 + 2) - 1 = 3
    OBVIOUS
  <2> QED BY <1>3, <2>1
<1>5. \A i \in 1 .. Len(d) : d[i] = t[i]
  BY <1>4
<1>6. d = t
  BY <1>3, <1>5, SeqSame
<1> QED BY <1>2, <1>6

LEMMA WordOfTwo ==
  ASSUME NEW v \in Nat, v <= 65535, NEW d, IsSeq(d), Len(d) = 2,
         d[1] = (v \div 256) % 256, d[2] = v % 256
  PROVE  Word(d) = Num(v)
<1>1. PICK s : s = Digits(v)
  OBVIOUS
<1>2. /\ s \in Seq(Byte) /\ Len(s) = 3 /\ s[1] = ((v \div 256) \div 256) % 256
      /\ s[2] = (v \div 256) % 256 /\ s[3] = v % 256
  BY ONLY <1>1, v \in Nat, DigitsAre
<1>3. s[1] = 0
  BY <1>2, DigitsLow
<1>4. d[1] = s[2] /\ d[2] = s[3]
  BY <1>2
<1>5. Word(d) = Word(s)
  BY <1>2, <1>3, <1>4, WordOfDigits
<1> QED BY <1>1, <1>5 DEF Num

LEMMA SymbolData ==
  ASSUME NEW T, NEW j, Standing(T, j), NEW k, Now(T, j).op = PUSH1 + 1,
         IsSymbol(chosen, T[j]), k = KeyOf(Now(T, j))
  PROVE  /\ DataSize(Now(T, j).op) = 2 /\ Word(Data(2)) = Num(labels[k])
         /\ labels[k] \in Nat /\ labels[k] <= 65535
<1>1. Encoded(Now(T, j)) /\ j \in 1 .. Len(T) /\ stage = "run"
  BY StandingIs
<1>2. DataSize(Now(T, j).op) = 2
  BY <1>1 DEF Encoded, IsSymbol, Now
<1>3. /\ IsSeq(Data(2)) /\ Len(Data(2)) = 2
      /\ \A i \in 1 .. 2 : Data(2)[i] = contents[(T[j].at - prefix) + (1 + i)]
  <2>1. PICK n \in Nat : n = 2
    OBVIOUS
  <2>2. n = DataSize(Now(T, j).op)
    BY <1>2, <2>1
  <2>3. /\ IsSeq(Data(n)) /\ Len(Data(n)) = n
        /\ \A i \in 1 .. n : Data(n)[i] = contents[(T[j].at - prefix) + (1 + i)]
    BY <2>2, DataIs
  <2> QED BY <2>1, <2>3
<1>4. Patched(chosen, prefix, contents, labels, T[j])
  <2>1. Output(T)
    BY DEF Standing, Tape
  <2>2. fixups = << >>
    BY <1>1, <2>1 DEF Output
  <2>3. ~Waiting(chosen, prefix, fixups, T[j])
    BY <2>2, EmptyIs DEF Waiting
  <2> QED BY <1>1, <2>1, <2>3 DEF Output
<1>5. /\ labels[k] \in Nat /\ labels[k] <= 65535
      /\ contents[(T[j].at - prefix) + 2] = (labels[k] \div 256) % 256
      /\ contents[(T[j].at - prefix) + 3] = labels[k] % 256
  BY <1>4 DEF Patched, Now
<1>6. Data(2)[1] = contents[(T[j].at - prefix) + 2] /\ Data(2)[2] = contents[(T[j].at - prefix) + 3]
  <2>1. 1 \in 1 .. 2 /\ 2 \in 1 .. 2 /\ 1 + 1 = 2 /\ 1 + 2 = 3
    OBVIOUS
  <2> QED BY <1>3, <2>1
<1>7. Word(Data(2)) = Num(labels[k])
  BY <1>3, <1>5, <1>6, WordOfTwo
<1> QED BY <1>2, <1>5, <1>7

(* One result: the next item, a stack and the memory.                      *)
Gives(T, j, s, m) == Results = {Result(Behind(T, j), s, m)}

Dups == DUP1 .. DUP1 + 15
Swaps == SWAP1 .. SWAP1 + 15
Singles == {CALLDATASIZE, POP, JUMPDEST, GETPC, ADD, SUB, MLOAD, MSTORE, JUMP, JUMPI}

LEMMA OpsDiffer ==
  /\ \A o \in Singles : ~IsPush(o) /\ o \notin Dups /\ o \notin Swaps
  /\ \A o \in Dups : ~IsPush(o) /\ o \notin Singles /\ o \notin Swaps
  /\ \A o \in Swaps : ~IsPush(o) /\ o \notin Singles /\ o \notin Dups
  /\ \A o : IsPush(o) => o \notin Singles /\ o \notin Dups /\ o \notin Swaps
BY DEF Dups, Swaps, Singles, IsPush, PUSH1, PUSH32, DUP1, SWAP1, CALLDATASIZE, POP, JUMPDEST, GETPC, ADD, SUB, MLOAD, MSTORE, JUMP, JUMPI

LEMMA SinglesDiffer ==
  /\ CALLDATASIZE # POP /\ CALLDATASIZE # JUMPDEST /\ CALLDATASIZE # GETPC /\ CALLDATASIZE # ADD /\ CALLDATASIZE # SUB /\ CALLDATASIZE # MLOAD /\ CALLDATASIZE # MSTORE /\ CALLDATASIZE # JUMP /\ CALLDATASIZE # JUMPI
  /\ POP # JUMPDEST /\ POP # GETPC /\ POP # ADD /\ POP # SUB /\ POP # MLOAD /\ POP # MSTORE /\ POP # JUMP /\ POP # JUMPI
  /\ JUMPDEST # GETPC /\ JUMPDEST # ADD /\ JUMPDEST # SUB /\ JUMPDEST # MLOAD /\ JUMPDEST # MSTORE /\ JUMPDEST # JUMP /\ JUMPDEST # JUMPI
  /\ GETPC # ADD /\ GETPC # SUB /\ GETPC # MLOAD /\ GETPC # MSTORE /\ GETPC # JUMP /\ GETPC # JUMPI
  /\ ADD # SUB /\ ADD # MLOAD /\ ADD # MSTORE /\ ADD # JUMP /\ ADD # JUMPI
  /\ SUB # MLOAD /\ SUB # MSTORE /\ SUB # JUMP /\ SUB # JUMPI
  /\ MLOAD # MSTORE /\ MLOAD # JUMP /\ MLOAD # JUMPI
  /\ MSTORE # JUMP /\ MSTORE # JUMPI
  /\ JUMP # JUMPI
BY DEF CALLDATASIZE, POP, JUMPDEST, GETPC, ADD, SUB, MLOAD, MSTORE, JUMP, JUMPI

LEMMA OneByte ==
  ASSUME NEW T, NEW j, Standing(T, j), NEW o, Now(T, j) = Plain(o), ~IsPush(o)
  PROVE  Fetch = o /\ Behind(T, j) = pc + 1 /\ pc \in Nat
<1>1. Fetch = o
  BY StandingIs, PlainIs
<1>2. DataSize(o) = 0
  BY DEF DataSize
<1>3. Now(T, j).op = o
  BY PlainIs
<1> QED BY <1>1, <1>2, <1>3, StandingIs

LEMMA GivesNumber ==
  ASSUME NEW T, NEW j, Standing(T, j), NEW v, IsNumberPush(Now(T, j), v)
  PROVE  Gives(T, j, C(v, stack), mem)
<1>1. /\ DataSize(Now(T, j).op) = Width(Now(T, j)) /\ Width(Now(T, j)) \in Nat
      /\ Word(Data(Width(Now(T, j)))) = v
  BY NumberData
<1>2. Fetch = Now(T, j).op /\ pc \in Nat /\ Behind(T, j) = pc + 1 + DataSize(Now(T, j).op)
  BY StandingIs
<1>3. IsPush(Fetch)
  BY <1>2 DEF IsNumberPush, IsPush
<1>4. Fetch - PUSH1 + 1 = Width(Now(T, j))
  BY <1>2 DEF Width
<1>5. Results = {Result(pc + 1 + (Fetch - PUSH1 + 1), << Word(Data(Fetch - PUSH1 + 1)) >> \o stack, mem)}
  BY <1>3, OpsDiffer DEF Results, Dups, Swaps, Singles
<1> QED BY <1>1, <1>2, <1>4, <1>5 DEF Gives, C

LEMMA GivesSymbol ==
  ASSUME NEW T, NEW j, Standing(T, j), IsSymbol(chosen, T[j])
  PROVE  Gives(T, j, C(Num(labels[KeyOf(Now(T, j))]), stack), mem)
<1>1. Now(T, j).op = PUSH1 + 1
  BY DEF IsSymbol, IsSymbolPush, Now
<1>2. DataSize(Now(T, j).op) = 2 /\ Word(Data(2)) = Num(labels[KeyOf(Now(T, j))])
  BY <1>1, SymbolData
<1>3. Fetch = Now(T, j).op /\ pc \in Nat /\ Behind(T, j) = pc + 1 + DataSize(Now(T, j).op)
  BY StandingIs
<1>4. IsPush(Fetch) /\ Fetch - PUSH1 + 1 = 2
  BY <1>1, <1>3 DEF IsPush, PUSH1, PUSH32
<1>5. Results = {Result(pc + 1 + (Fetch - PUSH1 + 1), << Word(Data(Fetch - PUSH1 + 1)) >> \o stack, mem)}
  BY <1>4, OpsDiffer DEF Results, Dups, Swaps, Singles
<1> QED BY <1>2, <1>3, <1>4, <1>5 DEF Gives, C

LEMMA TopOne ==
  ASSUME NEW x, NEW s, IsSeq(s), stack = C(x, s)
  PROVE  Needs(1) /\ stack[1] = x /\ Val(1) = NumberOf(x) /\ Rest(1) = s
<1>1. Len(stack) = Len(s) + 1 /\ Len(s) \in Nat /\ stack[1] = x
  BY ConsIs
<1>2. Rest(1) = s
  BY ConsRest DEF Rest
<1> QED BY <1>1, <1>2 DEF Needs, Val

LEMMA TopTwo ==
  ASSUME NEW x, NEW y, NEW s, IsSeq(s), stack = C(x, C(y, s))
  PROVE  /\ Needs(2) /\ stack[1] = x /\ stack[2] = y /\ Rest(2) = s
         /\ Val(1) = NumberOf(x) /\ Val(2) = NumberOf(y)
<1>1. IsSeq(C(y, s)) /\ Len(C(y, s)) = Len(s) + 1 /\ Len(s) \in Nat /\ C(y, s)[1] = y
  BY ConsIs
<1>2. /\ Len(stack) = Len(C(y, s)) + 1 /\ stack[1] = x
      /\ \A i \in 1 .. Len(C(y, s)) : stack[i + 1] = C(y, s)[i]
  BY <1>1, ConsIs
<1>3. stack[1 + 1] = y
  <2>1. 1 \in 1 .. Len(C(y, s))
    BY <1>1
  <2> QED BY <1>1, <1>2, <2>1
<1>4. stack[2] = y /\ Needs(2)
  BY <1>1, <1>2, <1>3 DEF Needs
<1>5. Rest(2) = s
  BY ConsRestTwo DEF Rest
<1> QED BY <1>2, <1>4, <1>5 DEF Val

LEMMA GivesAdd ==
  ASSUME NEW T, NEW j, Standing(T, j), Now(T, j) = Plain(ADD),
         NEW x, NEW y, NEW s, IsSeq(s), stack = C(x, C(y, s))
  PROVE  Gives(T, j, C(Num(NumberOf(x) + NumberOf(y)), s), mem)
<1>1. ADD \in Singles
  BY DEF Singles
<1>2. Fetch = ADD /\ Behind(T, j) = pc + 1 /\ pc \in Nat
  BY <1>1, OneByte, OpsDiffer
<1>3. /\ Needs(2) /\ stack[2] = y /\ Rest(2) = s
      /\ Val(1) = NumberOf(x) /\ Val(2) = NumberOf(y)
  BY TopTwo
<1>4. Results = {Result(pc + 1, << Num(Val(1) + Val(2)) >> \o Rest(2), mem)}
  BY <1>1, <1>2, <1>3, OpsDiffer, SinglesDiffer DEF Results, Dups, Swaps
<1> QED BY <1>2, <1>3, <1>4 DEF Gives, C

LEMMA GivesSub ==
  ASSUME NEW T, NEW j, Standing(T, j), Now(T, j) = Plain(SUB),
         NEW x, NEW y, NEW s, IsSeq(s), stack = C(x, C(y, s)), NumberOf(x) >= NumberOf(y)
  PROVE  Gives(T, j, C(Num(NumberOf(x) - NumberOf(y)), s), mem)
<1>1. SUB \in Singles
  BY DEF Singles
<1>2. Fetch = SUB /\ Behind(T, j) = pc + 1 /\ pc \in Nat
  BY <1>1, OneByte, OpsDiffer
<1>3. /\ Needs(2) /\ stack[2] = y /\ Rest(2) = s
      /\ Val(1) = NumberOf(x) /\ Val(2) = NumberOf(y)
  BY TopTwo
<1>4. Results = {Result(pc + 1, << Num(Val(1) - Val(2)) >> \o Rest(2), mem)}
  BY <1>1, <1>2, <1>3, OpsDiffer, SinglesDiffer DEF Results, Dups, Swaps
<1> QED BY <1>2, <1>3, <1>4 DEF Gives, C

LEMMA GivesStore ==
  ASSUME NEW T, NEW j, Standing(T, j), Now(T, j) = Plain(MSTORE),
         NEW x, NEW y, NEW s, IsSeq(s), stack = C(x, C(y, s))
  PROVE  Gives(T, j, s, Written(mem, NumberOf(x), y))
<1>1. MSTORE \in Singles
  BY DEF Singles
<1>2. Fetch = MSTORE /\ Behind(T, j) = pc + 1 /\ pc \in Nat
  BY <1>1, OneByte, OpsDiffer
<1>3. /\ Needs(2) /\ stack[2] = y /\ Rest(2) = s
      /\ Val(1) = NumberOf(x) /\ Val(2) = NumberOf(y)
  BY TopTwo
<1>4. Results = {Result(pc + 1, Rest(2), Written(mem, Val(1), stack[2]))}
  BY <1>1, <1>2, <1>3, OpsDiffer, SinglesDiffer DEF Results, Dups, Swaps
<1> QED BY <1>2, <1>3, <1>4 DEF Gives, C

LEMMA GivesLoad ==
  ASSUME NEW T, NEW j, Standing(T, j), Now(T, j) = Plain(MLOAD),
         NEW x, NEW s, IsSeq(s), stack = C(x, s)
  PROVE  Gives(T, j, C(MLoad(mem, NumberOf(x)), s), mem)
<1>1. MLOAD \in Singles
  BY DEF Singles
<1>2. Fetch = MLOAD /\ Behind(T, j) = pc + 1 /\ pc \in Nat
  BY <1>1, OneByte, OpsDiffer
<1>3. Needs(1) /\ Val(1) = NumberOf(x) /\ Rest(1) = s
  BY TopOne
<1>4. Results = {Result(pc + 1, << MLoad(mem, Val(1)) >> \o Rest(1), mem)}
  BY <1>1, <1>2, <1>3, OpsDiffer, SinglesDiffer DEF Results, Dups, Swaps
<1> QED BY <1>2, <1>3, <1>4 DEF Gives, C

LEMMA GivesPop ==
  ASSUME NEW T, NEW j, Standing(T, j), Now(T, j) = Plain(POP),
         NEW x, NEW s, IsSeq(s), stack = C(x, s)
  PROVE  Gives(T, j, s, mem)
<1>1. POP \in Singles
  BY DEF Singles
<1>2. Fetch = POP /\ Behind(T, j) = pc + 1 /\ pc \in Nat
  BY <1>1, OneByte, OpsDiffer
<1>3. Needs(1) /\ Val(1) = NumberOf(x) /\ Rest(1) = s
  BY TopOne
<1>4. Results = {Result(pc + 1, Rest(1), mem)}
  BY <1>1, <1>2, <1>3, OpsDiffer, SinglesDiffer DEF Results, Dups, Swaps
<1> QED BY <1>2, <1>3, <1>4 DEF Gives, C

LEMMA GivesDest ==
  ASSUME NEW T, NEW j, Standing(T, j), Now(T, j) = Plain(JUMPDEST)
  PROVE  Gives(T, j, stack, mem)
<1>1. JUMPDEST \in Singles
  BY DEF Singles
<1>2. Fetch = JUMPDEST /\ Behind(T, j) = pc + 1 /\ pc \in Nat
  BY <1>1, OneByte, OpsDiffer
<1>3. Results = {Result(pc + 1, stack, mem)}
  BY <1>1, <1>2, OpsDiffer, SinglesDiffer DEF Results, Dups, Swaps
<1> QED BY <1>2, <1>3 DEF Gives, C

LEMMA GivesPc ==
  ASSUME NEW T, NEW j, Standing(T, j), Now(T, j) = Plain(GETPC)
  PROVE  Gives(T, j, C(Num(pc), stack), mem)
<1>1. GETPC \in Singles
  BY DEF Singles
<1>2. Fetch = GETPC /\ Behind(T, j) = pc + 1 /\ pc \in Nat
  BY <1>1, OneByte, OpsDiffer
<1>3. Results = {Result(pc + 1, << Num(pc) >> \o stack, mem)}
  BY <1>1, <1>2, OpsDiffer, SinglesDiffer DEF Results, Dups, Swaps
<1> QED BY <1>2, <1>3 DEF Gives, C

LEMMA GivesInput ==
  ASSUME NEW T, NEW j, Standing(T, j), Now(T, j) = Plain(CALLDATASIZE)
  PROVE  Results = { Result(Behind(T, j), C(w, stack), mem) : w \in Inputs }
<1>1. CALLDATASIZE \in Singles
  BY DEF Singles
<1>2. Fetch = CALLDATASIZE /\ Behind(T, j) = pc + 1 /\ pc \in Nat
  BY <1>1, OneByte, OpsDiffer
<1>3. Results = { Result(pc + 1, << w >> \o stack, mem) : w \in Inputs }
  BY <1>1, <1>2, OpsDiffer, SinglesDiffer DEF Results, Dups, Swaps
<1> QED BY <1>2, <1>3 DEF C

LEMMA GivesDup ==
  ASSUME NEW T, NEW j, Standing(T, j), NEW n \in 1 .. 16, Now(T, j) = Plain(DUP1 + n - 1),
         Len(stack) >= n
  PROVE  Gives(T, j, C(stack[n], stack), mem)
<1>1. DUP1 + n - 1 \in Dups /\ (DUP1 + n - 1) - DUP1 + 1 = n
  BY DEF Dups, DUP1
<1>2. Fetch = DUP1 + n - 1 /\ Behind(T, j) = pc + 1 /\ pc \in Nat
  BY <1>1, OneByte, OpsDiffer
<1>3. Fetch - DUP1 + 1 = n /\ Fetch \in Dups
  BY <1>1, <1>2
<1>4. Needs(Fetch - DUP1 + 1)
  BY <1>3 DEF Needs
<1>5. Results = {Result(pc + 1, << stack[Fetch - DUP1 + 1] >> \o stack, mem)}
  BY <1>3, <1>4, OpsDiffer DEF Results, Dups, Swaps, Singles
<1> QED BY <1>2, <1>3, <1>5 DEF Gives, C

LEMMA GivesSwap ==
  ASSUME NEW T, NEW j, Standing(T, j), NEW n \in 1 .. 16, Now(T, j) = Plain(SWAP1 + n - 1),
         Len(stack) >= n + 1
  PROVE  Gives(T, j, [stack EXCEPT ![1] = stack[n + 1], ![n + 1] = stack[1]], mem)
<1>1. SWAP1 + n - 1 \in Swaps /\ (SWAP1 + n - 1) - SWAP1 + 2 = n + 1
  BY DEF Swaps, SWAP1
<1>2. Fetch = SWAP1 + n - 1 /\ Behind(T, j) = pc + 1 /\ pc \in Nat
  BY <1>1, OneByte, OpsDiffer
<1>3. Fetch - SWAP1 + 2 = n + 1 /\ Fetch \in Swaps
  BY <1>1, <1>2
<1>4. Needs(Fetch - SWAP1 + 2)
  BY <1>3 DEF Needs
<1>5. Results = {Result(pc + 1, [stack EXCEPT ![1] = stack[Fetch - SWAP1 + 2],
                                              ![Fetch - SWAP1 + 2] = stack[1]], mem)}
  BY <1>3, <1>4, OpsDiffer DEF Results, Dups, Swaps, Singles
<1> QED BY <1>2, <1>3, <1>5 DEF Gives

LEMMA GivesJump ==
  ASSUME NEW T, NEW j, Standing(T, j), Now(T, j) = Plain(JUMP),
         NEW x, NEW s, IsSeq(s), stack = C(x, s), NumberOf(x) \in dests
  PROVE  Results = {Result(NumberOf(x), s, mem)}
<1>1. JUMP \in Singles
  BY DEF Singles
<1>2. Fetch = JUMP
  BY <1>1, OneByte, OpsDiffer
<1>3. Needs(1) /\ Val(1) = NumberOf(x) /\ Rest(1) = s
  BY TopOne
<1>4. Results = {Jump(Val(1), Rest(1))}
  BY <1>1, <1>2, <1>3, OpsDiffer, SinglesDiffer DEF Results, Dups, Swaps
<1> QED BY <1>3, <1>4 DEF Jump

LEMMA GivesJumpIf ==
  ASSUME NEW T, NEW j, Standing(T, j), Now(T, j) = Plain(JUMPI),
         NEW x, NEW y, NEW s, IsSeq(s), stack = C(x, C(y, s)), NumberOf(x) \in dests
  PROVE  /\ y = << >> => Gives(T, j, s, mem)
         /\ y # << >> => Results = {Result(NumberOf(x), s, mem)}
<1>1. JUMPI \in Singles
  BY DEF Singles
<1>2. Fetch = JUMPI /\ Behind(T, j) = pc + 1 /\ pc \in Nat
  BY <1>1, OneByte, OpsDiffer
<1>3. Needs(2) /\ stack[2] = y /\ Rest(2) = s /\ Val(1) = NumberOf(x)
  BY TopTwo
<1>4. Results = {IF stack[2] = << >> THEN Result(pc + 1, Rest(2), mem)
                 ELSE Jump(Val(1), Rest(2))}
  BY <1>1, <1>2, <1>3, OpsDiffer, SinglesDiffer DEF Results, Dups, Swaps
<1> QED BY <1>2, <1>3, <1>4 DEF Jump, Gives

(* The functions active when the source instruction is completed.          *)
NextFrames(e, m) ==
  IF SourceInstr.op = pJUMPSUB
  THEN Append(frames, [f |-> e.p[1], fp |-> NumberOf(MLoad(m, FPAddr))])
  ELSE IF SourceInstr.op = pRETURNSUB THEN SubSeq(frames, 1, Len(frames) - 1)
  ELSE frames

(* The machine comes to the item x with stack s and memory m.              *)
Arrives(T, x, s, m) ==
  /\ pc' = T[x].at /\ stack' = s /\ mem' = m /\ status' = "running"
  /\ dests' = dests /\ UNCHANGED emitVars
  /\ T[x].q = 1 => /\ frames' = NextFrames(T[x], m)
                   /\ seen'.pos = T[x].p /\ seen'.stack = s /\ seen'.mem = m
  /\ T[x].q # 1 => UNCHANGED <<frames, seen>>

LEMMA OriginAt ==
  ASSUME NEW T, Tape(T), NEW x \in 1 .. Len(T)
  PROVE  /\ T[x].at \in DOMAIN origin <=> T[x].q = 1
         /\ T[x].q = 1 => origin[T[x].at] = T[x].p
<1>1. OriginOK(T, origin) /\ Layout(T, chosen, prefix, Here) /\ chosen \in Operands
  BY DEF Tape, Output, Static
<1>2. T[x].q = 1 => T[x].at \in DOMAIN origin /\ origin[T[x].at] = T[x].p
  BY <1>1 DEF OriginOK
<1>3. ASSUME T[x].at \in DOMAIN origin PROVE T[x].q = 1
  <2>1. PICK y \in 1 .. Len(T) : T[y].at = T[x].at /\ T[y].q = 1
    BY <1>1, <1>3 DEF OriginOK
  <2>2. /\ EntryOK(chosen, T[x]) /\ EntryOK(chosen, T[y]) /\ Len(T) \in Nat
        /\ x < y => T[x].at + Sz(chosen, T[x]) <= T[y].at
        /\ y < x => T[y].at + Sz(chosen, T[y]) <= T[x].at
    BY <1>1, SeqFacts DEF Layout
  <2>3. /\ T[x].at \in Nat /\ T[y].at \in Nat
        /\ Sz(chosen, T[x]) \in Nat /\ Sz(chosen, T[x]) > 0
        /\ Sz(chosen, T[y]) \in Nat /\ Sz(chosen, T[y]) > 0
    BY <1>1, <2>2, EntryIs DEF EntryOK
  <2>4. x = y \/ x < y \/ y < x
    BY <2>2
  <2>5. ~(x < y) /\ ~(y < x)
    BY <2>1, <2>2, <2>3
  <2> QED BY <2>1, <2>4, <2>5
<1> QED BY <1>2, <1>3

LEMMA ArriveAny ==
  ASSUME NEW T, NEW j, Standing(T, j), Execute, NEW x \in 1 .. Len(T),
         \A r \in Results : \E s, m : r = Result(T[x].at, s, m)
  PROVE  \E s, m : Result(T[x].at, s, m) \in Results /\ Arrives(T, x, s, m)
<1>1. PICK r \in Results :
        IF Faults(r)
        THEN /\ status' = "fault"
             /\ UNCHANGED <<pc, stack, mem, frames, seen>>
        ELSE /\ pc' = r.pc /\ stack' = r.stack /\ mem' = r.mem
             /\ UNCHANGED status
             /\ IF r.pc \in DOMAIN origin
                THEN /\ frames' = FramesAfter(r)
                     /\ seen' = [pos |-> origin[r.pc], stack |-> r.stack, mem |-> r.mem,
                                 got |-> IF SourceInstr.op = pGETLOCAL
                                         THEN NumberOf(r.stack[1]) ELSE seen.got]
                ELSE UNCHANGED <<frames, seen>>
  BY DEF Execute
<1>2. dests' = dests /\ UNCHANGED emitVars
  BY DEF Execute
<1>3. PICK s, m : r = Result(T[x].at, s, m)
  BY <1>1
<1>4. r.pc = T[x].at /\ r.stack = s /\ r.mem = m
  BY <1>3 DEF Result
<1>5. Image(T) /\ Tape(T) /\ status = "running"
  BY StandingIs DEF Standing
<1>6. T[x].at \in Nat
  BY <1>5, FetchAt
<1>7. ~Faults(r)
  BY <1>4, <1>6 DEF Faults
<1>8. pc' = T[x].at /\ stack' = s /\ mem' = m /\ status' = "running"
  BY <1>1, <1>4, <1>5, <1>7
<1>9. T[x].q # 1 => UNCHANGED <<frames, seen>>
  BY <1>1, <1>4, <1>5, <1>7, OriginAt
<1>10. ASSUME T[x].q = 1
       PROVE  /\ frames' = NextFrames(T[x], m)
              /\ seen'.pos = T[x].p /\ seen'.stack = s /\ seen'.mem = m
  <2>1. T[x].at \in DOMAIN origin /\ origin[T[x].at] = T[x].p
    BY <1>5, <1>10, OriginAt
  <2>2. /\ frames' = FramesAfter(r)
        /\ seen' = [pos |-> origin[r.pc], stack |-> r.stack, mem |-> r.mem,
                    got |-> IF SourceInstr.op = pGETLOCAL
                            THEN NumberOf(r.stack[1]) ELSE seen.got]
    BY <1>1, <1>4, <1>7, <2>1
  <2>3. seen'.pos = T[x].p /\ seen'.stack = s /\ seen'.mem = m
    BY <1>4, <2>1, <2>2
  <2>4. FramesAfter(r) = NextFrames(T[x], m)
    BY <1>4, <2>1, PseudosDiffer DEF FramesAfter, NextFrames
  <2> QED BY <2>2, <2>3, <2>4
<1>11. Arrives(T, x, s, m)
  BY <1>2, <1>8, <1>9, <1>10 DEF Arrives
<1> QED BY <1>1, <1>3, <1>11

LEMMA ArriveOne ==
  ASSUME NEW T, NEW j, Standing(T, j), Execute, NEW x \in 1 .. Len(T), NEW s, NEW m,
         Results = {Result(T[x].at, s, m)}
  PROVE  Arrives(T, x, s, m)
<1>1. PICK t, n : Result(T[x].at, t, n) \in Results /\ Arrives(T, x, t, n)
  BY ArriveAny
<1>2. Result(T[x].at, t, n) = Result(T[x].at, s, m)
  BY <1>1
<1>3. t = s /\ n = m
  <2>1. Result(T[x].at, t, n).stack = Result(T[x].at, s, m).stack
    BY <1>2
  <2>2. Result(T[x].at, t, n).mem = Result(T[x].at, s, m).mem
    BY <1>2
  <2> QED BY <2>1, <2>2 DEF Result
<1> QED BY <1>1, <1>3

(* The item that comes next.                                               *)
LEMMA NextItem ==
  ASSUME NEW T, NEW j, Standing(T, j), T[j].q < Len(Final(chosen, T[j].p))
  PROVE  /\ j + 1 \in 1 .. Len(T) /\ T[j + 1].p = T[j].p /\ T[j + 1].q = T[j].q + 1
         /\ Behind(T, j) = T[j + 1].at
<1>1. /\ Image(T) /\ stage = "run" /\ j \in 1 .. Len(T) /\ EntryOK(chosen, T[j])
      /\ Behind(T, j) = IF j < Len(T) THEN T[j + 1].at ELSE End
  BY StandingIs
<1>2. Len(T) \in Nat /\ Layout(T, chosen, prefix, prefix + Len(contents)) /\ chosen \in Operands
  BY <1>1 DEF Image
<1>3. T[j].q \in Nat /\ Len(Final(chosen, T[j].p)) \in Nat
  BY <1>1, <1>2, EntryAt
<1>4. j # Len(T)
  <2>1. Ends(T) /\ stage # "emit"
    BY <1>1 DEF Standing, Tape
  <2>2. Len(T) # 0 => T[Len(T)].q = Len(Final(chosen, T[Len(T)].p))
    BY <2>1 DEF Ends, InBlockEnd, BetweenBlocks
  <2>3. Len(T) # 0
    BY <1>1, <1>2
  <2> QED BY <1>3, <2>2, <2>3
<1>5. j \in 1 .. Len(T) - 1 /\ j + 1 \in 1 .. Len(T) /\ j < Len(T)
  BY <1>1, <1>2, <1>4
<1>6. Follows(chosen, T[j], T[j + 1])
  BY <1>2, <1>5 DEF Layout
<1> QED BY <1>1, <1>5, <1>6 DEF Follows

LEMMA NextSource ==
  ASSUME NEW T, NEW j, Standing(T, j), T[j].q = Len(Final(chosen, T[j].p)), ~IsLast(T[j].p)
  PROVE  /\ j + 1 \in 1 .. Len(T) /\ T[j + 1].p = Blk!After(T[j].p) /\ T[j + 1].q = 1
         /\ Behind(T, j) = T[j + 1].at
<1>1. /\ Image(T) /\ stage = "run" /\ j \in 1 .. Len(T) /\ EntryOK(chosen, T[j])
      /\ Behind(T, j) = IF j < Len(T) THEN T[j + 1].at ELSE End
  BY StandingIs
<1>2. Len(T) \in Nat /\ Layout(T, chosen, prefix, prefix + Len(contents)) /\ chosen \in Operands
  BY <1>1 DEF Image
<1>3. T[j].q \in Nat /\ Len(Final(chosen, T[j].p)) \in Nat
  BY <1>1, <1>2, EntryAt
<1>4. j # Len(T)
  <2>1. Ends(T) /\ stage # "emit"
    BY <1>1 DEF Standing, Tape
  <2>2. Len(T) # 0 => IsLast(T[Len(T)].p)
    BY <2>1 DEF Ends, InBlockEnd, BetweenBlocks
  <2>3. Len(T) # 0
    BY <1>1, <1>2
  <2> QED BY <2>2, <2>3
<1>5. j \in 1 .. Len(T) - 1 /\ j + 1 \in 1 .. Len(T) /\ j < Len(T)
  BY <1>1, <1>2, <1>4
<1>6. Follows(chosen, T[j], T[j + 1])
  BY <1>2, <1>5 DEF Layout
<1>7. ~(T[j].q < Len(Final(chosen, T[j].p)))
  BY <1>3
<1> QED BY <1>1, <1>5, <1>6, <1>7 DEF Follows

Loaded(T) == Tape(T) /\ Loading(T) /\ status # "loading"

LEMMA LoadedIs ==
  ASSUME NEW T, Loaded(T)
  PROVE  Image(T) /\ stage = "run" /\ stage \in Done /\ Marked(T, Len(T) + 1)
<1>1. Image(T)
  BY ImageIs DEF Loaded
<1>2. stage = "run" /\ Marked(T, Len(T) + 1)
  BY DEF Loaded, Loading
<1> QED BY <1>1, <1>2, StagesDiffer

LEMMA StartIs ==
  ASSUME NEW f \in DOMAIN Program, NEW b \in 1 .. Len(Blks(f))
  PROVE  /\ Blk!StartOf(f, b) \in Positions /\ Blk!StartOf(f, b)[1] = f
         /\ Blk!StartOf(f, b)[3] = 1
<1>1. b = Len(Blks(f)) => 1 <= Size(f, b)
  BY FunctionIs DEF Size
<1>2. /\ Blk!Settle(f, b, 1) \in Positions /\ Blk!Settle(f, b, 1)[1] = f
      /\ Blk!Settle(f, b, 1)[3] = 1
  <2>1. PICK i \in Nat \ {0} : i = 1
    OBVIOUS
  <2>2. b = Len(Blks(f)) => i <= Size(f, b)
    BY <1>1, <2>1
  <2> QED BY <2>1, <2>2, SettleIn
<1> QED BY <1>2 DEF Blk!StartOf

(* A label is the place of a JUMPDEST the machine has marked.              *)
LEMMA LabelDest ==
  ASSUME NEW T, Loaded(T), NEW f \in DOMAIN Program, NEW b \in 1 .. Len(Blks(f))
  PROVE  /\ labels[<<f, b>>] \in dests /\ labels[<<f, b>>] \in Nat /\ labels[<<f, b>>] < End
         /\ \E x \in 1 .. Len(T) :
              T[x].p = Blk!StartOf(f, b) /\ T[x].q = 1 /\ T[x].at = labels[<<f, b>>]
<1>1. Image(T) /\ stage \in Done /\ Marked(T, Len(T) + 1) /\ Tape(T)
  BY LoadedIs DEF Loaded
<1>2. PlacedAt(T, labels[<<f, b>>], f, b)
  BY <1>1, AllPlaced
<1>3. PICK x \in 1 .. Len(T) :
        T[x].p = Blk!StartOf(f, b) /\ T[x].q = 1 /\ T[x].at = labels[<<f, b>>]
  BY <1>2 DEF PlacedAt
<1>4. T[x].p[3] = 1
  BY <1>3, StartIs
<1>5. EntryOK(chosen, T[x]) /\ T[x].at \in Nat /\ T[x].at < End
  BY <1>1, FetchAt
<1>6. chosen \in Operands /\ Len(T) \in Nat
  BY <1>1 DEF Image
<1>7. Off(T[x].p) = 1
  BY <1>4 DEF Off
<1>8. ItemOf(chosen, T[x]) = Plain(JUMPDEST)
  <2>1. T[x].q <= Off(T[x].p)
    BY <1>3, <1>7
  <2> QED BY <1>5, <1>6, <2>1, EntryAt
<1>9. IsDest(T[x])
  BY <1>8, PlainIs DEF IsDest
<1>10. x \in 1 .. (Len(T) + 1) - 1
  BY <1>6
<1>11. T[x].at \in dests
  BY <1>1, <1>9, <1>10 DEF Marked
<1> QED BY <1>3, <1>5, <1>11

(* So is a return address; it belongs to the call it was made for.         *)
LEMMA BackDest ==
  ASSUME NEW T, Loaded(T), NEW p \in DOMAIN back
  PROVE  /\ back[p] \in dests /\ back[p] \in Nat /\ back[p] < End
         /\ p \in Positions /\ SrcAt(p).op = pJUMPSUB
         /\ \E x \in 1 .. Len(T) :
              T[x].p = p /\ T[x].q = Off(p) + 21 /\ T[x].at = back[p]
<1>1. Image(T) /\ Marked(T, Len(T) + 1) /\ Tape(T) /\ BackOK(T, chosen, back)
  BY LoadedIs DEF Loaded, Tape, Output
<1>2. PICK x \in 1 .. Len(T) : T[x].p = p /\ IsBack(chosen, T[x])
  BY <1>1 DEF BackOK
<1>3. back[p] = T[x].at
  BY <1>1, <1>2 DEF BackOK
<1>4. EntryOK(chosen, T[x]) /\ T[x].at \in Nat /\ T[x].at < End /\ chosen \in Operands /\ Len(T) \in Nat
  BY <1>1, FetchAt DEF Image
<1>5. Src(chosen, p).op = pJUMPSUB /\ T[x].q = Off(p) + 21
  BY <1>2, <1>4, BackIs
<1>6. SrcAt(p).op = pJUMPSUB
  BY <1>5 DEF Src, MI
<1>7. x \in 1 .. (Len(T) + 1) - 1
  BY <1>4
<1>8. T[x].at \in dests
  BY <1>1, <1>2, <1>7 DEF Marked, IsBack, IsDest
<1>9. p \in Positions
  BY <1>2, <1>4 DEF EntryOK
<1> QED BY <1>2, <1>3, <1>4, <1>5, <1>6, <1>8, <1>9

LEMMA FollowItem ==
  ASSUME NEW T, Loaded(T), NEW j \in 1 .. Len(T), T[j].q < Len(Final(chosen, T[j].p))
  PROVE  /\ j + 1 \in 1 .. Len(T) /\ T[j + 1].p = T[j].p /\ T[j + 1].q = T[j].q + 1
         /\ T[j + 1].at = T[j].at + Sz(chosen, T[j])
<1>1. Image(T) /\ stage = "run" /\ EntryOK(chosen, T[j])
  BY LoadedIs, FetchAt
<1>2. Len(T) \in Nat /\ Layout(T, chosen, prefix, prefix + Len(contents)) /\ chosen \in Operands
  BY <1>1 DEF Image
<1>3. T[j].q \in Nat /\ Len(Final(chosen, T[j].p)) \in Nat
  BY <1>1, <1>2, EntryAt
<1>4. j # Len(T)
  <2>1. Ends(T) /\ stage # "emit"
    BY <1>1 DEF Loaded, Tape
  <2>2. Len(T) # 0 => T[Len(T)].q = Len(Final(chosen, T[Len(T)].p))
    BY <2>1 DEF Ends, InBlockEnd, BetweenBlocks
  <2>3. Len(T) # 0
    BY <1>2
  <2> QED BY <1>3, <2>2, <2>3
<1>5. j \in 1 .. Len(T) - 1 /\ j + 1 \in 1 .. Len(T)
  BY <1>2, <1>4
<1>6. Follows(chosen, T[j], T[j + 1]) /\ T[j + 1].at = T[j].at + Sz(chosen, T[j])
  BY <1>2, <1>5 DEF Layout
<1> QED BY <1>5, <1>6 DEF Follows

(* Instructions other than the open constant are what the program says.    *)
LEMMA SrcOp ==
  ASSUME NEW p, NEW ch
  PROVE  /\ Src(ch, p).op = SrcAt(p).op
         /\ SrcAt(p).arg.kind # "open" => Src(ch, p) = SrcAt(p)
BY DEF Src, MI

LEMMA NotOpen ==
  ASSUME NEW p \in Positions, SrcAt(p).op # PUSH32, NEW ch
  PROVE  Src(ch, p) = SrcAt(p)
<1>1. SrcAt(p) \in Instructions(p[1])
  BY FunctionIs DEF Positions, SrcAt
<1>2. SrcAt(p).arg.kind # "open"
  BY <1>1 DEF Instructions, NoOperand, Count, Symbol
<1> QED BY <1>2, SrcOp

CallAt(e, n) ==
  /\ n \in 1 .. 16 /\ SrcAt(e.p).arg = Count(n) /\ Src(chosen, e.p) = SrcAt(e.p)
  /\ e.p[1] \in DOMAIN Program /\ Len(Final(chosen, e.p)) = Off(e.p) + 29
  /\ CallTable(Shrunk(SrcAt(e.p), e.p[1]), n, e.p[1])
  /\ e.q > Off(e.p) => /\ e.q - Off(e.p) \in 1 .. 29
                       /\ ItemOf(chosen, e) = Shrunk(SrcAt(e.p), e.p[1])[e.q - Off(e.p)]
  /\ Off(e.p) \in {0, 1} /\ e.q \in Nat /\ e.q > 0

LEMMA CallIs ==
  ASSUME chosen \in Operands, NEW e, EntryOK(chosen, e), SrcAt(e.p).op = pJUMPSUB
  PROVE  \E n \in 1 .. 16 : CallAt(e, n)
<1> DEFINE m == Src(chosen, e.p)
           f == e.p[1]
           s == Shrunk(m, f)
<1>1. e.p \in Positions
  BY DEF EntryOK
<1>2. m = SrcAt(e.p)
  <2>1. SrcAt(e.p).op # PUSH32
    <3>1. pJUMPSUB # PUSH32
      BY DEF pJUMPSUB, PUSH32
    <3> QED BY <3>1
  <2> QED BY <1>1, <2>1, NotOpen
<1>3. /\ f \in DOMAIN Program /\ IsSource(m, f) /\ Off(e.p) \in {0, 1} /\ e.q \in Nat /\ e.q > 0
      /\ Len(Final(chosen, e.p)) = Off(e.p) + Len(s)
      /\ e.q > Off(e.p) => e.q - Off(e.p) \in 1 .. Len(s) /\ ItemOf(chosen, e) = s[e.q - Off(e.p)]
  BY EntryAt
<1>4. IsCounted(m)
  <2>1. m.op = pJUMPSUB
    BY <1>2
  <2>2. m.op \notin {CALLDATASIZE, POP, pRETURNSUB, STOP, PUSH32, pGETLOCAL, pPUTLOCAL, pJUMPTO, pJUMPIF}
    <3>1. pJUMPSUB \notin {CALLDATASIZE, POP, pRETURNSUB, STOP, PUSH32, pGETLOCAL, pPUTLOCAL, pJUMPTO, pJUMPIF}
      BY DEF CALLDATASIZE, POP, STOP, PUSH32, pRETURNSUB, pGETLOCAL, pPUTLOCAL, pJUMPTO, pJUMPIF, pJUMPSUB
    <3> QED BY <2>1, <3>1
  <2> QED BY <1>3, <2>2 DEF IsSource, IsConst, IsAddress, IsSimple, IsLocal, IsJump
<1>5. PICK n \in 1 .. 16 : m.arg = Count(n)
  BY <1>4 DEF IsCounted
<1>6. Len(s) = 29 /\ CallTable(s, n, f)
  BY <1>2, <1>3, <1>5, CallCode
<1> HIDE DEF s
<1>7. CallAt(e, n)
  BY <1>2, <1>3, <1>5, <1>6 DEF CallAt, s
<1> QED BY <1>7

LEMMA ReturnAddress ==
  ASSUME NEW T, Loaded(T), NEW j \in 1 .. Len(T), SrcAt(T[j].p).op = pJUMPSUB,
         T[j].q = Off(T[j].p) + 17
  PROVE  T[j].p \in DOMAIN back /\ back[T[j].p] = T[j].at + 4
<1> DEFINE p == T[j].p
           z == Off(p)
           s == Shrunk(SrcAt(p), p[1])
<1>1. Image(T) /\ EntryOK(chosen, T[j]) /\ chosen \in Operands /\ T[j].at \in Nat
  BY LoadedIs, FetchAt DEF Image
<1>2. PICK n \in 1 .. 16 : CallAt(T[j], n)
  BY <1>1, CallIs
<1>3. Len(Final(chosen, p)) = z + 29 /\ z \in {0, 1} /\ CallTable(s, n, p[1])
  BY <1>2 DEF CallAt
<1>4. ASSUME NEW i \in 1 .. Len(T), NEW k \in 17 .. 20, T[i].p = p, T[i].q = z + k
      PROVE  /\ i + 1 \in 1 .. Len(T) /\ T[i + 1].p = p /\ T[i + 1].q = z + (k + 1)
             /\ T[i + 1].at = T[i].at + 1
  <2>1. T[i].q < Len(Final(chosen, T[i].p))
    BY <1>3, <1>4
  <2>2. /\ i + 1 \in 1 .. Len(T) /\ T[i + 1].p = T[i].p /\ T[i + 1].q = T[i].q + 1
        /\ T[i + 1].at = T[i].at + Sz(chosen, T[i])
    BY <2>1, FollowItem
  <2>3. EntryOK(chosen, T[i]) /\ Sz(chosen, T[i]) = 1 + DataSize(ItemOf(chosen, T[i]).op)
    BY <1>1, FetchAt
  <2>4. PICK l \in 1 .. 16 : CallAt(T[i], l)
    BY <1>1, <1>4, <2>3, CallIs
  <2>5. T[i].q > Off(T[i].p) /\ T[i].q - Off(T[i].p) = k
    BY <1>3, <1>4
  <2>6. ItemOf(chosen, T[i]) = s[k] /\ CallTable(s, l, p[1])
    BY <1>4, <2>4, <2>5 DEF CallAt
  <2>7. \E o : s[k] = Plain(o) /\ ~IsPush(o)
    <3>1. CASE k = 17
      BY <2>6, <3>1, PlainOps DEF CallTable
    <3>2. CASE k = 18
      BY <2>6, <3>2, PlainOps DEF CallTable
    <3>3. CASE k = 19
      <4>1. SWAP1 + l - 1 \in SWAP1 .. SWAP1 + 15
        BY DEF SWAP1
      <4> QED BY <2>6, <3>3, <4>1, PlainOps DEF CallTable
    <3>4. CASE k = 20
      BY <2>6, <3>4, PlainOps DEF CallTable
    <3> QED BY <3>1, <3>2, <3>3, <3>4
  <2>8. DataSize(ItemOf(chosen, T[i]).op) = 0
    BY <2>6, <2>7, PlainIs DEF DataSize
  <2>9. T[i].q + 1 = z + (k + 1)
    BY <1>3, <1>4
  <2> QED BY <1>4, <2>2, <2>3, <2>8, <2>9
<1> HIDE DEF p, z, s
<1>5. T[j].p = p /\ T[j].q = z + 17
  BY DEF p, z
<1>6. j + 1 \in 1 .. Len(T) /\ T[j + 1].p = p /\ T[j + 1].q = z + 18 /\ T[j + 1].at = T[j].at + 1
  BY <1>4, <1>5
<1>7. PICK a : a = j + 1
  OBVIOUS
<1>8. a + 1 \in 1 .. Len(T) /\ T[a + 1].p = p /\ T[a + 1].q = z + 19 /\ T[a + 1].at = T[a].at + 1
  BY <1>4, <1>6, <1>7
<1>9. PICK b : b = a + 1
  OBVIOUS
<1>10. b + 1 \in 1 .. Len(T) /\ T[b + 1].p = p /\ T[b + 1].q = z + 20 /\ T[b + 1].at = T[b].at + 1
  BY <1>4, <1>8, <1>9
<1>11. PICK c : c = b + 1
  OBVIOUS
<1>12. c + 1 \in 1 .. Len(T) /\ T[c + 1].p = p /\ T[c + 1].q = z + 21 /\ T[c + 1].at = T[c].at + 1
  BY <1>4, <1>10, <1>11
<1>13. PICK d : d = c + 1
  OBVIOUS
<1>14. d \in 1 .. Len(T) /\ T[d].p = p /\ T[d].q = z + 21 /\ T[d].at = T[j].at + 4
  <2>1. d \in 1 .. Len(T) /\ T[d].p = p /\ T[d].q = z + 21 /\ T[d].at = T[c].at + 1
    BY <1>12, <1>13
  <2>2. T[c].at = T[b].at + 1 /\ T[b].at = T[a].at + 1 /\ T[a].at = T[j].at + 1
    BY <1>6, <1>7, <1>8, <1>9, <1>10, <1>11
  <2> QED BY <1>1, <2>1, <2>2
<1>15. EntryOK(chosen, T[d])
  BY <1>1, <1>14, FetchAt
<1>16. Src(chosen, p).op = pJUMPSUB
  BY SrcOp DEF p
<1>17. IsBack(chosen, T[d])
  <2>1. Src(chosen, T[d].p).op = pJUMPSUB /\ T[d].q = Off(T[d].p) + 21
    BY <1>14, <1>16 DEF z
  <2> QED BY <1>1, <1>15, <2>1, BackIs
<1>18. BackOK(T, chosen, back)
  BY DEF Loaded, Tape, Output
<1>19. p \in DOMAIN back /\ back[p] = T[d].at
  BY <1>14, <1>17, <1>18 DEF BackOK
<1> QED BY <1>14, <1>19 DEF p

(* The n-th of s becomes x.                                                *)
Put(s, n, x) == [s EXCEPT ![n] = x]

LEMMA ExceptIs ==
  ASSUME NEW s, IsSeq(s), NEW n \in 1 .. Len(s), NEW x, NEW t, t = Put(s, n, x)
  PROVE  /\ IsSeq(t) /\ Len(t) = Len(s) /\ t[n] = x
         /\ \A i \in 1 .. Len(s) : i # n => t[i] = s[i]
<1>1. Len(s) \in Nat /\ DOMAIN s = 1 .. Len(s)
  BY SeqFacts
<1>2. PICK X : s \in Seq(X)
  BY DEF IsSeq
<1>3. s = [i \in 1 .. Len(s) |-> s[i]]
  BY <1>2
<1>4. t = [i \in 1 .. Len(s) |-> t[i]]
  BY <1>1, <1>3 DEF Put
<1>5. t[n] = x /\ \A i \in 1 .. Len(s) : i # n => t[i] = s[i]
  BY <1>1, <1>3 DEF Put
<1>6. IsSeq(t) /\ Len(t) = Len(s)
  BY <1>1, <1>4, SeqFunction
<1> QED BY <1>5, <1>6

(* A SWAP exchanges the top with the n-th below it.                        *)
LEMMA SwapIs ==
  ASSUME NEW x, NEW s, IsSeq(s), NEW n \in 1 .. Len(s)
  PROVE  [C(x, s) EXCEPT ![1] = C(x, s)[n + 1], ![n + 1] = C(x, s)[1]]
           = C(s[n], [s EXCEPT ![n] = x])
<1> DEFINE u == C(x, s)
           v == [s EXCEPT ![n] = x]
           w == C(s[n], v)
<1>1. /\ IsSeq(u) /\ Len(u) = Len(s) + 1 /\ Len(s) \in Nat /\ u[1] = x
      /\ \A i \in 1 .. Len(s) : u[i + 1] = s[i]
  BY ConsIs
<1>2. IsSeq(v) /\ Len(v) = Len(s) /\ v[n] = x /\ \A i \in 1 .. Len(s) : i # n => v[i] = s[i]
  <2>1. v = Put(s, n, x)
    BY DEF Put
  <2> HIDE DEF v
  <2> QED BY <2>1, ExceptIs
<1> HIDE DEF u, v
<1>3. /\ IsSeq(w) /\ Len(w) = Len(s) + 1 /\ w[1] = s[n]
      /\ \A i \in 1 .. Len(s) : w[i + 1] = v[i]
  BY <1>2, ConsIs
<1> HIDE DEF w
<1>4. 1 \in 1 .. Len(u) /\ n + 1 \in 1 .. Len(u) /\ n + 1 # 1
  BY <1>1
<1>41. PICK a, b : a = 1 /\ b = n + 1
  OBVIOUS
<1>42. a \in 1 .. Len(u) /\ b \in 1 .. Len(u) /\ a # b
  BY <1>4, <1>41
<1>43. PICK y : y = Put(u, a, u[b])
  OBVIOUS
<1>44. PICK z : z = Put(y, b, u[a])
  OBVIOUS
<1>5. IsSeq(y) /\ Len(y) = Len(u) /\ y[1] = u[n + 1] /\ \A i \in 1 .. Len(u) : i # 1 => y[i] = u[i]
  <2>1. IsSeq(y) /\ Len(y) = Len(u) /\ y[a] = u[b] /\ \A i \in 1 .. Len(u) : i # a => y[i] = u[i]
    <3>1. PICK c : c = u[b]
      OBVIOUS
    <3>2. y = Put(u, a, c)
      BY <1>43, <3>1
    <3> QED BY <1>1, <1>42, <3>1, <3>2, ExceptIs, SMTT(30)
  <2> QED BY <1>41, <2>1
<1>6. z = [u EXCEPT ![1] = u[n + 1], ![n + 1] = u[1]]
  BY <1>41, <1>43, <1>44 DEF Put
<1>7. IsSeq(z) /\ Len(z) = Len(y) /\ z[n + 1] = u[1] /\ \A i \in 1 .. Len(y) : i # n + 1 => z[i] = y[i]
  <2>1. b \in 1 .. Len(y)
    BY <1>5, <1>42
  <2>2. IsSeq(z) /\ Len(z) = Len(y) /\ z[b] = u[a] /\ \A i \in 1 .. Len(y) : i # b => z[i] = y[i]
    BY <1>5, <1>44, <2>1, ExceptIs
  <2> QED BY <1>41, <2>2
<1>8. ASSUME NEW i \in 1 .. Len(z) PROVE z[i] = w[i]
  <2>1. CASE i = 1
    BY <1>1, <1>3, <1>4, <1>5, <1>7, <2>1
  <2>2. CASE i # 1
    <3>1. PICK k : k = i - 1
      OBVIOUS
    <3>2. k \in 1 .. Len(s) /\ i = k + 1 /\ i \in 1 .. Len(u) /\ i \in 1 .. Len(y)
      BY <1>1, <1>5, <1>7, <2>2, <3>1
    <3>3. w[i] = v[k] /\ u[i] = s[k]
      BY <1>1, <1>3, <3>2
    <3>4. CASE k = n
      BY <1>1, <1>2, <1>7, <3>2, <3>3, <3>4
    <3>5. CASE k # n
      <4>1. i # n + 1
        BY <3>2, <3>5
      <4> QED BY <1>2, <1>5, <1>7, <2>2, <3>2, <3>3, <3>5, <4>1
    <3> QED BY <3>4, <3>5
  <2> QED BY <2>1, <2>2
<1>9. z = w
  BY <1>1, <1>3, <1>5, <1>7, <1>8, SeqSame
<1> QED BY <1>6, <1>9 DEF u, v, w

LEMMA TopReplaced ==
  ASSUME NEW x, NEW y, NEW s, IsSeq(s)
  PROVE  [C(y, s) EXCEPT ![1] = x] = C(x, s)
<1> DEFINE u == C(y, s)
           w == C(x, s)
           z == [u EXCEPT ![1] = x]
<1>1. /\ IsSeq(u) /\ Len(u) = Len(s) + 1 /\ Len(s) \in Nat
      /\ \A i \in 1 .. Len(s) : u[i + 1] = s[i]
  BY ConsIs
<1>2. /\ IsSeq(w) /\ Len(w) = Len(s) + 1 /\ w[1] = x
      /\ \A i \in 1 .. Len(s) : w[i + 1] = s[i]
  BY ConsIs
<1> HIDE DEF u, w
<1>3. 1 \in 1 .. Len(u)
  BY <1>1
<1>4. IsSeq(z) /\ Len(z) = Len(u) /\ z[1] = x /\ \A i \in 1 .. Len(u) : i # 1 => z[i] = u[i]
  <2>1. PICK a : a = 1
    OBVIOUS
  <2>2. a \in 1 .. Len(u) /\ z = Put(u, a, x)
    BY <1>3, <2>1 DEF Put
  <2> HIDE DEF z
  <2>3. IsSeq(z) /\ Len(z) = Len(u) /\ z[a] = x /\ \A i \in 1 .. Len(u) : i # a => z[i] = u[i]
    BY <1>1, <2>2, ExceptIs
  <2> QED BY <2>1, <2>3
<1> HIDE DEF z
<1>5. ASSUME NEW i \in 1 .. Len(z) PROVE z[i] = w[i]
  <2>1. CASE i = 1
    BY <1>2, <1>4, <2>1
  <2>2. CASE i # 1
    <3>1. PICK k : k = i - 1
      OBVIOUS
    <3>2. k \in 1 .. Len(s) /\ i = k + 1 /\ i \in 1 .. Len(u)
      BY <1>1, <1>4, <2>2, <3>1
    <3> QED BY <1>1, <1>2, <1>4, <2>2, <3>2
  <2> QED BY <2>1, <2>2
<1>6. z = w
  BY <1>1, <1>2, <1>4, <1>5, SeqSame
<1> QED BY <1>6 DEF z, u, w

LEMMA SwapTop ==
  ASSUME NEW x, NEW y, NEW s, IsSeq(s)
  PROVE  LET u == C(x, C(y, s))
         IN  [u EXCEPT ![1] = u[1 + 1], ![1 + 1] = u[1]] = C(y, C(x, s))
<1> DEFINE t == C(y, s)
<1>1. IsSeq(t) /\ Len(t) = Len(s) + 1 /\ Len(s) \in Nat /\ t[1] = y
  BY ConsIs
<1>2. [t EXCEPT ![1] = x] = C(x, s)
  BY TopReplaced
<1> HIDE DEF t
<1>3. PICK n : n = 1
  OBVIOUS
<1>4. n \in 1 .. Len(t)
  BY <1>1, <1>3
<1>5. [C(x, t) EXCEPT ![1] = C(x, t)[n + 1], ![n + 1] = C(x, t)[1]] = C(t[n], [t EXCEPT ![n] = x])
  BY <1>1, <1>4, SwapIs
<1> QED BY <1>1, <1>2, <1>3, <1>5 DEF t

LEMMA LoadWritten ==
  ASSUME NEW m, NEW a, NEW v, NEW b
  PROVE  MLoad(Written(m, a, v), b) = IF b = a THEN v ELSE MLoad(m, b)
BY DEF MLoad, Written

(* The frame, its save slot and the next frame can be addressed.           *)
SaveAt(f) == 32 * SaveIndex(f)
Room(f, fp) ==
  /\ f \in DOMAIN Program /\ fp \in Nat /\ FPAddr + 64 <= fp /\ fp + NextAt(f) < Limit

LEMMA RoomIs ==
  ASSUME NEW f, NEW fp, Room(f, fp)
  PROVE  /\ f \in DOMAIN Program /\ fp \in Nat /\ FPAddr \in Nat
         /\ SaveAt(f) \in Nat /\ NextAt(f) \in Nat /\ NextAt(f) = SaveAt(f) + 32
         /\ fp # FPAddr /\ fp + SaveAt(f) # FPAddr /\ fp >= 32
         /\ fp + SaveAt(f) = (fp + NextAt(f)) - 32
         /\ fp + SaveAt(f) # FPAddr + 32 /\ FPAddr # FPAddr + 32
         /\ fp + SaveAt(f) \in Nat /\ fp + NextAt(f) \in Nat /\ FPAddr + 32 \in Nat
<1>1. FPAddr \in Nat /\ SaveIndex(f) \in Nat /\ SaveIndex(f) > 0
  BY SourceAddresses DEF Room
<1>2. fp \in Nat /\ FPAddr + 64 <= fp /\ f \in DOMAIN Program
  BY DEF Room
<1> QED BY <1>1, <1>2 DEF SaveAt, NextAt

LEMMA RoomNumbers ==
  ASSUME NEW f, NEW fp, Room(f, fp)
  PROVE  /\ NumberOf(Num(FPAddr)) = FPAddr /\ NumberOf(Num(FPAddr + 32)) = FPAddr + 32
         /\ NumberOf(Num(fp)) = fp /\ NumberOf(Num(SaveAt(f))) = SaveAt(f)
         /\ NumberOf(Num(NextAt(f))) = NextAt(f)
         /\ NumberOf(Num(fp + SaveAt(f))) = fp + SaveAt(f)
         /\ NumberOf(Num(fp + NextAt(f))) = fp + NextAt(f)
         /\ NumberOf(Num(32)) = 32 /\ NumberOf(Num(4)) = 4
         /\ NumberOf(Num(fp - 32)) = fp - 32
<1>1. /\ fp \in Nat /\ FPAddr \in Nat /\ SaveAt(f) \in Nat /\ NextAt(f) \in Nat
      /\ NextAt(f) = SaveAt(f) + 32
  BY RoomIs
<1>2. FPAddr + 64 <= fp /\ fp + NextAt(f) < Limit
  BY DEF Room
<1>3. Limit \in Nat
  BY DEF Limit
<1>4. ASSUME NEW n \in Nat, n <= fp + NextAt(f) PROVE NumberOf(Num(n)) = n
  <2>1. n < Limit
    BY <1>1, <1>2, <1>3, <1>4
  <2> QED BY <2>1, NumberOfNum
<1>5. /\ FPAddr <= fp + NextAt(f) /\ FPAddr + 32 <= fp + NextAt(f) /\ FPAddr + 32 \in Nat
      /\ fp <= fp + NextAt(f) /\ SaveAt(f) <= fp + NextAt(f) /\ NextAt(f) <= fp + NextAt(f)
      /\ fp + SaveAt(f) <= fp + NextAt(f) /\ fp + SaveAt(f) \in Nat /\ fp + NextAt(f) \in Nat
      /\ fp + NextAt(f) <= fp + NextAt(f) /\ 32 <= fp + NextAt(f) /\ 4 <= fp + NextAt(f)
      /\ fp - 32 \in Nat /\ fp - 32 <= fp + NextAt(f)
  BY <1>1, <1>2
<1>6. NumberOf(Num(FPAddr)) = FPAddr /\ NumberOf(Num(FPAddr + 32)) = FPAddr + 32
  BY <1>1, <1>4, <1>5
<1>7. NumberOf(Num(fp)) = fp /\ NumberOf(Num(SaveAt(f))) = SaveAt(f) /\ NumberOf(Num(NextAt(f))) = NextAt(f)
  BY <1>1, <1>4, <1>5
<1>8. /\ NumberOf(Num(fp + SaveAt(f))) = fp + SaveAt(f)
      /\ NumberOf(Num(fp + NextAt(f))) = fp + NextAt(f)
  BY <1>4, <1>5
<1>9. NumberOf(Num(32)) = 32 /\ NumberOf(Num(4)) = 4 /\ NumberOf(Num(fp - 32)) = fp - 32
  BY <1>4, <1>5
<1> QED BY <1>6, <1>7, <1>8, <1>9

-----------------------------------------------------------------------------
(* Slots: the stack before each of the five items, S below.                *)
LocalRow(k, s, S, fp, d) ==
  /\ k = 1 => s = S
  /\ k = 2 => s = C(Num(FPAddr), S)
  /\ k = 3 => s = C(Num(fp), S)
  /\ k = 4 => s = C(Num(d), C(Num(fp), S))
  /\ k = 5 => s = C(Num(fp + d), S)

(* Calls.  Memory: the frame pointer saved, moved, and the stack pointer.  *)
Saved(M, f, fp) == Written(M, fp + SaveAt(f), Num(fp))
MovedFP(M, f, fp) == Written(Saved(M, f, fp), FPAddr, Num(fp + NextAt(f)))
MovedSP(M, f, fp) == Written(MovedFP(M, f, fp), FPAddr + 32, Num(fp + NextAt(f)))

SaveRow(k, s, m, S, M, f, fp) ==
  /\ k \in 1 .. 6 => m = M
  /\ k = 1 => s = S
  /\ k = 2 => s = C(Num(FPAddr), S)
  /\ k = 3 => s = C(Num(fp), S)
  /\ k = 4 => s = C(Num(fp), C(Num(fp), S))
  /\ k = 5 => s = C(Num(SaveAt(f)), C(Num(fp), C(Num(fp), S)))
  /\ k = 6 => s = C(Num(fp + SaveAt(f)), C(Num(fp), S))

MoveRow(k, s, m, S, M, f, fp) ==
  /\ k \in 7 .. 13 => m = Saved(M, f, fp)
  /\ k = 7 => s = S
  /\ k = 8 => s = C(Num(FPAddr), S)
  /\ k = 9 => s = C(Num(fp), S)
  /\ k = 10 => s = C(Num(NextAt(f)), C(Num(fp), S))
  /\ k = 11 => s = C(Num(fp + NextAt(f)), S)
  /\ k = 12 => s = C(Num(fp + NextAt(f)), C(Num(fp + NextAt(f)), S))
  /\ k = 13 => s = C(Num(FPAddr), C(Num(fp + NextAt(f)), C(Num(fp + NextAt(f)), S)))
  /\ k \in 14 .. 15 => m = MovedFP(M, f, fp)
  /\ k = 14 => s = C(Num(fp + NextAt(f)), S)
  /\ k = 15 => s = C(Num(FPAddr + 32), C(Num(fp + NextAt(f)), S))

(* The jump: bk is the return address, n the place of the callee's.        *)
JumpRow(k, s, m, S, M, f, fp, n, bk) ==
  /\ k \in 16 .. 20 => m = MovedSP(M, f, fp)
  /\ k = 16 => s = S
  /\ k = 17 => s = C(Num(4), S)
  /\ k = 18 => s = C(Num(bk - 4), C(Num(4), S))
  /\ k = 19 => s = C(Num(bk), S)
  /\ k = 20 => s = C(S[n], Put(S, n, Num(bk)))

CallRow(k, s, m, S, M, f, fp, n, bk) ==
  /\ SaveRow(k, s, m, S, M, f, fp) /\ MoveRow(k, s, m, S, M, f, fp)
  /\ JumpRow(k, s, m, S, M, f, fp, n, bk)

(* Behind a call: S is the stack without the return address.               *)
BackRow(k, s, m, S, M, fp) ==
  /\ m = M
  /\ k = 21 => s = S
  /\ k = 22 => s = S
  /\ k = 23 => s = C(Num(FPAddr), S)
  /\ k = 24 => s = C(Num(fp), S)
  /\ k = 25 => s = C(Num(32), C(Num(fp), S))
  /\ k = 26 => s = C(Num(fp), C(Num(32), S))
  /\ k = 27 => s = C(Num(fp - 32), S)
  /\ k = 28 => s = C(MLoad(M, fp - 32), S)
  /\ k = 29 => s = C(Num(FPAddr), C(MLoad(M, fp - 32), S))

LEMMA GivesPush ==
  ASSUME NEW T, NEW j, Standing(T, j), NEW n \in Nat, Now(T, j) = N(n)
  PROVE  Gives(T, j, C(Num(n), stack), mem)
BY PushShrinks, GivesNumber

(* The machine is inside the code of a call; t are its items.              *)
Calling(T, j, t, n, f, S, M, fp) ==
  /\ Standing(T, j) /\ n \in 1 .. 16 /\ CallTable(t, n, f)
  /\ IsSeq(S) /\ Len(S) >= n /\ Room(f, fp) /\ MLoad(M, FPAddr) = Num(fp)

LEMMA GivesDupTop ==
  ASSUME NEW T, NEW j, Standing(T, j), Now(T, j) = Plain(DUP1),
         NEW x, NEW s, IsSeq(s), stack = C(x, s)
  PROVE  Gives(T, j, C(x, C(x, s)), mem)
<1>1. PICK n \in 1 .. 16 : n = 1
  OBVIOUS
<1>2. DUP1 + n - 1 = DUP1
  BY <1>1 DEF DUP1
<1>3. Len(stack) >= n /\ stack[n] = x
  BY <1>1, ConsIs
<1>4. Gives(T, j, C(stack[n], stack), mem)
  BY <1>2, <1>3, GivesDup
<1> QED BY <1>3, <1>4

LEMMA SaveMicro ==
  ASSUME NEW T, NEW j, NEW t, NEW n, NEW f, NEW S, NEW M, NEW fp, NEW bk \in Nat,
         Calling(T, j, t, n, f, S, M, fp), NEW k \in 1 .. 6, Now(T, j) = t[k],
         CallRow(k, stack, mem, S, M, f, fp, n, bk)
  PROVE  \E s, m : Gives(T, j, s, m) /\ CallRow(k + 1, s, m, S, M, f, fp, n, bk)
<1>1. Standing(T, j) /\ CallTable(t, n, f) /\ IsSeq(S) /\ Room(f, fp) /\ MLoad(M, FPAddr) = Num(fp)
  BY DEF Calling
<1>2. /\ FPAddr \in Nat /\ SaveAt(f) \in Nat /\ NextAt(f) \in Nat /\ fp \in Nat
      /\ fp + SaveAt(f) # FPAddr /\ FPAddr + 32 \in Nat /\ FPAddr # FPAddr + 32
  BY <1>1, RoomIs
<1>3. /\ NumberOf(Num(FPAddr)) = FPAddr /\ NumberOf(Num(FPAddr + 32)) = FPAddr + 32
      /\ NumberOf(Num(fp)) = fp /\ NumberOf(Num(SaveAt(f))) = SaveAt(f)
      /\ NumberOf(Num(NextAt(f))) = NextAt(f)
      /\ NumberOf(Num(fp + SaveAt(f))) = fp + SaveAt(f)
      /\ NumberOf(Num(4)) = 4
  BY <1>1, RoomNumbers
<1>4. ASSUME NEW x, NEW s, IsSeq(s) PROVE IsSeq(C(x, s))
  BY <1>4, ConsIs
<1>5. CASE k = 1
  <2>1. stack = S /\ mem = M
    BY <1>5 DEF CallRow, SaveRow
  <2>2. Now(T, j) = N(FPAddr)
    BY <1>1, <1>5 DEF CallTable, SaveAt, NextAt
  <2>3. Gives(T, j, C(Num(FPAddr), S), M)
    BY <1>1, <1>2, <2>1, <2>2, GivesPush
  <2>10. CallRow(k + 1, C(Num(FPAddr), S), M, S, M, f, fp, n, bk)
    BY <1>5 DEF CallRow, SaveRow, MoveRow, JumpRow
  <2> QED BY <2>3, <2>10
<1>6. CASE k = 2
  <2>1. stack = C(Num(FPAddr), S) /\ mem = M
    BY <1>6 DEF CallRow, SaveRow
  <2>2. Now(T, j) = Plain(MLOAD)
    BY <1>1, <1>6 DEF CallTable
  <2>3. MLoad(mem, FPAddr) = Num(fp)
    BY <1>1, <1>2, <2>1
  <2>4. Gives(T, j, C(MLoad(mem, NumberOf(Num(FPAddr))), S), mem)
    BY <1>1, <2>1, <2>2, GivesLoad
  <2>5. Gives(T, j, C(Num(fp), S), M)
    BY <1>3, <2>1, <2>3, <2>4
  <2>10. CallRow(k + 1, C(Num(fp), S), M, S, M, f, fp, n, bk)
    BY <1>6 DEF CallRow, SaveRow, MoveRow, JumpRow
  <2> QED BY <2>5, <2>10
<1>7. CASE k = 3
  <2>1. stack = C(Num(fp), S) /\ mem = M
    BY <1>7 DEF CallRow, SaveRow
  <2>2. Now(T, j) = Plain(DUP1)
    BY <1>1, <1>7 DEF CallTable
  <2>3. Gives(T, j, C(Num(fp), C(Num(fp), S)), M)
    BY <1>1, <2>1, <2>2, GivesDupTop
  <2>10. CallRow(k + 1, C(Num(fp), C(Num(fp), S)), M, S, M, f, fp, n, bk)
    BY <1>7 DEF CallRow, SaveRow, MoveRow, JumpRow
  <2> QED BY <2>3, <2>10
<1>8. CASE k = 4
  <2>1. stack = C(Num(fp), C(Num(fp), S)) /\ mem = M
    BY <1>8 DEF CallRow, SaveRow
  <2>2. Now(T, j) = N(SaveAt(f))
    BY <1>1, <1>8 DEF CallTable, SaveAt, NextAt
  <2>3. Gives(T, j, C(Num(SaveAt(f)), C(Num(fp), C(Num(fp), S))), M)
    BY <1>1, <1>2, <2>1, <2>2, GivesPush
  <2>10. CallRow(k + 1, C(Num(SaveAt(f)), C(Num(fp), C(Num(fp), S))), M, S, M, f, fp, n, bk)
    BY <1>8 DEF CallRow, SaveRow, MoveRow, JumpRow
  <2> QED BY <2>3, <2>10
<1>9. CASE k = 5
  <2>1. stack = C(Num(SaveAt(f)), C(Num(fp), C(Num(fp), S))) /\ mem = M
    BY <1>9 DEF CallRow, SaveRow
  <2>2. Now(T, j) = Plain(ADD) /\ IsSeq(C(Num(fp), S))
    BY <1>1, <1>4, <1>9 DEF CallTable
  <2>3. Gives(T, j, C(Num(NumberOf(Num(SaveAt(f))) + NumberOf(Num(fp))), C(Num(fp), S)), mem)
    BY <1>1, <2>1, <2>2, GivesAdd
  <2>5. NumberOf(Num(SaveAt(f))) + NumberOf(Num(fp)) = fp + SaveAt(f)
    BY <1>2, <1>3
  <2>6. Gives(T, j, C(Num(fp + SaveAt(f)), C(Num(fp), S)), M)
    BY <2>1, <2>3, <2>5
  <2>10. CallRow(k + 1, C(Num(fp + SaveAt(f)), C(Num(fp), S)), M, S, M, f, fp, n, bk)
    BY <1>9 DEF CallRow, SaveRow, MoveRow, JumpRow
  <2> QED BY <2>6, <2>10
<1>10. CASE k = 6
  <2>1. stack = C(Num(fp + SaveAt(f)), C(Num(fp), S)) /\ mem = M
    BY <1>10 DEF CallRow, SaveRow
  <2>2. Now(T, j) = Plain(MSTORE) /\ IsSeq(S)
    BY <1>1, <1>4, <1>10 DEF CallTable
  <2>3. Gives(T, j, S, Written(mem, NumberOf(Num(fp + SaveAt(f))), Num(fp)))
    BY <1>1, <2>1, <2>2, GivesStore
  <2>4. Gives(T, j, S, Saved(M, f, fp))
    BY <1>3, <2>1, <2>3 DEF Saved
  <2>10. CallRow(k + 1, S, Saved(M, f, fp), S, M, f, fp, n, bk)
    BY <1>10 DEF CallRow, SaveRow, MoveRow, JumpRow
  <2> QED BY <2>4, <2>10
<1> QED BY <1>5, <1>6, <1>7, <1>8, <1>9, <1>10

LEMMA MoveMicro ==
  ASSUME NEW T, NEW j, NEW t, NEW n, NEW f, NEW S, NEW M, NEW fp, NEW bk \in Nat,
         Calling(T, j, t, n, f, S, M, fp), NEW k \in 7 .. 15, Now(T, j) = t[k],
         CallRow(k, stack, mem, S, M, f, fp, n, bk)
  PROVE  \E s, m : Gives(T, j, s, m) /\ CallRow(k + 1, s, m, S, M, f, fp, n, bk)
<1>1. Standing(T, j) /\ CallTable(t, n, f) /\ IsSeq(S) /\ Room(f, fp) /\ MLoad(M, FPAddr) = Num(fp)
  BY DEF Calling
<1>2. /\ FPAddr \in Nat /\ SaveAt(f) \in Nat /\ NextAt(f) \in Nat /\ fp \in Nat
      /\ fp + SaveAt(f) # FPAddr /\ FPAddr + 32 \in Nat /\ FPAddr # FPAddr + 32
  BY <1>1, RoomIs
<1>3. /\ NumberOf(Num(FPAddr)) = FPAddr /\ NumberOf(Num(FPAddr + 32)) = FPAddr + 32
      /\ NumberOf(Num(fp)) = fp /\ NumberOf(Num(SaveAt(f))) = SaveAt(f)
      /\ NumberOf(Num(NextAt(f))) = NextAt(f)
      /\ NumberOf(Num(fp + SaveAt(f))) = fp + SaveAt(f)
      /\ NumberOf(Num(4)) = 4
  BY <1>1, RoomNumbers
<1>4. ASSUME NEW x, NEW s, IsSeq(s) PROVE IsSeq(C(x, s))
  BY <1>4, ConsIs
<1>5. CASE k = 7
  <2>1. stack = S /\ mem = Saved(M, f, fp)
    BY <1>5 DEF CallRow, MoveRow
  <2>2. Now(T, j) = N(FPAddr)
    BY <1>1, <1>5 DEF CallTable, SaveAt, NextAt
  <2>3. Gives(T, j, C(Num(FPAddr), S), Saved(M, f, fp))
    BY <1>1, <1>2, <2>1, <2>2, GivesPush
  <2>10. CallRow(k + 1, C(Num(FPAddr), S), Saved(M, f, fp), S, M, f, fp, n, bk)
    BY <1>5 DEF CallRow, SaveRow, MoveRow, JumpRow
  <2> QED BY <2>3, <2>10
<1>6. CASE k = 8
  <2>1. stack = C(Num(FPAddr), S) /\ mem = Saved(M, f, fp)
    BY <1>6 DEF CallRow, MoveRow
  <2>2. Now(T, j) = Plain(MLOAD)
    BY <1>1, <1>6 DEF CallTable
  <2>3. MLoad(mem, FPAddr) = Num(fp)
    BY <1>1, <1>2, <2>1, LoadWritten DEF Saved
  <2>4. Gives(T, j, C(MLoad(mem, NumberOf(Num(FPAddr))), S), mem)
    BY <1>1, <2>1, <2>2, GivesLoad
  <2>5. Gives(T, j, C(Num(fp), S), Saved(M, f, fp))
    BY <1>3, <2>1, <2>3, <2>4
  <2>10. CallRow(k + 1, C(Num(fp), S), Saved(M, f, fp), S, M, f, fp, n, bk)
    BY <1>6 DEF CallRow, SaveRow, MoveRow, JumpRow
  <2> QED BY <2>5, <2>10
<1>7. CASE k = 9
  <2>1. stack = C(Num(fp), S) /\ mem = Saved(M, f, fp)
    BY <1>7 DEF CallRow, MoveRow
  <2>2. Now(T, j) = N(NextAt(f))
    BY <1>1, <1>7 DEF CallTable, SaveAt, NextAt
  <2>3. Gives(T, j, C(Num(NextAt(f)), C(Num(fp), S)), Saved(M, f, fp))
    BY <1>1, <1>2, <2>1, <2>2, GivesPush
  <2>10. CallRow(k + 1, C(Num(NextAt(f)), C(Num(fp), S)), Saved(M, f, fp), S, M, f, fp, n, bk)
    BY <1>7 DEF CallRow, SaveRow, MoveRow, JumpRow
  <2> QED BY <2>3, <2>10
<1>8. CASE k = 10
  <2>1. stack = C(Num(NextAt(f)), C(Num(fp), S)) /\ mem = Saved(M, f, fp)
    BY <1>8 DEF CallRow, MoveRow
  <2>2. Now(T, j) = Plain(ADD) /\ IsSeq(S)
    BY <1>1, <1>4, <1>8 DEF CallTable
  <2>3. Gives(T, j, C(Num(NumberOf(Num(NextAt(f))) + NumberOf(Num(fp))), S), mem)
    BY <1>1, <2>1, <2>2, GivesAdd
  <2>5. NumberOf(Num(NextAt(f))) + NumberOf(Num(fp)) = fp + NextAt(f)
    BY <1>2, <1>3
  <2>6. Gives(T, j, C(Num(fp + NextAt(f)), S), Saved(M, f, fp))
    BY <2>1, <2>3, <2>5
  <2>10. CallRow(k + 1, C(Num(fp + NextAt(f)), S), Saved(M, f, fp), S, M, f, fp, n, bk)
    BY <1>8 DEF CallRow, SaveRow, MoveRow, JumpRow
  <2> QED BY <2>6, <2>10
<1>9. CASE k = 11
  <2>1. stack = C(Num(fp + NextAt(f)), S) /\ mem = Saved(M, f, fp)
    BY <1>9 DEF CallRow, MoveRow
  <2>2. Now(T, j) = Plain(DUP1)
    BY <1>1, <1>9 DEF CallTable
  <2>3. Gives(T, j, C(Num(fp + NextAt(f)), C(Num(fp + NextAt(f)), S)), Saved(M, f, fp))
    BY <1>1, <2>1, <2>2, GivesDupTop
  <2>10. CallRow(k + 1, C(Num(fp + NextAt(f)), C(Num(fp + NextAt(f)), S)), Saved(M, f, fp), S, M, f, fp, n, bk)
    BY <1>9 DEF CallRow, SaveRow, MoveRow, JumpRow
  <2> QED BY <2>3, <2>10
<1>10. CASE k = 12
  <2>1. stack = C(Num(fp + NextAt(f)), C(Num(fp + NextAt(f)), S)) /\ mem = Saved(M, f, fp)
    BY <1>10 DEF CallRow, MoveRow
  <2>2. Now(T, j) = N(FPAddr)
    BY <1>1, <1>10 DEF CallTable, SaveAt, NextAt
  <2>3. Gives(T, j, C(Num(FPAddr), C(Num(fp + NextAt(f)), C(Num(fp + NextAt(f)), S))), Saved(M, f, fp))
    BY <1>1, <1>2, <2>1, <2>2, GivesPush
  <2>10. CallRow(k + 1, C(Num(FPAddr), C(Num(fp + NextAt(f)), C(Num(fp + NextAt(f)), S))), Saved(M, f, fp), S, M, f, fp, n, bk)
    BY <1>10 DEF CallRow, SaveRow, MoveRow, JumpRow
  <2> QED BY <2>3, <2>10
<1>11. CASE k = 13
  <2>1. stack = C(Num(FPAddr), C(Num(fp + NextAt(f)), C(Num(fp + NextAt(f)), S))) /\ mem = Saved(M, f, fp)
    BY <1>11 DEF CallRow, MoveRow
  <2>2. Now(T, j) = Plain(MSTORE) /\ IsSeq(C(Num(fp + NextAt(f)), S))
    BY <1>1, <1>4, <1>11 DEF CallTable
  <2>3. Gives(T, j, C(Num(fp + NextAt(f)), S), Written(mem, NumberOf(Num(FPAddr)), Num(fp + NextAt(f))))
    BY <1>1, <2>1, <2>2, GivesStore
  <2>4. Gives(T, j, C(Num(fp + NextAt(f)), S), MovedFP(M, f, fp))
    BY <1>3, <2>1, <2>3 DEF MovedFP
  <2>10. CallRow(k + 1, C(Num(fp + NextAt(f)), S), MovedFP(M, f, fp), S, M, f, fp, n, bk)
    BY <1>11 DEF CallRow, SaveRow, MoveRow, JumpRow
  <2> QED BY <2>4, <2>10
<1>12. CASE k = 14
  <2>1. stack = C(Num(fp + NextAt(f)), S) /\ mem = MovedFP(M, f, fp)
    BY <1>12 DEF CallRow, MoveRow
  <2>2. Now(T, j) = N(FPAddr + 32)
    BY <1>1, <1>12 DEF CallTable, SaveAt, NextAt
  <2>3. Gives(T, j, C(Num(FPAddr + 32), C(Num(fp + NextAt(f)), S)), MovedFP(M, f, fp))
    BY <1>1, <1>2, <2>1, <2>2, GivesPush
  <2>10. CallRow(k + 1, C(Num(FPAddr + 32), C(Num(fp + NextAt(f)), S)), MovedFP(M, f, fp), S, M, f, fp, n, bk)
    BY <1>12 DEF CallRow, SaveRow, MoveRow, JumpRow
  <2> QED BY <2>3, <2>10
<1>13. CASE k = 15
  <2>1. stack = C(Num(FPAddr + 32), C(Num(fp + NextAt(f)), S)) /\ mem = MovedFP(M, f, fp)
    BY <1>13 DEF CallRow, MoveRow
  <2>2. Now(T, j) = Plain(MSTORE) /\ IsSeq(S)
    BY <1>1, <1>4, <1>13 DEF CallTable
  <2>3. Gives(T, j, S, Written(mem, NumberOf(Num(FPAddr + 32)), Num(fp + NextAt(f))))
    BY <1>1, <2>1, <2>2, GivesStore
  <2>4. Gives(T, j, S, MovedSP(M, f, fp))
    BY <1>3, <2>1, <2>3 DEF MovedSP
  <2>10. CallRow(k + 1, S, MovedSP(M, f, fp), S, M, f, fp, n, bk)
    BY <1>13 DEF CallRow, SaveRow, MoveRow, JumpRow
  <2> QED BY <2>4, <2>10
<1> QED BY <1>5, <1>6, <1>7, <1>8, <1>9, <1>10, <1>11, <1>12, <1>13

LEMMA JumpMicro ==
  ASSUME NEW T, NEW j, NEW t, NEW n, NEW f, NEW S, NEW M, NEW fp, NEW bk \in Nat,
         Calling(T, j, t, n, f, S, M, fp), NEW k \in 16 .. 18, Now(T, j) = t[k],
         bk >= 4, bk < Limit, k = 17 => pc = bk - 4,
         CallRow(k, stack, mem, S, M, f, fp, n, bk)
  PROVE  \E s, m : Gives(T, j, s, m) /\ CallRow(k + 1, s, m, S, M, f, fp, n, bk)
<1>1. Standing(T, j) /\ CallTable(t, n, f) /\ IsSeq(S) /\ Room(f, fp) /\ MLoad(M, FPAddr) = Num(fp)
  BY DEF Calling
<1>2. /\ FPAddr \in Nat /\ SaveAt(f) \in Nat /\ NextAt(f) \in Nat /\ fp \in Nat
      /\ fp + SaveAt(f) # FPAddr /\ FPAddr + 32 \in Nat /\ FPAddr # FPAddr + 32
  BY <1>1, RoomIs
<1>3. /\ NumberOf(Num(FPAddr)) = FPAddr /\ NumberOf(Num(FPAddr + 32)) = FPAddr + 32
      /\ NumberOf(Num(fp)) = fp /\ NumberOf(Num(SaveAt(f))) = SaveAt(f)
      /\ NumberOf(Num(NextAt(f))) = NextAt(f)
      /\ NumberOf(Num(fp + SaveAt(f))) = fp + SaveAt(f)
      /\ NumberOf(Num(4)) = 4
  BY <1>1, RoomNumbers
<1>4. ASSUME NEW x, NEW s, IsSeq(s) PROVE IsSeq(C(x, s))
  BY <1>4, ConsIs
<1>5. CASE k = 16
  <2>1. stack = S /\ mem = MovedSP(M, f, fp)
    BY <1>5 DEF CallRow, JumpRow
  <2>2. IsNumberPush(Now(T, j), Num(4))
    BY <1>1, <1>5, FourIs DEF CallTable
  <2>3. Gives(T, j, C(Num(4), S), MovedSP(M, f, fp))
    BY <1>1, <2>1, <2>2, GivesNumber
  <2>10. CallRow(k + 1, C(Num(4), S), MovedSP(M, f, fp), S, M, f, fp, n, bk)
    BY <1>5 DEF CallRow, SaveRow, MoveRow, JumpRow
  <2> QED BY <2>3, <2>10
<1>6. CASE k = 17
  <2>1. stack = C(Num(4), S) /\ mem = MovedSP(M, f, fp)
    BY <1>6 DEF CallRow, JumpRow
  <2>2. Now(T, j) = Plain(GETPC)
    BY <1>1, <1>6 DEF CallTable
  <2>3. Gives(T, j, C(Num(bk - 4), C(Num(4), S)), MovedSP(M, f, fp))
    BY <1>1, <1>6, <2>1, <2>2, GivesPc
  <2>10. CallRow(k + 1, C(Num(bk - 4), C(Num(4), S)), MovedSP(M, f, fp), S, M, f, fp, n, bk)
    BY <1>6 DEF CallRow, SaveRow, MoveRow, JumpRow
  <2> QED BY <2>3, <2>10
<1>7. CASE k = 18
  <2>1. stack = C(Num(bk - 4), C(Num(4), S)) /\ mem = MovedSP(M, f, fp)
    BY <1>7 DEF CallRow, JumpRow
  <2>2. Now(T, j) = Plain(ADD) /\ IsSeq(S)
    BY <1>1, <1>4, <1>7 DEF CallTable
  <2>3. Gives(T, j, C(Num(NumberOf(Num(bk - 4)) + NumberOf(Num(4))), S), mem)
    BY <1>1, <2>1, <2>2, GivesAdd
  <2>4. bk - 4 \in Nat /\ bk - 4 < Limit /\ (bk - 4) + 4 = bk
    BY DEF Limit
  <2>5. NumberOf(Num(bk - 4)) + NumberOf(Num(4)) = bk
    BY <1>3, <2>4, NumberOfNum
  <2>6. Gives(T, j, C(Num(bk), S), MovedSP(M, f, fp))
    BY <2>1, <2>3, <2>5
  <2>10. CallRow(k + 1, C(Num(bk), S), MovedSP(M, f, fp), S, M, f, fp, n, bk)
    BY <1>7 DEF CallRow, SaveRow, MoveRow, JumpRow
  <2> QED BY <2>6, <2>10
<1> QED BY <1>5, <1>6, <1>7

LEMMA SwapMicro ==
  ASSUME NEW T, NEW j, NEW t, NEW n, NEW f, NEW S, NEW M, NEW fp, NEW bk,
         Calling(T, j, t, n, f, S, M, fp), NEW k, k = 19, Now(T, j) = t[k],
         CallRow(k, stack, mem, S, M, f, fp, n, bk)
  PROVE  \E s, m : Gives(T, j, s, m) /\ CallRow(k + 1, s, m, S, M, f, fp, n, bk)
<1>1. Standing(T, j) /\ CallTable(t, n, f) /\ IsSeq(S) /\ Len(S) >= n /\ n \in 1 .. 16
  BY DEF Calling
<1>2. stack = C(Num(bk), S) /\ mem = MovedSP(M, f, fp)
  BY DEF CallRow, JumpRow
<1>3. Now(T, j) = Plain(SWAP1 + n - 1)
  BY <1>1 DEF CallTable
<1>4. Len(stack) = Len(S) + 1 /\ Len(S) \in Nat
  BY <1>1, <1>2, ConsIs
<1>5. Len(stack) >= n + 1 /\ n \in 1 .. Len(S)
  BY <1>1, <1>4
<1>6. Gives(T, j, [stack EXCEPT ![1] = stack[n + 1], ![n + 1] = stack[1]], mem)
  BY <1>1, <1>3, <1>5, GivesSwap
<1>7. [stack EXCEPT ![1] = stack[n + 1], ![n + 1] = stack[1]] = C(S[n], Put(S, n, Num(bk)))
  BY <1>1, <1>2, <1>5, SwapIs DEF Put
<1>8. Gives(T, j, C(S[n], Put(S, n, Num(bk))), MovedSP(M, f, fp))
  BY <1>2, <1>6, <1>7
<1>9. CallRow(k + 1, C(S[n], Put(S, n, Num(bk))), MovedSP(M, f, fp), S, M, f, fp, n, bk)
  BY DEF CallRow, SaveRow, MoveRow, JumpRow
<1> QED BY <1>8, <1>9

LEMMA CallMicro ==
  ASSUME NEW T, NEW j, NEW t, NEW n, NEW f, NEW S, NEW M, NEW fp, NEW bk \in Nat,
         Calling(T, j, t, n, f, S, M, fp), NEW k \in 1 .. 19, Now(T, j) = t[k],
         k >= 17 => bk >= 4 /\ bk < Limit, k = 17 => pc = bk - 4,
         CallRow(k, stack, mem, S, M, f, fp, n, bk)
  PROVE  \E s, m : Gives(T, j, s, m) /\ CallRow(k + 1, s, m, S, M, f, fp, n, bk)
<1>1. CASE k \in 1 .. 6
  BY <1>1, SaveMicro
<1>2. CASE k \in 7 .. 15
  BY <1>2, MoveMicro
<1>3. CASE k \in 17 .. 18
  <2>1. k \in 16 .. 18 /\ bk >= 4 /\ bk < Limit
    BY <1>3
  <2> QED BY <2>1, JumpMicro
<1>4. CASE k = 16
  <2>1. Standing(T, j) /\ CallTable(t, n, f) /\ IsSeq(S)
    BY DEF Calling
  <2>2. stack = S /\ mem = MovedSP(M, f, fp)
    BY <1>4 DEF CallRow, JumpRow
  <2>3. IsNumberPush(Now(T, j), Num(4))
    BY <1>4, <2>1, FourIs DEF CallTable
  <2>4. Gives(T, j, C(Num(4), S), MovedSP(M, f, fp))
    BY <2>1, <2>2, <2>3, GivesNumber
  <2>5. CallRow(k + 1, C(Num(4), S), MovedSP(M, f, fp), S, M, f, fp, n, bk)
    BY <1>4 DEF CallRow, SaveRow, MoveRow, JumpRow
  <2> QED BY <2>4, <2>5
<1>5. CASE k = 19
  BY <1>5, SwapMicro
<1>6. k \in 1 .. 6 \/ k \in 7 .. 15 \/ k = 16 \/ k \in 17 .. 18 \/ k = 19
  OBVIOUS
<1> QED BY <1>1, <1>2, <1>3, <1>4, <1>5, <1>6

LEMMA BackMicro ==
  ASSUME NEW T, NEW j, Standing(T, j), NEW t, NEW n, NEW f, CallTable(t, n, f),
         NEW S, IsSeq(S), NEW M, NEW g, NEW fp, Room(g, fp), MLoad(M, FPAddr) = Num(fp),
         NEW k \in 21 .. 28, Now(T, j) = t[k], BackRow(k, stack, mem, S, M, fp)
  PROVE  \E s : Gives(T, j, s, M) /\ BackRow(k + 1, s, M, S, M, fp)
<1>1. mem = M
  BY DEF BackRow
<1>2. FPAddr \in Nat /\ fp \in Nat /\ fp >= 32
  BY RoomIs
<1>3. /\ NumberOf(Num(FPAddr)) = FPAddr /\ NumberOf(Num(fp)) = fp
      /\ NumberOf(Num(32)) = 32 /\ NumberOf(Num(fp - 32)) = fp - 32
  BY RoomNumbers
<1>4. ASSUME NEW x, NEW s, IsSeq(s) PROVE IsSeq(C(x, s))
  BY <1>4, ConsIs
<1>5. CASE k = 21
  <2>1. stack = S
    BY <1>5 DEF BackRow
  <2>2. Now(T, j) = Plain(JUMPDEST)
    BY <1>5 DEF CallTable
  <2>3. Gives(T, j, S, M)
    BY <1>1, <2>1, <2>2, GivesDest
  <2>10. BackRow(k + 1, S, M, S, M, fp)
    BY <1>5 DEF BackRow
  <2> QED BY <2>3, <2>10
<1>6. CASE k = 22
  <2>1. stack = S
    BY <1>6 DEF BackRow
  <2>2. Now(T, j) = N(FPAddr)
    BY <1>6 DEF CallTable
  <2>3. Gives(T, j, C(Num(FPAddr), S), M)
    BY <1>1, <1>2, <2>1, <2>2, GivesPush
  <2>10. BackRow(k + 1, C(Num(FPAddr), S), M, S, M, fp)
    BY <1>6 DEF BackRow
  <2> QED BY <2>3, <2>10
<1>7. CASE k = 23
  <2>1. stack = C(Num(FPAddr), S)
    BY <1>7 DEF BackRow
  <2>2. Now(T, j) = Plain(MLOAD)
    BY <1>7 DEF CallTable
  <2>4. Gives(T, j, C(MLoad(mem, NumberOf(Num(FPAddr))), S), mem)
    BY <2>1, <2>2, GivesLoad
  <2>3. Gives(T, j, C(Num(fp), S), M)
    BY <1>1, <1>3, <2>4
  <2>10. BackRow(k + 1, C(Num(fp), S), M, S, M, fp)
    BY <1>7 DEF BackRow
  <2> QED BY <2>3, <2>10
<1>8. CASE k = 24
  <2>1. stack = C(Num(fp), S)
    BY <1>8 DEF BackRow
  <2>2. Now(T, j) = N(32)
    BY <1>8 DEF CallTable
  <2>3. Gives(T, j, C(Num(32), C(Num(fp), S)), M)
    BY <1>1, <1>2, <2>1, <2>2, GivesPush
  <2>10. BackRow(k + 1, C(Num(32), C(Num(fp), S)), M, S, M, fp)
    BY <1>8 DEF BackRow
  <2> QED BY <2>3, <2>10
<1>9. CASE k = 25
  <2>1. stack = C(Num(32), C(Num(fp), S))
    BY <1>9 DEF BackRow
  <2>2. Now(T, j) = Plain(SWAP1)
    BY <1>9 DEF CallTable
  <2>4. PICK l \in 1 .. 16 : l = 1
    OBVIOUS
  <2>5. SWAP1 + l - 1 = SWAP1
    BY <2>4 DEF SWAP1
  <2>6. Len(stack) >= l + 1
    <3>1. IsSeq(C(Num(fp), S)) /\ Len(C(Num(fp), S)) = Len(S) + 1 /\ Len(S) \in Nat
      BY ConsIs
    <3>2. Len(stack) = Len(C(Num(fp), S)) + 1
      BY <2>1, <3>1, ConsIs
    <3> QED BY <2>4, <3>1, <3>2
  <2>7. Gives(T, j, [stack EXCEPT ![1] = stack[l + 1], ![l + 1] = stack[1]], mem)
    BY <2>2, <2>5, <2>6, GivesSwap
  <2>8. [stack EXCEPT ![1] = stack[l + 1], ![l + 1] = stack[1]] = C(Num(fp), C(Num(32), S))
    BY <2>1, <2>4, SwapTop
  <2>3. Gives(T, j, C(Num(fp), C(Num(32), S)), M)
    BY <1>1, <2>7, <2>8
  <2>10. BackRow(k + 1, C(Num(fp), C(Num(32), S)), M, S, M, fp)
    BY <1>9 DEF BackRow
  <2> QED BY <2>3, <2>10
<1>10. CASE k = 26
  <2>1. stack = C(Num(fp), C(Num(32), S))
    BY <1>10 DEF BackRow
  <2>2. Now(T, j) = Plain(SUB) /\ NumberOf(Num(fp)) >= NumberOf(Num(32))
    BY <1>2, <1>3, <1>10 DEF CallTable
  <2>4. Gives(T, j, C(Num(NumberOf(Num(fp)) - NumberOf(Num(32))), S), mem)
    BY <2>1, <2>2, GivesSub
  <2>3. Gives(T, j, C(Num(fp - 32), S), M)
    BY <1>1, <1>3, <2>4
  <2>10. BackRow(k + 1, C(Num(fp - 32), S), M, S, M, fp)
    BY <1>10 DEF BackRow
  <2> QED BY <2>3, <2>10
<1>11. CASE k = 27
  <2>1. stack = C(Num(fp - 32), S)
    BY <1>11 DEF BackRow
  <2>2. Now(T, j) = Plain(MLOAD)
    BY <1>11 DEF CallTable
  <2>4. Gives(T, j, C(MLoad(mem, NumberOf(Num(fp - 32))), S), mem)
    BY <2>1, <2>2, GivesLoad
  <2>3. Gives(T, j, C(MLoad(M, fp - 32), S), M)
    BY <1>1, <1>3, <2>4
  <2>10. BackRow(k + 1, C(MLoad(M, fp - 32), S), M, S, M, fp)
    BY <1>11 DEF BackRow
  <2> QED BY <2>3, <2>10
<1>12. CASE k = 28
  <2>1. stack = C(MLoad(M, fp - 32), S)
    BY <1>12 DEF BackRow
  <2>2. Now(T, j) = N(FPAddr)
    BY <1>12 DEF CallTable
  <2>3. Gives(T, j, C(Num(FPAddr), C(MLoad(M, fp - 32), S)), M)
    BY <1>1, <1>2, <2>1, <2>2, GivesPush
  <2>10. BackRow(k + 1, C(Num(FPAddr), C(MLoad(M, fp - 32), S)), M, S, M, fp)
    BY <1>12 DEF BackRow
  <2> QED BY <2>3, <2>10
<1> QED BY <1>5, <1>6, <1>7, <1>8, <1>9, <1>10, <1>11, <1>12

(* The last of them stores the caller's frame pointer.                     *)
LEMMA BackStore ==
  ASSUME NEW T, NEW j, Standing(T, j), NEW t, NEW n, NEW f, CallTable(t, n, f),
         NEW S, IsSeq(S), NEW M, NEW g, NEW fp, Room(g, fp),
         Now(T, j) = t[29], BackRow(29, stack, mem, S, M, fp)
  PROVE  Gives(T, j, S, Written(M, FPAddr, MLoad(M, fp - 32)))
<1>1. stack = C(Num(FPAddr), C(MLoad(M, fp - 32), S)) /\ mem = M
  BY DEF BackRow
<1>2. Now(T, j) = Plain(MSTORE)
  BY DEF CallTable
<1>3. Gives(T, j, S, Written(mem, NumberOf(Num(FPAddr)), MLoad(M, fp - 32)))
  BY <1>1, <1>2, GivesStore
<1> QED BY <1>1, <1>3, RoomNumbers

(* The items of a slot access, as LocalCode lists them.                    *)
LocalTable(t, d) ==
  /\ t[1] = N(FPAddr) /\ t[2] = Plain(MLOAD) /\ t[3] = N(d) /\ t[4] = Plain(ADD)

LEMMA LocalMicro ==
  ASSUME NEW T, NEW j, Standing(T, j), NEW t, NEW d \in Nat, LocalTable(t, d),
         NEW S, IsSeq(S), NEW g, NEW fp, Room(g, fp), fp + d < Limit, MLoad(mem, FPAddr) = Num(fp),
         NEW k \in 1 .. 4, Now(T, j) = t[k], LocalRow(k, stack, S, fp, d)
  PROVE  \E s : Gives(T, j, s, mem) /\ LocalRow(k + 1, s, S, fp, d)
<1>2. FPAddr \in Nat /\ fp \in Nat
  BY RoomIs
<1>3. NumberOf(Num(FPAddr)) = FPAddr /\ NumberOf(Num(fp)) = fp
  BY RoomNumbers
<1>4. CASE k = 1
  <2>1. stack = S
    BY <1>4 DEF LocalRow
  <2>2. Now(T, j) = N(FPAddr)
    BY <1>4 DEF LocalTable
  <2>3. Gives(T, j, C(Num(FPAddr), S), mem)
    BY <1>2, <2>1, <2>2, GivesPush
  <2>10. LocalRow(k + 1, C(Num(FPAddr), S), S, fp, d)
    BY <1>4 DEF LocalRow
  <2> QED BY <2>3, <2>10
<1>5. CASE k = 2
  <2>1. stack = C(Num(FPAddr), S)
    BY <1>5 DEF LocalRow
  <2>2. Now(T, j) = Plain(MLOAD)
    BY <1>5 DEF LocalTable
  <2>4. Gives(T, j, C(MLoad(mem, NumberOf(Num(FPAddr))), S), mem)
    BY <2>1, <2>2, GivesLoad
  <2>3. Gives(T, j, C(Num(fp), S), mem)
    BY <1>3, <2>4
  <2>10. LocalRow(k + 1, C(Num(fp), S), S, fp, d)
    BY <1>5 DEF LocalRow
  <2> QED BY <2>3, <2>10
<1>6. CASE k = 3
  <2>1. stack = C(Num(fp), S)
    BY <1>6 DEF LocalRow
  <2>2. Now(T, j) = N(d)
    BY <1>6 DEF LocalTable
  <2>3. Gives(T, j, C(Num(d), C(Num(fp), S)), mem)
    BY <1>2, <2>1, <2>2, GivesPush
  <2>10. LocalRow(k + 1, C(Num(d), C(Num(fp), S)), S, fp, d)
    BY <1>6 DEF LocalRow
  <2> QED BY <2>3, <2>10
<1>7. CASE k = 4
  <2>1. stack = C(Num(d), C(Num(fp), S))
    BY <1>7 DEF LocalRow
  <2>2. Now(T, j) = Plain(ADD)
    BY <1>7 DEF LocalTable
  <2>4. Gives(T, j, C(Num(NumberOf(Num(d)) + NumberOf(Num(fp))), S), mem)
    BY <2>1, <2>2, GivesAdd
  <2>5. NumberOf(Num(d)) = d
    <3>1. d < Limit
      BY <1>2 DEF Limit
    <3> QED BY <3>1, NumberOfNum
  <2>6. d + fp = fp + d
    BY <1>2
  <2>3. Gives(T, j, C(Num(fp + d), S), mem)
    BY <1>3, <2>4, <2>5, <2>6
  <2>10. LocalRow(k + 1, C(Num(fp + d), S), S, fp, d)
    BY <1>7 DEF LocalRow
  <2> QED BY <2>3, <2>10
<1> QED BY <1>4, <1>5, <1>6, <1>7

Fp == frames[Len(frames)].fp

(* The frames of the active functions lie one behind the other, and the    *)
(* pointers that lead back are where the code of a call looks for them.    *)
Chained(F) ==
  /\ IsSeq(F) /\ Len(F) >= 1
  /\ \A k \in 1 .. Len(F) :
       F[k].f \in DOMAIN Program /\ F[k].fp \in Nat /\ F[k].fp >= FPAddr + 64
  /\ \A i, k \in 1 .. Len(F) : i < k => F[i].fp + NextAt(F[i].f) <= F[k].fp
Linked(F, M) ==
  /\ MLoad(M, FPAddr) = Num(F[Len(F)].fp)
  /\ \A k \in 2 .. Len(F) : MLoad(M, F[k].fp - 32) = Num(F[k - 1].fp)
FramesOK ==
  /\ Chained(frames) /\ Linked(frames, seen.mem)
  /\ seen.pos \in Positions /\ frames[Len(frames)].f = seen.pos[1] /\ IsSeq(seen.stack)

SlotAt(p) == 32 * (SrcAt(p).arg.n + Program[p[1]].objects)
Index(e) == e.q - Off(e.p)

(* In the code of the source instruction: what has been done of it.        *)
InsideWith(e, s, m) ==
  /\ e.p = seen.pos
  /\ e.q <= Off(e.p) + 1 => s = seen.stack /\ m = seen.mem
  /\ SrcAt(e.p).op \in {pJUMPTO, pJUMPIF} /\ Index(e) = 2 =>
       s = C(Num(labels[KeyOf(SrcAt(e.p))]), seen.stack) /\ m = seen.mem
  /\ SrcAt(e.p).op \in {pGETLOCAL, pPUTLOCAL} /\ e.q > Off(e.p) =>
       m = seen.mem /\ LocalRow(Index(e), s, seen.stack, Fp, SlotAt(e.p))
  /\ SrcAt(e.p).op = pJUMPSUB /\ e.q > Off(e.p) =>
       /\ Index(e) <= 20
       /\ Index(e) >= 18 => e.p \in DOMAIN back /\ back[e.p] >= 4
       /\ CallRow(Index(e), s, m, seen.stack, seen.mem, e.p[1], Fp,
                  SrcAt(e.p).arg.n, back[e.p])
Inside(e) == InsideWith(e, stack, mem)

Rest1(s) == SubSeq(s, 2, Len(s))

(* Behind a call, after the callee's return.                               *)
ReturningWith(e, s, m) ==
  /\ SrcAt(seen.pos).op = pRETURNSUB /\ SrcAt(e.p).op = pJUMPSUB
  /\ Len(frames) > 1 /\ e.p[1] = frames[Len(frames) - 1].f /\ e.p \in DOMAIN back
  /\ Len(seen.stack) >= 1 /\ seen.stack[1] = Num(back[e.p])
  /\ Index(e) \in 21 .. 29
  /\ BackRow(Index(e), s, m, Rest1(seen.stack), seen.mem, Fp)
Returning(e) == ReturningWith(e, stack, mem)

-----------------------------------------------------------------------------
(* What the completed instruction has done to the view of the source.      *)
Onwards == seen'.pos = Blk!After(seen.pos)
SameMemory == seen'.mem = seen.mem /\ frames' = frames

PushStep ==
  /\ SrcAt(seen.pos).op = PUSH32 /\ Onwards /\ SameMemory
  /\ seen'.stack = C(IF SrcAt(seen.pos).arg.kind = "symbol"
                     THEN Num(labels[<<SrcAt(seen.pos).arg.f, 1>>])
                     ELSE Word(Src(chosen, seen.pos).arg.bytes), seen.stack)
InputStep ==
  /\ SrcAt(seen.pos).op = CALLDATASIZE /\ Onwards /\ SameMemory
  /\ \E w \in Inputs : seen'.stack = C(w, seen.stack)
PopStep ==
  /\ SrcAt(seen.pos).op = POP /\ Onwards /\ SameMemory
  /\ Len(seen.stack) >= 1 /\ seen'.stack = Rest1(seen.stack)
SwapStep(n) ==
  /\ SrcAt(seen.pos).op = SWAP_r /\ SrcAt(seen.pos).arg = Count(n) /\ Onwards /\ SameMemory
  /\ n \in 1 .. 16 /\ Len(seen.stack) >= n + 1
  /\ seen'.stack = [seen.stack EXCEPT ![1] = seen.stack[n + 1], ![n + 1] = seen.stack[1]]
DupStep(n) ==
  /\ SrcAt(seen.pos).op = DUP_r /\ SrcAt(seen.pos).arg = Count(n) /\ Onwards /\ SameMemory
  /\ n \in 1 .. 16 /\ Len(seen.stack) >= n
  /\ seen'.stack = C(seen.stack[n], seen.stack)
GetStep ==
  /\ SrcAt(seen.pos).op = pGETLOCAL /\ Onwards /\ SameMemory
  /\ seen'.stack = C(MLoad(seen.mem, Fp + SlotAt(seen.pos)), seen.stack)
PutStep ==
  /\ SrcAt(seen.pos).op = pPUTLOCAL /\ Onwards /\ frames' = frames
  /\ Len(seen.stack) >= 1 /\ seen'.stack = Rest1(seen.stack)
  /\ seen'.mem = Written(seen.mem, Fp + SlotAt(seen.pos), seen.stack[1])
JumpStep(b) ==
  /\ SrcAt(seen.pos).op = pJUMPTO /\ SrcAt(seen.pos).arg = Symbol(seen.pos[1], b) /\ SameMemory
  /\ b \in 1 .. Len(Blks(seen.pos[1])) /\ seen'.pos = Blk!StartOf(seen.pos[1], b)
  /\ seen'.stack = seen.stack
BranchStep(b) ==
  /\ SrcAt(seen.pos).op = pJUMPIF /\ SrcAt(seen.pos).arg = Symbol(seen.pos[1], b) /\ SameMemory
  /\ Len(seen.stack) >= 1 /\ b \in 1 .. Len(Blks(seen.pos[1]))
  /\ seen'.pos = IF seen.stack[1] = << >> THEN Blk!After(seen.pos)
                 ELSE Blk!StartOf(seen.pos[1], b)
  /\ seen'.stack = Rest1(seen.stack)
CallStep(n, g) ==
  /\ SrcAt(seen.pos).op = pJUMPSUB /\ SrcAt(seen.pos).arg = Count(n)
  /\ n \in 1 .. 16 /\ Len(seen.stack) >= n /\ g \in DOMAIN Program
  /\ seen.stack[n] = Num(labels[<<g, 1>>]) /\ seen'.pos = Blk!StartOf(g, 1)
  /\ seen.pos \in DOMAIN back /\ seen'.stack = Put(seen.stack, n, Num(back[seen.pos]))
  /\ seen'.mem = MovedSP(seen.mem, seen.pos[1], Fp)
  /\ frames' = Append(frames, [f |-> g, fp |-> Fp + NextAt(seen.pos[1])])
ReturnStep(c) ==
  /\ SrcAt(seen.pos).op = pRETURNSUB /\ Len(frames) > 1 /\ c \in DOMAIN back
  /\ c[1] = frames[Len(frames) - 1].f /\ Len(seen.stack) >= 1
  /\ seen.stack[1] = Num(back[c]) /\ seen'.pos = Blk!After(c)
  /\ seen'.stack = Rest1(seen.stack) /\ frames' = SubSeq(frames, 1, Len(frames) - 1)
  /\ seen'.mem = Written(seen.mem, FPAddr, MLoad(seen.mem, Fp - 32))

SourceStep ==
  \/ PushStep \/ InputStep \/ PopStep \/ GetStep \/ PutStep
  \/ \E n \in 1 .. 16 : SwapStep(n) \/ DupStep(n) \/ \E g \in DOMAIN Program : CallStep(n, g)
  \/ \E b \in Nat : JumpStep(b) \/ BranchStep(b)
  \/ \E c \in DOMAIN back : ReturnStep(c)

(* The machine has come to the item x: inside the instruction, or to the   *)
(* beginning of the next.                                                  *)
StillInside(T, x) ==
  UNCHANGED <<frames, seen>> /\ (Inside(T[x]) \/ Returning(T[x]))'
Completed(T, x) ==
  /\ SourceStep /\ T[x].q = 1 /\ T[x].p = seen'.pos
  /\ stack' = seen'.stack /\ mem' = seen'.mem
Reaches(T) ==
  /\ status' = "running" /\ dests' = dests /\ UNCHANGED emitVars
  /\ \E x \in 1 .. Len(T) : pc' = T[x].at /\ (StillInside(T, x) \/ Completed(T, x))

(* The state the lemmas on single instructions start from.                 *)
Ready(T, j) ==
  Standing(T, j) /\ Execute /\ FramesOK /\ Disciplined /\ Inside(T[j])

LEMMA ReadyIs ==
  ASSUME NEW T, NEW j, Ready(T, j)
  PROVE  /\ Standing(T, j) /\ Execute /\ Loaded(T) /\ Image(T) /\ chosen \in Operands
         /\ j \in 1 .. Len(T) /\ EntryOK(chosen, T[j]) /\ T[j].p = seen.pos
         /\ seen.pos \in Positions /\ seen.pos[1] \in DOMAIN Program
         /\ SourceInstr = SrcAt(seen.pos) /\ IsSeq(seen.stack) /\ Len(seen.stack) \in Nat
         /\ Room(seen.pos[1], Fp) /\ MLoad(seen.mem, FPAddr) = Num(Fp)
         /\ Len(seen.stack) >= OperandsOf(SrcAt(seen.pos))
         /\ CallsFunction /\ ReturnsToCaller /\ Addressable
<1>1. Standing(T, j) /\ Execute /\ FramesOK /\ Disciplined /\ Inside(T[j])
  BY DEF Ready
<1>2. Loaded(T) /\ status = "running"
  BY <1>1 DEF Standing, Loaded
<1>3. Image(T) /\ j \in 1 .. Len(T) /\ EntryOK(chosen, T[j]) /\ chosen \in Operands
  BY <1>1, StandingIs DEF Image
<1>4. T[j].p = seen.pos
  BY <1>1 DEF Inside, InsideWith
<1>5. /\ seen.pos \in Positions /\ IsSeq(seen.stack) /\ MLoad(seen.mem, FPAddr) = Num(Fp)
      /\ IsSeq(frames) /\ Len(frames) >= 1 /\ frames[Len(frames)].f = seen.pos[1]
  BY <1>1 DEF FramesOK, Chained, Linked, Fp
<1>6. SourceInstr = SrcAt(seen.pos)
  BY DEF SourceInstr, SrcAt, Blks
<1>7. /\ Len(seen.stack) >= OperandsOf(SrcAt(seen.pos))
      /\ CallsFunction /\ ReturnsToCaller /\ Addressable
  BY <1>1, <1>2, <1>6 DEF Disciplined
<1>8. Len(frames) \in 1 .. Len(frames) /\ DOMAIN frames = 1 .. Len(frames) /\ Len(frames) \in Nat
  BY <1>5, SeqFacts
<1>9. Room(seen.pos[1], Fp)
  <2>1. Fp \in Nat /\ Fp >= FPAddr + 64 /\ seen.pos[1] \in DOMAIN Program
    BY <1>1, <1>5, <1>8 DEF FramesOK, Fp, Chained, Linked
  <2>2. Fp + NextAt(seen.pos[1]) < Limit
    BY <1>5, <1>7, <1>8 DEF Addressable, Fp
  <2>3. FPAddr \in Nat
    BY <2>1, SourceAddresses
  <2> QED BY <2>1, <2>2, <2>3 DEF Room
<1>10. Len(seen.stack) \in Nat /\ seen.pos[1] \in DOMAIN Program
  BY <1>5, <1>9, SeqFacts DEF Room
<1> QED BY <1>1, <1>2, <1>3, <1>4, <1>5, <1>6, <1>7, <1>9, <1>10

LEMMA StayInside ==
  ASSUME NEW T, NEW x \in 1 .. Len(T), NEW s, NEW m, Arrives(T, x, s, m), T[x].q # 1,
         InsideWith(T[x], s, m) \/ ReturningWith(T[x], s, m)
  PROVE  Reaches(T)
<1>1. /\ pc' = T[x].at /\ stack' = s /\ mem' = m /\ status' = "running"
      /\ dests' = dests /\ UNCHANGED emitVars /\ frames' = frames /\ seen' = seen
  BY DEF Arrives
<1>2. labels' = labels /\ back' = back
  BY <1>1 DEF emitVars
<1>3. InsideWith(T[x], s, m) => Inside(T[x])'
  BY <1>1, <1>2 DEF Inside, InsideWith, Fp, Index
<1>4. ReturningWith(T[x], s, m) => Returning(T[x])'
  BY <1>1, <1>2 DEF Returning, ReturningWith, Fp, Index, Rest1
<1>5. StillInside(T, x)
  BY <1>1, <1>3, <1>4 DEF StillInside
<1> QED BY <1>1, <1>5 DEF Reaches

LEMMA ThenDone ==
  ASSUME NEW T, NEW x \in 1 .. Len(T), NEW s, NEW m, Arrives(T, x, s, m), T[x].q = 1, SourceStep
  PROVE  Reaches(T)
BY DEF Arrives, Reaches, Completed

-----------------------------------------------------------------------------
LEMMA NotLast ==
  ASSUME NEW p \in Positions, SrcAt(p).op \notin {pJUMPTO, pRETURNSUB, STOP}
  PROVE  ~IsLast(p) /\ Blk!After(p) \in Positions /\ Blk!After(p)[1] = p[1]
<1>1. p[1] \in DOMAIN Program
  BY AfterIs
<1>2. Blks(p[1])[Len(Blks(p[1]))][Len(Blks(p[1])[Len(Blks(p[1]))])].op \in {pJUMPTO, pRETURNSUB, STOP}
  BY <1>1, FunctionIs
<1>3. ~IsLast(p)
  BY <1>2 DEF IsLast, Size, SrcAt
<1> QED BY <1>3, AfterIs

LEMMA GoOn ==
  ASSUME NEW T, NEW j, Standing(T, j), Execute, NEW s, NEW m, Gives(T, j, s, m),
         T[j].q < Len(Final(chosen, T[j].p))
  PROVE  \E x \in 1 .. Len(T) :
           Arrives(T, x, s, m) /\ T[x].p = T[j].p /\ T[x].q = T[j].q + 1 /\ T[x].q # 1
<1>1. PICK x : x = j + 1
  OBVIOUS
<1>2. x \in 1 .. Len(T) /\ T[x].p = T[j].p /\ T[x].q = T[j].q + 1 /\ Behind(T, j) = T[x].at
  BY <1>1, NextItem
<1>3. Arrives(T, x, s, m)
  BY <1>2, ArriveOne DEF Gives
<1>4. T[j].q \in Nat /\ T[j].q > 0
  <2>1. EntryOK(chosen, T[j]) /\ chosen \in Operands
    BY StandingIs DEF Image
  <2> QED BY <2>1, EntryAt
<1> QED BY <1>2, <1>3, <1>4

LEMMA GoNext ==
  ASSUME NEW T, NEW j, Standing(T, j), Execute, NEW s, NEW m, Gives(T, j, s, m),
         T[j].q = Len(Final(chosen, T[j].p)), ~IsLast(T[j].p)
  PROVE  \E x \in 1 .. Len(T) :
           Arrives(T, x, s, m) /\ T[x].p = Blk!After(T[j].p) /\ T[x].q = 1
<1>1. PICK x : x = j + 1
  OBVIOUS
<1>2. x \in 1 .. Len(T) /\ T[x].p = Blk!After(T[j].p) /\ T[x].q = 1 /\ Behind(T, j) = T[x].at
  BY <1>1, NextSource
<1>3. Arrives(T, x, s, m)
  BY <1>2, ArriveOne DEF Gives
<1> QED BY <1>2, <1>3

(* An instruction that only goes on to the next.                           *)
LEMMA Straight ==
  ASSUME NEW T, NEW j, Ready(T, j), NEW s, NEW m, Gives(T, j, s, m),
         T[j].q = Len(Final(chosen, T[j].p)),
         SrcAt(seen.pos).op \notin {pJUMPTO, pRETURNSUB, STOP, pJUMPSUB}
  PROVE  \E x \in 1 .. Len(T) :
           /\ Arrives(T, x, s, m) /\ T[x].q = 1
           /\ Onwards /\ frames' = frames /\ seen'.stack = s /\ seen'.mem = m
<1>1. /\ Standing(T, j) /\ Execute /\ T[j].p = seen.pos /\ seen.pos \in Positions
      /\ SourceInstr = SrcAt(seen.pos)
  BY ReadyIs
<1>2. ~IsLast(T[j].p)
  BY <1>1, NotLast
<1>3. PICK x \in 1 .. Len(T) : Arrives(T, x, s, m) /\ T[x].p = Blk!After(T[j].p) /\ T[x].q = 1
  BY <1>1, <1>2, GoNext
<1>4. NextFrames(T[x], m) = frames
  BY <1>1 DEF NextFrames
<1>5. frames' = frames /\ seen'.pos = T[x].p /\ seen'.stack = s /\ seen'.mem = m
  BY <1>3, <1>4 DEF Arrives
<1> QED BY <1>1, <1>3, <1>5 DEF Onwards

(* The JUMPDEST at the beginning of a block.                               *)
LEMMA AtDest ==
  ASSUME NEW T, NEW j, Ready(T, j), T[j].q <= Off(T[j].p)
  PROVE  Reaches(T)
<1>1. /\ Standing(T, j) /\ Execute /\ T[j].p = seen.pos /\ chosen \in Operands
      /\ EntryOK(chosen, T[j])
  BY ReadyIs
<1>2. /\ T[j].q = 1 /\ Off(T[j].p) = 1 /\ Now(T, j) = Plain(JUMPDEST)
      /\ T[j].q < Len(Final(chosen, T[j].p))
  BY <1>1, EntryAt DEF Now
<1>3. stack = seen.stack /\ mem = seen.mem
  BY <1>2 DEF Ready, Inside, InsideWith
<1>4. Gives(T, j, seen.stack, seen.mem)
  BY <1>1, <1>2, <1>3, GivesDest
<1>5. PICK x \in 1 .. Len(T) :
        Arrives(T, x, seen.stack, seen.mem) /\ T[x].p = T[j].p /\ T[x].q = T[j].q + 1 /\ T[x].q # 1
  BY <1>1, <1>2, <1>4, GoOn
<1>6. T[x].q = 2 /\ Off(T[x].p) = 1 /\ Index(T[x]) = 1
  BY <1>2, <1>5 DEF Index
<1>7. LocalRow(1, seen.stack, seen.stack, Fp, SlotAt(T[x].p))
  BY DEF LocalRow
<1>8. CallRow(1, seen.stack, seen.mem, seen.stack, seen.mem, T[x].p[1], Fp,
              SrcAt(T[x].p).arg.n, back[T[x].p])
  BY DEF CallRow, SaveRow, MoveRow, JumpRow
<1>9. InsideWith(T[x], seen.stack, seen.mem)
  BY <1>1, <1>5, <1>6, <1>7, <1>8 DEF InsideWith
<1> QED BY <1>5, <1>9, StayInside

(* The first item of an instruction: nothing has been done of it.          *)
LEMMA AtFirst ==
  ASSUME NEW T, NEW j, Ready(T, j), T[j].q = Off(T[j].p) + 1
  PROVE  stack = seen.stack /\ mem = seen.mem
<1>1. chosen \in Operands /\ EntryOK(chosen, T[j])
  BY ReadyIs
<1>2. T[j].q <= Off(T[j].p) + 1
  BY <1>1, EntryAt
<1> QED BY <1>2 DEF Ready, Inside, InsideWith

(* Instructions that become a single one.                                  *)
ItemsOf(p) == Shrunk(Src(chosen, p), p[1])

LEMMA AtItem ==
  ASSUME NEW T, NEW j, Ready(T, j), T[j].q > Off(T[j].p)
  PROVE  /\ T[j].q - Off(seen.pos) \in 1 .. Len(ItemsOf(seen.pos)) /\ Index(T[j]) = T[j].q - Off(seen.pos)
         /\ Now(T, j) = ItemsOf(seen.pos)[Index(T[j])] /\ Len(ItemsOf(seen.pos)) \in Nat
         /\ Len(Final(chosen, T[j].p)) = Off(T[j].p) + Len(ItemsOf(seen.pos))
         /\ Off(T[j].p) \in {0, 1} /\ T[j].q \in Nat /\ IsSource(Src(chosen, seen.pos), seen.pos[1])
<1>1. chosen \in Operands /\ EntryOK(chosen, T[j]) /\ T[j].p = seen.pos
  BY ReadyIs
<1> QED BY <1>1, EntryAt DEF ItemsOf, Index, Now

LEMMA AtOnly ==
  ASSUME NEW T, NEW j, Ready(T, j), T[j].q > Off(T[j].p), Len(ItemsOf(seen.pos)) = 1
  PROVE  /\ T[j].q = Len(Final(chosen, T[j].p)) /\ Now(T, j) = ItemsOf(seen.pos)[1]
         /\ stack = seen.stack /\ mem = seen.mem
<1>1. /\ T[j].q - Off(seen.pos) \in 1 .. 1 /\ Index(T[j]) = T[j].q - Off(seen.pos)
      /\ Now(T, j) = ItemsOf(seen.pos)[Index(T[j])]
      /\ Len(Final(chosen, T[j].p)) = Off(T[j].p) + 1
      /\ Off(T[j].p) \in {0, 1} /\ T[j].q \in Nat /\ T[j].p = seen.pos
  BY AtItem, ReadyIs
<1>2. T[j].q = Off(T[j].p) + 1 /\ Index(T[j]) = 1
  BY <1>1
<1> QED BY <1>1, <1>2, AtFirst

LEMMA ConstantKind == \A a \in Constants : a.kind # "symbol"
BY DEF Constants

LEMMA AtConst ==
  ASSUME NEW T, NEW j, Ready(T, j), T[j].q > Off(T[j].p), IsConst(Src(chosen, seen.pos))
  PROVE  Reaches(T)
<1> DEFINE m == Src(chosen, seen.pos)
<1>1. Len(ItemsOf(seen.pos)) = 1 /\ IsNumberPush(ItemsOf(seen.pos)[1], Word(m.arg.bytes))
  BY ConstCode DEF ItemsOf
<1>2. /\ T[j].q = Len(Final(chosen, T[j].p)) /\ Now(T, j) = ItemsOf(seen.pos)[1]
      /\ stack = seen.stack /\ mem = seen.mem /\ Standing(T, j)
  BY <1>1, AtOnly, ReadyIs
<1>3. Gives(T, j, C(Word(m.arg.bytes), stack), mem)
  BY <1>1, <1>2, GivesNumber
<1>4. SrcAt(seen.pos).op = PUSH32 /\ m.arg \in Constants
  BY SrcOp DEF IsConst
<1>5. PUSH32 \notin {pJUMPTO, pRETURNSUB, STOP, pJUMPSUB}
  BY DEF PUSH32, pJUMPTO, pRETURNSUB, STOP, pJUMPSUB
<1>6. PICK x \in 1 .. Len(T) :
        /\ Arrives(T, x, C(Word(m.arg.bytes), seen.stack), seen.mem) /\ T[x].q = 1
        /\ Onwards /\ frames' = frames /\ seen'.stack = C(Word(m.arg.bytes), seen.stack)
        /\ seen'.mem = seen.mem
  BY <1>2, <1>3, <1>4, <1>5, Straight
<1>7. SrcAt(seen.pos).arg.kind # "symbol"
  <2>1. m.arg.kind # "symbol"
    BY <1>4, ConstantKind
  <2> QED BY <2>1, SrcOp
<1>8. PushStep
  BY <1>4, <1>6, <1>7 DEF PushStep, SameMemory
<1>9. SourceStep
  BY <1>8 DEF SourceStep
<1> QED BY <1>6, <1>9, ThenDone

LEMMA AtAddress ==
  ASSUME NEW T, NEW j, Ready(T, j), T[j].q > Off(T[j].p), IsAddress(Src(chosen, seen.pos))
  PROVE  Reaches(T)
<1> DEFINE m == Src(chosen, seen.pos)
<1>1. PICK g \in DOMAIN Program : m.op = PUSH32 /\ m.arg = Symbol(g, 1)
  BY DEF IsAddress
<1>2. Len(ItemsOf(seen.pos)) = 1 /\ ItemsOf(seen.pos)[1] = MI(PUSH1 + 1, m.arg)
  BY AddressCode DEF ItemsOf
<1>3. /\ T[j].q = Len(Final(chosen, T[j].p)) /\ Now(T, j) = MI(PUSH1 + 1, Symbol(g, 1))
      /\ stack = seen.stack /\ mem = seen.mem /\ Standing(T, j)
  BY <1>1, <1>2, AtOnly, ReadyIs
<1>4. IsSymbol(chosen, T[j]) /\ KeyOf(Now(T, j)) = <<g, 1>>
  <2>1. Now(T, j).op = PUSH1 + 1 /\ Now(T, j).arg = Symbol(g, 1)
    BY <1>3 DEF MI
  <2>2. 1 \in 1 .. Len(Blks(g))
    BY FunctionIs
  <2> QED BY <2>1, <2>2 DEF IsSymbol, IsSymbolPush, Now, KeyOf, Symbol
<1>5. Gives(T, j, C(Num(labels[<<g, 1>>]), seen.stack), seen.mem)
  <2>1. Gives(T, j, C(Num(labels[KeyOf(Now(T, j))]), stack), mem)
    BY <1>3, <1>4, GivesSymbol
  <2> QED BY <1>3, <1>4, <2>1
<1>6. SrcAt(seen.pos).op = PUSH32
  BY <1>1, SrcOp
<1>7. PUSH32 \notin {pJUMPTO, pRETURNSUB, STOP, pJUMPSUB}
  BY DEF PUSH32, pJUMPTO, pRETURNSUB, STOP, pJUMPSUB
<1>8. PICK x \in 1 .. Len(T) :
        /\ Arrives(T, x, C(Num(labels[<<g, 1>>]), seen.stack), seen.mem) /\ T[x].q = 1
        /\ Onwards /\ frames' = frames /\ seen'.stack = C(Num(labels[<<g, 1>>]), seen.stack)
        /\ seen'.mem = seen.mem
  BY <1>3, <1>5, <1>6, <1>7, Straight
<1>9. SrcAt(seen.pos).arg = Symbol(g, 1)
  <2>1. CASE SrcAt(seen.pos).arg.kind = "open"
    <3>1. m.arg = chosen /\ chosen \in Operands
      BY <2>1, ReadyIs DEF Src, MI
    <3>2. Operands \subseteq Constants
      BY ProgramAssumption
    <3>3. m.arg.kind = "symbol"
      BY <1>1 DEF Symbol
    <3> QED BY <3>1, <3>2, <3>3, ConstantKind
  <2> QED BY <1>1, <2>1, SrcOp
<1>10. PushStep
  <2>1. SrcAt(seen.pos).arg.kind = "symbol" /\ SrcAt(seen.pos).arg.f = g
    BY <1>9 DEF Symbol
  <2> QED BY <1>6, <1>8, <2>1 DEF PushStep, SameMemory
<1>11. SourceStep
  BY <1>10 DEF SourceStep
<1> QED BY <1>8, <1>11, ThenDone

LEMMA TopOf ==
  ASSUME NEW s, IsSeq(s), Len(s) >= 1
  PROVE  s = C(s[1], Rest1(s)) /\ IsSeq(Rest1(s)) /\ Len(Rest1(s)) = Len(s) - 1
BY ConsOf DEF Rest1

LEMMA SimpleItem ==
  ASSUME NEW p \in Positions, IsSimple(Src(chosen, p))
  PROVE  /\ Len(ItemsOf(p)) = 1
         /\ ItemsOf(p)[1] = Plain(IF SrcAt(p).op = pRETURNSUB THEN JUMP ELSE SrcAt(p).op)
<1>1. PUSH32 \notin {CALLDATASIZE, POP, pRETURNSUB, STOP}
  BY DEF CALLDATASIZE, POP, pRETURNSUB, STOP, PUSH32
<1>2. Src(chosen, p) = SrcAt(p)
  BY <1>1, SrcOp, NotOpen DEF IsSimple
<1>3. SrcAt(p) \in Instructions(p[1])
  BY FunctionIs DEF Positions, SrcAt
<1>4. SrcAt(p) = Plain(SrcAt(p).op)
  BY <1>2, <1>3 DEF Instructions, IsSimple, Plain, MI
<1>5. /\ Len(ItemsOf(p)) = 1
      /\ ItemsOf(p)[1] = IF SrcAt(p).op = pRETURNSUB THEN Plain(JUMP) ELSE SrcAt(p)
  BY <1>2, SimpleCode DEF ItemsOf
<1> QED BY <1>4, <1>5

LEMMA AtInput ==
  ASSUME NEW T, NEW j, Ready(T, j), T[j].q > Off(T[j].p), IsSimple(Src(chosen, seen.pos)),
         SrcAt(seen.pos).op = CALLDATASIZE
  PROVE  Reaches(T)
<1> DEFINE m == Src(chosen, seen.pos)
<1>1. CALLDATASIZE \notin {pJUMPTO, pRETURNSUB, STOP, pJUMPSUB}
  BY DEF CALLDATASIZE, pJUMPTO, pRETURNSUB, STOP, pJUMPSUB
<1>2. /\ Len(ItemsOf(seen.pos)) = 1 /\ ItemsOf(seen.pos)[1] = Plain(CALLDATASIZE)
  BY <1>1, SimpleItem, ReadyIs
<1>3. /\ T[j].q = Len(Final(chosen, T[j].p)) /\ Now(T, j) = ItemsOf(seen.pos)[1]
      /\ stack = seen.stack /\ mem = seen.mem /\ Standing(T, j) /\ Execute
      /\ T[j].p = seen.pos /\ seen.pos \in Positions /\ SourceInstr = SrcAt(seen.pos)
  BY <1>2, AtOnly, ReadyIs
<1>4. Results = { Result(Behind(T, j), C(w, stack), mem) : w \in Inputs }
  BY <1>2, <1>3, GivesInput
<1>5. ~IsLast(T[j].p)
  BY <1>1, <1>3, NotLast
<1>6. PICK x : x = j + 1
  OBVIOUS
<1>7. x \in 1 .. Len(T) /\ T[x].p = Blk!After(T[j].p) /\ T[x].q = 1 /\ Behind(T, j) = T[x].at
  BY <1>3, <1>5, <1>6, NextSource
<1>8. PICK s, n : Result(T[x].at, s, n) \in Results /\ Arrives(T, x, s, n)
  <2>1. \A r \in Results : \E s, n : r = Result(T[x].at, s, n)
    BY <1>4, <1>7
  <2> QED BY <1>3, <1>7, <2>1, ArriveAny
<1>9. PICK w \in Inputs : Result(T[x].at, s, n) = Result(T[x].at, C(w, stack), mem)
  BY <1>4, <1>7, <1>8
<1>10. s = C(w, stack) /\ n = mem
  <2>1. Result(T[x].at, s, n).stack = Result(T[x].at, C(w, stack), mem).stack
    BY <1>9
  <2>2. Result(T[x].at, s, n).mem = Result(T[x].at, C(w, stack), mem).mem
    BY <1>9
  <2> QED BY <2>1, <2>2 DEF Result
<1>11. NextFrames(T[x], n) = frames
  BY <1>1, <1>3 DEF NextFrames
<1>12. /\ frames' = frames /\ seen'.pos = Blk!After(seen.pos)
       /\ seen'.stack = C(w, seen.stack) /\ seen'.mem = seen.mem
  BY <1>3, <1>7, <1>8, <1>10, <1>11 DEF Arrives
<1>13. InputStep
  BY <1>12 DEF InputStep, Onwards, SameMemory
<1>14. SourceStep
  BY <1>13 DEF SourceStep
<1> QED BY <1>7, <1>8, <1>14, ThenDone

LEMMA OperandsAre ==
  ASSUME NEW i
  PROVE  /\ i.op \in {POP, pPUTLOCAL, pJUMPIF, pRETURNSUB} => OperandsOf(i) = 1
         /\ i.op \in {DUP_r, pJUMPSUB} => OperandsOf(i) = i.arg.n
         /\ i.op = SWAP_r => OperandsOf(i) = i.arg.n + 1
<1>1. /\ {POP, pPUTLOCAL, pJUMPIF, pRETURNSUB} \cap {DUP_r, pJUMPSUB, SWAP_r} = {}
      /\ SWAP_r \notin {DUP_r, pJUMPSUB}
  BY DEF SWAP_r, POP, pPUTLOCAL, pJUMPIF, pRETURNSUB, DUP_r, pJUMPSUB
<1> QED BY <1>1 DEF OperandsOf

LEMMA AtPop ==
  ASSUME NEW T, NEW j, Ready(T, j), T[j].q > Off(T[j].p), IsSimple(Src(chosen, seen.pos)),
         SrcAt(seen.pos).op = POP
  PROVE  Reaches(T)
<1>1. POP \notin {pJUMPTO, pRETURNSUB, STOP, pJUMPSUB}
  BY DEF POP, pJUMPTO, pRETURNSUB, STOP, pJUMPSUB
<1>2. /\ Len(ItemsOf(seen.pos)) = 1 /\ ItemsOf(seen.pos)[1] = Plain(POP)
  BY <1>1, SimpleItem, ReadyIs
<1>3. /\ T[j].q = Len(Final(chosen, T[j].p)) /\ Now(T, j) = Plain(POP)
      /\ stack = seen.stack /\ mem = seen.mem /\ Standing(T, j) /\ IsSeq(seen.stack)
      /\ Len(seen.stack) >= OperandsOf(SrcAt(seen.pos))
  BY <1>2, AtOnly, ReadyIs
<1>4. Len(seen.stack) >= 1
  BY <1>3, OperandsAre
<1>5. seen.stack = C(seen.stack[1], Rest1(seen.stack)) /\ IsSeq(Rest1(seen.stack))
  BY <1>3, <1>4, TopOf
<1>6. Gives(T, j, Rest1(seen.stack), mem)
  BY <1>3, <1>5, GivesPop
<1>7. PICK x \in 1 .. Len(T) :
        /\ Arrives(T, x, Rest1(seen.stack), seen.mem) /\ T[x].q = 1
        /\ Onwards /\ frames' = frames /\ seen'.stack = Rest1(seen.stack) /\ seen'.mem = seen.mem
  BY <1>1, <1>3, <1>6, Straight
<1>8. PopStep
  BY <1>4, <1>7 DEF PopStep, SameMemory
<1>9. SourceStep
  BY <1>8 DEF SourceStep
<1> QED BY <1>7, <1>9, ThenDone

LEMMA CountedIs ==
  ASSUME NEW p \in Positions, IsCounted(Src(chosen, p))
  PROVE  /\ Src(chosen, p) = SrcAt(p) /\ SrcAt(p).op \in {SWAP_r, DUP_r, pJUMPSUB}
         /\ \E n \in 1 .. 16 : SrcAt(p).arg = Count(n) /\ SrcAt(p).arg.n = n
<1>1. PUSH32 \notin {SWAP_r, DUP_r, pJUMPSUB}
  BY DEF SWAP_r, DUP_r, pJUMPSUB, PUSH32
<1>2. Src(chosen, p) = SrcAt(p)
  BY <1>1, SrcOp, NotOpen DEF IsCounted
<1> QED BY <1>2 DEF IsCounted, Count

LEMMA AtSwap ==
  ASSUME NEW T, NEW j, Ready(T, j), T[j].q > Off(T[j].p), IsCounted(Src(chosen, seen.pos)),
         SrcAt(seen.pos).op = SWAP_r
  PROVE  Reaches(T)
<1>1. SWAP_r \notin {pJUMPTO, pRETURNSUB, STOP, pJUMPSUB}
  BY DEF SWAP_r, pJUMPTO, pRETURNSUB, STOP, pJUMPSUB
<1>2. PICK n \in 1 .. 16 : SrcAt(seen.pos).arg = Count(n) /\ SrcAt(seen.pos).arg.n = n
  BY CountedIs, ReadyIs
<1>3. Src(chosen, seen.pos) = SrcAt(seen.pos)
  BY CountedIs, ReadyIs
<1>4. Len(ItemsOf(seen.pos)) = 1 /\ ItemsOf(seen.pos)[1] = Plain(SWAP1 + n - 1)
  BY <1>2, <1>3, SwapDupCode DEF ItemsOf, SwapDupOp
<1>5. /\ T[j].q = Len(Final(chosen, T[j].p)) /\ Now(T, j) = Plain(SWAP1 + n - 1)
      /\ stack = seen.stack /\ mem = seen.mem /\ Standing(T, j) /\ IsSeq(seen.stack)
      /\ Len(seen.stack) >= OperandsOf(SrcAt(seen.pos))
  BY <1>4, AtOnly, ReadyIs
<1>6. OperandsOf(SrcAt(seen.pos)) = n + 1
  BY <1>2, OperandsAre
<1>7. PICK s : s = [seen.stack EXCEPT ![1] = seen.stack[n + 1], ![n + 1] = seen.stack[1]]
  OBVIOUS
<1>8. Gives(T, j, s, mem)
  BY <1>5, <1>6, <1>7, GivesSwap
<1>9. PICK x \in 1 .. Len(T) :
        /\ Arrives(T, x, s, seen.mem) /\ T[x].q = 1
        /\ Onwards /\ frames' = frames /\ seen'.stack = s /\ seen'.mem = seen.mem
  BY <1>1, <1>5, <1>8, Straight
<1>10. SwapStep(n)
  BY <1>2, <1>5, <1>6, <1>7, <1>9 DEF SwapStep, SameMemory
<1>11. SourceStep
  BY <1>10 DEF SourceStep
<1> QED BY <1>9, <1>11, ThenDone

LEMMA AtDup ==
  ASSUME NEW T, NEW j, Ready(T, j), T[j].q > Off(T[j].p), IsCounted(Src(chosen, seen.pos)),
         SrcAt(seen.pos).op = DUP_r
  PROVE  Reaches(T)
<1>1. DUP_r \notin {pJUMPTO, pRETURNSUB, STOP, pJUMPSUB, SWAP_r}
  BY DEF DUP_r, pJUMPTO, pRETURNSUB, STOP, pJUMPSUB, SWAP_r
<1>2. PICK n \in 1 .. 16 : SrcAt(seen.pos).arg = Count(n) /\ SrcAt(seen.pos).arg.n = n
  BY CountedIs, ReadyIs
<1>3. Src(chosen, seen.pos) = SrcAt(seen.pos)
  BY CountedIs, ReadyIs
<1>4. Len(ItemsOf(seen.pos)) = 1 /\ ItemsOf(seen.pos)[1] = Plain(DUP1 + n - 1)
  BY <1>1, <1>2, <1>3, SwapDupCode DEF ItemsOf, SwapDupOp
<1>5. /\ T[j].q = Len(Final(chosen, T[j].p)) /\ Now(T, j) = Plain(DUP1 + n - 1)
      /\ stack = seen.stack /\ mem = seen.mem /\ Standing(T, j) /\ IsSeq(seen.stack)
      /\ Len(seen.stack) >= OperandsOf(SrcAt(seen.pos))
  BY <1>4, AtOnly, ReadyIs
<1>6. OperandsOf(SrcAt(seen.pos)) = n
  BY <1>2, OperandsAre
<1>7. Gives(T, j, C(seen.stack[n], seen.stack), mem)
  BY <1>5, <1>6, GivesDup
<1>8. PICK x \in 1 .. Len(T) :
        /\ Arrives(T, x, C(seen.stack[n], seen.stack), seen.mem) /\ T[x].q = 1
        /\ Onwards /\ frames' = frames /\ seen'.stack = C(seen.stack[n], seen.stack)
        /\ seen'.mem = seen.mem
  BY <1>1, <1>5, <1>7, Straight
<1>9. DupStep(n)
  BY <1>2, <1>5, <1>6, <1>8 DEF DupStep, SameMemory
<1>10. SourceStep
  BY <1>9 DEF SourceStep
<1> QED BY <1>8, <1>10, ThenDone

LEMMA JumpIs ==
  ASSUME NEW p \in Positions, IsJump(Src(chosen, p), p[1])
  PROVE  /\ Src(chosen, p) = SrcAt(p) /\ SrcAt(p).op \in {pJUMPTO, pJUMPIF}
         /\ \E b \in 1 .. Len(Blks(p[1])) :
              SrcAt(p).arg = Symbol(p[1], b) /\ KeyOf(SrcAt(p)) = <<p[1], b>>
<1>1. PUSH32 \notin {pJUMPTO, pJUMPIF}
  BY DEF pJUMPTO, pJUMPIF, PUSH32
<1>2. Src(chosen, p) = SrcAt(p)
  BY <1>1, SrcOp, NotOpen DEF IsJump
<1> QED BY <1>2 DEF IsJump, Symbol, KeyOf

(* The first item of a jump pushes the label.                              *)
LEMMA AtLabel ==
  ASSUME NEW T, NEW j, Ready(T, j), T[j].q > Off(T[j].p), Index(T[j]) = 1,
         IsJump(Src(chosen, seen.pos), seen.pos[1])
  PROVE  Reaches(T)
<1>1. /\ Standing(T, j) /\ Execute /\ T[j].p = seen.pos /\ seen.pos \in Positions
      /\ seen.pos[1] \in DOMAIN Program
  BY ReadyIs
<1>2. Src(chosen, seen.pos) = SrcAt(seen.pos) /\ SrcAt(seen.pos).op \in {pJUMPTO, pJUMPIF}
  BY <1>1, JumpIs
<1>3. PICK b \in 1 .. Len(Blks(seen.pos[1])) :
        SrcAt(seen.pos).arg = Symbol(seen.pos[1], b) /\ KeyOf(SrcAt(seen.pos)) = <<seen.pos[1], b>>
  BY <1>1, JumpIs
<1>4. Len(ItemsOf(seen.pos)) = 2 /\ ItemsOf(seen.pos)[1] = MI(PUSH1 + 1, SrcAt(seen.pos).arg)
  BY <1>1, <1>2, JumpCode DEF ItemsOf
<1>5. /\ Now(T, j) = MI(PUSH1 + 1, Symbol(seen.pos[1], b))
      /\ Off(T[j].p) \in {0, 1} /\ T[j].q \in Nat /\ Index(T[j]) = T[j].q - Off(seen.pos)
      /\ Len(Final(chosen, T[j].p)) = Off(T[j].p) + 2
  BY <1>3, <1>4, AtItem
<1>6. T[j].q = Off(T[j].p) + 1 /\ T[j].q < Len(Final(chosen, T[j].p))
  BY <1>1, <1>5
<1>7. stack = seen.stack /\ mem = seen.mem
  BY <1>6, AtFirst
<1>8. IsSymbol(chosen, T[j]) /\ KeyOf(Now(T, j)) = KeyOf(SrcAt(seen.pos))
  <2>1. Now(T, j).op = PUSH1 + 1 /\ Now(T, j).arg = Symbol(seen.pos[1], b)
    BY <1>5 DEF MI
  <2> QED BY <1>1, <1>3, <2>1 DEF IsSymbol, IsSymbolPush, Now, KeyOf
<1>9. PICK s : s = C(Num(labels[KeyOf(SrcAt(seen.pos))]), seen.stack)
  OBVIOUS
<1>10. Gives(T, j, s, seen.mem)
  BY <1>1, <1>7, <1>8, <1>9, GivesSymbol
<1>11. PICK x \in 1 .. Len(T) :
         Arrives(T, x, s, seen.mem) /\ T[x].p = T[j].p /\ T[x].q = T[j].q + 1 /\ T[x].q # 1
  BY <1>1, <1>6, <1>10, GoOn
<1>12. T[x].q = Off(T[x].p) + 2 /\ ~(T[x].q <= Off(T[x].p) + 1)
  BY <1>5, <1>6, <1>11
<1>13. SrcAt(seen.pos).op \notin {pGETLOCAL, pPUTLOCAL, pJUMPSUB}
  BY <1>2, PseudosDiffer, ZenonT(40)
<1>14. InsideWith(T[x], s, seen.mem)
  BY <1>1, <1>9, <1>11, <1>12, <1>13 DEF InsideWith
<1> QED BY <1>11, <1>14, StayInside

LEMMA LabelNumber ==
  ASSUME NEW T, NEW j, Ready(T, j), NEW f \in DOMAIN Program, NEW b \in 1 .. Len(Blks(f))
  PROVE  /\ NumberOf(Num(labels[<<f, b>>])) = labels[<<f, b>>] /\ labels[<<f, b>>] \in dests
         /\ \E x \in 1 .. Len(T) :
              T[x].p = Blk!StartOf(f, b) /\ T[x].q = 1 /\ T[x].at = labels[<<f, b>>]
<1>1. Loaded(T) /\ Addressable
  BY ReadyIs
<1>2. /\ labels[<<f, b>>] \in dests /\ labels[<<f, b>>] \in Nat /\ labels[<<f, b>>] < End
      /\ \E x \in 1 .. Len(T) :
           T[x].p = Blk!StartOf(f, b) /\ T[x].q = 1 /\ T[x].at = labels[<<f, b>>]
  BY <1>1, LabelDest
<1>3. Image(T) /\ End \in Nat
  BY <1>1, LoadedIs DEF Image, End
<1>4. labels[<<f, b>>] < Limit
  BY <1>1, <1>2, <1>3 DEF Addressable, Limit
<1> QED BY <1>2, <1>4, NumberOfNum

(* The second item jumps.                                                  *)
LEMMA AtJump ==
  ASSUME NEW T, NEW j, Ready(T, j), T[j].q > Off(T[j].p), Index(T[j]) = 2,
         IsJump(Src(chosen, seen.pos), seen.pos[1]), SrcAt(seen.pos).op = pJUMPTO
  PROVE  Reaches(T)
<1>1. /\ Standing(T, j) /\ Execute /\ T[j].p = seen.pos /\ seen.pos \in Positions
      /\ seen.pos[1] \in DOMAIN Program /\ SourceInstr = SrcAt(seen.pos) /\ IsSeq(seen.stack)
  BY ReadyIs
<1>2. Src(chosen, seen.pos) = SrcAt(seen.pos)
  BY <1>1, JumpIs
<1>3. PICK b \in 1 .. Len(Blks(seen.pos[1])) :
        SrcAt(seen.pos).arg = Symbol(seen.pos[1], b) /\ KeyOf(SrcAt(seen.pos)) = <<seen.pos[1], b>>
  BY <1>1, JumpIs
<1>4. ItemsOf(seen.pos)[2] = Plain(JUMP)
  BY <1>1, <1>2, JumpCode DEF ItemsOf
<1>5. Now(T, j) = Plain(JUMP)
  BY <1>4, AtItem
<1>6. stack = C(Num(labels[<<seen.pos[1], b>>]), seen.stack) /\ mem = seen.mem
  BY <1>1, <1>3 DEF Ready, Inside, InsideWith
<1>7. PICK a : a = labels[<<seen.pos[1], b>>]
  OBVIOUS
<1>8. NumberOf(Num(a)) = a /\ a \in dests
  BY <1>1, <1>7, LabelNumber
<1>9. PICK x \in 1 .. Len(T) : T[x].p = Blk!StartOf(seen.pos[1], b) /\ T[x].q = 1 /\ T[x].at = a
  BY <1>1, <1>7, LabelNumber
<1>10. Results = {Result(T[x].at, seen.stack, seen.mem)}
  BY <1>1, <1>5, <1>6, <1>7, <1>8, <1>9, GivesJump
<1>11. Arrives(T, x, seen.stack, seen.mem)
  BY <1>1, <1>10, ArriveOne
<1>12. pJUMPTO \notin {pJUMPSUB, pRETURNSUB}
  BY PseudosDiffer
<1>13. NextFrames(T[x], seen.mem) = frames
  BY <1>1, <1>12 DEF NextFrames
<1>14. /\ frames' = frames /\ seen'.pos = Blk!StartOf(seen.pos[1], b)
       /\ seen'.stack = seen.stack /\ seen'.mem = seen.mem
  BY <1>9, <1>11, <1>13 DEF Arrives
<1>15. JumpStep(b)
  BY <1>3, <1>14 DEF JumpStep, SameMemory
<1>16. SourceStep
  BY <1>15, SMTT(30) DEF SourceStep
<1> QED BY <1>9, <1>11, <1>16, ThenDone

LEMMA AtBranch ==
  ASSUME NEW T, NEW j, Ready(T, j), T[j].q > Off(T[j].p), Index(T[j]) = 2,
         IsJump(Src(chosen, seen.pos), seen.pos[1]), SrcAt(seen.pos).op = pJUMPIF
  PROVE  Reaches(T)
<1>1. /\ Standing(T, j) /\ Execute /\ T[j].p = seen.pos /\ seen.pos \in Positions
      /\ seen.pos[1] \in DOMAIN Program /\ SourceInstr = SrcAt(seen.pos) /\ IsSeq(seen.stack)
      /\ Len(seen.stack) >= OperandsOf(SrcAt(seen.pos))
  BY ReadyIs
<1>2. Src(chosen, seen.pos) = SrcAt(seen.pos)
  BY <1>1, JumpIs
<1>3. PICK b \in 1 .. Len(Blks(seen.pos[1])) :
        SrcAt(seen.pos).arg = Symbol(seen.pos[1], b) /\ KeyOf(SrcAt(seen.pos)) = <<seen.pos[1], b>>
  BY <1>1, JumpIs
<1>4. Len(ItemsOf(seen.pos)) = 2 /\ ItemsOf(seen.pos)[2] = Plain(JUMPI)
  BY <1>1, <1>2, JumpCode, PseudosDiffer DEF ItemsOf
<1>5. /\ Now(T, j) = Plain(JUMPI) /\ Index(T[j]) = T[j].q - Off(seen.pos)
      /\ Off(T[j].p) \in {0, 1} /\ T[j].q \in Nat /\ Len(Final(chosen, T[j].p)) = Off(T[j].p) + 2
  BY <1>4, AtItem
<1>6. T[j].q = Len(Final(chosen, T[j].p))
  BY <1>1, <1>5
<1>7. Len(seen.stack) >= 1
  BY <1>1, OperandsAre
<1>8. seen.stack = C(seen.stack[1], Rest1(seen.stack)) /\ IsSeq(Rest1(seen.stack))
  BY <1>1, <1>7, TopOf
<1>9. PICK a : a = labels[<<seen.pos[1], b>>]
  OBVIOUS
<1>10. stack = C(Num(a), C(seen.stack[1], Rest1(seen.stack))) /\ mem = seen.mem
  BY <1>1, <1>3, <1>8, <1>9 DEF Ready, Inside, InsideWith
<1>11. NumberOf(Num(a)) = a /\ a \in dests
  BY <1>1, <1>9, LabelNumber
<1>12. PICK x \in 1 .. Len(T) : T[x].p = Blk!StartOf(seen.pos[1], b) /\ T[x].q = 1 /\ T[x].at = a
  BY <1>1, <1>9, LabelNumber
<1>13. /\ seen.stack[1] = << >> => Gives(T, j, Rest1(seen.stack), seen.mem)
       /\ seen.stack[1] # << >> => Results = {Result(a, Rest1(seen.stack), seen.mem)}
  <2>1. PICK y : y = seen.stack[1]
    OBVIOUS
  <2>2. PICK r : r = Rest1(seen.stack)
    OBVIOUS
  <2>3. stack = C(Num(a), C(y, r)) /\ IsSeq(r) /\ NumberOf(Num(a)) \in dests
    BY <1>8, <1>10, <1>11, <2>1, <2>2
  <2>4. /\ y = << >> => Gives(T, j, r, mem)
        /\ y # << >> => Results = {Result(NumberOf(Num(a)), r, mem)}
    BY <1>1, <1>5, <2>3, GivesJumpIf
  <2> QED BY <1>10, <1>11, <2>1, <2>2, <2>4
<1>14. pJUMPIF \notin {pJUMPSUB, pRETURNSUB, pJUMPTO, STOP}
  BY DEF pJUMPIF, pJUMPSUB, pRETURNSUB, pJUMPTO, STOP
<1>15. CASE seen.stack[1] = << >>
  <2>1. PICK z \in 1 .. Len(T) :
          /\ Arrives(T, z, Rest1(seen.stack), seen.mem) /\ T[z].q = 1
          /\ Onwards /\ frames' = frames /\ seen'.stack = Rest1(seen.stack)
          /\ seen'.mem = seen.mem
    BY <1>6, <1>13, <1>14, <1>15, Straight
  <2>2. BranchStep(b)
    BY <1>3, <1>7, <1>15, <2>1 DEF BranchStep, SameMemory, Onwards
  <2>3. SourceStep
    BY <2>2, SMTT(30) DEF SourceStep
  <2> QED BY <2>1, <2>3, ThenDone
<1>16. CASE seen.stack[1] # << >>
  <2>1. Arrives(T, x, Rest1(seen.stack), seen.mem)
    BY <1>1, <1>12, <1>13, <1>16, ArriveOne
  <2>2. NextFrames(T[x], seen.mem) = frames
    BY <1>1, <1>14 DEF NextFrames
  <2>3. /\ frames' = frames /\ seen'.pos = Blk!StartOf(seen.pos[1], b)
        /\ seen'.stack = Rest1(seen.stack) /\ seen'.mem = seen.mem
    BY <1>12, <2>1, <2>2 DEF Arrives
  <2>4. BranchStep(b)
    BY <1>3, <1>7, <1>16, <2>3 DEF BranchStep, SameMemory
  <2>5. SourceStep
    BY <2>4 DEF SourceStep
  <2> QED BY <1>12, <2>1, <2>5, ThenDone
<1> QED BY <1>15, <1>16

LEMMA LocalIs ==
  ASSUME NEW p \in Positions, p[1] \in DOMAIN Program, IsLocal(Src(chosen, p), p[1])
  PROVE  /\ Src(chosen, p) = SrcAt(p) /\ SrcAt(p).op \in {pGETLOCAL, pPUTLOCAL}
         /\ SrcAt(p).arg.n \in Nat /\ SrcAt(p).arg.n < Program[p[1]].slots
         /\ SlotAt(p) \in Nat /\ SlotAt(p) + 32 <= SaveAt(p[1])
<1>1. PUSH32 \notin {pGETLOCAL, pPUTLOCAL}
  BY DEF pGETLOCAL, pPUTLOCAL, PUSH32
<1>2. Src(chosen, p) = SrcAt(p)
  BY <1>1, SrcOp, NotOpen DEF IsLocal
<1>3. SrcAt(p).arg.n \in Nat /\ SrcAt(p).arg.n < Program[p[1]].slots
  BY <1>2 DEF IsLocal, Count
<1>4. /\ Program[p[1]].slots \in Nat /\ Program[p[1]].objects \in Nat
      /\ SaveIndex(p[1]) = Program[p[1]].slots + Program[p[1]].objects + 1
  BY SourceAddresses DEF SaveIndex
<1>5. SlotAt(p) \in Nat /\ SlotAt(p) + 32 <= SaveAt(p[1])
  <2>1. PICK a, b, c : a = SrcAt(p).arg.n /\ b = Program[p[1]].slots /\ c = Program[p[1]].objects
    OBVIOUS
  <2>2. a \in Nat /\ b \in Nat /\ c \in Nat /\ a < b
    BY <1>3, <1>4, <2>1
  <2>3. 32 * (a + c) \in Nat /\ 32 * (a + c) + 32 <= 32 * (b + c + 1)
    BY <2>2
  <2> QED BY <1>4, <2>1, <2>3 DEF SlotAt, SaveAt
<1> QED BY <1>2, <1>3, <1>5 DEF IsLocal

LEMMA SlotRoom ==
  ASSUME NEW T, NEW j, Ready(T, j), IsLocal(Src(chosen, seen.pos), seen.pos[1])
  PROVE  /\ SlotAt(seen.pos) \in Nat /\ Fp + SlotAt(seen.pos) < Limit /\ Fp \in Nat
         /\ NumberOf(Num(Fp + SlotAt(seen.pos))) = Fp + SlotAt(seen.pos)
<1>1. seen.pos \in Positions /\ seen.pos[1] \in DOMAIN Program /\ Room(seen.pos[1], Fp)
  BY ReadyIs
<1>2. SlotAt(seen.pos) \in Nat /\ SlotAt(seen.pos) + 32 <= SaveAt(seen.pos[1])
  BY <1>1, LocalIs
<1>3. /\ Fp \in Nat /\ SaveAt(seen.pos[1]) \in Nat
      /\ NextAt(seen.pos[1]) = SaveAt(seen.pos[1]) + 32
  BY <1>1, RoomIs
<1>4. Fp + NextAt(seen.pos[1]) < Limit
  BY <1>1 DEF Room
<1>5. Limit \in Nat
  BY DEF Limit
<1>6. Fp + SlotAt(seen.pos) < Limit /\ Fp + SlotAt(seen.pos) \in Nat
  BY <1>2, <1>3, <1>4, <1>5
<1> QED BY <1>2, <1>3, <1>6, NumberOfNum

LEMMA AtLocal ==
  ASSUME NEW T, NEW j, Ready(T, j), T[j].q > Off(T[j].p), IsLocal(Src(chosen, seen.pos), seen.pos[1])
  PROVE  /\ Standing(T, j) /\ Execute /\ T[j].p = seen.pos /\ seen.pos \in Positions
         /\ SourceInstr = SrcAt(seen.pos) /\ IsSeq(seen.stack) /\ mem = seen.mem
         /\ SrcAt(seen.pos).op \in {pGETLOCAL, pPUTLOCAL}
         /\ LocalRow(Index(T[j]), stack, seen.stack, Fp, SlotAt(seen.pos))
         /\ Now(T, j) = ItemsOf(seen.pos)[Index(T[j])] /\ Index(T[j]) \in 1 .. 5
         /\ Len(Final(chosen, T[j].p)) = Off(T[j].p) + 5
         /\ T[j].q = Off(T[j].p) + Index(T[j]) /\ Off(T[j].p) \in {0, 1}
         /\ LocalTable(ItemsOf(seen.pos), SlotAt(seen.pos))
         /\ ItemsOf(seen.pos)[5] = Plain(IF SrcAt(seen.pos).op = pGETLOCAL THEN MLOAD ELSE MSTORE)
<1>1. /\ Standing(T, j) /\ Execute /\ T[j].p = seen.pos /\ seen.pos \in Positions
      /\ SourceInstr = SrcAt(seen.pos) /\ IsSeq(seen.stack) /\ seen.pos[1] \in DOMAIN Program
  BY ReadyIs
<1>2. Src(chosen, seen.pos) = SrcAt(seen.pos) /\ SrcAt(seen.pos).op \in {pGETLOCAL, pPUTLOCAL}
  BY <1>1, LocalIs
<1>3. mem = seen.mem /\ LocalRow(Index(T[j]), stack, seen.stack, Fp, SlotAt(seen.pos))
  BY <1>1, <1>2 DEF Ready, Inside, InsideWith
<1>4. /\ Len(ItemsOf(seen.pos)) = 5 /\ LocalTable(ItemsOf(seen.pos), SlotAt(seen.pos))
      /\ ItemsOf(seen.pos)[5] = Plain(IF SrcAt(seen.pos).op = pGETLOCAL THEN MLOAD ELSE MSTORE)
  BY <1>1, <1>2, LocalCode DEF ItemsOf, LocalTable, SlotAt
<1>5. /\ T[j].q - Off(seen.pos) \in 1 .. 5 /\ Index(T[j]) = T[j].q - Off(seen.pos)
      /\ Now(T, j) = ItemsOf(seen.pos)[Index(T[j])]
      /\ Len(Final(chosen, T[j].p)) = Off(T[j].p) + 5
      /\ Off(T[j].p) \in {0, 1} /\ T[j].q \in Nat
  BY <1>4, AtItem
<1>6. T[j].q = Off(T[j].p) + Index(T[j])
  BY <1>1, <1>5
<1> QED BY <1>1, <1>2, <1>3, <1>4, <1>5, <1>6

(* The address of the slot is put together.                                *)
LEMMA AtSlotAddress ==
  ASSUME NEW T, NEW j, Ready(T, j), T[j].q > Off(T[j].p),
         IsLocal(Src(chosen, seen.pos), seen.pos[1]), Index(T[j]) # 5
  PROVE  Reaches(T)
<1>1. PICK k, o : k = Index(T[j]) /\ o = Off(T[j].p)
  OBVIOUS
<1>2. /\ Standing(T, j) /\ Execute /\ T[j].p = seen.pos /\ IsSeq(seen.stack) /\ mem = seen.mem
      /\ SrcAt(seen.pos).op \in {pGETLOCAL, pPUTLOCAL}
      /\ LocalRow(k, stack, seen.stack, Fp, SlotAt(seen.pos))
      /\ Now(T, j) = ItemsOf(seen.pos)[k] /\ k \in 1 .. 5
      /\ Len(Final(chosen, T[j].p)) = o + 5
      /\ T[j].q = o + k /\ o \in {0, 1}
      /\ LocalTable(ItemsOf(seen.pos), SlotAt(seen.pos))
  BY <1>1, AtLocal
<1>3. k \in 1 .. 4 /\ T[j].q < Len(Final(chosen, T[j].p))
  BY <1>1, <1>2
<1>4. Room(seen.pos[1], Fp) /\ MLoad(mem, FPAddr) = Num(Fp)
  BY <1>2, ReadyIs
<1>5. SlotAt(seen.pos) \in Nat /\ Fp + SlotAt(seen.pos) < Limit
  BY SlotRoom
<1>6. PICK S, d, fp, g, t : /\ S = seen.stack /\ d = SlotAt(seen.pos) /\ fp = Fp /\ g = seen.pos[1]
                            /\ t = ItemsOf(seen.pos)
  OBVIOUS
<1>7. PICK s : Gives(T, j, s, mem) /\ LocalRow(k + 1, s, S, fp, d)
  <2>1. /\ LocalTable(t, d) /\ IsSeq(S) /\ Room(g, fp) /\ fp + d < Limit /\ d \in Nat
        /\ MLoad(mem, FPAddr) = Num(fp) /\ Now(T, j) = t[k] /\ LocalRow(k, stack, S, fp, d)
    BY <1>2, <1>4, <1>5, <1>6
  <2> HIDE <1>6
  <2> QED BY <1>2, <1>3, <2>1, LocalMicro
<1>8. PICK x \in 1 .. Len(T) :
        Arrives(T, x, s, seen.mem) /\ T[x].p = T[j].p /\ T[x].q = T[j].q + 1 /\ T[x].q # 1
  BY <1>2, <1>3, <1>7, GoOn
<1>9. Off(T[x].p) = o /\ Index(T[x]) = k + 1 /\ ~(T[x].q <= Off(T[x].p) + 1)
  BY <1>1, <1>2, <1>3, <1>8 DEF Index
<1>10. SrcAt(seen.pos).op \notin {pJUMPTO, pJUMPIF, pJUMPSUB}
  <2>1. {pGETLOCAL, pPUTLOCAL} \cap {pJUMPTO, pJUMPIF, pJUMPSUB} = {}
    BY DEF pGETLOCAL, pPUTLOCAL, pJUMPTO, pJUMPIF, pJUMPSUB
  <2> QED BY <1>2, <2>1
<1>11. InsideWith(T[x], s, seen.mem)
  BY <1>2, <1>6, <1>7, <1>8, <1>9, <1>10 DEF InsideWith
<1> QED BY <1>8, <1>11, StayInside

LEMMA AtGet ==
  ASSUME NEW T, NEW j, Ready(T, j), T[j].q > Off(T[j].p),
         IsLocal(Src(chosen, seen.pos), seen.pos[1]), Index(T[j]) = 5,
         SrcAt(seen.pos).op = pGETLOCAL
  PROVE  Reaches(T)
<1>1. /\ Standing(T, j) /\ IsSeq(seen.stack) /\ mem = seen.mem
      /\ LocalRow(5, stack, seen.stack, Fp, SlotAt(seen.pos))
      /\ Now(T, j) = Plain(MLOAD) /\ T[j].q = Len(Final(chosen, T[j].p))
  BY AtLocal
<1>2. stack = C(Num(Fp + SlotAt(seen.pos)), seen.stack)
  BY <1>1 DEF LocalRow
<1>3. NumberOf(Num(Fp + SlotAt(seen.pos))) = Fp + SlotAt(seen.pos)
  BY SlotRoom
<1>4. PICK v, S : v = MLoad(seen.mem, Fp + SlotAt(seen.pos)) /\ S = seen.stack
  OBVIOUS
<1>5. Gives(T, j, C(v, S), seen.mem)
  BY <1>1, <1>2, <1>3, <1>4, GivesLoad
<1>6. pGETLOCAL \notin {pJUMPTO, pRETURNSUB, STOP, pJUMPSUB}
  BY DEF pGETLOCAL, pJUMPTO, pRETURNSUB, STOP, pJUMPSUB
<1>7. PICK x \in 1 .. Len(T) :
        /\ Arrives(T, x, C(v, S), seen.mem) /\ T[x].q = 1
        /\ Onwards /\ frames' = frames /\ seen'.stack = C(v, S) /\ seen'.mem = seen.mem
  BY <1>1, <1>5, <1>6, Straight
<1>8. GetStep
  BY <1>4, <1>7 DEF GetStep, SameMemory
<1>9. SourceStep
  BY <1>8 DEF SourceStep
<1> QED BY <1>7, <1>9, ThenDone

LEMMA AtPut ==
  ASSUME NEW T, NEW j, Ready(T, j), T[j].q > Off(T[j].p),
         IsLocal(Src(chosen, seen.pos), seen.pos[1]), Index(T[j]) = 5,
         SrcAt(seen.pos).op = pPUTLOCAL
  PROVE  Reaches(T)
<1>1. /\ Standing(T, j) /\ IsSeq(seen.stack) /\ mem = seen.mem
      /\ LocalRow(5, stack, seen.stack, Fp, SlotAt(seen.pos))
      /\ Now(T, j) = Plain(MSTORE) /\ T[j].q = Len(Final(chosen, T[j].p))
      /\ Len(seen.stack) >= OperandsOf(SrcAt(seen.pos))
  BY AtLocal, ReadyIs, PseudosDiffer
<1>2. Len(seen.stack) >= 1
  BY <1>1, OperandsAre
<1>3. PICK y, r, a : y = seen.stack[1] /\ r = Rest1(seen.stack) /\ a = Fp + SlotAt(seen.pos)
  OBVIOUS
<1>4. seen.stack = C(y, r) /\ IsSeq(r)
  BY <1>1, <1>2, <1>3, TopOf
<1>5. stack = C(Num(a), C(y, r))
  BY <1>1, <1>3, <1>4 DEF LocalRow
<1>6. NumberOf(Num(a)) = a
  BY <1>3, SlotRoom
<1>7. Gives(T, j, r, Written(seen.mem, a, y))
  <2>1. Gives(T, j, r, Written(mem, NumberOf(Num(a)), y))
    BY <1>1, <1>4, <1>5, GivesStore
  <2> QED BY <1>1, <1>6, <2>1
<1>8. pPUTLOCAL \notin {pJUMPTO, pRETURNSUB, STOP, pJUMPSUB}
  BY DEF pPUTLOCAL, pJUMPTO, pRETURNSUB, STOP, pJUMPSUB
<1>9. PICK n : n = Written(seen.mem, a, y)
  OBVIOUS
<1>10. PICK x \in 1 .. Len(T) :
        /\ Arrives(T, x, r, n) /\ T[x].q = 1
        /\ Onwards /\ frames' = frames /\ seen'.stack = r /\ seen'.mem = n
  BY <1>1, <1>7, <1>8, <1>9, Straight
<1>11. PutStep
  BY <1>2, <1>3, <1>9, <1>10 DEF PutStep
<1>12. SourceStep
  BY <1>11 DEF SourceStep
<1> QED BY <1>10, <1>12, ThenDone

InCall(T, j, n, k) ==
  /\ Standing(T, j) /\ Execute /\ Loaded(T) /\ j \in 1 .. Len(T) /\ T[j].p = seen.pos
  /\ SourceInstr = SrcAt(seen.pos) /\ SrcAt(seen.pos).arg = Count(n)
  /\ Calling(T, j, ItemsOf(seen.pos), n, seen.pos[1], seen.stack, seen.mem, Fp)
  /\ k = Index(T[j]) /\ Now(T, j) = ItemsOf(seen.pos)[k] /\ T[j].q = Off(seen.pos) + k
  /\ Len(Final(chosen, seen.pos)) = Off(seen.pos) + 29 /\ Off(seen.pos) \in {0, 1}
  /\ CallRow(k, stack, mem, seen.stack, seen.mem, seen.pos[1], Fp, n, back[seen.pos])
  /\ k >= 18 => seen.pos \in DOMAIN back /\ back[seen.pos] >= 4

LEMMA AtCallItem ==
  ASSUME NEW T, NEW j, Ready(T, j), T[j].q > Off(T[j].p), SrcAt(seen.pos).op = pJUMPSUB
  PROVE  \E n \in 1 .. 16, k \in 1 .. 20 : InCall(T, j, n, k)
<1>1. /\ Standing(T, j) /\ Execute /\ Loaded(T) /\ j \in 1 .. Len(T) /\ T[j].p = seen.pos
      /\ SourceInstr = SrcAt(seen.pos) /\ chosen \in Operands /\ EntryOK(chosen, T[j])
      /\ IsSeq(seen.stack) /\ Room(seen.pos[1], Fp) /\ MLoad(seen.mem, FPAddr) = Num(Fp)
      /\ Len(seen.stack) >= OperandsOf(SrcAt(seen.pos))
  BY ReadyIs
<1>2. PICK n \in 1 .. 16 : CallAt(T[j], n)
  BY <1>1, CallIs
<1>3. SrcAt(seen.pos).arg.n = n /\ SrcAt(seen.pos).arg = Count(n)
  BY <1>1, <1>2 DEF CallAt, Count
<1>4. Len(seen.stack) >= n
  BY <1>1, <1>3, OperandsAre
<1>5. /\ CallTable(ItemsOf(seen.pos), n, seen.pos[1])
      /\ Len(Final(chosen, seen.pos)) = Off(seen.pos) + 29 /\ Off(seen.pos) \in {0, 1}
      /\ T[j].q - Off(seen.pos) \in 1 .. 29 /\ T[j].q \in Nat
      /\ Now(T, j) = ItemsOf(seen.pos)[T[j].q - Off(seen.pos)]
  BY <1>1, <1>2 DEF CallAt, ItemsOf, Now
<1>6. Calling(T, j, ItemsOf(seen.pos), n, seen.pos[1], seen.stack, seen.mem, Fp)
  BY <1>1, <1>4, <1>5 DEF Calling
<1>7. /\ Index(T[j]) <= 20
      /\ CallRow(Index(T[j]), stack, mem, seen.stack, seen.mem, seen.pos[1], Fp, n, back[seen.pos])
      /\ Index(T[j]) >= 18 => seen.pos \in DOMAIN back /\ back[seen.pos] >= 4
  BY <1>1, <1>3 DEF Ready, Inside, InsideWith
<1>8. PICK k : k = T[j].q - Off(seen.pos)
  OBVIOUS
<1>9. k = Index(T[j])
  BY <1>1, <1>8 DEF Index
<1>10. k \in 1 .. 20 /\ T[j].q = Off(seen.pos) + k
  <2>1. k <= 20
    BY <1>7, <1>9
  <2>2. PICK q, o : q = T[j].q /\ o = Off(seen.pos)
    OBVIOUS
  <2>3. q \in Nat /\ o \in {0, 1} /\ k \in 1 .. 29 /\ k = q - o
    BY <1>5, <1>8, <2>2
  <2>4. k \in 1 .. 20 /\ q = o + k
    BY <2>1, <2>3
  <2> QED BY <2>2, <2>4
<1>11. InCall(T, j, n, k)
  BY <1>1, <1>3, <1>5, <1>6, <1>7, <1>8, <1>9, <1>10 DEF InCall
<1> QED BY <1>10, <1>11

LEMMA BackNumber ==
  ASSUME NEW T, NEW j, Ready(T, j), NEW p \in DOMAIN back
  PROVE  back[p] \in Nat /\ back[p] < Limit /\ NumberOf(Num(back[p])) = back[p]
<1>1. Loaded(T) /\ Addressable
  BY ReadyIs
<1>2. back[p] \in Nat /\ back[p] < End
  BY <1>1, BackDest
<1>3. Image(T) /\ End \in Nat
  BY <1>1, LoadedIs DEF Image, End
<1>4. back[p] < Limit
  BY <1>1, <1>2, <1>3 DEF Addressable, Limit
<1> QED BY <1>2, <1>4, NumberOfNum

(* What the next item does in the code of a call.                          *)
LEMMA CallItem ==
  ASSUME NEW T, NEW j, Ready(T, j), T[j].q > Off(T[j].p), SrcAt(seen.pos).op = pJUMPSUB,
         NEW n \in 1 .. 16, NEW k \in 1 .. 19,
         Loaded(T), j \in 1 .. Len(T), T[j].p = seen.pos, Standing(T, j),
         Calling(T, j, ItemsOf(seen.pos), n, seen.pos[1], seen.stack, seen.mem, Fp),
         Now(T, j) = ItemsOf(seen.pos)[k], T[j].q = Off(seen.pos) + k,
         CallRow(k, stack, mem, seen.stack, seen.mem, seen.pos[1], Fp, n, back[seen.pos]),
         k >= 18 => seen.pos \in DOMAIN back /\ back[seen.pos] >= 4
  PROVE  \E s, m :
           /\ Gives(T, j, s, m)
           /\ CallRow(k + 1, s, m, seen.stack, seen.mem, seen.pos[1], Fp, n, back[seen.pos])
           /\ k >= 17 => seen.pos \in DOMAIN back /\ back[seen.pos] >= 4
<1>1. PICK t, S, M, f, fp, b :
        /\ t = ItemsOf(seen.pos) /\ S = seen.stack /\ M = seen.mem /\ f = seen.pos[1] /\ fp = Fp
        /\ b = back[seen.pos]
  OBVIOUS
<1>2. /\ Calling(T, j, t, n, f, S, M, fp) /\ Now(T, j) = t[k]
      /\ CallRow(k, stack, mem, S, M, f, fp, n, b)
  BY <1>1
<1>3. CASE k <= 16
  <2>1. PICK z \in Nat : z = 0
    OBVIOUS
  <2>2. CallRow(k, stack, mem, S, M, f, fp, n, z)
    BY <1>2, <1>3 DEF CallRow, JumpRow
  <2>3. PICK s, m : Gives(T, j, s, m) /\ CallRow(k + 1, s, m, S, M, f, fp, n, z)
    <3>1. ~(k >= 17) /\ k # 17
      BY <1>3
    <3> QED BY <1>2, <2>2, <3>1, CallMicro
  <2>4. CallRow(k + 1, s, m, S, M, f, fp, n, b)
    <3>1. PICK l : l = k + 1
      OBVIOUS
    <3>2. l # 18 /\ l # 19 /\ l # 20
      BY <1>3, <3>1
    <3>3. CallRow(l, s, m, S, M, f, fp, n, z)
      BY <2>3, <3>1
    <3>4. CallRow(l, s, m, S, M, f, fp, n, b)
      BY <3>2, <3>3 DEF CallRow, JumpRow
    <3> QED BY <3>1, <3>4
  <2> QED BY <1>1, <1>3, <2>3, <2>4
<1>4. CASE k >= 17
  <2>1. pc = T[j].at /\ T[j].at \in Nat
    BY StandingIs
  <2>2. k = 17 => seen.pos \in DOMAIN back /\ b = T[j].at + 4
    BY <1>1, ReturnAddress
  <2>3. seen.pos \in DOMAIN back /\ b >= 4
    BY <1>1, <1>4, <2>1, <2>2
  <2>4. b \in Nat /\ b < Limit
    BY <1>1, <2>3, BackNumber
  <2>5. k = 17 => pc = b - 4
    BY <2>1, <2>2
  <2>6. PICK s, m : Gives(T, j, s, m) /\ CallRow(k + 1, s, m, S, M, f, fp, n, b)
    BY <1>2, <2>3, <2>4, <2>5, CallMicro
  <2> QED BY <1>1, <2>3, <2>6
<1> QED BY <1>3, <1>4

LEMMA AtCallCode ==
  ASSUME NEW T, NEW j, Ready(T, j), T[j].q > Off(T[j].p), SrcAt(seen.pos).op = pJUMPSUB,
         Index(T[j]) # 20
  PROVE  Reaches(T)
<1>0. PICK n \in 1 .. 16, k \in 1 .. 20 : InCall(T, j, n, k)
  BY AtCallItem
<1>1. /\ Standing(T, j) /\ Execute /\ Loaded(T) /\ j \in 1 .. Len(T) /\ T[j].p = seen.pos
      /\ SourceInstr = SrcAt(seen.pos) /\ SrcAt(seen.pos).arg = Count(n)
      /\ Calling(T, j, ItemsOf(seen.pos), n, seen.pos[1], seen.stack, seen.mem, Fp)
      /\ k = Index(T[j]) /\ Now(T, j) = ItemsOf(seen.pos)[k] /\ T[j].q = Off(seen.pos) + k
      /\ Len(Final(chosen, seen.pos)) = Off(seen.pos) + 29 /\ Off(seen.pos) \in {0, 1}
      /\ CallRow(k, stack, mem, seen.stack, seen.mem, seen.pos[1], Fp, n, back[seen.pos])
      /\ k >= 18 => seen.pos \in DOMAIN back /\ back[seen.pos] >= 4
  BY <1>0 DEF InCall
<1>2. k \in 1 .. 19
  BY <1>1
<1>3. PICK s, m :
        /\ Gives(T, j, s, m)
        /\ CallRow(k + 1, s, m, seen.stack, seen.mem, seen.pos[1], Fp, n, back[seen.pos])
        /\ k >= 17 => seen.pos \in DOMAIN back /\ back[seen.pos] >= 4
  BY <1>1, <1>2, CallItem
<1>4. T[j].q < Len(Final(chosen, T[j].p)) /\ T[j].q \in Nat
  <2>1. PICK o : o = Off(seen.pos)
    OBVIOUS
  <2>2. T[j].q = o + k /\ o \in {0, 1} /\ Len(Final(chosen, T[j].p)) = o + 29
    BY <1>1, <2>1
  <2> QED BY <1>2, <2>2
<1>5. PICK x \in 1 .. Len(T) :
        Arrives(T, x, s, m) /\ T[x].p = T[j].p /\ T[x].q = T[j].q + 1 /\ T[x].q # 1
  BY <1>1, <1>3, <1>4, GoOn
<1>6. T[x].p = seen.pos /\ Index(T[x]) = k + 1 /\ ~(T[x].q <= Off(T[x].p) + 1)
  <2>1. PICK o : o = Off(seen.pos)
    OBVIOUS
  <2>2. /\ T[j].q = o + k /\ o \in {0, 1} /\ T[x].p = seen.pos /\ Off(T[x].p) = o
        /\ T[x].q = T[j].q + 1
    BY <1>1, <1>5, <2>1
  <2>3. T[x].q - o = k + 1 /\ ~(T[x].q <= o + 1)
    BY <1>2, <2>2
  <2> QED BY <2>2, <2>3 DEF Index
<1>7. SrcAt(seen.pos).op \notin {pJUMPTO, pJUMPIF, pGETLOCAL, pPUTLOCAL}
  <2>1. pJUMPSUB \notin {pJUMPTO, pJUMPIF, pGETLOCAL, pPUTLOCAL}
    BY DEF pGETLOCAL, pPUTLOCAL, pJUMPTO, pJUMPIF, pJUMPSUB
  <2> QED BY <2>1
<1>8. SrcAt(T[x].p).arg.n = n
  BY <1>1, <1>6 DEF Count
<1>9. /\ Index(T[x]) <= 20
      /\ Index(T[x]) >= 18 => T[x].p \in DOMAIN back /\ back[T[x].p] >= 4
      /\ CallRow(Index(T[x]), s, m, seen.stack, seen.mem, T[x].p[1], Fp, SrcAt(T[x].p).arg.n, back[T[x].p])
  <2>1. k + 1 <= 20 /\ (k + 1 >= 18 => k >= 17)
    BY <1>2
  <2> QED BY <1>3, <1>6, <1>8, <2>1
<1>10. InsideWith(T[x], s, m)
  BY <1>6, <1>7, <1>9 DEF InsideWith
<1> QED BY <1>5, <1>10, StayInside

LEMMA MovedLoad ==
  ASSUME NEW M, NEW f, NEW fp, Room(f, fp)
  PROVE  /\ MLoad(MovedSP(M, f, fp), FPAddr) = Num(fp + NextAt(f))
         /\ NumberOf(MLoad(MovedSP(M, f, fp), FPAddr)) = fp + NextAt(f)
<1>1. FPAddr # FPAddr + 32
  BY RoomIs
<1>2. MLoad(MovedSP(M, f, fp), FPAddr) = MLoad(MovedFP(M, f, fp), FPAddr)
  BY <1>1, LoadWritten DEF MovedSP
<1>3. MLoad(MovedFP(M, f, fp), FPAddr) = Num(fp + NextAt(f))
  BY LoadWritten DEF MovedFP
<1> QED BY <1>2, <1>3, RoomNumbers

LEMMA AtCallJump ==
  ASSUME NEW T, NEW j, Ready(T, j), T[j].q > Off(T[j].p), SrcAt(seen.pos).op = pJUMPSUB,
         Index(T[j]) = 20
  PROVE  Reaches(T)
<1>0. PICK n \in 1 .. 16, k \in 1 .. 20 : InCall(T, j, n, k)
  BY AtCallItem
<1>1. /\ Standing(T, j) /\ Execute /\ Loaded(T) /\ j \in 1 .. Len(T) /\ T[j].p = seen.pos
      /\ SourceInstr = SrcAt(seen.pos) /\ SrcAt(seen.pos).arg = Count(n)
      /\ Calling(T, j, ItemsOf(seen.pos), n, seen.pos[1], seen.stack, seen.mem, Fp)
      /\ k = Index(T[j]) /\ Now(T, j) = ItemsOf(seen.pos)[k] /\ T[j].q = Off(seen.pos) + k
      /\ Len(Final(chosen, seen.pos)) = Off(seen.pos) + 29 /\ Off(seen.pos) \in {0, 1}
      /\ CallRow(k, stack, mem, seen.stack, seen.mem, seen.pos[1], Fp, n, back[seen.pos])
      /\ k >= 18 => seen.pos \in DOMAIN back /\ back[seen.pos] >= 4
  BY <1>0 DEF InCall
<1>2. /\ IsSeq(seen.stack) /\ Len(seen.stack) >= n /\ Room(seen.pos[1], Fp)
      /\ CallTable(ItemsOf(seen.pos), n, seen.pos[1])
  BY <1>1 DEF Calling
<1>3. k = 20 /\ seen.pos \in DOMAIN back
  BY <1>1
<1>4. PICK S, M, f, fp, b :
        /\ S = seen.stack /\ M = seen.mem /\ f = seen.pos[1] /\ fp = Fp /\ b = back[seen.pos]
  OBVIOUS
<1>5. stack = C(S[n], Put(S, n, Num(b))) /\ mem = MovedSP(M, f, fp)
  BY <1>1, <1>3, <1>4 DEF CallRow, JumpRow
<1>6. Now(T, j) = Plain(JUMP)
  BY <1>1, <1>2, <1>3 DEF CallTable
<1>7. PICK g \in DOMAIN Program : S[n] = Num(labels[<<g, 1>>])
  <2>1. CallsFunction /\ SourceInstr.arg.n = n
    BY <1>1, ReadyIs DEF Count
  <2> QED BY <1>1, <1>4, <2>1 DEF CallsFunction
<1>8. 1 \in 1 .. Len(Blks(g))
  BY FunctionIs
<1>9. PICK a : a = labels[<<g, 1>>]
  OBVIOUS
<1>10. NumberOf(Num(a)) = a /\ a \in dests
  BY <1>8, <1>9, LabelNumber
<1>11. PICK x \in 1 .. Len(T) : T[x].p = Blk!StartOf(g, 1) /\ T[x].q = 1 /\ T[x].at = a
  BY <1>8, <1>9, LabelNumber
<1>12. PICK s, m : s = Put(S, n, Num(b)) /\ m = MovedSP(M, f, fp)
  OBVIOUS
<1>13. IsSeq(s)
  <2>1. Len(S) \in Nat /\ IsSeq(S) /\ n \in 1 .. Len(S)
    BY <1>2, <1>4, SeqFacts
  <2> QED BY <1>12, <2>1, ExceptIs
<1>14. stack = C(Num(a), s) /\ mem = m
  BY <1>5, <1>7, <1>9, <1>12
<1>15. Results = {Result(NumberOf(Num(a)), s, mem)}
  BY <1>1, <1>6, <1>10, <1>13, <1>14, GivesJump
<1>16. Arrives(T, x, s, m)
  BY <1>1, <1>10, <1>11, <1>14, <1>15, ArriveOne
<1>17. T[x].p[1] = g
  BY <1>8, <1>11, StartIs
<1>18. NumberOf(MLoad(m, FPAddr)) = fp + NextAt(f)
  BY <1>2, <1>4, <1>12, MovedLoad
<1>19. NextFrames(T[x], m) = Append(frames, [f |-> g, fp |-> Fp + NextAt(seen.pos[1])])
  BY <1>1, <1>4, <1>17, <1>18 DEF NextFrames
<1>20. /\ frames' = Append(frames, [f |-> g, fp |-> Fp + NextAt(seen.pos[1])])
       /\ seen'.pos = Blk!StartOf(g, 1) /\ seen'.stack = s /\ seen'.mem = m
  BY <1>11, <1>16, <1>19 DEF Arrives
<1>21. CallStep(n, g)
  BY <1>1, <1>2, <1>3, <1>4, <1>7, <1>12, <1>20 DEF CallStep
<1>22. SourceStep
  BY <1>21 DEF SourceStep
<1> QED BY <1>11, <1>16, <1>22, ThenDone

(* A return jumps behind the call.                                         *)
LEMMA AtReturn ==
  ASSUME NEW T, NEW j, Ready(T, j), T[j].q > Off(T[j].p), IsSimple(Src(chosen, seen.pos)),
         SrcAt(seen.pos).op = pRETURNSUB
  PROVE  Reaches(T)
<1>1. Len(ItemsOf(seen.pos)) = 1 /\ ItemsOf(seen.pos)[1] = Plain(JUMP)
  BY SimpleItem, ReadyIs
<1>2. /\ Now(T, j) = Plain(JUMP) /\ stack = seen.stack /\ mem = seen.mem /\ Standing(T, j) /\ Execute
      /\ IsSeq(seen.stack) /\ Len(seen.stack) >= OperandsOf(SrcAt(seen.pos)) /\ Loaded(T)
      /\ ReturnsToCaller /\ SourceInstr = SrcAt(seen.pos)
  BY <1>1, AtOnly, ReadyIs
<1>3. Len(seen.stack) >= 1
  BY <1>2, OperandsAre
<1>4. /\ Len(frames) > 1
      /\ \E p \in DOMAIN back : p[1] = frames[Len(frames) - 1].f /\ seen.stack[1] = Num(back[p])
  BY <1>2 DEF ReturnsToCaller
<1>5. PICK p \in DOMAIN back : p[1] = frames[Len(frames) - 1].f /\ seen.stack[1] = Num(back[p])
  BY <1>4
<1>6. PICK a, r : a = back[p] /\ r = Rest1(seen.stack)
  OBVIOUS
<1>7. a \in dests /\ p \in Positions /\ SrcAt(p).op = pJUMPSUB
  BY <1>2, <1>6, BackDest
<1>8. PICK x \in 1 .. Len(T) : T[x].p = p /\ T[x].q = Off(p) + 21 /\ T[x].at = a
  BY <1>2, <1>6, BackDest
<1>9. NumberOf(Num(a)) = a
  BY <1>6, BackNumber
<1>10. stack = C(Num(a), r) /\ IsSeq(r)
  BY <1>2, <1>3, <1>5, <1>6, TopOf
<1>11. Results = {Result(NumberOf(Num(a)), r, mem)}
  BY <1>2, <1>7, <1>9, <1>10, GivesJump
<1>12. Arrives(T, x, r, seen.mem)
  BY <1>2, <1>8, <1>9, <1>11, ArriveOne
<1>13. Off(p) \in {0, 1}
  BY DEF Off
<1>14. T[x].q # 1 /\ Index(T[x]) = 21
  BY <1>8, <1>13 DEF Index
<1>15. BackRow(21, r, seen.mem, r, seen.mem, Fp)
  BY DEF BackRow
<1>16. ReturningWith(T[x], r, seen.mem)
  BY <1>3, <1>4, <1>5, <1>6, <1>7, <1>8, <1>14, <1>15 DEF ReturningWith
<1> QED BY <1>12, <1>14, <1>16, StayInside

ReadyBack(T, j) ==
  Standing(T, j) /\ Execute /\ FramesOK /\ Disciplined /\ Returning(T[j])

(* In the code behind a call: the state, n and k as in InCall.             *)
InReturn(T, j, n, k) ==
  /\ Standing(T, j) /\ Execute /\ T[j].p \in Positions
  /\ SourceInstr = SrcAt(seen.pos) /\ SrcAt(seen.pos).op = pRETURNSUB
  /\ SrcAt(T[j].p).op = pJUMPSUB
  /\ Len(frames) > 1 /\ T[j].p[1] = frames[Len(frames) - 1].f /\ T[j].p \in DOMAIN back
  /\ Len(seen.stack) >= 1 /\ seen.stack[1] = Num(back[T[j].p])
  /\ IsSeq(Rest1(seen.stack)) /\ Room(seen.pos[1], Fp) /\ MLoad(seen.mem, FPAddr) = Num(Fp)
  /\ k = Index(T[j]) /\ T[j].q = Off(T[j].p) + k /\ Off(T[j].p) \in {0, 1}
  /\ Len(Final(chosen, T[j].p)) = Off(T[j].p) + 29
  /\ CallTable(ItemsOf(T[j].p), n, T[j].p[1]) /\ Now(T, j) = ItemsOf(T[j].p)[k]
  /\ BackRow(k, stack, mem, Rest1(seen.stack), seen.mem, Fp)

LEMMA AtBackItem ==
  ASSUME NEW T, NEW j, ReadyBack(T, j)
  PROVE  \E n \in 1 .. 16, k \in 21 .. 29 : InReturn(T, j, n, k)
<1>1. Standing(T, j) /\ Execute /\ FramesOK /\ Disciplined /\ Returning(T[j])
  BY DEF ReadyBack
<1>2. j \in 1 .. Len(T) /\ EntryOK(chosen, T[j]) /\ chosen \in Operands /\ status = "running"
  BY <1>1, StandingIs DEF Image, Standing
<1>3. T[j].p \in Positions
  BY <1>2 DEF EntryOK
<1>4. /\ SrcAt(seen.pos).op = pRETURNSUB /\ SrcAt(T[j].p).op = pJUMPSUB
      /\ Len(frames) > 1 /\ T[j].p[1] = frames[Len(frames) - 1].f /\ T[j].p \in DOMAIN back
      /\ Len(seen.stack) >= 1 /\ seen.stack[1] = Num(back[T[j].p])
      /\ Index(T[j]) \in 21 .. 29
      /\ BackRow(Index(T[j]), stack, mem, Rest1(seen.stack), seen.mem, Fp)
  BY <1>1 DEF Returning, ReturningWith
<1>5. /\ seen.pos \in Positions /\ IsSeq(seen.stack) /\ MLoad(seen.mem, FPAddr) = Num(Fp)
      /\ IsSeq(frames) /\ Len(frames) >= 1 /\ frames[Len(frames)].f = seen.pos[1]
  BY <1>1 DEF FramesOK, Chained, Linked, Fp
<1>6. SourceInstr = SrcAt(seen.pos)
  BY DEF SourceInstr, SrcAt, Blks
<1>7. Len(frames) \in 1 .. Len(frames) /\ DOMAIN frames = 1 .. Len(frames) /\ Len(frames) \in Nat
  BY <1>5, SeqFacts
<1>8. Room(seen.pos[1], Fp)
  <2>1. Fp \in Nat /\ Fp >= FPAddr + 64 /\ seen.pos[1] \in DOMAIN Program
    BY <1>1, <1>5, <1>7 DEF FramesOK, Fp, Chained, Linked
  <2>2. Fp + NextAt(seen.pos[1]) < Limit
    BY <1>1, <1>2, <1>5, <1>7 DEF Disciplined, Addressable, Fp
  <2>3. FPAddr \in Nat
    BY <2>1, SourceAddresses
  <2> QED BY <2>1, <2>2, <2>3 DEF Room
<1>9. IsSeq(Rest1(seen.stack))
  BY <1>4, <1>5, TopOf
<1>10. PICK n \in 1 .. 16 : CallAt(T[j], n)
  BY <1>2, <1>4, CallIs
<1>11. PICK k \in 21 .. 29 : k = Index(T[j])
  BY <1>4
<1>12. T[j].q = Off(T[j].p) + k /\ Off(T[j].p) \in {0, 1} /\ T[j].q > Off(T[j].p)
  <2>1. PICK q, o : q = T[j].q /\ o = Off(T[j].p)
    OBVIOUS
  <2>2. q \in Nat /\ o \in {0, 1} /\ k = q - o
    BY <1>2, <1>11, <2>1, EntryAt DEF Index
  <2>3. q = o + k /\ q > o
    BY <2>2
  <2> QED BY <2>1, <2>2, <2>3
<1>13. /\ CallTable(ItemsOf(T[j].p), n, T[j].p[1]) /\ Len(Final(chosen, T[j].p)) = Off(T[j].p) + 29
       /\ Now(T, j) = ItemsOf(T[j].p)[T[j].q - Off(T[j].p)]
  BY <1>10, <1>12 DEF CallAt, ItemsOf, Now
<1>14. Now(T, j) = ItemsOf(T[j].p)[k]
  BY <1>11, <1>13 DEF Index
<1>15. InReturn(T, j, n, k)
  BY <1>1, <1>3, <1>4, <1>5, <1>6, <1>8, <1>9, <1>11, <1>12, <1>13, <1>14 DEF InReturn
<1> QED BY <1>15

LEMMA AtBackCode ==
  ASSUME NEW T, NEW j, NEW n \in 1 .. 16, NEW k \in 21 .. 28, InReturn(T, j, n, k)
  PROVE  Reaches(T)
<1>1. /\ Standing(T, j) /\ Execute /\ T[j].q = Off(T[j].p) + k /\ Off(T[j].p) \in {0, 1}
      /\ Len(Final(chosen, T[j].p)) = Off(T[j].p) + 29
  BY DEF InReturn
<1>2. PICK t, S, M, f, g, fp :
        /\ t = ItemsOf(T[j].p) /\ S = Rest1(seen.stack) /\ M = seen.mem /\ f = T[j].p[1]
        /\ g = seen.pos[1] /\ fp = Fp
  OBVIOUS
<1>3. /\ IsSeq(S) /\ Room(g, fp) /\ MLoad(M, FPAddr) = Num(fp)
      /\ CallTable(t, n, f) /\ Now(T, j) = t[k] /\ BackRow(k, stack, mem, S, M, fp)
  BY <1>2 DEF InReturn
<1>4. PICK s : Gives(T, j, s, M) /\ BackRow(k + 1, s, M, S, M, fp)
  BY <1>1, <1>3, BackMicro
<1>5. PICK o : o = Off(T[j].p)
  OBVIOUS
<1>6. T[j].q < Len(Final(chosen, T[j].p)) /\ T[j].q = o + k /\ o \in {0, 1}
  BY <1>1, <1>5
<1>7. PICK x \in 1 .. Len(T) :
        Arrives(T, x, s, M) /\ T[x].p = T[j].p /\ T[x].q = T[j].q + 1 /\ T[x].q # 1
  BY <1>1, <1>4, <1>6, GoOn
<1>8. Index(T[x]) = k + 1 /\ k + 1 \in 21 .. 29
  BY <1>5, <1>6, <1>7 DEF Index
<1>9. ReturningWith(T[x], s, M)
  BY <1>2, <1>4, <1>7, <1>8 DEF ReturningWith, InReturn
<1> QED BY <1>7, <1>9, StayInside

LEMMA AtBackStore ==
  ASSUME NEW T, NEW j, NEW n \in 1 .. 16, InReturn(T, j, n, 29)
  PROVE  Reaches(T)
<1>1. /\ Standing(T, j) /\ Execute /\ T[j].q = Len(Final(chosen, T[j].p))
      /\ SrcAt(T[j].p).op = pJUMPSUB /\ T[j].p \in Positions
      /\ SourceInstr = SrcAt(seen.pos) /\ SrcAt(seen.pos).op = pRETURNSUB
  BY DEF InReturn
<1>2. PICK t, S, M, f, g, fp :
        /\ t = ItemsOf(T[j].p) /\ S = Rest1(seen.stack) /\ M = seen.mem /\ f = T[j].p[1]
        /\ g = seen.pos[1] /\ fp = Fp
  OBVIOUS
<1>3. /\ IsSeq(S) /\ Room(g, fp)
      /\ CallTable(t, n, f) /\ Now(T, j) = t[29] /\ BackRow(29, stack, mem, S, M, fp)
  BY <1>2 DEF InReturn
<1>4. PICK m : m = Written(M, FPAddr, MLoad(M, fp - 32))
  OBVIOUS
<1>5. Gives(T, j, S, m)
  BY <1>1, <1>3, <1>4, BackStore
<1>6. ~IsLast(T[j].p)
  <2>1. pJUMPSUB \notin {pJUMPTO, pRETURNSUB, STOP}
    BY DEF pJUMPTO, pRETURNSUB, STOP, pJUMPSUB
  <2> QED BY <1>1, <2>1, NotLast
<1>7. PICK x \in 1 .. Len(T) :
        Arrives(T, x, S, m) /\ T[x].p = Blk!After(T[j].p) /\ T[x].q = 1
  BY <1>1, <1>5, <1>6, GoNext
<1>8. NextFrames(T[x], m) = SubSeq(frames, 1, Len(frames) - 1)
  BY <1>1, PseudosDiffer DEF NextFrames
<1>9. /\ frames' = SubSeq(frames, 1, Len(frames) - 1) /\ seen'.pos = Blk!After(T[j].p)
      /\ seen'.stack = S /\ seen'.mem = m
  BY <1>7, <1>8 DEF Arrives
<1>10. ReturnStep(T[j].p)
  BY <1>2, <1>4, <1>9 DEF ReturnStep, InReturn
<1>11. SourceStep
  BY <1>10 DEF SourceStep, ReturnStep
<1> QED BY <1>7, <1>11, ThenDone

LEMMA AtBack ==
  ASSUME NEW T, NEW j, ReadyBack(T, j)
  PROVE  Reaches(T)
<1>1. PICK n \in 1 .. 16, k \in 21 .. 29 : InReturn(T, j, n, k)
  BY AtBackItem
<1>2. k \in 21 .. 28 \/ k = 29
  OBVIOUS
<1> QED BY <1>1, <1>2, AtBackCode, AtBackStore

(* Every instruction of the machine is one step of the way through the     *)
(* code of a source instruction.                                           *)
LEMMA AtInside ==
  ASSUME NEW T, NEW j, Ready(T, j)
  PROVE  Reaches(T)
<1> DEFINE m == Src(chosen, seen.pos)
           f == seen.pos[1]
<1>1. /\ Standing(T, j) /\ Execute /\ T[j].p = seen.pos /\ chosen \in Operands
      /\ EntryOK(chosen, T[j]) /\ seen.pos \in Positions
  BY ReadyIs
<1>2. CASE T[j].q <= Off(T[j].p)
  BY <1>2, AtDest
<1>3. CASE T[j].q > Off(T[j].p)
  <2>1. IsSource(m, f) /\ m.op = SrcAt(seen.pos).op
    BY <1>3, AtItem, SrcOp
  <2>2. CASE IsConst(m)
    BY <1>3, <2>2, AtConst
  <2>3. CASE IsAddress(m)
    BY <1>3, <2>3, AtAddress
  <2>4. CASE IsSimple(m)
    <3>1. m.op # STOP
      <4>1. CASE m.op = STOP
        <5>1. STOP # pRETURNSUB
          BY DEF STOP, pRETURNSUB
        <5>2. Len(ItemsOf(seen.pos)) = 1 /\ ItemsOf(seen.pos)[1] = Plain(STOP)
          BY <1>1, <2>1, <2>4, <4>1, <5>1, SimpleItem
        <5>3. Now(T, j) = Plain(STOP)
          BY <1>3, <5>2, AtOnly
        <5>4. Fetch = STOP
          BY <1>1, <5>3, StandingIs, PlainIs
        <5> QED BY <1>1, <5>4 DEF Execute
      <4> QED BY <4>1
    <3>2. SrcAt(seen.pos).op \in {CALLDATASIZE, POP, pRETURNSUB}
      BY <2>1, <2>4, <3>1 DEF IsSimple
    <3> QED BY <1>3, <2>4, <3>2, AtInput, AtPop, AtReturn
  <2>5. CASE IsCounted(m)
    <3>1. SrcAt(seen.pos).op \in {SWAP_r, DUP_r, pJUMPSUB}
      BY <2>1, <2>5 DEF IsCounted
    <3>2. CASE SrcAt(seen.pos).op = pJUMPSUB
      BY <1>3, <3>2, AtCallCode, AtCallJump
    <3> QED BY <1>3, <2>5, <3>1, <3>2, AtSwap, AtDup
  <2>6. CASE IsLocal(m, f)
    <3>1. SrcAt(seen.pos).op \in {pGETLOCAL, pPUTLOCAL}
      BY <2>1, <2>6 DEF IsLocal
    <3> QED BY <1>3, <2>6, <3>1, AtSlotAddress, AtGet, AtPut
  <2>7. CASE IsJump(m, f)
    <3>1. SrcAt(seen.pos).op \in {pJUMPTO, pJUMPIF} /\ m = SrcAt(seen.pos) /\ f \in DOMAIN Program
      BY <1>1, <2>7, JumpIs, ReadyIs
    <3>2. Len(ItemsOf(seen.pos)) = 2
      BY <2>7, <3>1, JumpCode DEF ItemsOf
    <3>3. Index(T[j]) \in 1 .. 2
      BY <1>3, <3>2, AtItem
    <3>4. Index(T[j]) = 1 \/ Index(T[j]) = 2
      BY <3>3
    <3> QED BY <1>3, <2>7, <3>1, <3>4, AtLabel, AtJump, AtBranch
  <2> QED BY <2>1, <2>2, <2>3, <2>4, <2>5, <2>6, <2>7 DEF IsSource
<1>4. T[j].q <= Off(T[j].p) \/ T[j].q > Off(T[j].p)
  BY <1>1, EntryAt
<1> QED BY <1>2, <1>3, <1>4

(* The frames grow upwards from the first.                                 *)
LEMMA ChainIs ==
  ASSUME NEW F, Chained(F)
  PROVE  /\ IsSeq(F) /\ Len(F) \in Nat /\ Len(F) \in 1 .. Len(F) /\ FPAddr \in Nat
         /\ \A k \in 1 .. Len(F) :
              /\ F[k].fp \in Nat /\ F[k].fp >= FPAddr + 64 /\ F[k].f \in DOMAIN Program
              /\ NextAt(F[k].f) \in Nat /\ NextAt(F[k].f) >= 64
              /\ F[k].fp <= F[Len(F)].fp
         /\ \A k \in 2 .. Len(F) : k \in 1 .. Len(F) /\ F[k].fp >= FPAddr + 128
<1>1. IsSeq(F) /\ Len(F) \in Nat /\ Len(F) >= 1 /\ Len(F) \in 1 .. Len(F) /\ 1 \in 1 .. Len(F)
  BY SeqFacts DEF Chained
<1>2. ASSUME NEW k \in 1 .. Len(F)
      PROVE  /\ F[k].fp \in Nat /\ F[k].fp >= FPAddr + 64 /\ F[k].f \in DOMAIN Program
             /\ NextAt(F[k].f) \in Nat /\ NextAt(F[k].f) >= 64 /\ FPAddr \in Nat
  <2>1. F[k].fp \in Nat /\ F[k].fp >= FPAddr + 64 /\ F[k].f \in DOMAIN Program
    BY DEF Chained
  <2>2. PICK i : i = SaveIndex(F[k].f)
    OBVIOUS
  <2>3. i \in Nat /\ i > 0 /\ FPAddr \in Nat
    BY <2>1, <2>2, SourceAddresses
  <2>4. 32 * (i + 1) \in Nat /\ 32 * (i + 1) >= 64
    BY <2>3
  <2> QED BY <2>1, <2>2, <2>3, <2>4 DEF NextAt
<1>3. ASSUME NEW i \in 1 .. Len(F), NEW k \in 1 .. Len(F), i < k
      PROVE  F[i].fp + 64 <= F[k].fp
  <2>1. F[i].fp + NextAt(F[i].f) <= F[k].fp
    BY <1>3 DEF Chained
  <2> QED BY <1>2, <2>1, SMTT(30)
<1>4. ASSUME NEW k \in 1 .. Len(F) PROVE F[k].fp <= F[Len(F)].fp
  <2>1. CASE k = Len(F)
    BY <1>1, <1>2, <2>1
  <2>2. CASE k < Len(F)
    <3>1. F[k].fp + 64 <= F[Len(F)].fp
      BY <1>1, <1>3, <2>2
    <3> QED BY <1>1, <1>2, <3>1, SMTT(30)
  <2> QED BY <1>1, <2>1, <2>2
<1>5. ASSUME NEW k \in 2 .. Len(F) PROVE k \in 1 .. Len(F) /\ F[k].fp >= FPAddr + 128
  <2>1. k \in 1 .. Len(F) /\ 1 < k
    BY <1>1
  <2>2. F[1].fp + 64 <= F[k].fp
    BY <1>1, <1>3, <2>1
  <2>3. F[1].fp >= FPAddr + 64 /\ F[1].fp \in Nat /\ F[k].fp \in Nat /\ FPAddr \in Nat
    BY <1>1, <1>2, <2>1
  <2> QED BY <2>1, <2>2, <2>3
<1>6. FPAddr \in Nat
  BY <1>1, <1>2
<1> QED BY <1>1, <1>2, <1>4, <1>5, <1>6

(* Writing a slot leaves the pointers alone.                               *)
LEMMA LinkedPut ==
  ASSUME NEW F, NEW M, Chained(F), Linked(F, M), NEW d \in Nat, NEW v
  PROVE  Linked(F, Written(M, F[Len(F)].fp + d, v))
<1>1. PICK a, m : a = F[Len(F)].fp + d /\ m = Written(M, a, v)
  OBVIOUS
<1>2. Len(F) \in 1 .. Len(F) /\ FPAddr \in Nat /\ Len(F) \in Nat
  BY ChainIs
<1>3. F[Len(F)].fp \in Nat /\ F[Len(F)].fp >= FPAddr + 64
  BY <1>2, ChainIs
<1>4. a # FPAddr
  BY <1>1, <1>2, <1>3
<1>5. MLoad(m, FPAddr) = Num(F[Len(F)].fp)
  BY <1>1, <1>4, LoadWritten DEF Linked
<1>6. ASSUME NEW k \in 2 .. Len(F) PROVE MLoad(m, F[k].fp - 32) = Num(F[k - 1].fp)
  <2>1. k \in 1 .. Len(F)
    BY ChainIs
  <2>2. F[k].fp \in Nat /\ F[k].fp <= F[Len(F)].fp
    BY <2>1, ChainIs
  <2>3. F[k].fp - 32 # a
    BY <1>1, <1>3, <2>2
  <2> QED BY <1>1, <2>3, LoadWritten DEF Linked
<1> QED BY <1>1, <1>5, <1>6 DEF Linked

LEMMA ChainCall ==
  ASSUME NEW F, NEW M, Chained(F), Linked(F, M), NEW f, f = F[Len(F)].f, NEW fp, fp = F[Len(F)].fp,
         Room(f, fp), NEW g \in DOMAIN Program,
         NEW G, G = Append(F, [f |-> g, fp |-> fp + NextAt(f)])
  PROVE  Chained(G) /\ Linked(G, MovedSP(M, f, fp))
<1>1. PICK n : n = Len(F)
  OBVIOUS
<1>2. IsSeq(F) /\ n \in Nat /\ n \in 1 .. n /\ FPAddr \in Nat
  BY <1>1, ChainIs
<1>3. /\ IsSeq(G) /\ Len(G) = n + 1 /\ G[n + 1] = [f |-> g, fp |-> fp + NextAt(f)]
      /\ \A k \in 1 .. n : G[k] = F[k]
  BY <1>1, <1>2, Appended
<1>4. \A k \in 1 .. n :
        /\ F[k].fp \in Nat /\ F[k].fp >= FPAddr + 64 /\ F[k].f \in DOMAIN Program
        /\ NextAt(F[k].f) \in Nat /\ NextAt(F[k].f) >= 64 /\ F[k].fp <= fp
  BY <1>1, ChainIs
<1>5. NextAt(f) \in Nat /\ NextAt(f) >= 64 /\ fp \in Nat /\ fp >= FPAddr + 64
  BY <1>1, <1>2, <1>4
<1>6. PICK q : q = fp + NextAt(f)
  OBVIOUS
<1>7. q \in Nat /\ q >= FPAddr + 64 /\ G[n + 1].f = g /\ G[n + 1].fp = q
  BY <1>2, <1>3, <1>5, <1>6
<1>8. ASSUME NEW k \in 1 .. Len(G)
      PROVE  G[k].f \in DOMAIN Program /\ G[k].fp \in Nat /\ G[k].fp >= FPAddr + 64
  <2>1. k \in 1 .. n \/ k = n + 1
    BY <1>2, <1>3
  <2> QED BY <1>3, <1>4, <1>7, <2>1
<1>9. ASSUME NEW i \in 1 .. Len(G), NEW k \in 1 .. Len(G), i < k
      PROVE  G[i].fp + NextAt(G[i].f) <= G[k].fp
  <2>1. i \in 1 .. n /\ G[i] = F[i]
    BY <1>2, <1>3, <1>9
  <2>2. CASE k \in 1 .. n
    <3>1. F[i].fp + NextAt(F[i].f) <= F[k].fp
      BY <1>1, <1>9, <2>1, <2>2 DEF Chained
    <3> QED BY <1>3, <2>1, <2>2, <3>1
  <2>3. CASE k = n + 1
    <3>1. CASE i = n
      BY <1>1, <1>5, <1>6, <1>7, <2>1, <2>3, <3>1
    <3>2. CASE i < n
      <4>1. F[i].fp + NextAt(F[i].f) <= F[n].fp
        BY <1>1, <1>2, <2>1, <3>2 DEF Chained
      <4>2. F[i].fp \in Nat /\ NextAt(F[i].f) \in Nat
        BY <1>4, <2>1
      <4>3. F[i].fp + NextAt(F[i].f) <= q
        BY <1>1, <1>5, <1>6, <4>1, <4>2, SMTT(30)
      <4> QED BY <1>7, <2>1, <2>3, <4>3
    <3> QED BY <1>2, <2>1, <3>1, <3>2
  <2> QED BY <1>2, <1>3, <2>2, <2>3
<1>10. Chained(G)
  <2>1. Len(G) >= 1
    BY <1>2, <1>3
  <2> QED BY <1>3, <1>8, <1>9, <2>1 DEF Chained
<1>11. MLoad(MovedSP(M, f, fp), FPAddr) = Num(G[Len(G)].fp)
  BY <1>3, <1>6, <1>7, MovedLoad
<1>12. ASSUME NEW b \in Int, b # FPAddr, b # FPAddr + 32
       PROVE  MLoad(MovedSP(M, f, fp), b) = IF b = fp + SaveAt(f) THEN Num(fp) ELSE MLoad(M, b)
  <2>1. MLoad(MovedSP(M, f, fp), b) = MLoad(MovedFP(M, f, fp), b)
    BY <1>12, LoadWritten DEF MovedSP
  <2>2. MLoad(MovedFP(M, f, fp), b) = MLoad(Saved(M, f, fp), b)
    BY <1>12, LoadWritten DEF MovedFP
  <2>3. MLoad(Saved(M, f, fp), b) = IF b = fp + SaveAt(f) THEN Num(fp) ELSE MLoad(M, b)
    BY LoadWritten DEF Saved
  <2> QED BY <2>1, <2>2, <2>3
<1>13. /\ SaveAt(f) \in Nat /\ fp + SaveAt(f) = q - 32
  BY <1>6, RoomIs
<1>14. ASSUME NEW k \in 2 .. Len(G)
       PROVE  MLoad(MovedSP(M, f, fp), G[k].fp - 32) = Num(G[k - 1].fp)
  <2>1. PICK b : b = G[k].fp - 32
    OBVIOUS
  <2>2. CASE k = n + 1
    <3>1. b = q - 32 /\ k - 1 = n /\ G[n] = F[n] /\ F[n].fp = fp
      BY <1>1, <1>2, <1>3, <1>7, <2>1, <2>2
    <3>2. b \in Int /\ b # FPAddr /\ b # FPAddr + 32
      <4>1. PICK A, w : A = FPAddr /\ w = NextAt(f)
        OBVIOUS
      <4>2. A \in Nat /\ w \in Nat /\ w >= 64 /\ fp \in Nat /\ fp >= A + 64 /\ b = (fp + w) - 32
        BY <1>2, <1>5, <1>6, <3>1, <4>1
      <4>3. b \in Int /\ b # A /\ b # A + 32
        BY <4>2, SMTT(30)
      <4> QED BY <4>1, <4>3
    <3>3. MLoad(MovedSP(M, f, fp), b) = Num(fp)
      BY <1>12, <1>13, <3>1, <3>2
    <3> QED BY <2>1, <3>1, <3>3
  <2>3. CASE k \in 2 .. n
    <3>1. k \in 1 .. n /\ k - 1 \in 1 .. n
      BY <1>2, <2>3
    <3>2. G[k] = F[k] /\ G[k - 1] = F[k - 1]
      BY <1>3, <3>1
    <3>3. F[k].fp >= FPAddr + 128 /\ F[k].fp \in Nat /\ F[k].fp <= fp
      BY <1>1, <1>4, <2>3, <3>1, ChainIs
    <3>4. b = F[k].fp - 32
      BY <2>1, <3>2
    <3>5. b \in Int /\ b # FPAddr /\ b # FPAddr + 32 /\ b # fp + SaveAt(f)
      <4>1. PICK A, w, e : A = FPAddr /\ w = SaveAt(f) /\ e = F[k].fp
        OBVIOUS
      <4>2. /\ A \in Nat /\ w \in Nat /\ fp \in Nat /\ e \in Nat /\ e >= A + 128 /\ e <= fp
            /\ b = e - 32
        BY <1>2, <1>5, <1>13, <3>3, <3>4, <4>1
      <4>3. b \in Int /\ b # A /\ b # A + 32 /\ b # fp + w
        BY <4>2
      <4> QED BY <4>1, <4>3
    <3>6. MLoad(MovedSP(M, f, fp), b) = MLoad(M, b)
      BY <1>12, <3>5
    <3>7. MLoad(M, b) = Num(F[k - 1].fp)
      BY <1>1, <2>3, <3>4 DEF Linked
    <3> QED BY <2>1, <3>2, <3>6, <3>7
  <2> QED BY <1>2, <1>3, <2>2, <2>3
<1>15. Linked(G, MovedSP(M, f, fp))
  BY <1>11, <1>14 DEF Linked
<1> QED BY <1>10, <1>15

LEMMA ChainReturn ==
  ASSUME NEW F, NEW M, Chained(F), Linked(F, M), Len(F) > 1, NEW fp, fp = F[Len(F)].fp,
         NEW G, G = SubSeq(F, 1, Len(F) - 1)
  PROVE  /\ Chained(G) /\ Linked(G, Written(M, FPAddr, MLoad(M, fp - 32)))
         /\ G[Len(G)].f = F[Len(F) - 1].f
<1>1. PICK n, m : n = Len(F) - 1 /\ m = Written(M, FPAddr, MLoad(M, fp - 32))
  OBVIOUS
<1>2. IsSeq(F) /\ n \in Nat /\ n >= 1 /\ Len(F) = n + 1 /\ Len(F) \in 2 .. Len(F) /\ FPAddr \in Nat
  BY <1>1, ChainIs
<1>3. IsSeq(G) /\ Len(G) = n /\ \A k \in 1 .. n : G[k] = F[k]
  <2>1. PICK o \in Nat : o = 1
    OBVIOUS
  <2>2. o >= 1 /\ n <= Len(F) /\ o <= n + 1 /\ G = SubSeq(F, o, n)
    BY <1>1, <1>2, <2>1
  <2>3. /\ IsSeq(G) /\ Len(G) = (n - o) + 1
        /\ \A i \in 1 .. (n - o) + 1 : G[i] = F[(o + i) - 1]
    BY <1>2, <2>2, SubSeqIs
  <2>4. (n - o) + 1 = n /\ \A i \in 1 .. n : (o + i) - 1 = i
    BY <1>2, <2>1
  <2> QED BY <2>3, <2>4
<1>4. \A k \in 1 .. n : k \in 1 .. Len(F)
  BY <1>2
<1>5. Chained(G)
  BY <1>2, <1>3, <1>4 DEF Chained
<1>6. MLoad(m, FPAddr) = Num(G[Len(G)].fp)
  <2>1. MLoad(M, F[Len(F)].fp - 32) = Num(F[Len(F) - 1].fp)
    BY <1>2 DEF Linked
  <2>2. MLoad(m, FPAddr) = MLoad(M, fp - 32)
    BY <1>1, LoadWritten
  <2>3. n \in 1 .. n
    BY <1>2
  <2> QED BY <1>1, <1>3, <2>1, <2>2, <2>3
<1>7. ASSUME NEW k \in 2 .. Len(G) PROVE MLoad(m, G[k].fp - 32) = Num(G[k - 1].fp)
  <2>1. k \in 1 .. n /\ k - 1 \in 1 .. n /\ k \in 2 .. Len(F)
    BY <1>2, <1>3
  <2>2. G[k] = F[k] /\ G[k - 1] = F[k - 1]
    BY <1>3, <2>1
  <2>3. F[k].fp \in Nat /\ F[k].fp >= FPAddr + 128
    BY <1>4, <2>1, ChainIs
  <2>4. F[k].fp - 32 # FPAddr
    BY <1>2, <2>3
  <2>5. MLoad(m, F[k].fp - 32) = MLoad(M, F[k].fp - 32)
    BY <1>1, <2>4, LoadWritten
  <2> QED BY <2>1, <2>2, <2>5 DEF Linked
<1>8. Linked(G, m)
  BY <1>6, <1>7 DEF Linked
<1>9. n \in 1 .. n
  BY <1>2
<1> QED BY <1>1, <1>3, <1>5, <1>8, <1>9

(* The frames after a completed instruction.                               *)
LEMMA FramesSame ==
  ASSUME FramesOK, frames' = frames, seen'.mem = seen.mem, seen'.pos \in Positions,
         seen'.pos[1] = seen.pos[1], IsSeq(seen'.stack)
  PROVE  FramesOK'
BY DEF FramesOK

LEMMA FramesOnwards ==
  ASSUME FramesOK, SrcAt(seen.pos).op \notin {pJUMPTO, pRETURNSUB, STOP}, Onwards
  PROVE  seen'.pos \in Positions /\ seen'.pos[1] = seen.pos[1]
<1>1. seen.pos \in Positions
  BY DEF FramesOK
<1>2. Blk!After(seen.pos) \in Positions /\ Blk!After(seen.pos)[1] = seen.pos[1]
  BY <1>1, NotLast
<1> QED BY <1>2 DEF Onwards

LEMMA FramesStraight ==
  ASSUME FramesOK, PushStep \/ InputStep \/ PopStep \/ GetStep
  PROVE  FramesOK'
<1>1. IsSeq(seen.stack)
  BY DEF FramesOK
<1>2. {PUSH32, CALLDATASIZE, POP, pGETLOCAL} \cap {pJUMPTO, pRETURNSUB, STOP} = {}
  BY DEF PUSH32, CALLDATASIZE, POP, pGETLOCAL, pJUMPTO, pRETURNSUB, STOP
<1>3. /\ SrcAt(seen.pos).op \in {PUSH32, CALLDATASIZE, POP, pGETLOCAL} /\ Onwards
      /\ frames' = frames /\ seen'.mem = seen.mem
  BY DEF PushStep, InputStep, PopStep, GetStep, SameMemory
<1>4. seen'.pos \in Positions /\ seen'.pos[1] = seen.pos[1]
  BY <1>2, <1>3, FramesOnwards
<1>5. \A v : IsSeq(C(v, seen.stack))
  <2>1. SUFFICES ASSUME NEW v PROVE IsSeq(C(v, seen.stack))
    OBVIOUS
  <2> QED BY <1>1, ConsIs
<1>6. Len(seen.stack) >= 1 => IsSeq(Rest1(seen.stack))
  BY <1>1, TopOf
<1>7. IsSeq(seen'.stack)
  BY <1>5, <1>6 DEF PushStep, InputStep, PopStep, GetStep
<1> QED BY <1>3, <1>4, <1>7, FramesSame

LEMMA FramesSwapDup ==
  ASSUME FramesOK, NEW n, SwapStep(n) \/ DupStep(n)
  PROVE  FramesOK'
<1>1. IsSeq(seen.stack) /\ Len(seen.stack) \in Nat
  BY SeqFacts DEF FramesOK
<1>2. {SWAP_r, DUP_r} \cap {pJUMPTO, pRETURNSUB, STOP} = {}
  BY DEF SWAP_r, DUP_r, pJUMPTO, pRETURNSUB, STOP
<1>3. /\ SrcAt(seen.pos).op \in {SWAP_r, DUP_r} /\ Onwards /\ n \in 1 .. 16
      /\ frames' = frames /\ seen'.mem = seen.mem
  BY DEF SwapStep, DupStep, SameMemory
<1>4. seen'.pos \in Positions /\ seen'.pos[1] = seen.pos[1]
  BY <1>2, <1>3, FramesOnwards
<1>5. IsSeq(C(seen.stack[n], seen.stack))
  BY <1>1, ConsIs
<1>6. ASSUME SwapStep(n) PROVE IsSeq(seen'.stack)
  <2>1. PICK s, t : s = seen.stack /\ t = Put(s, 1, s[n + 1])
    OBVIOUS
  <2>2. IsSeq(s) /\ 1 \in 1 .. Len(s) /\ n + 1 \in 1 .. Len(s)
    BY <1>1, <1>3, <1>6, <2>1 DEF SwapStep
  <2>3. IsSeq(t) /\ Len(t) = Len(s)
    BY <2>1, <2>2, ExceptIs
  <2>4. IsSeq(Put(t, n + 1, s[1]))
    BY <2>2, <2>3, ExceptIs
  <2>5. seen'.stack = Put(t, n + 1, s[1])
    BY <1>6, <2>1 DEF SwapStep, Put
  <2> QED BY <2>4, <2>5
<1>7. IsSeq(seen'.stack)
  BY <1>5, <1>6 DEF DupStep
<1> QED BY <1>3, <1>4, <1>7, FramesSame

LEMMA FramesBranch ==
  ASSUME FramesOK, NEW b, JumpStep(b) \/ BranchStep(b)
  PROVE  FramesOK'
<1>1. IsSeq(seen.stack) /\ seen.pos \in Positions
  BY DEF FramesOK
<1>2. /\ b \in 1 .. Len(Blks(seen.pos[1])) /\ seen.pos[1] \in DOMAIN Program
      /\ frames' = frames /\ seen'.mem = seen.mem
  BY <1>1, AfterIs DEF JumpStep, BranchStep, SameMemory
<1>3. Blk!StartOf(seen.pos[1], b) \in Positions /\ Blk!StartOf(seen.pos[1], b)[1] = seen.pos[1]
  BY <1>2, StartIs
<1>4. BranchStep(b) => Blk!After(seen.pos) \in Positions /\ Blk!After(seen.pos)[1] = seen.pos[1]
  <2>1. pJUMPIF \notin {pJUMPTO, pRETURNSUB, STOP}
    BY DEF pJUMPIF, pJUMPTO, pRETURNSUB, STOP
  <2>2. BranchStep(b) => SrcAt(seen.pos).op = pJUMPIF
    BY DEF BranchStep
  <2> QED BY <1>1, <2>1, <2>2, NotLast
<1>5. seen'.pos \in Positions /\ seen'.pos[1] = seen.pos[1]
  BY <1>3, <1>4 DEF JumpStep, BranchStep
<1>6. Len(seen.stack) >= 1 => IsSeq(Rest1(seen.stack))
  BY <1>1, TopOf
<1>7. IsSeq(seen'.stack)
  BY <1>1, <1>6 DEF JumpStep, BranchStep
<1> QED BY <1>2, <1>5, <1>7, FramesSame

LEMMA FramesPut ==
  ASSUME FramesOK, PutStep, chosen \in Operands
  PROVE  FramesOK'
<1>1. /\ IsSeq(seen.stack) /\ seen.pos \in Positions /\ Chained(frames) /\ Linked(frames, seen.mem)
      /\ frames[Len(frames)].f = seen.pos[1]
  BY DEF FramesOK
<1>2. pPUTLOCAL \notin {pJUMPTO, pRETURNSUB, STOP}
  BY DEF pPUTLOCAL, pJUMPTO, pRETURNSUB, STOP
<1>3. seen'.pos \in Positions /\ seen'.pos[1] = seen.pos[1]
  BY <1>2, FramesOnwards DEF PutStep
<1>4. IsSeq(seen'.stack)
  BY <1>1, TopOf DEF PutStep
<1>5. SlotAt(seen.pos) \in Nat
  <2>1. seen.pos[1] \in DOMAIN Program
    BY <1>1, AfterIs
  <2>2. Src(chosen, seen.pos).op = pPUTLOCAL /\ IsSource(Src(chosen, seen.pos), seen.pos[1])
    BY <1>1, SourceIs, SrcOp DEF PutStep
  <2>3. pPUTLOCAL \notin {PUSH32, CALLDATASIZE, POP, pRETURNSUB, STOP, SWAP_r, DUP_r, pJUMPSUB, pJUMPTO, pJUMPIF}
    BY DEF pPUTLOCAL, PUSH32, CALLDATASIZE, POP, pRETURNSUB, STOP, SWAP_r, DUP_r, pJUMPSUB, pJUMPTO, pJUMPIF
  <2>4. IsLocal(Src(chosen, seen.pos), seen.pos[1])
    BY <2>2, <2>3 DEF IsSource, IsConst, IsAddress, IsSimple, IsCounted, IsJump
  <2> QED BY <1>1, <2>1, <2>4, LocalIs
<1>6. PICK F, M, d, v : F = frames /\ M = seen.mem /\ d = SlotAt(seen.pos) /\ v = seen.stack[1]
  OBVIOUS
<1>7. Linked(F, Written(M, F[Len(F)].fp + d, v))
  BY <1>1, <1>5, <1>6, LinkedPut
<1>8. frames' = frames /\ Linked(frames', seen'.mem)
  BY <1>6, <1>7 DEF PutStep, Fp
<1> QED BY <1>1, <1>3, <1>4, <1>8 DEF FramesOK

LEMMA FramesCall ==
  ASSUME FramesOK, NEW n, NEW g, CallStep(n, g), Room(seen.pos[1], Fp)
  PROVE  FramesOK'
<1>1. /\ IsSeq(seen.stack) /\ seen.pos \in Positions /\ Chained(frames) /\ Linked(frames, seen.mem)
      /\ frames[Len(frames)].f = seen.pos[1] /\ Len(seen.stack) \in Nat
  BY SeqFacts DEF FramesOK
<1>2. /\ n \in 1 .. 16 /\ Len(seen.stack) >= n /\ g \in DOMAIN Program
      /\ seen'.pos = Blk!StartOf(g, 1) /\ seen'.stack = Put(seen.stack, n, Num(back[seen.pos]))
      /\ seen'.mem = MovedSP(seen.mem, seen.pos[1], Fp)
      /\ frames' = Append(frames, [f |-> g, fp |-> Fp + NextAt(seen.pos[1])])
  BY DEF CallStep
<1>3. 1 \in 1 .. Len(Blks(g))
  BY <1>2, FunctionIs
<1>4. seen'.pos \in Positions /\ seen'.pos[1] = g
  BY <1>2, <1>3, StartIs
<1>5. IsSeq(seen'.stack)
  <2>1. PICK s, t, v : s = seen.stack /\ v = Num(back[seen.pos]) /\ t = Put(s, n, v)
    OBVIOUS
  <2>2. IsSeq(s) /\ n \in 1 .. Len(s)
    BY <1>1, <1>2, <2>1
  <2>3. IsSeq(t)
    BY <2>1, <2>2, ExceptIs
  <2> QED BY <1>2, <2>1, <2>3
<1>6. PICK F, M, f, fp, G : /\ F = frames /\ M = seen.mem /\ f = seen.pos[1] /\ fp = Fp
                            /\ G = Append(F, [f |-> g, fp |-> fp + NextAt(f)])
  OBVIOUS
<1>7. f = F[Len(F)].f /\ fp = F[Len(F)].fp /\ Chained(F) /\ Linked(F, M) /\ Room(f, fp)
  BY <1>1, <1>6 DEF Fp
<1>8. Chained(G) /\ Linked(G, MovedSP(M, f, fp))
  BY <1>2, <1>6, <1>7, ChainCall
<1>9. frames' = G /\ seen'.mem = MovedSP(M, f, fp)
  BY <1>2, <1>6
<1>10. G[Len(G)].f = g
  <2>1. IsSeq(F)
    BY <1>7, ChainIs
  <2>2. Len(G) = Len(F) + 1 /\ G[Len(F) + 1] = [f |-> g, fp |-> fp + NextAt(f)]
    BY <1>6, <2>1, Appended
  <2> QED BY <2>2
<1> QED BY <1>4, <1>5, <1>8, <1>9, <1>10 DEF FramesOK

LEMMA FramesReturn ==
  ASSUME FramesOK, NEW T, Loaded(T), NEW c, ReturnStep(c)
  PROVE  FramesOK'
<1>1. IsSeq(seen.stack) /\ Chained(frames) /\ Linked(frames, seen.mem)
  BY DEF FramesOK
<1>2. /\ Len(frames) > 1 /\ c \in DOMAIN back /\ c[1] = frames[Len(frames) - 1].f
      /\ Len(seen.stack) >= 1 /\ seen'.pos = Blk!After(c)
      /\ seen'.stack = Rest1(seen.stack) /\ frames' = SubSeq(frames, 1, Len(frames) - 1)
      /\ seen'.mem = Written(seen.mem, FPAddr, MLoad(seen.mem, Fp - 32))
  BY DEF ReturnStep
<1>3. c \in Positions /\ SrcAt(c).op = pJUMPSUB
  BY <1>2, BackDest
<1>4. Blk!After(c) \in Positions /\ Blk!After(c)[1] = c[1]
  <2>1. pJUMPSUB \notin {pJUMPTO, pRETURNSUB, STOP}
    BY DEF pJUMPSUB, pJUMPTO, pRETURNSUB, STOP
  <2> QED BY <1>3, <2>1, NotLast
<1>5. IsSeq(seen'.stack)
  BY <1>1, <1>2, TopOf
<1>6. PICK F, M, fp, G : /\ F = frames /\ M = seen.mem /\ fp = Fp
                         /\ G = SubSeq(F, 1, Len(F) - 1)
  OBVIOUS
<1>7. Chained(F) /\ Linked(F, M) /\ Len(F) > 1 /\ fp = F[Len(F)].fp
  BY <1>1, <1>2, <1>6 DEF Fp
<1>8. /\ Chained(G) /\ Linked(G, Written(M, FPAddr, MLoad(M, fp - 32)))
      /\ G[Len(G)].f = F[Len(F) - 1].f
  <2>1. G = SubSeq(F, 1, Len(F) - 1)
    BY <1>6
  <2> HIDE <1>6
  <2> QED BY <1>7, <2>1, ChainReturn
<1>9. frames' = G /\ seen'.mem = Written(M, FPAddr, MLoad(M, fp - 32)) /\ c[1] = F[Len(F) - 1].f
  BY <1>2, <1>6
<1> QED BY <1>2, <1>4, <1>5, <1>8, <1>9 DEF FramesOK

LEMMA FramesKept ==
  ASSUME NEW T, Loaded(T), FramesOK, SourceStep, Room(seen.pos[1], Fp)
  PROVE  FramesOK'
<1>1. chosen \in Operands
  BY LoadedIs DEF Image
<1>2. CASE PushStep \/ InputStep \/ PopStep \/ GetStep
  BY <1>2, FramesStraight
<1>3. CASE PutStep
  BY <1>1, <1>3, FramesPut
<1>4. ASSUME NEW n \in 1 .. 16, SwapStep(n) \/ DupStep(n) \/ \E g \in DOMAIN Program : CallStep(n, g)
      PROVE  FramesOK'
  BY <1>4, FramesSwapDup, FramesCall
<1>5. ASSUME NEW b \in Nat, JumpStep(b) \/ BranchStep(b) PROVE FramesOK'
  BY <1>5, FramesBranch
<1>6. ASSUME NEW c \in DOMAIN back, ReturnStep(c) PROVE FramesOK'
  BY <1>6, FramesReturn
<1> QED BY <1>2, <1>3, <1>4, <1>5, <1>6 DEF SourceStep

At(T) ==
  \E j \in 1 .. Len(T) : pc = T[j].at /\ (Inside(T[j]) \/ Returning(T[j]))
Unstarted ==
  stack = << >> /\ mem = seen.mem /\ seen.stack = << >> /\ seen.pos = <<Main, 1, 1>>
Exec(T) ==
  /\ FramesOK
  /\ status = "loading" => Unstarted
  /\ status # "loading" => status \in {"running", "stopped"} /\ At(T)

LEMMA MainIs ==
  /\ Main \in DOMAIN Program /\ 1 \in 1 .. Len(Blks(Main))
  /\ Blk!StartOf(Main, 1) = <<Main, 1, 1>> /\ <<Main, 1, 1>> \in Positions
<1>1. Main \in DOMAIN Program /\ Blks(Main)[1] # << >>
  BY EntryAssumption, ProgramAssumption DEF Blks
<1>2. 1 \in 1 .. Len(Blks(Main)) /\ Len(Blks(Main)) \in Nat
  BY <1>1, FunctionIs
<1>3. Size(Main, 1) \in Nat /\ 1 <= Size(Main, 1)
  <2>1. Blks(Main)[1] \in Seq(Instructions(Main))
    BY <1>1, <1>2, FunctionIs
  <2> QED BY <1>1, <2>1 DEF Size
<1>4. Blk!StartOf(Main, 1) = <<Main, 1, 1>>
  BY <1>1, <1>3, SettleIs DEF Blk!StartOf
<1> QED BY <1>1, <1>2, <1>4, StartIs

LEMMA ExecInitial ==
  ASSUME ExecInit
  PROVE  Exec(<< >>)
<1>1. /\ status = "loading" /\ stack = << >> /\ mem = [a \in {FPAddr} |-> Num(EntryFP)]
      /\ frames = << [f |-> Main, fp |-> EntryFP] >>
      /\ seen = [pos |-> <<Main, 1, 1>>, stack |-> << >>, mem |-> mem, got |-> 0]
  BY DEF ExecInit
<1>2. Unstarted
  BY <1>1 DEF Unstarted
<1>3. EntryFP \in Nat /\ EntryFP >= FPAddr + 64
  BY EntryAssumption
<1>4. PICK e : e = [f |-> Main, fp |-> EntryFP]
  OBVIOUS
<1>5. IsSeq(frames) /\ Len(frames) = 1 /\ frames[1] = e
  BY <1>1, <1>4, OneIs
<1>6. e.f \in DOMAIN Program /\ e.fp \in Nat /\ e.fp >= FPAddr + 64 /\ e.f = Main /\ e.fp = EntryFP
  BY <1>3, <1>4, MainIs
<1>7. Chained(frames)
  BY <1>5, <1>6 DEF Chained
<1>8. Linked(frames, seen.mem)
  <2>1. seen.mem = [a \in {FPAddr} |-> Num(EntryFP)]
    BY <1>1
  <2>2. MLoad(seen.mem, FPAddr) = Num(EntryFP)
    BY <2>1 DEF MLoad
  <2> QED BY <1>5, <1>6, <2>2 DEF Linked
<1>9. IsSeq(seen.stack) /\ seen.pos = <<Main, 1, 1>>
  BY <1>1 DEF IsSeq
<1>10. FramesOK
  BY <1>5, <1>6, <1>7, <1>8, <1>9, MainIs DEF FramesOK
<1> QED BY <1>1, <1>2, <1>10 DEF Exec

LEMMA ExecSame ==
  ASSUME NEW T, Exec(T), UNCHANGED <<stack, mem, frames, seen, labels, back>>, NEW U,
         status' = "loading" => status = "loading",
         status' # "loading" => status' \in {"running", "stopped"} /\ At(U)'
  PROVE  Exec(U)'
<1>1. FramesOK'
  BY DEF Exec, FramesOK
<1>2. status' = "loading" => Unstarted'
  BY DEF Exec, Unstarted
<1> QED BY <1>1, <1>2 DEF Exec
LEMMA AtSame ==
  ASSUME NEW T, At(T), UNCHANGED <<pc, stack, mem, frames, seen, labels, back>>
  PROVE  At(T)'
<1>1. PICK j \in 1 .. Len(T) : pc = T[j].at /\ (Inside(T[j]) \/ Returning(T[j]))
  BY DEF At
<1>2. Inside(T[j]) => Inside(T[j])'
  BY DEF Inside, InsideWith, Fp, Index
<1>3. Returning(T[j]) => Returning(T[j])'
  BY DEF Returning, ReturningWith, Fp, Index, Rest1
<1> QED BY <1>1, <1>2, <1>3 DEF At

LEMMA ExecCompile ==
  ASSUME NEW T, Exec(T), Loading(T), EmitNext, UNCHANGED execVars, NEW U
  PROVE  Exec(U)'
<1>1. stage \in Passes \cup {"emit", "fixup"}
  BY DEF EmitNext, ExpandPseudos, ConvertRegToStack, Shrinkpush, Finalization, EmitLabel,
         EmitInstruction, BlockWritten, FunctionWritten, ApplyFixup, WriteObject, Passes
<1>2. status = "loading"
  BY <1>1, StagesDiffer DEF Loading
<1>3. UNCHANGED <<stack, mem, frames, seen, status>>
  BY DEF execVars
<1>4. FramesOK'
  BY <1>3 DEF Exec, FramesOK
<1>5. Unstarted'
  BY <1>2, <1>3 DEF Exec, Unstarted
<1> QED BY <1>2, <1>3, <1>4, <1>5 DEF Exec

LEMMA ExecAnalyze ==
  ASSUME NEW T, Exec(T), Analyze
  PROVE  Exec(T)'
<1>1. status' = status /\ status = "loading" /\ UNCHANGED <<stack, mem, frames, seen>>
  BY DEF Analyze
<1>2. UNCHANGED <<labels, back>>
  BY DEF Analyze, emitVars
<1> QED BY <1>1, <1>2, ExecSame

LEMMA ExecStop ==
  ASSUME NEW T, Exec(T), Stop
  PROVE  Exec(T)'
<1>1. status = "running" /\ status' = "stopped" /\ UNCHANGED <<pc, stack, mem, frames, seen>>
  BY DEF Stop
<1>2. UNCHANGED <<labels, back>>
  BY DEF Stop, emitVars
<1>3. At(T)'
  BY <1>1, <1>2, AtSame DEF Exec
<1> QED BY <1>1, <1>2, <1>3, ExecSame

LEMMA ExecStutter ==
  ASSUME NEW T, Exec(T), UNCHANGED vars
  PROVE  Exec(T)'
<1>1. UNCHANGED <<pc, stack, mem, frames, seen, status, labels, back>>
  BY DEF vars
<1>2. status # "loading" => At(T)'
  BY <1>1, AtSame DEF Exec
<1>3. status' # "loading" => status' \in {"running", "stopped"} /\ At(T)'
  BY <1>1, <1>2 DEF Exec
<1> QED BY <1>1, <1>3, ExecSame

(* Nothing has been done of the instruction the machine comes to.          *)
LEMMA InsideFirst ==
  ASSUME NEW e, e.p = seen'.pos, e.q = 1, stack' = seen'.stack, mem' = seen'.mem
  PROVE  Inside(e)'
<1>1. PICK o : o = Off(e.p)
  OBVIOUS
<1>2. o \in {0, 1}
  BY <1>1 DEF Off
<1>3. PICK k : k = 1 - o
  OBVIOUS
<1>4. k = Index(e) /\ k \in {0, 1}
  BY <1>1, <1>2, <1>3 DEF Index
<1>5. e.q > Off(e.p) => k = 1
  BY <1>1, <1>2, <1>3
<1>6. LocalRow(1, seen'.stack, seen'.stack, Fp', SlotAt(e.p))
  BY DEF LocalRow
<1>7. CallRow(1, seen'.stack, seen'.mem, seen'.stack, seen'.mem, e.p[1], Fp',
              SrcAt(e.p).arg.n, back'[e.p])
  BY DEF CallRow, SaveRow, MoveRow, JumpRow
<1> QED BY <1>4, <1>5, <1>6, <1>7 DEF Inside, InsideWith

LEMMA ExecStart ==
  ASSUME NEW T, Tape(T), Exec(T), Start
  PROVE  Exec(T)'
<1>1. /\ status = "loading" /\ status' = "running" /\ pc' = labels[<<Main, 1>>]
      /\ UNCHANGED <<stack, mem, frames, seen>>
  BY DEF Start
<1>2. UNCHANGED <<labels, back>>
  BY DEF Start, emitVars
<1>3. Unstarted
  BY <1>1 DEF Exec
<1>4. \E x \in 1 .. Len(T) :
        T[x].p = Blk!StartOf(Main, 1) /\ T[x].q = 1 /\ T[x].at = labels[<<Main, 1>>]
  <2>1. stage \in Done
    BY StagesDiffer DEF Start
  <2>2. PlacedAt(T, labels[<<Main, 1>>], Main, 1)
    BY <2>1, MainIs, AllPlaced
  <2> QED BY <2>2 DEF PlacedAt
<1>5. PICK x \in 1 .. Len(T) :
        T[x].p = <<Main, 1, 1>> /\ T[x].q = 1 /\ T[x].at = pc'
  BY <1>1, <1>2, <1>4, MainIs
<1>6. T[x].p = seen'.pos /\ stack' = seen'.stack /\ mem' = seen'.mem
  BY <1>1, <1>3, <1>5 DEF Unstarted
<1>7. Inside(T[x])'
  BY <1>5, <1>6, InsideFirst
<1>8. At(T)'
  BY <1>5, <1>7 DEF At
<1> QED BY <1>1, <1>2, <1>8, ExecSame
LEMMA RoomNow ==
  ASSUME FramesOK, Disciplined, status = "running"
  PROVE  Room(seen.pos[1], Fp)
<1>1. /\ Chained(frames) /\ frames[Len(frames)].f = seen.pos[1]
  BY DEF FramesOK
<1>2. /\ Len(frames) \in 1 .. Len(frames) /\ DOMAIN frames = 1 .. Len(frames) /\ FPAddr \in Nat
      /\ Fp \in Nat /\ Fp >= FPAddr + 64 /\ seen.pos[1] \in DOMAIN Program
  BY <1>1, ChainIs, SeqFacts DEF Fp
<1>3. Fp + NextAt(seen.pos[1]) < Limit
  BY <1>1, <1>2 DEF Disciplined, Addressable, Fp
<1> QED BY <1>2, <1>3 DEF Room

LEMMA ExecuteReaches ==
  ASSUME NEW T, Tape(T), Loading(T), Exec(T), Disciplined, Execute
  PROVE  Reaches(T)
<1>1. status = "running" /\ FramesOK
  BY DEF Execute, Exec
<1>2. PICK j \in 1 .. Len(T) : pc = T[j].at /\ (Inside(T[j]) \/ Returning(T[j]))
  BY <1>1 DEF Exec, At
<1>3. Standing(T, j)
  BY <1>1, <1>2 DEF Standing
<1>4. Ready(T, j) \/ ReadyBack(T, j)
  BY <1>1, <1>2, <1>3 DEF Ready, ReadyBack
<1> QED BY <1>4, AtInside, AtBack

LEMMA ExecExecute ==
  ASSUME NEW T, Tape(T), Loading(T), Exec(T), Disciplined, Execute
  PROVE  Exec(T)'
<1>1. status = "running" /\ FramesOK
  BY DEF Execute, Exec
<1>2. Reaches(T)
  BY ExecuteReaches
<1>3. status' = "running" /\ UNCHANGED emitVars
  BY <1>2 DEF Reaches
<1>4. PICK x \in 1 .. Len(T) : pc' = T[x].at /\ (StillInside(T, x) \/ Completed(T, x))
  BY <1>2 DEF Reaches
<1>5. CASE StillInside(T, x)
  <2>1. UNCHANGED <<frames, seen>> /\ (Inside(T[x]) \/ Returning(T[x]))'
    BY <1>5 DEF StillInside
  <2>2. FramesOK'
    BY <1>1, <2>1 DEF FramesOK
  <2>3. At(T)'
    BY <1>4, <2>1 DEF At
  <2> QED BY <1>3, <2>2, <2>3 DEF Exec
<1>6. CASE Completed(T, x)
  <2>1. /\ SourceStep /\ T[x].q = 1 /\ T[x].p = seen'.pos
        /\ stack' = seen'.stack /\ mem' = seen'.mem
    BY <1>6 DEF Completed
  <2>2. Loaded(T)
    BY <1>1 DEF Loaded
  <2>3. FramesOK'
    BY <1>1, <2>1, <2>2, RoomNow, FramesKept
  <2>4. Inside(T[x])'
    BY <2>1, InsideFirst
  <2>5. At(T)'
    BY <1>4, <2>4 DEF At
  <2> QED BY <1>3, <2>3, <2>5 DEF Exec
<1> QED BY <1>4, <1>5, <1>6

(* The invariant: the code lies behind the tape T, and the machine is on   *)
(* its way through it.                                                     *)
Running(T) == Tape(T) /\ Loading(T) /\ Exec(T)
CodeInv == \E T : Running(T)
Placed == \E T : Tape(T) /\ Loading(T)

LEMMA PlacedInit == Init => Placed
<1>1. ASSUME Init PROVE Tape(<< >>) /\ Loading(<< >>)
  BY <1>1, TapeInit, LoadingInit DEF Init
<1> QED BY <1>1 DEF Placed

LEMMA PlacedStep ==
  ASSUME NEW T, Tape(T), Loading(T), [Next]_vars
  PROVE  \E U : /\ Tape(U)' /\ Loading(U)' /\ (~Compile => U = T)
<1>1. CASE Compile
  <2>1. EmitNext /\ UNCHANGED execVars
    BY <1>1 DEF Compile
  <2>2. PICK U : Tape(U)'
    BY <2>1, TapeNext
  <2>3. Loading(U)'
    BY <2>1, <2>2, LoadingCompile
  <2> QED BY <1>1, <2>2, <2>3
<1>2. CASE ~Compile
  <2>1. Analyze \/ Start \/ Execute \/ Stop \/ UNCHANGED vars
    BY <1>2 DEF Next
  <2>2. UNCHANGED emitVars
    BY <2>1 DEF Analyze, Start, Execute, Stop, vars, emitVars
  <2>3. Tape(T)'
    BY <2>2, TapeKept
  <2>4. Loading(T)'
    BY <2>1, LoadingAnalyze, LoadingStart, LoadingRest
  <2> QED BY <2>3, <2>4
<1> QED BY <1>1, <1>2

LEMMA PlacedNext == Placed /\ [Next]_vars => Placed'
<1>1. SUFFICES ASSUME Placed, [Next]_vars PROVE Placed'
  OBVIOUS
<1>2. PICK T : Tape(T) /\ Loading(T)
  BY <1>1 DEF Placed
<1>3. PICK U : Tape(U)' /\ Loading(U)'
  BY <1>1, <1>2, PlacedStep
<1> QED BY <1>3 DEF Placed

LEMMA InvInit == Init => CodeInv
<1>1. ASSUME Init PROVE Tape(<< >>) /\ Loading(<< >>) /\ Exec(<< >>)
  BY <1>1, TapeInit, LoadingInit, ExecInitial DEF Init
<1> QED BY <1>1 DEF CodeInv, Running

LEMMA InvNext == CodeInv /\ Disciplined /\ [Next]_vars => CodeInv'
<1>1. SUFFICES ASSUME CodeInv, Disciplined, [Next]_vars PROVE CodeInv'
  OBVIOUS
<1>2. PICK T : Tape(T) /\ Loading(T) /\ Exec(T)
  BY <1>1 DEF CodeInv, Running
<1>3. PICK U : /\ Tape(U)' /\ Loading(U)' /\ (~Compile => U = T)
  BY <1>1, <1>2, PlacedStep
<1>4. Exec(U)'
  <2>1. CASE Compile
    BY <1>2, <2>1, ExecCompile DEF Compile
  <2>2. CASE ~Compile
    <3>1. Analyze \/ Start \/ Execute \/ Stop \/ UNCHANGED vars
      BY <1>1, <2>2 DEF Next
    <3>2. Exec(T)'
      BY <1>1, <1>2, <3>1, ExecAnalyze, ExecStart, ExecExecute, ExecStop, ExecStutter
    <3> QED BY <1>3, <2>2, <3>2
  <2> QED BY <2>1, <2>2
<1> QED BY <1>3, <1>4 DEF CodeInv, Running

(* The bytes never fault, whatever the program, its constants, the choice  *)
(* of the operand left open and the code before it: every jump reaches a   *)
(* JUMPDEST the machine has marked, no byte of a pushed number is executed *)
(* and no operand is missing, if the program is Disciplined.               *)
THEOREM NoFaultHolds == Spec /\ []Disciplined => []NoFault
<1>1. CodeInv => NoFault
  BY DEF CodeInv, Running, Exec, NoFault
<1> QED BY InvInit, InvNext, <1>1, PTL DEF Spec

-----------------------------------------------------------------------------
(* What the code promises wherever the execution goes.                     *)
LEMMA PlacedType ==
  ASSUME NEW T, Tape(T), Loading(T)
  PROVE  /\ \A i \in DOMAIN contents : contents[i] \in 0 .. 255
         /\ \A fx \in ToSet(fixups) : fx[1] \in 1 .. Len(contents) - 2
         /\ status \in {"loading", "running", "stopped", "fault"}
<1>1. /\ Static /\ BytesOK(T, chosen, prefix, contents)
      /\ FixupsOK(T, chosen, prefix, fixups) /\ Layout(T, chosen, prefix, Here)
  BY DEF Tape, Output
<1>2. IsSeq(contents) /\ Len(contents) \in Nat /\ DOMAIN contents = 1 .. Len(contents)
  BY <1>1, SeqFacts DEF BytesOK
<1>3. \A i \in DOMAIN contents : contents[i] \in 0 .. 255
  BY <1>1, <1>2 DEF BytesOK, Byte
<1>4. ASSUME NEW fx \in ToSet(fixups) PROVE fx[1] \in 1 .. Len(contents) - 2
  <2>1. IsSeq(fixups) /\ DOMAIN fixups = 1 .. Len(fixups)
    BY <1>1, SeqFacts DEF FixupsOK
  <2>2. PICK x \in 1 .. Len(fixups) : fx = fixups[x]
    BY <2>1 DEF ToSet
  <2>3. PICK j \in 1 .. Len(T) : IsSymbol(chosen, T[j]) /\ fx = FixOf(chosen, prefix, T[j])
    BY <1>1, <2>2 DEF FixupsOK
  <2>4. chosen \in Operands /\ prefix \in Nat /\ Layout(T, chosen, prefix, prefix + Len(contents))
    BY <1>1 DEF Static, Here
  <2>5. /\ EntryOK(chosen, T[j]) /\ T[j].at - prefix \in Nat
        /\ \A i \in 1 .. Sz(chosen, T[j]) : (T[j].at - prefix) + i \in 1 .. Len(contents)
    BY <1>2, <2>4, ItemBytes
  <2>6. Sz(chosen, T[j]) = 3
    BY <2>3, <2>4, <2>5, SymbolSize
  <2>7. (T[j].at - prefix) + 3 \in 1 .. Len(contents)
    BY <2>5, <2>6
  <2>8. fx[1] = (T[j].at - prefix) + 1
    BY <2>3 DEF FixOf
  <2>9. PICK d \in Nat : d = T[j].at - prefix
    BY <2>5
  <2>10. d + 3 \in 1 .. Len(contents) /\ fx[1] = d + 1
    BY <2>7, <2>8, <2>9
  <2> QED BY <1>2, <2>9, <2>10
<1> QED BY <1>3, <1>4 DEF Loading

(* The bytes are bytes and every fixup has its two inside the fragment;    *)
(* and the machine never returns from the entry function.                  *)
THEOREM CodeTypeOK == Spec /\ []Disciplined => []TypeOK
<1>1. ASSUME CodeInv PROVE TypeOK
  <2>1. PICK T : Tape(T) /\ Loading(T) /\ Exec(T)
    BY <1>1 DEF CodeInv, Running
  <2>2. frames # << >>
    <3>1. Chained(frames)
      BY <2>1 DEF Exec, FramesOK
    <3> QED BY <3>1, EmptyIs DEF Chained
  <2> QED BY <2>1, <2>2, PlacedType DEF TypeOK
<1> QED BY InvInit, InvNext, <1>1, PTL DEF Spec

(* Whatever the program does, Disciplined or not: all fixups are resolved  *)
(* and each label and return address is a jump destination the machine     *)
(* accepts.                                                                *)
THEOREM TargetsHold == Spec => []TargetsAreDests
<1>1. ASSUME Placed PROVE TargetsAreDests
  <2>1. SUFFICES ASSUME status # "loading"
                 PROVE  /\ \A f \in DOMAIN Program : \A b \in 1 .. Len(Program[f].blocks) :
                             labels[<<f, b>>] \in dests
                        /\ \A p \in DOMAIN back : back[p] \in dests
                        /\ fixups = << >>
    BY DEF TargetsAreDests
  <2>2. PICK T : Tape(T) /\ Loading(T)
    BY <1>1 DEF Placed
  <2>3. Loaded(T)
    BY <2>1, <2>2 DEF Loaded
  <2>4. ASSUME NEW f \in DOMAIN Program, NEW b \in 1 .. Len(Program[f].blocks)
        PROVE  labels[<<f, b>>] \in dests
    BY <2>3, LabelDest DEF Blks
  <2>5. \A p \in DOMAIN back : back[p] \in dests
    BY <2>3, BackDest
  <2>6. stage = "run"
    BY <2>3, LoadedIs
  <2>7. fixups = << >>
    BY <2>2, <2>6 DEF Tape, Output
  <2> QED BY <2>4, <2>5, <2>7
<1> QED BY PlacedInit, PlacedNext, <1>1, PTL DEF Spec

-----------------------------------------------------------------------------
(* The slots of the active functions are places of their own in memory.    *)
SlotsIn(f) == 0 .. Program[f].slots - 1

LEMMA SlotsAre ==
  ASSUME NEW F, NEW M, IsSeq(F)
  PROVE  /\ IsSeq(SlotsOf(F, M)) /\ Len(SlotsOf(F, M)) = Len(F)
         /\ DOMAIN SlotsOf(F, M) = 1 .. Len(F)
         /\ \A k \in 1 .. Len(F) :
              SlotsOf(F, M)[k] = [n \in SlotsIn(F[k].f) |-> MLoad(M, SlotAddress(F[k], n))]
<1>1. Len(F) \in Nat /\ DOMAIN F = 1 .. Len(F)
  BY SeqFacts
<1>2. PICK s : s = SlotsOf(F, M)
  OBVIOUS
<1>3. s = [k \in 1 .. Len(F) |-> [n \in SlotsIn(F[k].f) |-> MLoad(M, SlotAddress(F[k], n))]]
  BY <1>1, <1>2 DEF SlotsOf, SlotsIn
<1>4. s = [k \in 1 .. Len(F) |-> s[k]]
  BY <1>3
<1>5. IsSeq(s) /\ Len(s) = Len(F) /\ DOMAIN s = 1 .. Len(F)
  BY <1>1, <1>4, SeqFunction
<1> QED BY <1>2, <1>3, <1>5

LEMMA SlotNumbers ==
  ASSUME NEW z \in Nat, NEW o \in Nat, NEW x \in Nat, NEW a \in Nat, NEW n \in 0 .. z - 1, x >= a + 64,
         NEW y, NEW c, NEW d, y = x + 32 * (n + o), c = 32 * ((z + o) + 1),
         d = 32 * (((z + o) + 1) + 1)
  PROVE  y \in Nat /\ y >= x /\ y >= a + 64 /\ y < x + c /\ y < x + d /\ c \in Nat /\ d \in Nat
OBVIOUS

LEMMA SlotOnce ==
  ASSUME NEW o \in Nat, NEW x \in Nat, NEW i \in Int, NEW n \in Int
  PROVE  x + 32 * (i + o) = x + 32 * (n + o) <=> i = n
OBVIOUS

LEMMA SlotPlace ==
  ASSUME NEW F, Chained(F), NEW k \in 1 .. Len(F), NEW n \in SlotsIn(F[k].f)
  PROVE  /\ SlotAddress(F[k], n) \in Nat /\ SlotAddress(F[k], n) >= F[k].fp
         /\ SlotAddress(F[k], n) >= FPAddr + 64
         /\ SlotAddress(F[k], n) < F[k].fp + SaveAt(F[k].f)
         /\ k < Len(F) => SlotAddress(F[k], n) < F[Len(F)].fp
<1>1. /\ F[k].f \in DOMAIN Program /\ F[k].fp \in Nat /\ F[k].fp >= FPAddr + 64
      /\ FPAddr \in Nat /\ Len(F) \in 1 .. Len(F) /\ Len(F) \in Nat
  BY ChainIs
<1>2. Program[F[k].f].slots \in Nat /\ Program[F[k].f].objects \in Nat
  BY <1>1, FunctionIs
<1>3. PICK z \in Nat, o \in Nat, x \in Nat, a \in Nat :
        z = Program[F[k].f].slots /\ o = Program[F[k].f].objects /\ x = F[k].fp /\ a = FPAddr
  BY <1>1, <1>2
<1>4. n \in 0 .. z - 1 /\ x >= a + 64
  BY <1>1, <1>3 DEF SlotsIn
<1>5. SlotAddress(F[k], n) = x + 32 * (n + o)
  BY <1>3 DEF SlotAddress
<1>6. SaveAt(F[k].f) = 32 * ((z + o) + 1) /\ NextAt(F[k].f) = 32 * (((z + o) + 1) + 1)
  BY <1>3 DEF SaveAt, NextAt, SaveIndex
<1>7. PICK y, c, d : /\ y = x + 32 * (n + o) /\ c = 32 * ((z + o) + 1)
                     /\ d = 32 * (((z + o) + 1) + 1)
  OBVIOUS
<1>8. y \in Nat /\ y >= x /\ y >= a + 64 /\ y < x + c /\ y < x + d /\ c \in Nat /\ d \in Nat
  BY <1>4, <1>7, SlotNumbers
<1>9. ASSUME k < Len(F) PROVE y < F[Len(F)].fp
  <2>1. F[k].fp + NextAt(F[k].f) <= F[Len(F)].fp /\ F[Len(F)].fp \in Nat
    BY <1>1, <1>9 DEF Chained
  <2>2. PICK e \in Nat : e = F[Len(F)].fp
    BY <2>1
  <2>3. x + d <= e
    BY <1>3, <1>6, <1>7, <2>1, <2>2
  <2>4. y < e
    BY <1>3, <1>8, <2>2, <2>3
  <2> QED BY <2>2, <2>4
<1> QED BY <1>3, <1>5, <1>6, <1>7, <1>8, <1>9

(* Memory that agrees on the slots of the functions of F.                  *)
Agree(F, M, L) ==
  \A k \in 1 .. Len(F) : \A n \in SlotsIn(F[k].f) :
    MLoad(L, SlotAddress(F[k], n)) = MLoad(M, SlotAddress(F[k], n))

LEMMA SlotsAgree ==
  ASSUME NEW F, NEW G, NEW M, NEW L, IsSeq(F), IsSeq(G), Agree(F, M, L),
         NEW k \in 1 .. Len(F), k \in 1 .. Len(G), G[k] = F[k]
  PROVE  SlotsOf(G, L)[k] = SlotsOf(F, M)[k]
<1>1. /\ SlotsOf(F, M)[k] = [n \in SlotsIn(F[k].f) |-> MLoad(M, SlotAddress(F[k], n))]
      /\ SlotsOf(G, L)[k] = [n \in SlotsIn(F[k].f) |-> MLoad(L, SlotAddress(F[k], n))]
  BY SlotsAre
<1>2. \A n \in SlotsIn(F[k].f) : MLoad(L, SlotAddress(F[k], n)) = MLoad(M, SlotAddress(F[k], n))
  BY DEF Agree
<1> QED BY <1>1, <1>2

LEMMA AgreeLow ==
  ASSUME NEW F, NEW M, Chained(F), NEW a, a \in {FPAddr, FPAddr + 32}, NEW v
  PROVE  Agree(F, M, Written(M, a, v))
<1> SUFFICES ASSUME NEW k \in 1 .. Len(F), NEW n \in SlotsIn(F[k].f)
             PROVE  MLoad(Written(M, a, v), SlotAddress(F[k], n)) = MLoad(M, SlotAddress(F[k], n))
  BY DEF Agree
<1>1. SlotAddress(F[k], n) \in Nat /\ SlotAddress(F[k], n) >= FPAddr + 64 /\ FPAddr \in Nat
  BY SlotPlace, ChainIs
<1>2. SlotAddress(F[k], n) # a
  BY <1>1
<1> QED BY <1>2, LoadWritten

LEMMA AgreeSaved ==
  ASSUME NEW F, NEW M, Chained(F), NEW f, f = F[Len(F)].f, NEW fp, fp = F[Len(F)].fp
  PROVE  Agree(F, M, MovedSP(M, f, fp))
<1>1. Len(F) \in Nat /\ SaveAt(f) \in Nat /\ fp \in Nat
  <2>1. Len(F) \in 1 .. Len(F) /\ Len(F) \in Nat /\ f \in DOMAIN Program /\ fp \in Nat
    BY ChainIs
  <2>2. SaveIndex(f) \in Nat
    BY <2>1, FunctionIs DEF SaveIndex
  <2> QED BY <2>1, <2>2 DEF SaveAt
<1>2. Agree(F, M, Saved(M, f, fp))
  <2> SUFFICES ASSUME NEW k \in 1 .. Len(F), NEW n \in SlotsIn(F[k].f)
               PROVE  MLoad(Saved(M, f, fp), SlotAddress(F[k], n)) = MLoad(M, SlotAddress(F[k], n))
    BY DEF Agree
  <2>1. /\ SlotAddress(F[k], n) \in Nat /\ SlotAddress(F[k], n) < F[k].fp + SaveAt(F[k].f)
        /\ k < Len(F) => SlotAddress(F[k], n) < F[Len(F)].fp
    BY SlotPlace
  <2>2. SlotAddress(F[k], n) < fp + SaveAt(f)
    <3>1. CASE k < Len(F)
      BY <1>1, <2>1, <3>1
    <3>2. CASE k = Len(F)
      BY <2>1, <3>2
    <3> QED BY <1>1, <3>1, <3>2
  <2>3. SlotAddress(F[k], n) # fp + SaveAt(f)
    BY <1>1, <2>1, <2>2
  <2> QED BY <2>3, LoadWritten DEF Saved
<1>3. Agree(F, Saved(M, f, fp), MovedFP(M, f, fp))
  BY AgreeLow DEF MovedFP
<1>4. Agree(F, MovedFP(M, f, fp), MovedSP(M, f, fp))
  BY AgreeLow DEF MovedSP
<1> QED BY <1>2, <1>3, <1>4 DEF Agree

(* A slot is written: the others of the activation and the slots of the    *)
(* callers keep what they hold.                                            *)
PutIn(s, n, v) == [s EXCEPT ![Len(s)][n] = v]

LEMMA SlotsPut ==
  ASSUME NEW F, NEW M, Chained(F), NEW n, n \in SlotsIn(F[Len(F)].f), NEW v
  PROVE  SlotsOf(F, Written(M, SlotAddress(F[Len(F)], n), v)) = PutIn(SlotsOf(F, M), n, v)
<1>1. PICK l, a, m, s, z : /\ l = Len(F) /\ a = SlotAddress(F[Len(F)], n) /\ m = Written(M, a, v)
                           /\ s = SlotsOf(F, M) /\ z = SlotsOf(F, m)
  OBVIOUS
<1>2. IsSeq(F) /\ l \in Nat /\ l \in 1 .. Len(F) /\ FPAddr \in Nat
  BY <1>1, ChainIs
<1>3. /\ IsSeq(s) /\ Len(s) = l /\ DOMAIN s = 1 .. l /\ IsSeq(z) /\ Len(z) = l /\ DOMAIN z = 1 .. l
      /\ \A k \in 1 .. l : /\ s[k] = [i \in SlotsIn(F[k].f) |-> MLoad(M, SlotAddress(F[k], i))]
                           /\ z[k] = [i \in SlotsIn(F[k].f) |-> MLoad(m, SlotAddress(F[k], i))]
  BY <1>1, <1>2, SlotsAre
<1>4. \A k \in 1 .. l : k # l => z[k] = s[k]
  <2> SUFFICES ASSUME NEW k \in 1 .. l, k # l PROVE z[k] = s[k]
    OBVIOUS
  <2>1. a \in Nat /\ a >= F[l].fp
    BY <1>1, <1>2, SlotPlace
  <2>2. ASSUME NEW i \in SlotsIn(F[k].f)
        PROVE  MLoad(m, SlotAddress(F[k], i)) = MLoad(M, SlotAddress(F[k], i))
    <3>1. SlotAddress(F[k], i) \in Nat /\ SlotAddress(F[k], i) < F[l].fp /\ F[l].fp \in Nat
      <4>1. k \in 1 .. Len(F) /\ k < Len(F)
        BY <1>1, <1>2
      <4>2. F[Len(F)].fp \in Nat
        BY <1>1, <1>2, ChainIs
      <4> QED BY <1>1, <4>1, <4>2, SlotPlace
    <3>2. SlotAddress(F[k], i) # a
      BY <2>1, <3>1
    <3> QED BY <1>1, <3>2, LoadWritten
  <2> QED BY <1>3, <2>2
<1>5. z[l] = [s[l] EXCEPT ![n] = v]
  <2>1. ASSUME NEW i \in SlotsIn(F[l].f)
        PROVE  MLoad(m, SlotAddress(F[l], i)) = IF i = n THEN v ELSE MLoad(M, SlotAddress(F[l], i))
    <3>1. MLoad(m, SlotAddress(F[l], i)) =
            IF SlotAddress(F[l], i) = a THEN v ELSE MLoad(M, SlotAddress(F[l], i))
      BY <1>1, LoadWritten
    <3>2. SlotAddress(F[l], i) = a <=> i = n
      <4>1. F[l].f \in DOMAIN Program /\ F[l].fp \in Nat
        BY <1>1, <1>2, ChainIs
      <4>2. PICK o \in Nat, x \in Nat : o = Program[F[l].f].objects /\ x = F[l].fp
        BY <4>1, FunctionIs
      <4>3. SlotAddress(F[l], i) = x + 32 * (i + o) /\ a = x + 32 * (n + o)
        BY <1>1, <4>2 DEF SlotAddress
      <4>4. i \in Int /\ n \in Int
        BY <1>1, <4>1, FunctionIs DEF SlotsIn
      <4> QED BY <4>3, <4>4, SlotOnce
    <3> QED BY <3>1, <3>2
  <2>2. n \in SlotsIn(F[l].f)
    BY <1>1
  <2>3. /\ s[l] = [i \in SlotsIn(F[l].f) |-> MLoad(M, SlotAddress(F[l], i))]
        /\ z[l] = [i \in SlotsIn(F[l].f) |-> MLoad(m, SlotAddress(F[l], i))]
    BY <1>1, <1>2, <1>3
  <2> QED BY <2>1, <2>2, <2>3
<1>6. z = [k \in 1 .. l |-> z[k]] /\ s = [k \in 1 .. l |-> s[k]]
  <2>1. z = [k \in DOMAIN F |-> z[k]] /\ s = [k \in DOMAIN F |-> s[k]] /\ DOMAIN F = 1 .. l
    BY <1>1, <1>2, SeqFacts DEF SlotsOf
  <2> QED BY <2>1
<1>7. z = [s EXCEPT ![l] = [s[l] EXCEPT ![n] = v]]
  BY <1>1, <1>2, <1>4, <1>5, <1>6
<1>8. z = PutIn(s, n, v)
  BY <1>3, <1>7 DEF PutIn
<1> QED BY <1>1, <1>8

-----------------------------------------------------------------------------
(* A completed source instruction is a step of the program.                *)
Steady == status # "loading" /\ status' # "loading" /\ UNCHANGED emitVars

LEMMA SameWords ==
  ASSUME Steady
  PROVE  UNCHANGED <<EntryWords, BackWords, chosen>>
BY DEF Steady, EntryWords, BackWords, emitVars

(* The program's codes and words are those of the code.                    *)
LEMMA ProgramOps ==
  /\ Blk!PUSH32 = PUSH32 /\ Blk!CALLDATASIZE = CALLDATASIZE /\ Blk!POP = POP
  /\ Blk!SWAP_r = SWAP_r /\ Blk!DUP_r = DUP_r /\ Blk!pGETLOCAL = pGETLOCAL
  /\ Blk!pPUTLOCAL = pPUTLOCAL /\ Blk!pJUMPTO = pJUMPTO /\ Blk!pJUMPIF = pJUMPIF
  /\ Blk!pJUMPSUB = pJUMPSUB /\ Blk!pRETURNSUB = pRETURNSUB
BY DEF Blk!PUSH32, PUSH32, Blk!CALLDATASIZE, CALLDATASIZE, Blk!POP, POP, Blk!SWAP_r, SWAP_r,
  Blk!DUP_r, DUP_r, Blk!pGETLOCAL, pGETLOCAL, Blk!pPUTLOCAL, pPUTLOCAL, Blk!pJUMPTO, pJUMPTO,
  Blk!pJUMPIF, pJUMPIF, Blk!pJUMPSUB, pJUMPSUB, Blk!pRETURNSUB, pRETURNSUB

LEMMA ProgramWord == ASSUME NEW s PROVE Blk!Word(s) = Word(s)
<1>1. ASSUME NEW S PROVE Blk!Cardinality(S) = Cardinality(S)
  BY DEF Blk!Cardinality, Cardinality
<1>2. Blk!Leading(s, 0) = Leading(s, 0)
  BY <1>1 DEF Blk!Leading, Leading
<1>3. ASSUME NEW n PROVE Blk!LastBytes(s, n) = LastBytes(s, n)
  BY DEF Blk!LastBytes, LastBytes
<1> QED BY <1>2, <1>3 DEF Blk!Word, Word

LEMMA InstrIs == Blk!Instr = SrcAt(seen.pos)
BY DEF Blk!Instr, Blk!Blocks, SrcAt, Blks

LEMMA SameSlots == SameMemory => SlotsOf(frames, seen.mem)' = SlotsOf(frames, seen.mem)
BY DEF SameMemory, SlotsOf

LEMMA PushedIs ==
  ASSUME NEW w, SameMemory, seen'.stack = C(w, seen.stack)
  PROVE  Blk!Pushed(w)
BY SameSlots DEF Blk!Pushed, C

LEMMA DropIs == Blk!Drop(1) = Rest1(seen.stack)
BY DEF Blk!Drop, Rest1

LEMMA TopIs ==
  ASSUME IsSeq(seen.stack), Len(seen.stack) >= 1
  PROVE  Blk!Top = seen.stack[1]
<1>1. PICK X : seen.stack \in Seq(X)
  BY DEF IsSeq
<1>2. Head(seen.stack) = seen.stack[1]
  BY <1>1
<1> QED BY <1>2 DEF Blk!Top

LEMMA ProgramPush ==
  ASSUME Steady, PushStep, chosen \in Operands, seen.pos \in Positions
  PROVE  Blk!Execute
<1>1. /\ SrcAt(seen.pos).op = PUSH32 /\ Onwards /\ SameMemory
      /\ seen'.stack = C(IF SrcAt(seen.pos).arg.kind = "symbol"
                         THEN Num(labels[<<SrcAt(seen.pos).arg.f, 1>>])
                         ELSE Word(Src(chosen, seen.pos).arg.bytes), seen.stack)
  BY DEF PushStep
<1>2. PICK m : m = SrcAt(seen.pos)
  OBVIOUS
<1>3. Blk!Instr = m /\ m.op = Blk!PUSH32
  BY <1>1, <1>2, InstrIs, ProgramOps
<1>4. CASE m.arg.kind = "symbol"
  <2>1. m.arg.f \in DOMAIN Program
    <3>1. m.arg.kind # "open" /\ Src(chosen, seen.pos) = m
      BY <1>2, <1>4 DEF Src
    <3>2. IsSource(m, seen.pos[1])
      BY <3>1, SourceIs
    <3>3. m.op \notin {CALLDATASIZE, POP, pRETURNSUB, STOP, SWAP_r, DUP_r, pJUMPSUB,
                       pGETLOCAL, pPUTLOCAL, pJUMPTO, pJUMPIF}
      BY <1>1, <1>2 DEF PUSH32, CALLDATASIZE, POP, pRETURNSUB, STOP, SWAP_r, DUP_r, pJUMPSUB,
           pGETLOCAL, pPUTLOCAL, pJUMPTO, pJUMPIF
    <3>4. IsConst(m) \/ IsAddress(m)
      BY <3>2, <3>3 DEF IsSource, IsSimple, IsCounted, IsLocal, IsJump
    <3>5. ~IsConst(m)
      BY <1>4, ConstantKind DEF IsConst
    <3>6. PICK g \in DOMAIN Program : m.arg = Symbol(g, 1)
      BY <3>4, <3>5 DEF IsAddress
    <3>7. m.arg.f = g
      BY <3>6 DEF Symbol
    <3> QED BY <3>7
  <2>2. EntryWords[m.arg.f] = Num(labels[<<m.arg.f, 1>>])
    BY <2>1, ProgramAssumption DEF Steady, EntryWords
  <2>3. PICK w : w = EntryWords[m.arg.f]
    OBVIOUS
  <2>4. seen'.stack = C(w, seen.stack)
    BY <1>1, <1>2, <1>4, <2>2, <2>3
  <2>5. Blk!Pushed(w)
    BY <1>1, <2>4, PushedIs
  <2>6. Blk!Pushed(EntryWords[m.arg.f])
    BY <2>3, <2>5
  <2> QED BY <1>1, <1>3, <1>4, <2>6, SameWords DEF Blk!Execute, Onwards
<1>5. CASE m.arg.kind # "symbol"
  <2>1. PICK w : w = Word(Src(chosen, seen.pos).arg.bytes)
    OBVIOUS
  <2>2. seen'.stack = C(w, seen.stack)
    BY <1>1, <1>2, <1>5, <2>1
  <2>3. Blk!Pushed(w)
    BY <1>1, <2>2, PushedIs
  <2>4. CASE m.arg.kind = "open"
    <3>1. w = Blk!Word(chosen.bytes)
      <4>1. PICK s : s = chosen.bytes
        OBVIOUS
      <4>2. w = Word(s)
        BY <1>2, <2>1, <2>4, <4>1 DEF Src, MI
      <4>3. w = Blk!Word(s)
        BY <4>2, ProgramWord
      <4> QED BY <4>1, <4>3
    <3>2. Blk!Pushed(Blk!Word(chosen.bytes))
      BY <2>3, <3>1
    <3> QED BY <1>1, <1>3, <2>4, <3>2, SameWords DEF Blk!Execute, Onwards
  <2>5. CASE m.arg.kind # "open"
    <3>1. w = Blk!Word(m.arg.bytes)
      BY <1>2, <2>1, <2>5, ProgramWord DEF Src
    <3>2. Blk!Pushed(Blk!Word(m.arg.bytes))
      BY <2>3, <3>1
    <3> QED BY <1>1, <1>3, <1>5, <2>5, <3>2, SameWords DEF Blk!Execute, Onwards
  <2> QED BY <2>4, <2>5
<1> QED BY <1>4, <1>5

LEMMA ProgramInput == ASSUME Steady, InputStep PROVE Blk!Execute
<1>1. Blk!Instr.op = Blk!CALLDATASIZE /\ Onwards /\ SameMemory
  BY InstrIs, ProgramOps DEF InputStep
<1>2. PICK w \in Inputs : seen'.stack = C(w, seen.stack)
  BY DEF InputStep
<1>3. Blk!Pushed(w)
  BY <1>1, <1>2, PushedIs
<1> QED BY <1>1, <1>3, SameWords DEF Blk!Execute, Onwards

LEMMA ProgramPop == ASSUME Steady, PopStep PROVE Blk!Execute
<1>1. Blk!Instr.op = Blk!POP /\ Onwards /\ SameMemory
  BY InstrIs, ProgramOps DEF PopStep
<1>2. seen'.stack = Blk!Drop(1)
  BY DropIs DEF PopStep
<1> QED BY <1>1, <1>2, SameWords, SameSlots DEF Blk!Execute, Onwards

LEMMA ProgramSwap == ASSUME Steady, NEW n, SwapStep(n) PROVE Blk!Execute
<1>1. Blk!Instr.op = Blk!SWAP_r /\ Blk!Instr.arg.n = n /\ Onwards /\ SameMemory
  BY InstrIs, ProgramOps DEF SwapStep, Count
<1>2. seen'.stack = [seen.stack EXCEPT ![1] = seen.stack[n + 1], ![n + 1] = seen.stack[1]]
  BY DEF SwapStep
<1> QED BY <1>1, <1>2, SameWords, SameSlots DEF Blk!Execute, Onwards

LEMMA ProgramDup == ASSUME Steady, NEW n, DupStep(n) PROVE Blk!Execute
<1>1. Blk!Instr.op = Blk!DUP_r /\ Blk!Instr.arg.n = n /\ Onwards /\ SameMemory
  BY InstrIs, ProgramOps DEF DupStep, Count
<1>2. PICK w : w = seen.stack[n]
  OBVIOUS
<1>3. Blk!Pushed(w)
  BY <1>1, <1>2, PushedIs DEF DupStep
<1> QED BY <1>1, <1>2, <1>3, SameWords DEF Blk!Execute, Onwards

(* The slot of a source instruction.                                       *)
LEMMA LocalSlot ==
  ASSUME FramesOK, chosen \in Operands, SrcAt(seen.pos).op \in {pGETLOCAL, pPUTLOCAL},
         NEW F, F = frames, NEW n, n = SrcAt(seen.pos).arg.n
  PROVE  /\ Chained(F) /\ IsSeq(F) /\ Len(F) \in 1 .. Len(F) /\ n \in SlotsIn(F[Len(F)].f)
         /\ Fp + SlotAt(seen.pos) = SlotAddress(F[Len(F)], n)
<1>1. /\ Chained(F) /\ F[Len(F)].f = seen.pos[1] /\ seen.pos \in Positions /\ IsSeq(F)
      /\ seen.pos[1] \in DOMAIN Program /\ Len(F) \in 1 .. Len(F) /\ Len(F) \in Nat
  BY ChainIs DEF FramesOK
<1>2. Src(chosen, seen.pos) = SrcAt(seen.pos)
  <2>1. SrcAt(seen.pos).op # PUSH32
    BY DEF pGETLOCAL, pPUTLOCAL, PUSH32
  <2> QED BY <1>1, <2>1, NotOpen
<1>3. IsSource(SrcAt(seen.pos), seen.pos[1])
  BY <1>1, <1>2, SourceIs
<1>4. IsLocal(SrcAt(seen.pos), seen.pos[1])
  <2>1. {pGETLOCAL, pPUTLOCAL} \cap {PUSH32, CALLDATASIZE, POP, pRETURNSUB, STOP, SWAP_r, DUP_r,
                                      pJUMPSUB, pJUMPTO, pJUMPIF} = {}
    BY DEF PUSH32, CALLDATASIZE, POP, pRETURNSUB, STOP, SWAP_r, DUP_r, pJUMPSUB,
           pGETLOCAL, pPUTLOCAL, pJUMPTO, pJUMPIF
  <2> QED BY <1>3, <2>1 DEF IsSource, IsConst, IsAddress, IsSimple, IsCounted, IsJump
<1>5. n \in Nat /\ n < Program[seen.pos[1]].slots
  BY <1>1, <1>2, <1>4, LocalIs
<1>6. Program[seen.pos[1]].slots \in Nat
  BY <1>1, FunctionIs
<1>7. n \in SlotsIn(F[Len(F)].f)
  BY <1>1, <1>5, <1>6 DEF SlotsIn
<1>8. Fp + SlotAt(seen.pos) = SlotAddress(F[Len(F)], n)
  BY <1>1 DEF Fp, SlotAt, SlotAddress
<1> QED BY <1>1, <1>7, <1>8

LEMMA ProgramGet ==
  ASSUME Steady, GetStep, FramesOK, chosen \in Operands
  PROVE  Blk!Execute
<1>1. /\ Blk!Instr.op = Blk!pGETLOCAL /\ Blk!Instr = SrcAt(seen.pos) /\ Onwards /\ SameMemory
      /\ SrcAt(seen.pos).op \in {pGETLOCAL, pPUTLOCAL}
      /\ seen'.stack = C(MLoad(seen.mem, Fp + SlotAt(seen.pos)), seen.stack)
  BY InstrIs, ProgramOps DEF GetStep
<1>2. PICK F, M, n, s : /\ F = frames /\ M = seen.mem /\ n = SrcAt(seen.pos).arg.n
                        /\ s = SlotsOf(frames, seen.mem)
  OBVIOUS
<1>3. /\ Chained(F) /\ IsSeq(F) /\ Len(F) \in 1 .. Len(F) /\ n \in SlotsIn(F[Len(F)].f)
      /\ Fp + SlotAt(seen.pos) = SlotAddress(F[Len(F)], n)
  BY <1>1, <1>2, LocalSlot
<1>4. s[Len(s)][n] = MLoad(M, SlotAddress(F[Len(F)], n))
  <2>1. IsSeq(F) /\ Len(F) \in 1 .. Len(F) /\ n \in SlotsIn(F[Len(F)].f)
    BY <1>3
  <2>2. /\ Len(SlotsOf(F, M)) = Len(F)
        /\ SlotsOf(F, M)[Len(F)] = [i \in SlotsIn(F[Len(F)].f) |-> MLoad(M, SlotAddress(F[Len(F)], i))]
    BY <2>1, SlotsAre
  <2>3. s = SlotsOf(F, M)
    BY <1>2
  <2>4. s[Len(s)] = [i \in SlotsIn(F[Len(F)].f) |-> MLoad(M, SlotAddress(F[Len(F)], i))]
    BY <2>2, <2>3
  <2> QED BY <2>1, <2>4
<1>5. PICK w : w = s[Len(s)][n]
  OBVIOUS
<1>6. seen'.stack = C(w, seen.stack)
  BY <1>1, <1>2, <1>3, <1>4, <1>5
<1>7. Blk!Pushed(w)
  BY <1>1, <1>6, PushedIs
<1>8. w = SlotsOf(frames, seen.mem)[Len(SlotsOf(frames, seen.mem))][Blk!Instr.arg.n]
  BY <1>1, <1>2, <1>5
<1>9. Blk!Pushed(SlotsOf(frames, seen.mem)[Len(SlotsOf(frames, seen.mem))][Blk!Instr.arg.n])
  BY <1>7, <1>8
<1> QED BY <1>1, <1>9, SameWords DEF Blk!Execute, Onwards

LEMMA ProgramPut ==
  ASSUME Steady, PutStep, FramesOK, chosen \in Operands
  PROVE  Blk!Execute
<1>1. /\ Blk!Instr.op = Blk!pPUTLOCAL /\ Blk!Instr = SrcAt(seen.pos) /\ Onwards
      /\ SrcAt(seen.pos).op \in {pGETLOCAL, pPUTLOCAL} /\ frames' = frames
      /\ Len(seen.stack) >= 1 /\ seen'.stack = Rest1(seen.stack) /\ IsSeq(seen.stack)
      /\ seen'.mem = Written(seen.mem, Fp + SlotAt(seen.pos), seen.stack[1])
  BY InstrIs, ProgramOps DEF PutStep, FramesOK
<1>2. PICK F, M, n, v : /\ F = frames /\ M = seen.mem /\ n = SrcAt(seen.pos).arg.n
                        /\ v = seen.stack[1]
  OBVIOUS
<1>3. /\ Chained(F) /\ IsSeq(F) /\ Len(F) \in 1 .. Len(F) /\ n \in SlotsIn(F[Len(F)].f)
      /\ Fp + SlotAt(seen.pos) = SlotAddress(F[Len(F)], n)
  BY <1>1, <1>2, LocalSlot
<1>4. SlotsOf(F, Written(M, SlotAddress(F[Len(F)], n), v)) = PutIn(SlotsOf(F, M), n, v)
  <2>1. Chained(F) /\ n \in SlotsIn(F[Len(F)].f)
    BY <1>3
  <2> QED BY <2>1, SlotsPut
<1>5. PICK L : L = Written(M, SlotAddress(F[Len(F)], n), v)
  OBVIOUS
<1>6. frames' = F /\ seen'.mem = L
  BY <1>1, <1>2, <1>3, <1>5
<1>7. SlotsOf(frames, seen.mem)' = SlotsOf(F, L)
  BY <1>6 DEF SlotsOf
<1>8. v = Blk!Top /\ n = Blk!Instr.arg.n /\ seen'.stack = Blk!Drop(1)
  BY <1>1, <1>2, TopIs, DropIs
<1>9. SlotsOf(frames, seen.mem)' =
        PutIn(SlotsOf(frames, seen.mem), Blk!Instr.arg.n, Blk!Top)
  BY <1>2, <1>4, <1>5, <1>7, <1>8
<1> QED BY <1>1, <1>8, <1>9, SameWords DEF Blk!Execute, Onwards, PutIn

LEMMA ProgramJump == ASSUME Steady, NEW b, JumpStep(b) PROVE Blk!Branch
<1>1. /\ Blk!Instr.op = Blk!pJUMPTO /\ Blk!Instr.arg.f = seen.pos[1] /\ Blk!Instr.arg.b = b
      /\ SameMemory /\ seen'.pos = Blk!StartOf(seen.pos[1], b) /\ seen'.stack = seen.stack
  BY InstrIs, ProgramOps DEF JumpStep, Symbol
<1> QED BY <1>1, SameWords, SameSlots DEF Blk!Branch

LEMMA ProgramJumpIf ==
  ASSUME Steady, NEW b, BranchStep(b), IsSeq(seen.stack)
  PROVE  Blk!Branch
<1>1. /\ Blk!Instr.op = Blk!pJUMPIF /\ Blk!Instr.arg.f = seen.pos[1] /\ Blk!Instr.arg.b = b
      /\ SameMemory /\ Len(seen.stack) >= 1 /\ seen'.stack = Rest1(seen.stack)
      /\ seen'.pos = IF seen.stack[1] = << >> THEN Blk!After(seen.pos)
                     ELSE Blk!StartOf(seen.pos[1], b)
  BY InstrIs, ProgramOps DEF BranchStep, Symbol
<1>2. Blk!Top = seen.stack[1] /\ seen'.stack = Blk!Drop(1)
  BY <1>1, TopIs, DropIs
<1> QED BY <1>1, <1>2, SameWords, SameSlots DEF Blk!Branch

LEMMA ProgramCall ==
  ASSUME Steady, NEW n, NEW g, CallStep(n, g), FramesOK
  PROVE  Blk!Call
<1>1. /\ Blk!Instr.op = Blk!pJUMPSUB /\ Blk!Instr.arg.n = n /\ g \in DOMAIN Program
      /\ seen.stack[n] = Num(labels[<<g, 1>>]) /\ seen'.pos = Blk!StartOf(g, 1)
      /\ seen.pos \in DOMAIN back /\ seen'.stack = Put(seen.stack, n, Num(back[seen.pos]))
      /\ seen'.mem = MovedSP(seen.mem, seen.pos[1], Fp)
      /\ frames' = Append(frames, [f |-> g, fp |-> Fp + NextAt(seen.pos[1])])
  BY InstrIs, ProgramOps DEF CallStep, Count
<1>2. EntryWords[g] = seen.stack[n]
  BY <1>1, ProgramAssumption DEF Steady, EntryWords
<1>3. BackWords[seen.pos] = Num(back[seen.pos])
  BY <1>1 DEF Steady, BackWords
<1>4. seen'.stack = [seen.stack EXCEPT ![n] = BackWords[seen.pos]]
  BY <1>1, <1>3 DEF Put
<1>5. PICK F, M, f, fp, G, L :
        /\ F = frames /\ M = seen.mem /\ f = seen.pos[1] /\ fp = Fp
        /\ G = Append(frames, [f |-> g, fp |-> Fp + NextAt(seen.pos[1])])
        /\ L = MovedSP(seen.mem, seen.pos[1], Fp)
  OBVIOUS
<1>6. /\ Chained(F) /\ f = F[Len(F)].f /\ fp = F[Len(F)].fp
      /\ G = Append(F, [f |-> g, fp |-> fp + NextAt(f)]) /\ L = MovedSP(M, f, fp)
  BY <1>5 DEF FramesOK, Fp
<1>7. frames' = G /\ seen'.mem = L
  BY <1>1, <1>5
<1>8. SlotsOf(frames, seen.mem) = SlotsOf(F, M)
  BY <1>5
<1>9. SlotsOf(frames, seen.mem)' = SlotsOf(G, L)
  BY <1>7 DEF SlotsOf
<1>10. /\ Len(SlotsOf(G, L)) = Len(SlotsOf(F, M)) + 1
       /\ \A k \in DOMAIN SlotsOf(F, M) : SlotsOf(G, L)[k] = SlotsOf(F, M)[k]
  <2>1. IsSeq(F) /\ Len(F) \in Nat
    BY <1>6, ChainIs
  <2>2. PICK e : G = Append(F, e)
    BY <1>6
  <2>3. IsSeq(G) /\ Len(G) = Len(F) + 1 /\ \A k \in 1 .. Len(F) : G[k] = F[k]
    BY <2>1, <2>2, Appended
  <2>4. /\ Len(SlotsOf(G, L)) = Len(G) /\ Len(SlotsOf(F, M)) = Len(F)
        /\ DOMAIN SlotsOf(F, M) = 1 .. Len(F)
    BY <2>1, <2>3, SlotsAre
  <2>5. Agree(F, M, L)
    BY <1>6, AgreeSaved
  <2>6. ASSUME NEW k \in 1 .. Len(F) PROVE SlotsOf(G, L)[k] = SlotsOf(F, M)[k]
    <3>1. k \in 1 .. Len(G) /\ G[k] = F[k]
      BY <2>1, <2>3
    <3> QED BY <2>1, <2>3, <2>5, <3>1, SlotsAgree
  <2> QED BY <2>3, <2>4, <2>6
<1>11. /\ Len(SlotsOf(frames, seen.mem)') = Len(SlotsOf(frames, seen.mem)) + 1
       /\ \A k \in DOMAIN SlotsOf(frames, seen.mem) :
            SlotsOf(frames, seen.mem)'[k] = SlotsOf(frames, seen.mem)[k]
  BY <1>8, <1>9, <1>10
<1> QED BY <1>1, <1>2, <1>4, <1>11, SameWords DEF Blk!Call

LEMMA ProgramReturn ==
  ASSUME Steady, NEW c, ReturnStep(c), FramesOK
  PROVE  Blk!Return
<1>1. /\ Blk!Instr.op = Blk!pRETURNSUB /\ Len(frames) > 1 /\ c \in DOMAIN back
      /\ Len(seen.stack) >= 1 /\ seen.stack[1] = Num(back[c]) /\ seen'.pos = Blk!After(c)
      /\ seen'.stack = Rest1(seen.stack) /\ frames' = SubSeq(frames, 1, Len(frames) - 1)
      /\ seen'.mem = Written(seen.mem, FPAddr, MLoad(seen.mem, Fp - 32))
  BY InstrIs, ProgramOps DEF ReturnStep
<1>2. Blk!Top = seen.stack[1] /\ seen'.stack = Blk!Drop(1)
  BY <1>1, TopIs, DropIs DEF FramesOK
<1>3. c \in DOMAIN BackWords /\ BackWords[c] = Blk!Top
  BY <1>1, <1>2 DEF Steady, BackWords
<1>4. PICK F, M, G, L, n, v :
        /\ F = frames /\ M = seen.mem /\ G = SubSeq(frames, 1, Len(frames) - 1) /\ n = Len(frames) - 1
        /\ v = MLoad(seen.mem, Fp - 32) /\ L = Written(M, FPAddr, v)
  OBVIOUS
<1>5. Chained(F) /\ G = SubSeq(F, 1, n) /\ n = Len(F) - 1 /\ Len(F) > 1 /\ L = Written(M, FPAddr, v)
  BY <1>1, <1>4 DEF FramesOK
<1>6. frames' = G /\ seen'.mem = L
  BY <1>1, <1>4
<1>7. SlotsOf(frames, seen.mem) = SlotsOf(F, M)
  BY <1>4
<1>8. SlotsOf(frames, seen.mem)' = SlotsOf(G, L)
  BY <1>6 DEF SlotsOf
<1>9. PICK s, z : s = SlotsOf(F, M) /\ z = SlotsOf(G, L)
  OBVIOUS
<1>10. z = SubSeq(s, 1, Len(s) - 1)
  <2>1. IsSeq(F) /\ n \in Nat /\ Len(F) = n + 1
    BY <1>5, ChainIs
  <2>2. PICK o \in Nat : o = 1
    OBVIOUS
  <2>3. o >= 1 /\ n <= Len(F) /\ o <= n + 1 /\ G = SubSeq(F, o, n)
    BY <1>5, <2>1, <2>2
  <2>4. IsSeq(G) /\ Len(G) = (n - o) + 1 /\ \A i \in 1 .. (n - o) + 1 : G[i] = F[(o + i) - 1]
    BY <2>1, <2>3, SubSeqIs
  <2>5. IsSeq(G) /\ Len(G) = n /\ \A i \in 1 .. n : G[i] = F[i]
    BY <2>1, <2>2, <2>4
  <2>6. /\ IsSeq(s) /\ Len(s) = n + 1 /\ IsSeq(z) /\ Len(z) = n
    BY <1>9, <2>1, <2>5, SlotsAre
  <2>7. Agree(F, M, L)
    BY <1>5, AgreeLow
  <2>8. \A k \in 1 .. n : z[k] = s[k]
    <3> SUFFICES ASSUME NEW k \in 1 .. n PROVE z[k] = s[k]
      OBVIOUS
    <3>1. k \in 1 .. Len(F) /\ k \in 1 .. Len(G) /\ G[k] = F[k]
      BY <2>1, <2>5
    <3>2. SlotsOf(G, L)[k] = SlotsOf(F, M)[k]
      BY <2>1, <2>5, <2>7, <3>1, SlotsAgree
    <3> QED BY <1>9, <3>2
  <2>9. PICK t : t = SubSeq(s, o, n)
    OBVIOUS
  <2>10. IsSeq(t) /\ Len(t) = (n - o) + 1 /\ \A i \in 1 .. (n - o) + 1 : t[i] = s[(o + i) - 1]
    <3>1. o >= 1 /\ n <= Len(s) /\ o <= n + 1
      BY <2>1, <2>2, <2>6
    <3> QED BY <2>1, <2>6, <2>9, <3>1, SubSeqIs
  <2>11. IsSeq(t) /\ Len(t) = n /\ \A i \in 1 .. n : t[i] = s[i]
    BY <2>1, <2>2, <2>10
  <2>12. z = t
    <3>1. PICK X : z \in Seq(X)
      BY <2>6 DEF IsSeq
    <3>2. PICK Y : t \in Seq(Y)
      BY <2>11 DEF IsSeq
    <3>3. z = [i \in 1 .. n |-> z[i]] /\ t = [i \in 1 .. n |-> t[i]]
      BY <2>6, <2>11, <3>1, <3>2
    <3>4. \A i \in 1 .. n : z[i] = t[i]
      BY <2>8, <2>11
    <3> QED BY <3>3, <3>4
  <2>13. Len(s) - 1 = n
    BY <2>1, <2>6
  <2> QED BY <2>2, <2>9, <2>12, <2>13
<1>11. SlotsOf(frames, seen.mem)' =
         SubSeq(SlotsOf(frames, seen.mem), 1, Len(SlotsOf(frames, seen.mem)) - 1)
  BY <1>7, <1>8, <1>9, <1>10
<1> QED BY <1>1, <1>2, <1>3, <1>11, SameWords DEF Blk!Return

LEMMA ProgramStep ==
  ASSUME Steady, SourceStep, FramesOK, chosen \in Operands
  PROVE  Blk!BNext
<1>1. IsSeq(seen.stack) /\ seen.pos \in Positions
  BY DEF FramesOK
<1>2. CASE PushStep \/ InputStep \/ PopStep \/ GetStep \/ PutStep
  BY <1>1, <1>2, ProgramPush, ProgramInput, ProgramPop, ProgramGet, ProgramPut DEF Blk!BNext
<1>3. ASSUME NEW n \in 1 .. 16, SwapStep(n) \/ DupStep(n) \/ \E g \in DOMAIN Program : CallStep(n, g)
      PROVE  Blk!BNext
  BY <1>3, ProgramSwap, ProgramDup, ProgramCall DEF Blk!BNext
<1>4. ASSUME NEW b \in Nat, JumpStep(b) \/ BranchStep(b) PROVE Blk!BNext
  BY <1>1, <1>4, ProgramJump, ProgramJumpIf DEF Blk!BNext
<1>5. ASSUME NEW c \in DOMAIN back, ReturnStep(c) PROVE Blk!BNext
  BY <1>5, ProgramReturn DEF Blk!BNext
<1> QED BY <1>2, <1>3, <1>4, <1>5 DEF SourceStep

LEMMA ProgramStays ==
  ASSUME UNCHANGED <<chosen, frames, seen>>, UNCHANGED <<EntryWords, BackWords>>
  PROVE  UNCHANGED Blk!bvars
<1>1. SlotsOf(frames, seen.mem)' = SlotsOf(frames, seen.mem)
  BY DEF SlotsOf
<1> QED BY <1>1 DEF Blk!bvars

LEMMA ProgramInit == Init => Blk!BInit
<1> SUFFICES ASSUME Init PROVE Blk!BInit
  OBVIOUS
<1>1. /\ status = "loading" /\ frames = << [f |-> Main, fp |-> EntryFP] >>
      /\ seen.pos = <<Main, 1, 1>> /\ seen.stack = << >>
  BY DEF Init, ExecInit
<1>2. DOMAIN EntryWords = {}
  BY <1>1 DEF EntryWords
<1>3. DOMAIN SlotsOf(frames, seen.mem) = {1}
  <2>1. DOMAIN frames = {1}
    BY <1>1
  <2> QED BY <2>1 DEF SlotsOf
<1> QED BY <1>1, <1>2, <1>3, MainIs DEF Blk!BInit

LEMMA ProgramNext == CodeInv /\ Disciplined /\ [Next]_vars => [Blk!BNext]_(Blk!bvars)
<1> SUFFICES ASSUME CodeInv, Disciplined, [Next]_vars PROVE Blk!BNext \/ UNCHANGED Blk!bvars
  OBVIOUS
<1>1. PICK T : Tape(T) /\ Loading(T) /\ Exec(T)
  BY DEF CodeInv, Running
<1>2. CASE Compile
  <2>1. chosen' = chosen /\ UNCHANGED <<frames, seen, status>> /\ stage # "run"
    BY <1>2 DEF Compile, EmitNext, execVars, ExpandPseudos, ConvertRegToStack, Shrinkpush,
         Finalization, EmitLabel, EmitInstruction, BlockWritten, FunctionWritten, ApplyFixup, WriteObject
  <2>2. status = "loading"
    BY <1>1, <2>1 DEF Loading
  <2>3. UNCHANGED <<EntryWords, BackWords>>
    BY <2>1, <2>2 DEF EntryWords, BackWords
  <2> QED BY <2>1, <2>3, ProgramStays
<1>3. CASE Analyze
  <2>1. UNCHANGED <<chosen, frames, seen>> /\ status = "loading" /\ status' = "loading"
    BY <1>3 DEF Analyze, emitVars
  <2> QED BY <2>1, ProgramStays DEF EntryWords, BackWords
<1>4. CASE Start
  <2>1. UNCHANGED <<chosen, frames, seen>> /\ status = "loading"
    BY <1>4 DEF Start, emitVars
  <2>2. SlotsOf(frames, seen.mem)' = SlotsOf(frames, seen.mem)
    BY <2>1 DEF SlotsOf
  <2>3. DOMAIN EntryWords = {}
    BY <2>1 DEF EntryWords
  <2> QED BY <2>1, <2>2, <2>3 DEF Blk!BNext, Blk!Place
<1>5. CASE Stop
  <2>1. UNCHANGED <<frames, seen>> /\ Steady
    BY <1>5 DEF Stop, Steady
  <2> QED BY <2>1, SameWords, ProgramStays
<1>6. CASE Execute
  <2>1. status = "running" /\ FramesOK /\ chosen \in Operands
    BY <1>1, <1>6 DEF Execute, Exec, Tape, Static
  <2>2. Reaches(T)
    BY <1>1, <1>6, ExecuteReaches
  <2>3. Steady
    BY <2>1, <2>2 DEF Reaches, Steady
  <2>4. PICK x \in 1 .. Len(T) : StillInside(T, x) \/ Completed(T, x)
    BY <2>2 DEF Reaches
  <2>5. CASE StillInside(T, x)
    BY <2>3, <2>5, SameWords, ProgramStays DEF StillInside
  <2>6. CASE Completed(T, x)
    BY <2>1, <2>3, <2>6, ProgramStep DEF Completed
  <2> QED BY <2>4, <2>5, <2>6
<1>7. CASE UNCHANGED vars
  BY <1>7, ProgramStays DEF vars, EntryWords, BackWords
<1> QED BY <1>2, <1>3, <1>4, <1>5, <1>6, <1>7 DEF Next

(* The passes and the encoder keep the meaning of a Disciplined program:   *)
(* at each source instruction reached, the stack and the slots of every    *)
(* active function are what BlockProgram says, and each stretch of code    *)
(* between two of them is one step of it.                                  *)
THEOREM CodeImplementsProgram == Spec /\ []Disciplined => ImplementsProgram
<1> QED BY InvInit, InvNext, ProgramInit, ProgramNext, PTL DEF Spec, ImplementsProgram, Blk!BSpec

-----------------------------------------------------------------------------
(* The frames of CallFrames.                                               *)
LEMMA NumberOfEmpty == NumberOf(<< >>) = 0
<1>1. <<0, 0, 0>> \o << >> = <<0, 0, 0>>
  OBVIOUS
<1> QED BY <1>1 DEF NumberOf

LEMMA FrameLoad ==
  ASSUME NEW a
  PROVE  Frm!MLoad(a) = NumberOf(MLoad(seen.mem, a))
BY NumberOfEmpty DEF Frm!MLoad, MLoad, Numbers

LEMMA FrameWrites ==
  ASSUME NEW m, NEW a, NEW v
  PROVE  Numbers(Written(m, a, v)) = Frm!Written(Numbers(m), a, NumberOf(v))
BY DEF Numbers, Written, Frm!Written

LEMMA FrameCells ==
  ASSUME NEW f \in DOMAIN Program
  PROVE  /\ Frm!FPAddr(f) = FPAddr /\ Frm!SPAddr(f) = FPAddr + 32
         /\ Frm!SaveIndex(f) = SaveIndex(f)
BY ProgramAssumption DEF Frm!FPAddr, FPAddr, Frm!SPAddr, Frm!SaveIndex, SaveIndex

LEMMA FrameIs ==
  ASSUME FramesOK, Room(seen.pos[1], Fp)
  PROVE  Frm!Cur = seen.pos[1] /\ Frm!FP = Fp /\ seen.pos[1] \in DOMAIN Program
<1>1. Frm!Cur = seen.pos[1] /\ seen.pos[1] \in DOMAIN Program
  BY DEF FramesOK, Frm!Cur, Room
<1>2. Frm!FPAddr(Frm!Cur) = FPAddr
  BY <1>1, FrameCells
<1>3. PICK a : a = FPAddr
  OBVIOUS
<1>4. Frm!MLoad(a) = NumberOf(MLoad(seen.mem, a))
  BY FrameLoad
<1>5. MLoad(seen.mem, a) = Num(Fp)
  BY <1>3 DEF FramesOK, Linked, Fp
<1>6. NumberOf(Num(Fp)) = Fp
  BY RoomNumbers
<1> QED BY <1>1, <1>2, <1>3, <1>4, <1>5, <1>6 DEF Frm!FP

(* The value loaded last.                                                  *)
GotNext ==
  seen'.got = IF SrcAt(seen.pos).op = pGETLOCAL THEN NumberOf(seen'.stack[1]) ELSE seen.got

LEMMA GotIs ==
  ASSUME NEW T, Tape(T), Execute, NEW x \in 1 .. Len(T), pc' = T[x].at, T[x].q = 1,
         status' = "running"
  PROVE  GotNext
<1>1. PICK r \in Results :
        IF Faults(r)
        THEN status' = "fault"
        ELSE /\ pc' = r.pc
             /\ IF r.pc \in DOMAIN origin
                THEN seen' = [pos |-> origin[r.pc], stack |-> r.stack, mem |-> r.mem,
                              got |-> IF SourceInstr.op = pGETLOCAL
                                      THEN NumberOf(r.stack[1]) ELSE seen.got]
                ELSE UNCHANGED <<frames, seen>>
  BY DEF Execute
<1>2. T[x].at \in DOMAIN origin
  BY DEF Tape, Output, OriginOK
<1>3. seen' = [pos |-> origin[r.pc], stack |-> r.stack, mem |-> r.mem,
               got |-> IF SourceInstr.op = pGETLOCAL THEN NumberOf(r.stack[1]) ELSE seen.got]
  BY <1>1, <1>2
<1>4. SourceInstr.op = SrcAt(seen.pos).op
  BY DEF SourceInstr, SrcAt, Blks
<1> QED BY <1>3, <1>4 DEF GotNext

FramesStill ==
  UNCHANGED <<Numbers(seen.mem), Len(frames), frames, seen.got>>

LEMMA FrameOther ==
  ASSUME SameMemory, GotNext, SrcAt(seen.pos).op # pGETLOCAL
  PROVE  FramesStill
BY DEF SameMemory, GotNext, FramesStill, Numbers

LEMMA FrameAddress ==
  ASSUME FramesOK, Room(seen.pos[1], Fp), chosen \in Operands,
         SrcAt(seen.pos).op \in {pGETLOCAL, pPUTLOCAL}, NEW n, n = SrcAt(seen.pos).arg.n
  PROVE  /\ Frm!LocalAddress(n) = Fp + SlotAt(seen.pos)
         /\ n \in 0 .. [f \in ToSet(Funcs) |-> Program[f].slots][Frm!Cur]
<1>1. Frm!Cur = seen.pos[1] /\ Frm!FP = Fp /\ seen.pos[1] \in ToSet(Funcs) /\ seen.pos[1] \in DOMAIN Program
  BY FrameIs, ProgramAssumption
<1>2. PICK F : F = frames
  OBVIOUS
<1>3. n \in SlotsIn(F[Len(F)].f) /\ F[Len(F)].f = seen.pos[1]
  BY <1>2, LocalSlot DEF FramesOK
<1>4. Program[seen.pos[1]].slots \in Nat
  BY <1>1, FunctionIs
<1>5. n \in 0 .. Program[seen.pos[1]].slots
  BY <1>3, <1>4 DEF SlotsIn
<1>6. Frm!LocalAddress(n) = Fp + SlotAt(seen.pos)
  BY <1>1 DEF Frm!LocalAddress, SlotAt
<1> QED BY <1>1, <1>5, <1>6

LEMMA FrameGet ==
  ASSUME FramesOK, Room(seen.pos[1], Fp), chosen \in Operands, GetStep, GotNext
  PROVE  Frm!Next
<1>1. /\ SrcAt(seen.pos).op = pGETLOCAL /\ SameMemory /\ IsSeq(seen.stack)
      /\ seen'.stack = C(MLoad(seen.mem, Fp + SlotAt(seen.pos)), seen.stack)
  BY DEF GetStep, FramesOK
<1>2. PICK n, a, w, s : /\ n = SrcAt(seen.pos).arg.n /\ a = Fp + SlotAt(seen.pos)
                        /\ w = MLoad(seen.mem, a) /\ s = seen.stack
  OBVIOUS
<1>3. /\ Frm!LocalAddress(n) = a
      /\ n \in 0 .. [f \in ToSet(Funcs) |-> Program[f].slots][Frm!Cur]
  BY <1>1, <1>2, FrameAddress
<1>4. C(w, s)[1] = w
  BY <1>1, <1>2, ConsIs
<1>5. seen'.got = NumberOf(w)
  BY <1>1, <1>2, <1>4 DEF GotNext
<1>6. Frm!MLoad(a) = NumberOf(w)
  BY <1>2, FrameLoad
<1>7. UNCHANGED <<Numbers(seen.mem), Len(frames), frames>>
  BY <1>1 DEF SameMemory, Numbers
<1>8. Frm!GetLocal(n)
  BY <1>3, <1>5, <1>6, <1>7 DEF Frm!GetLocal
<1> QED BY <1>3, <1>8 DEF Frm!Next

LEMMA FramePut ==
  ASSUME FramesOK, Room(seen.pos[1], Fp), chosen \in Operands, PutStep, GotNext,
         NumberOf(seen.stack[1]) \in InputNumbers
  PROVE  Frm!Next
<1>1. /\ SrcAt(seen.pos).op = pPUTLOCAL /\ frames' = frames
      /\ seen'.mem = Written(seen.mem, Fp + SlotAt(seen.pos), seen.stack[1])
  BY DEF PutStep
<1>2. PICK n, a, v, m : /\ n = SrcAt(seen.pos).arg.n /\ a = Fp + SlotAt(seen.pos)
                        /\ v = seen.stack[1] /\ m = seen.mem
  OBVIOUS
<1>3. /\ Frm!LocalAddress(n) = a
      /\ n \in 0 .. [f \in ToSet(Funcs) |-> Program[f].slots][Frm!Cur]
  BY <1>1, <1>2, FrameAddress
<1>4. pPUTLOCAL # pGETLOCAL
  BY DEF pPUTLOCAL, pGETLOCAL
<1>5. seen'.got = seen.got
  BY <1>1, <1>4 DEF GotNext
<1>6. seen'.mem = Written(m, a, v)
  BY <1>1, <1>2
<1>7. Numbers(seen.mem)' = Frm!Written(Numbers(m), a, NumberOf(v))
  BY <1>6, FrameWrites DEF Numbers
<1>8. Numbers(seen.mem)' = Frm!Written(Numbers(seen.mem), a, NumberOf(v))
  BY <1>2, <1>7
<1>9. Frm!PutLocal(n, NumberOf(v))
  BY <1>1, <1>3, <1>5, <1>8 DEF Frm!PutLocal
<1>10. NumberOf(v) \in InputNumbers
  BY <1>2
<1> QED BY <1>3, <1>9, <1>10 DEF Frm!Next

LEMMA FrameCall ==
  ASSUME FramesOK, Room(seen.pos[1], Fp), NEW n, NEW g, CallStep(n, g), GotNext,
         Len(frames) < MaxDepth, g # Main
  PROVE  Frm!Next
<1>1. /\ SrcAt(seen.pos).op = pJUMPSUB /\ g \in DOMAIN Program
      /\ seen'.mem = MovedSP(seen.mem, seen.pos[1], Fp)
      /\ frames' = Append(frames, [f |-> g, fp |-> Fp + NextAt(seen.pos[1])])
  BY DEF CallStep
<1>2. PICK F, M, f, fp, a, y, G : /\ F = frames /\ M = seen.mem /\ f = seen.pos[1] /\ fp = Fp
                                 /\ a = FPAddr /\ y = Fp + NextAt(seen.pos[1])
                                 /\ G = Append(frames, [f |-> g, fp |-> y])
  OBVIOUS
<1>3. Frm!Cur = f /\ Frm!FP = fp /\ f \in DOMAIN Program
  BY <1>2, FrameIs
<1>4. /\ Frm!FPAddr(f) = a /\ Frm!SPAddr(f) = a + 32 /\ Frm!SaveIndex(f) = SaveIndex(f)
  BY <1>2, <1>3, FrameCells
<1>5. Frm!NewFP(f) = y /\ Frm!FP + 32 * Frm!SaveIndex(f) = fp + SaveAt(f)
  BY <1>2, <1>3, <1>4 DEF Frm!NewFP, NextAt, SaveAt
<1>6. NumberOf(Num(fp)) = fp /\ NumberOf(Num(y)) = y
  BY <1>2, RoomNumbers
<1>7. seen'.mem = Written(Written(Written(M, fp + SaveAt(f), Num(fp)), a, Num(y)), a + 32, Num(y))
  BY <1>1, <1>2 DEF MovedSP, MovedFP, Saved
<1>8. PICK m1, m2, m3 : /\ m1 = Written(M, fp + SaveAt(f), Num(fp)) /\ m2 = Written(m1, a, Num(y))
                        /\ m3 = Written(m2, a + 32, Num(y))
  OBVIOUS
<1>9. /\ Numbers(m1) = Frm!Written(Numbers(M), fp + SaveAt(f), fp)
      /\ Numbers(m2) = Frm!Written(Numbers(m1), a, y)
      /\ Numbers(m3) = Frm!Written(Numbers(m2), a + 32, y)
  BY <1>6, <1>8, FrameWrites
<1>10. Numbers(seen.mem)' = Numbers(m3)
  BY <1>7, <1>8 DEF Numbers
<1>11. Numbers(seen.mem)' =
         Frm!Written(Frm!Written(Frm!Written(Numbers(seen.mem), fp + SaveAt(f), fp), a, y), a + 32, y)
  BY <1>2, <1>9, <1>10
<1>12. pJUMPSUB # pGETLOCAL
  BY DEF pJUMPSUB, pGETLOCAL
<1>13. seen'.got = seen.got
  BY <1>1, <1>12 DEF GotNext
<1>14. IsSeq(F) /\ Len(F) \in Nat
  BY <1>2, ChainIs DEF FramesOK
<1>15. /\ Len(G) = Len(F) + 1
       /\ G = [k \in 1 .. Len(F) + 1 |-> IF k <= Len(F) THEN F[k] ELSE [f |-> g, fp |-> y]]
  <2>1. PICK e : e = [f |-> g, fp |-> y]
    OBVIOUS
  <2>2. G = Append(F, e)
    BY <1>2, <2>1
  <2>3. IsSeq(G) /\ Len(G) = Len(F) + 1 /\ G[Len(F) + 1] = e /\ \A k \in 1 .. Len(F) : G[k] = F[k]
    BY <1>14, <2>2, Appended
  <2>4. PICK X : G \in Seq(X)
    BY <2>3 DEF IsSeq
  <2>5. G = [k \in 1 .. Len(F) + 1 |-> G[k]]
    BY <2>3, <2>4
  <2>6. \A k \in 1 .. Len(F) + 1 : G[k] = IF k <= Len(F) THEN F[k] ELSE e
    <3> SUFFICES ASSUME NEW k \in 1 .. Len(F) + 1 PROVE G[k] = IF k <= Len(F) THEN F[k] ELSE e
      OBVIOUS
    <3>1. CASE k <= Len(F)
      <4>1. k \in 1 .. Len(F)
        BY <1>14, <3>1
      <4> QED BY <2>3, <3>1, <4>1
    <3>2. CASE k = Len(F) + 1
      BY <1>14, <2>3, <3>2
    <3> QED BY <1>14, <3>1, <3>2
  <2>7. G = [k \in 1 .. Len(F) + 1 |-> IF k <= Len(F) THEN F[k] ELSE e]
    BY <2>5, <2>6
  <2> QED BY <2>1, <2>3, <2>7
<1>16. frames' = G
  BY <1>1, <1>2
<1>17. /\ Len(frames)' = Len(frames) + 1
       /\ frames' = [k \in 1 .. Len(frames) + 1 |->
                       IF k <= Len(frames) THEN frames[k] ELSE [f |-> g, fp |-> Frm!NewFP(Frm!Cur)]]
  BY <1>2, <1>3, <1>5, <1>15, <1>16
<1>18. Numbers(seen.mem)' =
         Frm!Written(Frm!Written(Frm!Written(Numbers(seen.mem), Frm!FP + 32 * Frm!SaveIndex(Frm!Cur), Frm!FP),
                                 Frm!FPAddr(Frm!Cur), Frm!NewFP(Frm!Cur)),
                     Frm!SPAddr(Frm!Cur), Frm!NewFP(Frm!Cur))
  BY <1>3, <1>4, <1>5, <1>11
<1>19. Frm!Call(g)
  BY <1>13, <1>17, <1>18 DEF Frm!Call
<1>20. g \in ToSet(Funcs) \ {Main}
  BY <1>1, ProgramAssumption
<1> QED BY <1>19, <1>20 DEF Frm!Next

LEMMA FrameReturn ==
  ASSUME FramesOK, Room(seen.pos[1], Fp), NEW c, ReturnStep(c), GotNext
  PROVE  Frm!Next
<1>1. /\ SrcAt(seen.pos).op = pRETURNSUB /\ Len(frames) > 1
      /\ frames' = SubSeq(frames, 1, Len(frames) - 1)
      /\ seen'.mem = Written(seen.mem, FPAddr, MLoad(seen.mem, Fp - 32))
  BY DEF ReturnStep
<1>2. PICK F, M, fp, a, d, h, v :
        /\ F = frames /\ M = seen.mem /\ fp = Fp /\ a = FPAddr /\ d = Fp - 32
        /\ h = frames[Len(frames) - 1].f /\ v = MLoad(seen.mem, Fp - 32)
  OBVIOUS
<1>3. Chained(F) /\ IsSeq(F) /\ Len(F) \in Nat /\ Len(F) > 1
  BY <1>1, <1>2, ChainIs DEF FramesOK
<1>4. h \in DOMAIN Program
  <2>1. Len(F) - 1 \in 1 .. Len(F)
    BY <1>3
  <2> QED BY <1>2, <1>3, <2>1, ChainIs
<1>5. Frm!FPAddr(h) = a
  BY <1>2, <1>4, FrameCells
<1>6. Frm!MLoad(a) = fp
  <2>1. Frm!MLoad(a) = NumberOf(MLoad(seen.mem, a))
    BY FrameLoad
  <2>2. MLoad(seen.mem, a) = Num(Fp) /\ NumberOf(Num(Fp)) = Fp
    BY <1>2, RoomNumbers DEF FramesOK, Linked, Fp
  <2> QED BY <1>2, <2>1, <2>2
<1>7. Frm!MLoad(d) = NumberOf(v)
  BY <1>2, FrameLoad
<1>8. Numbers(Written(M, a, v)) = Frm!Written(Numbers(M), a, NumberOf(v))
  BY FrameWrites
<1>9. seen'.mem = Written(M, a, v)
  BY <1>1, <1>2
<1>10. Numbers(seen.mem)' = Numbers(Written(M, a, v))
  BY <1>9 DEF Numbers
<1>11. Numbers(seen.mem)' = Frm!Restored(h)
  BY <1>2, <1>5, <1>6, <1>7, <1>8, <1>10 DEF Frm!Restored
<1>12. pRETURNSUB # pGETLOCAL
  BY DEF pRETURNSUB, pGETLOCAL
<1>13. seen'.got = seen.got
  BY <1>1, <1>12 DEF GotNext
<1>14. PICK k, o, G : k = Len(F) - 1 /\ o = 1 /\ G = SubSeq(F, o, k)
  OBVIOUS
<1>15. Len(G) = k /\ G = [i \in 1 .. k |-> F[i]]
  <2>1. k \in Nat /\ o \in Nat /\ o >= 1 /\ k <= Len(F) /\ o <= k + 1
    BY <1>3, <1>14
  <2>2. IsSeq(G) /\ Len(G) = (k - o) + 1 /\ \A i \in 1 .. (k - o) + 1 : G[i] = F[(o + i) - 1]
    BY <1>3, <1>14, <2>1, SubSeqIs
  <2>3. Len(G) = k /\ \A i \in 1 .. k : G[i] = F[i]
    <3>1. (k - o) + 1 = k /\ \A i \in 1 .. k : (o + i) - 1 = i
      BY <1>14, <2>1
    <3> QED BY <2>2, <3>1
  <2>4. PICK X : G \in Seq(X)
    BY <2>2 DEF IsSeq
  <2>5. G = [i \in 1 .. k |-> G[i]]
    BY <2>3, <2>4
  <2> QED BY <2>3, <2>5
<1>16. frames' = G
  BY <1>1, <1>2, <1>14
<1>17. /\ Len(frames)' = Len(frames) - 1
       /\ frames' = [i \in 1 .. Len(frames) - 1 |-> frames[i]]
  BY <1>2, <1>14, <1>15, <1>16
<1>18. Frm!Return
  BY <1>1, <1>2, <1>11, <1>13, <1>17 DEF Frm!Return
<1> QED BY <1>18 DEF Frm!Next

LEMMA FrameStep ==
  ASSUME FramesOK, Room(seen.pos[1], Fp), chosen \in Operands, SourceStep, GotNext,
         WithinFrames, status = "running"
  PROVE  Frm!Next \/ FramesStill
<1>1. SourceInstr = SrcAt(seen.pos)
  BY DEF SourceInstr, SrcAt, Blks
<1>2. pGETLOCAL \notin {PUSH32, CALLDATASIZE, POP, SWAP_r, DUP_r, pJUMPTO, pJUMPIF}
  BY DEF pGETLOCAL, PUSH32, CALLDATASIZE, POP, SWAP_r, DUP_r, pJUMPTO, pJUMPIF
<1>3. CASE PushStep \/ InputStep \/ PopStep
  BY <1>2, <1>3, FrameOther DEF PushStep, InputStep, PopStep
<1>4. CASE GetStep
  BY <1>4, FrameGet
<1>5. CASE PutStep
  <2>1. NumberOf(seen.stack[1]) \in InputNumbers
    BY <1>1, <1>5 DEF WithinFrames, PutStep
  <2> QED BY <1>5, <2>1, FramePut
<1>6. ASSUME NEW n \in 1 .. 16, SwapStep(n) \/ DupStep(n) PROVE FramesStill
  BY <1>2, <1>6, FrameOther DEF SwapStep, DupStep
<1>7. ASSUME NEW n \in 1 .. 16, NEW g \in DOMAIN Program, CallStep(n, g) PROVE Frm!Next
  <2>1. /\ SrcAt(seen.pos).op = pJUMPSUB /\ SrcAt(seen.pos).arg.n = n
        /\ seen.stack[n] = Num(labels[<<g, 1>>])
    BY <1>7 DEF CallStep, Count
  <2>2. Len(frames) < MaxDepth /\ seen.stack[n] # Num(labels[<<Main, 1>>])
    BY <1>1, <2>1 DEF WithinFrames
  <2>3. g # Main
    BY <2>1, <2>2
  <2> QED BY <1>7, <2>2, <2>3, FrameCall
<1>8. ASSUME NEW b \in Nat, JumpStep(b) \/ BranchStep(b) PROVE FramesStill
  BY <1>2, <1>8, FrameOther DEF JumpStep, BranchStep
<1>9. ASSUME NEW c \in DOMAIN back, ReturnStep(c) PROVE Frm!Next
  BY <1>9, FrameReturn
<1> QED BY <1>3, <1>4, <1>5, <1>6, <1>7, <1>8, <1>9 DEF SourceStep

LEMMA FrameInit == Init => Frm!Init
<1> SUFFICES ASSUME Init PROVE Frm!Init
  OBVIOUS
<1>1. /\ mem = [a \in {FPAddr} |-> Num(EntryFP)] /\ frames = << [f |-> Main, fp |-> EntryFP] >>
      /\ seen.mem = mem /\ seen.got = 0
  BY DEF Init, ExecInit
<1>2. NumberOf(Num(EntryFP)) = EntryFP
  BY EntryAssumption, NumberOfNum
<1>3. Frm!FPAddr(Main) = FPAddr
  BY MainIs, FrameCells
<1>4. Numbers(seen.mem) = [a \in {Frm!FPAddr(Main)} |-> EntryFP]
  BY <1>1, <1>2, <1>3 DEF Numbers
<1>5. Len(frames) = 1 /\ frames = [k \in {1} |-> [f |-> Main, fp |-> EntryFP]]
  <2>1. PICK e : e = [f |-> Main, fp |-> EntryFP]
    OBVIOUS
  <2>2. << e >> = [k \in {1} |-> e] /\ Len(<< e >>) = 1
    <3>1. << e >> = [k \in 1 .. 1 |-> e]
      OBVIOUS
    <3>2. 1 .. 1 = {1}
      OBVIOUS
    <3> QED BY <3>1, <3>2
  <2> QED BY <1>1, <2>1, <2>2
<1> QED BY <1>1, <1>4, <1>5 DEF Frm!Init

LEMMA FrameNext ==
  CodeInv /\ Disciplined /\ WithinFrames /\ [Next]_vars => [Frm!Next]_(Frm!vars)
<1> SUFFICES ASSUME CodeInv, Disciplined, WithinFrames, [Next]_vars
             PROVE  Frm!Next \/ FramesStill
  BY DEF Frm!vars, FramesStill
<1>1. PICK T : Tape(T) /\ Loading(T) /\ Exec(T)
  BY DEF CodeInv, Running
<1>2. CASE Compile \/ Analyze \/ Start \/ Stop \/ UNCHANGED vars
  <2>1. UNCHANGED <<frames, seen>>
    BY <1>2 DEF Compile, execVars, Analyze, Start, Stop, vars
  <2> QED BY <2>1 DEF FramesStill, Numbers
<1>3. CASE Execute
  <2>1. status = "running" /\ FramesOK /\ chosen \in Operands
    BY <1>1, <1>3 DEF Execute, Exec, Tape, Static
  <2>2. Reaches(T)
    BY <1>1, <1>3, ExecuteReaches
  <2>3. PICK x \in 1 .. Len(T) : pc' = T[x].at /\ (StillInside(T, x) \/ Completed(T, x))
    BY <2>2 DEF Reaches
  <2>4. CASE StillInside(T, x)
    BY <2>4 DEF StillInside, FramesStill, Numbers
  <2>5. CASE Completed(T, x)
    <3>1. SourceStep /\ T[x].q = 1
      BY <2>5 DEF Completed
    <3>2. GotNext
      BY <1>1, <1>3, <2>2, <2>3, <3>1, GotIs DEF Reaches
    <3> QED BY <2>1, <3>1, <3>2, RoomNow, FrameStep
  <2> QED BY <2>3, <2>4, <2>5
<1> QED BY <1>2, <1>3 DEF Next

(* The bytes of the call sequence, of slot accesses and of returns do to   *)
(* memory what CallFrames prescribes: a call saves the frame pointer and   *)
(* moves it past the frame, a return finds it again.  WithinFrames says    *)
(* only that values and depth are the ones CallFrames ranges over.         *)
THEOREM CodeImplementsFrames == Spec /\ []Disciplined /\ []WithinFrames => ImplementsFrames
BY InvInit, InvNext, FrameInit, FrameNext, PTL DEF Spec, ImplementsFrames, Frm!Spec
=============================================================================
