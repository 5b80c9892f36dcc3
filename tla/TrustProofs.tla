----------------------------- MODULE TrustProofs -----------------------------
(***************************************************************************)
(* Proofs about module Trust, for all lists and discs of the AACS LA,      *)
(* every harm on the way and every padding.  What the parser keeps of a    *)
(* revocation list is, written again, the cells it was read from; so what  *)
(* a signature is checked against is the file, and a file whose signature  *)
(* is found right agrees with a list of the AACS LA as far as it was read. *)
(***************************************************************************)
EXTENDS Trust, Recursion
-----------------------------------------------------------------------------
(* Concat *)

\* upto[n] is the first n sequences end to end.
Concats(seqs, V, upto) ==
    /\ upto \in [0..Len(seqs) -> Seq(V)]
    /\ upto[0] = <<>>
    /\ \A n \in 1..Len(seqs) : upto[n] = upto[n - 1] \o seqs[n]

LEMMA ConcatUpto ==
    ASSUME NEW V, NEW seqs \in Seq(Seq(V))
    PROVE  \E upto : Concats(seqs, V, upto) /\ Concat(seqs) = upto[Len(seqs)]
<1> DEFINE N == Len(seqs)
           F(f) == [n \in 0..N |-> IF n = 0 THEN <<>> ELSE f[n - 1] \o seqs[n]]
           G == [n \in 1..N |-> [s \in Seq(V) |-> s \o seqs[n]]]
           upto == CHOOSE f : f = F(f)
<1>1. ASSUME NEW s \in Seq(V), NEW n \in 1..N PROVE s \o seqs[n] \in Seq(V)
  <2>1. seqs[n] \in Seq(V)
    OBVIOUS
  <2> QED
    BY <2>1, ConcatProperties
<1>2. PICK f \in [0..N -> Seq(V)] : f = F(f)
  <2>1. G \in [1..N -> [Seq(V) -> Seq(V)]]
    BY <1>1
  <2>2. PICK base \in Seq(V) : base = <<>>
    BY EmptySeq
  <2>3. N \in Nat
    OBVIOUS
  <2> HIDE DEF N, G
  <2>4. PICK f \in [0..N -> Seq(V)] : IsRecursion(f, N, base, G)
    BY <2>1, <2>3, RecursionExists
  <2>5. ASSUME NEW n \in 0..N, n # 0 PROVE G[n][f[n - 1]] = f[n - 1] \o seqs[n]
    <3>1. n \in 1..N /\ n - 1 \in 0..N
      BY <2>3, <2>5
    <3> QED
      BY <3>1 DEF G
  <2>6. f = F(f)
    BY <2>2, <2>4, <2>5 DEF IsRecursion
  <2> QED
    BY <2>6
<1>3. upto = F(upto)
  <2> HIDE DEF F
  <2> QED
    BY <1>2
<1>4. \A n \in 0..N : upto[n] = f[n]
  <2> DEFINE S == {n \in Nat : n <= N => upto[n] = f[n]}
  <2> HIDE DEF upto
  <2>1. 0 \in S
    BY <1>2, <1>3
  <2>2. ASSUME NEW n \in S PROVE n + 1 \in S
    <3>1. SUFFICES ASSUME n + 1 <= N PROVE upto[n + 1] = f[n + 1]
      OBVIOUS
    <3>2. n + 1 \in 0..N /\ n + 1 # 0 /\ (n + 1) - 1 = n /\ upto[n] = f[n]
      BY <3>1
    <3>3. upto[n + 1] = upto[n] \o seqs[n + 1]
      BY <1>3, <3>2
    <3>4. f[n + 1] = f[n] \o seqs[n + 1]
      BY <1>2, <3>2
    <3> QED
      BY <3>2, <3>3, <3>4
  <2>3. S = Nat
    <3>1. S \subseteq Nat
      OBVIOUS
    <3> HIDE DEF S
    <3> QED
      BY <2>1, <2>2, <3>1, SetInduction
  <2> QED
    BY <2>3
<1>5. Concats(seqs, V, f)
  <2>1. f[0] = <<>>
    BY <1>2
  <2>2. ASSUME NEW n \in 1..N PROVE f[n] = f[n - 1] \o seqs[n]
    <3>1. n \in 0..N /\ n # 0
      OBVIOUS
    <3> QED
      BY <1>2, <3>1
  <2> QED
    BY <2>1, <2>2 DEF Concats
<1>6. Concat(seqs) = upto[N]
  BY DEF Concat
<1>7. N \in 0..N
  OBVIOUS
<1> QED
  BY <1>4, <1>5, <1>6, <1>7

\* What it is of no sequences, and of any.
LEMMA ConcatBase ==
    ASSUME NEW V, NEW seqs \in Seq(Seq(V))
    PROVE  Concat(seqs) \in Seq(V) /\ (Len(seqs) = 0 => Concat(seqs) = <<>>)
<1>1. PICK upto : Concats(seqs, V, upto) /\ Concat(seqs) = upto[Len(seqs)]
  BY ConcatUpto
<1>2. Len(seqs) \in 0..Len(seqs)
  OBVIOUS
<1> QED
  BY <1>1, <1>2 DEF Concats

\* One sequence more is put to the end.
LEMMA ConcatStep ==
    ASSUME NEW V, NEW seqs \in Seq(Seq(V)), NEW more \in Seq(Seq(V)),
           Len(more) = Len(seqs) + 1, \A i \in 1..Len(seqs) : more[i] = seqs[i]
    PROVE  Concat(more) = Concat(seqs) \o more[Len(more)]
<1> DEFINE N == Len(seqs)
<1>1. PICK upto : Concats(seqs, V, upto) /\ Concat(seqs) = upto[N]
  BY ConcatUpto
<1>2. PICK next : Concats(more, V, next) /\ Concat(more) = next[Len(more)]
  BY ConcatUpto
<1> DEFINE S == {n \in Nat : n <= N => upto[n] = next[n]}
<1>3. 0 \in S
  BY <1>1, <1>2 DEF Concats
<1>4. ASSUME NEW n \in S PROVE n + 1 \in S
  <2>1. SUFFICES ASSUME n + 1 <= N PROVE upto[n + 1] = next[n + 1]
    OBVIOUS
  <2>2. n + 1 \in 1..N /\ n + 1 \in 1..Len(more) /\ (n + 1) - 1 = n /\ upto[n] = next[n]
    BY <2>1
  <2>3. upto[n + 1] = upto[n] \o seqs[n + 1]
    BY <1>1, <2>2 DEF Concats
  <2>4. next[n + 1] = next[n] \o more[n + 1]
    BY <1>2, <2>2 DEF Concats
  <2> QED
    BY <2>2, <2>3, <2>4
<1>5. S = Nat
  <2>1. S \subseteq Nat
    OBVIOUS
  <2> HIDE DEF S
  <2> QED
    BY <1>3, <1>4, <2>1, SetInduction
<1>6. upto[N] = next[N]
  <2>1. N \in Nat /\ N <= N
    OBVIOUS
  <2>2. N \in S
    BY <1>5, <2>1
  <2> QED
    BY <2>1, <2>2
<1>7. N + 1 \in 1..Len(more) /\ (N + 1) - 1 = N
  OBVIOUS
<1>8. next[N + 1] = next[N] \o more[N + 1]
  BY <1>2, <1>7 DEF Concats
<1> QED
  BY <1>1, <1>2, <1>6, <1>8
-----------------------------------------------------------------------------
(* Records and their slots *)

SlotType == {s \in Seq(Cell) : Len(s) = SlotLen}
Tagged(tag) == {s \in SlotType : s[1] = tag}

\* What RecordSet makes of slots.
Record == {DecodeSlot(s) : s \in SlotType}
            \cup {DecodeRmrr(a, b, c) : a \in Tagged(2), b \in Tagged(3), c \in Tagged(4)}

\* The five cells of a slot.
LEMMA SlotCells ==
    ASSUME NEW s \in SlotType
    PROVE  /\ s \in Seq(Cell) /\ Len(s) = 5
           /\ s[1] \in Cell /\ s[2] \in Cell /\ s[3] \in Cell /\ s[4] \in Cell /\ s[5] \in Cell
<1>1. s \in Seq(Cell) /\ Len(s) = 5
  BY DEF SlotType, SlotLen
<1>2. \A i \in 1..5 : s[i] \in Cell
  BY <1>1, ElementOfSeq
<1> QED
  BY <1>1, <1>2

\* Sequences that are written down.
IsOne(x, a) == Len(x) = 1 /\ x[1] = a
IsTwo(x, a, b) == Len(x) = 2 /\ x[1] = a /\ x[2] = b

LEMMA Literals ==
    ASSUME NEW V, NEW a \in V, NEW b \in V
    PROVE  <<a>> \in Seq(V) /\ IsOne(<<a>>, a) /\ <<a, b>> \in Seq(V) /\ IsTwo(<<a, b>>, a, b)
BY DEF IsOne, IsTwo

\* The digits of a number are those it was made of.
LEMMA DigitsOfNumber ==
    ASSUME NEW hi \in Cell, NEW lo \in Cell
    PROVE  /\ Number(hi, lo) \in Nat
           /\ Number(hi, lo) \div Nibble = hi /\ Number(hi, lo) % Nibble = lo
           /\ Digits(Number(hi, lo)) = <<hi, lo>>
<1>1. hi \in Nat /\ lo \in Nat /\ lo < 16
  BY DEF Cell, Nibble
<1>2. (hi * 16 + lo) \div 16 = hi /\ (hi * 16 + lo) % 16 = lo
  BY <1>1
<1> QED
  BY <1>1, <1>2 DEF Number, Nibble, Digits

\* A tag and two numbers.
LEMMA TagAndNumbers ==
    ASSUME NEW s \in SlotType
    PROVE  (<<s[1]>> \o <<s[2], s[3]>>) \o <<s[4], s[5]>> = s
<1>1. /\ s \in Seq(Cell) /\ Len(s) = 5
      /\ s[1] \in Cell /\ s[2] \in Cell /\ s[3] \in Cell /\ s[4] \in Cell /\ s[5] \in Cell
  BY SlotCells
<1>2. PICK a \in Seq(Cell) : a = <<s[1]>> /\ IsOne(a, s[1])
  BY <1>1, Literals, Zenon
<1>3. PICK b \in Seq(Cell) : b = <<s[2], s[3]>> /\ IsTwo(b, s[2], s[3])
  BY <1>1, Literals, Zenon
<1>4. PICK c \in Seq(Cell) : c = <<s[4], s[5]>> /\ IsTwo(c, s[4], s[5])
  BY <1>1, Literals, Zenon
<1>5. PICK d \in Seq(Cell) : d = a \o b /\ IsJoin(d, a, b)
  BY JoinedEnds, Zenon
<1>6. PICK e \in Seq(Cell) : e = d \o c /\ IsJoin(e, d, c)
  BY JoinedEnds, Zenon
<1>7. Len(d) = 3 /\ d[1] = s[1] /\ d[1 + 1] = s[2] /\ d[1 + 2] = s[3]
  BY <1>2, <1>3, <1>5 DEF IsJoin, IsOne, IsTwo
<1>8. Len(e) = 5 /\ e[1] = s[1] /\ e[2] = s[2] /\ e[3] = s[3] /\ e[3 + 1] = s[4] /\ e[3 + 2] = s[5]
  BY <1>4, <1>6, <1>7 DEF IsJoin, IsTwo
<1>9. e = s
  <2>1. ASSUME NEW i \in 1..5 PROVE e[i] = s[i]
    <3>1. i = 1 \/ i = 2 \/ i = 3 \/ i = 4 \/ i = 5
      OBVIOUS
    <3> QED
      BY <1>8, <3>1
  <2> QED
    BY <1>1, <1>8, <2>1, SameSequence
<1> QED
  BY <1>2, <1>3, <1>4, <1>5, <1>6, <1>9

\* A record of one slot is written as the slot.
LEMMA EncodeSlot ==
    ASSUME NEW s \in SlotType
    PROVE  Encode(DecodeSlot(s)) = s
<1>1. s[1] \in Cell /\ s[2] \in Cell /\ s[3] \in Cell /\ s[4] \in Cell /\ s[5] \in Cell
  BY SlotCells
<1>2. ASSUME NEW type PROVE EncodeWithId(s[1], WithId(type, s)) = s
  <2>1. Digits(Number(s[2], s[3])) = <<s[2], s[3]>> /\ Digits(Number(s[4], s[5])) = <<s[4], s[5]>>
    BY <1>1, DigitsOfNumber
  <2>2. EncodeWithId(s[1], WithId(type, s)) = (<<s[1]>> \o <<s[2], s[3]>>) \o <<s[4], s[5]>>
    BY <2>1 DEF EncodeWithId, WithId
  <2> QED
    BY <2>2, TagAndNumbers
<1>3. CASE s[1] = 0
  <2>1. DecodeSlot(s) = WithId("ContentCertificateId", s)
    BY <1>3 DEF DecodeSlot
  <2>2. DecodeSlot(s).type = "ContentCertificateId"
    BY <2>1 DEF WithId
  <2>3. Encode(DecodeSlot(s)) = EncodeWithId(0, DecodeSlot(s))
    BY <2>2 DEF Encode
  <2> QED
    BY <1>2, <1>3, <2>1, <2>3
<1>4. CASE s[1] = 1
  <2>1. DecodeSlot(s) = WithId("ManagedCopyServerCertificateId", s)
    BY <1>4 DEF DecodeSlot
  <2>2. DecodeSlot(s).type = "ManagedCopyServerCertificateId"
    BY <2>1 DEF WithId
  <2>3. Encode(DecodeSlot(s)) = EncodeWithId(1, DecodeSlot(s))
    BY <2>2 DEF Encode
  <2> QED
    BY <1>2, <1>4, <2>1, <2>3
<1>5. CASE s[1] # 0 /\ s[1] # 1
  <2>1. DecodeSlot(s) = Unknown(s)
    BY <1>5 DEF DecodeSlot
  <2>2. DecodeSlot(s).type = "Unknown" /\ DecodeSlot(s).bytes = s
    BY <2>1 DEF Unknown
  <2> QED
    BY <2>2 DEF Encode
<1> QED
  BY <1>3, <1>4, <1>5

\* The second part of a record of a medium, and the third: the tag, the nibble
\* and three cells.
LEMMA Halves ==
    ASSUME NEW s \in SlotType
    PROVE  /\ <<s[1], s[2]>> \in Seq(Cell) /\ From(s, 3) \in Seq(Cell) /\ Len(From(s, 3)) = 3
           /\ <<s[1], s[2]>> \o From(s, 3) = s
<1>1. /\ s \in Seq(Cell) /\ Len(s) = 5 /\ s[1] \in Cell /\ s[2] \in Cell
  BY SlotCells
<1>2. PICK n \in Nat : n = Len(s) /\ n = 5
  BY <1>1
<1>3. PICK x \in Seq(Cell) : x = SubSeq(s, 0 + 1, 2) /\ IsPart(x, s, 0, 2)
  <2>1. 0 \in Nat /\ 2 \in Nat /\ 0 <= 2 /\ 2 <= Len(s)
    BY <1>1
  <2> QED
    BY <1>1, <2>1, Part, Zenon
<1>4. PICK y \in Seq(Cell) : y = SubSeq(s, 2 + 1, 5) /\ IsPart(y, s, 2, 5)
  <2>1. 2 \in Nat /\ 5 \in Nat /\ 2 <= 5 /\ 5 <= Len(s)
    BY <1>1
  <2> QED
    BY <1>1, <2>1, Part, Zenon
<1>5. x \o y = SubSeq(s, 0 + 1, 5)
  BY <1>1, <1>3, <1>4, AdjacentParts
<1>6. SubSeq(s, 0 + 1, 5) = s
  BY <1>1, <1>2, SubSeqFull
<1>7. x = <<s[1], s[2]>>
  <2>1. Len(x) = 2 /\ x[1] = s[1] /\ x[2] = s[2]
    BY <1>3 DEF IsPart
  <2>2. PICK z \in Seq(Cell) : z = <<s[1], s[2]>> /\ IsTwo(z, s[1], s[2])
    BY <1>1, Literals, Zenon
  <2> QED
    BY <2>1, <2>2, SameSequence DEF IsTwo
<1>8. From(s, 3) = y
  BY <1>1, <1>4 DEF From
<1>9. Len(y) = 3
  BY <1>4 DEF IsPart
<1> QED
  BY <1>3, <1>4, <1>5, <1>6, <1>7, <1>8, <1>9

\* What a medium's ID is put together from is taken out of it again.
IsMediaId(m, x, n, bb, cc) ==
    m[1] = x /\ m[2] = n /\ SubSeq(m, 3, 5) = bb /\ SubSeq(m, 6, 8) = cc

LEMMA MediaIdParts ==
    ASSUME NEW x \in Nat, NEW n \in Nat, NEW bb \in Seq(Nat), NEW cc \in Seq(Nat),
           Len(bb) = 3, Len(cc) = 3
    PROVE  IsMediaId(<<x, n>> \o bb \o cc, x, n, bb, cc)
<1> DEFINE m == <<x, n>> \o bb \o cc
<1>1. PICK p \in Seq(Nat) : p = <<x, n>> /\ IsTwo(p, x, n)
  BY Literals, Zenon
<1>2. PICK d \in Seq(Nat) : d = p \o bb /\ IsJoin(d, p, bb)
  BY JoinedEnds, Zenon
<1>3. PICK e \in Seq(Nat) : e = d \o cc /\ IsJoin(e, d, cc)
  BY JoinedEnds, Zenon
<1>4. e = m
  BY <1>1, <1>2, <1>3
<1>5. Len(p) = 2 /\ p[1] = x /\ p[2] = n
  BY <1>1 DEF IsTwo
<1>6. Len(d) = 5 /\ d[1] = x /\ d[2] = n
  <2>1. 1 \in 1..Len(p) /\ 2 \in 1..Len(p) /\ Len(p) + Len(bb) = 5
    BY <1>5
  <2>2. Len(d) = 5 /\ d[1] = p[1] /\ d[2] = p[2]
    BY <1>2, <2>1, Zenon DEF IsJoin
  <2> QED
    BY <1>5, <2>2
<1>7. m[1] = x /\ m[2] = n
  BY <1>3, <1>4, <1>6 DEF IsJoin
<1>8. SubSeq(e, 3, 5) = SubSeq(d, 3, 5)
  <2>1. 3 \in 1..Len(d) /\ 5 \in 1..Len(d)
    BY <1>6
  <2> QED
    BY <1>3, <2>1, SubSeqOfConcat1
<1>9. SubSeq(d, 3, 5) = SubSeq(bb, 1, 3)
  <2>1. 3 \in (Len(p) + 1)..(Len(p) + Len(bb)) /\ 5 \in (Len(p) + 1)..(Len(p) + Len(bb))
    BY <1>5
  <2>2. SubSeq(p \o bb, 3, 5) = SubSeq(bb, 3 - Len(p), 5 - Len(p))
    BY <2>1, SubSeqOfConcat2, ZenonT(30)
  <2>3. 3 - Len(p) = 1 /\ 5 - Len(p) = 3
    BY <1>5
  <2> QED
    BY <1>2, <2>2, <2>3
<1>10. SubSeq(e, 6, 8) = SubSeq(cc, 1, 3)
  <2>1. 6 \in (Len(d) + 1)..(Len(d) + Len(cc)) /\ 8 \in (Len(d) + 1)..(Len(d) + Len(cc))
    BY <1>6
  <2>2. SubSeq(d \o cc, 6, 8) = SubSeq(cc, 6 - Len(d), 8 - Len(d))
    BY <2>1, SubSeqOfConcat2, ZenonT(30)
  <2>3. 6 - Len(d) = 1 /\ 8 - Len(d) = 3
    BY <1>6
  <2> QED
    BY <1>3, <2>2, <2>3
<1>11. SubSeq(bb, 1, 3) = bb /\ SubSeq(cc, 1, 3) = cc
  <2>1. SubSeq(bb, 1, Len(bb)) = bb /\ SubSeq(cc, 1, Len(cc)) = cc
    BY SubSeqFull, Zenon
  <2> QED
    BY <2>1
<1> QED
  BY <1>4, <1>7, <1>8, <1>9, <1>10, <1>11 DEF IsMediaId

\* The nibble of the first part is its flag and the media type.
LEMMA FlagAndType ==
    ASSUME NEW x \in Cell
    PROVE  (IF x \div 8 = 1 THEN 8 ELSE 0) + (x % 8) = x
<1>1. x \in Nat /\ x < 16
  BY DEF Cell, Nibble
<1>2. CASE x < 8
  <2>1. x \div 8 = 0 /\ x % 8 = x
    BY <1>1, <1>2
  <2> QED
    BY <1>1, <2>1
<1>3. CASE x >= 8
  <2>1. x \div 8 = 1 /\ x % 8 = x - 8
    BY <1>1, <1>3
  <2> QED
    BY <1>1, <2>1
<1> QED
  BY <1>1, <1>2, <1>3

\* A slot and two cells.
LEMMA SlotAndTwo ==
    ASSUME NEW a \in SlotType, NEW x \in Cell, NEW y \in Cell
    PROVE  <<a[1], a[2], a[3], a[4], a[5], x, y>> = a \o <<x, y>>
<1>1. /\ a \in Seq(Cell) /\ Len(a) = 5
      /\ a[1] \in Cell /\ a[2] \in Cell /\ a[3] \in Cell /\ a[4] \in Cell /\ a[5] \in Cell
  BY SlotCells
<1>2. PICK h \in Seq(Cell) : h = <<x, y>> /\ IsTwo(h, x, y)
  BY Literals, Zenon
<1>3. PICK w \in Seq(Cell) : w = a \o h /\ IsJoin(w, a, h)
  BY <1>1, JoinedEnds, Zenon
<1> DEFINE z == <<a[1], a[2], a[3], a[4], a[5], x, y>>
<1>4. z \in Seq(Cell) /\ Len(z) = 7
  BY <1>1
<1>5. /\ z[1] = a[1] /\ z[2] = a[2] /\ z[3] = a[3] /\ z[4] = a[4] /\ z[5] = a[5]
      /\ z[6] = x /\ z[7] = y
  OBVIOUS
<1> HIDE DEF z
<1>6. /\ Len(w) = 7
      /\ w[1] = a[1] /\ w[2] = a[2] /\ w[3] = a[3] /\ w[4] = a[4] /\ w[5] = a[5]
      /\ w[5 + 1] = x /\ w[5 + 2] = y
  BY <1>1, <1>2, <1>3 DEF IsJoin, IsTwo
<1>7. ASSUME NEW i \in 1..7 PROVE z[i] = w[i]
  <2>1. i = 1 \/ i = 2 \/ i = 3 \/ i = 4 \/ i = 5 \/ i = 6 \/ i = 7
    OBVIOUS
  <2> QED
    BY <1>5, <1>6, <2>1
<1>8. z = w
  BY <1>4, <1>6, <1>7, SameSequence
<1> QED
  BY <1>2, <1>3, <1>8 DEF z

\* A record of a medium is written as its three slots.
LEMMA EncodeMedia ==
    ASSUME NEW a \in Tagged(2), NEW b \in Tagged(3), NEW c \in Tagged(4)
    PROVE  Encode(DecodeRmrr(a, b, c)) = (a \o b) \o c
<1>1. /\ a \in SlotType /\ b \in SlotType /\ c \in SlotType
      /\ a[1] = 2 /\ b[1] = 3 /\ c[1] = 4
  BY DEF Tagged
<1>2. /\ a \in Seq(Cell) /\ a[2] \in Cell /\ a[3] \in Cell /\ a[4] \in Cell /\ a[5] \in Cell
      /\ b[1] \in Cell /\ b[2] \in Cell /\ c[1] \in Cell /\ c[2] \in Cell
  BY <1>1, SlotCells
<1>3. PICK bb \in Seq(Cell) :
         /\ bb = From(b, 3) /\ Len(bb) = 3 /\ <<b[1], b[2]>> \in Seq(Cell)
         /\ <<b[1], b[2]>> \o bb = b
  BY <1>1, Halves
<1>4. PICK cc \in Seq(Cell) :
         /\ cc = From(c, 3) /\ Len(cc) = 3 /\ <<c[1], c[2]>> \in Seq(Cell)
         /\ <<c[1], c[2]>> \o cc = c
  BY <1>1, Halves
<1> DEFINE r == DecodeRmrr(a, b, c)
<1>5. PICK n \in Nat : n = Number(b[2], c[2]) /\ n \div Nibble = b[2] /\ n % Nibble = c[2]
  BY <1>2, DigitsOfNumber
<1>6. PICK q \in Nat : q = Number(a[3], a[4]) /\ q \div Nibble = a[3] /\ q % Nibble = a[4]
  BY <1>2, DigitsOfNumber
<1>7. /\ r.type = "RecordableMedia" /\ r.iccid = (a[2] \div 8 = 1) /\ r.media_type = a[2] % 8
      /\ r.content_certificate_id = q
      /\ r.media_id = <<a[5], n>> \o bb \o cc
  BY <1>3, <1>4, <1>5, <1>6 DEF DecodeRmrr, Number
<1>8. /\ r.media_id[1] = a[5] /\ r.media_id[2] = n
      /\ SubSeq(r.media_id, 3, 5) = bb /\ SubSeq(r.media_id, 6, 8) = cc
  <2>1. bb \in Seq(Nat) /\ cc \in Seq(Nat) /\ a[5] \in Nat
    <3>1. Cell \subseteq Nat
      BY DEF Cell, Nibble
    <3> QED
      BY <1>2, <3>1, SeqMonotonic
  <2>2. PICK m : m = r.media_id
    OBVIOUS
  <2> HIDE DEF r
  <2>3. m = <<a[5], n>> \o bb \o cc
    BY <1>7, <2>2
  <2>4. IsMediaId(<<a[5], n>> \o bb \o cc, a[5], n, bb, cc)
    BY <1>3, <1>4, <2>1, MediaIdParts, Zenon
  <2> QED
    BY <2>2, <2>3, <2>4 DEF IsMediaId
<1> HIDE DEF r
<1>9. (IF r.iccid THEN 8 ELSE 0) + r.media_type = a[2]
  BY <1>2, <1>7, FlagAndType
<1>10. EncodeRmrr(r) = <<a[1], a[2], a[3], a[4], a[5], b[1], b[2]>> \o bb \o <<c[1], c[2]>> \o cc
  BY <1>1, <1>5, <1>6, <1>7, <1>8, <1>9 DEF EncodeRmrr
<1>11. PICK h \in Seq(Cell), k \in Seq(Cell) : h = <<b[1], b[2]>> /\ k = <<c[1], c[2]>>
  BY <1>3, <1>4
<1>12. EncodeRmrr(r) = (((a \o h) \o bb) \o k) \o cc
  BY <1>1, <1>2, <1>10, <1>11, SlotAndTwo, ZenonT(30)
<1>13. (a \o h) \o bb = a \o b
  <2>1. (a \o h) \o bb = a \o (h \o bb)
    BY <1>2, <1>3, <1>11, ConcatAssociative, SMTT(30)
  <2> QED
    BY <1>3, <1>11, <2>1
<1>14. a \o b \in Seq(Cell)
  BY <1>1, SlotCells, ConcatProperties
<1>15. ((a \o b) \o k) \o cc = (a \o b) \o c
  <2>1. PICK j \in Seq(Cell) : j = a \o b
    BY <1>14
  <2>2. (j \o k) \o cc = j \o (k \o cc)
    BY <1>11, ConcatAssociative
  <2> QED
    BY <1>4, <1>11, <2>1, <2>2
<1>16. Encode(r) = EncodeRmrr(r)
  BY <1>7 DEF Encode
<1> QED
  BY <1>12, <1>13, <1>15, <1>16 DEF r
\* An element put to the end of a sequence.
IsAppended(more, s, x) ==
    Len(more) = Len(s) + 1 /\ more[Len(s) + 1] = x /\ \A n \in 1..Len(s) : more[n] = s[n]

LEMMA Appended ==
    ASSUME NEW V, NEW s \in Seq(V), NEW x \in V
    PROVE  Append(s, x) \in Seq(V) /\ IsAppended(Append(s, x), s, x)
BY AppendProperties DEF IsAppended

\* What a record is written as, and whether it has an ID.
LEMMA RecordEncoded ==
    ASSUME NEW r \in Record
    PROVE  Encode(r) \in Seq(Cell)
<1>1. CASE \E s \in SlotType : r = DecodeSlot(s)
  BY <1>1, EncodeSlot, SlotCells
<1>2. CASE \E a \in Tagged(2), b \in Tagged(3), c \in Tagged(4) : r = DecodeRmrr(a, b, c)
  <2>1. PICK a \in Tagged(2), b \in Tagged(3), c \in Tagged(4) : r = DecodeRmrr(a, b, c)
    BY <1>2
  <2>2. a \in Seq(Cell) /\ b \in Seq(Cell) /\ c \in Seq(Cell)
    BY SlotCells DEF Tagged
  <2>3. PICK d \in Seq(Cell) : d = a \o b
    BY <2>2, ConcatProperties
  <2>4. d \o c \in Seq(Cell)
    BY <2>2, ConcatProperties
  <2> QED
    BY <2>1, <2>3, <2>4, EncodeMedia
<1> QED
  BY <1>1, <1>2 DEF Record

IdTypes == {"ContentCertificateId", "ManagedCopyServerCertificateId"}

LEMMA RecordType ==
    /\ \A s \in SlotType : DecodeSlot(s) \in Record /\ (DecodeSlot(s).type \in IdTypes <=> s[1] \in {0, 1})
    /\ \A a \in Tagged(2), b \in Tagged(3), c \in Tagged(4) :
          DecodeRmrr(a, b, c) \in Record /\ DecodeRmrr(a, b, c).type \notin IdTypes
<1>1. ASSUME NEW s \in SlotType
      PROVE  DecodeSlot(s) \in Record /\ (DecodeSlot(s).type \in IdTypes <=> s[1] \in {0, 1})
  <2>1. DecodeSlot(s) \in Record
    BY DEF Record
  <2>2. DecodeSlot(s).type \in IdTypes <=> s[1] \in {0, 1}
    BY DEF DecodeSlot, WithId, Unknown, IdTypes
  <2> QED
    BY <2>1, <2>2
<1>2. ASSUME NEW a \in Tagged(2), NEW b \in Tagged(3), NEW c \in Tagged(4)
      PROVE  DecodeRmrr(a, b, c) \in Record /\ DecodeRmrr(a, b, c).type \notin IdTypes
  <2>1. DecodeRmrr(a, b, c) \in Record
    BY DEF Record
  <2>2. DecodeRmrr(a, b, c).type = "RecordableMedia"
    BY DEF DecodeRmrr
  <2> QED
    BY <2>1, <2>2 DEF IdTypes
<1> QED
  BY <1>1, <1>2

\* A record more is written behind the others.
Encodings(records) == [n \in DOMAIN records |-> Encode(records[n])]

LEMMA EncodeMore ==
    ASSUME NEW records \in Seq(Record), NEW r \in Record
    PROVE  /\ Concat(Encodings(records)) \in Seq(Cell)
           /\ Append(records, r) \in Seq(Record)
           /\ Concat(Encodings(Append(records, r))) = Concat(Encodings(records)) \o Encode(r)
<1>1. PICK more \in Seq(Record) :
         more = Append(records, r) /\ IsAppended(more, records, r)
  BY Appended, Zenon
<1>2. ASSUME NEW s \in Seq(Record)
      PROVE  /\ Encodings(s) \in Seq(Seq(Cell)) /\ Len(Encodings(s)) = Len(s)
             /\ \A n \in 1..Len(s) : Encodings(s)[n] = Encode(s[n])
  <2>1. DOMAIN s = 1..Len(s) /\ Len(s) \in Nat
    OBVIOUS
  <2>2. \A n \in 1..Len(s) : Encode(s[n]) \in Seq(Cell)
    BY RecordEncoded, ElementOfSeq
  <2>3. Encodings(s) = [n \in 1..Len(s) |-> Encode(s[n])]
    BY <2>1 DEF Encodings
  <2> QED
    BY <2>1, <2>2, <2>3
<1>3. PICK w \in Seq(Seq(Cell)) : w = Encodings(records)
  BY <1>2
<1>4. PICK v \in Seq(Seq(Cell)) : v = Encodings(more)
  BY <1>2
<1>5. Len(v) = Len(w) + 1 /\ \A n \in 1..Len(w) : v[n] = w[n]
  <2>1. /\ Len(w) = Len(records) /\ Len(v) = Len(more)
        /\ \A n \in 1..Len(records) : w[n] = Encode(records[n])
        /\ \A n \in 1..Len(more) : v[n] = Encode(more[n])
    BY <1>2, <1>3, <1>4
  <2>2. \A n \in 1..Len(records) : n \in 1..Len(more)
    BY <1>1 DEF IsAppended
  <2> QED
    BY <1>1, <2>1, <2>2 DEF IsAppended
<1>6. v[Len(v)] = Encode(r)
  <2>1. Len(more) \in 1..Len(more) /\ Len(v) = Len(more)
    <3>1. Len(more) = Len(records) + 1 /\ Len(records) \in Nat
      BY <1>1 DEF IsAppended
    <3> QED
      BY <1>2, <1>4, <3>1
  <2>2. v[Len(more)] = Encode(more[Len(more)])
    BY <1>2, <1>4, <2>1
  <2> QED
    BY <1>1, <2>1, <2>2 DEF IsAppended
<1>7. Concat(v) = Concat(w) \o v[Len(v)]
  BY <1>5, ConcatStep
<1>8. Concat(w) \in Seq(Cell)
  BY ConcatBase
<1> QED
  BY <1>1, <1>3, <1>4, <1>6, <1>7, <1>8

\* The same of the records with an ID, and of the slots they come from.
OneIf(condition, x) == IF condition THEN <<x>> ELSE <<>>

LEMMA IdMore ==
    ASSUME NEW records \in Seq(Record), NEW r \in Record
    PROVE  /\ IdRecords(records) \in Seq(Record)
           /\ IdRecords(Append(records, r)) = IdRecords(records) \o OneIf(r.type \in IdTypes, r)
<1> DEFINE Ids(s) == [n \in DOMAIN s |-> OneIf(s[n].type \in IdTypes, s[n])]
<1>1. PICK more \in Seq(Record) :
         more = Append(records, r) /\ IsAppended(more, records, r)
  BY Appended, Zenon
<1>2. ASSUME NEW s \in Seq(Record)
      PROVE  /\ IdRecords(s) = Concat(Ids(s))
             /\ Ids(s) \in Seq(Seq(Record)) /\ Len(Ids(s)) = Len(s)
             /\ \A n \in 1..Len(s) : Ids(s)[n] = OneIf(s[n].type \in IdTypes, s[n])
  <2>1. DOMAIN s = 1..Len(s) /\ Len(s) \in Nat
    OBVIOUS
  <2>2. \A n \in 1..Len(s) : s[n] \in Record
    BY ElementOfSeq
  <2>3. ASSUME NEW n \in 1..Len(s) PROVE OneIf(s[n].type \in IdTypes, s[n]) \in Seq(Record)
    BY <2>2, Literals, EmptySeq DEF OneIf
  <2>4. Ids(s) = [n \in 1..Len(s) |-> OneIf(s[n].type \in IdTypes, s[n])]
    BY <2>1
  <2>5. IdRecords(s) = Concat(Ids(s))
    BY DEF IdRecords, OneIf, IdTypes
  <2> QED
    BY <2>1, <2>3, <2>4, <2>5
<1>3. PICK w \in Seq(Seq(Record)) : w = Ids(records)
  BY <1>2
<1>4. PICK v \in Seq(Seq(Record)) : v = Ids(more)
  BY <1>2
<1> HIDE DEF Ids
<1>5. Len(v) = Len(w) + 1 /\ \A n \in 1..Len(w) : v[n] = w[n]
  <2>1. /\ Len(w) = Len(records) /\ Len(v) = Len(more)
        /\ \A n \in 1..Len(records) : w[n] = OneIf(records[n].type \in IdTypes, records[n])
        /\ \A n \in 1..Len(more) : v[n] = OneIf(more[n].type \in IdTypes, more[n])
    BY <1>2, <1>3, <1>4
  <2>2. \A n \in 1..Len(records) : n \in 1..Len(more)
    BY <1>1 DEF IsAppended
  <2> QED
    BY <1>1, <2>1, <2>2 DEF IsAppended
<1>6. v[Len(v)] = OneIf(r.type \in IdTypes, r)
  <2>1. Len(more) \in 1..Len(more) /\ Len(v) = Len(more)
    <3>1. Len(more) = Len(records) + 1 /\ Len(records) \in Nat
      BY <1>1 DEF IsAppended
    <3> QED
      BY <1>2, <1>4, <3>1
  <2>2. v[Len(more)] = OneIf(more[Len(more)].type \in IdTypes, more[Len(more)])
    BY <1>2, <1>4, <2>1
  <2> QED
    BY <1>1, <2>1, <2>2 DEF IsAppended
<1>7. Concat(v) = Concat(w) \o v[Len(v)]
  BY <1>5, ConcatStep
<1>8. Concat(w) \in Seq(Record)
  BY ConcatBase
<1> QED
  BY <1>1, <1>2, <1>3, <1>4, <1>6, <1>7, <1>8

\* The records with an ID in the first m slots.
IdUpto(slots, m) ==
    Concat([n \in 1..m |-> OneIf(slots[n][1] \in {0, 1}, DecodeSlot(slots[n]))])

LEMMA IdSlotMore ==
    ASSUME NEW slots \in Seq(SlotType), NEW m \in Nat, m + 1 <= Len(slots)
    PROVE  /\ IdUpto(slots, m) \in Seq(Record)
           /\ IdUpto(slots, m + 1) =
                 IdUpto(slots, m) \o OneIf(slots[m + 1][1] \in {0, 1}, DecodeSlot(slots[m + 1]))
<1> DEFINE Ids(k) == [n \in 1..k |-> OneIf(slots[n][1] \in {0, 1}, DecodeSlot(slots[n]))]
<1>1. ASSUME NEW k \in Nat, k <= Len(slots)
      PROVE  Ids(k) \in Seq(Seq(Record)) /\ Len(Ids(k)) = k
  <2>1. ASSUME NEW n \in 1..k
        PROVE  OneIf(slots[n][1] \in {0, 1}, DecodeSlot(slots[n])) \in Seq(Record)
    <3>1. n \in 1..Len(slots)
      BY <1>1
    <3>2. slots[n] \in SlotType
      BY <3>1, ElementOfSeq
    <3>3. DecodeSlot(slots[n]) \in Record
      BY <3>2, RecordType
    <3> QED
      BY <3>3, Literals, EmptySeq DEF OneIf
  <2> QED
    BY <2>1
<1>2. /\ \A n \in 1..m : Ids(m + 1)[n] = Ids(m)[n]
      /\ Ids(m + 1)[m + 1] = OneIf(slots[m + 1][1] \in {0, 1}, DecodeSlot(slots[m + 1]))
  OBVIOUS
<1>3. IdUpto(slots, m) = Concat(Ids(m)) /\ IdUpto(slots, m + 1) = Concat(Ids(m + 1))
  BY DEF IdUpto
<1>4. m + 1 \in Nat /\ m <= Len(slots)
  OBVIOUS
<1> HIDE DEF Ids
<1>5. PICK w \in Seq(Seq(Record)), v \in Seq(Seq(Record)) :
         w = Ids(m) /\ Len(w) = m /\ v = Ids(m + 1) /\ Len(v) = m + 1
  BY <1>1, <1>4
<1>6. Concat(v) = Concat(w) \o v[Len(v)]
  BY <1>2, <1>5, ConcatStep
<1>7. Concat(w) \in Seq(Record)
  BY ConcatBase
<1> QED
  BY <1>2, <1>3, <1>5, <1>6, <1>7
\* The slots of cells that are whole slots.
LEMMA SlotsOfCells ==
    ASSUME NEW cells \in Seq(Cell), NEW K \in Nat, Len(cells) = K * 5
    PROVE  /\ Slots(cells) \in Seq(SlotType) /\ Len(Slots(cells)) = K
           /\ \A n \in 1..K : Slots(cells)[n] = SubSeq(cells, (n - 1) * 5 + 1, n * 5)
<1>1. Len(cells) \div SlotLen = K
  <2>1. (K * 5) \div 5 = K
    OBVIOUS
  <2> QED
    BY <2>1 DEF SlotLen
<1>2. Slots(cells) = [n \in 1..K |-> SubSeq(cells, (n - 1) * 5 + 1, n * 5)]
  BY <1>1 DEF Slots, SlotLen
<1>3. ASSUME NEW n \in 1..K PROVE SubSeq(cells, (n - 1) * 5 + 1, n * 5) \in SlotType
  <2>1. PICK lo \in Nat, hi \in Nat : lo = (n - 1) * 5 /\ hi = n * 5
    OBVIOUS
  <2>2. lo <= hi /\ hi <= Len(cells) /\ hi - lo = 5
    BY <2>1
  <2>3. SubSeq(cells, lo + 1, hi) \in Seq(Cell) /\ IsPart(SubSeq(cells, lo + 1, hi), cells, lo, hi)
    BY <2>2, Part, Zenon
  <2> QED
    BY <2>1, <2>2, <2>3 DEF IsPart, SlotType, SlotLen
<1> QED
  BY <1>2, <1>3

\* The loop over the slots so far: what it has taken, written again, is the
\* slots it has passed, and of the records with an ID none is missing.
Progress(cells, slots, K) ==
    {done \in [next : 1..(K + 1), records : Seq(Record)] :
        /\ Concat(Encodings(done.records)) = SubSeq(cells, 1, (done.next - 1) * 5)
        /\ IdRecords(done.records) = IdUpto(slots, done.next - 1)}

\* What there is to know of cells and their slots.
AreSlots(slots, cells, K) ==
    /\ cells \in Seq(Cell) /\ K \in Nat /\ Len(cells) = K * 5
    /\ slots \in Seq(SlotType) /\ Len(slots) = K
    /\ \A n \in 1..K : slots[n] = SubSeq(cells, (n - 1) * 5 + 1, n * 5)

\* One slot more of the cells.
LEMMA CellsMore ==
    ASSUME NEW cells, NEW slots, NEW K, AreSlots(slots, cells, K), NEW m \in Nat, m + 1 <= K
    PROVE  /\ slots[m + 1] \in SlotType /\ SubSeq(cells, 1, m * 5) \in Seq(Cell)
           /\ SubSeq(cells, 1, m * 5) \o slots[m + 1] = SubSeq(cells, 1, (m + 1) * 5)
<1>1. K \in Nat /\ cells \in Seq(Cell) /\ slots \in Seq(SlotType)
  BY DEF AreSlots
<1>2. m + 1 \in 1..K /\ (m + 1) - 1 = m
  BY <1>1
<1>3. PICK p0 \in Nat, p1 \in Nat : p0 = m * 5 /\ p1 = (m + 1) * 5
  OBVIOUS
<1>4. p0 <= p1 /\ p1 <= Len(cells)
  <2>1. Len(cells) = K * 5
    BY DEF AreSlots
  <2> QED
    BY <1>1, <1>3, <2>1
<1>5. slots[m + 1] = SubSeq(cells, p0 + 1, p1)
  BY <1>2, <1>3 DEF AreSlots
<1>6. SubSeq(cells, 1, p0) \o SubSeq(cells, p0 + 1, p1) = SubSeq(cells, 1, p1)
      /\ SubSeq(cells, 1, p0) \in Seq(Cell)
  BY <1>1, <1>3, <1>4, Prefix, Zenon
<1>7. slots[m + 1] \in SlotType
  <2>1. Len(slots) = K
    BY DEF AreSlots
  <2> QED
    BY <1>1, <1>2, <2>1, ElementOfSeq
<1> QED
  BY <1>3, <1>5, <1>6, <1>7

\* Three slots are taken together.
ArePassed(cells, m, a, b, c) ==
    SubSeq(cells, 1, m * 5) \o ((a \o b) \o c) = SubSeq(cells, 1, (m + 3) * 5)

LEMMA CellsOfMedia ==
    ASSUME NEW cells, NEW slots, NEW K, AreSlots(slots, cells, K), NEW m \in Nat,
           NEW a \in Seq(Cell), NEW b \in Seq(Cell), NEW c \in Seq(Cell), m + 3 <= K,
           a = slots[m + 1], b = slots[m + 2], c = slots[m + 3]
    PROVE  ArePassed(cells, m, a, b, c)
<1>1. K \in Nat
  BY DEF AreSlots
<1>2. PICK x \in Seq(Cell) : x = SubSeq(cells, 1, m * 5) /\ x \o a = SubSeq(cells, 1, (m + 1) * 5)
  <2>1. m + 1 <= K
    BY <1>1
  <2> QED
    BY <2>1, CellsMore, Zenon
<1>3. (x \o a) \o b = SubSeq(cells, 1, (m + 2) * 5)
  <2>1. PICK k \in Nat : k = m + 1 /\ k + 1 <= K /\ k + 1 = m + 2
    BY <1>1
  <2>2. SubSeq(cells, 1, k * 5) \o slots[k + 1] = SubSeq(cells, 1, (k + 1) * 5)
    BY <2>1, CellsMore
  <2> QED
    BY <1>2, <2>1, <2>2
<1>4. ((x \o a) \o b) \o c = SubSeq(cells, 1, (m + 3) * 5)
  <2>1. PICK k \in Nat : k = m + 2 /\ k + 1 <= K /\ k + 1 = m + 3
    BY <1>1
  <2>2. SubSeq(cells, 1, k * 5) \o slots[k + 1] = SubSeq(cells, 1, (k + 1) * 5)
    BY <2>1, CellsMore
  <2> QED
    BY <1>3, <2>1, <2>2
<1>5. Regrouped(x, a, b, c)
  BY <1>2, Regroup, Zenon
<1> QED
  BY <1>2, <1>4, <1>5 DEF Regrouped, ArePassed

\* Among them is no slot with an ID.
LEMMA NoIdMore ==
    ASSUME NEW slots \in Seq(SlotType), NEW m \in Nat, m + 1 <= Len(slots),
           slots[m + 1][1] \notin {0, 1}
    PROVE  IdUpto(slots, m + 1) = IdUpto(slots, m)
<1>1. IdUpto(slots, m) \in Seq(Record)
      /\ IdUpto(slots, m + 1) =
            IdUpto(slots, m) \o OneIf(slots[m + 1][1] \in {0, 1}, DecodeSlot(slots[m + 1]))
  BY IdSlotMore
<1>2. OneIf(slots[m + 1][1] \in {0, 1}, DecodeSlot(slots[m + 1])) = <<>>
  BY DEF OneIf
<1> QED
  BY <1>1, <1>2, ConcatEmptySeq

LEMMA IdsOfMedia ==
    ASSUME NEW slots \in Seq(SlotType), NEW m \in Nat, m + 3 <= Len(slots),
           slots[m + 1][1] = 2, slots[m + 2][1] = 3, slots[m + 3][1] = 4
    PROVE  IdUpto(slots, m + 3) = IdUpto(slots, m)
<1>1. Len(slots) \in Nat
  OBVIOUS
<1>2. IdUpto(slots, m + 1) = IdUpto(slots, m)
  BY <1>1, NoIdMore
<1>3. IdUpto(slots, m + 2) = IdUpto(slots, m + 1)
  <2>1. PICK k \in Nat : k = m + 1 /\ k + 1 <= Len(slots) /\ k + 1 = m + 2
    BY <1>1
  <2> QED
    BY <2>1, NoIdMore
<1>4. IdUpto(slots, m + 3) = IdUpto(slots, m + 2)
  <2>1. PICK k \in Nat : k = m + 2 /\ k + 1 <= Len(slots) /\ k + 1 = m + 3
    BY <1>1
  <2> QED
    BY <2>1, NoIdMore
<1> QED
  BY <1>2, <1>3, <1>4

\* The loop's next state, put together.
LEMMA Progressed ==
    ASSUME NEW cells, NEW slots, NEW K \in Nat, NEW records \in Seq(Record), NEW m \in 0..K,
           Concat(Encodings(records)) = SubSeq(cells, 1, m * 5),
           IdRecords(records) = IdUpto(slots, m)
    PROVE  [next |-> m + 1, records |-> records] \in Progress(cells, slots, K)
<1>1. m + 1 \in 1..(K + 1) /\ (m + 1) - 1 = m
  OBVIOUS
<1> QED
  BY <1>1 DEF Progress

\* A turn of the loop.
LEMMA NextProgress ==
    ASSUME NEW cells, NEW slots, NEW K, AreSlots(slots, cells, K),
           NEW done \in Progress(cells, slots, K)
    PROVE  /\ NextRecord(slots, done) \in Progress(cells, slots, K)
           /\ done.next <= K => NextRecord(slots, done).next > done.next
           /\ done.next > K => NextRecord(slots, done) = done
<1>1. K \in Nat /\ cells \in Seq(Cell) /\ slots \in Seq(SlotType) /\ Len(slots) = K
  BY DEF AreSlots
<1>2. PICK n \in 1..(K + 1), records \in Seq(Record) :
         /\ n = done.next /\ records = done.records
         /\ Concat(Encodings(records)) = SubSeq(cells, 1, (n - 1) * 5)
         /\ IdRecords(records) = IdUpto(slots, n - 1)
  BY DEF Progress
<1>3. PICK m \in 0..K : m = n - 1 /\ m + 1 = n /\ m + 2 = n + 1 /\ m + 3 = n + 2
  BY <1>1, <1>2
<1>4. CASE n > K
  <2>1. NextRecord(slots, done) = done
    BY <1>1, <1>2, <1>4 DEF NextRecord
  <2> QED
    BY <1>1, <1>2, <1>4, <2>1
<1>5. CASE n <= K /\ RmrrAt(slots, n)
  <2>1. m + 3 <= K /\ slots[m + 1][1] = 2 /\ slots[m + 2][1] = 3 /\ slots[m + 3][1] = 4
    BY <1>1, <1>3, <1>5 DEF RmrrAt
  <2>2. m + 1 \in 1..K /\ m + 2 \in 1..K /\ m + 3 \in 1..K /\ m + 3 \in 0..K /\ m \in Nat
    BY <1>1, <1>3, <2>1
  <2>3. slots[m + 1] \in SlotType /\ slots[m + 2] \in SlotType /\ slots[m + 3] \in SlotType
    BY <1>1, <2>2, ElementOfSeq
  <2>4. PICK a \in Tagged(2), b \in Tagged(3), c \in Tagged(4) :
           a = slots[m + 1] /\ b = slots[m + 2] /\ c = slots[m + 3]
    BY <2>1, <2>3 DEF Tagged
  <2>5. PICK r \in Record :
           r = DecodeRmrr(a, b, c) /\ r.type \notin IdTypes /\ Encode(r) = (a \o b) \o c
    BY RecordType, EncodeMedia
  <2>6. PICK more \in Seq(Record) :
           /\ more = Append(records, r)
           /\ Concat(Encodings(more)) = Concat(Encodings(records)) \o Encode(r)
    BY EncodeMore
  <2>7. Concat(Encodings(more)) = SubSeq(cells, 1, (m + 3) * 5)
    <3>1. a \in Seq(Cell) /\ b \in Seq(Cell) /\ c \in Seq(Cell)
      BY SlotCells DEF Tagged
    <3>2. ArePassed(cells, m, a, b, c)
      BY <2>1, <2>2, <2>4, <3>1, CellsOfMedia, Zenon
    <3> QED
      BY <1>2, <1>3, <2>5, <2>6, <3>2 DEF ArePassed
  <2>8. IdRecords(more) = IdUpto(slots, m + 3)
    <3>1. IdUpto(slots, m + 3) = IdUpto(slots, m)
      BY <1>1, <2>1, <2>2, IdsOfMedia
    <3>2. IdRecords(more) = IdRecords(records) \o <<>> /\ IdRecords(records) \in Seq(Record)
      BY <2>5, <2>6, IdMore DEF OneIf
    <3> QED
      BY <1>2, <1>3, <3>1, <3>2, ConcatEmptySeq
  <2>9. [next |-> (m + 3) + 1, records |-> more] \in Progress(cells, slots, K)
    BY <1>1, <2>2, <2>7, <2>8, Progressed
  <2>10. NextRecord(slots, done) = [next |-> n + 3, records |-> more]
    <3>1. NextRecord(slots, done) =
            [next |-> n + 3, records |-> Append(records, DecodeRmrr(slots[n], slots[n + 1], slots[n + 2]))]
      BY <1>1, <1>2, <1>5 DEF NextRecord
    <3> QED
      BY <1>3, <2>4, <2>5, <2>6, <3>1
  <2>11. (m + 3) + 1 = n + 3 /\ n + 3 > n
    BY <1>3
  <2>12. PICK after : after = NextRecord(slots, done)
    OBVIOUS
  <2>13. after \in Progress(cells, slots, K) /\ after.next = n + 3
    BY <2>9, <2>10, <2>11, <2>12
  <2> QED
    BY <1>1, <1>2, <1>5, <2>11, <2>12, <2>13
<1>6. CASE n <= K /\ ~RmrrAt(slots, n)
  <2>1. m + 1 <= K /\ m + 1 \in 1..K /\ m + 1 \in 0..K /\ m \in Nat
    BY <1>1, <1>3, <1>6
  <2>2. slots[n] \in SlotType /\ slots[n] = slots[m + 1]
    BY <1>1, <1>3, <2>1, ElementOfSeq
  <2>3. PICK r \in Record :
           r = DecodeSlot(slots[n]) /\ (r.type \in IdTypes <=> slots[n][1] \in {0, 1})
             /\ Encode(r) = slots[n]
    BY <2>2, RecordType, EncodeSlot
  <2>4. PICK more \in Seq(Record) :
           /\ more = Append(records, r)
           /\ Concat(Encodings(more)) = Concat(Encodings(records)) \o Encode(r)
    BY EncodeMore
  <2>5. Concat(Encodings(more)) = SubSeq(cells, 1, (m + 1) * 5)
    <3>1. SubSeq(cells, 1, m * 5) \o slots[m + 1] = SubSeq(cells, 1, (m + 1) * 5)
      BY <2>1, CellsMore
    <3> QED
      BY <1>2, <1>3, <2>2, <2>3, <2>4, <3>1
  <2>6. IdRecords(more) = IdUpto(slots, m + 1)
    <3>1. IdUpto(slots, m + 1) =
            IdUpto(slots, m) \o OneIf(slots[m + 1][1] \in {0, 1}, DecodeSlot(slots[m + 1]))
      BY <1>1, <2>1, IdSlotMore
    <3>2. OneIf(slots[m + 1][1] \in {0, 1}, DecodeSlot(slots[m + 1])) = OneIf(r.type \in IdTypes, r)
      BY <2>2, <2>3 DEF OneIf
    <3>3. IdRecords(more) = IdRecords(records) \o OneIf(r.type \in IdTypes, r)
      BY <2>4, IdMore
    <3> QED
      BY <1>2, <1>3, <3>1, <3>2, <3>3
  <2>7. [next |-> (m + 1) + 1, records |-> more] \in Progress(cells, slots, K)
    BY <1>1, <2>1, <2>5, <2>6, Progressed
  <2>8. NextRecord(slots, done) = [next |-> n + 1, records |-> more]
    BY <1>1, <1>2, <1>6, <2>3, <2>4 DEF NextRecord
  <2>9. n + 1 > n
    OBVIOUS
  <2>10. PICK after : after = NextRecord(slots, done)
    OBVIOUS
  <2>11. after \in Progress(cells, slots, K) /\ after.next = n + 1
    BY <1>3, <2>7, <2>8, <2>10
  <2> QED
    BY <1>1, <1>2, <1>6, <2>9, <2>10, <2>11
<1>7. n > K \/ n <= K
  BY <1>1, <1>2
<1> QED
  BY <1>4, <1>5, <1>6, <1>7

\* What RecordSet makes of cells that are whole slots.
IsRecordSet(records, cells, slots) ==
    /\ Concat(Encodings(records)) = cells
    /\ IdRecords(records) = IdUpto(slots, Len(slots))

LEMMA RecordSetOfSlots ==
    ASSUME NEW cells \in Seq(Cell), NEW K \in Nat, Len(cells) = K * 5
    PROVE  RecordSet(cells) \in Seq(Record) /\ IsRecordSet(RecordSet(cells), cells, Slots(cells))
<1> DEFINE slots == Slots(cells)
           T == Progress(cells, slots, K)
           start == [next |-> 1, records |-> <<>>]
           F(f) == [i \in 0..Len(slots) |-> IF i = 0 THEN start ELSE NextRecord(slots, f[i - 1])]
           G == [i \in 1..K |-> [done \in T |-> NextRecord(slots, done)]]
           upto == CHOOSE f : f = F(f)
<1>1. AreSlots(slots, cells, K) /\ Len(slots) = K
  BY SlotsOfCells DEF AreSlots
<1>2. start \in T
  <2>1. PICK none \in Seq(Record) : none = <<>> /\ Len(none) = 0
    BY EmptySeq
  <2>2. Concat(Encodings(none)) = SubSeq(cells, 1, 0 * 5)
    <3>1. Encodings(none) = <<>>
      BY <2>1 DEF Encodings
    <3>2. PICK empty \in Seq(Seq(Cell)) : empty = <<>> /\ Len(empty) = 0
      BY EmptySeq
    <3>3. Concat(empty) = <<>>
      BY <3>2, ConcatBase
    <3>4. SubSeq(cells, 1, 0 * 5) = <<>>
      <4>1. SubSeq(cells, 0 + 1, 0) \in Seq(Cell) /\ IsPart(SubSeq(cells, 0 + 1, 0), cells, 0, 0)
        <5>1. 0 \in Nat /\ 0 <= 0 /\ 0 <= Len(cells)
          OBVIOUS
        <5> QED
          BY <5>1, Part, Zenon
      <4>2. Len(SubSeq(cells, 1, 0)) = 0 /\ SubSeq(cells, 1, 0) \in Seq(Cell)
        BY <4>1 DEF IsPart
      <4> QED
        BY <4>2, EmptySeq
    <3> QED
      BY <3>1, <3>2, <3>3, <3>4
  <2>3. IdRecords(none) = <<>> /\ IdUpto(slots, 0) = <<>>
    <3>1. PICK empty \in Seq(Seq(Record)) : empty = <<>> /\ Len(empty) = 0
      BY EmptySeq
    <3>2. Concat(empty) = <<>>
      BY <3>1, ConcatBase
    <3>3. IdRecords(none) = Concat(empty)
      BY <2>1, <3>1 DEF IdRecords
    <3>4. IdUpto(slots, 0) = Concat(empty)
      BY <3>1 DEF IdUpto
    <3> QED
      BY <3>2, <3>3, <3>4
  <2>4. [next |-> 0 + 1, records |-> none] \in T
    <3>1. 0 \in 0..K
      OBVIOUS
    <3> QED
      BY <2>2, <2>3, <3>1, Progressed
  <2> QED
    BY <2>1, <2>4
<1>3. ASSUME NEW done \in T
      PROVE  /\ NextRecord(slots, done) \in T /\ done.next \in 1..(K + 1)
             /\ done.next <= K => NextRecord(slots, done).next > done.next
             /\ done.next > K => NextRecord(slots, done) = done
  <2>1. done.next \in 1..(K + 1)
    BY <1>3 DEF Progress
  <2> HIDE DEF slots
  <2> QED
    BY <1>1, <1>3, <2>1, NextProgress
<1> HIDE DEF slots, T
<1>4. \E f : f = F(f)
  <2>1. G \in [1..K -> [T -> T]]
    BY <1>3
  <2> HIDE DEF G
  <2>2. PICK f \in [0..K -> T] : IsRecursion(f, K, start, G)
    BY <1>2, <2>1, RecursionExists
  <2>3. ASSUME NEW i \in 0..K, i # 0 PROVE G[i][f[i - 1]] = NextRecord(slots, f[i - 1])
    <3>1. i \in 1..K /\ i - 1 \in 0..K
      BY <2>3
    <3>2. f[i - 1] \in T
      BY <2>2, <3>1
    <3> QED
      BY <3>1, <3>2 DEF G
  <2> HIDE DEF start
  <2>4. f = [i \in 0..K |-> IF i = 0 THEN start ELSE NextRecord(slots, f[i - 1])]
    BY <2>2, <2>3 DEF IsRecursion
  <2> QED
    BY <1>1, <2>4
<1>5. upto = F(upto)
  <2> HIDE DEF F
  <2> QED
    BY <1>4
<1> DEFINE S == {i \in Nat : i <= K => upto[i] \in T /\ upto[i].next >= i + 1}
<1>6. \A i \in 0..K : upto[i] = IF i = 0 THEN start ELSE NextRecord(slots, upto[i - 1])
  <2> HIDE DEF upto
  <2> QED
    BY <1>1, <1>5
<1>7. RecordSet(cells) = upto[K].records
  <2>1. RecordSet(cells) = upto[Len(slots)].records
    BY DEF RecordSet, slots
  <2> QED
    BY <1>1, <2>1
<1> HIDE DEF upto
<1>8. 0 \in S
  <2>1. upto[0] = start /\ start.next = 1
    BY <1>6
  <2> QED
    BY <1>2, <2>1
<1>9. ASSUME NEW i \in S PROVE i + 1 \in S
  <2>1. SUFFICES ASSUME i + 1 <= K PROVE upto[i + 1] \in T /\ upto[i + 1].next >= (i + 1) + 1
    OBVIOUS
  <2>2. i \in Nat /\ upto[i] \in T /\ upto[i].next >= i + 1
    BY <2>1
  <2>3. upto[i + 1] = NextRecord(slots, upto[i])
    <3>1. i + 1 \in 0..K /\ i + 1 # 0 /\ (i + 1) - 1 = i
      BY <2>1, <2>2
    <3> QED
      BY <1>6, <3>1
  <2>4. PICK done \in T : done = upto[i]
    BY <2>2
  <2>5. PICK n \in 1..(K + 1) : n = done.next
    BY <1>3
  <2>6. PICK after \in T : after = upto[i + 1] /\ (n <= K => after.next > n) /\ (n > K => after = done)
    BY <1>3, <2>3, <2>4, <2>5
  <2>7. PICK l \in 1..(K + 1) : l = after.next
    BY <1>3
  <2>8. l >= (i + 1) + 1
    <3>1. n >= i + 1 /\ (n <= K => l > n) /\ (n > K => l = n)
      BY <2>2, <2>4, <2>5, <2>6, <2>7
    <3> QED
      BY <2>1, <2>2, <3>1
  <2> QED
    BY <2>6, <2>7, <2>8
<1>10. S = Nat
  <2>1. S \subseteq Nat
    OBVIOUS
  <2> HIDE DEF S
  <2> QED
    BY <1>8, <1>9, <2>1, SetInduction
<1>11. upto[K] \in T /\ upto[K].next >= K + 1
  <2>1. K \in S /\ K <= K
    BY <1>10
  <2> QED
    BY <2>1
<1>12. PICK done \in T : done = upto[K]
  BY <1>11
<1>13. done.next = K + 1
  <2>1. PICK n \in 1..(K + 1) : n = done.next
    BY <1>3
  <2> QED
    BY <1>11, <1>12, <2>1
<1>14. /\ done.records \in Seq(Record)
       /\ Concat(Encodings(done.records)) = SubSeq(cells, 1, (done.next - 1) * 5)
       /\ IdRecords(done.records) = IdUpto(slots, done.next - 1)
  BY DEF T, Progress
<1>15. (done.next - 1) * 5 = Len(cells) /\ done.next - 1 = K
  BY <1>13
<1>16. SubSeq(cells, 1, Len(cells)) = cells
  BY SubSeqFull
<1> QED
  BY <1>1, <1>7, <1>12, <1>14, <1>15, <1>16 DEF IsRecordSet, slots
-----------------------------------------------------------------------------
(* Segments *)

SegmentType == [segment_size : Nat, records : Seq(Record), signature : Seq(Cell)]

\* Where segments end: ends[k] is the end of the k-th.
AreEnds(ends, segments, K) ==
    /\ ends \in [0..K -> Nat] /\ ends[0] = 4
    /\ \A k \in 1..K : ends[k] = ends[k - 1] + segments[k].segment_size

LEMMA EndsExist ==
    ASSUME NEW segments, NEW K \in Nat, \A k \in 1..K : segments[k].segment_size \in Nat
    PROVE  \E ends : AreEnds(ends, segments, K)
<1> DEFINE G == [k \in 1..K |-> [e \in Nat |-> e + segments[k].segment_size]]
<1>1. G \in [1..K -> [Nat -> Nat]]
  OBVIOUS
<1>2. \A k \in 1..K : \A e \in Nat : G[k][e] = e + segments[k].segment_size
  OBVIOUS
<1> HIDE DEF G
<1>3. PICK ends \in [0..K -> Nat] : IsRecursion(ends, K, 4, G)
  BY <1>1, RecursionExists
<1>4. ends[0] = 4
  BY <1>3 DEF IsRecursion
<1>5. ASSUME NEW k \in 1..K PROVE ends[k] = ends[k - 1] + segments[k].segment_size
  <2>1. k \in 0..K /\ k # 0 /\ k - 1 \in 0..K
    OBVIOUS
  <2>2. ends[k] = G[k][ends[k - 1]] /\ ends[k - 1] \in Nat
    BY <1>3, <2>1 DEF IsRecursion
  <2> QED
    BY <1>2, <2>2
<1> QED
  BY <1>3, <1>4, <1>5 DEF AreEnds

LEMMA EndsAre ==
    ASSUME NEW segments, NEW K \in Nat, NEW ends, AreEnds(ends, segments, K), NEW k \in 0..K
    PROVE  EndOfSegment(segments, k) = ends[k]
<1> DEFINE F(f) == [n \in 0..k |-> IF n = 0 THEN CrlHeaderLen
                                   ELSE f[n - 1] + segments[n].segment_size]
           upto == CHOOSE f : f = F(f)
<1>1. [n \in 0..k |-> ends[n]] = F([n \in 0..k |-> ends[n]])
  <2>1. ASSUME NEW n \in 0..k
        PROVE  ends[n] = IF n = 0 THEN CrlHeaderLen
                         ELSE [j \in 0..k |-> ends[j]][n - 1] + segments[n].segment_size
    <3>1. CASE n = 0
      BY <3>1 DEF AreEnds, CrlHeaderLen
    <3>2. CASE n # 0
      <4>1. n \in 1..K /\ n - 1 \in 0..k
        BY <3>2
      <4> QED
        BY <3>2, <4>1 DEF AreEnds
    <3> QED
      BY <3>1, <3>2
  <2> QED
    BY <2>1
<1>2. upto = F(upto)
  <2> HIDE DEF F
  <2> QED
    BY <1>1
<1>3. \A n \in 0..k : upto[n] = IF n = 0 THEN CrlHeaderLen ELSE upto[n - 1] + segments[n].segment_size
  <2> HIDE DEF upto
  <2> QED
    BY <1>2
<1>4. EndOfSegment(segments, k) = upto[k]
  BY DEF EndOfSegment
<1> HIDE DEF upto
<1> DEFINE S == {n \in Nat : n <= k => upto[n] = ends[n]}
<1>5. 0 \in S
  BY <1>3 DEF AreEnds, CrlHeaderLen
<1>6. ASSUME NEW n \in S PROVE n + 1 \in S
  <2>1. SUFFICES ASSUME n + 1 <= k PROVE upto[n + 1] = ends[n + 1]
    OBVIOUS
  <2>2. /\ n + 1 \in 0..k /\ n + 1 \in 1..K /\ n + 1 # 0 /\ (n + 1) - 1 = n
        /\ upto[n] = ends[n]
    BY <2>1
  <2>3. upto[n + 1] = upto[n] + segments[n + 1].segment_size
    BY <1>3, <2>2
  <2>4. ends[n + 1] = ends[n] + segments[n + 1].segment_size
    BY <2>2 DEF AreEnds
  <2> QED
    BY <2>2, <2>3, <2>4
<1>7. S = Nat
  <2>1. S \subseteq Nat
    OBVIOUS
  <2> HIDE DEF S
  <2> QED
    BY <1>5, <1>6, <2>1, SetInduction
<1>8. upto[k] = ends[k]
  <2>1. k \in S /\ k <= k
    BY <1>7
  <2> QED
    BY <2>1
<1> QED
  BY <1>4, <1>8

\* One segment more: the ends of the others stay.
EndsStay(more, segments, s) ==
    /\ \A k \in 0..Len(segments) :
          EndOfSegment(more, k) \in Nat /\ EndOfSegment(more, k) = EndOfSegment(segments, k)
    /\ EndOfSegment(more, Len(more)) = EndOfSegment(segments, Len(segments)) + s.segment_size

LEMMA EndsMore ==
    ASSUME NEW segments \in Seq(SegmentType), NEW s \in SegmentType,
           NEW more \in Seq(SegmentType), IsAppended(more, segments, s)
    PROVE  EndsStay(more, segments, s)
<1>1. PICK K \in Nat : K = Len(segments) /\ Len(more) = K + 1
  BY DEF IsAppended
<1>2. \A k \in 1..Len(more) : more[k].segment_size \in Nat
  <2>1. \A k \in 1..Len(more) : more[k] \in SegmentType
    BY ElementOfSeq
  <2> QED
    BY <2>1 DEF SegmentType
<1>3. PICK ends : AreEnds(ends, more, K + 1)
  BY <1>1, <1>2, EndsExist
<1>4. AreEnds([k \in 0..K |-> ends[k]], segments, K)
  <2>1. \A k \in 1..K : more[k] = segments[k]
    BY <1>1 DEF IsAppended
  <2>2. \A k \in 1..K : k \in 1..(K + 1) /\ k \in 0..K /\ k - 1 \in 0..K
    OBVIOUS
  <2>3. \A k \in 1..K : ends[k] = ends[k - 1] + segments[k].segment_size
    BY <1>3, <2>1, <2>2 DEF AreEnds
  <2>4. ends[0] = 4 /\ 0 \in 0..K /\ \A k \in 0..K : ends[k] \in Nat
    BY <1>3 DEF AreEnds
  <2> QED
    BY <2>2, <2>3, <2>4 DEF AreEnds
<1>5. PICK old : old = [k \in 0..K |-> ends[k]]
  OBVIOUS
<1>6. \A k \in 0..K : EndOfSegment(segments, k) = ends[k]
  <2>1. \A k \in 0..K : EndOfSegment(segments, k) = old[k]
    BY <1>4, <1>5, EndsAre
  <2> QED
    BY <1>5, <2>1
<1>7. \A k \in 0..(K + 1) : EndOfSegment(more, k) = ends[k]
  <2>1. K + 1 \in Nat
    OBVIOUS
  <2> QED
    BY <1>3, <2>1, EndsAre
<1>8. \A k \in 0..(K + 1) : ends[k] \in Nat
  BY <1>3 DEF AreEnds
<1>9. ends[K + 1] = ends[K] + s.segment_size
  <2>1. K + 1 \in 1..(K + 1) /\ (K + 1) - 1 = K /\ more[K + 1] = s
    BY <1>1 DEF IsAppended
  <2> QED
    BY <1>3, <2>1 DEF AreEnds
<1>10. \A k \in 0..K : k \in 0..(K + 1)
  OBVIOUS
<1>11. K \in 0..K /\ K + 1 \in 0..(K + 1)
  OBVIOUS
<1> QED
  BY <1>1, <1>6, <1>7, <1>8, <1>9, <1>10, <1>11 DEF EndsStay
\* A segment and the cells it was read from, those after lo up to the hi-th.
LaidOut(bytes, s, lo, hi) ==
    /\ lo \in Nat /\ hi \in Nat /\ hi = lo + s.segment_size
    /\ lo + SizeLen <= hi - SigLen /\ hi - SigLen \in Nat /\ hi <= Len(bytes)
    /\ (hi - SigLen - (lo + SizeLen)) % SlotLen = 0
    /\ Digits(s.segment_size) = SubSeq(bytes, lo + 1, lo + SizeLen)
    /\ s.records = RecordSet(SubSeq(bytes, (lo + SizeLen) + 1, hi - SigLen))
    /\ s.signature = SubSeq(bytes, (hi - SigLen) + 1, hi)

Layout(bytes, segments) ==
    \A k \in 1..Len(segments) :
        LaidOut(bytes, segments[k], EndOfSegment(segments, k - 1), EndOfSegment(segments, k))

\* How far the parser has come.
ParseState == [error : Errors \cup {None}, cursor : Nat, segments : Seq(SegmentType)]

Parsing(bytes) ==
    {p \in ParseState :
        p.error = None =>
            /\ 4 <= p.cursor /\ p.cursor <= Len(bytes)
            /\ p.cursor = EndOfSegment(p.segments, Len(p.segments))
            /\ Layout(bytes, p.segments)}

\* The cells of whole slots are a number of slots.
AreWholeSlots(cells) == cells \in Seq(Cell) /\ \E K \in Nat : Len(cells) = K * 5

LEMMA WholeSlots ==
    ASSUME NEW bytes \in Seq(Cell), NEW lo \in Nat, NEW hi \in Nat, lo <= hi, hi <= Len(bytes),
           (hi - lo) % SlotLen = 0
    PROVE  AreWholeSlots(SubSeq(bytes, lo + 1, hi))
<1>1. SubSeq(bytes, lo + 1, hi) \in Seq(Cell) /\ IsPart(SubSeq(bytes, lo + 1, hi), bytes, lo, hi)
  BY Part, Zenon
<1>2. PICK n \in Nat : n = hi - lo /\ n % 5 = 0
  BY DEF SlotLen
<1>3. n = (n \div 5) * 5 /\ n \div 5 \in Nat
  BY <1>2
<1>4. Len(SubSeq(bytes, lo + 1, hi)) = n
  BY <1>1, <1>2 DEF IsPart
<1> QED
  BY <1>1, <1>3, <1>4 DEF AreWholeSlots

\* A layout stays, with one segment more.
LEMMA LayoutMore ==
    ASSUME NEW bytes \in Seq(Cell), NEW segments \in Seq(SegmentType), Layout(bytes, segments),
           NEW s \in SegmentType, NEW lo \in Nat, NEW hi \in Nat,
           lo = EndOfSegment(segments, Len(segments)), LaidOut(bytes, s, lo, hi)
    PROVE  /\ Append(segments, s) \in Seq(SegmentType)
           /\ Layout(bytes, Append(segments, s))
           /\ Len(Append(segments, s)) = Len(segments) + 1
           /\ EndOfSegment(Append(segments, s), Len(segments) + 1) = hi
<1>1. PICK more \in Seq(SegmentType) : more = Append(segments, s) /\ IsAppended(more, segments, s)
  BY Appended, Zenon
<1>2. PICK K \in Nat : K = Len(segments)
  OBVIOUS
<1>3. Len(more) = K + 1 /\ more[K + 1] = s /\ \A k \in 1..K : more[k] = segments[k]
  BY <1>1, <1>2 DEF IsAppended
<1>4. /\ \A k \in 0..K : EndOfSegment(more, k) = EndOfSegment(segments, k)
      /\ EndOfSegment(more, K + 1) = lo + s.segment_size
  <2>1. EndsStay(more, segments, s)
    BY <1>1, EndsMore, Zenon
  <2> QED
    BY <1>2, <1>3, <2>1 DEF EndsStay
<1>5. hi = lo + s.segment_size
  BY DEF LaidOut
<1>6. ASSUME NEW k \in 1..(K + 1)
      PROVE  LaidOut(bytes, more[k], EndOfSegment(more, k - 1), EndOfSegment(more, k))
  <2>1. CASE k = K + 1
    <3>1. k - 1 = K /\ K \in 0..K
      BY <2>1
    <3> QED
      BY <1>2, <1>3, <1>4, <1>5, <2>1, <3>1
  <2>2. CASE k # K + 1
    <3>1. k \in 1..K /\ k \in 0..K /\ k - 1 \in 0..K
      BY <2>2
    <3> QED
      BY <1>2, <1>3, <1>4, <3>1 DEF Layout
  <2> QED
    BY <2>1, <2>2
<1> QED
  BY <1>1, <1>2, <1>3, <1>4, <1>5, <1>6 DEF Layout

\* What a step of the parser adds.
NewSegment(bytes, c, size) ==
    [segment_size |-> size,
     records |-> RecordSet(SubSeq(bytes, c + SizeLen + 1, c + size - SigLen)),
     signature |-> SubSeq(bytes, c + size - SigLen + 1, c + size)]

IsNewSegment(bytes, c, size) ==
    /\ NewSegment(bytes, c, size) \in SegmentType
    /\ LaidOut(bytes, NewSegment(bytes, c, size), c, c + size)

LEMMA SizeDigits ==
    ASSUME NEW bytes \in Seq(Cell), NEW c \in Nat, c + SizeLen <= Len(bytes)
    PROVE  /\ Number(bytes[c + 1], bytes[c + 2]) \in Nat
           /\ Digits(Number(bytes[c + 1], bytes[c + 2])) = SubSeq(bytes, c + 1, c + SizeLen)
<1>1. PICK start \in Nat : start = c + 2 /\ start = c + SizeLen /\ start <= Len(bytes)
  BY DEF SizeLen
<1>2. c + 1 \in 1..Len(bytes) /\ c + 2 \in 1..Len(bytes)
  BY <1>1
<1>3. PICK x \in Cell, y \in Cell : x = bytes[c + 1] /\ y = bytes[c + 2]
  BY <1>2, ElementOfSeq
<1>4. Digits(Number(x, y)) = <<x, y>> /\ Number(x, y) \in Nat
  BY DigitsOfNumber
<1>5. PICK w \in Seq(Cell) : w = <<x, y>> /\ IsTwo(w, x, y)
  BY Literals, Zenon
<1>6. PICK v \in Seq(Cell) : v = SubSeq(bytes, c + 1, start) /\ IsPart(v, bytes, c, start)
  <2>1. c <= start /\ start <= Len(bytes)
    BY <1>1
  <2> QED
    BY <1>1, <2>1, Part, Zenon
<1>7. Len(v) = 2 /\ v[1] = x /\ v[2] = y
  <2>1. start - c = 2 /\ 1 \in 1..2 /\ 2 \in 1..2
    BY <1>1
  <2>2. Len(v) = 2 /\ \A i \in 1..2 : v[i] = bytes[c + i]
    BY <1>6, <2>1 DEF IsPart
  <2> QED
    BY <1>3, <2>1, <2>2
<1>8. w = v
  <2>1. ASSUME NEW i \in 1..2 PROVE w[i] = v[i]
    <3>1. i = 1 \/ i = 2
      OBVIOUS
    <3> QED
      BY <1>5, <1>7, <3>1 DEF IsTwo
  <2> QED
    BY <1>5, <1>7, <2>1, SameSequence DEF IsTwo
<1> QED
  BY <1>1, <1>3, <1>4, <1>5, <1>6, <1>8

LEMMA NewSegmentLaidOut ==
    ASSUME NEW bytes \in Seq(Cell), NEW c \in Nat, NEW size \in Nat,
           Digits(size) = SubSeq(bytes, c + 1, c + SizeLen),
           SizeLen + SigLen <= size, c + size <= Len(bytes),
           (size - SizeLen - SigLen) % SlotLen = 0
    PROVE  IsNewSegment(bytes, c, size)
<1>1. SizeLen = 2 /\ SigLen \in Nat
  BY CrlAssumption DEF SizeLen
<1>2. PICK start \in Nat, signature \in Nat, hi \in Nat :
         start = c + 2 /\ signature = c + size - SigLen /\ hi = c + size
  BY <1>1
<1>3. start <= signature /\ signature <= hi /\ hi <= Len(bytes)
      /\ (signature - start) % SlotLen = 0 /\ signature = hi - SigLen
  <2>1. signature - start = size - SizeLen - SigLen
    BY <1>1, <1>2
  <2> QED
    BY <1>1, <1>2, <2>1
<1>4. PICK cells \in Seq(Cell), K \in Nat :
         cells = SubSeq(bytes, start + 1, signature) /\ Len(cells) = K * 5
  <2>1. signature <= Len(bytes)
    BY <1>2, <1>3
  <2>2. AreWholeSlots(SubSeq(bytes, start + 1, signature))
    BY <1>2, <1>3, <2>1, WholeSlots, Zenon
  <2> QED
    BY <2>2 DEF AreWholeSlots
<1>5. RecordSet(cells) \in Seq(Record)
  BY <1>4, RecordSetOfSlots
<1>6. SubSeq(bytes, signature + 1, hi) \in Seq(Cell)
  BY <1>2, <1>3, Part, Zenon
<1>7. Digits(size) = SubSeq(bytes, c + 1, start)
  BY <1>1, <1>2
<1>8. PICK s : s = NewSegment(bytes, c, size)
  OBVIOUS
<1>9. /\ s = [segment_size |-> size, records |-> RecordSet(cells),
              signature |-> SubSeq(bytes, signature + 1, hi)]
      /\ c + SizeLen = start /\ c + size = hi
  BY <1>1, <1>2, <1>4, <1>8 DEF NewSegment
<1>10. s \in SegmentType
  BY <1>5, <1>6, <1>9 DEF SegmentType
<1>11. LaidOut(bytes, s, c, hi)
  <2>1. s.segment_size = size /\ s.records = RecordSet(cells)
        /\ s.signature = SubSeq(bytes, signature + 1, hi)
    BY <1>9
  <2>2. hi = c + size
    BY <1>2
  <2> QED
    BY <1>2, <1>3, <1>4, <1>7, <1>9, <2>1, <2>2 DEF LaidOut
<1> QED
  BY <1>8, <1>9, <1>10, <1>11 DEF IsNewSegment
-----------------------------------------------------------------------------
(* The parser *)

SizeAt(bytes, c) == Number(bytes[c + 1], bytes[c + 2])

\* The parser takes the segment that begins after c cells.
Accepts(bytes, c) ==
    /\ ~(c + SizeLen > Len(bytes))
    /\ ~(c = CrlHeaderLen /\ SizeAt(bytes, c) > Segment1Max)
    /\ ~(SizeAt(bytes, c) < SizeLen + SigLen)
    /\ ~(c + SizeAt(bytes, c) > Len(bytes))
    /\ (SizeAt(bytes, c) - SizeLen - SigLen) % SlotLen = 0

\* The parser after it.
Accepted(bytes, p) ==
    [error |-> None, cursor |-> p.cursor + SizeAt(bytes, p.cursor),
     segments |-> Append(p.segments, NewSegment(bytes, p.cursor, SizeAt(bytes, p.cursor)))]

LEMMA StepIs ==
    ASSUME NEW bytes, NEW p
    PROVE  /\ p.error # None => ParseSegment(bytes, p) = p
           /\ (p.error = None /\ Accepts(bytes, p.cursor)) =>
                 ParseSegment(bytes, p) = Accepted(bytes, p)
           /\ (p.error = None /\ ~Accepts(bytes, p.cursor)) =>
                 \E e \in Errors : ParseSegment(bytes, p) = Refused(e)
<1>1. CASE p.error # None
  BY <1>1 DEF ParseSegment
<1>2. CASE p.error = None /\ Accepts(bytes, p.cursor)
  BY <1>2, Zenon DEF ParseSegment, Accepts, Accepted, SizeAt, NewSegment
<1>3. CASE p.error = None /\ ~Accepts(bytes, p.cursor)
  <2>1. "truncated" \in Errors /\ "invalid" \in Errors /\ "oversized" \in Errors
    BY DEF Errors
  <2> QED
    BY <1>3, <2>1, Zenon DEF ParseSegment, Accepts, SizeAt
<1> QED
  BY <1>1, <1>2, <1>3

\* What an accepted segment is.
LEMMA AcceptedSegment ==
    ASSUME NEW bytes \in Seq(Cell), NEW c \in Nat, Accepts(bytes, c)
    PROVE  /\ SizeAt(bytes, c) \in Nat /\ IsNewSegment(bytes, c, SizeAt(bytes, c))
           /\ c + SizeLen <= c + SizeAt(bytes, c) /\ c + SizeAt(bytes, c) <= Len(bytes)
<1>1. SizeLen \in Nat /\ SigLen \in Nat
  BY CrlAssumption DEF SizeLen
<1>2. c + SizeLen <= Len(bytes)
  BY <1>1 DEF Accepts
<1>3. SizeAt(bytes, c) \in Nat /\ Digits(SizeAt(bytes, c)) = SubSeq(bytes, c + 1, c + SizeLen)
  BY <1>2, SizeDigits DEF SizeAt
<1>4. PICK size \in Nat : size = SizeAt(bytes, c)
  BY <1>3
<1>5. /\ SizeLen + SigLen <= size /\ c + size <= Len(bytes)
      /\ (size - SizeLen - SigLen) % SlotLen = 0
  BY <1>1, <1>4 DEF Accepts
<1>6. IsNewSegment(bytes, c, size)
  BY <1>3, <1>4, <1>5, NewSegmentLaidOut, Zenon
<1>7. c + SizeLen <= c + size
  BY <1>1, <1>5
<1> QED
  BY <1>4, <1>5, <1>6, <1>7

\* A turn of the parser.
Parsed(bytes, p, q) ==
    /\ q \in Parsing(bytes)
    /\ p.error # None => q = p
    /\ q.error = None =>
          /\ p.error = None /\ Accepts(bytes, p.cursor) /\ q = Accepted(bytes, p)
          /\ q.cursor \in Nat /\ p.cursor + SizeLen <= q.cursor
          /\ Len(q.segments) = Len(p.segments) + 1

LEMMA ParseStep ==
    ASSUME NEW bytes \in Seq(Cell), NEW p \in Parsing(bytes)
    PROVE  Parsed(bytes, p, ParseSegment(bytes, p))
<1>1. p \in ParseState
  BY DEF Parsing
<1>2. CASE p.error # None
  <2>1. ParseSegment(bytes, p) = p
    BY <1>2, StepIs
  <2> QED
    BY <1>2, <2>1 DEF Parsed
<1>3. CASE p.error = None /\ ~Accepts(bytes, p.cursor)
  <2>1. PICK e \in Errors : ParseSegment(bytes, p) = Refused(e)
    BY <1>3, StepIs
  <2>2. e # None
    BY CrlAssumption
  <2>3. PICK q : q = Refused(e)
    OBVIOUS
  <2>4. PICK none \in Seq(SegmentType) : none = <<>>
    BY EmptySeq
  <2>5. q = [error |-> e, cursor |-> 0, segments |-> none]
    BY <2>3, <2>4 DEF Refused
  <2>6. q \in ParseState /\ q.error = e
    BY <2>5 DEF ParseState
  <2> QED
    BY <1>3, <2>1, <2>2, <2>3, <2>6 DEF Parsed, Parsing
<1>4. CASE p.error = None /\ Accepts(bytes, p.cursor)
  <2>1. PICK c \in Nat, segments \in Seq(SegmentType) : c = p.cursor /\ segments = p.segments
    BY <1>1 DEF ParseState
  <2>2. c = EndOfSegment(segments, Len(segments)) /\ Layout(bytes, segments) /\ 4 <= c
    BY <1>4, <2>1 DEF Parsing
  <2>3. PICK size \in Nat : size = SizeAt(bytes, c) /\ IsNewSegment(bytes, c, size)
                              /\ c + SizeLen <= c + size /\ c + size <= Len(bytes)
    BY <1>4, <2>1, AcceptedSegment
  <2>4. PICK hi \in Nat : hi = c + size /\ c + SizeLen <= hi /\ hi <= Len(bytes) /\ 4 <= hi
    <3>1. SizeLen \in Nat
      BY DEF SizeLen
    <3> QED
      BY <2>2, <2>3, <3>1
  <2>5. PICK s \in SegmentType : s = NewSegment(bytes, c, size) /\ LaidOut(bytes, s, c, hi)
    BY <2>3, <2>4 DEF IsNewSegment
  <2>6. PICK more \in Seq(SegmentType) :
           /\ more = Append(segments, s) /\ Layout(bytes, more)
           /\ Len(more) = Len(segments) + 1 /\ EndOfSegment(more, Len(segments) + 1) = hi
    BY <2>2, <2>5, LayoutMore
  <2>7. ParseSegment(bytes, p) = Accepted(bytes, p)
    BY <1>4, StepIs
  <2>8. Accepted(bytes, p) = [error |-> None, cursor |-> hi, segments |-> more]
    BY <2>1, <2>3, <2>4, <2>5, <2>6 DEF Accepted
  <2>9. PICK q \in ParseState :
           q = Accepted(bytes, p) /\ q.error = None /\ q.cursor = hi /\ q.segments = more
    BY <2>8 DEF ParseState
  <2>10. q \in Parsing(bytes)
    BY <2>4, <2>6, <2>9 DEF Parsing
  <2>11. p.cursor + SizeLen <= q.cursor /\ q.cursor \in Nat
    BY <2>1, <2>4, <2>9
  <2>12. Len(q.segments) = Len(p.segments) + 1
    BY <2>1, <2>6, <2>9
  <2> QED
    BY <1>4, <2>7, <2>9, <2>10, <2>11, <2>12 DEF Parsed
<1> QED
  BY <1>2, <1>3, <1>4

\* The whole of it.
Start == [error |-> None, cursor |-> CrlHeaderLen, segments |-> <<>>]

IsParse(bytes, N, f) ==
    /\ f[0] = Start
    /\ \A n \in 0..N : f[n] \in Parsing(bytes)
    /\ \A n \in 1..N : f[n] = ParseSegment(bytes, f[n - 1])

LEMMA StartIsParsing ==
    ASSUME NEW bytes \in Seq(Cell), 4 <= Len(bytes)
    PROVE  Start \in Parsing(bytes)
<1>1. PICK none \in Seq(SegmentType) : none = <<>> /\ Len(none) = 0
  BY EmptySeq
<1>2. Start = [error |-> None, cursor |-> 4, segments |-> none]
  BY <1>1 DEF Start, CrlHeaderLen
<1>3. PICK q \in ParseState : q = Start /\ q.error = None /\ q.cursor = 4 /\ q.segments = none
  BY <1>2 DEF ParseState
<1>4. EndOfSegment(none, 0) = 4
  <2>1. PICK ends : AreEnds(ends, none, 0)
    <3>1. 0 \in Nat /\ \A k \in 1..0 : none[k].segment_size \in Nat
      OBVIOUS
    <3> QED
      BY <3>1, EndsExist
  <2>2. 0 \in 0..0 /\ 0 \in Nat
    OBVIOUS
  <2>3. EndOfSegment(none, 0) = ends[0]
    BY <2>1, <2>2, EndsAre
  <2> QED
    BY <2>1, <2>3 DEF AreEnds
<1>5. Layout(bytes, none)
  BY <1>1 DEF Layout
<1> QED
  BY <1>1, <1>3, <1>4, <1>5 DEF Parsing

LEMMA ParseExists ==
    ASSUME NEW bytes \in Seq(Cell), 4 <= Len(bytes)
    PROVE  bytes[4] \in Nat /\ \E f : IsParse(bytes, bytes[4], f) /\ ParseSegments(bytes) = f[bytes[4]]
<1> DEFINE N == bytes[4]
           T == Parsing(bytes)
           F(f) == [n \in 0..N |-> IF n = 0 THEN Start ELSE ParseSegment(bytes, f[n - 1])]
           G == [n \in 1..N |-> [p \in T |-> ParseSegment(bytes, p)]]
           upto == CHOOSE f : f = F(f)
<1>1. N \in Nat
  <2>1. \A i \in 1..Len(bytes) : bytes[i] \in Cell
    BY ElementOfSeq
  <2>2. 4 \in 1..Len(bytes) /\ Cell \subseteq Nat
    BY DEF Cell, Nibble
  <2> QED
    BY <2>1, <2>2
<1>2. Start \in T
  BY StartIsParsing
<1>3. \A p \in T : ParseSegment(bytes, p) \in T
  BY ParseStep DEF Parsed
<1> HIDE DEF N, T
<1>4. \E f : f = F(f)
  <2>1. G \in [1..N -> [T -> T]]
    BY <1>3
  <2> HIDE DEF G
  <2>2. PICK f \in [0..N -> T] : IsRecursion(f, N, Start, G)
    BY <1>1, <1>2, <2>1, RecursionExists
  <2>3. ASSUME NEW n \in 0..N, n # 0 PROVE G[n][f[n - 1]] = ParseSegment(bytes, f[n - 1])
    <3>1. n \in 1..N /\ n - 1 \in 0..N
      BY <1>1, <2>3
    <3>2. f[n - 1] \in T
      BY <2>2, <3>1
    <3> QED
      BY <3>1, <3>2 DEF G
  <2>4. f = [n \in 0..N |-> IF n = 0 THEN Start ELSE ParseSegment(bytes, f[n - 1])]
    BY <2>2, <2>3 DEF IsRecursion
  <2> QED
    BY <2>4
<1>5. upto = F(upto)
  <2> HIDE DEF F
  <2> QED
    BY <1>4
<1>6. \A n \in 0..N : upto[n] = IF n = 0 THEN Start ELSE ParseSegment(bytes, upto[n - 1])
  <2> HIDE DEF upto
  <2> QED
    BY <1>5
<1>7. ParseSegments(bytes) = upto[N]
  BY DEF ParseSegments, Start, N
<1> HIDE DEF upto
<1>8. upto[0] = Start
  BY <1>1, <1>6
<1>9. \A n \in 1..N : upto[n] = ParseSegment(bytes, upto[n - 1])
  <2>1. \A n \in 1..N : n \in 0..N /\ n # 0
    BY <1>1
  <2> QED
    BY <1>6, <2>1
<1> DEFINE S == {n \in Nat : n <= N => upto[n] \in T}
<1>10. 0 \in S
  BY <1>2, <1>8
<1>11. ASSUME NEW n \in S PROVE n + 1 \in S
  <2>1. SUFFICES ASSUME n + 1 <= N PROVE upto[n + 1] \in T
    OBVIOUS
  <2>2. n + 1 \in 1..N /\ (n + 1) - 1 = n /\ upto[n] \in T
    BY <1>1, <2>1
  <2> QED
    BY <1>3, <1>9, <2>2
<1>12. S = Nat
  <2>1. S \subseteq Nat
    OBVIOUS
  <2> HIDE DEF S
  <2> QED
    BY <1>10, <1>11, <2>1, SetInduction
<1>13. \A n \in 0..N : upto[n] \in T
  <2>1. \A n \in 0..N : n \in S /\ n <= N
    BY <1>1, <1>12
  <2> QED
    BY <2>1
<1>14. IsParse(bytes, N, upto)
  BY <1>8, <1>9, <1>13 DEF IsParse, T
<1> QED
  BY <1>1, <1>7, <1>14 DEF N
\* A parse without an error had none before, and went forward.
ParsedSoFar(f, N) ==
    \A n \in 0..N : /\ f[n].error = None /\ f[n].cursor \in Nat /\ f[n].cursor <= f[N].cursor
                    /\ Len(f[n].segments) = n

LEMMA ParseSoFar ==
    ASSUME NEW bytes \in Seq(Cell), NEW N \in Nat, NEW f, IsParse(bytes, N, f), f[N].error = None
    PROVE  ParsedSoFar(f, N)
<1>1. \A n \in 0..N : f[n].cursor \in Nat
  BY DEF IsParse, Parsing, ParseState
<1>2. \A n \in 1..N : Parsed(bytes, f[n - 1], f[n])
  <2>1. ASSUME NEW n \in 1..N PROVE Parsed(bytes, f[n - 1], f[n])
    <3>1. n - 1 \in 0..N
      OBVIOUS
    <3>2. f[n - 1] \in Parsing(bytes) /\ f[n] = ParseSegment(bytes, f[n - 1])
      BY <3>1 DEF IsParse
    <3> QED
      BY <3>2, ParseStep
  <2> QED
    BY <2>1
<1> DEFINE S == {i \in Nat : i <= N => f[N - i].error = None /\ f[N - i].cursor <= f[N].cursor}
<1>3. 0 \in S
  <2>1. N - 0 = N /\ N \in 0..N
    OBVIOUS
  <2>2. PICK c \in Nat : c = f[N].cursor
    BY <1>1, <2>1
  <2> QED
    BY <2>1, <2>2
<1>4. ASSUME NEW i \in S PROVE i + 1 \in S
  <2>1. SUFFICES ASSUME i + 1 <= N
                 PROVE  f[N - (i + 1)].error = None /\ f[N - (i + 1)].cursor <= f[N].cursor
    OBVIOUS
  <2>2. PICK n \in 1..N : n = N - i /\ n - 1 = N - (i + 1) /\ n - 1 \in 0..N /\ n \in 0..N /\ N \in 0..N
    <3>1. i \in Nat
      OBVIOUS
    <3> HIDE DEF S
    <3> QED
      BY <2>1, <3>1
  <2>3. f[n].error = None /\ f[n].cursor <= f[N].cursor
    BY <2>1, <2>2
  <2>4. f[n - 1].error = None /\ f[n - 1].cursor + SizeLen <= f[n].cursor
    BY <1>2, <2>3 DEF Parsed
  <2>5. PICK a \in Nat, b \in Nat, c \in Nat :
           a = f[n - 1].cursor /\ b = f[n].cursor /\ c = f[N].cursor
    BY <1>1, <2>2
  <2>6. a <= c
    <3>1. a + 2 <= b
      BY <2>4, <2>5 DEF SizeLen
    <3>2. b <= c
      BY <2>3, <2>5
    <3>3. a \in Nat /\ b \in Nat /\ c \in Nat
      BY <2>5
    <3> QED
      BY <3>1, <3>2, <3>3
  <2> QED
    BY <2>2, <2>4, <2>5, <2>6
<1>5. S = Nat
  <2>1. S \subseteq Nat
    OBVIOUS
  <2> HIDE DEF S
  <2> QED
    BY <1>3, <1>4, <2>1, SetInduction
<1>6. ASSUME NEW n \in 0..N PROVE f[n].error = None /\ f[n].cursor <= f[N].cursor
  <2>1. PICK i \in Nat : i = N - n /\ i <= N /\ N - i = n
    OBVIOUS
  <2>2. i \in S
    BY <1>5
  <2> QED
    BY <2>1, <2>2
<1> DEFINE L == {n \in Nat : n <= N => Len(f[n].segments) = n}
<1>7. 0 \in L
  BY DEF IsParse, Start
<1>8. ASSUME NEW n \in L PROVE n + 1 \in L
  <2>1. SUFFICES ASSUME n + 1 <= N PROVE Len(f[n + 1].segments) = n + 1
    OBVIOUS
  <2>2. n + 1 \in 1..N /\ (n + 1) - 1 = n /\ n + 1 \in 0..N /\ Len(f[n].segments) = n
    BY <2>1
  <2>3. f[n + 1].error = None
    BY <1>6, <2>2
  <2>4. Parsed(bytes, f[n], f[n + 1])
    BY <1>2, <2>2
  <2> QED
    BY <2>2, <2>3, <2>4 DEF Parsed
<1>9. L = Nat
  <2>1. L \subseteq Nat
    OBVIOUS
  <2> HIDE DEF L
  <2> QED
    BY <1>7, <1>8, <2>1, SetInduction
<1>10. ASSUME NEW n \in 0..N PROVE Len(f[n].segments) = n
  <2>1. n \in L /\ n <= N
    BY <1>9
  <2> QED
    BY <2>1
<1> QED
  BY <1>1, <1>6, <1>10 DEF ParsedSoFar

\* Two files that are the same as far as the segment goes.
Agree(s, t, m) == m <= Len(s) /\ m <= Len(t) /\ \A i \in 1..m : s[i] = t[i]

SameRange(s, t, lo, hi) == SubSeq(s, lo + 1, hi) = SubSeq(t, lo + 1, hi)

LEMMA AgreeingParts ==
    ASSUME NEW s \in Seq(Cell), NEW t \in Seq(Cell), NEW m \in Nat, Agree(s, t, m),
           NEW lo \in Nat, NEW hi \in Nat, lo <= hi, hi <= m
    PROVE  SameRange(s, t, lo, hi)
<1>1. hi <= Len(s) /\ hi <= Len(t)
  BY DEF Agree
<1>2. ASSUME NEW i \in (lo + 1)..hi PROVE s[i] = t[i]
  <2>1. i \in 1..m
    OBVIOUS
  <2> QED
    BY <2>1 DEF Agree
<1> QED
  BY <1>1, <1>2, SamePart DEF SameRange

SameTurn(bytes, other, p) == ParseSegment(other, p) = ParseSegment(bytes, p)

LEMMA SameStep ==
    ASSUME NEW bytes \in Seq(Cell), NEW other \in Seq(Cell), NEW p \in Parsing(bytes),
           NEW m \in Nat, Agree(bytes, other, m),
           ParseSegment(bytes, p).error = None, ParseSegment(bytes, p).cursor <= m
    PROVE  SameTurn(bytes, other, p)
<1> DEFINE q == ParseSegment(bytes, p)
<1>1. Parsed(bytes, p, q) /\ q.error = None /\ q.cursor <= m
  BY ParseStep
<1> HIDE DEF q
<1>2. p.error = None /\ Accepts(bytes, p.cursor) /\ q = Accepted(bytes, p)
  BY <1>1 DEF Parsed
<1>3. PICK c \in Nat : c = p.cursor
  BY DEF Parsing, ParseState
<1>4. PICK size \in Nat :
         size = SizeAt(bytes, c) /\ IsNewSegment(bytes, c, size)
           /\ c + SizeLen <= c + size /\ c + size <= Len(bytes)
  BY <1>2, <1>3, AcceptedSegment
<1>5. PICK hi \in Nat : hi = c + size /\ hi = q.cursor /\ hi <= m
  BY <1>1, <1>2, <1>3, <1>4 DEF Accepted
<1>6. SizeLen = 2 /\ SigLen \in Nat
  BY CrlAssumption DEF SizeLen
<1>7. SizeAt(other, c) = size
  <2>1. c + 1 \in 1..m /\ c + 2 \in 1..m
    BY <1>4, <1>5, <1>6
  <2>2. bytes[c + 1] = other[c + 1] /\ bytes[c + 2] = other[c + 2]
    BY <2>1 DEF Agree
  <2> QED
    BY <1>4, <2>2 DEF SizeAt
<1>8. m <= Len(other) /\ m <= Len(bytes) /\ Len(other) \in Nat /\ Len(bytes) \in Nat
  BY DEF Agree
<1>9. Accepts(other, c)
  <2>1. ~(c + SizeLen > Len(other)) /\ ~(c + size > Len(other))
    BY <1>4, <1>5, <1>6, <1>8
  <2> QED
    BY <1>2, <1>3, <1>4, <1>7, <2>1 DEF Accepts
<1>10. NewSegment(other, c, size) = NewSegment(bytes, c, size)
  <2>1. LaidOut(bytes, NewSegment(bytes, c, size), c, hi)
    BY <1>4, <1>5 DEF IsNewSegment
  <2>2. PICK start \in Nat, signature \in Nat :
           start = c + SizeLen /\ signature = hi - SigLen /\ signature = c + size - SigLen
             /\ start <= signature /\ signature <= hi
    BY <1>5, <1>6, <2>1 DEF LaidOut
  <2>3. signature <= m
    BY <1>5, <2>2
  <2>4. SameRange(bytes, other, start, signature) /\ SameRange(bytes, other, signature, hi)
    <3>1. start \in Nat /\ signature \in Nat /\ hi \in Nat /\ hi <= m
          /\ start <= signature /\ signature <= hi
      BY <1>5, <2>2
    <3> QED
      BY <2>3, <3>1, AgreeingParts, Zenon
  <2>5. SubSeq(bytes, start + 1, signature) = SubSeq(other, start + 1, signature)
        /\ SubSeq(bytes, signature + 1, hi) = SubSeq(other, signature + 1, hi)
    BY <2>4 DEF SameRange
  <2> QED
    BY <1>5, <2>2, <2>5 DEF NewSegment
<1>11. ParseSegment(other, p) = Accepted(other, p)
  BY <1>2, <1>3, <1>9, StepIs
<1>12. Accepted(other, p) = Accepted(bytes, p)
  BY <1>3, <1>4, <1>7, <1>10 DEF Accepted
<1> QED
  BY <1>2, <1>11, <1>12 DEF SameTurn, q

\* Two files that are the same as far as one of them is parsed.
LEMMA SameParse ==
    ASSUME NEW bytes \in Seq(Cell), NEW other \in Seq(Cell), 4 <= Len(bytes),
           ParseSegments(bytes).error = None,
           NEW m \in Nat, m = ParseSegments(bytes).cursor, Agree(bytes, other, m)
    PROVE  /\ 4 <= m /\ ParseSegments(other) = ParseSegments(bytes)
           /\ Len(ParseSegments(bytes).segments) = bytes[4]
           /\ ParseSegments(bytes) \in Parsing(bytes)
<1>0. PICK N \in Nat : N = bytes[4]
  BY ParseExists
<1>1. PICK f : N = bytes[4] /\ IsParse(bytes, N, f) /\ ParseSegments(bytes) = f[N]
  BY <1>0, ParseExists
<1>2. ParsedSoFar(f, N)
  BY <1>1, ParseSoFar
<1>3. N \in 0..N /\ f[N] \in Parsing(bytes) /\ f[N].error = None /\ f[N].cursor = m
      /\ Len(f[N].segments) = N
  BY <1>1, <1>2 DEF IsParse, ParsedSoFar
<1>4. 4 <= m
  BY <1>3 DEF Parsing
<1>5. other[4] = N /\ 4 <= Len(other)
  BY <1>1, <1>4 DEF Agree
<1>6. PICK g : IsParse(other, N, g) /\ ParseSegments(other) = g[N]
  BY <1>5, ParseExists
<1> DEFINE S == {n \in Nat : n <= N => g[n] = f[n]}
<1>7. 0 \in S
  BY <1>1, <1>6 DEF IsParse
<1>8. ASSUME NEW n \in S PROVE n + 1 \in S
  <2>1. SUFFICES ASSUME n + 1 <= N PROVE g[n + 1] = f[n + 1]
    OBVIOUS
  <2>2. n + 1 \in 1..N /\ (n + 1) - 1 = n /\ n + 1 \in 0..N /\ n \in 0..N /\ g[n] = f[n]
    BY <2>1
  <2>3. f[n] \in Parsing(bytes) /\ f[n + 1] = ParseSegment(bytes, f[n])
        /\ g[n + 1] = ParseSegment(other, f[n])
    BY <1>1, <1>6, <2>2 DEF IsParse
  <2>4. f[n + 1].error = None /\ f[n + 1].cursor <= m
    BY <1>2, <1>3, <2>2 DEF ParsedSoFar
  <2>5. PICK q : q = f[n + 1]
    OBVIOUS
  <2>6. ParseSegment(other, f[n]) = q
    <3>1. PICK p \in Parsing(bytes) : p = f[n] /\ q = ParseSegment(bytes, p)
      BY <2>3, <2>5
    <3>2. ParseSegment(bytes, p).error = None /\ ParseSegment(bytes, p).cursor <= m
      BY <2>4, <2>5, <3>1
    <3>3. SameTurn(bytes, other, p)
      BY <3>2, SameStep, Zenon
    <3> QED
      BY <3>1, <3>3 DEF SameTurn
  <2> QED
    BY <2>3, <2>5, <2>6
<1>9. S = Nat
  <2>1. S \subseteq Nat
    OBVIOUS
  <2> HIDE DEF S
  <2> QED
    BY <1>7, <1>8, <2>1, SetInduction
<1>10. g[N] = f[N]
  <2>1. N \in S /\ N <= N
    BY <1>9
  <2> QED
    BY <2>1
<1> QED
  BY <1>1, <1>3, <1>4, <1>6, <1>10
-----------------------------------------------------------------------------
(* Written again *)

\* What is parsed of a segment is, written again, its cells.
IsWrittenAgain(bytes, s, lo, hi) ==
    /\ Unsigned(s) \in Seq(Cell) /\ s.signature \in Seq(Cell)
    /\ Unsigned(s) = SubSeq(bytes, lo + 1, hi - SigLen)
    /\ s.signature = SubSeq(bytes, (hi - SigLen) + 1, hi)
    /\ Unsigned(s) \o s.signature = SubSeq(bytes, lo + 1, hi)

LEMMA SegmentWrittenAgain ==
    ASSUME NEW bytes \in Seq(Cell), NEW s \in SegmentType, NEW lo, NEW hi,
           LaidOut(bytes, s, lo, hi)
    PROVE  IsWrittenAgain(bytes, s, lo, hi)
<1>1. SizeLen = 2 /\ SigLen \in Nat
  BY CrlAssumption DEF SizeLen
<1>2. PICK a \in Nat, start \in Nat, signature \in Nat, end \in Nat :
         a = lo /\ start = lo + SizeLen /\ signature = hi - SigLen /\ end = hi
  <2>1. lo \in Nat /\ hi \in Nat /\ hi - SigLen \in Nat
    BY DEF LaidOut
  <2>2. lo + SizeLen \in Nat
    BY <1>1, <2>1
  <2> QED
    BY <2>1, <2>2
<1>3. a <= start /\ start <= signature /\ signature <= end /\ end <= Len(bytes)
      /\ (signature - start) % SlotLen = 0
  BY <1>1, <1>2 DEF LaidOut
<1>4. PICK cells \in Seq(Cell), K \in Nat :
         cells = SubSeq(bytes, start + 1, signature) /\ Len(cells) = K * 5
  <2>1. signature <= Len(bytes)
    BY <1>2, <1>3
  <2>2. AreWholeSlots(SubSeq(bytes, start + 1, signature))
    BY <1>2, <1>3, <2>1, WholeSlots, Zenon
  <2> QED
    BY <2>2 DEF AreWholeSlots
<1>5. IsRecordSet(RecordSet(cells), cells, Slots(cells))
  BY <1>4, RecordSetOfSlots
<1>6. s.records = RecordSet(cells) /\ Digits(s.segment_size) = SubSeq(bytes, a + 1, start)
      /\ s.signature = SubSeq(bytes, signature + 1, end)
  BY <1>2, <1>4 DEF LaidOut
<1>7. Unsigned(s) = SubSeq(bytes, a + 1, start) \o cells
  <2>1. Records(s) = Concat(Encodings(s.records))
    BY DEF Records, Encodings
  <2> QED
    BY <1>5, <1>6, <2>1 DEF Unsigned, IsRecordSet
<1>8. Unsigned(s) = SubSeq(bytes, a + 1, signature)
  <2>1. signature <= Len(bytes)
    BY <1>2, <1>3
  <2>2. Adjoin(bytes, a, start, signature)
    BY <1>2, <1>3, <2>1, Adjoining, Zenon
  <2> QED
    BY <1>4, <1>7, <2>2 DEF Adjoin
<1>9. SubSeq(bytes, a + 1, signature) \o SubSeq(bytes, signature + 1, end) = SubSeq(bytes, a + 1, end)
  <2>1. a <= signature
    BY <1>2, <1>3
  <2>2. Adjoin(bytes, a, signature, end)
    BY <1>2, <1>3, <2>1, Adjoining, Zenon
  <2> QED
    BY <2>2 DEF Adjoin
<1>10. SubSeq(bytes, a + 1, signature) \in Seq(Cell)
  <2>1. a <= signature /\ signature <= Len(bytes)
    BY <1>2, <1>3
  <2> QED
    BY <1>2, <2>1, Part, Zenon
<1> QED
  BY <1>2, <1>6, <1>8, <1>9, <1>10 DEF IsWrittenAgain, SegmentType

\* The ends of segments that are laid out.
LEMMA EndsOfLayout ==
    ASSUME NEW bytes \in Seq(Cell), NEW segments \in Seq(SegmentType), Layout(bytes, segments)
    PROVE  /\ EndOfSegment(segments, 0) = 4
           /\ \A k \in 1..Len(segments) :
                 /\ EndOfSegment(segments, k - 1) \in Nat /\ EndOfSegment(segments, k) \in Nat
                 /\ EndOfSegment(segments, k - 1) <= EndOfSegment(segments, k) - SigLen
                 /\ EndOfSegment(segments, k) - SigLen \in Nat
                 /\ EndOfSegment(segments, k) <= Len(bytes)
<1>1. EndOfSegment(segments, 0) = 4
  <2>1. PICK ends : AreEnds(ends, segments, 0)
    <3>1. 0 \in Nat /\ \A k \in 1..0 : segments[k].segment_size \in Nat
      OBVIOUS
    <3> QED
      BY <3>1, EndsExist
  <2>2. 0 \in 0..0 /\ 0 \in Nat
    OBVIOUS
  <2>3. EndOfSegment(segments, 0) = ends[0]
    BY <2>1, <2>2, EndsAre
  <2> QED
    BY <2>1, <2>3 DEF AreEnds
<1>2. ASSUME NEW k \in 1..Len(segments)
      PROVE  /\ EndOfSegment(segments, k - 1) \in Nat /\ EndOfSegment(segments, k) \in Nat
             /\ EndOfSegment(segments, k - 1) <= EndOfSegment(segments, k) - SigLen
             /\ EndOfSegment(segments, k) - SigLen \in Nat
             /\ EndOfSegment(segments, k) <= Len(bytes)
  <2>1. PICK lo, hi : lo = EndOfSegment(segments, k - 1) /\ hi = EndOfSegment(segments, k)
    OBVIOUS
  <2>2. LaidOut(bytes, segments[k], lo, hi)
    BY <2>1 DEF Layout
  <2>3. lo \in Nat /\ hi \in Nat /\ lo + 2 <= hi - SigLen /\ hi - SigLen \in Nat /\ hi <= Len(bytes)
    BY <2>2 DEF LaidOut, SizeLen
  <2>4. lo <= hi - SigLen
    BY <2>3
  <2> QED
    BY <2>1, <2>3, <2>4
<1> QED
  BY <1>1, <1>2

\* Segments one after the other.
Full(segments, k) == [n \in 1..k |-> Unsigned(segments[n]) \o segments[n].signature]

LEMMA FullSegments ==
    ASSUME NEW bytes \in Seq(Cell), 4 <= Len(bytes), NEW segments \in Seq(SegmentType),
           Layout(bytes, segments), NEW k \in 0..Len(segments)
    PROVE  /\ Full(segments, k) \in Seq(Seq(Cell)) /\ Len(Full(segments, k)) = k
           /\ SubSeq(bytes, 1, 4) \o Concat(Full(segments, k)) =
                 SubSeq(bytes, 1, EndOfSegment(segments, k))
<1>1. ASSUME NEW n \in 1..Len(segments)
      PROVE  IsWrittenAgain(bytes, segments[n], EndOfSegment(segments, n - 1),
                            EndOfSegment(segments, n))
  <2>1. segments[n] \in SegmentType
    BY ElementOfSeq
  <2> QED
    BY <2>1, SegmentWrittenAgain DEF Layout
<1>2. \A n \in 1..Len(segments) : Unsigned(segments[n]) \o segments[n].signature \in Seq(Cell)
  <2>1. ASSUME NEW n \in 1..Len(segments)
        PROVE  Unsigned(segments[n]) \o segments[n].signature \in Seq(Cell)
    <3>1. PICK x \in Seq(Cell), y \in Seq(Cell) : x = Unsigned(segments[n]) /\ y = segments[n].signature
      BY <1>1 DEF IsWrittenAgain
    <3> QED
      BY <3>1, ConcatProperties
  <2> QED
    BY <2>1
<1>3. ASSUME NEW m \in 0..Len(segments)
      PROVE  Full(segments, m) \in Seq(Seq(Cell)) /\ Len(Full(segments, m)) = m
  <2>1. \A n \in 1..m : Unsigned(segments[n]) \o segments[n].signature \in Seq(Cell)
    BY <1>2
  <2> QED
    BY <2>1 DEF Full
<1> DEFINE Is(m) == SubSeq(bytes, 1, 4) \o Concat(Full(segments, m)) =
                      SubSeq(bytes, 1, EndOfSegment(segments, m))
           S == {m \in Nat : m <= Len(segments) => Is(m)}
<1>4. SubSeq(bytes, 1, 4) \in Seq(Cell)
  <2>1. 4 \in Nat /\ 4 <= 4
    OBVIOUS
  <2> QED
    BY <2>1, Prefix, Zenon
<1>5. Is(0)
  <2>1. Concat(Full(segments, 0)) = <<>>
    <3>1. 0 \in 0..Len(segments)
      OBVIOUS
    <3>2. PICK w \in Seq(Seq(Cell)) : w = Full(segments, 0) /\ Len(w) = 0
      BY <1>3, <3>1
    <3> QED
      BY <3>2, ConcatBase
  <2>2. EndOfSegment(segments, 0) = 4
    BY EndsOfLayout
  <2> QED
    BY <1>4, <2>1, <2>2, ConcatEmptySeq
<1>6. ASSUME NEW m \in Nat, m + 1 <= Len(segments), Is(m) PROVE Is(m + 1)
  <2>1. m + 1 \in 1..Len(segments) /\ (m + 1) - 1 = m /\ m \in 0..Len(segments)
        /\ m + 1 \in 0..Len(segments)
    BY <1>6
  <2>2. PICK w \in Seq(Seq(Cell)), v \in Seq(Seq(Cell)) :
           w = Full(segments, m) /\ Len(w) = m /\ v = Full(segments, m + 1) /\ Len(v) = m + 1
    BY <1>3, <2>1
  <2>3. /\ \A n \in 1..m : v[n] = w[n]
        /\ v[m + 1] = Unsigned(segments[m + 1]) \o segments[m + 1].signature
    <3>1. \A n \in 1..m : n \in 1..(m + 1)
      BY <1>6
    <3>2. m + 1 \in 1..(m + 1)
      BY <1>6
    <3>3. /\ w = [n \in 1..m |-> Unsigned(segments[n]) \o segments[n].signature]
          /\ v = [n \in 1..(m + 1) |-> Unsigned(segments[n]) \o segments[n].signature]
      BY <2>2 DEF Full
    <3> QED
      BY <3>1, <3>2, <3>3, Zenon
  <2>4. Concat(v) = Concat(w) \o v[m + 1]
    BY <2>2, <2>3, ConcatStep, ZenonT(30)
  <2>5. PICK lo \in Nat, hi \in Nat :
           /\ lo = EndOfSegment(segments, m) /\ hi = EndOfSegment(segments, m + 1)
           /\ lo <= hi - SigLen /\ hi <= Len(bytes)
    BY <2>1, EndsOfLayout
  <2>6. v[m + 1] = SubSeq(bytes, lo + 1, hi) /\ v[m + 1] \in Seq(Cell)
    <3>1. IsWrittenAgain(bytes, segments[m + 1], lo, hi)
      BY <1>1, <2>1, <2>5
    <3> QED
      BY <1>2, <2>1, <2>3, <3>1 DEF IsWrittenAgain
  <2>7. PICK a \in Seq(Cell), b \in Seq(Cell), c \in Seq(Cell) :
           a = SubSeq(bytes, 1, 4) /\ b = Concat(w) /\ c = v[m + 1]
    BY <1>4, <2>6, ConcatBase
  <2>8. a \o (b \o c) = (a \o b) \o c
    <3>1. EitherWay(a, b, c)
      BY <2>7, EitherGrouping, Zenon
    <3> QED
      BY <3>1 DEF EitherWay
  <2>9. SubSeq(bytes, 1, lo) \o SubSeq(bytes, lo + 1, hi) = SubSeq(bytes, 1, hi)
    <3>1. lo <= hi
      BY <2>5, CrlAssumption, SMTT(30)
    <3> QED
      BY <2>5, <3>1, Prefix, ZenonT(30)
  <2> QED
    BY <1>6, <2>2, <2>4, <2>5, <2>6, <2>7, <2>8, <2>9
<1> HIDE DEF Is
<1>7. S = Nat
  <2>1. 0 \in S
    BY <1>5
  <2>2. \A m \in S : m + 1 \in S
    BY <1>6
  <2>3. S \subseteq Nat
    OBVIOUS
  <2> HIDE DEF S
  <2> QED
    BY <2>1, <2>2, <2>3, SetInduction
<1>8. Is(k)
  <2>1. k \in S /\ k <= Len(segments)
    BY <1>7
  <2> QED
    BY <2>1
<1> QED
  BY <1>3, <1>8 DEF Is

\* What a parsed list has of its file.
IsListOf(list, bytes) ==
    /\ bytes \in Seq(Cell) /\ 4 <= Len(bytes)
    /\ list.segments \in Seq(SegmentType) /\ Layout(bytes, list.segments)
    /\ Header(list) = SubSeq(bytes, 1, 4)

LEMMA ListWrittenAgain ==
    ASSUME NEW list, NEW bytes, IsListOf(list, bytes)
    PROVE  CrlToBytes(list) = SubSeq(bytes, 1, EndOfSegment(list.segments, Len(list.segments)))
<1>1. PICK segments \in Seq(SegmentType) : segments = list.segments
  BY DEF IsListOf
<1>2. DOMAIN segments = 1..Len(segments) /\ Len(segments) \in 0..Len(segments)
  OBVIOUS
<1>3. CrlToBytes(list) = SubSeq(bytes, 1, 4) \o Concat(Full(segments, Len(segments)))
  BY <1>1, <1>2 DEF CrlToBytes, Full, IsListOf
<1> QED
  BY <1>1, <1>2, <1>3, FullSegments DEF IsListOf

LEMMA SignedRangeOfList ==
    ASSUME NEW list, NEW bytes, IsListOf(list, bytes), NEW k \in 1..Len(list.segments)
    PROVE  SignedRange(list, k) = SubSeq(bytes, 1, EndOfSegment(list.segments, k) - SigLen)
<1>1. PICK segments \in Seq(SegmentType) : segments = list.segments /\ Layout(bytes, segments)
  BY DEF IsListOf
<1>2. bytes \in Seq(Cell) /\ 4 <= Len(bytes) /\ Header(list) = SubSeq(bytes, 1, 4)
  BY DEF IsListOf
<1>3. PICK m \in Nat : m = k - 1 /\ m + 1 = k /\ m \in 0..Len(segments) /\ k \in 1..Len(segments)
  BY <1>1
<1>4. PICK w \in Seq(Seq(Cell)) :
         /\ w = Full(segments, m) /\ Len(w) = m
         /\ SubSeq(bytes, 1, 4) \o Concat(w) = SubSeq(bytes, 1, EndOfSegment(segments, m))
  BY <1>1, <1>2, <1>3, FullSegments
<1>5. PICK lo \in Nat, hi \in Nat, signature \in Nat :
         /\ lo = EndOfSegment(segments, m) /\ hi = EndOfSegment(segments, k)
         /\ signature = hi - SigLen /\ lo <= signature /\ hi <= Len(bytes)
  BY <1>1, <1>2, <1>3, EndsOfLayout
<1>6. Unsigned(segments[k]) = SubSeq(bytes, lo + 1, signature) /\ Unsigned(segments[k]) \in Seq(Cell)
  <2>1. segments[k] \in SegmentType
    BY <1>3, ElementOfSeq
  <2>2. LaidOut(bytes, segments[k], lo, hi)
    BY <1>1, <1>3, <1>5 DEF Layout
  <2>3. IsWrittenAgain(bytes, segments[k], lo, hi)
    BY <1>2, <2>1, <2>2, SegmentWrittenAgain
  <2> QED
    BY <1>5, <2>3 DEF IsWrittenAgain
<1> DEFINE v == [n \in 1..k |-> Unsigned(segments[n])
                                  \o (IF n = k THEN <<>> ELSE segments[n].signature)]
<1>7. v[k] = Unsigned(segments[k])
  BY <1>6, ConcatEmptySeq
<1>8. \A n \in 1..m : v[n] = w[n] /\ w[n] \in Seq(Cell)
  <2>1. \A n \in 1..m : n \in 1..k /\ n # k
    BY <1>3
  <2>2. \A n \in 1..m : v[n] = w[n]
    BY <1>4, <2>1 DEF Full
  <2>3. \A n \in 1..m : w[n] \in Seq(Cell)
    BY <1>4, ElementOfSeq
  <2> QED
    BY <2>2, <2>3
<1>9. v \in Seq(Seq(Cell)) /\ Len(v) = k
  <2>1. ASSUME NEW n \in 1..k PROVE v[n] \in Seq(Cell)
    <3>1. n = k \/ n \in 1..m
      BY <1>3
    <3> HIDE DEF v
    <3> QED
      BY <1>6, <1>7, <1>8, <3>1
  <2> QED
    BY <1>3, <2>1
<1>10. SignedRange(list, k) = SubSeq(bytes, 1, 4) \o Concat(v)
  BY <1>1, <1>2 DEF SignedRange
<1> HIDE DEF v
<1>11. PICK more \in Seq(Seq(Cell)) : more = v /\ Len(more) = m + 1 /\ more[m + 1] = Unsigned(segments[k])
  BY <1>3, <1>7, <1>9
<1>12. Concat(more) = Concat(w) \o more[m + 1]
  BY <1>4, <1>8, <1>11, ConcatStep, ZenonT(40)
<1>13. PICK a \in Seq(Cell), b \in Seq(Cell), c \in Seq(Cell) :
          a = SubSeq(bytes, 1, 4) /\ b = Concat(w) /\ c = Unsigned(segments[k])
  <2>1. SubSeq(bytes, 1, 4) \in Seq(Cell)
    <3>1. 4 \in Nat /\ 4 <= 4
      OBVIOUS
    <3> QED
      BY <1>2, <3>1, Prefix, Zenon
  <2> QED
    BY <1>6, <2>1, ConcatBase
<1>14. a \o (b \o c) = (a \o b) \o c
  <2>1. EitherWay(a, b, c)
    BY <1>13, EitherGrouping, Zenon
  <2> QED
    BY <2>1 DEF EitherWay
<1>15. SubSeq(bytes, 1, lo) \o SubSeq(bytes, lo + 1, signature) = SubSeq(bytes, 1, signature)
  <2>1. signature <= Len(bytes)
    BY <1>5, CrlAssumption, SMTT(30)
  <2>2. Extends(bytes, lo, signature)
    BY <1>2, <1>5, <2>1, Extending, Zenon
  <2> QED
    BY <2>2 DEF Extends
<1> QED
  BY <1>1, <1>4, <1>5, <1>6, <1>10, <1>11, <1>12, <1>13, <1>14, <1>15
-----------------------------------------------------------------------------
(* Lists *)

\* A list that was parsed, and what of it was parsed from which cells.
Good(bytes, list) ==
    /\ IsListOf(list, bytes)
    /\ list.error = None /\ ParseSegments(bytes).error = None
    /\ list.segments = ParseSegments(bytes).segments
    /\ ParseSegments(bytes).cursor \in Nat
    /\ ParseSegments(bytes).cursor = EndOfSegment(list.segments, Len(list.segments))
    /\ Len(list.segments) = bytes[4] /\ Len(list.segments) \in Nat \ {0}
    /\ IsZero(From(bytes, ParseSegments(bytes).cursor + 1))

LEMMA NoErrors ==
    None # "truncated" /\ None # "invalid" /\ None # "oversized"
BY CrlAssumption DEF Errors

\* The first four cells.
LEMMA HeaderCells ==
    ASSUME NEW bytes \in Seq(Cell), 4 <= Len(bytes)
    PROVE  <<bytes[1], bytes[2], bytes[3], bytes[4]>> = SubSeq(bytes, 1, 4) /\ bytes[4] \in Cell
<1>1. PICK h \in Seq(Cell) : h = SubSeq(bytes, 0 + 1, 4) /\ IsPart(h, bytes, 0, 4)
  <2>1. 0 \in Nat /\ 4 \in Nat /\ 0 <= 4
    OBVIOUS
  <2> QED
    BY <2>1, Part, Zenon
<1>2. Len(h) = 4 /\ \A i \in 1..4 : h[i] = bytes[0 + i]
  BY <1>1 DEF IsPart
<1>3. \A i \in 1..4 : bytes[i] \in Cell
  <2>1. \A i \in 1..4 : i \in 1..Len(bytes)
    OBVIOUS
  <2> QED
    BY <2>1, ElementOfSeq
<1> DEFINE z == <<bytes[1], bytes[2], bytes[3], bytes[4]>>
<1>4. z \in Seq(Cell) /\ Len(z) = 4
  BY <1>3
<1>5. z[1] = bytes[1] /\ z[2] = bytes[2] /\ z[3] = bytes[3] /\ z[4] = bytes[4]
  OBVIOUS
<1> HIDE DEF z
<1>6. ASSUME NEW i \in 1..4 PROVE z[i] = h[i]
  <2>1. i = 1 \/ i = 2 \/ i = 3 \/ i = 4
    OBVIOUS
  <2>2. h[i] = bytes[i]
    BY <1>2
  <2> QED
    BY <1>5, <2>1, <2>2
<1>7. z = h
  BY <1>2, <1>4, <1>6, SameSequence
<1> QED
  BY <1>1, <1>3, <1>7 DEF z

LEMMA ParsedList ==
    ASSUME NEW bytes \in Seq(Cell), ParseCrl(bytes).error = None
    PROVE  Good(bytes, ParseCrl(bytes))
<1>1. ~(Len(bytes) < CrlHeaderLen) /\ bytes[4] # 0
  <2>1. CASE Len(bytes) < CrlHeaderLen
    BY <2>1, NoErrors DEF ParseCrl
  <2>2. CASE ~(Len(bytes) < CrlHeaderLen) /\ bytes[4] = 0
    BY <2>2, NoErrors DEF ParseCrl
  <2> QED
    BY <2>1, <2>2
<1>2. 4 <= Len(bytes)
  BY <1>1 DEF CrlHeaderLen
<1>3. ParseSegments(bytes).error = None
  <2>1. SUFFICES ASSUME ParseSegments(bytes).error # None PROVE FALSE
    OBVIOUS
  <2>2. ParseCrl(bytes) = [error |-> ParseSegments(bytes).error]
    BY <1>1, <2>1 DEF ParseCrl
  <2> QED
    BY <2>1, <2>2
<1>4. IsZero(From(bytes, ParseSegments(bytes).cursor + 1))
  <2>1. SUFFICES ASSUME ~IsZero(From(bytes, ParseSegments(bytes).cursor + 1)) PROVE FALSE
    OBVIOUS
  <2>2. ParseCrl(bytes) = [error |-> "invalid"]
    BY <1>1, <1>3, <2>1 DEF ParseCrl
  <2> QED
    BY <2>2, NoErrors
<1>5. ParseCrl(bytes) =
        [error |-> None, list_type |-> bytes[1], reserved_nibble |-> bytes[2],
         list_version |-> bytes[3], number_of_segments |-> bytes[4],
         segments |-> ParseSegments(bytes).segments]
  BY <1>1, <1>3, <1>4 DEF ParseCrl
<1>6. PICK m \in Nat : m = ParseSegments(bytes).cursor /\ m <= Len(bytes)
  <2>1. PICK f : IsParse(bytes, bytes[4], f) /\ ParseSegments(bytes) = f[bytes[4]] /\ bytes[4] \in Nat
    BY <1>2, ParseExists
  <2>2. ParseSegments(bytes) \in Parsing(bytes)
    BY <2>1 DEF IsParse
  <2> QED
    BY <1>3, <2>2 DEF Parsing, ParseState
<1>7. Agree(bytes, bytes, m)
  BY <1>6 DEF Agree
<1>8. ParseSegments(bytes) \in Parsing(bytes) /\ Len(ParseSegments(bytes).segments) = bytes[4]
  BY <1>2, <1>3, <1>6, <1>7, SameParse
<1>9. bytes[4] \in Nat \ {0}
  <2>1. bytes[4] \in Nat
    BY <1>2, ParseExists
  <2> QED
    BY <1>1, <2>1
<1>10. PICK list : list = ParseCrl(bytes)
  OBVIOUS
<1>11. list.segments = ParseSegments(bytes).segments /\ list.error = None
       /\ Header(list) = <<bytes[1], bytes[2], bytes[3], bytes[4]>>
  BY <1>5, <1>10 DEF Header
<1>12. list.segments \in Seq(SegmentType) /\ Layout(bytes, list.segments)
       /\ m = EndOfSegment(list.segments, Len(list.segments))
  BY <1>3, <1>6, <1>8, <1>11 DEF Parsing, ParseState
<1>13. IsListOf(list, bytes)
  BY <1>2, <1>11, <1>12, HeaderCells DEF IsListOf
<1> QED
  BY <1>3, <1>4, <1>6, <1>8, <1>9, <1>10, <1>11, <1>12, <1>13 DEF Good

\* Two files that are the same up to the end of the list of one of them: the
\* other, if nothing but zeros follows there, is the same list.
LEMMA SameList ==
    ASSUME NEW bytes \in Seq(Cell), NEW other \in Seq(Cell), ParseCrl(bytes).error = None,
           Agree(bytes, other, ParseSegments(bytes).cursor)
    PROVE  /\ ParseSegments(other) = ParseSegments(bytes)
           /\ (IsZero(From(other, ParseSegments(bytes).cursor + 1)) \/ ParseCrl(other).error = None)
                 => ParseCrl(other) = ParseCrl(bytes)
<1>1. Good(bytes, ParseCrl(bytes))
  BY ParsedList
<1>2. PICK m \in Nat : m = ParseSegments(bytes).cursor
  BY <1>1 DEF Good
<1>3. 4 <= Len(bytes) /\ ParseSegments(bytes).error = None /\ bytes[4] # 0
  BY <1>1 DEF Good, IsListOf
<1>4. 4 <= m /\ ParseSegments(other) = ParseSegments(bytes)
  BY <1>2, <1>3, SameParse
<1>5. m <= Len(other) /\ m <= Len(bytes) /\ Len(other) \in Nat /\ Len(bytes) \in Nat
  BY <1>2 DEF Agree
<1>6. other[1] = bytes[1] /\ other[2] = bytes[2] /\ other[3] = bytes[3] /\ other[4] = bytes[4]
  <2>1. 1 \in 1..m /\ 2 \in 1..m /\ 3 \in 1..m /\ 4 \in 1..m
    BY <1>4
  <2> QED
    BY <1>2, <2>1 DEF Agree
<1>7. ~(Len(other) < CrlHeaderLen) /\ ~(Len(bytes) < CrlHeaderLen)
  BY <1>4, <1>5 DEF CrlHeaderLen
<1>8. ASSUME IsZero(From(other, m + 1)) PROVE ParseCrl(other) = ParseCrl(bytes)
  <2>1. IsZero(From(bytes, m + 1))
    BY <1>1, <1>2 DEF Good
  <2> QED
    BY <1>2, <1>3, <1>4, <1>6, <1>7, <1>8, <2>1, Zenon DEF ParseCrl
<1>9. ParseCrl(other).error = None => IsZero(From(other, m + 1))
  BY <1>2, <1>4, ParsedList DEF Good
<1> QED
  BY <1>2, <1>4, <1>8, <1>9
\* The first cells of two files.
LEMMA SameFirst ==
    ASSUME NEW s \in Seq(Cell), NEW t \in Seq(Cell), NEW m \in Nat, NEW n \in Nat,
           m <= Len(s), n <= Len(t), SubSeq(s, 1, m) = SubSeq(t, 1, n)
    PROVE  m = n /\ \A i \in 1..m : s[i] = t[i]
<1>1. PICK a \in Seq(Cell) : a = SubSeq(s, 0 + 1, m) /\ IsPart(a, s, 0, m)
  <2>1. 0 \in Nat /\ 0 <= m
    OBVIOUS
  <2> QED
    BY <2>1, Part, Zenon
<1>2. PICK b \in Seq(Cell) : b = SubSeq(t, 0 + 1, n) /\ IsPart(b, t, 0, n)
  <2>1. 0 \in Nat /\ 0 <= n
    OBVIOUS
  <2> QED
    BY <2>1, Part, Zenon
<1>3. a = b
  BY <1>1, <1>2
<1>4. Len(a) = m /\ \A i \in 1..m : a[i] = s[i]
  BY <1>1 DEF IsPart
<1>5. Len(b) = n /\ \A i \in 1..n : b[i] = t[i]
  BY <1>2 DEF IsPart
<1> QED
  BY <1>3, <1>4, <1>5

\* The same cells of two files.
LEMMA SameThere ==
    ASSUME NEW s \in Seq(Cell), NEW t \in Seq(Cell), NEW lo \in Nat, NEW hi \in Nat,
           lo <= hi, hi <= Len(s), hi <= Len(t), SubSeq(s, lo + 1, hi) = SubSeq(t, lo + 1, hi)
    PROVE  \A i \in (lo + 1)..hi : s[i] = t[i]
<1>1. PICK a \in Seq(Cell) : a = SubSeq(s, lo + 1, hi) /\ IsPart(a, s, lo, hi)
  BY Part, Zenon
<1>2. PICK b \in Seq(Cell) : b = SubSeq(t, lo + 1, hi) /\ IsPart(b, t, lo, hi)
  BY Part, Zenon
<1>3. a = b
  BY <1>1, <1>2
<1>4. ASSUME NEW i \in (lo + 1)..hi PROVE s[i] = t[i]
  <2>1. PICK j \in 1..(hi - lo) : lo + j = i
    <3>1. i - lo \in 1..(hi - lo) /\ lo + (i - lo) = i
      OBVIOUS
    <3> QED
      BY <3>1
  <2>2. a[j] = s[lo + j] /\ b[j] = t[lo + j]
    BY <1>1, <1>2 DEF IsPart
  <2> QED
    BY <1>3, <2>1, <2>2
<1> QED
  BY <1>4

\* What stands before a signature, and the signature: two files that have them
\* in common are the same up to its end.
LEMMA SameSigned ==
    ASSUME NEW s \in Seq(Cell), NEW t \in Seq(Cell), NEW m \in Nat, NEW n \in Nat,
           m + SigLen <= Len(s), n + SigLen <= Len(t), SignedAt(s, m) = SignedAt(t, n)
    PROVE  m = n /\ Agree(s, t, m + SigLen)
<1>1. SigLen \in Nat
  BY CrlAssumption
<1>2. SubSeq(s, 1, m) = SubSeq(t, 1, n) /\ SubSeq(s, m + 1, m + SigLen) = SubSeq(t, n + 1, n + SigLen)
  <2>1. SignedAt(s, m).data = SignedAt(t, n).data /\ SignedAt(s, m).sig = SignedAt(t, n).sig
    OBVIOUS
  <2> QED
    BY <2>1 DEF SignedAt
<1>3. m <= Len(s) /\ n <= Len(t)
  BY <1>1
<1>4. m = n /\ \A i \in 1..m : s[i] = t[i]
  BY <1>2, <1>3, SameFirst
<1>5. PICK hi \in Nat : hi = m + SigLen
  BY <1>1
<1>6. \A i \in (m + 1)..hi : s[i] = t[i]
  <2>1. m <= hi /\ hi <= Len(s) /\ hi <= Len(t)
    BY <1>1, <1>4, <1>5
  <2>2. SubSeq(s, m + 1, hi) = SubSeq(t, m + 1, hi)
    BY <1>2, <1>4, <1>5
  <2> QED
    BY <2>1, <2>2, SameThere
<1>7. \A i \in 1..hi : s[i] = t[i]
  <2>1. \A i \in 1..hi : i \in 1..m \/ i \in (m + 1)..hi
    BY <1>5
  <2> QED
    BY <1>4, <1>6, <2>1
<1> QED
  BY <1>4, <1>5, <1>7 DEF Agree

\* What is checked of a segment is what stands in the file.
LEMMA SegmentSigned ==
    ASSUME NEW list, NEW bytes, IsListOf(list, bytes), NEW k \in 1..Len(list.segments)
    PROVE  /\ [sig |-> list.segments[k].signature, data |-> SignedRange(list, k)] =
                 SignedAt(bytes, EndOfSegment(list.segments, k) - SigLen)
           /\ EndOfSegment(list.segments, k) - SigLen \in Nat
           /\ (EndOfSegment(list.segments, k) - SigLen) + SigLen = EndOfSegment(list.segments, k)
           /\ EndOfSegment(list.segments, k) <= Len(bytes)
<1>1. SignedRange(list, k) = SubSeq(bytes, 1, EndOfSegment(list.segments, k) - SigLen)
  BY SignedRangeOfList
<1>2. PICK lo, hi : lo = EndOfSegment(list.segments, k - 1) /\ hi = EndOfSegment(list.segments, k)
  OBVIOUS
<1>3. LaidOut(bytes, list.segments[k], lo, hi)
  BY <1>2 DEF IsListOf, Layout
<1>4. hi \in Nat /\ hi - SigLen \in Nat /\ SigLen \in Nat /\ hi <= Len(bytes)
      /\ list.segments[k].signature = SubSeq(bytes, (hi - SigLen) + 1, hi)
  BY <1>3, CrlAssumption DEF LaidOut
<1>5. (hi - SigLen) + SigLen = hi
  BY <1>4
<1> QED
  BY <1>1, <1>2, <1>4, <1>5 DEF SignedAt

\* A list whose last signature verifies is one of the AACS LA's.
LEMMA VerifiedList ==
    ASSUME NEW bytes \in Seq(Cell), NEW list, list = ParseCrl(bytes), list.error = None,
           LastSegmentVerifies(list)
    PROVE  \E x \in Crls : list = ParseCrl(x.file) /\ Revokes(list, x)
<1>1. Good(bytes, list)
  BY ParsedList
<1>2. IsListOf(list, bytes) /\ ParseSegments(bytes).cursor = EndOfSegment(list.segments, Len(list.segments))
  BY <1>1 DEF Good
<1>3. Len(list.segments) \in 1..Len(list.segments)
  BY <1>1 DEF Good
<1>4. PICK m \in Nat :
         /\ m = EndOfSegment(list.segments, Len(list.segments)) - SigLen
         /\ m + SigLen = ParseSegments(bytes).cursor /\ m + SigLen <= Len(bytes)
         /\ SignedAt(bytes, m) \in LaSigned
  <2>1. [sig |-> list.segments[Len(list.segments)].signature,
         data |-> SignedRange(list, Len(list.segments))] \in LaSigned
    BY DEF LastSegmentVerifies, SegmentVerifies
  <2> QED
    BY <1>2, <1>3, <2>1, SegmentSigned
<1>5. PICK x \in Crls : \E n \in 0..(Len(x.file) - SigLen) : SignedAt(bytes, m) = SignedAt(x.file, n)
  BY <1>4, ListsAssumption
<1>6. x.file \in Seq(Cell) /\ ParseCrl(x.file).error = None /\ Revokes(ParseCrl(x.file), x)
  BY ListsAssumption
<1>7. Agree(bytes, x.file, m + SigLen)
  <2>1. PICK n \in Nat : n + SigLen <= Len(x.file) /\ SignedAt(bytes, m) = SignedAt(x.file, n)
    BY <1>5, <1>6, CrlAssumption
  <2> QED
    BY <1>4, <1>6, <2>1, SameSigned
<1>8. ParseCrl(x.file) = list
  BY <1>4, <1>6, <1>7, SameList
<1> QED
  BY <1>6, <1>8

\* All the signatures of a list of the AACS LA verify.
LEMMA IssuedListVerifies ==
    ASSUME NEW x \in Crls, NEW list, list = ParseCrl(x.file)
    PROVE  list.error = None /\ LastSegmentVerifies(list) /\ AllSegmentsVerify(list)
<1>1. x.file \in Seq(Cell) /\ list.error = None
      /\ \A k \in DOMAIN list.segments :
            SignedAt(x.file, EndOfSegment(list.segments, k) - SigLen) \in LaSigned
  BY ListsAssumption
<1>2. Good(x.file, list)
  BY <1>1, ParsedList
<1>3. IsListOf(list, x.file) /\ Len(list.segments) \in 1..Len(list.segments)
      /\ DOMAIN list.segments = 1..Len(list.segments)
  BY <1>2 DEF Good, IsListOf
<1>4. ASSUME NEW k \in 1..Len(list.segments) PROVE SegmentVerifies(list, k)
  BY <1>1, <1>3, SegmentSigned DEF SegmentVerifies
<1> QED
  BY <1>1, <1>3, <1>4 DEF LastSegmentVerifies, AllSegmentsVerify

\* Zeros behind a file.
PaddedTo(made, read) ==
    /\ Len(made) <= Len(read)
    /\ SubSeq(read, 1, Len(made)) = made
    /\ \A n \in Len(made) + 1 .. Len(read) : read[n] = 0

LEMMA PaddedAgrees ==
    ASSUME NEW made \in Seq(Cell), NEW read \in Seq(Cell), PaddedTo(made, read)
    PROVE  \A i \in 1..Len(made) : made[i] = read[i]
<1>1. SubSeq(read, 1, Len(made)) = SubSeq(made, 1, Len(made))
  BY SubSeqFull DEF PaddedTo
<1>2. Len(made) \in Nat /\ Len(made) <= Len(read) /\ Len(made) <= Len(made)
  BY DEF PaddedTo
<1> QED
  BY <1>1, <1>2, SameFirst

\* The cells from one on are zeros.
LEMMA ZerosFrom ==
    ASSUME NEW s \in Seq(Cell), NEW n \in Nat, n <= Len(s)
    PROVE  IsZero(From(s, n + 1)) <=> \A i \in (n + 1)..Len(s) : s[i] = 0
<1>1. PICK L \in Nat : L = Len(s)
  OBVIOUS
<1>2. PICK x \in Seq(Cell) : x = SubSeq(s, n + 1, L) /\ IsPart(x, s, n, L)
  <2>1. n <= L /\ L <= Len(s)
    BY <1>1
  <2> QED
    BY <1>1, <2>1, Part, Zenon
<1>3. From(s, n + 1) = x /\ DOMAIN x = 1..(L - n)
  BY <1>1, <1>2 DEF From, IsPart
<1>4. ASSUME IsZero(x), NEW i \in (n + 1)..L PROVE s[i] = 0
  <2>1. PICK j \in 1..(L - n) : n + j = i
    <3>1. i - n \in 1..(L - n) /\ n + (i - n) = i
      BY <1>1
    <3> QED
      BY <3>1
  <2> QED
    BY <1>2, <1>3, <1>4, <2>1 DEF IsPart, IsZero
<1>5. ASSUME \A i \in (n + 1)..L : s[i] = 0 PROVE IsZero(x)
  <2>1. ASSUME NEW j \in 1..(L - n) PROVE x[j] = 0
    <3>1. n + j \in (n + 1)..L
      BY <1>1
    <3> QED
      BY <1>2, <1>5, <3>1 DEF IsPart
  <2> QED
    BY <1>3, <2>1 DEF IsZero
<1> QED
  BY <1>1, <1>3, <1>4, <1>5

LEMMA PaddedList ==
    ASSUME NEW made \in Seq(Cell), NEW read \in Seq(Cell), PaddedTo(made, read),
           ParseCrl(made).error = None
    PROVE  ParseCrl(read) = ParseCrl(made)
<1>1. Good(made, ParseCrl(made))
  BY ParsedList
<1>2. PICK m \in Nat : m = ParseSegments(made).cursor
  BY <1>1 DEF Good
<1>3. m <= Len(made) /\ Len(made) <= Len(read) /\ Len(made) \in Nat /\ Len(read) \in Nat
  <2>1. PICK list : list = ParseCrl(made) /\ IsListOf(list, made)
                      /\ Len(list.segments) \in 1..Len(list.segments)
                      /\ m = EndOfSegment(list.segments, Len(list.segments))
    BY <1>1, <1>2 DEF Good
  <2>2. m <= Len(made)
    BY <2>1, SegmentSigned
  <2> QED
    BY <2>2 DEF PaddedTo
<1>4. Agree(made, read, m)
  <2>1. \A i \in 1..m : i \in 1..Len(made)
    BY <1>3
  <2>2. m <= Len(read)
    BY <1>3
  <2> QED
    BY <1>3, <2>1, <2>2, PaddedAgrees DEF Agree
<1>5. \A i \in (m + 1)..Len(made) : made[i] = 0
  <2>1. IsZero(From(made, m + 1))
    BY <1>1, <1>2 DEF Good
  <2> QED
    BY <1>3, <2>1, ZerosFrom
<1>6. \A i \in (m + 1)..Len(read) : read[i] = 0
  <2>1. ASSUME NEW i \in (m + 1)..Len(read) PROVE read[i] = 0
    <3>1. CASE i <= Len(made)
      <4>1. i \in (m + 1)..Len(made) /\ i \in 1..Len(made)
        BY <1>3, <3>1
      <4> QED
        BY <1>5, <4>1, PaddedAgrees
    <3>2. CASE ~(i <= Len(made))
      <4>1. i \in Len(made) + 1 .. Len(read)
        BY <1>3, <3>2
      <4> QED
        BY <4>1 DEF PaddedTo
    <3> QED
      BY <3>1, <3>2
  <2> QED
    BY <2>1
<1>7. IsZero(From(read, m + 1))
  <2>1. m <= Len(read)
    BY <1>3
  <2> QED
    BY <1>6, <2>1, ZerosFrom
<1> QED
  BY <1>2, <1>4, <1>7, SameList
-----------------------------------------------------------------------------
(* Certificates *)

\* A certificate that was parsed and the cells it was parsed from.
Fields(bytes) ==
    [error |-> None,
     certificate_type |-> bytes[1],
     bee |-> bytes[2] \div FlagBit = 1,
     layers |-> bytes[3],
     number_of_hash_units |-> bytes[4],
     number_of_digests |-> bytes[5],
     content_certificate_id |-> Number(bytes[6], bytes[7]),
     minimum_crl_version |-> bytes[8],
     format_specific_section |-> SubSeq(bytes, HeaderFixedLen + 1, HeaderFixedLen + bytes[10]),
     content_hash_table_digests |-> SubSeq(bytes, DigestsAt(bytes) + 1, SignatureAt(bytes)),
     signature_data |-> SubSeq(bytes, SignatureAt(bytes) + 1, SignatureAt(bytes) + SigLen)]

Fits(bytes) ==
    /\ ~(Len(bytes) < HeaderFixedLen)
    /\ ~(bytes[1] # 0 \/ (bytes[10] # 0 /\ (bytes[10] + 2) % 4 # 0))
    /\ ~(Len(bytes) < SignatureAt(bytes) + SigLen)

LEMMA CertificateFields ==
    ASSUME NEW bytes
    PROVE  /\ Fits(bytes) => ParseCertificate(bytes) = Fields(bytes)
           /\ ParseCertificate(bytes).error = None => Fits(bytes)
<1>1. ASSUME Fits(bytes) PROVE ParseCertificate(bytes) = Fields(bytes)
  BY <1>1, Zenon DEF ParseCertificate, Fits, Fields
<1>2. ASSUME ~Fits(bytes) PROVE ParseCertificate(bytes).error # None
  <2>1. CASE Len(bytes) < HeaderFixedLen
    <3>1. ParseCertificate(bytes) = [error |-> "truncated"]
      BY <2>1, Zenon DEF ParseCertificate
    <3> QED
      BY <3>1, NoErrors
  <2>2. CASE /\ ~(Len(bytes) < HeaderFixedLen)
             /\ bytes[1] # 0 \/ (bytes[10] # 0 /\ (bytes[10] + 2) % 4 # 0)
    <3>1. ParseCertificate(bytes) = [error |-> "invalid"]
      BY <2>2, Zenon DEF ParseCertificate
    <3> QED
      BY <3>1, NoErrors
  <2>3. CASE /\ ~(Len(bytes) < HeaderFixedLen)
             /\ ~(bytes[1] # 0 \/ (bytes[10] # 0 /\ (bytes[10] + 2) % 4 # 0))
             /\ Len(bytes) < SignatureAt(bytes) + SigLen
    <3>1. ParseCertificate(bytes) = [error |-> "oversized"]
      BY <2>3, Zenon DEF ParseCertificate
    <3> QED
      BY <3>1, NoErrors
  <2> QED
    BY <1>2, <2>1, <2>2, <2>3, Zenon DEF Fits
<1> QED
  BY <1>1, <1>2

\* Where its parts are.
Places(bytes, length, digests, signature) ==
    /\ length \in Nat /\ digests \in Nat /\ signature \in Nat
    /\ length = bytes[10] /\ digests = DigestsAt(bytes) /\ signature = SignatureAt(bytes)
    /\ digests = (IF length = 0 THEN 12 ELSE 10 + length)
    /\ signature = digests + bytes[5]
    /\ 10 + length <= digests /\ digests <= signature /\ signature + SigLen <= Len(bytes)
    /\ 10 <= Len(bytes) /\ \A i \in 1..10 : bytes[i] \in Cell /\ bytes[i] \in Nat

LEMMA CertificatePlaces ==
    ASSUME NEW bytes \in Seq(Cell), Fits(bytes)
    PROVE  \E length, digests, signature : Places(bytes, length, digests, signature)
<1>1. 10 <= Len(bytes)
  BY DEF Fits, HeaderFixedLen
<1>2. \A i \in 1..10 : bytes[i] \in Cell /\ bytes[i] \in Nat
  <2>1. \A i \in 1..10 : i \in 1..Len(bytes)
    BY <1>1
  <2>2. \A i \in 1..Len(bytes) : bytes[i] \in Cell
    BY ElementOfSeq
  <2>3. Cell \subseteq Nat
    BY DEF Cell, Nibble
  <2> QED
    BY <2>1, <2>2, <2>3
<1>3. PICK length \in Nat, count \in Nat : length = bytes[10] /\ count = bytes[5]
  <2>1. 10 \in 1..10 /\ 5 \in 1..10
    OBVIOUS
  <2> QED
    BY <1>2, <2>1
<1>4. PICK digests \in Nat : digests = (IF length = 0 THEN 12 ELSE 10 + length)
  OBVIOUS
<1>5. DigestsAt(bytes) = digests
  BY <1>3, <1>4 DEF DigestsAt, SectionLen, HeaderFixedLen
<1>6. PICK signature \in Nat : signature = digests + count /\ signature = SignatureAt(bytes)
  BY <1>3, <1>5 DEF SignatureAt
<1>7. signature + SigLen <= Len(bytes)
  BY <1>6, CrlAssumption DEF Fits
<1>8. 10 + length <= digests /\ digests <= signature
  BY <1>4, <1>6
<1>9. Places(bytes, length, digests, signature)
  BY <1>1, <1>2, <1>3, <1>4, <1>5, <1>6, <1>7, <1>8 DEF Places
<1> QED
  BY <1>9

\* The lists among its fields.
LEMMA FieldTypes ==
    ASSUME NEW bytes \in Seq(Cell), Fits(bytes)
    PROVE  /\ Fields(bytes).format_specific_section \in Seq(Cell)
           /\ Fields(bytes).content_hash_table_digests \in Seq(Cell)
           /\ Len(Fields(bytes).content_hash_table_digests) = bytes[5]
           /\ Fields(bytes).number_of_digests \in Nat /\ Fields(bytes).number_of_hash_units \in Nat
<1>1. PICK length, digests, signature : Places(bytes, length, digests, signature)
  BY CertificatePlaces
<1>2. /\ length \in Nat /\ digests \in Nat /\ signature \in Nat
      /\ length = bytes[10] /\ digests = DigestsAt(bytes) /\ signature = SignatureAt(bytes)
      /\ signature = digests + bytes[5]
      /\ 10 + length <= digests /\ digests <= signature /\ signature + SigLen <= Len(bytes)
      /\ \A i \in 1..10 : bytes[i] \in Cell /\ bytes[i] \in Nat
  BY <1>1 DEF Places
<1>3. PICK hi \in Nat : hi = 10 + length /\ hi <= Len(bytes) /\ signature <= Len(bytes)
  <2>1. SigLen \in Nat /\ Len(bytes) \in Nat
    BY CrlAssumption
  <2>2. /\ length \in Nat /\ digests \in Nat /\ signature \in Nat
        /\ 10 + length <= digests /\ digests <= signature /\ signature + SigLen <= Len(bytes)
    BY <1>2
  <2>3. signature <= Len(bytes) /\ 10 + length <= Len(bytes)
    BY <2>1, <2>2
  <2> QED
    BY <2>2, <2>3
<1>4. SubSeq(bytes, 10 + 1, hi) \in Seq(Cell)
  <2>1. 10 \in Nat /\ 10 <= hi
    BY <1>2, <1>3
  <2> QED
    BY <1>3, <2>1, Part, Zenon
<1>5. PICK list \in Seq(Cell) :
         list = SubSeq(bytes, digests + 1, signature) /\ IsPart(list, bytes, digests, signature)
  BY <1>2, <1>3, Part, Zenon
<1>6. PICK n \in Nat : n = bytes[5]
  <2>1. 5 \in 1..10
    OBVIOUS
  <2> QED
    BY <1>2, <2>1
<1>7. Len(list) = n
  BY <1>2, <1>5, <1>6 DEF IsPart
<1>8. bytes[4] \in Nat
  <2>1. 4 \in 1..10
    OBVIOUS
  <2> QED
    BY <1>2, <2>1
<1> QED
  BY <1>2, <1>3, <1>4, <1>5, <1>6, <1>7, <1>8 DEF Fields, HeaderFixedLen

\* The three parts of what is signed.
Middle(c) == IF c.format_specific_section = <<>> THEN <<0, 0>> ELSE c.format_specific_section

Signed3(c, bytes) ==
    /\ CertificateHeader(c) \in Seq(Nat) /\ Len(CertificateHeader(c)) = 10
    /\ Middle(c) \in Seq(Nat) /\ Len(Middle(c)) = SectionLen(Len(c.format_specific_section))
    /\ c.content_hash_table_digests \in Seq(Nat)
    /\ SignedRangeBytes(c) = (CertificateHeader(c) \o Middle(c)) \o c.content_hash_table_digests
    /\ Len(c.format_specific_section) = bytes[10]
    /\ c.content_certificate_id \div Nibble = bytes[6] /\ c.content_certificate_id % Nibble = bytes[7]

LEMMA SignedParts ==
    ASSUME NEW bytes \in Seq(Cell), Fits(bytes), NEW c, c = Fields(bytes)
    PROVE  Signed3(c, bytes)
<1>1. PICK length, digests, signature : Places(bytes, length, digests, signature)
  BY CertificatePlaces
<1>2. /\ length \in Nat /\ digests \in Nat /\ signature \in Nat
      /\ length = bytes[10] /\ digests = DigestsAt(bytes) /\ signature = SignatureAt(bytes)
      /\ 10 + length <= digests /\ digests <= signature /\ signature + SigLen <= Len(bytes)
      /\ \A i \in 1..10 : bytes[i] \in Cell /\ bytes[i] \in Nat
  BY <1>1 DEF Places
<1>3. PICK hi \in Nat : hi = 10 + length /\ hi <= Len(bytes) /\ signature <= Len(bytes)
  <2>1. SigLen \in Nat /\ Len(bytes) \in Nat
    BY CrlAssumption
  <2>2. /\ length \in Nat /\ digests \in Nat /\ signature \in Nat
        /\ 10 + length <= digests /\ digests <= signature /\ signature + SigLen <= Len(bytes)
    BY <1>2
  <2>3. signature <= Len(bytes) /\ 10 + length <= Len(bytes)
    BY <2>1, <2>2
  <2> QED
    BY <2>2, <2>3
<1>4. PICK section \in Seq(Cell) : section = SubSeq(bytes, 10 + 1, hi) /\ IsPart(section, bytes, 10, hi)
  <2>1. 10 \in Nat /\ 10 <= hi
    BY <1>2, <1>3
  <2> QED
    BY <1>3, <2>1, Part, Zenon
<1>5. Len(section) = length
  BY <1>2, <1>3, <1>4 DEF IsPart
<1>6. c.format_specific_section = section
  BY <1>2, <1>3, <1>4 DEF Fields, HeaderFixedLen
<1>7. PICK list \in Seq(Cell) : list = SubSeq(bytes, digests + 1, signature)
  BY <1>2, <1>3, Part, Zenon
<1>8. c.content_hash_table_digests = list
  BY <1>2, <1>7 DEF Fields
<1>9. Seq(Cell) \subseteq Seq(Nat)
  <2>1. Cell \subseteq Nat
    BY DEF Cell, Nibble
  <2> QED
    BY <2>1, SeqMonotonic
<1>10. PICK id : id = c.content_certificate_id /\ id \div Nibble = bytes[6] /\ id % Nibble = bytes[7]
  <2>1. 6 \in 1..10 /\ 7 \in 1..10
    OBVIOUS
  <2>2. bytes[6] \in Cell /\ bytes[7] \in Cell
    BY <1>2, <2>1
  <2> QED
    BY <2>2, DigitsOfNumber DEF Fields
<1>11. CertificateHeader(c) \in Seq(Nat) /\ Len(CertificateHeader(c)) = 10
  <2>1. /\ 1 \in 1..10 /\ 3 \in 1..10 /\ 4 \in 1..10 /\ 5 \in 1..10
        /\ 6 \in 1..10 /\ 7 \in 1..10 /\ 8 \in 1..10
    OBVIOUS
  <2>2. /\ bytes[1] \in Nat /\ bytes[3] \in Nat /\ bytes[4] \in Nat /\ bytes[5] \in Nat
        /\ bytes[6] \in Nat /\ bytes[7] \in Nat /\ bytes[8] \in Nat
    BY <1>2, <2>1
  <2>3. PICK flag \in Nat : flag = IF c.bee THEN FlagBit ELSE 0
    BY DEF FlagBit
  <2>4. CertificateHeader(c) =
          <<bytes[1], flag, bytes[3], bytes[4], bytes[5], bytes[6], bytes[7], bytes[8], 0, length>>
    BY <1>5, <1>6, <1>10, <2>3 DEF CertificateHeader, Fields
  <2> QED
    BY <1>2, <2>2, <2>4
<1>12. Middle(c) \in Seq(Nat) /\ Len(Middle(c)) = SectionLen(Len(c.format_specific_section))
  <2>1. CASE section = <<>>
    <3>1. length = 0
      BY <1>5, <2>1
    <3>2. Middle(c) = <<0, 0>>
      BY <1>6, <2>1 DEF Middle
    <3> QED
      BY <1>5, <1>6, <3>1, <3>2 DEF SectionLen
  <2>2. CASE section # <<>>
    <3>1. length # 0
      BY <1>5, <2>2, EmptySeq
    <3>2. Middle(c) = section
      BY <1>6, <2>2 DEF Middle
    <3> QED
      BY <1>5, <1>6, <1>9, <3>1, <3>2 DEF SectionLen
  <2> QED
    BY <2>1, <2>2
<1>13. SignedRangeBytes(c) = (CertificateHeader(c) \o Middle(c)) \o c.content_hash_table_digests
  BY DEF SignedRangeBytes, Middle
<1> QED
  BY <1>2, <1>5, <1>6, <1>8, <1>9, <1>10, <1>11, <1>12, <1>13 DEF Signed3

\* Equal wholes with first parts of one length have equal parts.
LEMMA SplitEqual ==
    ASSUME NEW V, NEW a \in Seq(V), NEW b \in Seq(V), NEW c \in Seq(V), NEW d \in Seq(V),
           a \o b = c \o d, Len(a) = Len(c)
    PROVE  a = c /\ b = d
<1>1. PICK x \in Seq(V) : x = a \o b /\ IsJoin(x, a, b)
  BY JoinedEnds, Zenon
<1>2. PICK y \in Seq(V) : y = c \o d /\ IsJoin(y, c, d)
  BY JoinedEnds, Zenon
<1>3. x = y
  BY <1>1, <1>2
<1>4. PICK m \in Nat, p \in Nat, q \in Nat : m = Len(a) /\ p = Len(b) /\ q = Len(d)
  OBVIOUS
<1>5. Len(x) = m + p /\ Len(y) = m + q
  BY <1>1, <1>2, <1>4 DEF IsJoin
<1>6. p = q
  BY <1>3, <1>4, <1>5
<1>7. a = c
  <2>1. \A i \in 1..m : x[i] = a[i] /\ y[i] = c[i]
    BY <1>1, <1>2, <1>4 DEF IsJoin
  <2> QED
    BY <1>3, <1>4, <2>1, SameSequence
<1>8. b = d
  <2>1. \A i \in 1..p : x[m + i] = b[i] /\ y[m + i] = d[i]
    BY <1>1, <1>2, <1>4, <1>6 DEF IsJoin
  <2> QED
    BY <1>3, <1>4, <1>6, <2>1, SameSequence
<1> QED
  BY <1>7, <1>8

\* The cells of the header.
LEMMA HeaderIs ==
    ASSUME NEW c
    PROVE  /\ CertificateHeader(c)[1] = c.certificate_type
           /\ CertificateHeader(c)[2] = (IF c.bee THEN FlagBit ELSE 0)
           /\ CertificateHeader(c)[3] = c.layers
           /\ CertificateHeader(c)[4] = c.number_of_hash_units
           /\ CertificateHeader(c)[5] = c.number_of_digests
           /\ CertificateHeader(c)[6] = c.content_certificate_id \div Nibble
           /\ CertificateHeader(c)[7] = c.content_certificate_id % Nibble
           /\ CertificateHeader(c)[8] = c.minimum_crl_version
           /\ CertificateHeader(c)[9] = 0
           /\ CertificateHeader(c)[10] = Len(c.format_specific_section)
BY DEF CertificateHeader

\* Two certificates for which the same is signed are the same.
LEMMA SameSignedRange ==
    ASSUME NEW bytes \in Seq(Cell), Fits(bytes), NEW other \in Seq(Cell), Fits(other),
           SignedRangeBytes(Fields(bytes)) = SignedRangeBytes(Fields(other)),
           Fields(bytes).signature_data = Fields(other).signature_data
    PROVE  Fields(bytes) = Fields(other)
<1>1. PICK c, d : c = Fields(bytes) /\ d = Fields(other)
  OBVIOUS
<1>2. Signed3(c, bytes) /\ Signed3(d, other)
  BY <1>1, SignedParts
<1>3. PICK h \in Seq(Nat), m \in Seq(Nat), l \in Seq(Nat) :
         h = CertificateHeader(c) /\ m = Middle(c) /\ l = c.content_hash_table_digests
  BY <1>2 DEF Signed3
<1>4. PICK i \in Seq(Nat), n \in Seq(Nat), k \in Seq(Nat) :
         i = CertificateHeader(d) /\ n = Middle(d) /\ k = d.content_hash_table_digests
  BY <1>2 DEF Signed3
<1>5. (h \o m) \o l = (i \o n) \o k /\ Len(h) = 10 /\ Len(i) = 10
  BY <1>1, <1>2, <1>3, <1>4 DEF Signed3
<1>6. h = i
  <2>1. PICK p \in Seq(Nat), q \in Seq(Nat) : p = m \o l /\ q = n \o k
    BY ConcatProperties
  <2>2. EitherWay(h, m, l) /\ EitherWay(i, n, k)
    BY EitherGrouping, Zenon
  <2>3. h \o p = i \o q
    BY <1>5, <2>1, <2>2 DEF EitherWay
  <2> QED
    BY <1>5, <2>3, SplitEqual
<1>7. /\ c.certificate_type = d.certificate_type /\ c.layers = d.layers
      /\ (IF c.bee THEN FlagBit ELSE 0) = (IF d.bee THEN FlagBit ELSE 0)
      /\ c.number_of_hash_units = d.number_of_hash_units
      /\ c.number_of_digests = d.number_of_digests
      /\ c.content_certificate_id \div Nibble = d.content_certificate_id \div Nibble
      /\ c.content_certificate_id % Nibble = d.content_certificate_id % Nibble
      /\ c.minimum_crl_version = d.minimum_crl_version
      /\ Len(c.format_specific_section) = Len(d.format_specific_section)
  <2>1. h[1] = i[1] /\ h[2] = i[2] /\ h[3] = i[3] /\ h[4] = i[4] /\ h[5] = i[5]
        /\ h[6] = i[6] /\ h[7] = i[7] /\ h[8] = i[8] /\ h[10] = i[10]
    BY <1>6
  <2>2. /\ h[1] = c.certificate_type /\ h[2] = (IF c.bee THEN FlagBit ELSE 0) /\ h[3] = c.layers
        /\ h[4] = c.number_of_hash_units /\ h[5] = c.number_of_digests
        /\ h[6] = c.content_certificate_id \div Nibble
        /\ h[7] = c.content_certificate_id % Nibble /\ h[8] = c.minimum_crl_version
        /\ h[10] = Len(c.format_specific_section)
    BY <1>3, HeaderIs, Zenon
  <2>3. /\ i[1] = d.certificate_type /\ i[2] = (IF d.bee THEN FlagBit ELSE 0) /\ i[3] = d.layers
        /\ i[4] = d.number_of_hash_units /\ i[5] = d.number_of_digests
        /\ i[6] = d.content_certificate_id \div Nibble
        /\ i[7] = d.content_certificate_id % Nibble /\ i[8] = d.minimum_crl_version
        /\ i[10] = Len(d.format_specific_section)
    BY <1>4, HeaderIs, Zenon
  <2> QED
    BY <2>1, <2>2, <2>3, ZenonT(30)
<1>8. m = n /\ l = k
  <2>1. Len(m) = Len(n)
    BY <1>2, <1>3, <1>4, <1>7 DEF Signed3
  <2>2. PICK p \in Seq(Nat), q \in Seq(Nat) : p = h \o m /\ q = i \o n
    BY ConcatProperties
  <2>3. Len(p) = 10 + Len(m) /\ Len(q) = 10 + Len(n)
    <3>1. IsJoin(h \o m, h, m) /\ IsJoin(i \o n, i, n)
      BY JoinedEnds, Zenon
    <3> QED
      BY <1>5, <2>2, <3>1 DEF IsJoin
  <2>4. p = q /\ l = k
    <3>1. p \o l = q \o k /\ Len(p) = Len(q)
      BY <1>5, <2>1, <2>2, <2>3
    <3> QED
      BY <3>1, SplitEqual
  <2>5. m = n
    <3>1. h \o m = i \o n /\ Len(h) = Len(i)
      BY <1>5, <2>2, <2>4
    <3> QED
      BY <3>1, SplitEqual
  <2> QED
    BY <2>4, <2>5
<1>9. c.bee = d.bee
  <2>1. c.bee \in BOOLEAN /\ d.bee \in BOOLEAN
    <3>1. c.bee = (bytes[2] \div FlagBit = 1) /\ d.bee = (other[2] \div FlagBit = 1)
      BY <1>1 DEF Fields
    <3> QED
      BY <3>1, Zenon
  <2>2. FlagBit # 0
    BY DEF FlagBit
  <2> QED
    BY <1>7, <2>1, <2>2, Zenon
<1>10. c.content_certificate_id = d.content_certificate_id
  <2>1. bytes[6] = other[6] /\ bytes[7] = other[7]
    BY <1>2, <1>7 DEF Signed3
  <2> QED
    BY <1>1, <2>1 DEF Fields
<1>11. c.format_specific_section = d.format_specific_section
  <2>1. PICK length, digests, signature : Places(bytes, length, digests, signature)
    BY CertificatePlaces
  <2>2. PICK L \in Nat : L = Len(c.format_specific_section) /\ L = Len(d.format_specific_section)
    <3>1. Len(c.format_specific_section) = length /\ length \in Nat
      BY <1>2, <2>1 DEF Signed3, Places
    <3> QED
      BY <1>7, <3>1
  <2>3. c.format_specific_section \in Seq(Cell) /\ d.format_specific_section \in Seq(Cell)
    BY <1>1, FieldTypes
  <2>4. CASE L = 0
    BY <2>2, <2>3, <2>4, EmptySeq
  <2>5. CASE L # 0
    <3>1. c.format_specific_section # <<>> /\ d.format_specific_section # <<>>
      BY <2>2, <2>5
    <3> QED
      BY <1>3, <1>4, <1>8, <3>1 DEF Middle
  <2> QED
    BY <2>4, <2>5
<1>12. /\ c = [error |-> None, certificate_type |-> c.certificate_type, bee |-> c.bee,
               layers |-> c.layers, number_of_hash_units |-> c.number_of_hash_units,
               number_of_digests |-> c.number_of_digests,
               content_certificate_id |-> c.content_certificate_id,
               minimum_crl_version |-> c.minimum_crl_version,
               format_specific_section |-> c.format_specific_section,
               content_hash_table_digests |-> c.content_hash_table_digests,
               signature_data |-> c.signature_data]
       /\ d = [error |-> None, certificate_type |-> d.certificate_type, bee |-> d.bee,
               layers |-> d.layers, number_of_hash_units |-> d.number_of_hash_units,
               number_of_digests |-> d.number_of_digests,
               content_certificate_id |-> d.content_certificate_id,
               minimum_crl_version |-> d.minimum_crl_version,
               format_specific_section |-> d.format_specific_section,
               content_hash_table_digests |-> d.content_hash_table_digests,
               signature_data |-> d.signature_data]
  BY <1>1 DEF Fields
<1>13. c.content_hash_table_digests = d.content_hash_table_digests /\ c.signature_data = d.signature_data
  BY <1>1, <1>3, <1>4, <1>8
<1> QED
  BY <1>1, <1>7, <1>9, <1>10, <1>11, <1>12, <1>13, Zenon

\* What the AACS LA writes where the format reserves cells.
ReservedAreZero(bytes) ==
    /\ bytes[2] \in {0, FlagBit} /\ bytes[9] = 0
    /\ bytes[10] = 0 => bytes[11] = 0 /\ bytes[12] = 0

\* Written again such a certificate is what stands before its signature.
LEMMA CertificateWrittenAgain ==
    ASSUME NEW bytes \in Seq(Cell), Fits(bytes), ReservedAreZero(bytes)
    PROVE  [sig |-> Fields(bytes).signature_data, data |-> SignedRangeBytes(Fields(bytes))]
              = SignedAt(bytes, SignatureAt(bytes))
<1>1. PICK c : c = Fields(bytes)
  OBVIOUS
<1>2. Signed3(c, bytes)
  BY <1>1, SignedParts
<1>3. PICK length, digests, signature : Places(bytes, length, digests, signature)
  BY CertificatePlaces
<1>4. /\ length \in Nat /\ digests \in Nat /\ signature \in Nat /\ Len(bytes) \in Nat
      /\ length = bytes[10] /\ digests = DigestsAt(bytes) /\ signature = SignatureAt(bytes)
      /\ digests = (IF length = 0 THEN 12 ELSE 10 + length)
      /\ 10 <= digests /\ digests <= signature /\ signature <= Len(bytes)
      /\ \A i \in 1..10 : bytes[i] \in Cell /\ bytes[i] \in Nat
  <2>1. /\ length \in Nat /\ digests \in Nat /\ signature \in Nat
        /\ 10 + length <= digests /\ digests <= signature /\ signature + SigLen <= Len(bytes)
    BY <1>3 DEF Places
  <2>2. SigLen \in Nat /\ Len(bytes) \in Nat
    BY CrlAssumption
  <2>3. 10 <= digests /\ digests <= signature /\ signature <= Len(bytes)
    BY <2>1, <2>2
  <2> QED
    BY <1>3, <2>2, <2>3 DEF Places
<1>5. Seq(Cell) \subseteq Seq(Nat)
  <2>1. Cell \subseteq Nat
    BY DEF Cell, Nibble
  <2> QED
    BY <2>1, SeqMonotonic
<1>6. CertificateHeader(c) = SubSeq(bytes, 1, 10)
  <2>1. PICK h \in Seq(Nat) : h = CertificateHeader(c) /\ Len(h) = 10
    BY <1>2 DEF Signed3
  <2>2. PICK a \in Seq(Nat) : a = SubSeq(bytes, 0 + 1, 10) /\ IsPart(a, bytes, 0, 10)
    <3>1. 0 \in Nat /\ 10 \in Nat /\ 0 <= 10 /\ 10 <= Len(bytes) /\ bytes \in Seq(Nat)
      BY <1>4, <1>5
    <3> QED
      BY <3>1, Part, Zenon
  <2>3. Len(a) = 10 /\ \A i \in 1..10 : a[i] = bytes[i]
    BY <2>2 DEF IsPart
  <2>4. /\ h[1] = bytes[1] /\ h[3] = bytes[3] /\ h[4] = bytes[4]
        /\ h[5] = bytes[5] /\ h[6] = bytes[6] /\ h[7] = bytes[7] /\ h[8] = bytes[8]
        /\ h[9] = bytes[9] /\ h[10] = bytes[10]
    <3>1. /\ h[1] = c.certificate_type /\ h[3] = c.layers /\ h[4] = c.number_of_hash_units
          /\ h[5] = c.number_of_digests /\ h[6] = c.content_certificate_id \div Nibble
          /\ h[7] = c.content_certificate_id % Nibble /\ h[8] = c.minimum_crl_version
          /\ h[9] = 0 /\ h[10] = Len(c.format_specific_section)
      BY <2>1, HeaderIs
    <3>2. /\ c.content_certificate_id \div Nibble = bytes[6]
          /\ c.content_certificate_id % Nibble = bytes[7]
          /\ Len(c.format_specific_section) = bytes[10] /\ bytes[9] = 0
      BY <1>2 DEF Signed3, ReservedAreZero
    <3>3. /\ c.certificate_type = bytes[1] /\ c.layers = bytes[3]
          /\ c.number_of_hash_units = bytes[4] /\ c.number_of_digests = bytes[5]
          /\ c.minimum_crl_version = bytes[8]
      BY <1>1 DEF Fields
    <3> QED
      BY <3>1, <3>2, <3>3
  <2>5. h[2] = bytes[2]
    <3>1. h[2] = IF bytes[2] \div FlagBit = 1 THEN FlagBit ELSE 0
      <4>1. c.bee = (bytes[2] \div FlagBit = 1)
        BY <1>1 DEF Fields
      <4>2. h[2] = IF c.bee THEN FlagBit ELSE 0
        BY <2>1, HeaderIs
      <4> QED
        BY <4>1, <4>2, Zenon
    <3>2. bytes[2] \in {0, 8}
      BY DEF ReservedAreZero, FlagBit
    <3>3. 0 \div 8 = 0 /\ 8 \div 8 = 1
      OBVIOUS
    <3> QED
      BY <3>1, <3>2, <3>3 DEF FlagBit
  <2>6. \A i \in 1..10 : h[i] = a[i]
    <3>1. \A i \in 1..10 : i = 1 \/ i = 2 \/ i = 3 \/ i = 4 \/ i = 5 \/ i = 6 \/ i = 7 \/ i = 8
                              \/ i = 9 \/ i = 10
      OBVIOUS
    <3>2. /\ a[1] = bytes[1] /\ a[2] = bytes[2] /\ a[3] = bytes[3] /\ a[4] = bytes[4]
          /\ a[5] = bytes[5] /\ a[6] = bytes[6] /\ a[7] = bytes[7] /\ a[8] = bytes[8]
          /\ a[9] = bytes[9] /\ a[10] = bytes[10]
      BY <2>3
    <3>3. h[1] = a[1] /\ h[2] = a[2] /\ h[3] = a[3] /\ h[4] = a[4] /\ h[5] = a[5]
      BY <2>4, <2>5, <3>2, Zenon
    <3>4. h[6] = a[6] /\ h[7] = a[7] /\ h[8] = a[8] /\ h[9] = a[9] /\ h[10] = a[10]
      BY <2>4, <3>2, Zenon
    <3> QED
      BY <3>1, <3>3, <3>4, ZenonT(40)
  <2>7. h = a
    BY <2>1, <2>3, <2>6, SameSequence
  <2> QED
    BY <2>1, <2>2, <2>7
<1>7. Middle(c) = SubSeq(bytes, 10 + 1, digests)
  <2>1. PICK s \in Seq(Cell) : s = SubSeq(bytes, 10 + 1, digests) /\ IsPart(s, bytes, 10, digests)
    <3>1. 10 \in Nat /\ 10 <= digests /\ digests <= Len(bytes)
      BY <1>4
    <3> QED
      BY <1>4, <3>1, Part, Zenon
  <2>2. Len(c.format_specific_section) = length /\ c.format_specific_section \in Seq(Cell)
    BY <1>1, <1>2, <1>4, FieldTypes DEF Signed3
  <2>3. CASE length = 0
    <3>1. Middle(c) = <<0, 0>>
      <4>1. c.format_specific_section = <<>>
        BY <2>2, <2>3, EmptySeq
      <4> QED
        BY <4>1 DEF Middle
    <3>2. Len(s) = 2 /\ s[1] = bytes[11] /\ s[2] = bytes[12]
      <4>1. digests = 12
        BY <1>4, <2>3
      <4>2. Len(s) = 2 /\ \A i \in 1..2 : s[i] = bytes[10 + i]
        BY <2>1, <4>1 DEF IsPart
      <4>3. 1 \in 1..2 /\ 2 \in 1..2 /\ 10 + 1 = 11 /\ 10 + 2 = 12
        OBVIOUS
      <4> QED
        BY <4>2, <4>3
    <3>3. s[1] = 0 /\ s[2] = 0
      BY <1>4, <2>3, <3>2 DEF ReservedAreZero
    <3>4. PICK z \in Seq(Cell) : z = <<0, 0>> /\ Len(z) = 2 /\ z[1] = 0 /\ z[2] = 0
      <4>1. 0 \in Cell
        BY DEF Cell, Nibble
      <4>2. <<0, 0>> \in Seq(Cell)
        BY <4>1
      <4>3. Len(<<0, 0>>) = 2 /\ <<0, 0>>[1] = 0 /\ <<0, 0>>[2] = 0
        OBVIOUS
      <4> QED
        BY <4>2, <4>3, Zenon
    <3>5. s = z
      <4>1. \A i \in 1..2 : i = 1 \/ i = 2
        OBVIOUS
      <4>2. \A i \in 1..Len(s) : s[i] = z[i]
        BY <3>2, <3>3, <3>4, <4>1
      <4>3. Len(s) = Len(z)
        BY <3>2, <3>4
      <4> QED
        BY <4>2, <4>3, SameSequence
    <3> QED
      BY <2>1, <3>1, <3>4, <3>5
  <2>4. CASE length # 0
    <3>1. Middle(c) = c.format_specific_section
      <4>1. c.format_specific_section # <<>>
        BY <2>2, <2>4
      <4> QED
        BY <4>1 DEF Middle
    <3>2. c.format_specific_section = SubSeq(bytes, 10 + 1, 10 + length)
      BY <1>1, <1>4 DEF Fields, HeaderFixedLen
    <3>3. digests = 10 + length
      BY <1>4, <2>4
    <3> QED
      BY <3>1, <3>2, <3>3
  <2> QED
    BY <2>3, <2>4
<1>8. c.content_hash_table_digests = SubSeq(bytes, digests + 1, signature)
  BY <1>1, <1>4 DEF Fields
<1>9. Extends(bytes, 10, digests) /\ Extends(bytes, digests, signature)
  <2>1. 10 \in Nat /\ 10 <= digests /\ digests <= Len(bytes) /\ digests <= signature
        /\ signature <= Len(bytes)
    BY <1>4
  <2> QED
    BY <1>4, <2>1, Extending, Zenon
<1>10. SignedRangeBytes(c) = SubSeq(bytes, 1, signature)
  <2>1. SignedRangeBytes(c) = (CertificateHeader(c) \o Middle(c)) \o c.content_hash_table_digests
    BY <1>2 DEF Signed3
  <2>2. CertificateHeader(c) \o Middle(c) = SubSeq(bytes, 1, digests)
    BY <1>6, <1>7, <1>9, Zenon DEF Extends
  <2> QED
    BY <1>8, <1>9, <2>1, <2>2, Zenon DEF Extends
<1>11. c.signature_data = SubSeq(bytes, signature + 1, signature + SigLen)
  BY <1>1, <1>4 DEF Fields
<1> QED
  BY <1>1, <1>4, <1>10, <1>11 DEF SignedAt

\* The certificates of the discs.
LEMMA IssuedCertificate ==
    ASSUME NEW d \in Discs, NEW c, c = ParseCertificate(d.certificate)
    PROVE  /\ d.certificate \in Seq(Cell) /\ Fits(d.certificate) /\ c = Fields(d.certificate)
           /\ SignatureVerifies(c)
           /\ [sig |-> c.signature_data, data |-> SignedRangeBytes(c)]
                 = SignedAt(d.certificate, SignatureAt(d.certificate))
<1>1. /\ d.certificate \in Seq(Cell) /\ c.error = None
      /\ ReservedAreZero(d.certificate)
      /\ SignedAt(d.certificate, SignatureAt(d.certificate)) \in CcSigned
  BY CertificatesAssumption DEF ReservedAreZero
<1>2. Fits(d.certificate) /\ c = Fields(d.certificate)
  BY <1>1, CertificateFields
<1>3. [sig |-> c.signature_data, data |-> SignedRangeBytes(c)]
         = SignedAt(d.certificate, SignatureAt(d.certificate))
  BY <1>1, <1>2, CertificateWrittenAgain
<1> QED
  BY <1>1, <1>2, <1>3 DEF SignatureVerifies

\* A certificate whose signature verifies is one of them.
LEMMA VerifiedCertificate ==
    ASSUME NEW bytes \in Seq(Cell), NEW c, c = ParseCertificate(bytes), c.error = None,
           SignatureVerifies(c)
    PROVE  \E d \in Discs : c = ParseCertificate(d.certificate)
<1>1. Fits(bytes) /\ c = Fields(bytes)
  BY CertificateFields
<1>2. PICK d \in Discs : [sig |-> c.signature_data, data |-> SignedRangeBytes(c)]
                            = SignedAt(d.certificate, SignatureAt(d.certificate))
  BY CertificatesAssumption DEF SignatureVerifies
<1>3. PICK e : e = ParseCertificate(d.certificate)
  OBVIOUS
<1>4. /\ d.certificate \in Seq(Cell) /\ Fits(d.certificate) /\ e = Fields(d.certificate)
      /\ [sig |-> e.signature_data, data |-> SignedRangeBytes(e)]
            = SignedAt(d.certificate, SignatureAt(d.certificate))
  BY <1>3, IssuedCertificate
<1>5. [sig |-> c.signature_data, data |-> SignedRangeBytes(c)]
         = [sig |-> e.signature_data, data |-> SignedRangeBytes(e)]
  BY <1>2, <1>4, Zenon
<1>6. c.signature_data = e.signature_data /\ SignedRangeBytes(c) = SignedRangeBytes(e)
  BY <1>5
<1>7. c = e
  BY <1>1, <1>4, <1>6, SameSignedRange
<1> QED
  BY <1>3, <1>7

\* A padded certificate is parsed as it was made.
LEMMA PaddedCertificate ==
    ASSUME NEW made \in Seq(Cell), NEW read \in Seq(Cell), PaddedTo(made, read), Fits(made)
    PROVE  Fits(read) /\ Fields(read) = Fields(made)
<1>1. \A i \in 1..Len(made) : made[i] = read[i]
  BY PaddedAgrees
<1>2. PICK length, digests, signature : Places(made, length, digests, signature)
  BY CertificatePlaces
<1>3. /\ length \in Nat /\ digests \in Nat /\ signature \in Nat /\ SigLen \in Nat
      /\ length = made[10] /\ digests = DigestsAt(made) /\ signature = SignatureAt(made)
      /\ 10 + length <= digests /\ digests <= signature /\ signature + SigLen <= Len(made)
      /\ 10 <= Len(made)
      /\ Len(made) \in Nat /\ Len(read) \in Nat /\ Len(made) <= Len(read)
  <2>1. Len(made) \in Nat /\ Len(read) \in Nat /\ SigLen \in Nat
    BY CrlAssumption
  <2> QED
    BY <1>2, <2>1, Zenon DEF Places, PaddedTo
<1>4. \A i \in 1..10 : read[i] = made[i]
  <2>1. \A i \in 1..10 : i \in 1..Len(made)
    BY <1>3
  <2> QED
    BY <1>1, <2>1
<1>5. DigestsAt(read) = digests
  BY <1>3, <1>4 DEF DigestsAt
<1>6. SignatureAt(read) = signature
  <2>1. SignatureAt(read) = digests + read[5] /\ SignatureAt(made) = digests + made[5]
    BY <1>3, <1>5, Zenon DEF SignatureAt
  <2>2. read[5] = made[5]
    BY <1>4
  <2> QED
    BY <1>3, <2>1, <2>2
<1>7. Fits(read)
  <2>1. ~(Len(read) < 10) /\ ~(Len(read) < signature + SigLen)
    BY <1>3
  <2>2. read[1] = made[1] /\ read[10] = made[10]
    BY <1>4
  <2> QED
    BY <1>6, <2>1, <2>2 DEF Fits, HeaderFixedLen
<1>8. ASSUME NEW lo \in Nat, NEW hi \in Nat, lo <= hi, hi <= Len(made)
      PROVE  SubSeq(read, lo + 1, hi) = SubSeq(made, lo + 1, hi)
  <2>1. hi <= Len(read) /\ \A i \in (lo + 1)..hi : i \in 1..Len(made)
    BY <1>3, <1>8
  <2>2. \A i \in (lo + 1)..hi : read[i] = made[i]
    BY <1>1, <2>1
  <2> QED
    BY <1>8, <2>1, <2>2, SamePart
<1>9. SubSeq(read, 10 + 1, 10 + length) = SubSeq(made, 10 + 1, 10 + length)
  <2>1. 10 \in Nat /\ 10 + length \in Nat /\ 10 <= 10 + length /\ 10 + length <= Len(made)
    BY <1>3
  <2> QED
    BY <1>8, <2>1, Zenon
<1>10. SubSeq(read, digests + 1, signature) = SubSeq(made, digests + 1, signature)
  <2>1. digests <= signature /\ signature <= Len(made)
    BY <1>3
  <2> QED
    BY <1>3, <1>8, <2>1, Zenon
<1>11. SubSeq(read, signature + 1, signature + SigLen) = SubSeq(made, signature + 1, signature + SigLen)
  <2>1. signature + SigLen \in Nat /\ signature <= signature + SigLen /\ signature + SigLen <= Len(made)
    BY <1>3
  <2> QED
    BY <1>3, <1>8, <2>1, Zenon
<1>12. /\ read[1] = made[1] /\ read[2] = made[2] /\ read[3] = made[3] /\ read[4] = made[4]
       /\ read[5] = made[5] /\ read[6] = made[6] /\ read[7] = made[7] /\ read[8] = made[8]
       /\ read[10] = made[10]
  BY <1>4
<1>13. /\ SubSeq(read, HeaderFixedLen + 1, HeaderFixedLen + read[10])
             = SubSeq(made, HeaderFixedLen + 1, HeaderFixedLen + made[10])
       /\ SubSeq(read, DigestsAt(read) + 1, SignatureAt(read))
             = SubSeq(made, DigestsAt(made) + 1, SignatureAt(made))
       /\ SubSeq(read, SignatureAt(read) + 1, SignatureAt(read) + SigLen)
             = SubSeq(made, SignatureAt(made) + 1, SignatureAt(made) + SigLen)
  BY <1>3, <1>4, <1>5, <1>6, <1>9, <1>10, <1>11, <1>12 DEF HeaderFixedLen
<1> QED
  BY <1>7, <1>12, <1>13, Zenon DEF Fields
-----------------------------------------------------------------------------
(* Tables and units *)

\* What hashes to the hash of something mastered is that.
LEMMA HashedIs ==
    ASSUME NEW data, NEW made, NEW h, [data |-> made, hash |-> h] \in Hashes, Hash(data) = h
    PROVE  data = made
<1>1. PICK x \in Hashes : x.data = made /\ x.hash = h
  OBVIOUS
<1>2. h # NoHash
  BY <1>1, HashAssumption
<1>3. \E y \in Hashes : y.data = data
  BY <1>2 DEF Hash
<1>4. PICK y \in Hashes : y.data = data /\ y.hash = h
  <2>1. (CHOOSE y \in Hashes : y.data = data) \in Hashes
        /\ (CHOOSE y \in Hashes : y.data = data).data = data
    BY <1>3, Zenon
  <2>2. (CHOOSE y \in Hashes : y.data = data).hash = h
    BY <1>3, Zenon DEF Hash
  <2> QED
    BY <2>1, <2>2, Zenon
<1>5. x.data = y.data
  BY <1>1, <1>4, HashAssumption
<1> QED
  BY <1>1, <1>4, <1>5

\* A disc's table, parsed with the counts of the disc's certificate.
TableOf(d) ==
    ParseTable(d.table, ParseCertificate(d.certificate).number_of_digests,
               ParseCertificate(d.certificate).number_of_hash_units)

\* Its hash values are as many as the certificate says.
LEMMA TableFits ==
    ASSUME NEW d \in Discs, NEW c, c = ParseCertificate(d.certificate),
           NEW read \in Seq(Cell), Len(d.table) <= Len(read)
    PROVE  /\ ParseTable(read, c.number_of_digests, c.number_of_hash_units).error = None
           /\ TableOf(d).hash_values \in Seq(Cell)
<1>1. PICK D \in Nat, U \in Nat : D = c.number_of_digests /\ U = c.number_of_hash_units
  BY IssuedCertificate, FieldTypes
<1>2. d.table \in Seq(Cell) /\ TableOf(d).error = None
  BY TablesAssumption DEF TableOf
<1>3. TableOf(d) = ParseTable(d.table, D, U)
  BY <1>1 DEF TableOf
<1>4. PICK header \in Nat : header = D * DescriptorLen
  BY <1>1 DEF DescriptorLen
<1>5. PICK hi \in Nat : hi = header + U /\ header <= hi
  BY <1>1, <1>4
<1>6. ~(Len(d.table) < hi)
  <2>1. ASSUME Len(d.table) < hi PROVE FALSE
    <3>1. ParseTable(d.table, D, U) = [error |-> "oversized"]
      BY <1>4, <1>5, <2>1, Zenon DEF ParseTable
    <3> QED
      BY <1>2, <1>3, <3>1, NoErrors
  <2> QED
    BY <2>1
<1>7. hi <= Len(d.table) /\ ~(Len(read) < hi)
  BY <1>2, <1>5, <1>6
<1>8. ParseTable(read, D, U).error = None
  BY <1>4, <1>5, <1>7 DEF ParseTable
<1>9. TableOf(d).hash_values = SubSeq(d.table, header + 1, hi)
  <2>1. ParseTable(d.table, D, U) =
           [error |-> None,
            clips |-> [i \in 1..D |-> Descriptor(d.table, i - 1)],
            hash_values |-> SubSeq(d.table, header + 1, hi)]
    BY <1>4, <1>5, <1>6, Zenon DEF ParseTable
  <2> QED
    BY <1>3, <2>1
<1>10. SubSeq(d.table, header + 1, hi) \in Seq(Cell)
  BY <1>2, <1>4, <1>5, <1>7, Part, Zenon
<1> QED
  BY <1>1, <1>8, <1>9, <1>10

\* A table with one of a disc's digests is the disc's.
LEMMA TrustedTable ==
    ASSUME NEW d \in Discs, NEW c, c = ParseCertificate(d.certificate),
           NEW n \in Nat, NEW bytes, DigestVerifies(c, n, bytes)
    PROVE  bytes = d.table
<1>1. c.content_hash_table_digests \in Seq(Cell)
  BY IssuedCertificate, FieldTypes
<1>2. n + 1 \in DOMAIN c.content_hash_table_digests
  BY <1>1 DEF DigestVerifies
<1>3. [data |-> d.table, hash |-> c.content_hash_table_digests[n + 1]] \in Hashes
  BY <1>2, TablesAssumption
<1>4. Hash(bytes) = c.content_hash_table_digests[n + 1]
  BY DEF DigestVerifies
<1> QED
  BY <1>3, <1>4, HashedIs

\* A unit with the hash that a disc's table has at an index is the one there.
LEMMA AcceptedUnit ==
    ASSUME NEW d \in Discs, NEW n \in Nat, NEW unit, UnitVerifies(TableOf(d), n, unit)
    PROVE  n + 1 \in DOMAIN d.units /\ d.units[n + 1] = unit
<1>1. PICK t : t = TableOf(d)
  OBVIOUS
<1>2. t.hash_values \in Seq(Cell)
  <2>1. d.table \in Seq(Cell) /\ Len(d.table) <= Len(d.table)
    BY TablesAssumption
  <2> QED
    BY <1>1, <2>1, TableFits
<1>3. n + 1 \in DOMAIN t.hash_values
  BY <1>1, <1>2 DEF UnitVerifies
<1>4. n + 1 \in DOMAIN d.units /\ [data |-> d.units[n + 1], hash |-> t.hash_values[n + 1]] \in Hashes
  BY <1>1, <1>3, TablesAssumption DEF TableOf
<1>5. Hash(unit) = t.hash_values[n + 1]
  BY <1>1 DEF UnitVerifies
<1> QED
  BY <1>4, <1>5, HashedIs
-----------------------------------------------------------------------------
(* The invariant *)

\* The files are those of a list or of two discs, and were harmed, if at all,
\* before anything was read of them.
Mastered ==
    \/ \E x \in Crls : mastered = [f \in {"crl"} |-> x.file]
    \/ \E d, e \in Discs :
          mastered = [f \in {"certificate", "table"} |->
                         IF f = "table" THEN e.table ELSE d.certificate]
FilesOK ==
    /\ Mastered
    /\ file \in [FileNames -> Seq(Cell)]
    /\ pc \in {"delivery", "reading"}
Untouched ==
    pc = "delivery" =>
        crl = None /\ certificate = None /\ table = None /\ trusted = {} /\ answer.call = None

\* What is held was parsed from the files that are there.
HeldCrl == crl # None => "crl" \in FileNames /\ crl = ParseCrl(file["crl"]) /\ crl.error = None
HeldCertificate ==
    certificate # None =>
        /\ "certificate" \in FileNames /\ certificate = ParseCertificate(file["certificate"])
        /\ certificate.error = None
TableRead ==
    ParseTable(file["table"], certificate.number_of_digests, certificate.number_of_hash_units)
HeldTable == table # None => certificate # None /\ table = TableRead

\* What is trusted was found right.
Trusting ==
    /\ "crl" \in trusted => crl # None /\ LastSegmentVerifies(crl)
    /\ "certificate" \in trusted => certificate # None /\ SignatureVerifies(certificate)
    /\ "table" \in trusted =>
          certificate # None /\ \E n \in {0, 1} : DigestVerifies(certificate, n, file["table"])

\* The latest answer is the one the state gives.
Answered ==
    /\ answer.call = "parse_crl" =>
          "crl" \in FileNames /\ answer.says = ParseCrl(file["crl"]).error
    /\ answer.call = "verify_crl" =>
          crl # None /\ (AllSegmentsVerify(crl) /\ LastSegmentVerifies(crl) => answer.says = None)
    /\ answer.call = "parse_certificate" =>
          /\ "certificate" \in FileNames
          /\ answer.says = ParseCertificate(file["certificate"]).error
    /\ answer.call = "verify_certificate" =>
          certificate # None /\ (SignatureVerifies(certificate) => answer.says = None)
    /\ answer.call = "parse_table" => certificate # None /\ answer.says = TableRead.error
    /\ answer.call = "unit" =>
          /\ table # None /\ answer.index \in Nat
          /\ answer.says = None => UnitVerifies(table, answer.index, answer.unit)

Inv == FilesOK /\ Untouched /\ HeldCrl /\ HeldCertificate /\ HeldTable /\ Trusting /\ Answered

\* The files as they were made.
LEMMA MasteredFiles ==
    ASSUME Mastered
    PROVE  mastered \in [FileNames -> Seq(Cell)]
<1>1. CASE \E x \in Crls : mastered = [f \in {"crl"} |-> x.file]
  <2>1. PICK x \in Crls : mastered = [f \in {"crl"} |-> x.file]
    BY <1>1
  <2>2. x.file \in Seq(Cell)
    BY ListsAssumption
  <2> QED
    BY <2>1, <2>2 DEF FileNames
<1>2. CASE \E d, e \in Discs :
              mastered = [f \in {"certificate", "table"} |->
                             IF f = "table" THEN e.table ELSE d.certificate]
  <2>1. PICK d \in Discs, e \in Discs :
             mastered = [f \in {"certificate", "table"} |->
                            IF f = "table" THEN e.table ELSE d.certificate]
    BY <1>2
  <2>2. d.certificate \in Seq(Cell) /\ e.table \in Seq(Cell)
    BY CertificatesAssumption, TablesAssumption
  <2> QED
    BY <2>1, <2>2 DEF FileNames
<1> QED
  BY <1>1, <1>2 DEF Mastered

LEMMA InvInit ==
    Init => Inv
<1> SUFFICES ASSUME Init PROVE Inv
  OBVIOUS
<1>1. /\ Mastered /\ file = mastered /\ pc = "delivery"
      /\ crl = None /\ certificate = None /\ table = None
      /\ trusted = {} /\ answer = [call |-> None, says |-> None, index |-> 0, unit |-> None]
  BY DEF Init, Mastered
<1>2. FilesOK
  BY <1>1, MasteredFiles DEF FilesOK
<1>3. Untouched /\ HeldCrl /\ HeldCertificate /\ HeldTable /\ Trusting
  BY <1>1 DEF Untouched, HeldCrl, HeldCertificate, HeldTable, Trusting
<1>4. answer.call = None
  BY <1>1
<1>5. Answered
  BY <1>4, AnswerAssumption DEF Answered
<1> QED
  BY <1>2, <1>3, <1>5 DEF Inv

\* While nothing has been read, the files may become anything.
LEMMA InvHarm ==
    ASSUME Inv, NEW f \in FileNames, NEW bytes \in Seq(Cell), Harm(f, bytes)
    PROVE  Inv'
<1>1. /\ pc = "delivery" /\ file' = [file EXCEPT ![f] = bytes]
      /\ mastered' = mastered /\ pc' = pc /\ crl' = crl /\ certificate' = certificate
      /\ table' = table /\ trusted' = trusted /\ answer' = answer
  BY DEF Harm, parsed
<1>2. FilesOK'
  BY <1>1 DEF Inv, FilesOK, FileNames, Mastered
<1>3. crl = None /\ certificate = None /\ table = None /\ trusted = {} /\ answer.call = None
  BY <1>1 DEF Inv, Untouched
<1>4. (Untouched /\ HeldCrl /\ HeldCertificate /\ HeldTable /\ Trusting /\ Answered)'
  <2>1. crl' = None /\ certificate' = None /\ table' = None /\ trusted' = {} /\ answer'.call = None
    BY <1>1, <1>3
  <2>2. (Untouched /\ HeldCrl /\ HeldCertificate /\ HeldTable /\ Trusting)'
    BY <2>1 DEF Untouched, HeldCrl, HeldCertificate, HeldTable, Trusting
  <2>3. Answered'
    BY <2>1, AnswerAssumption DEF Answered
  <2> QED
    BY <2>2, <2>3
<1> QED
  BY <1>2, <1>4 DEF Inv

LEMMA InvDeliver ==
    ASSUME Inv, NEW f \in FileNames, NEW n \in PadLens, Deliver(f, n)
    PROVE  Inv'
<1>1. /\ pc = "delivery" /\ file' = [file EXCEPT ![f] = file[f] \o [z \in 1..n |-> 0]]
      /\ mastered' = mastered /\ pc' = "reading" /\ crl' = crl /\ certificate' = certificate
      /\ table' = table /\ trusted' = trusted /\ answer' = answer
  BY DEF Deliver, parsed
<1>2. FilesOK'
  <2>1. n \in Nat
    BY DeliveryAssumption
  <2>2. [z \in 1..n |-> 0] \in Seq(Cell)
    <3>1. 0 \in Cell
      BY DEF Cell, Nibble
    <3> QED
      BY <2>1, <3>1
  <2>3. file[f] \in Seq(Cell)
    BY DEF Inv, FilesOK
  <2>4. PICK bytes \in Seq(Cell) : bytes = file[f] \o [z \in 1..n |-> 0]
    BY <2>2, <2>3, ConcatProperties
  <2> QED
    BY <1>1, <2>4 DEF Inv, FilesOK, FileNames, Mastered
<1>3. crl = None /\ certificate = None /\ table = None /\ trusted = {} /\ answer.call = None
  BY <1>1 DEF Inv, Untouched
<1>4. (Untouched /\ HeldCrl /\ HeldCertificate /\ HeldTable /\ Trusting /\ Answered)'
  <2>1. crl' = None /\ certificate' = None /\ table' = None /\ trusted' = {} /\ answer'.call = None
    BY <1>1, <1>3
  <2>2. (Untouched /\ HeldCrl /\ HeldCertificate /\ HeldTable /\ Trusting)'
    BY <2>1 DEF Untouched, HeldCrl, HeldCertificate, HeldTable, Trusting
  <2>3. Answered'
    BY <2>1, AnswerAssumption DEF Answered
  <2> QED
    BY <2>2, <2>3
<1> QED
  BY <1>2, <1>4 DEF Inv

\* The calls leave the files alone and come after their delivery.
LEMMA CallKeepsFiles ==
    ASSUME Inv, pc = "reading", UNCHANGED <<mastered, file, pc>>
    PROVE  FilesOK' /\ Untouched'
BY DEF Inv, FilesOK, Mastered, FileNames, Untouched

\* Something held was parsed after the delivery.
LEMMA HeldIsReading ==
    ASSUME Inv, crl # None \/ certificate # None \/ table # None
    PROVE  pc = "reading"
BY DEF Inv, FilesOK, Untouched

LEMMA InvReadCrl ==
    ASSUME Inv, ReadCrl
    PROVE  Inv'
<1>1. PICK p : /\ p = ParseCrl(file["crl"]) /\ crl' = Kept(p)
               /\ answer' = [call |-> "parse_crl", says |-> p.error, index |-> 0, unit |-> None]
  BY DEF ReadCrl, Answer
<1>2. /\ pc = "reading" /\ "crl" \in FileNames /\ crl = None
      /\ mastered' = mastered /\ file' = file /\ pc' = pc /\ certificate' = certificate
      /\ table' = table /\ trusted' = trusted
  BY DEF ReadCrl
<1>3. FilesOK' /\ Untouched'
  BY <1>2, CallKeepsFiles
<1>4. HeldCrl'
  BY <1>1, <1>2 DEF HeldCrl, Kept, FileNames
<1>5. HeldCertificate' /\ HeldTable'
  BY <1>2 DEF Inv, HeldCertificate, HeldTable, TableRead, FileNames
<1>6. Trusting'
  BY <1>2 DEF Inv, Trusting
<1>7. Answered'
  BY <1>1, <1>2 DEF Answered, FileNames
<1> QED
  BY <1>3, <1>4, <1>5, <1>6, <1>7 DEF Inv

LEMMA InvVerifyCrl ==
    ASSUME Inv, NEW all \in BOOLEAN, VerifyCrl(all)
    PROVE  Inv'
<1>1. PICK ok : /\ ok = IF all THEN AllSegmentsVerify(crl) ELSE LastSegmentVerifies(crl)
                /\ trusted' = IF ok THEN trusted \cup {"crl"} ELSE trusted
                /\ answer' = [call |-> "verify_crl", says |-> IF ok THEN None ELSE "signature",
                              index |-> 0, unit |-> None]
  BY DEF VerifyCrl, Answer
<1>2. /\ crl # None
      /\ mastered' = mastered /\ file' = file /\ pc' = pc /\ crl' = crl
      /\ certificate' = certificate /\ table' = table
  BY DEF VerifyCrl, parsed
<1>3. FilesOK' /\ Untouched'
  BY <1>2, HeldIsReading, CallKeepsFiles
<1>4. HeldCrl' /\ HeldCertificate' /\ HeldTable'
  BY <1>2 DEF Inv, HeldCrl, HeldCertificate, HeldTable, TableRead, FileNames
<1>5. Trusting'
  <2>1. ok => LastSegmentVerifies(crl)
    <3>1. AllSegmentsVerify(crl) => LastSegmentVerifies(crl)
      <4>1. file["crl"] \in Seq(Cell) /\ crl = ParseCrl(file["crl"]) /\ crl.error = None
        BY <1>2 DEF Inv, FilesOK, HeldCrl
      <4>2. Good(file["crl"], crl)
        BY <4>1, ParsedList
      <4>3. Len(crl.segments) \in DOMAIN crl.segments
        BY <4>2 DEF Good, IsListOf
      <4> QED
        BY <4>3 DEF AllSegmentsVerify, LastSegmentVerifies
    <3> QED
      BY <1>1, <3>1
  <2> QED
    BY <1>1, <1>2, <2>1 DEF Inv, Trusting
<1>6. Answered'
  <2>1. AllSegmentsVerify(crl) /\ LastSegmentVerifies(crl) => answer'.says = None
    BY <1>1
  <2>2. answer'.call = "verify_crl"
    BY <1>1
  <2> QED
    BY <1>2, <2>1, <2>2 DEF Answered
<1> QED
  BY <1>3, <1>4, <1>5, <1>6 DEF Inv

LEMMA InvReadCertificate ==
    ASSUME Inv, ReadCertificate
    PROVE  Inv'
<1>1. PICK p : /\ p = ParseCertificate(file["certificate"]) /\ certificate' = Kept(p)
               /\ answer' = [call |-> "parse_certificate", says |-> p.error,
                             index |-> 0, unit |-> None]
  BY DEF ReadCertificate, Answer
<1>2. /\ pc = "reading" /\ "certificate" \in FileNames /\ certificate = None
      /\ mastered' = mastered /\ file' = file /\ pc' = pc /\ crl' = crl
      /\ table' = table /\ trusted' = trusted
  BY DEF ReadCertificate
<1>3. FilesOK' /\ Untouched'
  BY <1>2, CallKeepsFiles
<1>4. HeldCertificate'
  BY <1>1, <1>2 DEF HeldCertificate, Kept, FileNames
<1>5. HeldCrl' /\ HeldTable'
  BY <1>2 DEF Inv, HeldCrl, HeldTable, FileNames
<1>6. Trusting'
  BY <1>2 DEF Inv, Trusting
<1>7. Answered'
  BY <1>1, <1>2 DEF Answered, FileNames
<1> QED
  BY <1>3, <1>4, <1>5, <1>6, <1>7 DEF Inv

LEMMA InvVerifyCertificate ==
    ASSUME Inv, VerifyCertificate
    PROVE  Inv'
<1>1. PICK ok : /\ ok = SignatureVerifies(certificate)
                /\ trusted' = IF ok THEN trusted \cup {"certificate"} ELSE trusted
                /\ answer' = [call |-> "verify_certificate",
                              says |-> IF ok THEN None ELSE "signature", index |-> 0, unit |-> None]
  BY DEF VerifyCertificate, Answer
<1>2. /\ certificate # None
      /\ mastered' = mastered /\ file' = file /\ pc' = pc /\ crl' = crl
      /\ certificate' = certificate /\ table' = table
  BY DEF VerifyCertificate, parsed
<1>3. FilesOK' /\ Untouched'
  BY <1>2, HeldIsReading, CallKeepsFiles
<1>4. HeldCrl' /\ HeldCertificate' /\ HeldTable'
  BY <1>2 DEF Inv, HeldCrl, HeldCertificate, HeldTable, TableRead, FileNames
<1>5. Trusting'
  BY <1>1, <1>2 DEF Inv, Trusting
<1>6. Answered'
  BY <1>1, <1>2 DEF Answered
<1> QED
  BY <1>3, <1>4, <1>5, <1>6 DEF Inv

LEMMA InvCheckDigest ==
    ASSUME Inv, NEW n \in {0, 1}, CheckDigest(n)
    PROVE  Inv'
<1>1. PICK ok : /\ ok = DigestVerifies(certificate, n, file["table"])
                /\ trusted' = IF ok THEN trusted \cup {"table"} ELSE trusted
                /\ answer' = [call |-> "digest",
                              says |-> IF ok THEN None ELSE "mismatch", index |-> 0, unit |-> None]
  BY DEF CheckDigest, Answer
<1>2. /\ certificate # None
      /\ mastered' = mastered /\ file' = file /\ pc' = pc /\ crl' = crl
      /\ certificate' = certificate /\ table' = table
  BY DEF CheckDigest, parsed
<1>3. FilesOK' /\ Untouched'
  BY <1>2, HeldIsReading, CallKeepsFiles
<1>4. HeldCrl' /\ HeldCertificate' /\ HeldTable'
  BY <1>2 DEF Inv, HeldCrl, HeldCertificate, HeldTable, TableRead, FileNames
<1>5. Trusting'
  BY <1>1, <1>2 DEF Inv, Trusting
<1>6. Answered'
  <2>1. answer'.call = "digest"
    BY <1>1
  <2> QED
    BY <2>1 DEF Answered
<1> QED
  BY <1>3, <1>4, <1>5, <1>6 DEF Inv

LEMMA InvReadTable ==
    ASSUME Inv, ReadTable
    PROVE  Inv'
<1>1. PICK p : /\ p = TableRead /\ table' = Kept(p)
               /\ answer' = [call |-> "parse_table", says |-> p.error, index |-> 0, unit |-> None]
  BY DEF ReadTable, Answer, TableRead
<1>2. /\ certificate # None
      /\ mastered' = mastered /\ file' = file /\ pc' = pc /\ crl' = crl
      /\ certificate' = certificate /\ trusted' = trusted
  BY DEF ReadTable
<1>3. FilesOK' /\ Untouched'
  BY <1>2, HeldIsReading, CallKeepsFiles
<1>4. TableRead' = TableRead
  BY <1>2 DEF TableRead
<1>5. HeldCrl' /\ HeldCertificate'
  BY <1>2 DEF Inv, HeldCrl, HeldCertificate, FileNames
<1>6. HeldTable'
  BY <1>1, <1>2, <1>4 DEF HeldTable, Kept
<1>7. Trusting'
  BY <1>2 DEF Inv, Trusting
<1>8. Answered'
  <2>1. answer'.call = "parse_table" /\ answer'.says = TableRead.error
    BY <1>1
  <2> QED
    BY <1>2, <1>4, <2>1 DEF Answered
<1> QED
  BY <1>3, <1>5, <1>6, <1>7, <1>8 DEF Inv

LEMMA InvCheckUnit ==
    ASSUME Inv, NEW n \in HashUnitIndices, NEW unit \in Units, CheckUnit(n, unit)
    PROVE  Inv'
<1>1. answer' = [call |-> "unit",
                 says |-> IF UnitVerifies(table, n, unit) THEN None ELSE "mismatch",
                 index |-> n, unit |-> unit]
  BY DEF CheckUnit
<1>2. /\ table # None
      /\ mastered' = mastered /\ file' = file /\ pc' = pc /\ crl' = crl
      /\ certificate' = certificate /\ table' = table /\ trusted' = trusted
  BY DEF CheckUnit, parsed
<1>3. FilesOK' /\ Untouched'
  BY <1>2, HeldIsReading, CallKeepsFiles
<1>4. HeldCrl' /\ HeldCertificate' /\ HeldTable'
  BY <1>2 DEF Inv, HeldCrl, HeldCertificate, HeldTable, TableRead, FileNames
<1>5. Trusting'
  BY <1>2 DEF Inv, Trusting
<1>6. Answered'
  <2>1. n \in Nat
    <3>1. PICK d \in Discs : \E i \in DOMAIN d.units : n = i - 1
      BY DEF HashUnitIndices
    <3>2. DOMAIN d.units = DOMAIN TableOf(d).hash_values
      BY TablesAssumption DEF TableOf
    <3>3. TableOf(d).hash_values \in Seq(Cell)
      <4>1. d.table \in Seq(Cell) /\ Len(d.table) <= Len(d.table)
        BY TablesAssumption
      <4> QED
        BY <4>1, TableFits
    <3>4. DOMAIN d.units = 1..Len(TableOf(d).hash_values)
      BY <3>2, <3>3
    <3> QED
      BY <3>1, <3>4
  <2>2. answer'.call = "unit" /\ answer'.index = n /\ answer'.unit = unit
    BY <1>1
  <2>3. answer'.says = None => UnitVerifies(table, n, unit)
    BY <1>1, AnswerAssumption
  <2> QED
    BY <1>2, <2>1, <2>2, <2>3 DEF Answered
<1> QED
  BY <1>3, <1>4, <1>5, <1>6 DEF Inv

LEMMA InvNext ==
    Inv /\ [Next]_vars => Inv'
<1> SUFFICES ASSUME Inv, [Next]_vars PROVE Inv'
  OBVIOUS
<1>1. CASE \E f \in FileNames : \E n \in 0..(Len(file[f]) - 1) : Cut(f, n)
  <2>1. PICK f \in FileNames : \E n \in 0..(Len(file[f]) - 1) : Cut(f, n)
    BY <1>1
  <2>2. PICK n \in 0..(Len(file[f]) - 1) : Cut(f, n)
    BY <2>1
  <2>3. file[f] \in Seq(Cell)
    BY DEF Inv, FilesOK
  <2>4. n \in Nat /\ n <= Len(file[f])
    BY <2>3
  <2>5. SubSeq(file[f], 1, n) \in Seq(Cell)
    <3>1. n <= n
      BY <2>4
    <3> QED
      BY <2>3, <2>4, <3>1, Prefix
  <2> QED
    BY <2>2, <2>5, InvHarm DEF Cut
<1>2. CASE \E f \in FileNames : \E c \in DOMAIN file[f], value \in Damages : Damage(f, c, value)
  <2>1. PICK f \in FileNames : \E c \in DOMAIN file[f], value \in Damages : Damage(f, c, value)
    BY <1>2
  <2>2. PICK c \in DOMAIN file[f], value \in Damages : Damage(f, c, value)
    BY <2>1
  <2>3. file[f] \in Seq(Cell) /\ value \in Cell
    BY DeliveryAssumption DEF Inv, FilesOK
  <2>4. [file[f] EXCEPT ![c] = value] \in Seq(Cell)
    BY <2>3
  <2> QED
    BY <2>2, <2>4, InvHarm DEF Damage
<1>3. CASE \E f \in FileNames, n \in PadLens : Deliver(f, n)
  BY <1>3, InvDeliver
<1>4. CASE ReadCrl
  BY <1>4, InvReadCrl
<1>5. CASE \E all \in BOOLEAN : VerifyCrl(all)
  BY <1>5, InvVerifyCrl
<1>6. CASE ReadCertificate
  BY <1>6, InvReadCertificate
<1>7. CASE VerifyCertificate
  BY <1>7, InvVerifyCertificate
<1>8. CASE \E n \in {0, 1} : CheckDigest(n)
  BY <1>8, InvCheckDigest
<1>9. CASE ReadTable
  BY <1>9, InvReadTable
<1>10. CASE \E n \in HashUnitIndices, unit \in Units : CheckUnit(n, unit)
  BY <1>10, InvCheckUnit
<1>11. CASE UNCHANGED vars
  <2>1. /\ mastered' = mastered /\ file' = file /\ pc' = pc /\ crl' = crl
        /\ certificate' = certificate /\ table' = table /\ trusted' = trusted /\ answer' = answer
    BY <1>11 DEF vars, parsed
  <2> QED
    BY <2>1 DEF Inv, FilesOK, Mastered, FileNames, Untouched, HeldCrl, HeldCertificate, HeldTable,
                TableRead, Trusting, Answered
<1> QED
  BY <1>1, <1>2, <1>3, <1>4, <1>5, <1>6, <1>7, <1>8, <1>9, <1>10, <1>11, Zenon DEF Next

\* What is held of a file is what the parsers make of it, what is trusted has
\* been found right, and an answer is the one the state gives.
THEOREM Invariant ==
    Spec => []Inv
<1> QED
  BY InvInit, InvNext, PTL DEF Spec
-----------------------------------------------------------------------------
(* What it implies *)

\* The list that is held.
LEMMA HeldIsGood ==
    ASSUME Inv, crl # None
    PROVE  file["crl"] \in Seq(Cell) /\ crl = ParseCrl(file["crl"]) /\ Good(file["crl"], crl)
<1>1. file["crl"] \in Seq(Cell) /\ crl = ParseCrl(file["crl"]) /\ crl.error = None
  BY DEF Inv, FilesOK, HeldCrl
<1> QED
  BY <1>1, ParsedList

\* Written again, what crl.rs parsed is the file it was read from: as a whole
\* to the end of the last segment, and before each of the signatures.
THEOREM SignedRangeIsPrefix ==
    Spec => []SignedRangeIsThePrefix
<1>1. Inv => SignedRangeIsThePrefix
  <2> SUFFICES ASSUME Inv, crl # None
               PROVE  /\ CrlToBytes(crl) = SubSeq(file["crl"], 1, End(Len(crl.segments)))
                      /\ \A k \in DOMAIN crl.segments :
                            SignedRange(crl, k) = SubSeq(file["crl"], 1, End(k) - SigLen)
    BY DEF SignedRangeIsThePrefix
  <2>1. IsListOf(crl, file["crl"])
    BY HeldIsGood DEF Good
  <2>2. DOMAIN crl.segments = 1..Len(crl.segments)
    BY <2>1 DEF IsListOf
  <2>3. CrlToBytes(crl) = SubSeq(file["crl"], 1, End(Len(crl.segments)))
    BY <2>1, ListWrittenAgain DEF End
  <2>4. ASSUME NEW k \in DOMAIN crl.segments
        PROVE  SignedRange(crl, k) = SubSeq(file["crl"], 1, End(k) - SigLen)
    BY <2>1, <2>2, SignedRangeOfList DEF End
  <2> QED
    BY <2>3, <2>4
<1> QED
  BY <1>1, Invariant, PTL

\* A list whose last signature verify_last_segment_signature found right
\* revokes whom one list of the AACS LA revokes, however it was harmed.
THEOREM VerifiedListRevokes ==
    Spec => []VerifiedListRevokesAsIssued
<1>1. Inv => VerifiedListRevokesAsIssued
  <2> SUFFICES ASSUME Inv, "crl" \in trusted PROVE \E x \in Crls : Revokes(crl, x)
    BY DEF VerifiedListRevokesAsIssued
  <2>1. crl # None /\ LastSegmentVerifies(crl)
    BY DEF Inv, Trusting
  <2>2. file["crl"] \in Seq(Cell) /\ crl = ParseCrl(file["crl"]) /\ crl.error = None
    BY <2>1, HeldIsGood DEF Good
  <2> QED
    BY <2>1, <2>2, VerifiedList
<1> QED
  BY <1>1, Invariant, PTL

\* parse_revocation_record_set leaves no record of a certificate's or a
\* server's ID out, whatever stands around it.
THEOREM NoRecordSwallowed ==
    Spec => []NoRecordIsSwallowed
<1>1. Inv => NoRecordIsSwallowed
  <2> SUFFICES ASSUME Inv, crl # None, NEW k \in DOMAIN crl.segments
               PROVE  IdRecords(crl.segments[k].records) = IdSlots(SlotsOf(k))
    BY DEF NoRecordIsSwallowed
  <2>1. IsListOf(crl, file["crl"]) /\ file["crl"] \in Seq(Cell)
    BY HeldIsGood DEF Good
  <2>2. k \in 1..Len(crl.segments)
    BY <2>1 DEF IsListOf
  <2>3. PICK lo, hi : lo = End(k - 1) /\ hi = End(k)
    OBVIOUS
  <2>4. LaidOut(file["crl"], crl.segments[k], lo, hi)
    BY <2>1, <2>2, <2>3 DEF IsListOf, Layout, End
  <2>5. PICK a \in Nat, b \in Nat : a = lo + SizeLen /\ b = hi - SigLen
    <3>1. lo \in Nat /\ hi - SigLen \in Nat
      BY <2>4 DEF LaidOut
    <3>2. lo + SizeLen \in Nat
      BY <3>1 DEF SizeLen
    <3> QED
      BY <3>1, <3>2
  <2>6. a <= b /\ b <= Len(file["crl"]) /\ (b - a) % 5 = 0
    <3>1. a <= b /\ hi \in Nat /\ hi <= Len(file["crl"]) /\ (b - a) % 5 = 0
      BY <2>4, <2>5 DEF LaidOut, SlotLen
    <3>2. SigLen \in Nat /\ Len(file["crl"]) \in Nat
      BY <2>1, CrlAssumption
    <3>3. b <= Len(file["crl"])
      BY <2>5, <3>1, <3>2
    <3> QED
      BY <3>1, <3>3
  <2>7. PICK cells \in Seq(Cell) :
             cells = SubSeq(file["crl"], a + 1, b) /\ IsPart(cells, file["crl"], a, b)
    BY <2>1, <2>6, Part, Zenon
  <2>8. PICK K \in Nat : Len(cells) = K * 5
    <3>1. Len(cells) = b - a
      BY <2>7 DEF IsPart
    <3>2. b - a \in Nat
      BY <2>6
    <3>3. \E K \in Nat : b - a = K * 5
      <4>1. PICK n \in Nat : n = b - a /\ n % 5 = 0
        BY <2>6, <3>2
      <4>2. n = (n \div 5) * 5 /\ n \div 5 \in Nat
        BY <4>1
      <4> QED
        BY <4>1, <4>2
    <3> QED
      BY <3>1, <3>3
  <2>9. IdRecords(RecordSet(cells)) = IdUpto(Slots(cells), Len(Slots(cells)))
    BY <2>8, RecordSetOfSlots DEF IsRecordSet
  <2>10. crl.segments[k].records = RecordSet(cells)
    BY <2>4, <2>5, <2>7 DEF LaidOut
  <2>11. SlotsOf(k) = Slots(cells)
    BY <2>3, <2>5, <2>7 DEF SlotsOf
  <2>12. IdSlots(Slots(cells)) = IdUpto(Slots(cells), Len(Slots(cells)))
    <3>1. Slots(cells) \in Seq(SlotType)
      BY <2>8, SlotsOfCells
    <3>2. DOMAIN Slots(cells) = 1..Len(Slots(cells))
      BY <3>1
    <3> QED
      BY <3>2, Zenon DEF IdSlots, IdUpto, OneIf
  <2> QED
    BY <2>9, <2>10, <2>11, <2>12
<1> QED
  BY <1>1, Invariant, PTL

\* A certificate whose signature ContentCertificate::verify_signature found
\* right has the fields of one the AACS LA signed.
THEOREM VerifiedCertificates ==
    Spec => []VerifiedCertificateIsIssued
<1>1. Inv => VerifiedCertificateIsIssued
  <2> SUFFICES ASSUME Inv, "certificate" \in trusted
               PROVE  \E d \in Discs : certificate = ParseCertificate(d.certificate)
    BY DEF VerifiedCertificateIsIssued
  <2>1. /\ SignatureVerifies(certificate) /\ file["certificate"] \in Seq(Cell)
        /\ certificate = ParseCertificate(file["certificate"]) /\ certificate.error = None
    BY DEF Inv, Trusting, FilesOK, HeldCertificate
  <2> QED
    BY <2>1, VerifiedCertificate
<1> QED
  BY <1>1, Invariant, PTL

\* With certificate and table trusted, ContentHashTable::verify_hash_unit
\* accepts at an index the unit that was mastered there and no other.
THEOREM AcceptedUnits ==
    Spec => []AcceptedUnitIsMastered
<1>1. Inv => AcceptedUnitIsMastered
  <2> SUFFICES ASSUME Inv, answer.call = "unit", answer.says = None,
                      {"certificate", "table"} \subseteq trusted
               PROVE  \E d \in Discs :
                          /\ d.id = certificate.content_certificate_id
                          /\ answer.index + 1 \in DOMAIN d.units
                          /\ d.units[answer.index + 1] = answer.unit
    BY DEF AcceptedUnitIsMastered
  <2>1. /\ SignatureVerifies(certificate) /\ file["certificate"] \in Seq(Cell)
        /\ certificate = ParseCertificate(file["certificate"]) /\ certificate.error = None
    BY DEF Inv, Trusting, FilesOK, HeldCertificate
  <2>2. PICK d \in Discs : certificate = ParseCertificate(d.certificate)
    BY <2>1, VerifiedCertificate
  <2>3. PICK n \in {0, 1} : DigestVerifies(certificate, n, file["table"])
    BY DEF Inv, Trusting
  <2>4. file["table"] = d.table
    <3>1. n \in Nat
      OBVIOUS
    <3> QED
      BY <2>2, <2>3, <3>1, TrustedTable
  <2>5. table = TableOf(d)
    BY <2>2, <2>4 DEF Inv, Answered, HeldTable, TableRead, TableOf
  <2>6. answer.index \in Nat /\ UnitVerifies(TableOf(d), answer.index, answer.unit)
    BY <2>5 DEF Inv, Answered
  <2>7. d.id = certificate.content_certificate_id
    BY <2>2, TablesAssumption
  <2> QED
    BY <2>6, <2>7, AcceptedUnit
<1> QED
  BY <1>1, Invariant, PTL

\* What is padded, of a file that is there.
LEMMA PaddedFile ==
    ASSUME Inv, NEW f \in FileNames, Padded(f)
    PROVE  mastered[f] \in Seq(Cell) /\ file[f] \in Seq(Cell) /\ PaddedTo(mastered[f], file[f])
<1>1. mastered[f] \in Seq(Cell) /\ file[f] \in Seq(Cell)
  BY MasteredFiles DEF Inv, FilesOK
<1> QED
  BY <1>1 DEF Padded, PaddedTo

\* Whose files they are.
LEMMA MasteredList ==
    ASSUME Inv, "crl" \in FileNames
    PROVE  \E x \in Crls : mastered["crl"] = x.file
<1>1. Mastered
  BY DEF Inv, FilesOK
<1>2. CASE \E x \in Crls : mastered = [f \in {"crl"} |-> x.file]
  BY <1>2
<1>3. CASE \E d, e \in Discs :
              mastered = [f \in {"certificate", "table"} |->
                             IF f = "table" THEN e.table ELSE d.certificate]
  BY <1>3 DEF FileNames
<1> QED
  BY <1>1, <1>2, <1>3 DEF Mastered

LEMMA MasteredCertificate ==
    ASSUME Inv, "certificate" \in FileNames
    PROVE  "table" \in FileNames /\ \E d \in Discs : mastered["certificate"] = d.certificate
<1>1. Mastered
  BY DEF Inv, FilesOK
<1>2. CASE \E x \in Crls : mastered = [f \in {"crl"} |-> x.file]
  BY <1>2 DEF FileNames
<1>3. CASE \E d, e \in Discs :
              mastered = [f \in {"certificate", "table"} |->
                             IF f = "table" THEN e.table ELSE d.certificate]
  <2>1. PICK d \in Discs, e \in Discs :
             mastered = [f \in {"certificate", "table"} |->
                            IF f = "table" THEN e.table ELSE d.certificate]
    BY <1>3
  <2>2. mastered["certificate"] = d.certificate /\ "table" \in DOMAIN mastered
    BY <2>1
  <2> QED
    BY <2>2 DEF FileNames
<1> QED
  BY <1>1, <1>2, <1>3 DEF Mastered

\* What a padded list and a padded certificate are parsed as.
LEMMA PaddedListIsIssued ==
    ASSUME Inv, "crl" \in FileNames, Padded("crl")
    PROVE  /\ ParseCrl(file["crl"]).error = None
           /\ LastSegmentVerifies(ParseCrl(file["crl"])) /\ AllSegmentsVerify(ParseCrl(file["crl"]))
<1>1. PICK x \in Crls : mastered["crl"] = x.file
  BY MasteredList
<1>2. PICK list : list = ParseCrl(x.file)
  OBVIOUS
<1>3. list.error = None /\ LastSegmentVerifies(list) /\ AllSegmentsVerify(list)
  BY <1>2, IssuedListVerifies
<1>4. ParseCrl(file["crl"]) = list
  BY <1>1, <1>2, <1>3, PaddedFile, PaddedList
<1> QED
  BY <1>3, <1>4

LEMMA PaddedCertificateIsIssued ==
    ASSUME Inv, "certificate" \in FileNames, Padded("certificate"), NEW d \in Discs,
           mastered["certificate"] = d.certificate
    PROVE  /\ ParseCertificate(file["certificate"]) = ParseCertificate(d.certificate)
           /\ ParseCertificate(file["certificate"]).error = None
           /\ SignatureVerifies(ParseCertificate(file["certificate"]))
<1>1. PICK c : c = ParseCertificate(d.certificate)
  OBVIOUS
<1>2. d.certificate \in Seq(Cell) /\ Fits(d.certificate) /\ c = Fields(d.certificate)
      /\ SignatureVerifies(c)
  BY <1>1, IssuedCertificate
<1>3. file["certificate"] \in Seq(Cell) /\ PaddedTo(d.certificate, file["certificate"])
  BY PaddedFile
<1>4. Fits(file["certificate"]) /\ Fields(file["certificate"]) = c
  BY <1>2, <1>3, PaddedCertificate
<1>5. ParseCertificate(file["certificate"]) = c
  BY <1>4, CertificateFields
<1>6. c.error = None
  BY <1>2 DEF Fields
<1> QED
  BY <1>1, <1>2, <1>5, <1>6

\* A file that arrives as it was made, padded or not, is parsed and its
\* signatures are found right by crl.rs, content_certificate.rs and cht.rs.
THEOREM IntactFiles ==
    Spec => []IntactFilesPass
<1>1. Inv => IntactFilesPass
  <2> SUFFICES ASSUME Inv PROVE IntactFilesPass
    OBVIOUS
  <2>1. ASSUME answer.call \in {"parse_crl", "verify_crl"}, Padded("crl")
        PROVE  answer.says = None
    <3>1. "crl" \in FileNames
      BY <2>1 DEF Inv, Answered, HeldCrl
    <3>2. /\ ParseCrl(file["crl"]).error = None
          /\ LastSegmentVerifies(ParseCrl(file["crl"])) /\ AllSegmentsVerify(ParseCrl(file["crl"]))
      BY <2>1, <3>1, PaddedListIsIssued
    <3>3. CASE answer.call = "parse_crl"
      BY <3>2, <3>3 DEF Inv, Answered
    <3>4. CASE answer.call = "verify_crl"
      <4>1. crl = ParseCrl(file["crl"])
        BY <3>4 DEF Inv, Answered, HeldCrl
      <4> QED
        BY <3>2, <3>4, <4>1 DEF Inv, Answered
    <3> QED
      BY <2>1, <3>3, <3>4
  <2>2. ASSUME answer.call \in {"parse_certificate", "verify_certificate"}, Padded("certificate")
        PROVE  answer.says = None
    <3>1. "certificate" \in FileNames
      BY <2>2 DEF Inv, Answered, HeldCertificate
    <3>2. PICK d \in Discs : mastered["certificate"] = d.certificate
      BY <3>1, MasteredCertificate
    <3>3. /\ ParseCertificate(file["certificate"]).error = None
          /\ SignatureVerifies(ParseCertificate(file["certificate"]))
      BY <2>2, <3>1, <3>2, PaddedCertificateIsIssued
    <3>4. CASE answer.call = "parse_certificate"
      BY <3>3, <3>4 DEF Inv, Answered
    <3>5. CASE answer.call = "verify_certificate"
      <4>1. certificate = ParseCertificate(file["certificate"])
        BY <3>5 DEF Inv, Answered, HeldCertificate
      <4> QED
        BY <3>3, <3>5, <4>1 DEF Inv, Answered
    <3> QED
      BY <2>2, <3>4, <3>5
  <2>3. ASSUME answer.call = "parse_table", Padded("certificate"), Padded("table"),
               MadeFor(mastered["certificate"], mastered["table"])
        PROVE  answer.says = None
    <3>1. "certificate" \in FileNames /\ certificate = ParseCertificate(file["certificate"])
          /\ answer.says = TableRead.error
      BY <2>3 DEF Inv, Answered, HeldCertificate
    <3>2. PICK d \in Discs : d.certificate = mastered["certificate"] /\ d.table = mastered["table"]
      BY <2>3 DEF MadeFor
    <3>3. certificate = ParseCertificate(d.certificate)
      BY <2>3, <3>1, <3>2, PaddedCertificateIsIssued
    <3>4. "table" \in FileNames
      BY <3>1, MasteredCertificate
    <3>5. file["table"] \in Seq(Cell) /\ Len(d.table) <= Len(file["table"])
      BY <2>3, <3>2, <3>4, PaddedFile DEF PaddedTo
    <3>6. TableRead.error = None
      BY <3>3, <3>5, TableFits DEF TableRead
    <3> QED
      BY <3>1, <3>6
  <2> QED
    BY <2>1, <2>2, <2>3 DEF IntactFilesPass
<1> QED
  BY <1>1, Invariant, PTL
==============================================================================
