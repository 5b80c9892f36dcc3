-------------------------- MODULE MkbRecordsProofs --------------------------
(***************************************************************************)
(* Proofs about module MkbRecords, for every MKB, every damage, every tail *)
(* and every padding.  The invariant has what the parser leaves behind: a  *)
(* chain of records from the first cell to its cursor, none of which the   *)
(* second reading can step over or stop before, and for each revocation    *)
(* list the positions in the payload of the last one at which its blocks   *)
(* were read.  The last parts are about what a parsed file has to do with  *)
(* the MKBs of the AACS LA.  A file that begins as an MKB's does is parsed *)
(* at the places where that MKB's records begin.  An intact file begins as *)
(* its own MKB; a verified one begins, up to its first End record, as some *)
(* MKB of the AACS LA, because no file is verified with what the AACS LA   *)
(* signed of a list.                                                       *)
(***************************************************************************)
EXTENDS MkbRecords, Recursion, SequenceTheorems

RecordType == [tag : Nat, payload : Seq(Nat)]

BlockType ==
    [entries_in_block : Nat, entries : Seq(Seq(Nat)), signature : Seq(Nat) \cup {None}]

MkbType ==
    [fields : [Plain -> Seq(Nat) \cup {None}], type_and_version_raw : Seq(Nat),
     revocation_blocks : [Lists -> Seq(BlockType)],
     end_of_block : BOOLEAN, end_of_block_signature : Seq(Nat) \cup {None},
     unknown_records : Seq(Seq(Nat))]

Calls == Lists \cup {EndOfBlock}

TypeOK ==
    /\ bytes \in Seq(Nat)
    /\ pc \in {"delivery", "record", "list", "failed", "parsed", "scan", "verify"}
    /\ cursor \in Nat /\ starts \in Seq(Nat) /\ saw_type_record_first \in BOOLEAN
    /\ mkb \in MkbType
    /\ list \in [at : Nat, blocks : Seq(BlockType)]
    /\ call \in Calls \cup {None} /\ found \in Nat /\ at \in Nat
    /\ k \in Nat \ {0} /\ verified_any \in BOOLEAN
-----------------------------------------------------------------------------
(* A record of the file, and the blocks of a list *)

\* A record that both readings take at c, header and all.
Taken(c) ==
    /\ c + HeaderLen <= Len(bytes)
    /\ Length(c) >= HeaderLen
    /\ c + Length(c) <= Len(bytes)

\* The blocks of a list with payload p, and where each was read; the last
\* position is where the next one would be.
Positions(p, blocks, pos) ==
    /\ pos \in [1..(Len(blocks) + 1) -> Nat]
    /\ pos[1] = CountLen /\ CountLen <= Len(p)
    /\ \A n \in 1..Len(blocks) :
          /\ pos[n] < Len(p)
          /\ BlockFits(p, pos[n])
          /\ blocks[n] = Block(p, pos[n])
          /\ pos[n + 1] = AfterBlock(p, pos[n])

ReadUpto(p, blocks, c) ==
    \E pos : Positions(p, blocks, pos) /\ pos[Len(blocks) + 1] = c

ListOf(p, blocks) == \E c \in Nat : ReadUpto(p, blocks, c) /\ c >= Len(p)

\* upto[n] is what the first n records of an MKB make of a file.
Files(m, upto) ==
    /\ upto \in [0..Len(m) -> Seq(Nat)]
    /\ upto[0] = <<>>
    /\ \A n \in 1..Len(m) : upto[n] = upto[n - 1] \o Bytes(m[n])

LEMMA FileUpto ==
    ASSUME NEW m \in Seq(RecordType)
    PROVE  \E upto : Files(m, upto) /\ FileOf(m) = upto[Len(m)]
<1> DEFINE N == Len(m)
           F(f) == [n \in 0..N |-> IF n = 0 THEN <<>> ELSE f[n - 1] \o Bytes(m[n])]
           G == [n \in 1..N |-> [s \in Seq(Nat) |-> s \o Bytes(m[n])]]
           upto == CHOOSE f : f = F(f)
<1>1. ASSUME NEW n \in 1..N PROVE Bytes(m[n]) \in Seq(Nat)
  <2>1. m[n] \in RecordType
    OBVIOUS
  <2>2. m[n].tag \in Nat /\ m[n].payload \in Seq(Nat) /\ Len(m[n].payload) \in Nat
    BY <2>1 DEF RecordType
  <2>3. <<m[n].tag, HeaderLen + Len(m[n].payload)>> \in Seq(Nat)
    BY <2>2 DEF HeaderLen
  <2> QED
    BY <2>2, <2>3, ConcatProperties DEF Bytes
<1>2. ASSUME NEW s \in Seq(Nat), NEW n \in 1..N PROVE s \o Bytes(m[n]) \in Seq(Nat)
  BY <1>1, ConcatProperties
<1>3. \E f : f = F(f)
  <2>1. G \in [1..N -> [Seq(Nat) -> Seq(Nat)]]
    BY <1>2
  <2>2. PICK base \in Seq(Nat) : base = <<>>
    BY EmptySeq
  <2>3. N \in Nat
    OBVIOUS
  <2> HIDE DEF N, G
  <2>4. PICK f \in [0..N -> Seq(Nat)] : IsRecursion(f, N, base, G)
    BY <2>1, <2>3, RecursionExists
  <2>5. ASSUME NEW n \in 0..N, n # 0 PROVE G[n][f[n - 1]] = f[n - 1] \o Bytes(m[n])
    <3>1. n \in 1..N /\ n - 1 \in 0..N
      BY <2>3, <2>5
    <3> QED
      BY <3>1 DEF G
  <2>6. f = F(f)
    BY <2>2, <2>4, <2>5 DEF IsRecursion
  <2> QED
    BY <2>6
<1>4. upto = F(upto)
  <2> HIDE DEF F
  <2> QED
    BY <1>3
<1> DEFINE S == {n \in Nat : n <= N => upto[n] \in Seq(Nat)}
<1> HIDE DEF upto
<1>5. 0 \in S
  BY <1>4
<1>6. ASSUME NEW n \in S PROVE n + 1 \in S
  <2>1. CASE n + 1 <= N
    <3>1. n + 1 \in 1..N /\ n \in 0..N /\ (n + 1) - 1 = n
      BY <2>1
    <3>2. upto[n + 1] = upto[n] \o Bytes(m[n + 1])
      BY <1>4, <3>1
    <3>3. upto[n] \in Seq(Nat)
      BY <3>1
    <3>4. upto[n + 1] \in Seq(Nat)
      BY <1>2, <3>1, <3>2, <3>3
    <3> QED
      BY <3>4
  <2> QED
    BY <2>1
<1>7. S = Nat
  <2>1. S \subseteq Nat
    OBVIOUS
  <2> HIDE DEF S
  <2> QED
    BY <1>5, <1>6, <2>1, SetInduction
<1>8. ASSUME NEW n \in 0..N PROVE upto[n] \in Seq(Nat)
  <2>1. n \in S /\ n <= N
    BY <1>7
  <2> QED
    BY <2>1
<1>9. Files(m, upto)
  <2>1. upto \in [0..N -> Seq(Nat)]
    BY <1>4, <1>8
  <2>2. ASSUME NEW n \in 1..N PROVE upto[n] = upto[n - 1] \o Bytes(m[n])
    <3>1. n \in 0..N /\ n # 0
      OBVIOUS
    <3> QED
      BY <1>4, <3>1
  <2>3. upto[0] = <<>>
    BY <1>4
  <2> QED
    BY <2>1, <2>2, <2>3 DEF Files
<1>10. FileOf(m) = upto[N]
  BY DEF FileOf, upto
<1> QED
  BY <1>9, <1>10

\* A file made of records of naturals is a sequence of naturals.
LEMMA FileType ==
    ASSUME NEW m \in Seq(RecordType) PROVE FileOf(m) \in Seq(Nat)
<1>1. Len(m) \in 0..Len(m)
  OBVIOUS
<1> QED
  BY <1>1, FileUpto DEF Files

LEMMA Product == \A a, b \in Nat : a * b \in Nat
OBVIOUS

\* The cells of a record that was taken, and of its payload.
LEMMA TakenRecord ==
    ASSUME bytes \in Seq(Nat), NEW c \in Nat, Taken(c)
    PROVE  /\ Tag(c) \in Nat /\ Length(c) \in Nat /\ c + Length(c) \in Nat
           /\ Record(c) \in Seq(Nat) /\ Len(Record(c)) = Length(c)
           /\ \A i \in 1..Length(c) : Record(c)[i] = bytes[c + i]
           /\ Payload(c) \in Seq(Nat) /\ Len(Payload(c)) = Length(c) - HeaderLen
           /\ \A i \in 1..(Length(c) - HeaderLen) : Payload(c)[i] = bytes[c + HeaderLen + i]
<1>1. c + 1 \in 1..Len(bytes) /\ c + 2 \in 1..Len(bytes)
  BY DEF Taken, HeaderLen
<1>2. Tag(c) \in Nat /\ Length(c) \in Nat
  BY <1>1 DEF Tag, Length
<1>3. PICK n \in Nat : n = Length(c)
  BY <1>2
<1>4. n >= 2 /\ c + n <= Len(bytes)
  BY <1>3 DEF Taken, HeaderLen
<1>5. \A i \in (c + 1)..(c + n) : bytes[i] \in Nat
  BY <1>4
<1>6. /\ SubSeq(bytes, c + 1, c + n) \in Seq(Nat)
      /\ Len(SubSeq(bytes, c + 1, c + n)) = n
      /\ \A i \in 1..n : SubSeq(bytes, c + 1, c + n)[i] = bytes[c + i]
  <2>1. c + 1 \in Int /\ c + n \in Int /\ c + 1 <= c + n /\ (c + n) - (c + 1) + 1 = n
    BY <1>4
  <2>2. \A i \in 1..n : (c + 1) + i - 1 = c + i
    OBVIOUS
  <2> QED
    BY <1>5, <2>1, <2>2, SubSeqProperties
<1>7. /\ SubSeq(bytes, c + 2 + 1, c + n) \in Seq(Nat)
      /\ Len(SubSeq(bytes, c + 2 + 1, c + n)) = n - 2
      /\ \A i \in 1..(n - 2) : SubSeq(bytes, c + 2 + 1, c + n)[i] = bytes[c + 2 + i]
  <2>1. c + 2 + 1 \in Int /\ c + n \in Int /\ (c + n) - (c + 2 + 1) + 1 = n - 2
    BY <1>4
  <2>2. \A i \in (c + 2 + 1)..(c + n) : bytes[i] \in Nat
    BY <1>5
  <2>3. \A i \in 1..(n - 2) : (c + 2 + 1) + i - 1 = c + 2 + i
    OBVIOUS
  <2>4. (IF c + 2 + 1 <= c + n THEN n - 2 ELSE 0) = n - 2
    BY <1>4
  <2> QED
    BY <2>1, <2>2, <2>3, <2>4, SubSeqProperties
<1>8. Record(c) = SubSeq(bytes, c + 1, c + n) /\ Payload(c) = SubSeq(bytes, c + 2 + 1, c + n)
  BY <1>3 DEF Record, Payload, HeaderLen
<1>9. HeaderLen = 2
  BY DEF HeaderLen
<1>10. /\ Record(c) \in Seq(Nat) /\ Len(Record(c)) = n
       /\ \A i \in 1..n : Record(c)[i] = bytes[c + i]
  BY <1>6, <1>8, Zenon
<1>11. /\ Payload(c) \in Seq(Nat) /\ Len(Payload(c)) = n - 2
       /\ \A i \in 1..(n - 2) : Payload(c)[i] = bytes[c + 2 + i]
  BY <1>7, <1>8, Zenon
<1>12. c + n \in Nat
  OBVIOUS
<1> QED
  BY <1>2, <1>3, <1>9, <1>10, <1>11, <1>12, Zenon

\* A block that fits lies in the payload, and so does its signature if it has
\* one; the next block starts behind it.
LEMMA FittingBlock ==
    ASSUME NEW p \in Seq(Nat), NEW c \in Nat, BlockFits(p, c)
    PROVE  /\ Count(p, c) \in Nat /\ SignatureAt(p, c) \in Nat
           /\ SignatureAt(p, c) <= Len(p) /\ c < SignatureAt(p, c)
           /\ AfterBlock(p, c) \in Nat
           /\ Block(p, c) \in BlockType
           /\ Block(p, c).entries_in_block = Count(p, c)
           /\ Block(p, c).entries = Entries(p, c + CountLen, Count(p, c))
           /\ Len(Block(p, c).entries) = Count(p, c)
           /\ Block(p, c).signature = None <=> SignatureAt(p, c) + SigLen > Len(p)
<1>1. c + 1 \in 1..Len(p) /\ c + 2 \in 1..Len(p)
  BY DEF BlockFits, CountLen
<1>2. p[c + 1] \in Nat /\ p[c + 2] \in Nat
  BY <1>1
<1>3. Count(p, c) \in Nat
  BY <1>2 DEF Count, Base
<1>4. PICK n \in Nat : n = Count(p, c)
  BY <1>3
<1>5. EntryLen \in Nat /\ SigLen \in Nat /\ SigLen >= 1 /\ n * EntryLen \in Nat
  BY SizesAssumption, Product
<1>6. PICK e \in Nat : e = c + CountLen + n * EntryLen
  BY <1>5 DEF CountLen
<1>7. SignatureAt(p, c) = e /\ e <= Len(p) /\ c < e
  BY <1>4, <1>5, <1>6 DEF SignatureAt, BlockFits, CountLen
<1>8. AfterBlock(p, c) \in Nat
  BY <1>5, <1>7 DEF AfterBlock
<1>9. Entries(p, c + CountLen, n) \in Seq(Seq(Nat)) /\ Len(Entries(p, c + CountLen, n)) = n
  <2>1. ASSUME NEW i \in 1..n
        PROVE  SubSeq(p, c + CountLen + (i - 1) * EntryLen + 1, c + CountLen + i * EntryLen)
                  \in Seq(Nat)
    <3>1. (i - 1) * EntryLen \in Nat /\ i * EntryLen \in Nat /\ i * EntryLen <= n * EntryLen
      BY <1>5
    <3>2. c + CountLen + (i - 1) * EntryLen + 1 \in Nat \ {0}
          /\ c + CountLen + i * EntryLen \in Nat /\ c + CountLen + i * EntryLen <= e
      BY <1>5, <1>6, <3>1 DEF CountLen
    <3>3. \A z \in (c + CountLen + (i - 1) * EntryLen + 1)..(c + CountLen + i * EntryLen) :
             p[z] \in Nat
      BY <1>7, <3>2
    <3> QED
      BY <3>2, <3>3, SubSeqProperties
  <2> QED
    BY <2>1 DEF Entries
<1>10. SubSeq(p, e + 1, e + SigLen) \in Seq(Nat) \/ e + SigLen > Len(p)
  <2>1. CASE e + SigLen <= Len(p)
    <3>1. \A z \in (e + 1)..(e + SigLen) : p[z] \in Nat
      BY <1>5, <2>1
    <3> QED
      BY <1>5, <3>1, SubSeqProperties
  <2> QED
    BY <1>5, <2>1
<1>11. PICK sig \in Seq(Nat) \cup {None} :
          /\ sig = IF e + SigLen <= Len(p) THEN SubSeq(p, e + 1, e + SigLen) ELSE None
          /\ sig = None <=> e + SigLen > Len(p)
  <2>1. CASE e + SigLen <= Len(p)
    <3>1. PICK t \in Seq(Nat) : t = SubSeq(p, e + 1, e + SigLen)
      <4>1. SubSeq(p, e + 1, e + SigLen) \in Seq(Nat)
        <5>1. ~(e + SigLen > Len(p))
          BY <1>5, <2>1
        <5> QED
          BY <1>10, <5>1, Zenon
      <4> QED
        BY <4>1, Zenon
    <3>2. t # None /\ ~(e + SigLen > Len(p))
      BY <1>5, <2>1, FilesAssumption
    <3> QED
      BY <2>1, <3>1, <3>2
  <2>2. CASE ~(e + SigLen <= Len(p))
    <3>1. e + SigLen > Len(p)
      BY <1>5, <2>2
    <3> QED
      BY <2>2, <3>1
  <2> QED
    BY <2>1, <2>2
<1>12. Block(p, c) = [entries_in_block |-> n, entries |-> Entries(p, c + CountLen, n),
                      signature |-> sig]
  BY <1>4, <1>7, <1>11 DEF Block
<1> QED
  BY <1>4, <1>7, <1>8, <1>9, <1>11, <1>12 DEF BlockType

\* Equal cells at a distance d make equal subsequences.
LEMMA ShiftedSubSeq ==
    ASSUME NEW s \in Seq(Nat), NEW t \in Seq(Nat), NEW d \in Nat,
           NEW lo \in Nat \ {0}, NEW hi \in Nat, hi <= Len(s), hi + d <= Len(t),
           \A i \in lo..hi : s[i] = t[i + d]
    PROVE  SubSeq(s, lo, hi) = SubSeq(t, lo + d, hi + d)
<1>1. /\ SubSeq(s, lo, hi) \in Seq(Nat)
      /\ Len(SubSeq(s, lo, hi)) = IF lo <= hi THEN hi - lo + 1 ELSE 0
      /\ \A i \in 1..(hi - lo + 1) : SubSeq(s, lo, hi)[i] = s[lo + i - 1]
  <2>1. \A i \in lo..hi : s[i] \in Nat
    OBVIOUS
  <2> QED
    BY <2>1, SubSeqProperties
<1>2. /\ SubSeq(t, lo + d, hi + d) \in Seq(Nat)
      /\ Len(SubSeq(t, lo + d, hi + d)) = IF lo + d <= hi + d THEN (hi + d) - (lo + d) + 1 ELSE 0
      /\ \A i \in 1..((hi + d) - (lo + d) + 1) :
            SubSeq(t, lo + d, hi + d)[i] = t[(lo + d) + i - 1]
  <2>1. PICK first \in Nat, last \in Nat :
           first = lo + d /\ last = hi + d /\ first >= 1 /\ last <= Len(t)
    OBVIOUS
  <2>2. \A i \in first..last : t[i] \in Nat
    BY <2>1
  <2>3. /\ SubSeq(t, first, last) \in Seq(Nat)
        /\ Len(SubSeq(t, first, last)) = IF first <= last THEN last - first + 1 ELSE 0
        /\ \A i \in 1..(last - first + 1) : SubSeq(t, first, last)[i] = t[first + i - 1]
    BY <2>2, SubSeqProperties
  <2> QED
    BY <2>1, <2>3, Zenon
<1>3. PICK a \in Seq(Nat) : a = SubSeq(s, lo, hi)
  BY <1>1, Zenon
<1>4. PICK b \in Seq(Nat) : b = SubSeq(t, lo + d, hi + d)
  BY <1>2, Zenon
<1>5. (hi + d) - (lo + d) + 1 = hi - lo + 1 /\ (lo + d <= hi + d <=> lo <= hi)
  OBVIOUS
<1>6. Len(a) = IF lo <= hi THEN hi - lo + 1 ELSE 0
  BY <1>1, <1>3, Zenon
<1>7. Len(b) = IF lo <= hi THEN hi - lo + 1 ELSE 0
  BY <1>2, <1>4, <1>5, Zenon
<1>8. ASSUME NEW i \in 1..Len(a) PROVE a[i] = b[i]
  <2>1. i \in 1..(hi - lo + 1)
    BY <1>6
  <2>2. a[i] = s[lo + i - 1]
    BY <1>1, <1>3, <2>1, Zenon
  <2>3. b[i] = t[(lo + d) + i - 1]
    BY <1>2, <1>4, <1>5, <2>1, Zenon
  <2>4. lo + i - 1 \in lo..hi /\ (lo + i - 1) + d = (lo + d) + i - 1
    BY <2>1
  <2> QED
    BY <2>2, <2>3, <2>4
<1>9. a = b
  BY <1>6, <1>7, <1>8, SeqEqual
<1> QED
  BY <1>3, <1>4, <1>9

\* What is signed with a signature that begins at e in a record's payload.
PayloadOf(p, rec) ==
    /\ Len(rec) = HeaderLen + Len(p)
    /\ \A i \in 1..Len(p) : p[i] = rec[HeaderLen + i]
EndAt(a, n) == a + n * EntryLen
SignedUpto(raw, rec, e) == raw \o SubSeq(rec, 1, HeaderLen + e)

\* It starts with the Type-and-Version Record and ends with the n entries that
\* end at e.
LEMMA SignedEndsWithEntries ==
    ASSUME NEW raw \in Seq(Nat), NEW rec \in Seq(Nat), NEW p \in Seq(Nat), PayloadOf(p, rec),
           NEW a \in Nat, NEW n \in Nat, NEW end \in Nat, end = EndAt(a, n), end <= Len(p)
    PROVE  /\ SubSeq(SignedUpto(raw, rec, end), 1, Len(raw)) = raw
           /\ EndsWith(SignedUpto(raw, rec, end), Entries(p, a, n))
<1>2. PICK w \in Nat : w = n * EntryLen
  BY SizesAssumption, Product
<1>4. PICK e \in Nat : e = end /\ e = a + w /\ e <= Len(p)
  BY <1>2 DEF EndAt
<1>5. PICK body \in Seq(Nat) :
         /\ body = SubSeq(rec, 1, 2 + e) /\ Len(body) = 2 + e
         /\ \A i \in 1..(2 + e) : body[i] = rec[i]
  <2>1. \A i \in 1..(2 + e) : rec[i] \in Nat
    <3>1. 2 + e <= Len(rec)
      BY <1>4 DEF HeaderLen, PayloadOf
    <3>2. ASSUME NEW i \in 1..(2 + e) PROVE i \in 1..Len(rec)
      BY <3>1
    <3> QED
      BY <3>2, ElementOfSeq
  <2>2. /\ SubSeq(rec, 1, 2 + e) \in Seq(Nat)
        /\ Len(SubSeq(rec, 1, 2 + e)) = 2 + e
        /\ \A i \in 1..(2 + e) : SubSeq(rec, 1, 2 + e)[i] = rec[i]
    <3>1. (2 + e) - 1 + 1 = 2 + e /\ 1 <= 2 + e /\ \A i \in 1..(2 + e) : 1 + i - 1 = i
      OBVIOUS
    <3> QED
      BY <2>1, <3>1, SubSeqProperties
  <2> QED
    BY <2>2, Zenon
<1>6. SignedUpto(raw, rec, e) = raw \o body
  BY <1>4, <1>5 DEF HeaderLen, SignedUpto
<1>7. PICK data \in Seq(Nat) :
      /\ data = SignedUpto(raw, rec, e) /\ Len(data) = Len(raw) + (2 + e)
      /\ \A i \in 1..(Len(raw) + (2 + e)) :
            data[i] = IF i <= Len(raw) THEN raw[i] ELSE body[i - Len(raw)]
  <2>1. /\ raw \o body \in Seq(Nat) /\ Len(raw \o body) = Len(raw) + Len(body)
        /\ \A i \in 1..(Len(raw) + Len(body)) :
              (raw \o body)[i] = IF i <= Len(raw) THEN raw[i] ELSE body[i - Len(raw)]
    BY ConcatProperties
  <2> QED
    BY <1>5, <1>6, <2>1, Zenon
<1>7a. Len(data) = Len(raw) + (2 + e)
  BY <1>7, Zenon
<1>8. SubSeq(data, 1, Len(raw)) = raw
  <2>1. SubSeq(raw, 1, Len(raw)) = SubSeq(data, 1 + 0, Len(raw) + 0)
    <3>1. ASSUME NEW i \in 1..Len(raw) PROVE raw[i] = data[i + 0]
      <4>1. i \in 1..(Len(raw) + (2 + e)) /\ i <= Len(raw) /\ i + 0 = i
        OBVIOUS
      <4>2. data[i] = raw[i]
        BY <1>7, <4>1, Zenon
      <4> QED
        BY <4>1, <4>2
    <3>2. Len(raw) \in Nat /\ Len(raw) + 0 <= Len(data)
      BY <1>7
    <3> QED
      BY <1>7, <3>1, <3>2, ShiftedSubSeq
  <2>2. SubSeq(raw, 1, Len(raw)) = raw
    BY SubSeqFull
  <2>3. 1 + 0 = 1 /\ Len(raw) + 0 = Len(raw)
    OBVIOUS
  <2> QED
    BY <2>1, <2>2, <2>3
<1>9. PICK d \in Nat : d = Len(raw) + 2
  OBVIOUS
<1>9a. PICK l \in Nat, r \in Nat : l = Len(data) /\ r = Len(raw)
  OBVIOUS
<1>9b. l = r + (2 + e) /\ d = r + 2
  BY <1>7a, <1>9, <1>9a, Zenon
<1>9c. e = a + w /\ e <= Len(p)
  BY <1>4
<1>10. ASSUME NEW i \in 1..e PROVE p[i] = data[i + d]
  <2>1. i + d \in 1..(Len(raw) + (2 + e)) /\ ~(i + d <= Len(raw)) /\ (i + d) - Len(raw) = 2 + i
        /\ 2 + i \in 1..(2 + e) /\ i \in 1..Len(p)
    BY <1>4, <1>9
  <2>2. data[i + d] = body[2 + i]
    BY <1>7, <2>1
  <2>3. body[2 + i] = rec[2 + i]
    BY <1>5, <2>1
  <2> QED
    BY <2>1, <2>2, <2>3 DEF HeaderLen, PayloadOf
<1>11. ASSUME NEW i \in 1..n
       PROVE  SubSeq(p, a + (i - 1) * EntryLen + 1, a + i * EntryLen)
                 = SubSeq(data, (a + d) + (i - 1) * EntryLen + 1, (a + d) + i * EntryLen)
  <2>1. PICK u \in Nat : u = (i - 1) * EntryLen
    <3>1. i - 1 \in Nat
      OBVIOUS
    <3> QED
      BY <3>1, SizesAssumption, Product
  <2>2. PICK v \in Nat : v = i * EntryLen /\ v <= w
    <3>1. i * EntryLen \in Nat /\ i * EntryLen <= n * EntryLen
      BY SizesAssumption
    <3> QED
      BY <1>2, <3>1
  <2>3. PICK lo \in Nat \ {0} : lo = a + u + 1
    OBVIOUS
  <2>4. PICK hi \in Nat : hi = a + v /\ hi <= e
    <3>1. e = a + w /\ a + v \in Nat
      BY <1>4
    <3>2. a + v <= e
      BY <2>2, <3>1
    <3> QED
      BY <3>1, <3>2, Zenon
  <2>5. hi <= Len(p) /\ hi + d <= Len(data)
    <3>1. hi <= e
      BY <2>4
    <3>2. hi + d <= l /\ hi <= Len(p)
      BY <1>9b, <1>9c, <3>1
    <3> QED
      BY <1>9a, <3>2
  <2>6. ASSUME NEW j \in lo..hi PROVE p[j] = data[j + d]
    <3>1. j \in 1..e
      BY <2>4
    <3> QED
      BY <1>10, <3>1
  <2>7. SubSeq(p, lo, hi) = SubSeq(data, lo + d, hi + d)
    <3>1. PICK t \in Seq(Nat) : t = data
      BY <1>7, Zenon
    <3>2. \A j \in lo..hi : p[j] = t[j + d]
      BY <2>6, <3>1, Zenon
    <3>3. hi <= Len(p) /\ hi + d <= Len(t)
      BY <2>5, <3>1, Zenon
    <3>4. SubSeq(p, lo, hi) = SubSeq(t, lo + d, hi + d)
      BY <3>2, <3>3, ShiftedSubSeq
    <3> QED
      BY <3>1, <3>4, Zenon
  <2>8. lo + d = (a + d) + u + 1 /\ hi + d = (a + d) + v
    BY <2>3, <2>4
  <2> QED
    BY <2>1, <2>2, <2>3, <2>4, <2>7, <2>8
<1>12. Entries(p, a, n) = Entries(data, a + d, n)
  BY <1>11 DEF Entries
<1>13. Len(Entries(p, a, n)) = n
  BY DEF Entries
<1>14. Len(data) >= w /\ Len(data) - w = a + d
  <2>1. l >= w /\ l - w = a + d
    BY <1>9b, <1>9c
  <2> QED
    BY <1>9a, <2>1
<1>15. EndsWith(data, Entries(p, a, n))
  BY <1>2, <1>12, <1>13, <1>14 DEF EndsWith
<1> QED
  BY <1>4, <1>7, <1>8, <1>15, Zenon

LEMMA ReadNone ==
    ASSUME NEW p \in Seq(Nat), CountLen <= Len(p) PROVE ReadUpto(p, <<>>, CountLen)
<1> DEFINE pos == [n \in 1..1 |-> CountLen]
<1>1. Positions(p, <<>>, pos) /\ pos[Len(<<>>) + 1] = CountLen
  BY DEF Positions, CountLen
<1> QED
  BY <1>1 DEF ReadUpto

\* One more block of a payload: its position is where the blocks so far ended.
LEMMA ReadMore ==
    ASSUME NEW p \in Seq(Nat), NEW blocks \in Seq(BlockType), NEW c \in Nat,
           ReadUpto(p, blocks, c), c < Len(p), BlockFits(p, c)
    PROVE  ReadUpto(p, Append(blocks, Block(p, c)), AfterBlock(p, c))
<1>1. PICK N \in Nat : N = Len(blocks)
  OBVIOUS
<1>2. PICK pos : Positions(p, blocks, pos) /\ pos[N + 1] = c
  BY <1>1 DEF ReadUpto
<1>3. PICK after \in Nat : after = AfterBlock(p, c)
  BY FittingBlock
<1>4. PICK block \in BlockType : block = Block(p, c)
  BY FittingBlock
<1>5. PICK more \in Seq(BlockType) : more = Append(blocks, block)
  <2>1. Append(blocks, block) \in Seq(BlockType)
    BY AppendProperties
  <2> QED
    BY <2>1, Zenon
<1>6. /\ Len(more) = N + 1 /\ more[N + 1] = block
      /\ \A n \in 1..N : more[n] = blocks[n]
  BY <1>1, <1>5
<1> DEFINE new == [n \in 1..(N + 2) |-> IF n = N + 2 THEN after ELSE pos[n]]
<1>7. pos \in [1..(N + 1) -> Nat]
  BY <1>1, <1>2 DEF Positions
<1>8. new \in [1..(N + 2) -> Nat] /\ new[N + 2] = after /\ new[N + 1] = c
      /\ \A n \in 1..(N + 1) : new[n] = pos[n]
  BY <1>2, <1>7
<1> HIDE DEF new
<1>9. ASSUME NEW n \in 1..(N + 1)
      PROVE  /\ new[n] < Len(p) /\ BlockFits(p, new[n])
             /\ more[n] = Block(p, new[n]) /\ new[n + 1] = AfterBlock(p, new[n])
  <2>1. CASE n = N + 1
    <3>1. new[n] = c /\ more[n] = block /\ new[n + 1] = after
      BY <1>6, <1>8, <2>1
    <3> QED
      BY <1>3, <1>4, <3>1
  <2>2. CASE n # N + 1
    <3>1. n \in 1..N /\ n + 1 \in 1..(N + 1)
      BY <2>2
    <3>2. new[n] = pos[n] /\ new[n + 1] = pos[n + 1] /\ more[n] = blocks[n]
      BY <1>6, <1>8, <3>1
    <3> QED
      BY <1>1, <1>2, <3>1, <3>2 DEF Positions
  <2> QED
    BY <2>1, <2>2
<1>10. new[1] = CountLen /\ CountLen <= Len(p)
  <2>1. 1 \in 1..(N + 1)
    OBVIOUS
  <2> QED
    BY <1>2, <1>8, <2>1 DEF Positions
<1>11. Len(more) + 1 = N + 2
  BY <1>6
<1>12. Positions(p, more, new) /\ new[Len(more) + 1] = after
  BY <1>6, <1>8, <1>9, <1>10, <1>11 DEF Positions
<1> QED
  BY <1>3, <1>4, <1>5, <1>12 DEF ReadUpto

\* The first and the last record of a type.
IsFirst(n, tag) ==
    n \in 1..Len(starts) /\ Tag(starts[n]) = tag /\ \A j \in 1..(n - 1) : Tag(starts[j]) # tag
IsLast(n, tag) ==
    n \in 1..Len(starts) /\ Tag(starts[n]) = tag
    /\ \A j \in (n + 1)..Len(starts) : Tag(starts[j]) # tag

LEMMA FirstIs ==
    ASSUME starts \in Seq(Nat), NEW tag, NEW n, IsFirst(n, tag) PROVE FirstOf(tag) = n
<1>1. \A o \in StartsOf(tag) : o \in 1..Len(starts) /\ Tag(starts[o]) = tag
  BY DEF StartsOf
<1>2. n \in StartsOf(tag) /\ Len(starts) \in Nat
  BY DEF StartsOf, IsFirst
<1>3. ASSUME NEW o \in StartsOf(tag) PROVE n <= o
  <2>1. ~(o \in 1..(n - 1)) /\ o \in 1..Len(starts) /\ n \in 1..Len(starts)
    BY <1>1 DEF IsFirst
  <2> QED
    BY <1>2, <2>1
<1>4. ASSUME NEW m \in StartsOf(tag), \A o \in StartsOf(tag) : m <= o PROVE m = n
  <2>1. m <= n /\ n <= m /\ m \in 1..Len(starts) /\ n \in 1..Len(starts)
    BY <1>1, <1>2, <1>3, <1>4
  <2> QED
    BY <1>2, <2>1
<1> QED
  BY <1>2, <1>3, <1>4 DEF FirstOf

LEMMA LastIs ==
    ASSUME starts \in Seq(Nat), NEW tag, NEW n, IsLast(n, tag) PROVE LastOf(tag) = n
<1>1. \A o \in StartsOf(tag) : o \in 1..Len(starts) /\ Tag(starts[o]) = tag
  BY DEF StartsOf
<1>2. n \in StartsOf(tag) /\ Len(starts) \in Nat
  BY DEF StartsOf, IsLast
<1>3. ASSUME NEW o \in StartsOf(tag) PROVE n >= o
  <2>1. ~(o \in (n + 1)..Len(starts)) /\ o \in 1..Len(starts) /\ n \in 1..Len(starts)
    BY <1>1 DEF IsLast
  <2> QED
    BY <1>2, <2>1
<1>4. ASSUME NEW m \in StartsOf(tag), \A o \in StartsOf(tag) : m >= o PROVE m = n
  <2>1. m <= n /\ n <= m /\ m \in 1..Len(starts) /\ n \in 1..Len(starts)
    BY <1>1, <1>2, <1>3, <1>4
  <2> QED
    BY <1>2, <2>1
<1> QED
  BY <1>2, <1>3, <1>4 DEF LastOf

\* The places behind the blocks, by recursion; they rise.
LEMMA BehindIs ==
    ASSUME NEW blocks \in Seq(BlockType)
    PROVE  /\ Behind(blocks) \in [0..Len(blocks) -> Nat] /\ Behind(blocks)[0] = CountLen
           /\ \A n \in 1..Len(blocks) :
                 /\ blocks[n].entries_in_block * EntryLen \in Nat
                 /\ Behind(blocks)[n] = Behind(blocks)[n - 1] + CountLen
                                          + blocks[n].entries_in_block * EntryLen + SigLen
<1> DEFINE N == Len(blocks)
           step(n) == blocks[n].entries_in_block * EntryLen
           F(f) == [n \in 0..N |-> IF n = 0 THEN CountLen
                                   ELSE f[n - 1] + CountLen + step(n) + SigLen]
           G == [n \in 1..N |-> [x \in Nat |-> x + CountLen + step(n) + SigLen]]
           behind == CHOOSE f : f = F(f)
<1>1. ASSUME NEW n \in 1..N PROVE step(n) \in Nat
  <2>1. blocks[n] \in BlockType
    OBVIOUS
  <2> QED
    BY <2>1, SizesAssumption, Product DEF BlockType
<1>2. ASSUME NEW x \in Nat, NEW n \in 1..N PROVE x + CountLen + step(n) + SigLen \in Nat
  <2> HIDE DEF step
  <2> QED
    BY <1>1, SizesAssumption DEF CountLen
<1>3. PICK f \in [0..N -> Nat] : f = F(f)
  <2>1. G \in [1..N -> [Nat -> Nat]]
    BY <1>2
  <2>2. N \in Nat /\ CountLen \in Nat
    BY DEF CountLen
  <2> HIDE DEF N, G
  <2>4. PICK f \in [0..N -> Nat] : IsRecursion(f, N, CountLen, G)
    BY <2>1, <2>2, RecursionExists
  <2>5. ASSUME NEW n \in 0..N, n # 0 PROVE G[n][f[n - 1]] = f[n - 1] + CountLen + step(n) + SigLen
    <3>1. n \in 1..N /\ n - 1 \in 0..N
      BY <2>2, <2>5
    <3> QED
      BY <3>1 DEF G
  <2>6. f = F(f)
    BY <2>4, <2>5 DEF IsRecursion
  <2> QED
    BY <2>6
<1>4. behind = F(behind)
  <2> HIDE DEF F
  <2> QED
    BY <1>3
<1> DEFINE S == {n \in Nat : n <= N => behind[n] \in Nat}
<1> HIDE DEF behind, step
<1>5. 0 \in S
  BY <1>4 DEF CountLen
<1>6. ASSUME NEW n \in S PROVE n + 1 \in S
  <2>1. CASE n + 1 <= N
    <3>1. n + 1 \in 1..N /\ n \in 0..N /\ (n + 1) - 1 = n /\ n + 1 \in 0..N /\ n + 1 # 0
      BY <2>1
    <3>2. behind[n + 1] = behind[n] + CountLen + step(n + 1) + SigLen
      BY <1>4, <3>1
    <3>3. behind[n] \in Nat
      BY <3>1
    <3> QED
      BY <1>2, <3>1, <3>2, <3>3
  <2> QED
    BY <2>1
<1>7. S = Nat
  <2>1. S \subseteq Nat
    OBVIOUS
  <2> HIDE DEF S
  <2> QED
    BY <1>5, <1>6, <2>1, SetInduction
<1>8. ASSUME NEW n \in 0..N PROVE behind[n] \in Nat
  <2>1. n \in S /\ n <= N
    BY <1>7
  <2> QED
    BY <2>1
<1>9. behind \in [0..N -> Nat]
  BY <1>4, <1>8
<1>10. behind[0] = CountLen
  BY <1>4
<1>11. ASSUME NEW n \in 1..N PROVE behind[n] = behind[n - 1] + CountLen + step(n) + SigLen
  <2>1. n \in 0..N /\ n # 0
    OBVIOUS
  <2> QED
    BY <1>4, <2>1
<1>12. Behind(blocks) = behind
  BY DEF Behind, behind, step
<1> QED
  BY <1>1, <1>9, <1>10, <1>11, <1>12 DEF step

\* Where the n-th block's entries end, and that every later block ends behind
\* the place of a block before it.
LEMMA EntriesEndAt ==
    ASSUME NEW blocks \in Seq(BlockType), NEW n \in 1..Len(blocks)
    PROVE  /\ Behind(blocks)[n - 1] \in Nat /\ Behind(blocks)[n] \in Nat
           /\ EntriesEnd(blocks, n) \in Nat
           /\ EntriesEnd(blocks, n) =
                 Behind(blocks)[n - 1] + CountLen + blocks[n].entries_in_block * EntryLen
           /\ Behind(blocks)[n - 1] + CountLen <= EntriesEnd(blocks, n)
           /\ Behind(blocks)[n] = EntriesEnd(blocks, n) + SigLen
<1>1. n - 1 \in 0..Len(blocks) /\ n \in 0..Len(blocks)
  OBVIOUS
<1>2. PICK b \in Nat, c \in Nat, w \in Nat :
         /\ b = Behind(blocks)[n - 1] /\ c = Behind(blocks)[n]
         /\ w = blocks[n].entries_in_block * EntryLen /\ c = b + CountLen + w + SigLen
  BY <1>1, BehindIs
<1>3. EntriesEnd(blocks, n) = c - SigLen
  BY <1>2 DEF EntriesEnd
<1>4. PICK e \in Nat, g \in Nat : e = b + CountLen + w /\ g = SigLen /\ c = e + g
  BY <1>2, SizesAssumption DEF CountLen
<1>5. EntriesEnd(blocks, n) = e /\ b + CountLen <= e
  BY <1>3, <1>4 DEF CountLen
<1> QED
  BY <1>2, <1>4, <1>5

LEMMA BehindRises ==
    ASSUME NEW blocks \in Seq(BlockType), NEW i \in 0..Len(blocks), NEW j \in 1..Len(blocks), i < j
    PROVE  Behind(blocks)[i] < EntriesEnd(blocks, j)
<1> DEFINE S == {d \in Nat : i + d <= Len(blocks) => Behind(blocks)[i] <= Behind(blocks)[i + d]}
<1>1. Len(blocks) \in Nat /\ \A n \in 0..Len(blocks) : Behind(blocks)[n] \in Nat
  BY BehindIs
<1>2. 0 \in S
  BY <1>1
<1>3. ASSUME NEW d \in S PROVE d + 1 \in S
  <2>1. SUFFICES ASSUME i + (d + 1) <= Len(blocks)
                 PROVE  Behind(blocks)[i] <= Behind(blocks)[i + (d + 1)]
    OBVIOUS
  <2>2. PICK n \in 1..Len(blocks) : n = i + (d + 1) /\ n - 1 = i + d /\ n - 1 \in 0..Len(blocks)
    BY <1>1, <2>1
  <2>3. Behind(blocks)[i] <= Behind(blocks)[n - 1]
    BY <1>1, <2>2
  <2>4. PICK b \in Nat, c \in Nat, e \in Nat :
           /\ b = Behind(blocks)[n - 1] /\ c = Behind(blocks)[n] /\ e = EntriesEnd(blocks, n)
           /\ b + CountLen <= e /\ c = e + SigLen
    BY EntriesEndAt
  <2>5. b <= c
    BY <2>4, SizesAssumption DEF CountLen
  <2> QED
    BY <1>1, <2>2, <2>3, <2>4, <2>5
<1>4. S = Nat
  <2>1. S \subseteq Nat
    OBVIOUS
  <2> HIDE DEF S
  <2> QED
    BY <1>2, <1>3, <2>1, SetInduction
<1>5. Behind(blocks)[i] <= Behind(blocks)[j - 1]
  <2>1. PICK d \in S : d = j - 1 - i
    <3>1. j - 1 - i \in Nat
      BY <1>1
    <3> HIDE DEF S
    <3> QED
      BY <1>4, <3>1
  <2>2. i + d = j - 1 /\ i + d <= Len(blocks)
    BY <1>1, <2>1
  <2> QED
    BY <2>1, <2>2
<1>6. PICK b \in Nat, e \in Nat :
         b = Behind(blocks)[j - 1] /\ e = EntriesEnd(blocks, j) /\ b + CountLen <= e
  BY EntriesEndAt
<1> QED
  BY <1>1, <1>5, <1>6 DEF CountLen

\* The parser's places in a list are the sums of the remembered counts, but for
\* the end of a list whose last block has no signature.
LEMMA PositionsAre ==
    ASSUME NEW p \in Seq(Nat), NEW blocks \in Seq(BlockType), NEW pos, Positions(p, blocks, pos)
    PROVE  \A n \in 1..Len(blocks) : pos[n] = Behind(blocks)[n - 1]
<1> DEFINE S == {d \in Nat : d + 1 <= Len(blocks) => pos[d + 1] = Behind(blocks)[d]}
<1>1. Len(blocks) \in Nat
  OBVIOUS
<1>2. 0 \in S
  BY BehindIs DEF Positions
<1>3. ASSUME NEW d \in S PROVE d + 1 \in S
  <2>1. SUFFICES ASSUME (d + 1) + 1 <= Len(blocks) PROVE pos[(d + 1) + 1] = Behind(blocks)[d + 1]
    OBVIOUS
  <2>2. PICK n \in 1..Len(blocks) : n = d + 1 /\ n - 1 = d /\ n + 1 \in 1..Len(blocks)
    BY <1>1, <2>1
  <2>3. pos[n] = Behind(blocks)[n - 1]
    BY <2>2
  <2>4. PICK c \in Nat : c = pos[n] /\ BlockFits(p, c) /\ blocks[n] = Block(p, c)
                         /\ pos[n + 1] = AfterBlock(p, c)
    <3>1. n \in 1..(Len(blocks) + 1)
      BY <1>1
    <3> QED
      BY <3>1 DEF Positions
  <2>5. pos[n + 1] < Len(p)
    BY <2>2 DEF Positions
  <2>6. blocks[n].entries_in_block = Count(p, c) /\ SignatureAt(p, c) \in Nat
    BY <2>4, FittingBlock
  <2>7. pos[n + 1] = SignatureAt(p, c) + SigLen
    <3>1. Len(p) \in Nat /\ AfterBlock(p, c) < Len(p)
      BY <2>4, <2>5
    <3> QED
      BY <2>4, <2>6, <3>1, SizesAssumption DEF AfterBlock
  <2>8. SignatureAt(p, c) = EntriesEnd(blocks, n)
    BY <2>3, <2>4, <2>6, EntriesEndAt DEF SignatureAt
  <2>9. pos[n + 1] = Behind(blocks)[n]
    BY <2>7, <2>8, EntriesEndAt
  <2> QED
    BY <2>2, <2>9
<1>4. S = Nat
  <2>1. S \subseteq Nat
    OBVIOUS
  <2> HIDE DEF S
  <2> QED
    BY <1>2, <1>3, <2>1, SetInduction
<1>5. ASSUME NEW n \in 1..Len(blocks) PROVE pos[n] = Behind(blocks)[n - 1]
  <2>1. PICK d \in S : d = n - 1
    <3>1. n - 1 \in Nat
      OBVIOUS
    <3> HIDE DEF S
    <3> QED
      BY <1>4, <3>1
  <2>2. d + 1 = n /\ d + 1 <= Len(blocks)
    BY <2>1
  <2> QED
    BY <2>1, <2>2
<1> QED
  BY <1>5

\* What a list's payload was read as: its blocks lie in it end to end, and only
\* the last may lack a signature.
ReadAs(p, blocks) ==
    /\ CountLen <= Len(p)
    /\ \A n \in 1..Len(blocks) :
          /\ EntriesEnd(blocks, n) <= Len(p)
          /\ blocks[n].entries = EntriesIn(p, blocks, n)
          /\ blocks[n].signature = None => n = Len(blocks)

LEMMA KeptBlocks ==
    ASSUME NEW p \in Seq(Nat), NEW blocks \in Seq(BlockType), ListOf(p, blocks)
    PROVE  ReadAs(p, blocks)
<1>1. PICK pos : Positions(p, blocks, pos)
  BY DEF ListOf, ReadUpto
<1>2. Len(blocks) \in Nat /\ Len(p) \in Nat
  OBVIOUS
<1>3. ASSUME NEW n \in 1..Len(blocks)
      PROVE  /\ EntriesEnd(blocks, n) <= Len(p)
             /\ blocks[n].entries = EntriesIn(p, blocks, n)
             /\ blocks[n].signature = None => n = Len(blocks)
  <2>1. PICK c \in Nat : /\ c = pos[n] /\ BlockFits(p, c) /\ blocks[n] = Block(p, c)
                         /\ pos[n + 1] = AfterBlock(p, c)
    <3>1. n \in 1..(Len(blocks) + 1)
      BY <1>2
    <3> QED
      BY <1>1, <3>1 DEF Positions
  <2>2. c = Behind(blocks)[n - 1]
    BY <1>1, <2>1, PositionsAre
  <2>3. /\ blocks[n].entries_in_block = Count(p, c) /\ SignatureAt(p, c) \in Nat
        /\ SignatureAt(p, c) <= Len(p)
        /\ blocks[n].entries = Entries(p, c + CountLen, Count(p, c))
        /\ blocks[n].signature = None => SignatureAt(p, c) + SigLen > Len(p)
    BY <2>1, FittingBlock
  <2>4. SignatureAt(p, c) = EntriesEnd(blocks, n)
    BY <2>2, <2>3, EntriesEndAt DEF SignatureAt
  <2>5. ASSUME blocks[n].signature = None PROVE n = Len(blocks)
    <3>1. SUFFICES ASSUME n # Len(blocks) PROVE FALSE
      OBVIOUS
    <3>2. n + 1 \in 1..Len(blocks)
      BY <1>2, <3>1
    <3>3. pos[n + 1] < Len(p)
      BY <1>1, <3>2 DEF Positions
    <3>4. ~(SignatureAt(p, c) + SigLen <= Len(p))
      BY <1>2, <2>3, <2>5, SizesAssumption
    <3>5. pos[n + 1] = Len(p)
      BY <2>1, <3>4 DEF AfterBlock
    <3> QED
      BY <1>2, <3>3, <3>5
  <2> QED
    BY <2>2, <2>3, <2>4, <2>5 DEF EntriesIn
<1>4. CountLen <= Len(p)
  BY <1>1 DEF Positions
<1> QED
  BY <1>3, <1>4 DEF ReadAs
-----------------------------------------------------------------------------
(* The invariant *)

\* The places of the records, and behind them the cursor.
Place(n) == IF n = Len(starts) + 1 THEN cursor ELSE starts[n]

\* The parser's records lie end to end from the first cell, and where it
\* stopped there is none.
Chain ==
    /\ Place(1) = 0
    /\ \A n \in 1..Len(starts) :
          Taken(starts[n]) /\ Place(n + 1) = starts[n] + Length(starts[n])
    /\ pc = "delivery" => starts = <<>>
    /\ pc = "list" => Taken(cursor) /\ Tag(cursor) \in Lists
    /\ pc \in {"parsed", "scan", "verify"} => ~Taken(cursor) /\ saw_type_record_first

Has(tag) == \E n \in 1..Len(starts) : Tag(starts[n]) = tag

\* What is remembered of a list was read from the last of its type in the file.
ListRead(tag) ==
    IF Has(tag)
      THEN \E n \in 1..Len(starts) :
              IsLast(n, tag) /\ ListOf(Payload(starts[n]), mkb.revocation_blocks[tag])
      ELSE mkb.revocation_blocks[tag] = <<>>

Contents ==
    /\ saw_type_record_first => Has(TypeAndVersion)
    /\ Has(TypeAndVersion) => mkb.type_and_version_raw # <<>>
    /\ mkb.end_of_block_signature # None => Has(EndOfBlock)
    /\ \A tag \in Lists : ListRead(tag)
    /\ pc = "list" => ReadUpto(Payload(cursor), list.blocks, list.at)

\* The first n blocks, by their counts, lie in a list's payload p, and those with
\* a signature have been verified there.
BlocksChecked(p, blocks, n) ==
    \A b \in 1..n :
        /\ EntriesEnd(blocks, b) <= Len(p)
        /\ blocks[b].signature # None => Attested(blocks[b].signature, EntriesIn(p, blocks, b))
AnySigned(blocks, n) == \E b \in 1..n : blocks[b].signature # None

\* The second reading of a list is where the block's place is by the counts that
\* the first one kept, though perhaps of another list, and every block before it
\* has been checked.
VerifyAt ==
    /\ k \in 1..(Len(Blocks) + 1) /\ at = Behind(Blocks)[k - 1]
    /\ verified_any <=> AnySigned(Blocks, k - 1)
    /\ BlocksChecked(Payload(found), Blocks, k - 1)

\* The second reading comes by the same records as the first.
Walking ==
    /\ pc \in {"scan", "verify"} => call \in Calls
    /\ pc = "scan" =>
          \E n \in 1..(Len(starts) + 1) :
              found = Place(n) /\ \A j \in 1..(n - 1) : Tag(starts[j]) # call
    /\ pc = "verify" =>
          /\ call \in Lists
          /\ \E n \in 1..Len(starts) : found = starts[n] /\ IsFirst(n, call)
          /\ VerifyAt

Answered ==
    /\ answer.call # None => pc \in {"parsed", "scan", "verify"}
    /\ WalksAgree /\ VerifiedListsAreSigned

IInv == TypeOK /\ Chain /\ Contents /\ Walking /\ Answered

\* What a call's answer may say, as the two properties have it.
FirstPayload(tag) == Payload(starts[FirstOf(tag)])
LastPayload(tag) == Payload(starts[LastOf(tag)])

Vouched(blocks, kept, walked) ==
    /\ blocks # <<>> /\ blocks[1].signature # None
    /\ EntriesEnd(blocks, 1) <= Len(walked)
    /\ \A n \in DOMAIN blocks :
          /\ EntriesEnd(blocks, n) <= Len(kept)
          /\ blocks[n].entries = EntriesIn(kept, blocks, n)
          /\ IF blocks[n].signature = None THEN n = Len(blocks)
             ELSE EntriesEnd(blocks, n) <= Len(walked) =>
                    Attested(blocks[n].signature, EntriesIn(walked, blocks, n))

Right(tag, says) ==
    /\ tag # None /\ says = "missing" => ~Signed(tag)
    /\ tag # None /\ says = "truncated" =>
          tag \in Lists /\ Len(FirstPayload(tag)) < Len(LastPayload(tag))
    /\ tag \in Lists /\ says = "ok" =>
          Vouched(mkb.revocation_blocks[tag], LastPayload(tag), FirstPayload(tag))

LEMMA RightIs == (WalksAgree /\ VerifiedListsAreSigned) <=> Right(answer.call, answer.says)
BY Zenon DEF Right, WalksAgree, VerifiedListsAreSigned, Vouched, FirstPayload, LastPayload

LEMMA RightKept ==
    ASSUME UNCHANGED <<bytes, starts, mkb>>, NEW tag, NEW says PROVE Right(tag, says)' <=> Right(tag, says)
<1>1. bytes' = bytes /\ starts' = starts /\ mkb' = mkb
  OBVIOUS
<1>2. \A c : Payload(c)' = Payload(c)
  BY <1>1 DEF Payload, Length
<1>3. StartsOf(tag)' = StartsOf(tag)
  BY <1>1 DEF StartsOf, Tag
<1>4. FirstOf(tag)' = FirstOf(tag) /\ LastOf(tag)' = LastOf(tag)
  BY <1>3, Zenon DEF FirstOf, LastOf
<1>5. FirstPayload(tag)' = FirstPayload(tag) /\ LastPayload(tag)' = LastPayload(tag)
  <2>1. PICK f, l : f = FirstOf(tag) /\ l = LastOf(tag)
    OBVIOUS
  <2>2. Payload(starts[f])' = Payload(starts[f]) /\ Payload(starts[l])' = Payload(starts[l])
    BY <1>1, <1>2
  <2> QED
    BY <1>4, <2>1, <2>2 DEF FirstPayload, LastPayload
<1>6. Signed(tag)' <=> Signed(tag)
  BY <1>1, Zenon DEF Signed
<1>7. \A sig, entries : Attested(sig, entries)' <=> Attested(sig, entries)
  BY <1>1 DEF Attested
<1>8. ASSUME NEW blocks, NEW kept, NEW walked
      PROVE  Vouched(blocks, kept, walked)' <=> Vouched(blocks, kept, walked)
  BY <1>7, Zenon DEF Vouched
<1> QED
  BY <1>1, <1>5, <1>6, <1>8, Zenon DEF Right

\* No call has been answered.
LEMMA NoAnswer == answer.call = None => Answered
BY FilesAssumption DEF Answered, WalksAgree, VerifiedListsAreSigned
-----------------------------------------------------------------------------
(* Parsing *)

\* The record at the cursor is noted and passed.
LEMMA RecordNoted ==
    ASSUME TypeOK, Chain, Taken(cursor), NoteRecord, Advance,
           UNCHANGED bytes, pc' = "record"
    PROVE  /\ cursor' \in Nat /\ starts' \in Seq(Nat) /\ saw_type_record_first' \in BOOLEAN
           /\ Chain'
           /\ \A tag : Has(tag)' <=> Has(tag) \/ Tag(cursor) = tag
           /\ saw_type_record_first' => saw_type_record_first \/ Tag(cursor) = TypeAndVersion
<1>1. PICK N \in Nat : N = Len(starts)
  BY DEF TypeOK
<1>2. PICK more : more = starts'
  OBVIOUS
<1>3. cursor \in Nat /\ Length(cursor) \in Nat /\ cursor' = cursor + Length(cursor)
  BY TakenRecord DEF TypeOK, Advance
<1>4. more = Append(starts, cursor)
  BY <1>2 DEF NoteRecord
<1>5. more \in Seq(Nat) /\ Len(more) = N + 1 /\ more[N + 1] = cursor
      /\ \A n \in 1..N : more[n] = starts[n]
  <2>1. starts \in Seq(Nat)
    BY DEF TypeOK
  <2> QED
    BY <1>1, <1>3, <1>4, <2>1, AppendProperties
<1>6. \A c : Tag(c)' = Tag(c) /\ Length(c)' = Length(c) /\ (Taken(c)' <=> Taken(c))
  BY DEF Tag, Length, Taken
<1>7. Place(1)' = 0
  <2>1. CASE N = 0
    BY <1>1, <1>2, <1>5, <2>1 DEF Place, Chain
  <2>2. CASE N # 0
    <3>1. 1 \in 1..N /\ 1 # N + 1 /\ 1 # (N + 1) + 1
      BY <2>2
    <3> QED
      BY <1>1, <1>2, <1>5, <3>1 DEF Place, Chain
  <2> QED
    BY <2>1, <2>2
<1>8. ASSUME NEW n \in 1..(N + 1)
      PROVE  Taken(more[n]) /\ (IF n + 1 = (N + 1) + 1 THEN cursor' ELSE more[n + 1])
                                  = more[n] + Length(more[n])
  <2>1. CASE n = N + 1
    BY <1>3, <1>5, <2>1
  <2>2. CASE n # N + 1
    <3>1. n \in 1..N /\ n + 1 # (N + 1) + 1 /\ n + 1 \in 1..(N + 1)
      BY <2>2
    <3>2. Taken(starts[n]) /\ Place(n + 1) = starts[n] + Length(starts[n])
      BY <1>1, <3>1 DEF Chain
    <3>3. more[n + 1] = Place(n + 1)
      <4>1. CASE n = N
        BY <1>1, <1>5, <4>1 DEF Place
      <4>2. CASE n # N
        <5>1. n + 1 \in 1..N /\ n + 1 # N + 1
          BY <3>1, <4>2
        <5> QED
          BY <1>1, <1>5, <5>1 DEF Place
      <4> QED
        BY <4>1, <4>2
    <3> QED
      BY <1>5, <3>1, <3>2, <3>3
  <2> QED
    BY <2>1, <2>2
<1>9. Chain'
  BY <1>2, <1>5, <1>6, <1>7, <1>8 DEF Chain, Place
<1>10. ASSUME NEW tag
       PROVE  Has(tag)' <=> Has(tag) \/ Tag(cursor) = tag
  <2>1. Has(tag)' <=> \E n \in 1..(N + 1) : Tag(more[n]) = tag
    BY <1>2, <1>5, <1>6 DEF Has
  <2>2. (\E n \in 1..(N + 1) : Tag(more[n]) = tag)
            <=> (\E n \in 1..N : Tag(more[n]) = tag) \/ Tag(more[N + 1]) = tag
    <3>1. \A n \in 1..(N + 1) : n \in 1..N \/ n = N + 1
      OBVIOUS
    <3>2. \A n \in 1..N : n \in 1..(N + 1)
      OBVIOUS
    <3>3. N + 1 \in 1..(N + 1)
      OBVIOUS
    <3> QED
      BY <3>1, <3>2, <3>3, Zenon
  <2> QED
    BY <1>1, <1>5, <2>1, <2>2 DEF Has
<1>11. /\ saw_type_record_first' \in BOOLEAN
       /\ saw_type_record_first' => saw_type_record_first \/ Tag(cursor) = TypeAndVersion
  BY DEF NoteRecord, TypeOK
<1> QED
  BY <1>2, <1>3, <1>5, <1>9, <1>10, <1>11

\* A record that is noted is the last of its type, and no other type's last.
LEMMA LastNoted ==
    ASSUME TypeOK, NoteRecord, UNCHANGED bytes, NEW tag
    PROVE  /\ Tag(cursor) = tag =>
                 \E n \in 1..Len(starts') : IsLast(n, tag)' /\ starts'[n] = cursor
           /\ \A n \in 1..Len(starts) : Tag(cursor) # tag /\ IsLast(n, tag) =>
                 IsLast(n, tag)' /\ starts'[n] = starts[n] /\ n \in 1..Len(starts')
<1>0. PICK N \in Nat : N = Len(starts)
  BY DEF TypeOK
<1>1. PICK more : N = Len(starts) /\ more = starts'
  BY <1>0
<1>2. Len(more) = N + 1 /\ more[N + 1] = cursor /\ \A n \in 1..N : more[n] = starts[n]
  <2>1. starts \in Seq(Nat) /\ cursor \in Nat
    BY DEF TypeOK
  <2> QED
    BY <1>1, <2>1, AppendProperties DEF NoteRecord
<1>3. \A c : Tag(c)' = Tag(c)
  BY DEF Tag
<1>4. \A n : IsLast(n, tag)' <=> /\ n \in 1..(N + 1) /\ Tag(more[n]) = tag
                                 /\ \A j \in (n + 1)..(N + 1) : Tag(more[j]) # tag
  BY <1>1, <1>2, <1>3 DEF IsLast
<1>5. CASE Tag(cursor) = tag
  <2>1. N + 1 \in 1..(N + 1) /\ ((N + 1) + 1)..(N + 1) = {}
    OBVIOUS
  <2>2. IsLast(N + 1, tag)'
    BY <1>2, <1>4, <1>5, <2>1
  <2> QED
    BY <1>1, <1>2, <1>5, <2>1, <2>2
<1>6. ASSUME NEW n \in 1..N, Tag(cursor) # tag, IsLast(n, tag)
      PROVE  IsLast(n, tag)' /\ more[n] = starts[n] /\ n \in 1..(N + 1)
  <2>1. Tag(starts[n]) = tag /\ \A j \in (n + 1)..N : Tag(starts[j]) # tag
    BY <1>1, <1>6 DEF IsLast
  <2>2. ASSUME NEW j \in (n + 1)..(N + 1) PROVE Tag(more[j]) # tag
    <3>1. j = N + 1 \/ (j \in (n + 1)..N /\ j \in 1..N)
      OBVIOUS
    <3> QED
      BY <1>2, <1>6, <2>1, <3>1
  <2>3. n \in 1..(N + 1) /\ more[n] = starts[n]
    BY <1>2
  <2> QED
    BY <1>4, <2>1, <2>2, <2>3
<1> QED
  BY <1>1, <1>2, <1>5, <1>6

LEMMA ListNoted ==
    ASSUME TypeOK, Chain, Taken(cursor), NoteRecord, Advance, UNCHANGED bytes, pc' = "record",
           NEW tag \in Lists, NEW blocks, mkb'.revocation_blocks[tag] = blocks,
           \/ Tag(cursor) # tag /\ ListRead(tag) /\ blocks = mkb.revocation_blocks[tag]
           \/ Tag(cursor) = tag /\ ListOf(Payload(cursor), blocks)
    PROVE  ListRead(tag)'
<1>1. \A c : Payload(c)' = Payload(c)
  BY DEF Payload, Length
<1>2. Has(tag)' <=> Has(tag) \/ Tag(cursor) = tag
  BY RecordNoted
<1>3. ASSUME NEW n \in 1..Len(starts'), IsLast(n, tag)', NEW p, p = Payload(starts'[n]), ListOf(p, blocks),
             Has(tag) \/ Tag(cursor) = tag
      PROVE  ListRead(tag)'
  <2>1. PICK more : more = starts'
    OBVIOUS
  <2>2. p = Payload(more[n]) /\ Payload(more[n])' = Payload(more[n])
    BY <1>1, <1>3, <2>1
  <2>3. ListOf(Payload(starts[n]), mkb.revocation_blocks[tag])'
    BY <1>3, <2>1, <2>2
  <2> QED
    BY <1>2, <1>3, <2>3 DEF ListRead
<1>4. CASE Tag(cursor) = tag /\ ListOf(Payload(cursor), blocks)
  <2>1. PICK n \in 1..Len(starts') : IsLast(n, tag)' /\ starts'[n] = cursor
    BY <1>4, LastNoted
  <2> QED
    BY <1>3, <1>4, <2>1
<1>5. CASE Has(tag) /\ Tag(cursor) # tag /\ ListRead(tag) /\ blocks = mkb.revocation_blocks[tag]
  <2>1. PICK n \in 1..Len(starts) : IsLast(n, tag) /\ ListOf(Payload(starts[n]), blocks)
    BY <1>5 DEF ListRead
  <2>2. IsLast(n, tag)' /\ starts'[n] = starts[n] /\ n \in 1..Len(starts')
    BY <1>5, <2>1, LastNoted
  <2> QED
    BY <1>3, <1>5, <2>1, <2>2
<1>6. CASE ~Has(tag) /\ Tag(cursor) # tag /\ ListRead(tag) /\ blocks = mkb.revocation_blocks[tag]
  BY <1>2, <1>6 DEF ListRead
<1> QED
  BY <1>4, <1>5, <1>6

LEMMA AtTheCursor == TypeOK /\ Whole => Taken(cursor)
<1> SUFFICES ASSUME TypeOK, Whole PROVE Taken(cursor)
  OBVIOUS
<1>1. cursor \in Nat /\ Len(bytes) \in Nat /\ cursor + 2 <= Len(bytes)
  BY DEF TypeOK, Whole, Remaining, HeaderLen
<1>2. Length(cursor) \in Nat
  <2>1. cursor + 2 \in 1..Len(bytes)
    BY <1>1
  <2> QED
    BY <2>1 DEF TypeOK, Length
<1> QED
  BY <1>1, <1>2 DEF Whole, Taken, Remaining, HeaderLen

\* Where the parser stops there is no record to find.
LEMMA NothingAtTheEnd == TypeOK /\ EndOfRecords => ~Taken(cursor)
<1> SUFFICES ASSUME TypeOK, EndOfRecords, Taken(cursor) PROVE FALSE
  OBVIOUS
<1>1. cursor \in Nat /\ Len(bytes) \in Nat /\ Length(cursor) \in Nat
  BY TakenRecord DEF TypeOK
<1> QED
  BY <1>1 DEF EndOfRecords, Taken, Remaining, HeaderLen

\* The steps that note a record which is no list.
LEMMA NotedKeepsIInv ==
    ASSUME IInv, Taken(cursor), NoteRecord, Advance, pc = "record",
           UNCHANGED <<bytes, pc, list, verifying>>,
           Tag(cursor) \notin Lists,
           mkb' \in MkbType,
           mkb'.revocation_blocks = mkb.revocation_blocks,
           Has(TypeAndVersion) \/ Tag(cursor) = TypeAndVersion
              => mkb'.type_and_version_raw # <<>>,
           mkb'.end_of_block_signature # None => Has(EndOfBlock) \/ Tag(cursor) = EndOfBlock
    PROVE  IInv'
<1>1. TypeOK /\ Chain /\ Contents
  BY DEF IInv
<1>2. UNCHANGED bytes /\ pc' = "record"
  OBVIOUS
<1>3. /\ cursor' \in Nat /\ starts' \in Seq(Nat) /\ saw_type_record_first' \in BOOLEAN
      /\ Chain'
      /\ \A tag : Has(tag)' <=> Has(tag) \/ Tag(cursor) = tag
      /\ saw_type_record_first' => saw_type_record_first \/ Tag(cursor) = TypeAndVersion
  BY <1>1, <1>2, RecordNoted
<1>4. TypeOK'
  BY <1>1, <1>3 DEF TypeOK, verifying
<1>5. ASSUME NEW tag \in Lists PROVE ListRead(tag)'
  BY <1>1, <1>2, ListNoted DEF Contents
<1>6. Contents'
  BY <1>1, <1>2, <1>3, <1>5 DEF Contents
<1>7. Walking' /\ Answered'
  <2>1. answer.call = None /\ answer' = answer
    BY DEF IInv, Answered, verifying
  <2> QED
    BY <1>2, <2>1, FilesAssumption
       DEF Walking, Answered, WalksAgree, VerifiedListsAreSigned
<1> QED
  BY <1>3, <1>4, <1>6, <1>7 DEF IInv

\* A parse that fails keeps what it had, and nothing is asked of it again.
LEMMA FailKeepsIInv ==
    ASSUME IInv, pc \in {"record", "list"}, NEW error, Fail(error), UNCHANGED <<bytes, parsing>>
    PROVE  IInv'
<1>1. /\ pc' = "failed" /\ answer' = [call |-> None, says |-> error]
      /\ UNCHANGED <<call, found, at, k, verified_any>>
      /\ UNCHANGED <<bytes, cursor, starts, saw_type_record_first, mkb, list>>
  BY DEF Fail, parsing
<1>2. TypeOK'
  BY <1>1 DEF IInv, TypeOK
<1>3. Chain'
  BY <1>1 DEF IInv, Chain, Place, Taken, Tag, Length
<1>4. Contents'
  BY <1>1 DEF IInv, Contents, Has, ListRead, IsLast, Tag, Length, Payload
<1>5. Walking'
  BY <1>1 DEF Walking
<1>6. answer'.call = None
  BY <1>1
<1>7. Answered'
  BY <1>1, <1>6, FilesAssumption DEF Answered, WalksAgree, VerifiedListsAreSigned
<1> QED
  BY <1>2, <1>3, <1>4, <1>5, <1>7 DEF IInv

LEMMA ReadPlainKeepsIInv == IInv /\ ReadPlain => IInv'
<1> SUFFICES ASSUME IInv, ReadPlain PROVE IInv'
  OBVIOUS
<1>1. PICK t \in Plain : t = Tag(cursor)
  BY DEF ReadPlain
<1>2. CASE Len(Payload(cursor)) < MinLen[t]
  BY <1>1, <1>2, FailKeepsIInv DEF ReadPlain, AtRecord
<1>3. CASE ~(Len(Payload(cursor)) < MinLen[t])
  <2>1. /\ mkb' = [mkb EXCEPT !.fields[t] = Payload(cursor),
                     !.type_and_version_raw =
                        IF t = TypeAndVersion THEN Record(cursor) ELSE @]
        /\ NoteRecord /\ Advance
        /\ UNCHANGED <<pc, list, verifying>> /\ UNCHANGED <<master, bytes, damage>>
        /\ pc = "record" /\ Whole
    BY <1>1, <1>3 DEF ReadPlain, AtRecord
  <2>2. TypeOK /\ Contents /\ mkb \in MkbType
    BY DEF IInv, TypeOK
  <2>3. Taken(cursor)
    BY <2>1, <2>2, AtTheCursor
  <2>4. PICK p \in Seq(Nat) : p = Payload(cursor)
    BY <2>2, <2>3, TakenRecord DEF TypeOK
  <2>5. PICK r \in Seq(Nat) : r = Record(cursor) /\ r # <<>>
    <3>1. Record(cursor) \in Seq(Nat) /\ Len(Record(cursor)) >= 2
      BY <2>2, <2>3, TakenRecord DEF TypeOK, Taken, HeaderLen
    <3>2. PICK r \in Seq(Nat) : r = Record(cursor) /\ Len(r) >= 2
      BY <3>1, Zenon
    <3> QED
      BY <3>2
  <2>6. PICK raw \in Seq(Nat) :
           /\ raw = IF t = TypeAndVersion THEN r ELSE mkb.type_and_version_raw
           /\ Has(TypeAndVersion) \/ t = TypeAndVersion => raw # <<>>
    BY <2>2, <2>5 DEF Contents, MkbType
  <2>7. mkb' = [mkb EXCEPT !.fields[t] = p, !.type_and_version_raw = raw]
    BY <2>1, <2>4, <2>5, <2>6
  <2>8. /\ mkb' \in MkbType /\ mkb'.revocation_blocks = mkb.revocation_blocks
        /\ mkb'.type_and_version_raw = raw
        /\ mkb'.end_of_block_signature = mkb.end_of_block_signature
    BY <2>2, <2>7 DEF MkbType
  <2>9. t \notin Lists
    BY DEF Plain, Lists
  <2>10. mkb'.end_of_block_signature # None => Has(EndOfBlock)
    BY <2>2, <2>8 DEF Contents
  <2> QED
    BY <1>1, <2>1, <2>3, <2>6, <2>8, <2>9, <2>10, NotedKeepsIInv
<1> QED
  BY <1>2, <1>3

LEMMA ReadEndKeepsIInv == IInv /\ ReadEnd => IInv'
<1> SUFFICES ASSUME IInv, ReadEnd PROVE IInv'
  OBVIOUS
<1>1. /\ mkb' = EndMkb(Payload(cursor)) /\ Tag(cursor) = EndOfBlock
      /\ NoteRecord /\ Advance
      /\ UNCHANGED <<bytes, pc, list, verifying>> /\ pc = "record" /\ Whole
  BY DEF ReadEnd, AtRecord
<1>2. TypeOK /\ Contents /\ mkb \in MkbType
  BY DEF IInv, TypeOK
<1>3. Taken(cursor)
  BY <1>1, <1>2, AtTheCursor
<1>4. PICK p \in Seq(Nat) : p = Payload(cursor)
  BY <1>2, <1>3, TakenRecord DEF TypeOK
<1>5. PICK sig \in Seq(Nat) \cup {None} : sig = IF Len(p) = SigLen THEN p ELSE None
  OBVIOUS
<1>6. mkb' = [mkb EXCEPT !.end_of_block = TRUE, !.end_of_block_signature = sig]
  BY <1>1, <1>4, <1>5 DEF EndMkb
<1>7. /\ mkb' \in MkbType /\ mkb'.revocation_blocks = mkb.revocation_blocks
      /\ mkb'.type_and_version_raw = mkb.type_and_version_raw
  BY <1>2, <1>6 DEF MkbType
<1>8. EndOfBlock \notin Lists /\ EndOfBlock # TypeAndVersion
  BY DEF EndOfBlock, Lists, TypeAndVersion
<1>9. Has(TypeAndVersion) \/ Tag(cursor) = TypeAndVersion => mkb'.type_and_version_raw # <<>>
  BY <1>1, <1>2, <1>7, <1>8 DEF Contents
<1> QED
  BY <1>1, <1>3, <1>7, <1>8, <1>9, NotedKeepsIInv

LEMMA ReadUnknownKeepsIInv == IInv /\ ReadUnknown => IInv'
<1> SUFFICES ASSUME IInv, ReadUnknown PROVE IInv'
  OBVIOUS
<1>1. /\ mkb' = [mkb EXCEPT !.unknown_records = Append(@, Record(cursor))]
      /\ Tag(cursor) \notin Plain \cup Lists \cup {EndOfBlock}
      /\ NoteRecord /\ Advance
      /\ UNCHANGED <<bytes, pc, list, verifying>> /\ pc = "record" /\ Whole
  BY DEF ReadUnknown, AtRecord
<1>2. TypeOK /\ Contents /\ mkb \in MkbType
  BY DEF IInv, TypeOK
<1>3. Taken(cursor)
  BY <1>1, <1>2, AtTheCursor
<1>4. PICK r \in Seq(Nat) : r = Record(cursor)
  BY <1>2, <1>3, TakenRecord DEF TypeOK
<1>5. Append(mkb.unknown_records, r) \in Seq(Seq(Nat))
  BY <1>2, AppendProperties DEF MkbType
<1>6. /\ mkb' \in MkbType /\ mkb'.revocation_blocks = mkb.revocation_blocks
      /\ mkb'.type_and_version_raw = mkb.type_and_version_raw
      /\ mkb'.end_of_block_signature = mkb.end_of_block_signature
  BY <1>1, <1>2, <1>4, <1>5 DEF MkbType
<1>7. Tag(cursor) # TypeAndVersion /\ Tag(cursor) \notin Lists
  BY <1>1 DEF Plain, TypeAndVersion
<1>8. /\ Has(TypeAndVersion) \/ Tag(cursor) = TypeAndVersion
            => mkb'.type_and_version_raw # <<>>
      /\ mkb'.end_of_block_signature # None => Has(EndOfBlock)
  BY <1>2, <1>6, <1>7 DEF Contents
<1> QED
  BY <1>1, <1>3, <1>6, <1>7, <1>8, NotedKeepsIInv

LEMMA FinishParseKeepsIInv == IInv /\ FinishParse => IInv'
<1> SUFFICES ASSUME IInv, FinishParse PROVE IInv'
  OBVIOUS
<1>1. pc = "record" /\ EndOfRecords /\ UNCHANGED <<bytes, parsing>>
  BY DEF FinishParse
<1>2. CASE ~saw_type_record_first
  BY <1>1, <1>2, FailKeepsIInv DEF FinishParse
<1>3. CASE saw_type_record_first
  <2>1. /\ pc' = "parsed" /\ UNCHANGED <<call, found, at, k, verified_any, answer>>
        /\ UNCHANGED <<bytes, cursor, starts, saw_type_record_first, mkb, list>>
    BY <1>1, <1>3 DEF FinishParse, parsing, verifying
  <2>2. ~Taken(cursor)
    BY <1>1, NothingAtTheEnd DEF IInv
  <2>3. TypeOK'
    BY <2>1 DEF IInv, TypeOK
  <2>4. Chain'
    BY <1>3, <2>1, <2>2 DEF IInv, Chain, Place, Taken, Tag, Length
  <2>5. Contents'
    BY <2>1 DEF IInv, Contents, Has, ListRead, IsLast, Tag, Length, Payload
  <2>6. Walking'
    BY <2>1 DEF Walking
  <2>7. answer.call = None
    BY <1>1 DEF IInv, Answered
  <2>8. Answered'
    BY <2>1, <2>7, FilesAssumption DEF Answered, WalksAgree, VerifiedListsAreSigned
  <2> QED
    BY <2>3, <2>4, <2>5, <2>6, <2>8 DEF IInv
<1> QED
  BY <1>2, <1>3

LEMMA RefuseRecordKeepsIInv == IInv /\ RefuseRecord => IInv'
BY FailKeepsIInv DEF RefuseRecord

\* The steps inside a list: the parser has noted nothing yet.
LEMMA InListKeepsIInv ==
    ASSUME IInv, pc \in {"record", "list"}, pc' = "list",
           Taken(cursor), Tag(cursor) \in Lists,
           UNCHANGED <<bytes, cursor, starts, saw_type_record_first, mkb, verifying>>,
           list' \in [at : Nat, blocks : Seq(BlockType)],
           ReadUpto(Payload(cursor), list'.blocks, list'.at)
    PROVE  IInv'
<1>1. TypeOK'
  BY DEF IInv, TypeOK, verifying
<1>2. Chain'
  BY DEF IInv, Chain, Place, Taken, Tag, Length
<1>3. Contents'
  <2>1. PICK l : l = list'
    OBVIOUS
  <2>2. ReadUpto(Payload(cursor)', l.blocks, l.at)
    BY <2>1 DEF Payload, Length
  <2>3. ReadUpto(Payload(cursor), list.blocks, list.at)'
    BY <2>1, <2>2
  <2> QED
    BY <2>3 DEF IInv, Contents, Has, ListRead, IsLast, Tag, Length, Payload
<1>4. Walking'
  BY DEF Walking
<1>5. answer.call = None /\ answer' = answer
  BY DEF IInv, Answered, verifying
<1>6. Answered'
  BY <1>5, FilesAssumption DEF Answered, WalksAgree, VerifiedListsAreSigned
<1> QED
  BY <1>1, <1>2, <1>3, <1>4, <1>6 DEF IInv

LEMMA BeginListKeepsIInv == IInv /\ BeginList => IInv'
<1> SUFFICES ASSUME IInv, BeginList PROVE IInv'
  OBVIOUS
<1>1. CASE Len(Payload(cursor)) < CountLen
  BY <1>1, FailKeepsIInv DEF BeginList, AtRecord
<1>2. CASE ~(Len(Payload(cursor)) < CountLen)
  <2>1. /\ pc = "record" /\ pc' = "list" /\ Whole /\ Tag(cursor) \in Lists
        /\ list' = [at |-> CountLen, blocks |-> <<>>]
        /\ UNCHANGED <<bytes, cursor, starts, saw_type_record_first, mkb, verifying>>
    BY <1>2 DEF BeginList, AtRecord
  <2>2. Taken(cursor)
    BY <2>1, AtTheCursor DEF IInv
  <2>3. PICK p \in Seq(Nat) : p = Payload(cursor)
    BY <2>2, TakenRecord DEF IInv, TypeOK
  <2>4. ReadUpto(p, <<>>, CountLen)
    BY <1>2, <2>3, ReadNone DEF CountLen
  <2>5. list' \in [at : Nat, blocks : Seq(BlockType)]
        /\ list'.blocks = <<>> /\ list'.at = CountLen
    BY <2>1 DEF CountLen
  <2> QED
    BY <2>1, <2>2, <2>3, <2>4, <2>5, InListKeepsIInv
<1> QED
  BY <1>1, <1>2

LEMMA ReadBlockKeepsIInv == IInv /\ ReadBlock => IInv'
<1> SUFFICES ASSUME IInv, ReadBlock PROVE IInv'
  OBVIOUS
<1>1. CASE ~BlockFits(Payload(cursor), list.at)
  BY <1>1, FailKeepsIInv DEF ReadBlock
<1>2. CASE BlockFits(Payload(cursor), list.at)
  <2>1. /\ pc = "list" /\ list.at < Len(Payload(cursor))
        /\ list' = [at |-> AfterBlock(Payload(cursor), list.at),
                    blocks |-> Append(list.blocks, Block(Payload(cursor), list.at))]
        /\ UNCHANGED <<bytes, pc, cursor, starts, saw_type_record_first, mkb, verifying>>
    BY <1>2 DEF ReadBlock
  <2>2. Taken(cursor) /\ Tag(cursor) \in Lists
        /\ ReadUpto(Payload(cursor), list.blocks, list.at)
    BY <2>1 DEF IInv, Chain, Contents
  <2>3. PICK p \in Seq(Nat) : p = Payload(cursor)
    BY <2>2, TakenRecord DEF IInv, TypeOK
  <2>4. PICK blocks \in Seq(BlockType), c \in Nat : blocks = list.blocks /\ c = list.at
    BY DEF IInv, TypeOK
  <2>5. AfterBlock(p, c) \in Nat /\ Block(p, c) \in BlockType
    BY <1>2, <2>3, <2>4, FittingBlock
  <2>6. PICK next \in Nat, more \in Seq(BlockType) :
           next = AfterBlock(p, c) /\ more = Append(blocks, Block(p, c))
    BY <2>5, AppendProperties
  <2>7. ReadUpto(p, more, next)
    BY <1>2, <2>1, <2>2, <2>3, <2>4, <2>6, ReadMore
  <2>8. list' = [at |-> next, blocks |-> more]
    BY <2>1, <2>3, <2>4, <2>6
  <2>9. list' \in [at : Nat, blocks : Seq(BlockType)] /\ list'.blocks = more /\ list'.at = next
    BY <2>8
  <2> QED
    BY <2>1, <2>2, <2>3, <2>7, <2>9, InListKeepsIInv
<1> QED
  BY <1>1, <1>2

LEMMA EndListKeepsIInv == IInv /\ EndList => IInv'
<1> SUFFICES ASSUME IInv, EndList PROVE IInv'
  OBVIOUS
<1>1. /\ pc = "list" /\ pc' = "record" /\ list.at >= Len(Payload(cursor))
      /\ mkb' = [mkb EXCEPT !.revocation_blocks[Tag(cursor)] = list.blocks]
      /\ NoteRecord /\ Advance
      /\ UNCHANGED <<bytes, list, verifying>>
  BY DEF EndList
<1>2. TypeOK /\ Chain /\ Contents /\ mkb \in MkbType
      /\ list.at \in Nat /\ list.blocks \in Seq(BlockType)
  BY DEF IInv, TypeOK
<1>3. Taken(cursor) /\ Tag(cursor) \in Lists
  BY <1>1, <1>2 DEF Chain
<1>4. ListOf(Payload(cursor), list.blocks)
  BY <1>1, <1>2 DEF Contents, ListOf
<1>5. /\ mkb' \in MkbType
      /\ mkb'.type_and_version_raw = mkb.type_and_version_raw
      /\ mkb'.end_of_block_signature = mkb.end_of_block_signature
      /\ \A tag \in Lists : mkb'.revocation_blocks[tag] =
            IF tag = Tag(cursor) THEN list.blocks ELSE mkb.revocation_blocks[tag]
  BY <1>1, <1>2, <1>3 DEF MkbType
<1>6. /\ cursor' \in Nat /\ starts' \in Seq(Nat) /\ saw_type_record_first' \in BOOLEAN
      /\ Chain'
      /\ \A tag : Has(tag)' <=> Has(tag) \/ Tag(cursor) = tag
      /\ saw_type_record_first' => saw_type_record_first \/ Tag(cursor) = TypeAndVersion
  BY <1>1, <1>2, <1>3, RecordNoted
<1>7. ASSUME NEW tag \in Lists PROVE ListRead(tag)'
  <2>1. CASE Tag(cursor) = tag
    BY <1>1, <1>2, <1>3, <1>4, <1>5, <2>1, ListNoted
  <2>2. CASE Tag(cursor) # tag
    BY <1>1, <1>2, <1>3, <1>5, <2>2, ListNoted DEF Contents
  <2> QED
    BY <2>1, <2>2
<1>8. TypeOK'
  BY <1>1, <1>2, <1>5, <1>6 DEF TypeOK, verifying
<1>9. Contents'
  <2>1. Tag(cursor) # TypeAndVersion
    BY <1>3 DEF Lists, TypeAndVersion
  <2> QED
    BY <1>1, <1>2, <1>5, <1>6, <1>7, <2>1 DEF Contents
<1>10. Walking'
  BY <1>1 DEF Walking
<1>11. answer.call = None /\ answer' = answer
  BY <1>1 DEF IInv, Answered, verifying
<1>12. Answered'
  BY <1>11, FilesAssumption DEF Answered, WalksAgree, VerifiedListsAreSigned
<1> QED
  BY <1>6, <1>8, <1>9, <1>10, <1>12 DEF IInv
-----------------------------------------------------------------------------
(* Delivery *)


LEMMA InitIInv == Init => IInv
<1> SUFFICES ASSUME Init PROVE IInv
  OBVIOUS
<1>1. bytes \in Seq(Nat)
  BY FileType, FilesAssumption DEF Init, RecordType
<1>2. mkb \in MkbType /\ mkb.end_of_block_signature = None
      /\ \A tag \in Lists : mkb.revocation_blocks[tag] = <<>>
  BY DEF Init, EmptyMkb, MkbType
<1>3. list \in [at : Nat, blocks : Seq(BlockType)]
  BY DEF Init
<1>4. starts = <<>> /\ Len(starts) = 0 /\ starts \in Seq(Nat)
  BY DEF Init
<1>5. TypeOK
  <2>1. cursor \in Nat /\ found \in Nat /\ at \in Nat /\ k \in Nat \ {0}
    BY DEF Init
  <2>2. call \in Calls \cup {None} /\ saw_type_record_first \in BOOLEAN /\ verified_any \in BOOLEAN
    BY DEF Init
  <2>3. pc \in {"delivery", "record", "list", "failed", "parsed", "scan", "verify"}
    BY DEF Init
  <2> QED
    BY <1>1, <1>2, <1>3, <1>4, <2>1, <2>2, <2>3, Zenon DEF TypeOK
<1>6. \A tag : ~Has(tag)
  BY <1>4 DEF Has
<1>7. Chain
  BY <1>4 DEF Chain, Place, Init
<1>8. Contents
  BY <1>2, <1>6 DEF Contents, ListRead, Init
<1>9. Walking
  BY DEF Walking, Init
<1>10. Answered
  BY NoAnswer DEF Init
<1> QED
  BY <1>5, <1>7, <1>8, <1>9, <1>10 DEF IInv

\* The steps of the delivery: whatever becomes of the file, nothing has been
\* read of it.
LEMMA DeliveredKeepsIInv ==
    ASSUME IInv, pc = "delivery", pc' \in {"delivery", "record"}, bytes' \in Seq(Nat),
           UNCHANGED <<parsing, verifying>>
    PROVE  IInv'
<1>1. /\ starts = <<>> /\ Len(starts) = 0
      /\ UNCHANGED <<cursor, starts, saw_type_record_first, mkb, list>>
      /\ UNCHANGED <<call, found, at, k, verified_any, answer>>
  BY DEF IInv, Chain, parsing, verifying
<1>2. TypeOK'
  BY <1>1 DEF IInv, TypeOK
<1>3. \A tag : ~Has(tag) /\ ~Has(tag)'
  BY <1>1 DEF Has
<1>4. Chain'
  BY <1>1 DEF IInv, Chain, Place
<1>5. Contents'
  BY <1>1, <1>3 DEF IInv, Contents, ListRead
<1>6. Walking'
  BY DEF Walking
<1>7. answer.call = None
  BY DEF IInv, Answered
<1>8. Answered'
  BY <1>1, <1>7, FilesAssumption DEF Answered, WalksAgree, VerifiedListsAreSigned
<1> QED
  BY <1>2, <1>4, <1>5, <1>6, <1>8 DEF IInv

LEMMA DeliveryKeepsIInv == IInv /\ Delivery => IInv'
<1> SUFFICES ASSUME IInv, Delivery PROVE IInv'
  OBVIOUS
<1>1. bytes \in Seq(Nat) /\ Len(bytes) \in Nat
  BY DEF IInv, TypeOK
<1>2. ASSUME NEW n \in 0..(Len(bytes) - 1), Cut(n) PROVE IInv'
  <2>1. \A i \in 1..n : bytes[i] \in Nat
    BY <1>1
  <2>2. SubSeq(bytes, 1, n) \in Seq(Nat)
    BY <1>1, <2>1, SubSeqProperties
  <2> QED
    BY <1>2, <2>2, DeliveredKeepsIInv DEF Cut
<1>2a. ASSUME NEW tail \in Tails, Follow(tail) PROVE IInv'
  <2>1. bytes \o tail \in Seq(Nat)
    BY <1>1, FilesAssumption, ConcatProperties
  <2> QED
    BY <1>2a, <2>1, DeliveredKeepsIInv DEF Follow
<1>3. ASSUME NEW c \in DOMAIN bytes, NEW value \in Damages, Damage(c, value) PROVE IInv'
  <2>1. [bytes EXCEPT ![c] = value] \in Seq(Nat)
    BY <1>1, FilesAssumption, ExceptSeq
  <2> QED
    BY <1>3, <2>1, DeliveredKeepsIInv DEF Damage
<1>4. ASSUME NEW n \in PadLens, Deliver(n) PROVE IInv'
  <2>1. Zeros(n) \in Seq(Nat)
    BY FilesAssumption DEF Zeros
  <2>2. bytes \o Zeros(n) \in Seq(Nat)
    BY <1>1, <2>1, ConcatProperties
  <2> QED
    BY <1>4, <2>2, DeliveredKeepsIInv DEF Deliver
<1> QED
  BY <1>2, <1>2a, <1>3, <1>4 DEF Delivery
-----------------------------------------------------------------------------
(* The calls *)

Parsed == {"parsed", "scan", "verify"}

\* A call changes neither the file nor the MKB.
LEMMA CallFrame ==
    ASSUME IInv, pc \in Parsed, pc' \in Parsed, UNCHANGED <<bytes, parsing>>,
           call' \in Calls \cup {None}, found' \in Nat, at' \in Nat, k' \in Nat \ {0},
           verified_any' \in BOOLEAN
    PROVE  TypeOK' /\ Chain' /\ Contents'
<1>1. UNCHANGED <<bytes, cursor, starts, saw_type_record_first, mkb, list>>
  BY DEF parsing
<1>2. TypeOK'
  BY <1>1 DEF IInv, TypeOK, Parsed
<1>3. Chain'
  BY <1>1 DEF IInv, Chain, Place, Taken, Tag, Length, Parsed
<1>4. Contents'
  BY <1>1 DEF IInv, Contents, Has, ListRead, IsLast, Tag, Length, Payload, Parsed
<1> QED
  BY <1>2, <1>3, <1>4

LEMMA RightAnswer ==
    ASSUME NEW tag, NEW says, answer'.call = tag, answer'.says = says, Right(tag, says)'
    PROVE  WalksAgree' /\ VerifiedListsAreSigned'
<1>1. Right(answer.call, answer.says)'
  BY Zenon
<1> QED
  BY <1>1, Zenon DEF Right, WalksAgree, VerifiedListsAreSigned, Vouched, FirstPayload, LastPayload

LEMMA AnswerKept ==
    ASSUME IInv, pc' \in Parsed, UNCHANGED <<bytes, parsing, answer>>
    PROVE  Answered'
<1>1. UNCHANGED <<bytes, starts, mkb>> /\ UNCHANGED answer
  BY DEF parsing
<1>2. PICK tag, says : tag = answer.call /\ says = answer.says
  OBVIOUS
<1>3. Right(tag, says)'
  BY <1>1, <1>2, RightIs, RightKept DEF IInv, Answered
<1>4. WalksAgree' /\ VerifiedListsAreSigned'
  BY <1>1, <1>2, <1>3, RightAnswer
<1> QED
  BY <1>4 DEF Answered, Parsed

LEMMA AnswerGiven ==
    ASSUME NEW tag, NEW says, Return(tag, says), Right(tag, says), UNCHANGED <<bytes, parsing>>
    PROVE  Answered'
<1>1. UNCHANGED <<bytes, starts, mkb>> /\ pc' = "parsed"
      /\ answer' = [call |-> tag, says |-> says]
  BY DEF parsing, Return
<1>2. answer'.call = tag /\ answer'.says = says
  BY <1>1
<1>3. WalksAgree' /\ VerifiedListsAreSigned'
  BY <1>1, <1>2, RightKept, RightAnswer
<1> QED
  BY <1>1, <1>3 DEF Answered

\* An error other than a missing or a too short list is always right.
LEMMA InvalidIsRight == \A tag : Right(tag, "invalid")
BY DEF Right

LEMMA MissingIsRight ==
    ASSUME NEW tag \in Calls, ~Signed(tag) PROVE Right(tag, "missing")
BY DEF Right

\* What the parser did not find, it has no signature of.
LEMMA WithoutRecord ==
    ASSUME Contents, NEW tag \in Calls, ~Has(tag)
    PROVE  ~Signed(tag)
<1>1. CASE tag = EndOfBlock
  BY <1>1 DEF Contents, Signed
<1>2. CASE tag \in Lists
  <2>1. mkb.revocation_blocks[tag] = <<>> /\ tag # EndOfBlock
    BY <1>2 DEF Contents, ListRead, Lists, EndOfBlock
  <2> QED
    BY <2>1 DEF Signed
<1> QED
  BY <1>1, <1>2 DEF Calls

LEMMA VerifyKeepsIInv ==
    ASSUME IInv, NEW tag \in Calls, Verify(tag)
    PROVE  IInv'
<1> DEFINE absent ==
             \/ tag = EndOfBlock /\ mkb.end_of_block_signature = None
             \/ tag \in Lists /\ (mkb.revocation_blocks[tag] = <<>>
                                    \/ mkb.type_and_version_raw = <<>>)
<1>1. pc = "parsed" /\ UNCHANGED <<bytes, parsing>> /\ UNCHANGED <<at, k, verified_any>>
  BY DEF Verify
<1>2. UNCHANGED starts
  BY <1>1 DEF parsing
<1>3. CASE absent
  <2>1. Return(tag, "missing") /\ UNCHANGED <<call, found>>
    BY <1>3 DEF Verify
  <2>2. mkb.type_and_version_raw # <<>>
    BY <1>1 DEF IInv, Chain, Contents
  <2>3. ~Signed(tag)
    BY <1>3, <2>2 DEF Signed, Lists, EndOfBlock
  <2>4. Answered'
    BY <1>1, <2>1, <2>3, AnswerGiven, MissingIsRight
  <2>5. Walking'
    BY <2>1 DEF Walking, Return
  <2>6. TypeOK' /\ Chain' /\ Contents'
    BY <1>1, <2>1, CallFrame DEF Return, Parsed, IInv, TypeOK
  <2> QED
    BY <2>4, <2>5, <2>6 DEF IInv
<1>4. CASE ~absent
  <2>1. pc' = "scan" /\ call' = tag /\ found' = 0 /\ UNCHANGED answer
    BY <1>4 DEF Verify
  <2>2. Walking'
    <3>1. Place(1)' = 0
      BY <1>1 DEF IInv, Chain, Place, parsing
    <3>2. Len(starts) \in Nat
      BY DEF IInv, TypeOK
    <3>3. 1 \in 1..(Len(starts) + 1) /\ 1..(1 - 1) = {}
      BY <3>2
    <3> QED
      BY <1>2, <2>1, <3>1, <3>3 DEF Walking
  <2>3. Answered'
    BY <1>1, <2>1, AnswerKept DEF Parsed
  <2>4. TypeOK' /\ Chain' /\ Contents'
    BY <1>1, <2>1, CallFrame DEF Parsed, IInv, TypeOK
  <2> QED
    BY <2>2, <2>3, <2>4 DEF IInv
<1> QED
  BY <1>3, <1>4

\* A walk among the records is at one of them or at their end.
LEMMA AtPlace ==
    ASSUME IInv, pc = "scan"
    PROVE  \E n \in 1..(Len(starts) + 1) :
              /\ found = Place(n) /\ \A j \in 1..(n - 1) : Tag(starts[j]) # call
              /\ IF Taken(found)
                   THEN n \in 1..Len(starts) /\ found = starts[n]
                          /\ found + Length(found) = Place(n + 1)
                   ELSE n = Len(starts) + 1
<1>1. PICK n \in 1..(Len(starts) + 1) :
         found = Place(n) /\ \A j \in 1..(n - 1) : Tag(starts[j]) # call
  BY DEF IInv, Walking
<1>2. Len(starts) \in Nat
  BY DEF IInv, TypeOK
<1>3. CASE n = Len(starts) + 1
  <2>1. ~Taken(found)
    BY <1>1, <1>3 DEF Place, IInv, Chain
  <2> QED
    BY <1>1, <1>3, <2>1
<1>4. CASE n # Len(starts) + 1
  <2>1. n \in 1..Len(starts)
    BY <1>2, <1>4
  <2>2. found = starts[n]
    BY <1>1, <1>4 DEF Place
  <2>3. Taken(found) /\ found + Length(found) = Place(n + 1)
    BY <2>1, <2>2 DEF IInv, Chain
  <2> QED
    BY <1>1, <2>1, <2>2, <2>3
<1> QED
  BY <1>3, <1>4

LEMMA ScanKeepsIInv == IInv /\ Scan => IInv'
<1> SUFFICES ASSUME IInv, Scan PROVE IInv'
  OBVIOUS
<1>1. /\ pc = "scan" /\ ~(AtFound /\ Tag(found) = call)
      /\ UNCHANGED <<bytes, parsing>> /\ UNCHANGED <<call, at, k, verified_any>>
  BY DEF Scan
<1>2. PICK n \in 1..(Len(starts) + 1) :
         /\ found = Place(n) /\ \A j \in 1..(n - 1) : Tag(starts[j]) # call
         /\ IF Taken(found)
              THEN n \in 1..Len(starts) /\ found = starts[n] /\ found + Length(found) = Place(n + 1)
              ELSE n = Len(starts) + 1
  BY <1>1, AtPlace
<1>3. call \in Calls /\ Len(starts) \in Nat /\ found \in Nat /\ bytes \in Seq(Nat)
  BY <1>1 DEF IInv, Walking, TypeOK
<1>4. AtFound <=> Taken(found)
  BY DEF AtFound, Taken
<1>5. CASE AtFound
  <2>1. found' = found + Length(found) /\ UNCHANGED <<pc, answer>>
    BY <1>5 DEF Scan, SkipRecord
  <2>2. found' \in Nat
    BY <1>3, <1>4, <1>5, <2>1, TakenRecord
  <2>3. TypeOK' /\ Chain' /\ Contents'
    BY <1>1, <2>1, <2>2, CallFrame DEF Parsed, IInv, TypeOK
  <2>4. Answered'
    BY <1>1, <2>1, AnswerKept DEF Parsed
  <2>5. Walking'
    <3>1. n + 1 \in 1..(Len(starts) + 1) /\ found' = Place(n + 1)
      BY <1>2, <1>3, <1>4, <1>5, <2>1
    <3>2. ASSUME NEW j \in 1..((n + 1) - 1) PROVE Tag(starts[j]) # call
      <4>1. j \in 1..(n - 1) \/ j = n
        BY <1>3
      <4> QED
        BY <1>1, <1>2, <1>4, <1>5, <4>1
    <3>3. UNCHANGED <<bytes, starts, cursor, call>>
      BY <1>1 DEF parsing
    <3>4. Place(n + 1)' = Place(n + 1) /\ \A j : Tag(starts[j])' = Tag(starts[j])
      BY <3>3 DEF Place, Tag
    <3> QED
      BY <1>1, <1>3, <2>1, <3>1, <3>2, <3>3, <3>4 DEF Walking
  <2> QED
    BY <2>3, <2>4, <2>5 DEF IInv
<1>6. CASE ~AtFound
  <2>1. Return(call, "missing") /\ UNCHANGED found
    BY <1>6 DEF Scan
  <2>2. ~Has(call)
    BY <1>2, <1>3, <1>4, <1>6 DEF Has
  <2>3. Right(call, "missing")
    BY <1>3, <2>2, WithoutRecord, MissingIsRight DEF IInv
  <2>4. Answered'
    BY <1>1, <2>1, <2>3, AnswerGiven
  <2>5. TypeOK' /\ Chain' /\ Contents'
    BY <1>1, <2>1, CallFrame DEF Return, Parsed, IInv, TypeOK
  <2>6. Walking'
    BY <2>1 DEF Walking, Return
  <2> QED
    BY <2>4, <2>5, <2>6 DEF IInv
<1> QED
  BY <1>5, <1>6

\* A call that is answered is over.
LEMMA ConcludedKeepsIInv ==
    ASSUME IInv, pc \in Parsed, NEW tag, NEW says, Return(tag, says), Right(tag, says),
           UNCHANGED <<bytes, parsing, call, found>>,
           at' \in Nat, k' \in Nat \ {0}, verified_any' \in BOOLEAN
    PROVE  IInv'
<1>1. Answered'
  BY AnswerGiven
<1>2. pc' = "parsed"
  BY DEF Return
<1>3. TypeOK' /\ Chain' /\ Contents'
  BY <1>2, CallFrame DEF Parsed, IInv, TypeOK
<1>4. Walking'
  BY <1>2 DEF Walking
<1> QED
  BY <1>1, <1>3, <1>4 DEF IInv

LEMMA CheckEndKeepsIInv == IInv /\ CheckEnd => IInv'
<1> SUFFICES ASSUME IInv, CheckEnd PROVE IInv'
  OBVIOUS
<1>1. /\ pc = "scan" /\ call = EndOfBlock
      /\ UNCHANGED <<bytes, parsing, call, found, at, k, verified_any>>
      /\ Return(call, "ok") \/ Return(call, "invalid")
  BY DEF CheckEnd
<1>2. EndOfBlock \notin Lists
  BY DEF EndOfBlock, Lists
<1>3. Right(call, "ok") /\ Right(call, "invalid")
  BY <1>1, <1>2 DEF Right
<1> QED
  BY <1>1, <1>3, ConcludedKeepsIInv DEF Parsed, IInv, TypeOK

\* The list in the Mkb, and the first and the last list of its type in the file.
LEMMA KeptList ==
    ASSUME IInv, call \in Lists, NEW n, IsFirst(n, call), found = starts[n]
    PROVE  /\ Blocks \in Seq(BlockType) /\ found \in Nat /\ Taken(found)
           /\ FirstPayload(call) = Payload(found) /\ Payload(found) \in Seq(Nat)
           /\ LastPayload(call) \in Seq(Nat) /\ ReadAs(LastPayload(call), Blocks)
<1>1. starts \in Seq(Nat) /\ bytes \in Seq(Nat) /\ Blocks \in Seq(BlockType)
      /\ n \in 1..Len(starts) /\ Tag(starts[n]) = call
  BY DEF IInv, TypeOK, MkbType, Blocks, IsFirst
<1>2. \A i \in 1..Len(starts) :
         starts[i] \in Nat /\ Taken(starts[i]) /\ Payload(starts[i]) \in Seq(Nat)
  <2> SUFFICES ASSUME NEW i \in 1..Len(starts)
               PROVE  starts[i] \in Nat /\ Taken(starts[i]) /\ Payload(starts[i]) \in Seq(Nat)
    OBVIOUS
  <2>1. starts[i] \in Nat /\ Taken(starts[i])
    BY <1>1 DEF IInv, Chain
  <2> QED
    BY <1>1, <2>1, TakenRecord
<1>3. PICK l \in 1..Len(starts) : IsLast(l, call) /\ ListOf(Payload(starts[l]), Blocks)
  BY <1>1 DEF IInv, Contents, ListRead, Has, Blocks
<1>4. LastPayload(call) = Payload(starts[l]) /\ FirstPayload(call) = Payload(found)
  BY <1>1, <1>3, FirstIs, LastIs DEF LastPayload, FirstPayload
<1>5. ReadAs(Payload(starts[l]), Blocks)
  BY <1>1, <1>2, <1>3, KeptBlocks
<1> QED
  BY <1>1, <1>2, <1>3, <1>4, <1>5

\* The invariant of a walk among the blocks, after a step of it.
LEMMA VerifyAtNext ==
    ASSUME UNCHANGED <<bytes, mkb, call, found>>,
           k' \in 1..(Len(Blocks) + 1), at' = Behind(Blocks)[k' - 1],
           verified_any' <=> AnySigned(Blocks, k' - 1),
           BlocksChecked(Payload(found), Blocks, k' - 1)
    PROVE  VerifyAt'
<1>1. PICK p, blocks : p = Payload(found) /\ blocks = Blocks
  OBVIOUS
<1>2. Payload(found)' = p /\ Blocks' = blocks
  BY <1>1 DEF Payload, Length, Blocks
<1>3. \A sig, entries : Attested(sig, entries)' <=> Attested(sig, entries)
  BY DEF Attested
<1>4. PICK n : n = k'
  OBVIOUS
<1>5. BlocksChecked(p, blocks, n - 1) /\ (verified_any' <=> AnySigned(blocks, n - 1))
  BY <1>1, <1>4
<1>6. BlocksChecked(p, blocks, n - 1)'
  BY <1>3, <1>5, Zenon DEF BlocksChecked
<1>7. BlocksChecked(Payload(found), Blocks, k - 1)' /\ (verified_any' <=> AnySigned(Blocks, k - 1)')
  BY <1>2, <1>4, <1>5, <1>6, Zenon
<1>8. k' \in 1..(Len(Blocks') + 1) /\ at' = Behind(Blocks')[k' - 1]
  BY <1>1, <1>2
<1> QED
  BY <1>7, <1>8 DEF VerifyAt

LEMMA BeginBlocksKeepsIInv == IInv /\ BeginBlocks => IInv'
<1> SUFFICES ASSUME IInv, BeginBlocks PROVE IInv'
  OBVIOUS
<1>1. /\ pc = "scan" /\ Taken(found) /\ Tag(found) = call /\ call \in Lists
      /\ UNCHANGED <<bytes, parsing, call, found>>
  BY DEF BeginBlocks, AtFound, Taken
<1>2. PICK n \in 1..Len(starts) : found = starts[n] /\ IsFirst(n, call)
  BY <1>1, AtPlace DEF IsFirst
<1>3. /\ Blocks \in Seq(BlockType) /\ Payload(found) \in Seq(Nat)
      /\ FirstPayload(call) = Payload(found)
      /\ LastPayload(call) \in Seq(Nat) /\ ReadAs(LastPayload(call), Blocks)
  BY <1>1, <1>2, KeptList
<1>4. CASE Len(Payload(found)) < CountLen
  <2>1. Return(call, "truncated") /\ UNCHANGED <<at, k, verified_any>>
    BY <1>4 DEF BeginBlocks
  <2>2. Len(FirstPayload(call)) < Len(LastPayload(call))
    BY <1>3, <1>4 DEF ReadAs, CountLen
  <2>3. Right(call, "truncated")
    BY <1>1, <2>2 DEF Right
  <2> QED
    BY <1>1, <2>1, <2>3, ConcludedKeepsIInv DEF Parsed, IInv, TypeOK
<1>5. CASE ~(Len(Payload(found)) < CountLen)
  <2>1. pc' = "verify" /\ at' = CountLen /\ k' = 1 /\ verified_any' = FALSE /\ UNCHANGED answer
    BY <1>5 DEF BeginBlocks
  <2>2. TypeOK' /\ Chain' /\ Contents'
    <3>1. at' \in Nat /\ k' \in Nat \ {0} /\ verified_any' \in BOOLEAN
      <4>1. CountLen \in Nat /\ 1 \in Nat \ {0} /\ FALSE \in BOOLEAN
        BY DEF CountLen
      <4> QED
        BY <2>1, <4>1, Zenon
    <3>2. call' \in Calls \cup {None} /\ found' \in Nat /\ pc \in Parsed /\ pc' \in Parsed
      BY <1>1, <2>1 DEF Parsed, IInv, TypeOK
    <3>3. UNCHANGED <<bytes, parsing>>
      BY <1>1
    <3> QED
      BY <3>1, <3>2, <3>3, CallFrame
  <2>3. Answered'
    BY <1>1, <2>1, AnswerKept DEF Parsed
  <2>4. VerifyAt'
    <3>1. k' \in 1..(Len(Blocks) + 1) /\ k' - 1 = 0 /\ 1..(k' - 1) = {}
      BY <1>3, <2>1
    <3>2. BlocksChecked(Payload(found), Blocks, k' - 1) /\ ~AnySigned(Blocks, k' - 1)
      BY <3>1 DEF BlocksChecked, AnySigned
    <3>3. at' = Behind(Blocks)[k' - 1]
      BY <1>3, <2>1, <3>1, BehindIs
    <3> QED
      BY <1>1, <2>1, <3>1, <3>2, <3>3, VerifyAtNext DEF parsing
  <2>5. Walking'
    <3>1. UNCHANGED <<bytes, starts, call, found>>
      BY <1>1 DEF parsing
    <3>2. IsFirst(n, call)'
      BY <1>2, <3>1 DEF Tag, IsFirst
    <3> QED
      BY <1>1, <1>2, <2>1, <2>4, <3>1, <3>2 DEF Walking, Calls
  <2> QED
    BY <2>2, <2>3, <2>5 DEF IInv
<1> QED
  BY <1>4, <1>5

\* Where the walk among the blocks is.
LEMMA AtBlock ==
    ASSUME IInv, pc = "verify"
    PROVE  /\ call \in Lists /\ Taken(found) /\ found \in Nat
           /\ Blocks \in Seq(BlockType) /\ Payload(found) \in Seq(Nat)
           /\ FirstPayload(call) = Payload(found)
           /\ LastPayload(call) \in Seq(Nat) /\ ReadAs(LastPayload(call), Blocks)
           /\ k - 1 \in 0..Len(Blocks) /\ (verified_any <=> AnySigned(Blocks, k - 1))
           /\ BlocksChecked(Payload(found), Blocks, k - 1)
           /\ k <= Len(Blocks) =>
                 /\ k \in 1..Len(Blocks) /\ at + CountLen <= EndOfEntries
                 /\ EndOfEntries = EntriesEnd(Blocks, k) /\ EndOfEntries \in Nat
                 /\ BlockIsBeyond <=> EntriesEnd(Blocks, k) > Len(Payload(found))
<1>1. call \in Lists /\ VerifyAt /\ k \in Nat \ {0} /\ at \in Nat
      /\ \E n \in 1..Len(starts) : found = starts[n] /\ IsFirst(n, call)
  BY DEF IInv, Walking, TypeOK
<1>2. /\ Taken(found) /\ found \in Nat /\ Blocks \in Seq(BlockType)
      /\ FirstPayload(call) = Payload(found) /\ Payload(found) \in Seq(Nat)
      /\ LastPayload(call) \in Seq(Nat) /\ ReadAs(LastPayload(call), Blocks)
  BY <1>1, KeptList
<1>3. Len(Blocks) \in Nat /\ Len(Payload(found)) \in Nat
  BY <1>2
<1>4. k \in 1..(Len(Blocks) + 1) /\ at = Behind(Blocks)[k - 1]
      /\ (verified_any <=> AnySigned(Blocks, k - 1))
      /\ BlocksChecked(Payload(found), Blocks, k - 1)
  BY <1>1 DEF VerifyAt
<1>5. k - 1 \in 0..Len(Blocks)
  BY <1>3, <1>4
<1>6. ASSUME k <= Len(Blocks)
      PROVE  /\ k \in 1..Len(Blocks) /\ at + CountLen <= EndOfEntries
             /\ EndOfEntries = EntriesEnd(Blocks, k) /\ EndOfEntries \in Nat
             /\ BlockIsBeyond <=> EntriesEnd(Blocks, k) > Len(Payload(found))
  <2>1. k \in 1..Len(Blocks)
    BY <1>3, <1>4, <1>6
  <2>2. /\ EntriesEnd(Blocks, k) \in Nat /\ at + CountLen <= EntriesEnd(Blocks, k)
        /\ EntriesEnd(Blocks, k) = at + CountLen + Blocks[k].entries_in_block * EntryLen
    BY <1>2, <1>4, <2>1, EntriesEndAt
  <2>3. EndOfEntries = EntriesEnd(Blocks, k)
    BY <2>2 DEF EndOfEntries
  <2>4. BlockIsBeyond <=> EntriesEnd(Blocks, k) > Len(Payload(found))
    <3>1. PICK e \in Nat, c \in Nat : e = EntriesEnd(Blocks, k) /\ c = at + CountLen /\ c <= e
      BY <1>1, <2>2 DEF CountLen
    <3> QED
      BY <1>3, <2>3, <3>1 DEF BlockIsBeyond
  <2> QED
    BY <2>1, <2>2, <2>3, <2>4
<1> QED
  BY <1>1, <1>2, <1>4, <1>5, <1>6

LEMMA RefuseBlockKeepsIInv == IInv /\ RefuseBlock => IInv'
<1> SUFFICES ASSUME IInv, RefuseBlock PROVE IInv'
  OBVIOUS
<1>1. /\ pc = "verify" /\ k <= Len(Blocks)
      /\ Return(call, IF BlockIsBeyond THEN "truncated" ELSE "invalid")
      /\ UNCHANGED <<bytes, parsing, call, found, at, k, verified_any>>
  BY DEF RefuseBlock
<1>2. Right(call, IF BlockIsBeyond THEN "truncated" ELSE "invalid")
  <2>1. CASE BlockIsBeyond
    <3>1. PICK e \in Nat, w \in Nat, l \in Nat :
             /\ e = EntriesEnd(Blocks, k) /\ w = Len(FirstPayload(call)) /\ l = Len(LastPayload(call))
             /\ e > w /\ e <= l
      BY <1>1, <2>1, AtBlock DEF ReadAs
    <3>2. Len(FirstPayload(call)) < Len(LastPayload(call)) /\ call \in Lists
      BY <1>1, <3>1, AtBlock
    <3>3. Right(call, "truncated")
      BY <3>2 DEF Right
    <3> QED
      BY <2>1, <3>3
  <2>2. CASE ~BlockIsBeyond
    BY <2>2, InvalidIsRight
  <2> QED
    BY <2>1, <2>2
<1> QED
  BY <1>1, <1>2, ConcludedKeepsIInv DEF Parsed, IInv, TypeOK

\* The end of a list's walk, behind its n-th block: the blocks up to there are
\* checked and the others lie beyond the list that was walked.
LEMMA EndIsRight ==
    ASSUME IInv, pc = "verify", NEW any \in BOOLEAN, NEW n \in 0..Len(Blocks),
           any <=> AnySigned(Blocks, n), BlocksChecked(Payload(found), Blocks, n),
           n = 0 => Len(Blocks) = 0,
           \A b \in (n + 1)..Len(Blocks) : ~(EntriesEnd(Blocks, b) <= Len(Payload(found)))
    PROVE  Right(call, IF any THEN "ok" ELSE "missing")
<1>1. PICK blocks \in Seq(BlockType), walked \in Seq(Nat), kept \in Seq(Nat) :
         /\ blocks = Blocks /\ blocks = mkb.revocation_blocks[call]
         /\ walked = Payload(found) /\ walked = FirstPayload(call)
         /\ kept = LastPayload(call) /\ ReadAs(kept, blocks)
  BY AtBlock DEF Blocks
<1>2. call \in Lists /\ call # EndOfBlock
  BY AtBlock DEF Lists, EndOfBlock
<1>3. Len(blocks) \in Nat /\ DOMAIN blocks = 1..Len(blocks)
  OBVIOUS
<1>4. blocks # <<>> => 1 \in 1..n /\ 1 \in 1..Len(blocks)
  <2>1. blocks # <<>> => Len(blocks) > 0
    OBVIOUS
  <2> QED
    BY <1>1, <1>3, <2>1
<1>5. CASE any
  <2>1. PICK b \in 1..n : blocks[b].signature # None
    BY <1>1, <1>5 DEF AnySigned
  <2>2. b \in 1..Len(blocks) /\ blocks # <<>>
    BY <1>1, <1>3, <2>1
  <2>3. blocks[1].signature # None
    <3>1. SUFFICES ASSUME blocks[1].signature = None PROVE FALSE
      OBVIOUS
    <3>2. Len(blocks) = 1
      BY <1>1, <1>4, <2>2, <3>1 DEF ReadAs
    <3>3. b = 1
      BY <2>2, <3>2
    <3> QED
      BY <2>1, <3>1, <3>3
  <2>4. EntriesEnd(blocks, 1) <= Len(walked)
    BY <1>1, <1>4, <2>2 DEF BlocksChecked
  <2>5. ASSUME NEW c \in DOMAIN blocks
        PROVE  /\ EntriesEnd(blocks, c) <= Len(kept)
               /\ blocks[c].entries = EntriesIn(kept, blocks, c)
               /\ IF blocks[c].signature = None THEN c = Len(blocks)
                  ELSE EntriesEnd(blocks, c) <= Len(walked) =>
                         Attested(blocks[c].signature, EntriesIn(walked, blocks, c))
    <3>1. c \in 1..Len(blocks) /\ (c \in 1..n \/ c \in (n + 1)..Len(blocks))
      BY <1>1, <1>3
    <3>2. /\ EntriesEnd(blocks, c) <= Len(kept)
          /\ blocks[c].entries = EntriesIn(kept, blocks, c)
          /\ blocks[c].signature = None => c = Len(blocks)
      BY <1>1, <3>1 DEF ReadAs
    <3>3. c \in 1..n /\ blocks[c].signature # None =>
             Attested(blocks[c].signature, EntriesIn(walked, blocks, c))
      BY <1>1 DEF BlocksChecked
    <3>4. c \in (n + 1)..Len(blocks) => ~(EntriesEnd(blocks, c) <= Len(walked))
      BY <1>1
    <3> QED
      BY <3>1, <3>2, <3>3, <3>4, Zenon
  <2>6. Vouched(blocks, kept, walked)
    BY <2>2, <2>3, <2>4, <2>5, Zenon DEF Vouched
  <2>7. Right(call, "ok")
    BY <1>1, <2>6 DEF Right
  <2> QED
    BY <1>5, <2>7
<1>6. CASE ~any
  <2>1. ~Signed(call)
    <3>1. SUFFICES ASSUME NEW b \in 1..Len(blocks), blocks[b].signature # None PROVE FALSE
      BY <1>1, <1>2, <1>3, Zenon DEF Signed
    <3>2. 1 \in 1..n /\ 1 \in 1..Len(blocks)
      BY <1>4
    <3>3. blocks[1].signature = None
      BY <1>1, <1>6, <3>2 DEF AnySigned
    <3>4. Len(blocks) = 1
      BY <1>1, <3>2, <3>3 DEF ReadAs
    <3>5. b = 1
      BY <3>4
    <3> QED
      BY <3>1, <3>3, <3>5
  <2> QED
    BY <1>2, <1>6, <2>1, MissingIsRight DEF Calls
<1> QED
  BY <1>5, <1>6

LEMMA EndBlocksKeepsIInv == IInv /\ EndBlocks => IInv'
<1> SUFFICES ASSUME IInv, EndBlocks PROVE IInv'
  OBVIOUS
<1>1. /\ pc = "verify" /\ k > Len(Blocks)
      /\ Return(call, IF verified_any THEN "ok" ELSE "missing")
      /\ UNCHANGED <<bytes, parsing, call, found, at, k, verified_any>>
  BY DEF EndBlocks, Conclude
<1>2. k \in Nat \ {0} /\ verified_any \in BOOLEAN
  BY DEF IInv, TypeOK
<1>3. /\ k - 1 \in 0..Len(Blocks) /\ (verified_any <=> AnySigned(Blocks, k - 1))
      /\ BlocksChecked(Payload(found), Blocks, k - 1) /\ Len(Blocks) \in Nat
  BY <1>1, AtBlock
<1>4. k - 1 = Len(Blocks) /\ ((k - 1) + 1)..Len(Blocks) = {}
  BY <1>1, <1>2, <1>3
<1>5. Right(call, IF verified_any THEN "ok" ELSE "missing")
  BY <1>1, <1>2, <1>3, <1>4, EndIsRight
<1> QED
  BY <1>1, <1>5, ConcludedKeepsIInv DEF Parsed, IInv, TypeOK

\* A step of a walk among the blocks that goes on.
LEMMA NextBlockKeepsIInv ==
    ASSUME IInv, pc = "verify", UNCHANGED <<bytes, parsing, pc, call, found, answer>>,
           at' \in Nat, k' \in Nat \ {0}, verified_any' \in BOOLEAN, VerifyAt'
    PROVE  IInv'
<1>1. pc' = "verify" /\ UNCHANGED <<bytes, starts, call, found>>
  BY DEF parsing
<1>2. TypeOK' /\ Chain' /\ Contents'
  BY CallFrame DEF Parsed, IInv, TypeOK
<1>3. Answered'
  BY AnswerKept DEF Parsed
<1>4. Walking'
  <2>1. PICK n \in 1..Len(starts) : found = starts[n] /\ IsFirst(n, call)
    BY DEF IInv, Walking
  <2>2. IsFirst(n, call)'
    BY <1>1, <2>1 DEF IsFirst, Tag
  <2>3. call \in Lists /\ call \in Calls
    BY DEF IInv, Walking
  <2> QED
    BY <1>1, <2>1, <2>2, <2>3 DEF Walking
<1> QED
  BY <1>2, <1>3, <1>4 DEF IInv

\* A block whose signature verifies is attested.
LEMMA VerifiedIsAttested ==
    ASSUME IInv, pc = "verify", k <= Len(Blocks),
           Blocks[k].signature # None, ~BlockIsBeyond, ~BlockRefused
    PROVE  Attested(Blocks[k].signature, EntriesIn(Payload(found), Blocks, k))
<1>1. PICK p \in Seq(Nat), blocks \in Seq(BlockType) :
         p = Payload(found) /\ blocks = Blocks /\ k \in 1..Len(blocks)
  BY AtBlock
<1>2. Taken(found) /\ found \in Nat /\ bytes \in Seq(Nat)
  BY AtBlock DEF IInv, TypeOK
<1>3. PICK a \in Nat, n \in Nat, e \in Nat :
         /\ a = Behind(blocks)[k - 1] + CountLen /\ n = blocks[k].entries_in_block
         /\ e = EndAt(a, n) /\ e = EndOfEntries /\ e <= Len(p)
  <2>1. blocks[k] \in BlockType
    BY <1>1
  <2>2. PICK e \in Nat : /\ e = EndOfEntries /\ e = EntriesEnd(blocks, k)
                         /\ ~(e > Len(p))
    BY <1>1, AtBlock
  <2>3. /\ Behind(blocks)[k - 1] \in Nat
        /\ e = Behind(blocks)[k - 1] + CountLen + blocks[k].entries_in_block * EntryLen
    BY <1>1, <2>2, EntriesEndAt
  <2>4. e <= Len(p)
    BY <1>1, <2>2
  <2>5. Behind(blocks)[k - 1] + CountLen \in Nat /\ blocks[k].entries_in_block \in Nat
    BY <2>1, <2>3 DEF CountLen, BlockType
  <2> QED
    BY <2>2, <2>3, <2>4, <2>5 DEF EndAt
<1>4. PICK rec \in Seq(Nat) : rec = Record(found) /\ PayloadOf(p, rec)
  <2>1. /\ Length(found) \in Nat
        /\ Record(found) \in Seq(Nat) /\ Len(Record(found)) = Length(found)
        /\ \A i \in 1..Length(found) : Record(found)[i] = bytes[found + i]
        /\ Len(p) = Length(found) - HeaderLen
        /\ \A i \in 1..(Length(found) - HeaderLen) : p[i] = bytes[found + HeaderLen + i]
    BY <1>1, <1>2, TakenRecord
  <2>2. PICK rec \in Seq(Nat), l \in Nat :
           /\ rec = Record(found) /\ l = Length(found) /\ Len(rec) = l /\ l >= 2
           /\ \A i \in 1..l : rec[i] = bytes[found + i]
    <3>1. Length(found) >= 2
      BY <1>2 DEF Taken, HeaderLen
    <3> QED
      BY <2>1, <3>1, Zenon
  <2>3. Len(p) = l - 2 /\ \A i \in 1..(l - 2) : p[i] = bytes[found + 2 + i]
    BY <2>1, <2>2, Zenon DEF HeaderLen
  <2>4. ASSUME NEW i \in 1..(l - 2) PROVE p[i] = rec[2 + i]
    <3>1. 2 + i \in 1..l /\ found + (2 + i) = found + 2 + i
      BY <1>2, <2>2
    <3> QED
      BY <2>2, <2>3, <3>1
  <2>5. l = 2 + (l - 2)
    BY <2>2
  <2> QED
    BY <2>2, <2>3, <2>4, <2>5, Zenon DEF HeaderLen, PayloadOf
<1>5. PICK raw \in Seq(Nat) : raw = mkb.type_and_version_raw
  BY DEF IInv, TypeOK, MkbType
<1>6. PICK data : data = SignedUpto(raw, rec, e)
  OBVIOUS
<1>7. data = SignedByBlock
  BY <1>3, <1>4, <1>5, <1>6, Zenon DEF SignedByBlock, SignedUpto
<1>8. SubSeq(data, 1, Len(raw)) = raw /\ EndsWith(data, Entries(p, a, n))
  <2>1. /\ SubSeq(SignedUpto(raw, rec, e), 1, Len(raw)) = raw
        /\ EndsWith(SignedUpto(raw, rec, e), Entries(p, a, n))
    <3>1. e = EndAt(a, n) /\ e <= Len(p) /\ PayloadOf(p, rec)
      BY <1>3, <1>4, Zenon
    <3> QED
      BY <3>1, SignedEndsWithEntries
  <2> QED
    BY <1>6, <2>1, Zenon
<1>9. Verifies(Blocks[k].signature, SignedByBlock)
  BY DEF BlockRefused
<1>10. PICK s \in LaSigned : s = [sig |-> Blocks[k].signature, data |-> data]
  BY <1>7, <1>9 DEF Verifies
<1>11. s.sig = Blocks[k].signature /\ s.data = data
  BY <1>10
<1>12. EntriesIn(Payload(found), Blocks, k) = Entries(p, a, n)
  BY <1>1, <1>3 DEF EntriesIn
<1> QED
  BY <1>5, <1>8, <1>11, <1>12 DEF Attested

LEMMA CheckBlockKeepsIInv == IInv /\ CheckBlock => IInv'
<1> SUFFICES ASSUME IInv, CheckBlock PROVE IInv'
  OBVIOUS
<1> DEFINE ended == EndOfEntries + SigLen > Len(Payload(found))
<1>1. /\ pc = "verify" /\ k <= Len(Blocks) /\ ~BlockIsBeyond /\ ~BlockRefused
      /\ UNCHANGED <<bytes, parsing, call, found>>
  BY DEF CheckBlock
<1>2. k \in Nat \ {0} /\ verified_any \in BOOLEAN /\ at \in Nat
  BY DEF IInv, TypeOK
<1>3. PICK any \in BOOLEAN : any <=> (verified_any \/ Blocks[k].signature # None)
  OBVIOUS
<1>4. verified_any' = any
  BY <1>2, <1>3, Zenon DEF CheckBlock
<1>5. PICK blocks \in Seq(BlockType), p \in Seq(Nat), e \in Nat :
         /\ blocks = Blocks /\ p = Payload(found) /\ e = EndOfEntries
         /\ e = EntriesEnd(blocks, k) /\ e <= Len(p) /\ k \in 1..Len(blocks)
         /\ verified_any <=> AnySigned(blocks, k - 1)
         /\ BlocksChecked(p, blocks, k - 1)
  BY <1>1, AtBlock
<1>6. Len(blocks) \in Nat /\ Len(p) \in Nat /\ SigLen \in Nat
      /\ \A b \in 1..k : b \in 1..(k - 1) \/ b = k
  BY <1>2, SizesAssumption
<1>7. BlocksChecked(p, blocks, k)
  <2>1. blocks[k].signature # None => Attested(blocks[k].signature, EntriesIn(p, blocks, k))
    BY <1>1, <1>5, VerifiedIsAttested
  <2> QED
    BY <1>5, <1>6, <2>1 DEF BlocksChecked
<1>8. any <=> AnySigned(blocks, k)
  <2>1. k \in 1..k /\ \A b \in 1..(k - 1) : b \in 1..k
    BY <1>2
  <2> QED
    BY <1>3, <1>5, <1>6, <2>1, Zenon DEF AnySigned
<1>9. CASE ended
  <2>1. Return(call, IF verified_any \/ Blocks[k].signature # None THEN "ok" ELSE "missing")
        /\ UNCHANGED <<at, k>>
    BY <1>9 DEF CheckBlock, Conclude
  <2>2. Return(call, IF any THEN "ok" ELSE "missing")
    BY <1>3, <2>1
  <2>3. ASSUME NEW b \in (k + 1)..Len(blocks) PROVE ~(EntriesEnd(blocks, b) <= Len(p))
    <3>1. b \in 1..Len(blocks) /\ k \in 0..Len(blocks) /\ k < b
      BY <1>2, <1>5, <1>6
    <3>2. Behind(blocks)[k] < EntriesEnd(blocks, b)
      BY <3>1, BehindRises
    <3>3. Behind(blocks)[k] = e + SigLen /\ EntriesEnd(blocks, b) \in Nat
      BY <1>5, <3>1, EntriesEndAt
    <3>4. e + SigLen > Len(p)
      BY <1>5, <1>9
    <3> QED
      BY <1>6, <3>2, <3>3, <3>4
  <2>4. Right(call, IF any THEN "ok" ELSE "missing")
    <3>1. k \in 0..Len(Blocks) /\ k # 0
      BY <1>2, <1>5
    <3> QED
      BY <1>1, <1>5, <1>7, <1>8, <2>3, <3>1, EndIsRight
  <2>5. at' \in Nat /\ k' \in Nat \ {0} /\ verified_any' \in BOOLEAN
    <3>1. at' = at /\ k' = k
      BY <2>1
    <3> QED
      BY <1>2, <1>4, <3>1, Zenon
  <2> QED
    BY <1>1, <2>2, <2>4, <2>5, ConcludedKeepsIInv DEF Parsed
<1>10. CASE ~ended
  <2>1. at' = EndOfEntries + SigLen /\ k' = k + 1 /\ UNCHANGED <<pc, answer>>
    BY <1>10 DEF CheckBlock
  <2>2. at' = e + SigLen /\ at' \in Nat /\ k' \in Nat \ {0} /\ k' - 1 = k
        /\ k' \in 1..(Len(blocks) + 1)
    <3>1. PICK n \in Nat, l \in Nat :
             n = k /\ l = Len(blocks) /\ n \in 1..l /\ k' = n + 1
      <4>1. k \in Nat /\ k \in 1..Len(blocks) /\ Len(blocks) \in Nat /\ k' = k + 1
        <5>1. k \in 1..Len(blocks)
          BY <1>5, Zenon
        <5> QED
          BY <1>2, <1>6, <2>1, <5>1
      <4> QED
        BY <4>1, Zenon
    <3>2. at' = e + SigLen
      BY <1>5, <2>1, Zenon
    <3>3. e + SigLen \in Nat
      BY <1>6
    <3>4. k' \in Nat \ {0} /\ k' - 1 = n /\ k' \in 1..(l + 1)
      BY <3>1
    <3> QED
      BY <3>1, <3>2, <3>3, <3>4, Zenon
  <2>3. at' = Behind(blocks)[k' - 1]
    BY <1>5, <2>2, EntriesEndAt
  <2>4. VerifyAt'
    <3>1. BlocksChecked(Payload(found), Blocks, k' - 1) /\ (verified_any' <=> AnySigned(Blocks, k' - 1))
      BY <1>4, <1>5, <1>7, <1>8, <2>2
    <3>2. UNCHANGED <<bytes, mkb, call, found>>
      BY <1>1 DEF parsing
    <3>3. at' = Behind(Blocks)[k' - 1] /\ k' \in 1..(Len(Blocks) + 1)
      BY <1>5, <2>2, <2>3
    <3> QED
      BY <3>1, <3>2, <3>3, VerifyAtNext
  <2>5. verified_any' \in BOOLEAN
    BY <1>4, Zenon
  <2>6. UNCHANGED <<bytes, parsing, pc, call, found, answer>>
    BY <1>1, <2>1
  <2> QED
    BY <1>1, <2>2, <2>4, <2>5, <2>6, NextBlockKeepsIInv
<1> QED
  BY <1>9, <1>10
-----------------------------------------------------------------------------
LEMMA StutterKeepsIInv == IInv /\ UNCHANGED vars => IInv'
<1> SUFFICES ASSUME IInv, UNCHANGED vars PROVE IInv'
  OBVIOUS
<1>1. /\ UNCHANGED <<bytes, pc, cursor, starts, saw_type_record_first, mkb, list>>
      /\ UNCHANGED <<call, found, at, k, verified_any, answer>>
  BY DEF vars, parsing, verifying
<1>2. TypeOK'
  BY <1>1 DEF IInv, TypeOK
<1>3. Chain'
  BY <1>1 DEF IInv, Chain, Place, Taken, Tag, Length
<1>4. Contents'
  BY <1>1 DEF IInv, Contents, Has, ListRead, IsLast, Tag, Length, Payload
<1>5. ASSUME VerifyAt PROVE VerifyAt'
  <2>1. UNCHANGED <<bytes, mkb, call, found>> /\ at' = at /\ k' = k
    BY <1>1
  <2>2. verified_any' <=> verified_any
    BY <1>1
  <2> QED
    BY <1>5, <2>1, <2>2, VerifyAtNext DEF VerifyAt
<1>6. Walking'
  <2>1. \A n, tag : IsFirst(n, tag)' <=> IsFirst(n, tag)
    BY <1>1 DEF IsFirst, Tag
  <2>2. \A n : Place(n)' = Place(n) /\ \A c : Tag(c)' = Tag(c)
    BY <1>1 DEF Place, Tag
  <2>3. Walking
    BY DEF IInv
  <2> QED
    BY <1>1, <1>5, <2>1, <2>2, <2>3 DEF Walking
<1>7. Answered'
  <2>1. PICK tag, says : tag = answer.call /\ says = answer.says
    OBVIOUS
  <2>2. Right(tag, says)'
    BY <1>1, <2>1, RightIs, RightKept DEF IInv, Answered
  <2>3. WalksAgree' /\ VerifiedListsAreSigned'
    BY <1>1, <2>1, <2>2, RightAnswer
  <2> QED
    BY <1>1, <2>3 DEF IInv, Answered
<1> QED
  BY <1>2, <1>3, <1>4, <1>6, <1>7 DEF IInv

LEMMA StepIInv == IInv /\ [Next]_vars => IInv'
<1> SUFFICES ASSUME IInv, [Next]_vars PROVE IInv'
  OBVIOUS
<1>1. CASE Delivery
  BY <1>1, DeliveryKeepsIInv
<1>2. CASE Parse
  BY <1>2, FinishParseKeepsIInv, RefuseRecordKeepsIInv, ReadPlainKeepsIInv, ReadEndKeepsIInv,
     ReadUnknownKeepsIInv, BeginListKeepsIInv, ReadBlockKeepsIInv, EndListKeepsIInv DEF Parse
<1>3. ASSUME NEW tag \in Lists \cup {EndOfBlock}, Verify(tag) PROVE IInv'
  BY <1>3, VerifyKeepsIInv DEF Calls
<1>4. CASE Walk
  BY <1>4, ScanKeepsIInv, CheckEndKeepsIInv, BeginBlocksKeepsIInv, RefuseBlockKeepsIInv,
     CheckBlockKeepsIInv, EndBlocksKeepsIInv DEF Walk
<1>5. CASE UNCHANGED vars
  BY <1>5, StutterKeepsIInv
<1> QED
  BY <1>1, <1>2, <1>3, <1>4, <1>5 DEF Next

LEMMA Invariant == Spec => []IInv
BY InitIInv, StepIInv, PTL DEF Spec

\* The verify_* calls of src/mkb.rs read a parsed file a second time, by other
\* code than Mkb::parse.  Whatever the file, a call that reports a missing
\* signature is right: the parser kept none, of that type's End record or list.
\* And a call finds a list too short that Mkb::parse took only if the file holds
\* more than one of its type, and the first of them, which the call reads, is
\* shorter than the last, which the Mkb holds.
THEOREM ReadingsAgree == Spec => []WalksAgree
<1>1. IInv => WalksAgree
  BY DEF IInv, Answered
<1> QED
  BY <1>1, Invariant, PTL

\* What it means, in any file, that verify_host_revocation_list or
\* verify_drive_revocation_list accepts a list.  The blocks Mkb::parse kept are
\* those of the last list of the type; the first of them is signed, and a block
\* without a signature is the last.  For each block with a signature whose place,
\* by the kept counts, lies in the first list of the type, the AACS LA has signed
\* with that signature the entries which stand there, behind this Type-and-Version
\* Record.  Where the type has one list these are the kept entries.  Where it has
\* more, the kept entries need not be the ones that were signed, and a block that
\* lies beyond the first list is not covered, though the first block is.
THEOREM ListsAreSigned == Spec => []VerifiedListsAreSigned
<1>1. IInv => VerifiedListsAreSigned
  BY DEF IInv, Answered
<1> QED
  BY <1>1, Invariant, PTL
-----------------------------------------------------------------------------
(* Files and their beginnings *)

LEMMA Pair ==
    ASSUME NEW x \in Nat, NEW y \in Nat
    PROVE  /\ <<x, y>> \in Seq(Nat) /\ Len(<<x, y>>) = 2
           /\ <<x, y>>[1] = x /\ <<x, y>>[2] = y
OBVIOUS

\* The records of an MKB.
LEMMA RecordsOf ==
    ASSUME NEW m \in Seq(RecordType), NEW n \in 1..Len(m)
    PROVE  /\ m[n].tag \in Nat /\ m[n].payload \in Seq(Nat) /\ Len(m[n].payload) \in Nat
           /\ Bytes(m[n]) \in Seq(Nat) /\ Len(Bytes(m[n])) = HeaderLen + Len(m[n].payload)
           /\ Bytes(m[n])[1] = m[n].tag
           /\ Bytes(m[n])[2] = HeaderLen + Len(m[n].payload)
           /\ \A i \in 1..Len(m[n].payload) : Bytes(m[n])[HeaderLen + i] = m[n].payload[i]
<1>1. m[n] \in RecordType
  OBVIOUS
<1>2. PICK p \in Seq(Nat) : p = m[n].payload
  BY <1>1 DEF RecordType
<1>3. m[n].tag \in Nat
  BY <1>1 DEF RecordType
<1>4. PICK t \in Nat : t = m[n].tag
  BY <1>3
<1>5. PICK y \in Nat : y = 2 + Len(p)
  OBVIOUS
<1>6. PICK h \in Seq(Nat) : h = <<t, y>> /\ Len(h) = 2 /\ h[1] = t /\ h[2] = y
  BY Pair, ZenonT(30)
<1>7. PICK b \in Seq(Nat) :
         /\ b = h \o p /\ Len(b) = 2 + Len(p) /\ b[1] = h[1] /\ b[2] = h[2]
         /\ \A i \in 1..Len(p) : b[2 + i] = p[i]
  <2>1. PICK b \in Seq(Nat) :
           /\ b = h \o p /\ Len(b) = Len(h) + Len(p)
           /\ \A c \in 1..Len(h) : b[c] = h[c]
           /\ \A i \in 1..Len(p) : b[Len(h) + i] = p[i]
    BY Joined
  <2>2. Len(h) = 2 /\ 1 \in 1..2 /\ 2 \in 1..2
    BY <1>6
  <2> QED
    BY <2>1, <2>2, ZenonT(30)
<1>8. b = Bytes(m[n])
  BY <1>2, <1>4, <1>5, <1>6, <1>7 DEF Bytes, HeaderLen
<1>9. Len(p) \in Nat
  OBVIOUS
<1> QED
  BY <1>2, <1>3, <1>4, <1>5, <1>6, <1>7, <1>8, <1>9 DEF HeaderLen

\* One record more.
LEMMA FileStep ==
    ASSUME NEW m \in Seq(RecordType), NEW upto, Files(m, upto), NEW n \in 1..Len(m)
    PROVE  /\ upto[n - 1] \in Seq(Nat) /\ upto[n] \in Seq(Nat)
           /\ Len(upto[n]) = Len(upto[n - 1]) + HeaderLen + Len(m[n].payload)
           /\ \A c \in 1..Len(upto[n - 1]) : upto[n][c] = upto[n - 1][c]
           /\ \A i \in 1..(HeaderLen + Len(m[n].payload)) :
                 upto[n][Len(upto[n - 1]) + i] = Bytes(m[n])[i]
<1>1. n \in 0..Len(m) /\ n - 1 \in 0..Len(m)
  OBVIOUS
<1>2. PICK s \in Seq(Nat) : s = upto[n - 1]
  BY <1>1 DEF Files
<1>3. PICK b \in Seq(Nat) : b = Bytes(m[n]) /\ Len(b) = HeaderLen + Len(m[n].payload)
  BY RecordsOf
<1>4. PICK u \in Seq(Nat) :
         /\ u = s \o b /\ Len(u) = Len(s) + Len(b)
         /\ \A c \in 1..Len(s) : u[c] = s[c]
         /\ \A i \in 1..Len(b) : u[Len(s) + i] = b[i]
  BY Joined
<1>5. upto[n] = u
  BY <1>2, <1>3, <1>4 DEF Files
<1>6. Len(m[n].payload) \in Nat /\ Len(s) \in Nat
  BY RecordsOf
<1>7. Len(u) = Len(s) + HeaderLen + Len(m[n].payload)
  <2>1. PICK q \in Nat : q = Len(m[n].payload)
    BY <1>6
  <2>2. Len(b) = 2 + q
    BY <1>3, <2>1 DEF HeaderLen
  <2>3. Len(u) = Len(s) + (2 + q)
    BY <1>4, <2>2
  <2>4. PICK x \in Nat : x = Len(s)
    BY <1>6
  <2>5. x + (2 + q) = x + HeaderLen + q
    BY DEF HeaderLen
  <2> QED
    BY <2>1, <2>3, <2>4, <2>5
<1> QED
  BY <1>2, <1>3, <1>4, <1>5, <1>7

\* A file begins with every file of fewer of its records.
LEMMA FileBegins ==
    ASSUME NEW m \in Seq(RecordType), NEW upto, Files(m, upto),
           NEW i \in 0..Len(m), NEW j \in 0..Len(m), i <= j
    PROVE  /\ upto[i] \in Seq(Nat) /\ upto[j] \in Seq(Nat)
           /\ Len(upto[i]) <= Len(upto[j]) /\ (i < j => Len(upto[i]) < Len(upto[j]))
           /\ \A c \in 1..Len(upto[i]) : upto[j][c] = upto[i][c]
<1> DEFINE Good(d) == /\ Len(upto[i]) <= Len(upto[i + d])
                      /\ d > 0 => Len(upto[i]) < Len(upto[i + d])
                      /\ \A c \in 1..Len(upto[i]) : upto[i + d][c] = upto[i][c]
           S == {d \in Nat : i + d <= Len(m) => Good(d)}
<1>1. \A n \in 0..Len(m) : upto[n] \in Seq(Nat) /\ Len(upto[n]) \in Nat
  BY DEF Files
<1>2. 0 \in S
  BY <1>1
<1>3. ASSUME NEW d \in S PROVE d + 1 \in S
  <2>1. SUFFICES ASSUME i + (d + 1) <= Len(m) PROVE Good(d + 1)
    OBVIOUS
  <2>2. PICK n \in 1..Len(m) : n = i + (d + 1) /\ n - 1 = i + d
    BY <2>1
  <2>3. Good(d) /\ i + d \in 0..Len(m)
    <3> HIDE DEF Good
    <3>1. d \in Nat /\ (i + d <= Len(m) => Good(d))
      OBVIOUS
    <3> HIDE DEF S
    <3>2. PICK l \in Nat : l = Len(m)
      OBVIOUS
    <3>3. i + d <= l
      BY <2>1, <3>1, <3>2
    <3>4. i + d \in 0..l
      BY <3>1, <3>2, <3>3
    <3> QED
      BY <3>1, <3>2, <3>3, <3>4
  <2>4. /\ Len(upto[n]) = Len(upto[n - 1]) + HeaderLen + Len(m[n].payload)
        /\ \A c \in 1..Len(upto[n - 1]) : upto[n][c] = upto[n - 1][c]
        /\ Len(m[n].payload) \in Nat
    BY FileStep, RecordsOf
  <2>5. Len(upto[n - 1]) < Len(upto[n]) /\ Len(upto[n - 1]) \in Nat /\ Len(upto[n]) \in Nat
    <3>1. n - 1 \in 0..Len(m) /\ n \in 0..Len(m)
      OBVIOUS
    <3>2. PICK x \in Nat, y \in Nat : x = Len(upto[n - 1]) /\ y = Len(upto[n])
      BY <1>1, <3>1
    <3>3. PICK q \in Nat : q = Len(m[n].payload)
      BY <2>4
    <3>4. y = x + 2 + q
      BY <2>4, <3>2, <3>3 DEF HeaderLen
    <3> QED
      BY <3>2, <3>4
  <2>6. Len(upto[i]) \in Nat /\ Len(upto[i]) <= Len(upto[n - 1])
    BY <1>1, <2>2, <2>3
  <2>7. ASSUME NEW c \in 1..Len(upto[i]) PROVE upto[n][c] = upto[i][c]
    <3>1. c \in 1..Len(upto[n - 1])
      BY <2>5, <2>6
    <3> QED
      BY <2>2, <2>3, <2>4, <3>1
  <2>8. Len(upto[i]) < Len(upto[n])
    BY <2>5, <2>6
  <2>9. upto[i + (d + 1)] = upto[n]
    BY <2>2
  <2> QED
    BY <2>6, <2>7, <2>8, <2>9
<1>4. S = Nat
  <2>1. S \subseteq Nat
    OBVIOUS
  <2> HIDE DEF S
  <2> QED
    BY <1>2, <1>3, <2>1, SetInduction
<1>5. j - i \in Nat /\ i + (j - i) = j /\ (i < j => j - i > 0)
  OBVIOUS
<1>6. Good(j - i)
  <2>1. PICK d \in Nat : d = j - i
    BY <1>5
  <2>2. d \in S /\ i + d = j /\ j <= Len(m)
    <3> HIDE DEF S
    <3> QED
      BY <1>4, <1>5, <2>1
  <2>3. Good(d)
    BY <2>2
  <2> HIDE DEF Good
  <2> QED
    BY <2>1, <2>3
<1> QED
  BY <1>1, <1>5, <1>6

\* The same records give the same file.
LEMMA FilesAgree ==
    ASSUME NEW m \in Seq(RecordType), NEW upto, Files(m, upto),
           NEW w \in Seq(RecordType), NEW part, Files(w, part),
           Len(w) <= Len(m), \A n \in 1..Len(w) : w[n] = m[n]
    PROVE  \A n \in 0..Len(w) : part[n] = upto[n]
<1> DEFINE S == {n \in Nat : n <= Len(w) => part[n] = upto[n]}
<1>1. 0 \in S
  BY DEF Files
<1>2. ASSUME NEW n \in S PROVE n + 1 \in S
  <2>1. SUFFICES ASSUME n + 1 <= Len(w) PROVE part[n + 1] = upto[n + 1]
    OBVIOUS
  <2>2. n + 1 \in 1..Len(w) /\ n + 1 \in 1..Len(m) /\ (n + 1) - 1 = n
    BY <2>1
  <2>3. part[n + 1] = part[n] \o Bytes(w[n + 1])
    BY <2>2 DEF Files
  <2>4. upto[n + 1] = upto[n] \o Bytes(m[n + 1])
    BY <2>2 DEF Files
  <2>5. part[n] = upto[n] /\ w[n + 1] = m[n + 1]
    BY <2>2
  <2> QED
    BY <2>3, <2>4, <2>5
<1>3. S = Nat
  <2>1. S \subseteq Nat
    OBVIOUS
  <2> HIDE DEF S
  <2> QED
    BY <1>1, <1>2, <2>1, SetInduction
<1> QED
  BY <1>3

LEMMA FileIs ==
    ASSUME NEW m \in Seq(RecordType), NEW upto, Files(m, upto)
    PROVE  FileOf(m) = upto[Len(m)]
<1>1. PICK part : Files(m, part) /\ FileOf(m) = part[Len(m)]
  BY FileUpto
<1>2. Len(m) \in 0..Len(m)
  OBVIOUS
<1> QED
  BY <1>1, <1>2, FilesAgree

\* All records but the last.
LEMMA UnsignedFile ==
    ASSUME NEW m \in Seq(RecordType), m # <<>>, NEW upto, Files(m, upto)
    PROVE  /\ Unsigned(m) \in Seq(RecordType) /\ Len(Unsigned(m)) = Len(m) - 1
           /\ FileOf(Unsigned(m)) = upto[Len(m) - 1]
<1>1. PICK N \in Nat : N + 1 = Len(m)
  <2>1. Len(m) \in Nat /\ Len(m) # 0
    BY EmptySeq
  <2> QED
    BY <2>1
<1>2. PICK w : w = Unsigned(m)
  OBVIOUS
<1>3. w \in Seq(RecordType) /\ Len(w) = N /\ \A n \in 1..N : w[n] = m[n]
  <2>1. w = SubSeq(m, 1, N)
    BY <1>1, <1>2 DEF Unsigned
  <2> QED
    BY <1>1, <2>1, SubSeqProperties
<1>4. PICK part : Files(w, part) /\ FileOf(w) = part[N]
  BY <1>3, FileUpto
<1>5. part[N] = upto[N]
  <2>1. N \in 0..Len(w)
    BY <1>3
  <2> QED
    BY <1>1, <1>3, <1>4, <2>1, FilesAgree
<1> QED
  BY <1>1, <1>2, <1>3, <1>4, <1>5
-----------------------------------------------------------------------------
(* Where the parser finds an MKB's records *)

\* The file begins as s does.
Begins(s) == Len(s) <= Len(bytes) /\ \A c \in 1..Len(s) : bytes[c] = s[c]

LEMMA BeginsWithFewer ==
    ASSUME bytes \in Seq(Nat), NEW m \in Seq(RecordType), NEW upto, Files(m, upto),
           NEW i \in 0..Len(m), NEW j \in 0..Len(m), i <= j, Begins(upto[j])
    PROVE  Begins(upto[i])
<1>1. /\ Len(upto[i]) \in Nat /\ Len(upto[j]) \in Nat /\ Len(upto[i]) <= Len(upto[j])
      /\ \A c \in 1..Len(upto[i]) : upto[j][c] = upto[i][c]
  BY FileBegins
<1>2. Len(bytes) \in Nat
  OBVIOUS
<1>3. \A c \in 1..Len(upto[i]) : c \in 1..Len(upto[j])
  BY <1>1
<1> QED
  BY <1>1, <1>2, <1>3 DEF Begins

\* A record of an MKB that the file begins with, read where it begins.
LEMMA RecordAt ==
    ASSUME bytes \in Seq(Nat), NEW m \in Seq(RecordType), NEW upto, Files(m, upto),
           NEW n \in 1..Len(m), Begins(upto[n]), NEW c, c = Len(upto[n - 1])
    PROVE  /\ c \in Nat /\ Taken(c) /\ Tag(c) = m[n].tag
           /\ Length(c) = HeaderLen + Len(m[n].payload) /\ c + Length(c) = Len(upto[n])
           /\ Payload(c) = m[n].payload /\ Record(c) = Bytes(m[n])
<1>1. PICK p \in Seq(Nat), b \in Seq(Nat), t \in Nat :
         /\ p = m[n].payload /\ b = Bytes(m[n]) /\ t = m[n].tag
         /\ Len(b) = 2 + Len(p) /\ b[1] = t /\ b[2] = 2 + Len(p)
         /\ \A i \in 1..Len(p) : b[2 + i] = p[i]
  BY RecordsOf DEF HeaderLen
<1>2. PICK s \in Seq(Nat), u \in Seq(Nat) :
         /\ s = upto[n - 1] /\ u = upto[n]
         /\ Len(u) = Len(s) + 2 + Len(p)
         /\ \A i \in 1..(2 + Len(p)) : u[Len(s) + i] = b[i]
  <2>1. PICK s \in Seq(Nat), u \in Seq(Nat) : s = upto[n - 1] /\ u = upto[n]
    BY FileStep
  <2>2. Len(u) = Len(s) + HeaderLen + Len(p)
    BY <1>1, <2>1, FileStep
  <2>3. \A i \in 1..(HeaderLen + Len(m[n].payload)) :
            upto[n][Len(upto[n - 1]) + i] = Bytes(m[n])[i]
    BY FileStep
  <2>4. \A i \in 1..(HeaderLen + Len(p)) : u[Len(s) + i] = b[i]
    BY <1>1, <2>1, <2>3
  <2> QED
    BY <2>1, <2>2, <2>4 DEF HeaderLen
<1>3. c \in Nat /\ c = Len(s) /\ Len(p) \in Nat /\ Len(bytes) \in Nat
  BY <1>2
<1>4. Len(u) = c + 2 + Len(p) /\ Len(u) <= Len(bytes) /\ \A i \in 1..Len(u) : bytes[i] = u[i]
  BY <1>2, <1>3 DEF Begins
<1>5. \A i \in 1..(2 + Len(p)) : bytes[c + i] = b[i]
  <2>1. ASSUME NEW i \in 1..(2 + Len(p)) PROVE bytes[c + i] = b[i]
    <3>1. PICK l \in Nat, z \in Nat : l = Len(p) /\ z = Len(u)
      BY <1>3
    <3>2. c \in Nat /\ z = c + 2 + l /\ i \in 1..(2 + l)
      BY <1>3, <1>4, <3>1
    <3>3. c + i \in 1..z
      BY <3>2
    <3> QED
      BY <1>2, <1>3, <1>4, <3>1, <3>3
  <2> QED
    BY <2>1
<1>6. Tag(c) = t /\ Length(c) = 2 + Len(p)
  <2>1. 1 \in 1..(2 + Len(p)) /\ 2 \in 1..(2 + Len(p))
    BY <1>3
  <2> QED
    BY <1>1, <1>5, <2>1 DEF Tag, Length
<1>7. Taken(c)
  <2>1. c + 2 <= Len(bytes) /\ 2 + Len(p) >= 2 /\ c + (2 + Len(p)) <= Len(bytes)
    BY <1>3, <1>4
  <2>2. Length(c) = 2 + Len(p)
    BY <1>6
  <2> QED
    BY <2>1, <2>2 DEF Taken, HeaderLen
<1>8. /\ Record(c) \in Seq(Nat) /\ Len(Record(c)) = Length(c)
      /\ \A i \in 1..Length(c) : Record(c)[i] = bytes[c + i]
      /\ Payload(c) \in Seq(Nat) /\ Len(Payload(c)) = Length(c) - 2
      /\ \A i \in 1..(Length(c) - 2) : Payload(c)[i] = bytes[c + 2 + i]
  BY <1>3, <1>7, TakenRecord DEF HeaderLen
<1>9. Record(c) = b
  <2>1. Len(Record(c)) = Len(b) /\ \A i \in 1..Len(Record(c)) : Record(c)[i] = b[i]
    BY <1>1, <1>5, <1>6, <1>8
  <2> QED
    BY <1>8, <2>1, Same
<1>10. Payload(c) = p
  <2>1. Length(c) - 2 = Len(p)
    BY <1>3, <1>6
  <2>2. ASSUME NEW i \in 1..Len(p) PROVE Payload(c)[i] = p[i]
    <3>1. 2 + i \in 1..(2 + Len(p)) /\ c + 2 + i = c + (2 + i)
      BY <1>3
    <3>2. Payload(c)[i] = bytes[c + 2 + i]
      BY <1>8, <2>1
    <3>3. PICK z \in 1..(2 + Len(p)) : z = 2 + i
      BY <3>1
    <3>4. bytes[c + z] = b[z]
      BY <1>5
    <3>5. b[2 + i] = p[i]
      BY <1>1
    <3> QED
      BY <3>1, <3>2, <3>3, <3>4, <3>5
  <2> QED
    BY <1>8, <2>1, <2>2, Same
<1>11. c + Length(c) = Len(u)
  BY <1>3, <1>4, <1>6
<1> QED
  BY <1>1, <1>2, <1>3, <1>6, <1>7, <1>9, <1>10, <1>11 DEF HeaderLen

\* The parser stops at the same places, as far as the MKB goes.
LEMMA Aligned ==
    ASSUME TypeOK, Chain, NEW m \in Seq(RecordType), NEW upto, Files(m, upto),
           NEW N \in 0..Len(m), Begins(upto[N])
    PROVE  \A n \in 1..(Len(starts) + 1) : n <= N + 1 => Place(n) = Len(upto[n - 1])
<1> DEFINE S == {d \in Nat : d <= Len(starts) /\ d <= N => Place(d + 1) = Len(upto[d])}
<1>1. bytes \in Seq(Nat) /\ Len(starts) \in Nat
  BY DEF TypeOK
<1>2. 0 \in S
  <2>1. Len(upto[0]) = 0
    BY DEF Files
  <2> QED
    BY <2>1 DEF Chain
<1>3. ASSUME NEW d \in S PROVE d + 1 \in S
  <2>1. SUFFICES ASSUME d + 1 <= Len(starts), d + 1 <= N
                 PROVE  Place((d + 1) + 1) = Len(upto[d + 1])
    OBVIOUS
  <2>2. PICK n \in 1..Len(m) : n = d + 1 /\ n - 1 = d /\ n \in 1..Len(starts) /\ n \in 0..Len(m)
    BY <1>1, <2>1
  <2>3. Place(n) = starts[n] /\ starts[n] = Len(upto[n - 1])
    <3>1. n # Len(starts) + 1
      BY <1>1, <2>2
    <3> QED
      BY <1>1, <2>1, <2>2, <3>1 DEF Place
  <2>4. Begins(upto[n])
    BY <1>1, <2>1, <2>2, BeginsWithFewer
  <2>5. starts[n] + Length(starts[n]) = Len(upto[n])
    BY <1>1, <2>3, <2>4, RecordAt
  <2>6. Place(n + 1) = starts[n] + Length(starts[n])
    BY <2>2 DEF Chain
  <2> QED
    BY <2>2, <2>5, <2>6
<1>4. S = Nat
  <2>1. S \subseteq Nat
    OBVIOUS
  <2> HIDE DEF S
  <2> QED
    BY <1>2, <1>3, <2>1, SetInduction
<1>5. ASSUME NEW n \in 1..(Len(starts) + 1), n <= N + 1 PROVE Place(n) = Len(upto[n - 1])
  <2>1. n - 1 \in S /\ n - 1 <= Len(starts) /\ n - 1 <= N /\ (n - 1) + 1 = n
    BY <1>1, <1>4, <1>5
  <2> QED
    BY <2>1
<1> QED
  BY <1>5

\* The parser goes forward.
LEMMA StartsRise ==
    ASSUME TypeOK, Chain, NEW i \in 1..Len(starts), NEW j \in 1..Len(starts), i < j
    PROVE  starts[i] < starts[j]
<1> DEFINE S == {d \in Nat : i + d + 1 <= Len(starts) => starts[i] < starts[i + d + 1]}
<1>1. bytes \in Seq(Nat) /\ Len(starts) \in Nat /\ \A n \in 1..Len(starts) : starts[n] \in Nat
  BY DEF TypeOK
<1>2. ASSUME NEW n \in 1..Len(starts), n + 1 <= Len(starts) PROVE starts[n] < starts[n + 1]
  <2>1. Taken(starts[n]) /\ Place(n + 1) = starts[n] + Length(starts[n])
    BY DEF Chain
  <2>2. n + 1 # Len(starts) + 1
    BY <1>1, <1>2
  <2>3. Length(starts[n]) \in Nat /\ Length(starts[n]) >= 2 /\ starts[n] \in Nat
    BY <1>1, <2>1, TakenRecord DEF Taken, HeaderLen
  <2> QED
    BY <2>1, <2>2, <2>3 DEF Place
<1>3. 0 \in S
  BY <1>2
<1>4. ASSUME NEW d \in S PROVE d + 1 \in S
  <2>1. SUFFICES ASSUME i + (d + 1) + 1 <= Len(starts)
                 PROVE  starts[i] < starts[i + (d + 1) + 1]
    OBVIOUS
  <2>2. PICK n \in 1..Len(starts) : n = i + d + 1 /\ n + 1 = i + (d + 1) + 1 /\ n + 1 <= Len(starts)
    BY <1>1, <2>1
  <2>3. starts[i] < starts[n] /\ starts[n] < starts[n + 1]
    BY <1>2, <2>2
  <2>4. starts[i] \in Nat /\ starts[n] \in Nat /\ starts[n + 1] \in Nat
    BY <1>1, <2>2
  <2> QED
    BY <2>2, <2>3, <2>4
<1>5. S = Nat
  <2>1. S \subseteq Nat
    OBVIOUS
  <2> HIDE DEF S
  <2> QED
    BY <1>3, <1>4, <2>1, SetInduction
<1>6. PICK d \in Nat : i + d + 1 = j
  <2>1. j - i - 1 \in Nat /\ i + (j - i - 1) + 1 = j
    BY <1>1
  <2> QED
    BY <2>1
<1>7. d \in S
  <2> HIDE DEF S
  <2> QED
    BY <1>5
<1> QED
  BY <1>1, <1>6, <1>7
-----------------------------------------------------------------------------
(* What the Mkb holds was read from a record of the file *)

\* If there is a record of type t, then the last of them is at one of the places Q.
ReadAt(t, Q) == Has(t) => \E n \in 1..Len(starts) : IsLast(n, t) /\ starts[n] \in Q

SignatureIn(p) == IF Len(p) = SigLen THEN p ELSE None

FieldPlaces(t) == {c \in Nat : mkb.fields[t] = Payload(c)}
RawPlaces == {c \in Nat : mkb.type_and_version_raw = Record(c)}
EndPlaces == {c \in Nat : mkb.end_of_block_signature = SignatureIn(Payload(c))}

Kept ==
    /\ \A t \in Plain : ReadAt(t, FieldPlaces(t)) /\ (~Has(t) => mkb.fields[t] = None)
    /\ ReadAt(TypeAndVersion, RawPlaces)
    /\ ReadAt(EndOfBlock, EndPlaces)
    /\ starts # <<>> => (saw_type_record_first <=> Tag(starts[1]) = TypeAndVersion)

\* A value that is read anew from every record of type t, and else kept.
LEMMA ReadAtNoted ==
    ASSUME TypeOK, Chain, Taken(cursor), NoteRecord, Advance, UNCHANGED bytes, pc' = "record",
           NEW t, NEW Q, NEW R, ReadAt(t, Q),
           Tag(cursor) = t => cursor \in R, Tag(cursor) # t => Q \subseteq R
    PROVE  Has(t)' => \E n \in 1..Len(starts') : IsLast(n, t)' /\ starts'[n] \in R
<1>1. Has(t)' <=> Has(t) \/ Tag(cursor) = t
  BY RecordNoted
<1>2. CASE Tag(cursor) = t
  <2>1. PICK n \in 1..Len(starts') : IsLast(n, t)' /\ starts'[n] = cursor
    BY <1>2, LastNoted
  <2> QED
    BY <1>2, <2>1
<1>3. CASE Tag(cursor) # t /\ Has(t)
  <2>1. PICK n \in 1..Len(starts) : IsLast(n, t) /\ starts[n] \in R
    BY <1>3 DEF ReadAt
  <2>2. IsLast(n, t)' /\ starts'[n] = starts[n] /\ n \in 1..Len(starts')
    BY <1>3, <2>1, LastNoted
  <2> QED
    BY <2>1, <2>2
<1> QED
  BY <1>1, <1>2, <1>3

\* A record of type t is noted, and only what such a record is read for changes.
LEMMA NotedKeepsKept ==
    ASSUME IInv, Kept, Taken(cursor), NoteRecord, Advance, UNCHANGED bytes, pc' = "record",
           NEW t, t = Tag(cursor),
           \A s \in Plain : mkb'.fields[s] = IF s = t THEN Payload(cursor) ELSE mkb.fields[s],
           mkb'.type_and_version_raw =
              IF t = TypeAndVersion THEN Record(cursor) ELSE mkb.type_and_version_raw,
           mkb'.end_of_block_signature =
              IF t = EndOfBlock THEN SignatureIn(Payload(cursor)) ELSE mkb.end_of_block_signature
    PROVE  Kept'
<1>1. TypeOK /\ Chain /\ cursor \in Nat
  BY DEF IInv, TypeOK
<1>2. \A c : /\ Tag(c)' = Tag(c) /\ Payload(c)' = Payload(c) /\ Record(c)' = Record(c)
             /\ SignatureIn(Payload(c))' = SignatureIn(Payload(c))
  BY DEF Tag, Payload, Record, Length, SignatureIn
<1>3. ASSUME NEW s, NEW Q, NEW R, ReadAt(s, Q), t = s => cursor \in R, t # s => Q \subseteq R
      PROVE  Has(s)' => \E n \in 1..Len(starts') : IsLast(n, s)' /\ starts'[n] \in R
  BY <1>1, <1>3, ReadAtNoted
<1>4. ASSUME NEW s \in Plain
      PROVE  ReadAt(s, FieldPlaces(s))' /\ (~Has(s)' => mkb'.fields[s] = None)
  <2>1. PICK R : R = {c \in Nat : mkb'.fields[s] = Payload(c)}
    OBVIOUS
  <2>2. ReadAt(s, FieldPlaces(s)) /\ (~Has(s) => mkb.fields[s] = None)
    BY DEF Kept
  <2>3. t = s => cursor \in R
    BY <1>1, <2>1
  <2>4. t # s => FieldPlaces(s) \subseteq R
    BY <2>1 DEF FieldPlaces
  <2>5. Has(s)' => \E n \in 1..Len(starts') : IsLast(n, s)' /\ starts'[n] \in R
    BY <1>3, <2>2, <2>3, <2>4
  <2>6. FieldPlaces(s)' = R
    BY <1>2, <2>1 DEF FieldPlaces
  <2>7. Has(s)' <=> Has(s) \/ t = s
    BY <1>1, RecordNoted
  <2> QED
    BY <1>2, <2>2, <2>5, <2>6, <2>7 DEF ReadAt
<1>5. ReadAt(TypeAndVersion, RawPlaces)'
  <2>1. PICK R : R = {c \in Nat : mkb'.type_and_version_raw = Record(c)}
    OBVIOUS
  <2>2. ReadAt(TypeAndVersion, RawPlaces)
    BY DEF Kept
  <2>3. t = TypeAndVersion => cursor \in R
    BY <1>1, <2>1
  <2>4. t # TypeAndVersion => RawPlaces \subseteq R
    BY <2>1 DEF RawPlaces
  <2>5. Has(TypeAndVersion)' =>
           \E n \in 1..Len(starts') : IsLast(n, TypeAndVersion)' /\ starts'[n] \in R
    BY <1>3, <2>2, <2>3, <2>4
  <2>6. RawPlaces' = R
    BY <1>2, <2>1 DEF RawPlaces
  <2> QED
    BY <1>2, <2>5, <2>6 DEF ReadAt
<1>6. ReadAt(EndOfBlock, EndPlaces)'
  <2>1. PICK R : R = {c \in Nat : mkb'.end_of_block_signature = SignatureIn(Payload(c))}
    OBVIOUS
  <2>2. ReadAt(EndOfBlock, EndPlaces)
    BY DEF Kept
  <2>3. t = EndOfBlock => cursor \in R
    BY <1>1, <2>1
  <2>4. t # EndOfBlock => EndPlaces \subseteq R
    BY <2>1 DEF EndPlaces
  <2>5. Has(EndOfBlock)' =>
           \E n \in 1..Len(starts') : IsLast(n, EndOfBlock)' /\ starts'[n] \in R
    BY <1>3, <2>2, <2>3, <2>4
  <2>6. EndPlaces' = R
    BY <1>2, <2>1 DEF EndPlaces
  <2> QED
    BY <1>2, <2>5, <2>6 DEF ReadAt
<1>7. saw_type_record_first' <=> Tag(starts'[1]) = TypeAndVersion
  <2>1. CASE starts = <<>>
    <3>1. Len(starts) = 0
      BY <2>1
    <3>2. starts'[1] = cursor
      BY <1>1, <3>1, AppendProperties DEF TypeOK, NoteRecord
    <3> QED
      BY <2>1, <3>2 DEF NoteRecord
  <2>2. CASE starts # <<>>
    <3>1. starts \in Seq(Nat)
      BY <1>1 DEF TypeOK
    <3>2. 1 \in 1..Len(starts)
      BY <2>2, <3>1
    <3>3. starts'[1] = starts[1]
      BY <1>1, <3>2, AppendProperties DEF TypeOK, NoteRecord
    <3> QED
      BY <2>2, <3>3 DEF NoteRecord, Kept
  <2> QED
    BY <2>1, <2>2
<1>8. saw_type_record_first' <=> Tag(starts[1])' = TypeAndVersion
  BY <1>7 DEF Tag
<1> QED
  BY <1>4, <1>5, <1>6, <1>8 DEF Kept

LEMMA SameKept ==
    ASSUME Kept, UNCHANGED <<bytes, starts, saw_type_record_first, mkb>> PROVE Kept'
<1>1. UNCHANGED bytes /\ UNCHANGED starts /\ UNCHANGED saw_type_record_first /\ UNCHANGED mkb
  OBVIOUS
<1>2. \A c : Tag(c)' = Tag(c) /\ Payload(c)' = Payload(c) /\ Record(c)' = Record(c)
  BY <1>1 DEF Tag, Payload, Record, Length
<1>3. /\ \A t : FieldPlaces(t)' = FieldPlaces(t)
      /\ RawPlaces' = RawPlaces /\ EndPlaces' = EndPlaces
  BY <1>1, <1>2 DEF FieldPlaces, RawPlaces, EndPlaces, SignatureIn
<1>4. \A t : Has(t)' <=> Has(t)
  BY <1>1, <1>2 DEF Has
<1>5. \A n : Tag(starts[n])' = Tag(starts[n])
  BY <1>1 DEF Tag
<1>6. \A n, t : IsLast(n, t)' <=> IsLast(n, t)
  BY <1>1 DEF IsLast, Tag
<1>7. ASSUME NEW t \in Plain
      PROVE  ReadAt(t, FieldPlaces(t))' /\ (~Has(t)' => mkb'.fields[t] = None)
  BY <1>1, <1>3, <1>4, <1>6 DEF Kept, ReadAt
<1>8. ReadAt(TypeAndVersion, RawPlaces)' /\ ReadAt(EndOfBlock, EndPlaces)'
  BY <1>1, <1>3, <1>4, <1>6 DEF Kept, ReadAt
<1> QED
  BY <1>1, <1>5, <1>7, <1>8 DEF Kept

LEMMA EndIsNoField == EndOfBlock \notin Plain /\ TypeAndVersion # EndOfBlock /\ TypeAndVersion \in Plain
                      /\ \A t \in Lists : t \notin Plain /\ t # EndOfBlock /\ t # TypeAndVersion
BY DEF EndOfBlock, Plain, TypeAndVersion, Lists

LEMMA ReadPlainKeepsKept == IInv /\ Kept /\ ReadPlain => Kept'
<1> SUFFICES ASSUME IInv, Kept, ReadPlain PROVE Kept'
  OBVIOUS
<1>1. PICK t \in Plain : t = Tag(cursor)
  BY DEF ReadPlain
<1>2. CASE Len(Payload(cursor)) < MinLen[t]
  BY <1>1, <1>2, SameKept DEF ReadPlain, parsing
<1>3. CASE ~(Len(Payload(cursor)) < MinLen[t])
  <2>1. /\ mkb' = [mkb EXCEPT !.fields[t] = Payload(cursor),
                     !.type_and_version_raw =
                        IF t = TypeAndVersion THEN Record(cursor) ELSE @]
        /\ NoteRecord /\ Advance /\ UNCHANGED bytes /\ pc' = "record" /\ Whole
    BY <1>1, <1>3 DEF ReadPlain, AtRecord
  <2>2. TypeOK /\ mkb \in MkbType
    BY DEF IInv, TypeOK
  <2>3. Taken(cursor)
    BY <2>1, <2>2, AtTheCursor
  <2>4. /\ \A s \in Plain : mkb'.fields[s] = IF s = t THEN Payload(cursor) ELSE mkb.fields[s]
        /\ mkb'.type_and_version_raw =
              IF t = TypeAndVersion THEN Record(cursor) ELSE mkb.type_and_version_raw
        /\ mkb'.end_of_block_signature = mkb.end_of_block_signature
    BY <2>1, <2>2 DEF MkbType
  <2>5. t # EndOfBlock
    BY EndIsNoField
  <2> QED
    BY <1>1, <2>1, <2>3, <2>4, <2>5, NotedKeepsKept
<1> QED
  BY <1>2, <1>3

LEMMA ReadEndKeepsKept == IInv /\ Kept /\ ReadEnd => Kept'
<1> SUFFICES ASSUME IInv, Kept, ReadEnd PROVE Kept'
  OBVIOUS
<1>1. /\ mkb' = EndMkb(Payload(cursor)) /\ Tag(cursor) = EndOfBlock
      /\ NoteRecord /\ Advance /\ UNCHANGED bytes /\ pc' = "record" /\ Whole
  BY DEF ReadEnd, AtRecord
<1>2. TypeOK /\ mkb \in MkbType
  BY DEF IInv, TypeOK
<1>3. Taken(cursor)
  BY <1>1, <1>2, AtTheCursor
<1>4. /\ mkb'.fields = mkb.fields /\ mkb'.type_and_version_raw = mkb.type_and_version_raw
      /\ mkb'.end_of_block_signature = SignatureIn(Payload(cursor))
  BY <1>1, <1>2 DEF MkbType, EndMkb, SignatureIn
<1>5. \A s \in Plain : s # EndOfBlock
  BY EndIsNoField
<1> QED
  BY <1>1, <1>3, <1>4, <1>5, EndIsNoField, NotedKeepsKept

LEMMA ReadUnknownKeepsKept == IInv /\ Kept /\ ReadUnknown => Kept'
<1> SUFFICES ASSUME IInv, Kept, ReadUnknown PROVE Kept'
  OBVIOUS
<1>1. /\ mkb' = [mkb EXCEPT !.unknown_records = Append(@, Record(cursor))]
      /\ Tag(cursor) \notin Plain \cup Lists \cup {EndOfBlock}
      /\ NoteRecord /\ Advance /\ UNCHANGED bytes /\ pc' = "record" /\ Whole
  BY DEF ReadUnknown, AtRecord
<1>2. TypeOK /\ mkb \in MkbType
  BY DEF IInv, TypeOK
<1>3. Taken(cursor)
  BY <1>1, <1>2, AtTheCursor
<1>4. /\ mkb'.fields = mkb.fields /\ mkb'.type_and_version_raw = mkb.type_and_version_raw
      /\ mkb'.end_of_block_signature = mkb.end_of_block_signature
  BY <1>1, <1>2 DEF MkbType
<1>5. /\ Tag(cursor) # EndOfBlock /\ Tag(cursor) # TypeAndVersion
      /\ \A s \in Plain : s # Tag(cursor)
  BY <1>1, EndIsNoField
<1> QED
  BY <1>1, <1>3, <1>4, <1>5, NotedKeepsKept

LEMMA EndListKeepsKept == IInv /\ Kept /\ EndList => Kept'
<1> SUFFICES ASSUME IInv, Kept, EndList PROVE Kept'
  OBVIOUS
<1>1. /\ mkb' = [mkb EXCEPT !.revocation_blocks[Tag(cursor)] = list.blocks]
      /\ NoteRecord /\ Advance /\ UNCHANGED bytes /\ pc = "list" /\ pc' = "record"
  BY DEF EndList
<1>2. mkb \in MkbType /\ Taken(cursor) /\ Tag(cursor) \in Lists
  BY <1>1 DEF IInv, TypeOK, Chain
<1>3. /\ mkb'.fields = mkb.fields /\ mkb'.type_and_version_raw = mkb.type_and_version_raw
      /\ mkb'.end_of_block_signature = mkb.end_of_block_signature
  BY <1>1, <1>2 DEF MkbType
<1>4. /\ Tag(cursor) # EndOfBlock /\ Tag(cursor) # TypeAndVersion
      /\ \A s \in Plain : s # Tag(cursor)
  BY <1>2, EndIsNoField
<1> QED
  BY <1>1, <1>2, <1>3, <1>4, NotedKeepsKept

\* Before a record is noted there is nothing to be kept.
LEMMA NothingKept ==
    ASSUME starts = <<>>, \A t \in Plain : mkb.fields[t] = None PROVE Kept
<1>1. \A t : ~Has(t)
  BY DEF Has
<1> QED
  BY <1>1 DEF Kept, ReadAt

LEMMA DeliveryKeepsKept ==
    ASSUME IInv, Kept, pc = "delivery", UNCHANGED <<starts, mkb>> PROVE Kept'
<1>1. starts = <<>>
  BY DEF IInv, Chain
<1>2. \A t \in Plain : mkb.fields[t] = None
  BY <1>1 DEF Kept, Has
<1>3. \A t : ~Has(t)'
  BY <1>1 DEF Has
<1> QED
  BY <1>1, <1>2, <1>3 DEF Kept, ReadAt

\* The steps of a call and those of the parser that note no record.
LEMMA QuietSteps ==
    ASSUME \/ FinishParse \/ RefuseRecord \/ BeginList \/ ReadBlock
           \/ \E tag \in Calls : Verify(tag)
           \/ Walk
           \/ UNCHANGED vars
    PROVE  UNCHANGED <<bytes, starts, saw_type_record_first, mkb>>
<1>1. CASE FinishParse \/ RefuseRecord
  BY <1>1 DEF FinishParse, RefuseRecord, parsing
<1>2. CASE BeginList
  BY <1>2 DEF BeginList, parsing
<1>3. CASE ReadBlock
  BY <1>3 DEF ReadBlock, parsing
<1>4. CASE \E tag \in Calls : Verify(tag)
  BY <1>4 DEF Verify, parsing
<1>5. CASE Walk
  BY <1>5 DEF Walk, Scan, CheckEnd, BeginBlocks, RefuseBlock, CheckBlock, EndBlocks, parsing
<1>6. CASE UNCHANGED vars
  BY <1>6 DEF vars, parsing
<1> QED
  BY <1>1, <1>2, <1>3, <1>4, <1>5, <1>6

LEMMA StepKept == IInv /\ Kept /\ [Next]_vars => Kept'
<1> SUFFICES ASSUME IInv, Kept, [Next]_vars PROVE Kept'
  OBVIOUS
<1>1. CASE Delivery
  <2>1. pc = "delivery" /\ UNCHANGED parsing
    BY <1>1 DEF Delivery, Cut, Follow, Damage, Deliver
  <2>2. UNCHANGED <<starts, mkb>>
    BY <2>1 DEF parsing
  <2> QED
    BY <2>1, <2>2, DeliveryKeepsKept
<1>2. CASE ReadPlain \/ ReadEnd \/ ReadUnknown \/ EndList
  BY <1>2, ReadPlainKeepsKept, ReadEndKeepsKept, ReadUnknownKeepsKept, EndListKeepsKept
<1>3. CASE \/ FinishParse \/ RefuseRecord \/ BeginList \/ ReadBlock
           \/ \E tag \in Calls : Verify(tag)
           \/ Walk
           \/ UNCHANGED vars
  BY <1>3, QuietSteps, SameKept
<1> QED
  BY <1>1, <1>2, <1>3 DEF Next, Parse, Calls
-----------------------------------------------------------------------------
(* A verified file is an MKB of the AACS LA *)

\* The first End record was found, and the file up to it is signed.
EndChecked ==
    answer = [call |-> EndOfBlock, says |-> "ok"] =>
        \E n \in 1..Len(starts) :
            /\ IsFirst(n, EndOfBlock)
            /\ Verifies(mkb.end_of_block_signature, SubSeq(bytes, 1, starts[n]))

LEMMA CheckEndKeepsEndChecked == IInv /\ CheckEnd => EndChecked'
<1> SUFFICES ASSUME IInv, CheckEnd, answer' = [call |-> EndOfBlock, says |-> "ok"]
             PROVE  \E n \in 1..Len(starts) :
                       /\ IsFirst(n, EndOfBlock)
                       /\ Verifies(mkb.end_of_block_signature, SubSeq(bytes, 1, starts[n]))
  <2>1. CheckEnd => UNCHANGED <<bytes, starts, mkb>>
    BY DEF CheckEnd, parsing
  <2> QED
    BY <2>1 DEF EndChecked, IsFirst, Tag, Verifies
<1>1. /\ pc = "scan" /\ AtFound /\ Tag(found) = call /\ call = EndOfBlock
      /\ answer' = [call |-> call, says |-> IF Verifies(mkb.end_of_block_signature, SignedPrefix)
                                              THEN "ok" ELSE "invalid"]
  BY DEF CheckEnd, Return
<1>2. Verifies(mkb.end_of_block_signature, SignedPrefix)
  <2>1. answer'.says = "ok"
    OBVIOUS
  <2> QED
    BY <1>1, <2>1
<1>3. Taken(found)
  BY <1>1 DEF AtFound, Taken
<1>4. PICK n \in 1..(Len(starts) + 1) :
         /\ n \in 1..Len(starts) /\ found = starts[n]
         /\ \A j \in 1..(n - 1) : Tag(starts[j]) # call
  BY <1>1, <1>3, AtPlace
<1> QED
  BY <1>1, <1>2, <1>4 DEF SignedPrefix, IsFirst

\* Every other answer is another one.
LEMMA OtherAnswers ==
    ASSUME IInv, [Next]_vars, ~CheckEnd
    PROVE  \/ answer'.call # EndOfBlock \/ answer'.says # "ok"
           \/ UNCHANGED <<bytes, starts, mkb, answer>>
<1>1. CASE Delivery
  <2>1. pc = "delivery" /\ UNCHANGED verifying
    BY <1>1 DEF Delivery, Cut, Follow, Damage, Deliver
  <2>2. answer.call = None /\ UNCHANGED answer
    BY <2>1 DEF IInv, Answered, verifying
  <2> QED
    BY <2>2, FilesAssumption
<1>2. CASE Parse
  <2>1. pc \in {"record", "list"} /\ (UNCHANGED verifying \/ \E error : Fail(error))
    BY <1>2 DEF Parse, FinishParse, RefuseRecord, ReadPlain, ReadEnd, ReadUnknown, BeginList,
                ReadBlock, EndList, AtRecord
  <2>2. answer.call = None
    BY <2>1 DEF IInv, Answered
  <2>3. answer'.call = None
    BY <2>1, <2>2 DEF Fail, verifying
  <2> QED
    BY <2>3, FilesAssumption
<1>3. ASSUME NEW tag \in Calls, Verify(tag)
      PROVE  Return(tag, "missing") \/ UNCHANGED <<bytes, parsing, answer>>
  BY <1>3 DEF Verify
<1>4. CASE Walk
  <2>1. CASE Scan
    BY <2>1 DEF Scan, Return, parsing
  <2>2. CASE BeginBlocks
    BY <2>2 DEF BeginBlocks, Return, parsing
  <2>3. CASE RefuseBlock \/ CheckBlock \/ EndBlocks
    <3>1. call # EndOfBlock
      <4>1. pc = "verify"
        BY <2>3 DEF RefuseBlock, CheckBlock, EndBlocks
      <4> QED
        BY <4>1, EndIsNoField DEF IInv, Walking
    <3> QED
      BY <2>3, <3>1 DEF RefuseBlock, CheckBlock, EndBlocks, Conclude, Return, parsing
  <2> QED
    BY <1>4, <2>1, <2>2, <2>3 DEF Walk
<1>5. CASE UNCHANGED vars
  BY <1>5 DEF vars, parsing, verifying
<1> QED
  BY <1>1, <1>2, <1>3, <1>4, <1>5 DEF Next, Calls, Return, parsing

LEMMA StepEndChecked == IInv /\ EndChecked /\ [Next]_vars => EndChecked'
<1> SUFFICES ASSUME IInv, EndChecked, [Next]_vars PROVE EndChecked'
  OBVIOUS
<1>1. CASE CheckEnd
  BY <1>1, CheckEndKeepsEndChecked
<1>2. CASE UNCHANGED <<bytes, starts, mkb, answer>>
  BY <1>2 DEF EndChecked, IsFirst, Tag, Verifies
<1>3. CASE answer'.call # EndOfBlock \/ answer'.says # "ok"
  BY <1>3 DEF EndChecked
<1> QED
  BY <1>1, <1>2, <1>3, OtherAnswers

\* The file's first records are of the types and with the payloads of m's.
AsIn(m) ==
    /\ Len(m) <= Len(starts)
    /\ \A n \in 1..Len(m) :
          /\ Tag(starts[n]) = m[n].tag
          /\ m[n].tag \in Plain => Payload(starts[n]) = m[n].payload

\* Then a field is m's, unless a record of its type stands behind them.
LEMMA FieldIs ==
    ASSUME TypeOK, Kept, NEW m \in Masters, AsIn(m), NEW t \in Plain,
           \A n \in (Len(m) + 1)..Len(starts) : Tag(starts[n]) # t
    PROVE  mkb.fields[t] = PayloadIn(m, t)
<1>1. PICK N \in Nat, S \in Nat :
         N = Len(m) /\ S = Len(starts) /\ N <= S /\ DOMAIN m = 1..N
  <2>1. m \in Seq(RecordType)
    BY FilesAssumption DEF RecordType
  <2> QED
    BY <2>1 DEF AsIn, TypeOK
<1>2. \A i, j \in 1..N : m[i].tag = t /\ m[j].tag = t => i = j
  <2>1. \A i, j \in 1..N :
           m[i].tag = m[j].tag => i = j \/ m[i].tag \notin Plain \cup Lists \cup {EndOfBlock}
    BY <1>1, MadeAssumption DEF MkbMade
  <2> QED
    BY <2>1, Zenon
<1>3. \A n \in 1..S : Tag(starts[n]) = t => n \in 1..N /\ m[n].tag = t /\ Payload(starts[n]) = m[n].payload
  <2>1. \A n \in 1..S : n \in 1..N \/ n \in (N + 1)..S
    OBVIOUS
  <2> QED
    BY <1>1, <2>1 DEF AsIn
<1>4. CASE \E n \in 1..N : m[n].tag = t
  <2>1. PICK i \in 1..N : m[i].tag = t
    BY <1>4
  <2>2. Has(t)
    <3>1. i \in 1..S /\ Tag(starts[i]) = t
      BY <1>1, <2>1 DEF AsIn
    <3> QED
      BY <1>1, <3>1 DEF Has
  <2>3. PICK n \in 1..S : Tag(starts[n]) = t /\ mkb.fields[t] = Payload(starts[n])
    BY <1>1, <2>2 DEF Kept, ReadAt, FieldPlaces, IsLast
  <2>4. n = i
    BY <1>2, <1>3, <2>1, <2>3
  <2>5. mkb.fields[t] = m[i].payload
    BY <1>3, <2>3, <2>4
  <2>6. \A j \in 1..N : m[j].tag = t => j = i
    BY <1>2, <2>1
  <2>7. (CHOOSE j \in 1..N : m[j].tag = t) = i
    BY <2>1, <2>6
  <2> QED
    BY <1>1, <2>1, <2>5, <2>7 DEF PayloadIn
<1>5. CASE ~ \E n \in 1..N : m[n].tag = t
  <2>1. ~Has(t)
    BY <1>1, <1>3, <1>5 DEF Has
  <2>2. mkb.fields[t] = None
    BY <2>1 DEF Kept
  <2> QED
    BY <1>1, <1>5, <2>2 DEF PayloadIn
<1> QED
  BY <1>4, <1>5

LEMMA PrefixBegins ==
    ASSUME bytes \in Seq(Nat), NEW c \in Nat, c <= Len(bytes), NEW s, SubSeq(bytes, 1, c) = s
    PROVE  s \in Seq(Nat) /\ Len(s) = c /\ Begins(s)
<1>1. SubSeq(bytes, 1, c) \in Seq(Nat) /\ Len(SubSeq(bytes, 1, c)) = c
      /\ \A i \in 1..c : SubSeq(bytes, 1, c)[i] = bytes[i]
  BY SubSeqProperties
<1> QED
  BY <1>1 DEF Begins

\* What is signed up to an End record is signed as the records of an MKB...
LEMMA SignedMkb ==
    ASSUME TypeOK, Chain, NEW m \in Masters, NEW N \in 1..Len(starts),
           Tag(starts[N]) = EndOfBlock, FileOf(Unsigned(m)) = SubSeq(bytes, 1, starts[N])
    PROVE  Len(m) = N /\ AsIn(m)
<1>1. m \in Seq(RecordType) /\ m # <<>> /\ m[Len(m)].tag = EndOfBlock
  BY FilesAssumption, MadeAssumption DEF RecordType, MkbMade
<1>2. bytes \in Seq(Nat) /\ starts[N] \in Nat /\ starts[N] <= Len(bytes)
  <2>1. Taken(starts[N]) /\ bytes \in Seq(Nat) /\ starts[N] \in Nat
    BY DEF Chain, TypeOK
  <2> QED
    BY <2>1 DEF Taken, HeaderLen
<1>3. PICK whole : Files(m, whole)
  BY <1>1, FileUpto
<1>4. PICK w \in Seq(RecordType) :
         /\ w = Unsigned(m) /\ Len(w) = Len(m) - 1
         /\ \A n \in 1..Len(w) : w[n] = m[n]
  <2>1. Unsigned(m) \in Seq(RecordType) /\ Len(Unsigned(m)) = Len(m) - 1
    BY <1>1, <1>3, UnsignedFile
  <2>2. \A n \in 1..(Len(m) - 1) : SubSeq(m, 1, Len(m) - 1)[n] = m[n]
    BY <1>1, <2>1, SubSeqProperties
  <2> QED
    BY <2>1, <2>2 DEF Unsigned
<1>5. PICK upto : Files(w, upto) /\ FileOf(w) = upto[Len(w)]
  BY FileUpto
<1>6. PICK M \in Nat : M = Len(w) /\ M + 1 = Len(m)
  <2>1. Len(w) \in Nat /\ Len(m) \in Nat
    BY <1>1
  <2> QED
    BY <1>4, <2>1
<1>7. Len(upto[M]) = starts[N] /\ Begins(upto[M])
  BY <1>2, <1>4, <1>5, <1>6, PrefixBegins
<1>8. PICK S \in Nat : S = Len(starts) /\ N \in 1..S
  BY DEF TypeOK
<1>9. \A n \in 1..N : n <= M + 1 => starts[n] = Len(upto[n - 1])
  <2>1. M \in 0..Len(w)
    BY <1>6
  <2>2. \A n \in 1..(S + 1) : n <= M + 1 => Place(n) = Len(upto[n - 1])
    BY <1>5, <1>7, <1>8, <2>1, Aligned
  <2>3. \A n \in 1..N : n \in 1..(S + 1) /\ n # S + 1
    BY <1>8
  <2> QED
    BY <1>8, <2>2, <2>3 DEF Place
<1>10. N = M + 1
  <2>1. CASE N <= M
    <3>1. starts[N] = Len(upto[N - 1]) /\ N - 1 \in 0..Len(w) /\ M \in 0..Len(w) /\ N - 1 < M
      BY <1>6, <1>9, <2>1
    <3>2. Len(upto[N - 1]) < Len(upto[M]) /\ upto[N - 1] \in Seq(Nat) /\ upto[M] \in Seq(Nat)
      <4>1. PICK i \in 0..Len(w), j \in 0..Len(w) : i = N - 1 /\ j = M /\ i <= j /\ i < j
        BY <3>1
      <4>2. Len(upto[i]) < Len(upto[j]) /\ upto[i] \in Seq(Nat) /\ upto[j] \in Seq(Nat)
        BY <1>5, <4>1, FileBegins
      <4> QED
        BY <4>1, <4>2
    <3> QED
      BY <1>2, <1>7, <3>1, <3>2
  <2>2. CASE N > M + 1
    <3>1. M + 1 \in 1..N /\ N \in 1..N /\ (M + 1) - 1 = M
      BY <2>2
    <3>2. starts[M + 1] = starts[N]
      BY <1>7, <1>9, <3>1
    <3>3. starts[M + 1] < starts[N]
      <4>1. M + 1 \in 1..Len(starts) /\ M + 1 < N
        BY <1>8, <2>2, <3>1
      <4> QED
        BY <4>1, StartsRise
    <3> QED
      BY <1>2, <3>2, <3>3
  <2> QED
    BY <2>1, <2>2
<1>11. ASSUME NEW n \in 1..Len(m)
       PROVE  /\ Tag(starts[n]) = m[n].tag
              /\ m[n].tag \in Plain => Payload(starts[n]) = m[n].payload
  <2>1. CASE n = N
    BY <1>1, <1>6, <1>10, <2>1, EndIsNoField
  <2>2. CASE n # N
    <3>1. n \in 1..Len(w) /\ n \in 1..N /\ n <= M + 1 /\ M \in 0..Len(w) /\ n \in 0..Len(w) /\ n <= M
      BY <1>6, <1>10, <2>2
    <3>2. Begins(upto[n])
      BY <1>2, <1>5, <1>7, <3>1, BeginsWithFewer
    <3>3. starts[n] = Len(upto[n - 1])
      BY <1>9, <3>1
    <3>4. Tag(starts[n]) = w[n].tag /\ Payload(starts[n]) = w[n].payload
      <4>1. PICK j, c : j \in 1..Len(w) /\ j = n /\ c = starts[n] /\ c = Len(upto[j - 1]) /\ Begins(upto[j])
        BY <3>1, <3>2, <3>3
      <4>2. Tag(c) = w[j].tag /\ Payload(c) = w[j].payload
        BY <1>2, <1>5, <4>1, RecordAt
      <4> QED
        BY <4>1, <4>2
    <3> QED
      BY <1>4, <3>1, <3>4
  <2> QED
    BY <2>1, <2>2
<1> QED
  BY <1>6, <1>8, <1>10, <1>11 DEF AsIn

\* ... and not as a part of a list, which ends within its record.
SignedInList(m, i, c, data) ==
    i \in DOMAIN m /\ c + SigLen <= Len(m[i].payload) /\ data = ListData(m[1], m[i], c)
UptoHere(data, c) == data = SubSeq(bytes, 1, c)

LEMMA NotSignedAsList ==
    ASSUME TypeOK, Chain, NEW m \in Masters, NEW N \in 1..Len(starts),
           NEW i, NEW c \in Nat, NEW d, SignedInList(m, i, c, d), UptoHere(d, starts[N])
    PROVE  FALSE
<1>0. PICK S \in Nat : S = Len(starts) /\ N \in 1..S
  BY DEF TypeOK
<1>1. m \in Seq(RecordType) /\ 1 \in 1..Len(m) /\ i \in 1..Len(m)
  <2>1. m \in Seq(RecordType)
    BY FilesAssumption DEF RecordType
  <2>2. i \in 1..Len(m)
    BY <2>1 DEF SignedInList
  <2> QED
    BY <2>1, <2>2
<1>2. PICK q \in Nat, rl \in Seq(Nat) :
         /\ rl = Bytes(m[i]) /\ q = Len(m[i].payload) /\ Len(rl) = 2 + q /\ rl[2] = 2 + q
  BY <1>1, RecordsOf DEF HeaderLen
<1>3. PICK tv \in Seq(Nat), t \in Nat : tv = Bytes(m[1]) /\ t = Len(tv) /\ t >= 2 /\ tv[2] = t
  <2>1. PICK tv \in Seq(Nat), p \in Nat :
           tv = Bytes(m[1]) /\ p = Len(m[1].payload) /\ Len(tv) = 2 + p /\ tv[2] = 2 + p
    BY <1>1, RecordsOf DEF HeaderLen
  <2> QED
    BY <2>1
<1>4. c < q
  <2>1. PICK sig \in Nat : sig = SigLen /\ sig > 0
    BY SizesAssumption
  <2>2. c + sig <= q
    BY <1>2, <2>1 DEF SignedInList
  <2> QED
    BY <2>1, <2>2
<1>5. PICK part \in Seq(Nat) :
         /\ part = SubSeq(rl, 1, 2 + c) /\ Len(part) = 2 + c /\ part[2] = rl[2]
  <2>1. PICK e \in Nat : e = 2 + c /\ e <= Len(rl) /\ 2 \in 1..e
    BY <1>2, <1>4
  <2>2. SubSeq(rl, 1, e) \in Seq(Nat) /\ Len(SubSeq(rl, 1, e)) = e
        /\ \A n \in 1..e : SubSeq(rl, 1, e)[n] = rl[n]
    BY <2>1, SubSeqProperties
  <2> QED
    BY <2>1, <2>2
<1>6. PICK data \in Seq(Nat) :
         /\ data = tv \o part /\ Len(data) = t + 2 + c
         /\ data[2] = t /\ data[t + 2] = 2 + q
  <2>1. /\ tv \o part \in Seq(Nat) /\ Len(tv \o part) = Len(tv) + Len(part)
        /\ \A n \in 1..Len(tv) : (tv \o part)[n] = tv[n]
        /\ \A n \in 1..Len(part) : (tv \o part)[Len(tv) + n] = part[n]
    BY Joined
  <2>2. 2 \in 1..Len(tv) /\ 2 \in 1..Len(part)
    BY <1>3, <1>5
  <2>3. PICK data \in Seq(Nat) :
           /\ data = tv \o part /\ Len(data) = Len(tv) + Len(part)
           /\ data[2] = tv[2] /\ data[Len(tv) + 2] = part[2]
    BY <2>1, <2>2
  <2>4. Len(data) = t + 2 + c
    <3>1. Len(data) = t + (2 + c)
      BY <1>3, <1>5, <2>3
    <3>2. t + (2 + c) = t + 2 + c
      OBVIOUS
    <3> QED
      BY <3>1, <3>2, Zenon
  <2>5. data[2] = t /\ data[t + 2] = 2 + q
    BY <1>2, <1>3, <1>5, <2>3
  <2> QED
    BY <2>3, <2>4, <2>5
<1>7. data = SubSeq(bytes, 1, starts[N])
  BY <1>2, <1>3, <1>5, <1>6 DEF SignedInList, UptoHere, ListData, HeaderLen
<1>8. /\ bytes \in Seq(Nat) /\ \A n \in 1..N : starts[n] \in Nat /\ Taken(starts[n])
      /\ \A n \in 1..N : Place(n + 1) = starts[n] + Length(starts[n])
  <2>1. bytes \in Seq(Nat) /\ \A n \in 1..S : starts[n] \in Nat
    BY <1>0 DEF TypeOK
  <2>2. \A n \in 1..S : Taken(starts[n]) /\ Place(n + 1) = starts[n] + Length(starts[n])
    BY <1>0 DEF Chain
  <2>3. \A n \in 1..N : n \in 1..S
    BY <1>0
  <2> QED
    BY <2>1, <2>2, <2>3
<1>9. starts[N] <= Len(bytes) /\ N \in 1..N
  <2>1. N \in 1..N
    BY <1>0
  <2>2. starts[N] \in Nat /\ Taken(starts[N])
    BY <1>8, <2>1
  <2> QED
    BY <1>8, <2>1, <2>2 DEF Taken, HeaderLen
<1>10. Len(data) = starts[N] /\ \A n \in 1..Len(data) : bytes[n] = data[n]
  BY <1>7, <1>8, <1>9, PrefixBegins DEF Begins
<1>11. starts[N] = t + 2 + c
  BY <1>6, <1>10
<1>12. starts[1] = 0 /\ Length(0) = t
  <2>1. Place(1) = 0 /\ 1 # S + 1
    BY <1>0 DEF Chain
  <2>2. 2 \in 1..Len(data)
    BY <1>3, <1>6
  <2>3. starts[1] = 0
    BY <1>0, <2>1 DEF Place
  <2>4. bytes[2] = data[2] /\ data[2] = t /\ 0 + 2 = 2
    <3>1. \A n \in 1..Len(data) : bytes[n] = data[n]
      BY <1>10
    <3>2. bytes[2] = data[2]
      BY <2>2, <3>1
    <3> QED
      BY <1>6, <3>2
  <2> QED
    BY <2>3, <2>4 DEF Length
<1>13. N >= 2 /\ starts[2] = t
  <2>1. N # 1
    BY <1>3, <1>11, <1>12
  <2>2. 1 \in 1..N /\ 1 + 1 = 2 /\ 2 # S + 1 /\ N >= 2
    BY <1>0, <2>1
  <2>3. Place(2) = starts[1] + Length(starts[1])
    BY <1>8, <2>2
  <2>4. starts[2] = 0 + t
    BY <1>0, <1>12, <2>2, <2>3 DEF Place
  <2> QED
    BY <1>3, <2>2, <2>4
<1>14. Length(t) = 2 + q
  <2>1. t + 2 \in 1..Len(data)
    BY <1>3, <1>6
  <2> QED
    BY <1>6, <1>10, <2>1 DEF Length
<1>15. N >= 3 /\ starts[3] = t + 2 + q
  <2>1. N # 2
    BY <1>3, <1>11, <1>13
  <2>2. 2 \in 1..N /\ 2 + 1 = 3 /\ 3 # S + 1 /\ N >= 3
    BY <1>0, <1>13, <2>1
  <2>3. Place(3) = starts[2] + Length(starts[2])
    BY <1>8, <2>2
  <2>4. starts[3] = t + (2 + q)
    BY <1>0, <1>13, <1>14, <2>2, <2>3 DEF Place
  <2>5. t + (2 + q) = t + 2 + q
    OBVIOUS
  <2> QED
    BY <2>2, <2>4, <2>5, Zenon
<1>16. starts[3] <= starts[N]
  <2>1. 3 \in 1..N /\ 3 \in 1..S
    BY <1>0, <1>15
  <2>2. CASE N = 3
    BY <1>8, <2>1, <2>2
  <2>3. CASE N # 3
    <3>1. starts[3] < starts[N]
      <4>1. 3 < N
        BY <1>0, <1>15, <2>3
      <4> QED
        BY <1>0, <2>1, <4>1, StartsRise
    <3> QED
      BY <1>8, <1>9, <2>1, <3>1
  <2> QED
    BY <2>2, <2>3
<1> QED
  BY <1>4, <1>11, <1>15, <1>16

VInv == IInv /\ Kept /\ EndChecked

LEMMA VInvariant == Spec => []VInv
<1>1. Init => VInv
  <2> SUFFICES ASSUME Init PROVE VInv
    OBVIOUS
  <2>1. starts = <<>> /\ mkb = EmptyMkb /\ answer.call = None
    BY DEF Init
  <2>2. \A t \in Plain : mkb.fields[t] = None
    BY <2>1 DEF EmptyMkb
  <2>3. EndChecked
    BY <2>1, FilesAssumption DEF EndChecked
  <2> QED
    BY <2>1, <2>2, <2>3, InitIInv, NothingKept DEF VInv
<1>2. VInv /\ [Next]_vars => VInv'
  BY StepIInv, StepKept, StepEndChecked DEF VInv
<1> QED
  BY <1>1, <1>2, PTL DEF Spec

LEMMA VerifiedFile == VInv => VerifiedIsAsMade
<1> SUFFICES ASSUME VInv, answer = [call |-> EndOfBlock, says |-> "ok"]
             PROVE  \E m \in Masters : \A t \in Plain :
                       mkb.fields[t] =
                           IF \E n \in StartsOf(t) : n > FirstOf(EndOfBlock)
                             THEN Payload(starts[LastOf(t)]) ELSE PayloadIn(m, t)
  BY DEF VerifiedIsAsMade
<1>1. TypeOK /\ Chain /\ Kept /\ starts \in Seq(Nat)
  BY DEF VInv, IInv, TypeOK
<1>2. PICK N \in 1..Len(starts) :
         /\ IsFirst(N, EndOfBlock)
         /\ Verifies(mkb.end_of_block_signature, SubSeq(bytes, 1, starts[N]))
  BY DEF VInv, EndChecked
<1>3. FirstOf(EndOfBlock) = N
  BY <1>1, <1>2, FirstIs
<1>4. Tag(starts[N]) = EndOfBlock
  BY <1>2 DEF IsFirst
<1>5. PICK s \in LaSigned : s.data = SubSeq(bytes, 1, starts[N])
  BY <1>2 DEF Verifies
<1>6. PICK m \in Masters : SignsMkb(s, m) \/ SignsList(s, m)
  BY MadeAssumption
<1>7. Len(m) = N /\ AsIn(m)
  <2>1. CASE SignsMkb(s, m)
    <3>1. FileOf(Unsigned(m)) = SubSeq(bytes, 1, starts[N])
      BY <1>5, <2>1 DEF SignsMkb
    <3> QED
      BY <1>1, <1>4, <3>1, SignedMkb
  <2>2. CASE SignsList(s, m)
    <3>1. PICK i, c : /\ i \in DOMAIN m /\ c \in 0..Len(m[i].payload)
                      /\ c + SigLen <= Len(m[i].payload) /\ s.data = ListData(m[1], m[i], c)
      BY <2>2 DEF SignsList
    <3>2. c \in Nat
      BY <3>1
    <3>3. SignedInList(m, i, c, s.data) /\ UptoHere(s.data, starts[N])
      BY <1>5, <3>1 DEF SignedInList, UptoHere
    <3> QED
      BY <1>1, <3>2, <3>3, NotSignedAsList
  <2> QED
    BY <1>6, <2>1, <2>2
<1>8. ASSUME NEW t \in Plain, \E n \in StartsOf(t) : n > N
      PROVE  mkb.fields[t] = Payload(starts[LastOf(t)])
  <2>1. Has(t)
    <3>1. PICK n \in DOMAIN starts : Tag(starts[n]) = t
      BY <1>8 DEF StartsOf
    <3>2. DOMAIN starts = 1..Len(starts)
      BY <1>1
    <3> QED
      BY <3>1, <3>2 DEF Has
  <2>2. PICK l : IsLast(l, t) /\ mkb.fields[t] = Payload(starts[l])
    BY <1>1, <2>1 DEF Kept, ReadAt, FieldPlaces
  <2>3. LastOf(t) = l
    BY <1>1, <2>2, LastIs
  <2> QED
    BY <2>2, <2>3
<1>9. ASSUME NEW t \in Plain, ~ \E n \in StartsOf(t) : n > N
      PROVE  mkb.fields[t] = PayloadIn(m, t)
  <2>1. ASSUME NEW n \in (N + 1)..Len(starts) PROVE Tag(starts[n]) # t
    <3>1. Len(starts) \in Nat /\ DOMAIN starts = 1..Len(starts)
      BY <1>1
    <3>2. n \in DOMAIN starts /\ n > N
      BY <3>1
    <3> QED
      BY <1>9, <3>2 DEF StartsOf
  <2> QED
    BY <1>1, <1>7, <2>1, FieldIs
<1>10. WITNESS m \in Masters
<1> QED
  BY <1>3, <1>8, <1>9

\* What it means, in any file, that verify_end_of_block_signature accepts it:
\* there is one MKB of the AACS LA such that every field of the Mkb is that MKB's
\* payload of the type, or None where it has none, unless the file holds a record
\* of the type behind its first End record.  Then the field is that of the last
\* such record, which nothing has signed.
THEOREM VerifiedFileIsMade == Spec => []VerifiedIsAsMade
BY VInvariant, VerifiedFile, PTL
-----------------------------------------------------------------------------
(* An intact file *)

LEMMA MasterMade ==
    ASSUME NEW m \in Masters
    PROVE  /\ m \in Seq(RecordType) /\ Len(m) \in Nat \ {0} /\ DOMAIN m = 1..Len(m)
           /\ m[1].tag = TypeAndVersion /\ m[Len(m)].tag = EndOfBlock
           /\ \A i, j \in 1..Len(m) :
                 m[i].tag = m[j].tag => i = j \/ m[i].tag \notin Plain \cup Lists \cup {EndOfBlock}
           /\ \A i \in 1..Len(m) :
                 /\ m[i].tag \in Plain => Len(m[i].payload) >= MinLen[m[i].tag]
                 /\ m[i].tag \in Lists => ListMade(m[1], m[i])
           /\ Len(m[Len(m)].payload) = SigLen
           /\ [sig |-> m[Len(m)].payload, data |-> FileOf(Unsigned(m))] \in LaSigned
<1>1. m \in Seq(RecordType)
  BY FilesAssumption DEF RecordType
<1>2. MkbMade(m)
  BY MadeAssumption
<1>3. m # <<>>
  BY <1>2 DEF MkbMade
<1>4. Len(m) \in Nat \ {0} /\ DOMAIN m = 1..Len(m)
  BY <1>1, <1>3, EmptySeq
<1> QED
  BY <1>1, <1>2, <1>4 DEF MkbMade

LEMMA PaddedFile ==
    ASSUME bytes \in Seq(Nat), NEW s \in Seq(Nat), Padded(s), NEW c, c = Len(s)
    PROVE  /\ Begins(s) /\ ~Taken(c)
           /\ Len(bytes) - c < HeaderLen
                \/ (Len(bytes) - c >= HeaderLen /\ Length(c) = 0
                      /\ IsZero(SubSeq(bytes, c + 1, Len(bytes))))
<1>1. PICK n \in Nat : n = Len(bytes)
  OBVIOUS
<1>2. c \in Nat /\ c <= n /\ SubSeq(bytes, 1, c) = s /\ IsZero(SubSeq(bytes, c + 1, n))
  BY <1>1 DEF Padded
<1>3. Begins(s)
  BY <1>1, <1>2, PrefixBegins
<1>4. n - c >= 2 => Length(c) = 0
  <2>1. SUFFICES ASSUME c + 2 <= n PROVE bytes[c + 2] = 0
    BY <1>1, <1>2 DEF Length
  <2>2. PICK rest \in Seq(Nat) :
           /\ rest = SubSeq(bytes, c + 1, n) /\ Len(rest) = n - c
           /\ \A i \in 1..(n - c) : rest[i] = bytes[c + i]
    <3>1. PICK lo \in Nat : lo = c + 1 /\ lo \in 1..(n + 1) /\ lo <= n
      BY <1>2, <2>1
    <3>2. /\ SubSeq(bytes, lo, n) \in Seq(Nat) /\ Len(SubSeq(bytes, lo, n)) = n - lo + 1
          /\ \A i \in 1..(n - lo + 1) : SubSeq(bytes, lo, n)[i] = bytes[lo + i - 1]
      BY <1>1, <3>1, SubSeqProperties
    <3>3. PICK rest \in Seq(Nat) :
             /\ rest = SubSeq(bytes, lo, n) /\ Len(rest) = n - lo + 1
             /\ \A i \in 1..(n - lo + 1) : rest[i] = bytes[lo + i - 1]
      BY <3>2
    <3>4. n - lo + 1 = n - c
      BY <1>2, <3>1
    <3>5. ASSUME NEW i \in 1..(n - c) PROVE rest[i] = bytes[c + i]
      <4>1. i \in 1..(n - lo + 1) /\ lo + i - 1 = c + i
        BY <1>2, <3>1
      <4> QED
        BY <3>3, <4>1
    <3>6. rest = SubSeq(bytes, c + 1, n)
      BY <3>1, <3>3
    <3>7. Len(rest) = n - c
      BY <3>3, <3>4
    <3> HIDE <3>1, <3>3, <3>4
    <3> QED
      BY <3>5, <3>6, <3>7
  <2>3. 2 \in DOMAIN rest
    BY <1>2, <2>1, <2>2
  <2>4. rest[2] = 0
    BY <1>2, <2>2, <2>3 DEF IsZero
  <2> QED
    BY <1>2, <2>1, <2>2, <2>4
<1>5. ~Taken(c)
  BY <1>1, <1>2, <1>4 DEF Taken, HeaderLen
<1> QED
  BY <1>1, <1>2, <1>3, <1>4, <1>5 DEF HeaderLen

\* The parser's places in it.
LEMMA IntactPlaces ==
    ASSUME TypeOK, Chain, master \in Masters, Padded(FileOf(master)),
           NEW upto, Files(master, upto), NEW N, N = Len(starts), NEW M, M = Len(master)
    PROVE  /\ N \in Nat /\ M \in Nat /\ N <= M /\ Begins(upto[M])
           /\ cursor = Len(upto[N])
           /\ \A n \in 1..N : starts[n] = Len(upto[n - 1])
<1>1. bytes \in Seq(Nat) /\ starts \in Seq(Nat) /\ N \in Nat
  BY DEF TypeOK
<1>2. master \in Seq(RecordType) /\ M \in Nat
  BY MasterMade
<1>3. FileOf(master) = upto[M] /\ upto[M] \in Seq(Nat)
  <2>1. M \in 0..Len(master)
    BY <1>2
  <2> QED
    BY <1>2, <2>1, FileIs DEF Files
<1>4. Begins(upto[M]) /\ ~Taken(Len(upto[M]))
  BY <1>1, <1>3, PaddedFile
<1>5. \A n \in 1..(N + 1) : n <= M + 1 => Place(n) = Len(upto[n - 1])
  <2>1. M \in 0..Len(master)
    BY <1>2
  <2> QED
    BY <1>2, <1>4, <2>1, Aligned
<1>6. N <= M
  <2>1. SUFFICES ASSUME N > M PROVE FALSE
    BY <1>1, <1>2
  <2>2. M + 1 \in 1..N /\ M + 1 \in 1..(N + 1) /\ M + 1 # N + 1 /\ (M + 1) - 1 = M
    BY <1>1, <1>2, <2>1
  <2>3. starts[M + 1] = Len(upto[M])
    BY <1>5, <2>2 DEF Place
  <2>4. Taken(starts[M + 1])
    BY <2>2 DEF Chain
  <2> QED
    BY <1>4, <2>3, <2>4
<1>7. cursor = Len(upto[N])
  <2>1. N + 1 \in 1..(N + 1) /\ N + 1 <= M + 1 /\ (N + 1) - 1 = N
    BY <1>1, <1>2, <1>6
  <2> QED
    BY <1>5, <2>1 DEF Place
<1>8. ASSUME NEW n \in 1..N PROVE starts[n] = Len(upto[n - 1])
  <2>1. n \in 1..(N + 1) /\ n <= M + 1 /\ n # N + 1
    BY <1>1, <1>2, <1>6
  <2> QED
    BY <1>5, <2>1 DEF Place
<1> QED
  BY <1>1, <1>2, <1>4, <1>6, <1>7, <1>8

\* The records that were parsed, and the one at the cursor.
LEMMA IntactRecords ==
    ASSUME TypeOK, Chain, master \in Masters, Padded(FileOf(master))
    PROVE  /\ Len(starts) \in 0..Len(master)
           /\ \A n \in 1..Len(starts) :
                 /\ n \in 1..Len(master)
                 /\ Tag(starts[n]) = master[n].tag /\ Payload(starts[n]) = master[n].payload
                 /\ Record(starts[n]) = Bytes(master[n])
<1>1. bytes \in Seq(Nat) /\ starts \in Seq(Nat)
  BY DEF TypeOK
<1>2. master \in Seq(RecordType)
  BY MasterMade
<1>3. PICK upto : Files(master, upto)
  BY <1>2, FileUpto
<1>4. PICK N \in Nat, M \in Nat :
         /\ N = Len(starts) /\ M = Len(master) /\ N <= M /\ Begins(upto[M])
         /\ \A n \in 1..N : starts[n] = Len(upto[n - 1])
  BY <1>3, IntactPlaces
<1>5. ASSUME NEW n \in 1..N
      PROVE  /\ n \in 1..M
             /\ Tag(starts[n]) = master[n].tag /\ Payload(starts[n]) = master[n].payload
             /\ Record(starts[n]) = Bytes(master[n])
  <2>1. n \in 1..M /\ n \in 0..M /\ M \in 0..M /\ n <= M
    BY <1>4
  <2>2. Begins(upto[n])
    BY <1>1, <1>2, <1>3, <1>4, <2>1, BeginsWithFewer
  <2>3. PICK j, c : j \in 1..Len(master) /\ j = n /\ c = starts[n] /\ c = Len(upto[j - 1])
    BY <1>4, <2>1
  <2>4. Tag(c) = master[j].tag /\ Payload(c) = master[j].payload /\ Record(c) = Bytes(master[j])
    BY <1>1, <1>2, <1>3, <2>2, <2>3, RecordAt
  <2> QED
    BY <2>1, <2>3, <2>4
<1> QED
  BY <1>4, <1>5

LEMMA IntactCursor ==
    ASSUME TypeOK, Chain, master \in Masters, Padded(FileOf(master))
    PROVE  IF Len(starts) = Len(master) THEN EndOfRecords /\ ~Taken(cursor)
           ELSE \E n \in 1..Len(master) :
                   /\ n = Len(starts) + 1 /\ Taken(cursor)
                   /\ Tag(cursor) = master[n].tag /\ Payload(cursor) = master[n].payload
                   /\ Record(cursor) = Bytes(master[n])
<1>1. bytes \in Seq(Nat) /\ starts \in Seq(Nat) /\ cursor \in Nat
  BY DEF TypeOK
<1>2. master \in Seq(RecordType)
  BY MasterMade
<1>3. PICK upto : Files(master, upto)
  BY <1>2, FileUpto
<1>4. PICK N \in Nat, M \in Nat :
         /\ N = Len(starts) /\ M = Len(master) /\ N <= M /\ Begins(upto[M])
         /\ cursor = Len(upto[N])
  BY <1>3, IntactPlaces
<1>5. CASE N = M
  <2>1. FileOf(master) = upto[M] /\ upto[M] \in Seq(Nat)
    <3>1. M \in 0..Len(master)
      BY <1>4
    <3> QED
      BY <1>2, <1>3, <1>4, <3>1, FileIs DEF Files
  <2>2. /\ ~Taken(cursor)
        /\ Len(bytes) - cursor < HeaderLen
             \/ (Len(bytes) - cursor >= HeaderLen /\ Length(cursor) = 0
                   /\ IsZero(SubSeq(bytes, cursor + 1, Len(bytes))))
    BY <1>1, <1>4, <1>5, <2>1, PaddedFile
  <2> QED
    BY <1>4, <1>5, <2>2 DEF EndOfRecords, Remaining, Padding, HeaderLen
<1>6. CASE N # M
  <2>1. PICK n \in 1..Len(master) : n = N + 1 /\ n - 1 = N /\ n \in 0..Len(master) /\ M \in 0..Len(master)
                                    /\ n <= M
    BY <1>4, <1>6
  <2>2. Begins(upto[n])
    BY <1>1, <1>2, <1>3, <1>4, <2>1, BeginsWithFewer
  <2>3. /\ Taken(cursor) /\ Tag(cursor) = master[n].tag /\ Payload(cursor) = master[n].payload
        /\ Record(cursor) = Bytes(master[n])
    BY <1>1, <1>2, <1>3, <1>4, <2>1, <2>2, RecordAt
  <2> QED
    BY <1>4, <1>6, <2>1, <2>3
<1> QED
  BY <1>4, <1>5, <1>6

\* The places of n blocks that lie end to end in a payload.
EndToEnd(p, n, made) ==
    /\ made[1] = CountLen /\ made[n + 1] = Len(p)
    /\ \A j \in 1..n : made[j + 1] = AfterBlock(p, made[j])

\* A list that was made is read block by block at the places it was made of.
LEMMA MadePositions ==
    ASSUME NEW p \in Seq(Nat), NEW blocks \in Seq(BlockType), NEW pos, Positions(p, blocks, pos),
           NEW n \in Nat, NEW made, EndToEnd(p, n, made)
    PROVE  /\ Len(blocks) <= n
           /\ \A j \in 1..(Len(blocks) + 1) : pos[j] = made[j]
<1>1. PICK L \in Nat : L = Len(blocks)
  OBVIOUS
<1>2. /\ pos[1] = CountLen
      /\ \A j \in 1..L : pos[j] < Len(p) /\ pos[j + 1] = AfterBlock(p, pos[j])
  BY <1>1 DEF Positions
<1>3. /\ made[1] = CountLen /\ made[n + 1] = Len(p)
      /\ \A j \in 1..n : made[j + 1] = AfterBlock(p, made[j])
  BY DEF EndToEnd
<1> DEFINE S == {d \in Nat : d <= L => d <= n /\ pos[d + 1] = made[d + 1]}
<1>4. 0 \in S
  BY <1>2, <1>3
<1>5. ASSUME NEW d \in S PROVE d + 1 \in S
  <2>1. SUFFICES ASSUME d + 1 <= L PROVE d + 1 <= n /\ pos[(d + 1) + 1] = made[(d + 1) + 1]
    OBVIOUS
  <2>2. d <= n /\ pos[d + 1] = made[d + 1] /\ d + 1 \in 1..L
    BY <2>1
  <2>3. d # n
    <3>1. pos[d + 1] < Len(p) /\ Len(p) \in Nat
      BY <1>2, <2>2
    <3> QED
      BY <1>3, <2>2, <3>1
  <2>4. d + 1 \in 1..n
    BY <2>2, <2>3
  <2>5. pos[(d + 1) + 1] = AfterBlock(p, pos[d + 1])
    BY <1>2, <2>2
  <2>6. made[(d + 1) + 1] = AfterBlock(p, made[d + 1])
    BY <1>3, <2>4
  <2> QED
    BY <2>2, <2>4, <2>5, <2>6
<1>6. S = Nat
  <2>1. S \subseteq Nat
    OBVIOUS
  <2> HIDE DEF S
  <2> QED
    BY <1>4, <1>5, <2>1, SetInduction
<1>7. ASSUME NEW d \in Nat, d <= L PROVE d <= n /\ pos[d + 1] = made[d + 1]
  BY <1>6, <1>7
<1> HIDE DEF S
<1>7a. L <= n
  <2>1. L <= L
    OBVIOUS
  <2> QED
    BY <1>7, <2>1, Zenon
<1>8. ASSUME NEW j \in 1..(L + 1) PROVE pos[j] = made[j]
  <2>1. PICK d \in Nat : d = j - 1 /\ d <= L /\ d + 1 = j
    OBVIOUS
  <2> QED
    BY <1>7, <2>1
<1> QED
  BY <1>1, <1>7a, <1>8

\* Its blocks are signed, and it has a first one.
SignedBlocks(tv, rl, blocks, pos) ==
    /\ blocks # <<>> /\ blocks[1].signature # None
    /\ \A b \in 1..Len(blocks) :
          blocks[b].signature # None =>
             [sig |-> blocks[b].signature,
              data |-> ListData(tv, rl, SignatureAt(rl.payload, pos[b]))] \in LaSigned

LEMMA MadeBlocks ==
    ASSUME NEW p \in Seq(Nat), NEW blocks \in Seq(BlockType), NEW pos, Positions(p, blocks, pos),
           pos[Len(blocks) + 1] >= Len(p), NEW tv, NEW rl, rl.payload = p, ListMade(tv, rl)
    PROVE  SignedBlocks(tv, rl, blocks, pos)
<1>1. PICK L \in Nat : L = Len(blocks)
  OBVIOUS
<1>2. PICK n, made : n \in 1..Len(p) /\ BlocksMade(tv, rl, n, made)
  BY DEF ListMade
<1>3. n \in Nat /\ 1 \in 1..n /\ Len(p) \in Nat
  BY <1>2
<1>4. L <= n /\ \A j \in 1..(L + 1) : pos[j] = made[j]
  <2>1. PICK m \in Nat : m = n
    BY <1>3
  <2>2. Len(blocks) <= m /\ \A j \in 1..(Len(blocks) + 1) : pos[j] = made[j]
    <3>1. EndToEnd(p, m, made)
      BY <1>2, <2>1, Zenon DEF BlocksMade, EndToEnd
    <3> QED
      BY <3>1, MadePositions
  <2> QED
    BY <1>1, <2>1, <2>2
<1>5. L # 0
  <2>1. SUFFICES ASSUME L = 0 PROVE FALSE
    OBVIOUS
  <2>2. pos[1] >= Len(p)
    BY <1>1, <2>1
  <2>3. pos[1] = CountLen
    BY DEF Positions
  <2>4. made[1] = CountLen /\ made[1] < Len(p)
    BY <1>2, <1>3 DEF BlocksMade
  <2> QED
    BY <1>3, <2>2, <2>3, <2>4 DEF CountLen
<1>6. ASSUME NEW b \in 1..L
      PROVE  /\ blocks[b] = Block(p, pos[b])
             /\ IF blocks[b].signature = None THEN b > 1
                ELSE [sig |-> blocks[b].signature,
                      data |-> ListData(tv, rl, SignatureAt(p, pos[b]))] \in LaSigned
  <2>1. b \in 1..n /\ pos[b] = made[b]
    <3>1. b \in 1..(L + 1)
      BY <1>1
    <3> QED
      BY <1>1, <1>3, <1>4, <3>1
  <2>2. blocks[b] = Block(p, pos[b])
    BY <1>1 DEF Positions
  <2>3. IF Block(p, made[b]).signature = None THEN b > 1
        ELSE [sig |-> Block(p, made[b]).signature,
              data |-> ListData(tv, rl, SignatureAt(p, made[b]))] \in LaSigned
    BY <1>2, <2>1, Zenon DEF BlocksMade
  <2> QED
    BY <2>1, <2>2, <2>3, Zenon
<1>7. 1 \in 1..L /\ blocks # <<>>
  BY <1>1, <1>5
<1>8. blocks[1].signature # None
  <2>1. ~(1 > 1)
    OBVIOUS
  <2> QED
    BY <1>6, <1>7, <2>1
<1> QED
  BY <1>1, <1>6, <1>7, <1>8, Zenon DEF SignedBlocks

\* The parser reads an intact file to its end.
LEMMA IntactFile ==
    ASSUME IInv, master \in Masters, Padded(FileOf(master)), pc \in Parsed
    PROVE  /\ Len(starts) = Len(master)
           /\ \A n \in 1..Len(master) :
                 /\ Tag(starts[n]) = master[n].tag /\ Payload(starts[n]) = master[n].payload
                 /\ Record(starts[n]) = Bytes(master[n])
<1>1. TypeOK /\ Chain /\ ~Taken(cursor)
  BY DEF IInv, Chain, Parsed
<1>2. Len(starts) = Len(master)
  BY <1>1, IntactCursor
<1> QED
  BY <1>1, <1>2, IntactRecords

\* The one record of a type.
LEMMA IntactSingle ==
    ASSUME IInv, master \in Masters, Padded(FileOf(master)), pc \in Parsed,
           NEW i \in 1..Len(master), master[i].tag \in Plain \cup Calls,
           NEW n \in 1..Len(starts), Tag(starts[n]) = master[i].tag
    PROVE  n = i
<1>1. n \in 1..Len(master) /\ master[n].tag = master[i].tag
  BY IntactFile
<1>2. \A a, b \in 1..Len(master) :
         master[a].tag = master[b].tag => a = b \/ master[a].tag \notin Plain \cup Lists \cup {EndOfBlock}
  BY MasterMade
<1> QED
  BY <1>1, <1>2, Zenon DEF Calls

LEMMA PayloadType ==
    ASSUME NEW m \in Masters, NEW n \in 1..Len(m) PROVE m[n].payload \in Seq(Nat)
BY MasterMade, RecordsOf

LEMMA NoPayload ==
    ASSUME NEW m \in Masters, NEW tag
    PROVE  PayloadIn(m, tag) = None <=> ~ \E i \in 1..Len(m) : m[i].tag = tag
<1>1. m \in Seq(RecordType) /\ DOMAIN m = 1..Len(m)
  BY MasterMade
<1>2. CASE \E i \in 1..Len(m) : m[i].tag = tag
  <2>1. PICK i \in 1..Len(m) : i = CHOOSE j \in 1..Len(m) : m[j].tag = tag
    BY <1>2
  <2>2. PayloadIn(m, tag) = m[i].payload
    BY <1>1, <1>2, <2>1 DEF PayloadIn
  <2>3. m[i].payload \in Seq(Nat)
    BY <1>1, RecordsOf
  <2> QED
    BY <1>2, <2>2, <2>3, FilesAssumption
<1>3. CASE ~ \E i \in 1..Len(m) : m[i].tag = tag
  BY <1>1, <1>3 DEF PayloadIn
<1> QED
  BY <1>2, <1>3

\* What was parsed of it.
LEMMA IntactMkb ==
    ASSUME IInv, Kept, master \in Masters, Padded(FileOf(master)), pc \in Parsed
    PROVE  /\ ParsedAs(master)
           /\ mkb.type_and_version_raw = Bytes(master[1]) /\ mkb.type_and_version_raw # <<>>
           /\ mkb.end_of_block_signature = master[Len(master)].payload
           /\ mkb.end_of_block_signature # None
<1>1. /\ Len(starts) = Len(master)
      /\ \A n \in 1..Len(master) :
            /\ Tag(starts[n]) = master[n].tag /\ Payload(starts[n]) = master[n].payload
            /\ Record(starts[n]) = Bytes(master[n])
  BY IntactFile
<1>2. PICK M \in Nat \ {0} : /\ M = Len(master) /\ master \in Seq(RecordType)
                             /\ master[1].tag = TypeAndVersion /\ master[M].tag = EndOfBlock
                             /\ Len(master[M].payload) = SigLen
  BY MasterMade
<1>3. 1 \in 1..M /\ M \in 1..M
  OBVIOUS
<1>4. ParsedAs(master)
  <2>1. AsIn(master) /\ (Len(master) + 1)..Len(starts) = {}
    BY <1>1, <1>2 DEF AsIn
  <2>2. ASSUME NEW t \in Plain PROVE mkb.fields[t] = PayloadIn(master, t)
    BY <2>1, FieldIs DEF IInv
  <2> QED
    BY <2>2 DEF ParsedAs
<1>5. mkb.type_and_version_raw = Bytes(master[1])
  <2>1. Has(TypeAndVersion)
    BY <1>1, <1>2, <1>3 DEF Has
  <2>2. PICK n \in 1..Len(starts) :
           Tag(starts[n]) = TypeAndVersion /\ mkb.type_and_version_raw = Record(starts[n])
    BY <2>1 DEF Kept, ReadAt, RawPlaces, IsLast
  <2>3. n = 1
    <3>1. master[1].tag \in Plain \cup Calls
      BY <1>2, EndIsNoField
    <3> QED
      BY <1>2, <1>3, <2>2, <3>1, IntactSingle
  <2> QED
    BY <1>1, <1>2, <1>3, <2>2, <2>3
<1>6. mkb.end_of_block_signature = master[M].payload
  <2>1. Has(EndOfBlock)
    BY <1>1, <1>2, <1>3 DEF Has
  <2>2. PICK n \in 1..Len(starts) :
           /\ Tag(starts[n]) = EndOfBlock
           /\ mkb.end_of_block_signature = SignatureIn(Payload(starts[n]))
    BY <2>1 DEF Kept, ReadAt, EndPlaces, IsLast
  <2>3. n = M
    <3>1. master[M].tag \in Plain \cup Calls
      BY <1>2 DEF Calls
    <3> QED
      BY <1>2, <1>3, <2>2, <3>1, IntactSingle
  <2> QED
    BY <1>1, <1>2, <1>3, <2>2, <2>3 DEF SignatureIn
<1>7. mkb.end_of_block_signature # None
  <2>1. master[M].payload \in Seq(Nat)
    BY <1>2, <1>3, RecordsOf
  <2> QED
    BY <1>6, <2>1, FilesAssumption
<1>8. Bytes(master[1]) # <<>>
  <2>1. PICK b \in Seq(Nat), q \in Nat : b = Bytes(master[1]) /\ Len(b) = 2 + q
    BY <1>2, <1>3, RecordsOf DEF HeaderLen
  <2>2. b # <<>>
    BY <2>1
  <2> QED
    BY <2>1, <2>2
<1> QED
  BY <1>2, <1>4, <1>5, <1>6, <1>7, <1>8

\* The blocks of a list of it, and that a record of it is signed.
LEMMA IntactList ==
    ASSUME IInv, master \in Masters, Padded(FileOf(master)), pc \in Parsed,
           NEW i \in 1..Len(master), NEW tag \in Lists, master[i].tag = tag
    PROVE  LET blocks == mkb.revocation_blocks[tag]
           IN  /\ blocks \in Seq(BlockType)
               /\ \E pos : /\ Positions(master[i].payload, blocks, pos)
                            /\ SignedBlocks(master[1], master[i], blocks, pos)
<1>1. PICK blocks \in Seq(BlockType) : blocks = mkb.revocation_blocks[tag]
  BY DEF IInv, TypeOK, MkbType
<1>2. /\ i \in 1..Len(starts) /\ Tag(starts[i]) = tag
      /\ \A n \in 1..Len(starts) :
            Tag(starts[n]) = tag => n = i /\ Payload(starts[n]) = master[i].payload
  BY IntactFile, IntactSingle DEF Calls
<1>3. PICK p \in Seq(Nat) : p = master[i].payload /\ ListOf(p, blocks)
  <2>1. master[i].payload \in Seq(Nat)
    BY PayloadType
  <2>2. PICK n \in 1..Len(starts) : Tag(starts[n]) = tag /\ ListOf(Payload(starts[n]), blocks)
    BY <1>1, <1>2 DEF IInv, Contents, ListRead, IsLast, Has
  <2> QED
    BY <1>2, <2>1, <2>2
<1>4. PICK pos : Positions(p, blocks, pos) /\ pos[Len(blocks) + 1] >= Len(p)
  BY <1>3 DEF ListOf, ReadUpto
<1>5. ListMade(master[1], master[i])
  BY MasterMade
<1>6. SignedBlocks(master[1], master[i], blocks, pos)
  BY <1>3, <1>4, <1>5, MadeBlocks
<1> QED
  BY <1>1, <1>3, <1>4, <1>6

LEMMA IntactSigned ==
    ASSUME IInv, Kept, master \in Masters, Padded(FileOf(master)), pc \in Parsed,
           NEW i \in 1..Len(master), NEW tag \in Calls, master[i].tag = tag
    PROVE  Signed(tag)
<1>1. CASE tag = EndOfBlock
  BY <1>1, IntactMkb DEF Signed
<1>2. CASE tag \in Lists
  <2>1. PICK blocks \in Seq(BlockType) : blocks = mkb.revocation_blocks[tag]
    BY <1>2, IntactList
  <2>2. PICK pos : SignedBlocks(master[1], master[i], blocks, pos)
    BY <1>2, <2>1, IntactList
  <2>3. blocks[1].signature # None /\ 1 \in DOMAIN blocks
    BY <2>2 DEF SignedBlocks
  <2> QED
    BY <1>2, <2>1, <2>3, EndIsNoField DEF Signed
<1> QED
  BY <1>1, <1>2 DEF Calls

\* A list that was made has a block, which begins behind the first cells.
LEMMA ListHasCount ==
    ASSUME NEW tv, NEW rl, rl.payload \in Seq(Nat), ListMade(tv, rl)
    PROVE  ~(Len(rl.payload) < CountLen)
<1>1. PICK p \in Seq(Nat) : p = rl.payload
  OBVIOUS
<1>2. PICK n, made : n \in 1..Len(p) /\ BlocksMade(tv, rl, n, made)
  BY <1>1 DEF ListMade
<1>3. 1 \in 1..n
  BY <1>2
<1>4. made[1] = CountLen /\ made[1] < Len(p)
  BY <1>1, <1>2, <1>3 DEF BlocksMade
<1> QED
  BY <1>1, <1>4 DEF CountLen

\* As long as there is something left of the payload there is a block that fits.
LEMMA MadeFits ==
    ASSUME NEW p \in Seq(Nat), NEW blocks \in Seq(BlockType), NEW pos, Positions(p, blocks, pos),
           NEW c, pos[Len(blocks) + 1] = c, c < Len(p),
           NEW tv, NEW rl, rl.payload = p, ListMade(tv, rl)
    PROVE  BlockFits(p, c)
<1>1. PICK L \in Nat : L = Len(blocks)
  OBVIOUS
<1>2. PICK n, made : n \in 1..Len(p) /\ BlocksMade(tv, rl, n, made)
  BY DEF ListMade
<1>3. PICK m \in Nat : m = n
  BY <1>2
<1>4. EndToEnd(p, m, made)
  BY <1>2, <1>3 DEF BlocksMade, EndToEnd
<1>5. L <= m /\ \A j \in 1..(L + 1) : pos[j] = made[j]
  BY <1>1, <1>4, MadePositions
<1>6. made[L + 1] = c
  <2>1. L + 1 \in 1..(L + 1)
    OBVIOUS
  <2> QED
    BY <1>1, <1>5, <2>1
<1>7. L # m
  <2>1. made[m + 1] = Len(p) /\ Len(p) \in Nat
    BY <1>4 DEF EndToEnd
  <2> QED
    BY <1>6, <2>1
<1>8. L + 1 \in 1..m
  BY <1>5, <1>7
<1>9. BlockFits(p, made[L + 1])
  BY <1>2, <1>3, <1>8 DEF BlocksMade
<1> QED
  BY <1>6, <1>9
-----------------------------------------------------------------------------
(* No step refuses it *)

Intact == pc # "delivery" /\ Padded(FileOf(master))

\* What a call may answer.
Accepts(tag, says) ==
    /\ tag = EndOfBlock => says = "ok"
    /\ tag \in Lists => says = IF PayloadIn(master, tag) = None THEN "missing" ELSE "ok"

Accepted ==
    /\ master \in Masters
    /\ Intact => pc # "failed" /\ Accepts(answer.call, answer.says)

\* A call of a type of record the MKB has, or has not.
LEMMA AcceptsFound ==
    ASSUME master \in Masters, NEW i \in 1..Len(master), NEW tag \in Calls, master[i].tag = tag
    PROVE  Accepts(tag, "ok")
BY NoPayload DEF Accepts

LEMMA AcceptsMissing ==
    ASSUME master \in Masters, NEW tag \in Calls, ~ \E i \in 1..Len(master) : master[i].tag = tag
    PROVE  Accepts(tag, "missing")
<1>1. tag # EndOfBlock
  <2>1. PICK M \in Nat \ {0} : M = Len(master) /\ master[M].tag = EndOfBlock
    BY MasterMade
  <2>2. M \in 1..M
    OBVIOUS
  <2> QED
    BY <2>1, <2>2
<1> QED
  BY <1>1, NoPayload DEF Accepts

\* The parser refuses no record of it.
LEMMA IntactFinish ==
    ASSUME IInv, Kept, master \in Masters, Padded(FileOf(master)), FinishParse
    PROVE  pc' # "failed" /\ UNCHANGED answer
<1>1. TypeOK /\ Chain /\ ~Taken(cursor)
  BY NothingAtTheEnd DEF IInv, FinishParse
<1>2. Len(starts) = Len(master)
  BY <1>1, IntactCursor
<1>3. Len(master) \in Nat \ {0} /\ master[1].tag = TypeAndVersion
  BY MasterMade
<1>4. 1 \in 1..Len(starts)
  BY <1>2, <1>3
<1>5. starts # <<>> /\ Tag(starts[1]) = TypeAndVersion
  BY <1>1, <1>3, <1>4, IntactRecords
<1>6. saw_type_record_first
  BY <1>5 DEF Kept
<1> QED
  BY <1>6 DEF FinishParse, verifying

LEMMA NotRefused ==
    ASSUME IInv, master \in Masters, Padded(FileOf(master)) PROVE ~RefuseRecord
<1> SUFFICES ASSUME ~EndOfRecords, ~Whole PROVE FALSE
  BY DEF RefuseRecord
<1>1. TypeOK /\ Chain
  BY DEF IInv
<1>2. Taken(cursor)
  BY <1>1, IntactCursor
<1>3. bytes \in Seq(Nat) /\ cursor \in Nat /\ Length(cursor) \in Nat
  BY <1>1, <1>2, TakenRecord DEF TypeOK
<1> QED
  BY <1>2, <1>3 DEF Whole, Taken, Remaining, HeaderLen

\* A record of the MKB at the cursor.
LEMMA IntactAtRecord ==
    ASSUME IInv, master \in Masters, Padded(FileOf(master)), Taken(cursor)
    PROVE  \E n \in 1..Len(master) :
              Tag(cursor) = master[n].tag /\ Payload(cursor) = master[n].payload
<1>1. TypeOK /\ Chain
  BY DEF IInv
<1> QED
  BY <1>1, IntactCursor

LEMMA IntactPlain ==
    ASSUME IInv, master \in Masters, Padded(FileOf(master)), ReadPlain
    PROVE  pc' # "failed" /\ UNCHANGED answer
<1>1. pc = "record" /\ Taken(cursor) /\ Tag(cursor) \in Plain
  BY AtTheCursor DEF ReadPlain, AtRecord, IInv
<1>2. PICK n \in 1..Len(master) :
         Tag(cursor) = master[n].tag /\ Payload(cursor) = master[n].payload
  BY <1>1, IntactAtRecord
<1>3. PICK t \in Plain : t = Tag(cursor) /\ Len(Payload(cursor)) >= MinLen[t]
  <2>1. master[n].tag \in Plain => Len(master[n].payload) >= MinLen[master[n].tag]
    BY MasterMade
  <2> QED
    BY <1>1, <1>2, <2>1
<1>4. ~(Len(Payload(cursor)) < MinLen[t])
  <2>1. MinLen[t] \in Nat
    BY SizesAssumption
  <2>2. Payload(cursor) \in Seq(Nat)
    BY <1>2, PayloadType
  <2> QED
    BY <1>3, <2>1, <2>2
<1> QED
  BY <1>1, <1>3, <1>4 DEF ReadPlain, verifying

LEMMA IntactBegin ==
    ASSUME IInv, master \in Masters, Padded(FileOf(master)), BeginList
    PROVE  pc' # "failed" /\ UNCHANGED answer
<1>1. Taken(cursor) /\ Tag(cursor) \in Lists
  BY AtTheCursor DEF BeginList, AtRecord, IInv
<1>2. PICK n \in 1..Len(master) :
         Tag(cursor) = master[n].tag /\ Payload(cursor) = master[n].payload
  BY <1>1, IntactAtRecord
<1>3. ListMade(master[1], master[n])
  BY <1>1, <1>2, MasterMade
<1>4. ~(Len(Payload(cursor)) < CountLen)
  <2>1. master[n].payload \in Seq(Nat)
    BY PayloadType
  <2> QED
    BY <1>2, <1>3, <2>1, ListHasCount
<1> QED
  BY <1>4 DEF BeginList, verifying

\* Nor one of its blocks.
LEMMA IntactBlock ==
    ASSUME IInv, master \in Masters, Padded(FileOf(master)), ReadBlock
    PROVE  pc' # "failed" /\ UNCHANGED answer
<1>1. pc = "list" /\ list.at < Len(Payload(cursor)) /\ Taken(cursor) /\ Tag(cursor) \in Lists
  BY DEF ReadBlock, IInv, Chain
<1>2. PICK i \in 1..Len(master) :
         Tag(cursor) = master[i].tag /\ Payload(cursor) = master[i].payload
  BY <1>1, IntactAtRecord
<1>3. PICK p \in Seq(Nat) : p = Payload(cursor) /\ p = master[i].payload
  BY <1>2, MasterMade, RecordsOf
<1>4. PICK blocks \in Seq(BlockType), c \in Nat :
         blocks = list.blocks /\ c = list.at /\ ReadUpto(p, blocks, c) /\ c < Len(p)
  BY <1>1, <1>3 DEF IInv, TypeOK, Contents
<1>5. PICK pos : Positions(p, blocks, pos) /\ pos[Len(blocks) + 1] = c
  BY <1>4 DEF ReadUpto
<1>6. ListMade(master[1], master[i])
  BY <1>1, <1>2, MasterMade
<1>7. BlockFits(p, c)
  BY <1>3, <1>4, <1>5, <1>6, MadeFits
<1> QED
  BY <1>1, <1>3, <1>4, <1>7 DEF ReadBlock, verifying

LEMMA IntactParse ==
    ASSUME IInv, Kept, master \in Masters, Padded(FileOf(master)), Parse
    PROVE  pc' # "failed" /\ UNCHANGED answer
<1>1. CASE FinishParse
  BY <1>1, IntactFinish
<1>2. CASE RefuseRecord
  BY <1>2, NotRefused
<1>3. CASE ReadPlain
  BY <1>3, IntactPlain
<1>4. CASE BeginList
  BY <1>4, IntactBegin
<1>5. CASE ReadBlock
  BY <1>5, IntactBlock
<1>6. CASE ReadEnd \/ ReadUnknown \/ EndList
  BY <1>6 DEF ReadEnd, ReadUnknown, EndList, AtRecord, verifying
<1> QED
  BY <1>1, <1>2, <1>3, <1>4, <1>5, <1>6 DEF Parse

\* Nor do the calls.
LEMMA IntactVerify ==
    ASSUME IInv, Kept, master \in Masters, Padded(FileOf(master)),
           Accepts(answer.call, answer.says), NEW tag \in Calls, Verify(tag)
    PROVE  pc' # "failed" /\ Accepts(answer'.call, answer'.says)
<1>1. pc \in Parsed
  BY DEF Verify, Parsed
<1>2. CASE \E i \in 1..Len(master) : master[i].tag = tag
  <2>1. Signed(tag)
    BY <1>1, <1>2, IntactSigned
  <2>2. /\ tag = EndOfBlock => mkb.end_of_block_signature # None
        /\ tag \in Lists => mkb.revocation_blocks[tag] # <<>>
    BY <2>1, EndIsNoField DEF Signed
  <2>3. mkb.type_and_version_raw # <<>>
    BY <1>1, IntactMkb
  <2>4. pc' = "scan" /\ UNCHANGED answer
    BY <2>2, <2>3 DEF Verify
  <2> QED
    BY <2>4
<1>3. CASE ~ \E i \in 1..Len(master) : master[i].tag = tag
  <2>1. pc' # "failed" /\ (UNCHANGED answer \/ answer' = [call |-> tag, says |-> "missing"])
    BY DEF Verify, Return
  <2>2. Accepts(tag, "missing")
    BY <1>3, AcceptsMissing
  <2> QED
    BY <2>1, <2>2
<1> QED
  BY <1>2, <1>3

LEMMA IntactScan ==
    ASSUME IInv, Kept, master \in Masters, Padded(FileOf(master)),
           Accepts(answer.call, answer.says), Scan
    PROVE  pc' # "failed" /\ Accepts(answer'.call, answer'.says)
<1>1. pc = "scan" /\ pc \in Parsed /\ call \in Calls
  BY DEF Scan, Parsed, IInv, Walking
<1>2. CASE AtFound
  BY <1>1, <1>2 DEF Scan
<1>3. CASE ~AtFound
  <2>1. ~Taken(found)
    BY <1>3 DEF AtFound, Taken
  <2>2. \A j \in 1..((Len(starts) + 1) - 1) : Tag(starts[j]) # call
    BY <1>1, <2>1, AtPlace
  <2>3. (Len(starts) + 1) - 1 = Len(starts)
    BY DEF IInv, TypeOK
  <2>4. ~ \E i \in 1..Len(master) : master[i].tag = call
    BY <1>1, <2>2, <2>3, IntactFile
  <2>5. Accepts(call, "missing")
    BY <1>1, <2>4, AcceptsMissing
  <2>6. pc' = "parsed" /\ answer' = [call |-> call, says |-> "missing"]
    BY <1>3 DEF Scan, Return
  <2> QED
    BY <2>5, <2>6
<1> QED
  BY <1>2, <1>3

\* The file up to its End record is the one that was signed.
LEMMA IntactPrefix ==
    ASSUME IInv, master \in Masters, Padded(FileOf(master)), pc \in Parsed,
           NEW n, n = Len(master)
    PROVE  n \in 1..Len(starts) /\ SubSeq(bytes, 1, starts[n]) = FileOf(Unsigned(master))
<1>1. TypeOK /\ Chain /\ bytes \in Seq(Nat) /\ starts \in Seq(Nat)
  BY DEF IInv, TypeOK
<1>2. master \in Seq(RecordType) /\ n \in Nat \ {0} /\ master # <<>>
  BY MasterMade, EmptySeq
<1>3. n = Len(starts) /\ n \in 1..n
  BY <1>2, IntactFile
<1>4. PICK upto : Files(master, upto)
  BY <1>2, FileUpto
<1>5. Begins(upto[n]) /\ starts[n] = Len(upto[n - 1])
  BY <1>1, <1>3, <1>4, IntactPlaces
<1>6. PICK s \in Seq(Nat) : s = upto[n - 1] /\ s = FileOf(Unsigned(master)) /\ Begins(s)
  <2>1. n - 1 \in 0..Len(master) /\ n \in 0..Len(master) /\ n - 1 <= n
    BY <1>2
  <2>2. upto[n - 1] \in Seq(Nat)
    BY <1>4, <2>1 DEF Files
  <2>3. FileOf(Unsigned(master)) = upto[n - 1]
    BY <1>2, <1>4, UnsignedFile
  <2>4. PICK i \in 0..Len(master), j \in 0..Len(master) : i = n - 1 /\ j = n /\ i <= j
    BY <2>1
  <2>5. Begins(upto[i])
    BY <1>1, <1>2, <1>4, <1>5, <2>4, BeginsWithFewer
  <2> QED
    BY <2>2, <2>3, <2>4, <2>5
<1>7. PICK c \in Nat : c = Len(s) /\ c <= Len(bytes) /\ \A i \in 1..c : bytes[i] = s[i]
  BY <1>6 DEF Begins
<1>8. SubSeq(bytes, 1, c) \in Seq(Nat) /\ Len(SubSeq(bytes, 1, c)) = c
      /\ \A i \in 1..c : SubSeq(bytes, 1, c)[i] = bytes[i]
  BY <1>1, <1>7, SubSeqProperties
<1>9. SubSeq(bytes, 1, c) = s
  <2>1. PICK t \in Seq(Nat) : t = SubSeq(bytes, 1, c)
    BY <1>8
  <2>2. Len(t) = c /\ \A i \in 1..c : t[i] = bytes[i]
    BY <1>8, <2>1
  <2>3. t = s
    BY <1>7, <2>2, Same
  <2> QED
    BY <2>1, <2>3
<1> QED
  BY <1>3, <1>5, <1>6, <1>7, <1>9

LEMMA IntactEnd ==
    ASSUME IInv, Kept, master \in Masters, Padded(FileOf(master)), CheckEnd
    PROVE  pc' # "failed" /\ Accepts(answer'.call, answer'.says)
<1>1. /\ pc = "scan" /\ pc \in Parsed /\ AtFound /\ Tag(found) = EndOfBlock /\ call = EndOfBlock
      /\ pc' = "parsed"
      /\ answer' = [call |-> EndOfBlock,
                    says |-> IF Verifies(mkb.end_of_block_signature, SignedPrefix)
                               THEN "ok" ELSE "invalid"]
  BY DEF CheckEnd, Return, Parsed
<1>2. Taken(found)
  BY <1>1 DEF AtFound, Taken
<1>3. PICK n \in 1..Len(starts) : found = starts[n] /\ Tag(starts[n]) = EndOfBlock
  BY <1>1, <1>2, AtPlace
<1>4. PICK M \in Nat \ {0} : M = Len(master) /\ master[M].tag = EndOfBlock
  BY MasterMade
<1>5. n = M
  <2>1. M \in 1..Len(master) /\ master[M].tag \in Plain \cup Calls
    BY <1>4 DEF Calls
  <2> QED
    BY <1>1, <1>3, <1>4, <2>1, IntactSingle
<1>6. SignedPrefix = FileOf(Unsigned(master))
  BY <1>1, <1>3, <1>4, <1>5, IntactPrefix DEF SignedPrefix
<1>7. mkb.end_of_block_signature = master[M].payload
  BY <1>1, <1>4, IntactMkb
<1>8. [sig |-> master[M].payload, data |-> FileOf(Unsigned(master))] \in LaSigned
  BY <1>4, MasterMade
<1>9. answer' = [call |-> EndOfBlock, says |-> "ok"]
  BY <1>1, <1>6, <1>7, <1>8 DEF Verifies
<1> QED
  BY <1>1, <1>9, EndIsNoField DEF Accepts

\* The list that is walked.
LEMMA IntactFound ==
    ASSUME IInv, Kept, master \in Masters, Padded(FileOf(master)), pc \in Parsed, call \in Lists,
           NEW n \in 1..Len(starts), found = starts[n], Tag(found) = call
    PROVE  /\ n \in 1..Len(master) /\ master[n].tag = call
           /\ Payload(found) = master[n].payload /\ Payload(found) \in Seq(Nat)
           /\ Record(found) = Bytes(master[n]) /\ ListMade(master[1], master[n])
           /\ Signed(call) /\ Accepts(call, "ok")
<1>1. /\ n \in 1..Len(master) /\ master[n].tag = call
      /\ Payload(found) = master[n].payload /\ Record(found) = Bytes(master[n])
  BY IntactFile
<1>2. call \in Calls
  BY DEF Calls
<1>3. Payload(found) \in Seq(Nat)
  BY <1>1, PayloadType
<1>4. ListMade(master[1], master[n])
  BY <1>1, MasterMade
<1>5. Signed(call)
  BY <1>1, <1>2, IntactSigned
<1>6. Accepts(call, "ok")
  BY <1>1, <1>2, AcceptsFound
<1> QED
  BY <1>1, <1>3, <1>4, <1>5, <1>6

LEMMA IntactBeginBlocks ==
    ASSUME IInv, Kept, master \in Masters, Padded(FileOf(master)), BeginBlocks
    PROVE  pc' # "failed" /\ UNCHANGED answer
<1>1. pc = "scan" /\ pc \in Parsed /\ AtFound /\ Tag(found) = call /\ call \in Lists
  BY DEF BeginBlocks, Parsed
<1>2. Taken(found)
  BY <1>1 DEF AtFound, Taken
<1>3. PICK n \in 1..Len(starts) : found = starts[n]
  BY <1>1, <1>2, AtPlace
<1>4. /\ Payload(found) = master[n].payload /\ Payload(found) \in Seq(Nat)
      /\ ListMade(master[1], master[n])
  BY <1>1, <1>3, IntactFound
<1>5. ~(Len(Payload(found)) < CountLen)
  BY <1>4, ListHasCount
<1> QED
  BY <1>5 DEF BeginBlocks

LEMMA IntactNotRefused ==
    ASSUME IInv, Kept, master \in Masters, Padded(FileOf(master)) PROVE ~RefuseBlock
<1> SUFFICES ASSUME RefuseBlock PROVE FALSE
  OBVIOUS
<1>1. pc = "verify" /\ pc \in Parsed /\ k <= Len(Blocks) /\ (BlockIsBeyond \/ BlockRefused)
  BY DEF RefuseBlock, Parsed
<1>2. PICK n \in 1..Len(starts) : found = starts[n] /\ Tag(found) = call /\ call \in Lists
  BY <1>1 DEF IInv, Walking, IsFirst
<1>3. PICK p \in Seq(Nat) :
         /\ n \in 1..Len(master) /\ master[n].tag = call
         /\ p = Payload(found) /\ p = master[n].payload /\ Record(found) = Bytes(master[n])
  BY <1>1, <1>2, IntactFound
<1>0. PICK blocks \in Seq(BlockType) : blocks = Blocks
  BY <1>1, <1>2, <1>3, IntactList DEF Blocks
<1>4. PICK pos : /\ blocks = Blocks /\ Positions(p, blocks, pos)
                 /\ SignedBlocks(master[1], master[n], blocks, pos)
  BY <1>0, <1>1, <1>2, <1>3, IntactList DEF Blocks
<1>5. k \in 1..Len(blocks) /\ at = pos[k]
  <2>1. k \in 1..Len(blocks)
    BY <1>1, <1>4, AtBlock
  <2>2. pos[k] = Behind(blocks)[k - 1]
    BY <1>4, <2>1, PositionsAre
  <2>3. at = Behind(blocks)[k - 1]
    BY <1>1, <1>4 DEF IInv, Walking, VerifyAt
  <2> QED
    BY <2>1, <2>2, <2>3
<1>6. EndOfEntries = SignatureAt(p, at) /\ ~BlockIsBeyond
  <2>1. PICK c \in Nat : c = at /\ BlockFits(p, c) /\ blocks[k] = Block(p, c)
    <3>1. at \in Nat
      BY DEF IInv, TypeOK
    <3> QED
      BY <1>4, <1>5, <3>1 DEF Positions
  <2>2. /\ blocks[k].entries_in_block = Count(p, c) /\ SignatureAt(p, c) \in Nat
        /\ SignatureAt(p, c) <= Len(p)
    BY <2>1, FittingBlock
  <2>3. EndOfEntries = SignatureAt(p, c)
    BY <1>4, <2>1, <2>2 DEF EndOfEntries, SignatureAt
  <2>4. /\ EndOfEntries = EntriesEnd(blocks, k)
        /\ BlockIsBeyond <=> EntriesEnd(blocks, k) > Len(p)
    <3>1. k <= Len(Blocks)
      BY <1>1
    <3> QED
      BY <1>1, <1>3, <1>4, <3>1, AtBlock
  <2>5. PICK e \in Nat, l \in Nat : e = SignatureAt(p, c) /\ l = Len(p) /\ e <= l /\ ~(e > l)
    BY <2>2
  <2> QED
    BY <2>1, <2>3, <2>4, <2>5, Zenon
<1>7. blocks = Blocks /\ p = Payload(found)
  BY <1>3, <1>4
<1>8. blocks[k].signature # None /\ ~Verifies(blocks[k].signature, SignedByBlock)
  BY <1>1, <1>6, <1>7 DEF BlockRefused
<1>9. [sig |-> blocks[k].signature,
       data |-> ListData(master[1], master[n], SignatureAt(p, at))] \in LaSigned
  BY <1>3, <1>4, <1>5, <1>8 DEF SignedBlocks
<1>10. mkb.type_and_version_raw = Bytes(master[1])
  BY <1>1, IntactMkb
<1>11. SignedByBlock = ListData(master[1], master[n], SignatureAt(p, at))
  BY <1>3, <1>6, <1>10 DEF SignedByBlock, ListData
<1> QED
  BY <1>8, <1>9, <1>11 DEF Verifies

LEMMA IntactConclude ==
    ASSUME IInv, IInv', Kept, master \in Masters, Padded(FileOf(master)),
           Accepts(answer.call, answer.says), CheckBlock \/ EndBlocks
    PROVE  pc' # "failed" /\ Accepts(answer'.call, answer'.says)
<1>1. /\ pc = "verify" /\ pc \in Parsed /\ pc' # "failed" /\ UNCHANGED <<bytes, parsing, call>>
      /\ \/ UNCHANGED answer
         \/ \E any : answer' = [call |-> call, says |-> IF any THEN "ok" ELSE "missing"]
  BY DEF CheckBlock, EndBlocks, Conclude, Return, Parsed
<1>2. CASE UNCHANGED answer
  BY <1>1, <1>2
<1>3. CASE ~UNCHANGED answer
  <2>1. PICK says \in {"ok", "missing"} : answer' = [call |-> call, says |-> says]
    BY <1>1, <1>3
  <2>2. PICK n \in 1..Len(starts) : found = starts[n] /\ Tag(found) = call /\ call \in Lists
    BY <1>1 DEF IInv, Walking, IsFirst
  <2>3. Signed(call) /\ Accepts(call, "ok")
    BY <1>1, <2>2, IntactFound
  <2>4. answer'.call = call /\ answer'.says = says /\ call # None
    BY <2>1, <2>2, FilesAssumption
  <2>5. UNCHANGED <<bytes, starts, mkb>>
    BY <1>1 DEF parsing
  <2>6. WalksAgree'
    BY DEF IInv, Answered
  <2>7. says = "missing" => ~Signed(call)
    BY <2>3, <2>4, <2>5, <2>6 DEF WalksAgree, Signed
  <2> QED
    BY <1>1, <2>3, <2>4, <2>7
<1> QED
  BY <1>2, <1>3

LEMMA IntactWalk ==
    ASSUME IInv, IInv', Kept, master \in Masters, Padded(FileOf(master)),
           Accepts(answer.call, answer.says), Walk
    PROVE  pc' # "failed" /\ Accepts(answer'.call, answer'.says)
<1>1. CASE Scan
  BY <1>1, IntactScan
<1>2. CASE CheckEnd
  BY <1>2, IntactEnd
<1>3. CASE BeginBlocks
  BY <1>3, IntactBeginBlocks
<1>4. CASE RefuseBlock
  BY <1>4, IntactNotRefused
<1>5. CASE CheckBlock \/ EndBlocks
  BY <1>5, IntactConclude
<1> QED
  BY <1>1, <1>2, <1>3, <1>4, <1>5 DEF Walk

\* Only delivery changes the file, and nothing the MKB it was made from.
LEMMA SameFile ==
    ASSUME [Next]_vars
    PROVE  UNCHANGED master /\ (Delivery \/ UNCHANGED bytes)
<1>1. CASE Delivery
  BY <1>1 DEF Delivery, Cut, Follow, Damage, Deliver
<1>2. CASE Parse
  BY <1>2 DEF Parse, FinishParse, RefuseRecord, ReadPlain, ReadEnd, ReadUnknown, BeginList,
              ReadBlock, EndList
<1>3. CASE \E tag \in Calls : Verify(tag)
  BY <1>3 DEF Verify
<1>4. CASE Walk
  BY <1>4 DEF Walk, Scan, CheckEnd, BeginBlocks, RefuseBlock, CheckBlock, EndBlocks
<1>5. CASE UNCHANGED vars
  BY <1>5 DEF vars
<1> QED
  BY <1>1, <1>2, <1>3, <1>4, <1>5 DEF Next, Calls

LEMMA NotInDelivery == (Parse \/ Walk \/ \E tag \in Calls : Verify(tag)) => pc # "delivery"
BY DEF Parse, FinishParse, RefuseRecord, ReadPlain, ReadEnd, ReadUnknown, BeginList, ReadBlock,
       EndList, AtRecord, Walk, Scan, CheckEnd, BeginBlocks, RefuseBlock, CheckBlock, EndBlocks, Verify

LEMMA StepAccepted == VInv /\ VInv' /\ Accepted /\ [Next]_vars => Accepted'
<1> SUFFICES ASSUME VInv, VInv', Accepted, [Next]_vars PROVE Accepted'
  OBVIOUS
<1>1. IInv /\ IInv' /\ Kept /\ master \in Masters
  BY DEF VInv, Accepted
<1>2. UNCHANGED master /\ (Delivery \/ UNCHANGED bytes)
  BY SameFile
<1> USE DEF Intact
<1>3. ASSUME pc # "delivery", UNCHANGED bytes, Intact'
      PROVE  /\ Intact /\ pc # "failed" /\ Padded(FileOf(master))
             /\ Accepts(answer.call, answer.says)
  <2>1. FileOf(master)' = FileOf(master)
    BY <1>2 DEF FileOf, Bytes
  <2>2. Padded(FileOf(master))
    BY <1>2, <1>3, <2>1 DEF Padded
  <2> QED
    BY <1>3, <2>2 DEF Accepted
<1>4. ASSUME Intact' => pc' # "failed" /\ Accepts(answer'.call, answer'.says)
      PROVE  Accepted'
  BY <1>1, <1>2, <1>4 DEF Accepted, Accepts, PayloadIn
<1>5. CASE Delivery
  <2>1. pc = "delivery" /\ pc' # "failed" /\ UNCHANGED answer
    BY <1>5 DEF Delivery, Cut, Follow, Damage, Deliver, verifying
  <2>2. answer.call = None
    BY <1>1, <2>1 DEF IInv, Answered
  <2>3. Accepts(answer'.call, answer'.says)
    BY <2>1, <2>2, FilesAssumption DEF Accepts
  <2> QED
    BY <1>4, <2>1, <2>3
<1>6. CASE ~Delivery /\ Parse
  BY <1>1, <1>2, <1>3, <1>4, <1>6, IntactParse, NotInDelivery
<1>7. ASSUME NEW tag \in Calls, Verify(tag), ~Delivery PROVE Accepted'
  BY <1>1, <1>2, <1>3, <1>4, <1>7, IntactVerify, NotInDelivery
<1>8. CASE ~Delivery /\ Walk
  BY <1>1, <1>2, <1>3, <1>4, <1>8, IntactWalk, NotInDelivery
<1>9. CASE UNCHANGED vars
  <2>1. UNCHANGED <<master, bytes, pc, answer>>
    BY <1>9 DEF vars, verifying
  <2>2. Intact' => pc # "delivery"
    BY <2>1
  <2> QED
    BY <1>3, <1>4, <2>1, <2>2
<1> QED
  BY <1>5, <1>6, <1>7, <1>8, <1>9 DEF Next, Calls

LEMMA IntactFileIsAccepted == VInv /\ Accepted => IntactIsAccepted
<1>1. ASSUME VInv, Accepted, Intact
      PROVE  /\ pc # "failed" /\ Accepts(answer.call, answer.says)
             /\ pc \in Parsed => ParsedAs(master)
  BY <1>1, IntactMkb DEF VInv, Accepted, Intact
<1> QED
  BY <1>1, Zenon DEF IntactIsAccepted, Intact, Accepts, Parsed

\* A file that reaches the reader as the AACS LA made it, whatever its padding,
\* is parsed to the end by Mkb::parse, to the payloads it was made of, and no
\* verify_* call refuses it.
THEOREM IntactFilesPass == Spec => []IntactIsAccepted
<1>1. Init => Accepted
  BY FilesAssumption DEF Init, Accepted, Intact
<1>2. VInv /\ VInv' /\ Accepted /\ [Next]_vars => Accepted'
  BY StepAccepted
<1>3. Spec => []Accepted
  BY <1>1, <1>2, VInvariant, PTL DEF Spec
<1> QED
  BY <1>3, VInvariant, IntactFileIsAccepted, PTL
=============================================================================
