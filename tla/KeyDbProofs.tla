---------------------------- MODULE KeyDbProofs ----------------------------
(***************************************************************************)
(* Proofs about module KeyDb, for every set of discs, values and leaders   *)
(* and a file of any length.                                               *)
(*                                                                         *)
(* The properties read the file as a whole: the scope of a line, the rows  *)
(* of a disc, the last of them.  The lemmas say what one more line does to *)
(* each of those; the invariant says that what the scanner keeps is what   *)
(* they come to for the lines read so far.                                 *)
(***************************************************************************)
EXTENDS KeyDb, SequenceTheorems, FiniteSetTheorems, TLAPS

TypeOK ==
    /\ lines \in Seq(Lines)
    /\ current_discid \in Discs \cup {None}
    /\ by_disc_id \in [Discs -> Values \cup {None}]
    /\ disc_records \in [Discs -> DiscRecords \cup {None}]
    /\ skipped \in Seq(Nat)

\* What the scanner remembers of the scope is the scope.
ScopeInv == current_discid = ScopeAt(Len(lines))

\* The VUK kept for a disc is that of its last legacy line.
LegacyInv == \A d \in Discs : by_disc_id[d] = LastValue(LegacyFor(d))

IInv == TypeOK /\ ScopeInv /\ LegacyInv /\ RowsStayWithTheirDisc /\ ReportIsExact
-----------------------------------------------------------------------------
(* Lemmas *)

\* A non-empty set of line numbers has a last one.  (The least n with S within
\* 1..n is in S.)
LEMMA LastOf ==
    ASSUME NEW n \in Nat, NEW S \in SUBSET (1..n), S # {}
    PROVE  Last(S) \in S /\ \A m \in S : m <= Last(S)
<1> DEFINE T == {b \in SUBSET (1..n) : \E k \in 0..n : b = 1..k /\ S \subseteq 1..k}
           Fin == FiniteSubsetsOf(1..n)
           Less == StrictSubsetOrdering(1..n)
<1>1. IsWellFoundedOn(Less, Fin)
  BY FS_StrictSubsetOrderingWellFounded
<1>2. T \subseteq Fin
  BY FS_Interval, FS_Subset DEF FiniteSubsetsOf
<1>3. T # {}
  <2>1. 1..n \in T
    OBVIOUS
  <2> QED
    BY <2>1
<1>4. PICK b \in T : \A c \in T : ~ (<<c, b>> \in Less)
  <2> HIDE DEF T, Fin, Less
  <2> QED
    BY <1>1, <1>2, <1>3, WFMin
<1>5. PICK k \in 0..n : b = 1..k /\ S \subseteq 1..k
  BY <1>4
<1>6. k \in S
  <2>1. SUFFICES ASSUME k \notin S PROVE FALSE
    OBVIOUS
  <2>2. S \subseteq 1..k /\ k \in Nat
    BY <1>5
  <2>3. k # 0 /\ S \subseteq 1..(k - 1)
    <3>1. \A m \in S : m \in 1..k /\ m # k
      BY <2>1, <2>2
    <3>2. \A m \in S : m \in 1..(k - 1)
      BY <2>2, <3>1
    <3>3. PICK m \in S : TRUE
      OBVIOUS
    <3>4. k # 0
      BY <2>2, <3>1, <3>3
    <3> QED
      BY <3>2, <3>4
  <2>4. k - 1 \in 0..n /\ 1..(k - 1) \in SUBSET (1..n)
    BY <2>3
  <2>5. 1..(k - 1) \in T
    BY <2>3, <2>4
  <2>6. <<1..(k - 1), b>> \in Less
    <3>1. k \in 1..k /\ k \notin 1..(k - 1) /\ 1..(k - 1) \subseteq 1..k
      BY <2>2, <2>3
    <3>2. 1..k \in SUBSET (1..n)
      BY <1>5
    <3> QED
      BY <1>5, <2>4, <3>1, <3>2 DEF StrictSubsetOrdering
  <2> QED
    BY <1>4, <2>5, <2>6
<1>7. k \in S /\ \A m \in S : m <= k
  BY <1>5, <1>6
<1> QED
  BY <1>7 DEF Last

\* A line after all of S is the last of S and itself.
LEMMA LastAdded ==
    ASSUME NEW n \in Nat, NEW S \in SUBSET (1..n)
    PROVE  Last(S \cup {n + 1}) = n + 1
<1> DEFINE T == S \cup {n + 1}
<1>1. T \in SUBSET (1..(n + 1)) /\ T # {} /\ n + 1 \in T
  OBVIOUS
<1>2. Last(T) \in T /\ \A m \in T : m <= Last(T)
  <2> HIDE DEF T
  <2> QED
    BY <1>1, LastOf, n + 1 \in Nat
<1>3. Last(T) \in 1..(n + 1) /\ n + 1 <= Last(T)
  BY <1>1, <1>2
<1> QED
  BY <1>3

\* Reading a line changes no line before it.
LEMMA LineRead ==
    ASSUME lines \in Seq(Lines), NEW l \in Lines, lines' = Append(lines, l)
    PROVE  /\ lines' \in Seq(Lines)
           /\ Len(lines) \in Nat /\ Len(lines') = Len(lines) + 1
           /\ \A m \in 1..Len(lines) : lines'[m] = lines[m] /\ lines[m] \in Lines
           /\ lines'[Len(lines) + 1] = l
BY AppendProperties

\* A set of earlier lines keeps its last value.
LEMMA LastValueKept ==
    ASSUME lines \in Seq(Lines), NEW l \in Lines, lines' = Append(lines, l),
           NEW S \in SUBSET (1..Len(lines)), S # {}
    PROVE  Last(S) \in 1..Len(lines) /\ lines'[Last(S)] = lines[Last(S)]
BY LineRead, LastOf

\* What one more line does to each reading of the file
GoodDiscid(l) == l.leader = "DISCID" /\ l.disc # None

\* The scope of the lines read stays; a well-formed DISCID row opens its own.
LEMMA ScopeExtends ==
    ASSUME lines \in Seq(Lines), NEW l \in Lines, lines' = Append(lines, l),
           NEW n, n = Len(lines)
    PROVE  /\ \A m \in 0..n : ScopeAt(m)' = ScopeAt(m)
           /\ ScopeAt(n + 1)' = IF GoodDiscid(l) THEN l.disc ELSE ScopeAt(n)
<1>1. /\ n \in Nat
      /\ \A m \in 1..n : lines'[m] = lines[m]
      /\ lines'[n + 1] = l
  BY LineRead
<1>2. ASSUME NEW m \in 0..n
      PROVE  DiscidRows(m)' = DiscidRows(m) /\ DiscidRows(m) \in SUBSET (1..n)
  BY <1>1 DEF DiscidRows
<1>0. n \in 0..n /\ DiscidRows(n) \in SUBSET (1..n)
  BY <1>1, <1>2
<1>3. ASSUME NEW m \in 0..n, DiscidRows(m) # {}
      PROVE  lines'[Last(DiscidRows(m))] = lines[Last(DiscidRows(m))]
  BY <1>2, <1>3, LastValueKept
<1>4. ASSUME NEW m \in 0..n
      PROVE  ScopeAt(m)' = ScopeAt(m)
  BY <1>2, <1>3 DEF ScopeAt
<1>5. CASE GoodDiscid(l)
  <2>1. DiscidRows(n + 1)' = DiscidRows(n) \cup {n + 1}
    BY <1>1, <1>5 DEF DiscidRows, GoodDiscid
  <2>2. Last(DiscidRows(n + 1)') = n + 1
    BY <1>0, <1>1, <2>1, LastAdded
  <2>3. ScopeAt(n + 1)' = l.disc
    BY <1>1, <2>1, <2>2 DEF ScopeAt
  <2> QED
    BY <1>4, <1>5, <2>3
<1>6. CASE ~ GoodDiscid(l)
  <2>1. DiscidRows(n + 1)' = DiscidRows(n)
    BY <1>1, <1>6 DEF DiscidRows, GoodDiscid
  <2>2. ScopeAt(n + 1)' = ScopeAt(n)
    BY <1>0, <1>3, <2>1 DEF ScopeAt
  <2> QED
    BY <1>4, <1>6, <2>2
<1> QED
  BY <1>5, <1>6

\* The value of the last line of a set, when one more line joins the set or not.
LEMMA LastValueExtends ==
    ASSUME lines \in Seq(Lines), NEW l \in Lines, lines' = Append(lines, l),
           NEW n, n = Len(lines), NEW S \in SUBSET (1..n)
    PROVE  /\ lines'[Last(S \cup {n + 1})] = l
           /\ S # {} => lines'[Last(S)] = lines[Last(S)]
<1>1. n \in Nat /\ lines'[n + 1] = l
  BY LineRead
<1>2. Last(S \cup {n + 1}) = n + 1
  BY <1>1, LastAdded
<1>3. S # {} => lines'[Last(S)] = lines[Last(S)]
  BY LastValueKept
<1> QED
  BY <1>1, <1>2, <1>3

\* A line joins the rows of the disc in scope, if it has a value.
Joins(l, d, f) == l.leader = f /\ l.value # None /\ current_discid = d

LEMMA RowsExtend ==
    ASSUME lines \in Seq(Lines), ScopeInv, NEW l \in Lines, lines' = Append(lines, l),
           NEW n, n = Len(lines), NEW d \in Discs, NEW f \in Scoped
    PROVE  /\ RowsFor(d, f) \in SUBSET (1..n)
           /\ RowsFor(d, f)' = IF Joins(l, d, f) THEN RowsFor(d, f) \cup {n + 1}
                                                 ELSE RowsFor(d, f)
           /\ LastValue(RowsFor(d, f))' = IF Joins(l, d, f) THEN l.value
                                                 ELSE LastValue(RowsFor(d, f))
<1>1. /\ n \in Nat /\ Len(lines') = n + 1
      /\ \A m \in 1..n : lines'[m] = lines[m]
      /\ lines'[n + 1] = l
  BY LineRead
<1>2. RowsFor(d, f) \in SUBSET (1..n)
  BY DEF RowsFor
<1>3. ASSUME NEW m \in 1..(n + 1)
      PROVE  m \in RowsFor(d, f)' <=> m \in RowsFor(d, f) \/ (m = n + 1 /\ Joins(l, d, f))
  <2>1. CASE m \in 1..n
    <3>1. ScopeAt(m)' = ScopeAt(m)
      BY <1>1, <2>1, ScopeExtends
    <3>2. m # n + 1 /\ lines'[m] = lines[m] /\ m \in 1..Len(lines')
      BY <1>1, <2>1
    <3> QED
      BY <2>1, <3>1, <3>2 DEF RowsFor
  <2>2. CASE m = n + 1
    <3>1. l.leader = f => ScopeAt(n + 1)' = current_discid
      BY <1>1, ScopeExtends, LeadersAssumption DEF GoodDiscid, Scoped, ScopeInv
    <3>2. m \in RowsFor(d, f)' <=> l.leader = f /\ l.value # None /\ ScopeAt(n + 1)' = d
      BY <1>1, <2>2 DEF RowsFor
    <3>3. m \notin RowsFor(d, f)
      BY <1>1, <1>2, <2>2
    <3> QED
      BY <2>2, <3>1, <3>2, <3>3 DEF Joins
  <2> QED
    BY <1>1, <2>1, <2>2
<1>4. RowsFor(d, f)' \in SUBSET (1..(n + 1))
  BY <1>1 DEF RowsFor
<1>5. RowsFor(d, f)' = IF Joins(l, d, f) THEN RowsFor(d, f) \cup {n + 1}
                                         ELSE RowsFor(d, f)
  <2>1. CASE Joins(l, d, f)
    <3>1. \A m \in 1..(n + 1) : m \in RowsFor(d, f)' <=> m \in RowsFor(d, f) \cup {n + 1}
      BY <1>3, <2>1
    <3>2. RowsFor(d, f) \cup {n + 1} \subseteq 1..(n + 1)
      BY <1>1, <1>2
    <3>3. RowsFor(d, f)' = RowsFor(d, f) \cup {n + 1}
      BY <1>4, <3>1, <3>2
    <3> QED
      BY <2>1, <3>3
  <2>2. CASE ~ Joins(l, d, f)
    <3>1. \A m \in 1..(n + 1) : m \in RowsFor(d, f)' <=> m \in RowsFor(d, f)
      BY <1>3, <2>2
    <3>2. RowsFor(d, f) \subseteq 1..(n + 1)
      BY <1>1, <1>2
    <3>3. RowsFor(d, f)' = RowsFor(d, f)
      BY <1>4, <3>1, <3>2
    <3> QED
      BY <2>2, <3>3
  <2> QED
    BY <2>1, <2>2
<1>6. /\ lines'[Last(RowsFor(d, f) \cup {n + 1})] = l
      /\ RowsFor(d, f) # {} => lines'[Last(RowsFor(d, f))] = lines[Last(RowsFor(d, f))]
  BY <1>2, LastValueExtends
<1>7. LastValue(RowsFor(d, f))' = IF Joins(l, d, f) THEN l.value
                                         ELSE LastValue(RowsFor(d, f))
  <2>1. CASE Joins(l, d, f)
    BY <1>5, <1>6, <2>1 DEF LastValue
  <2>2. CASE ~ Joins(l, d, f)
    BY <1>5, <1>6, <2>2 DEF LastValue
  <2> QED
    BY <2>1, <2>2
<1> QED
  BY <1>2, <1>5, <1>7

LEMMA LegacyExtends ==
    ASSUME lines \in Seq(Lines), NEW l \in Lines, lines' = Append(lines, l),
           NEW n, n = Len(lines), NEW d \in Discs
    PROVE  LastValue(LegacyFor(d))' =
              IF l.leader = "legacy" /\ l.disc = d THEN l.value
                                                   ELSE LastValue(LegacyFor(d))
<1>1. /\ n \in Nat /\ Len(lines') = n + 1
      /\ \A m \in 1..n : lines'[m] = lines[m]
      /\ lines'[n + 1] = l
  BY LineRead
<1>2. LegacyFor(d) \in SUBSET (1..n)
  BY DEF LegacyFor
<1>3. /\ lines'[Last(LegacyFor(d) \cup {n + 1})] = l
      /\ LegacyFor(d) # {} => lines'[Last(LegacyFor(d))] = lines[Last(LegacyFor(d))]
  BY <1>2, LastValueExtends
<1>4. CASE l.leader = "legacy" /\ l.disc = d
  <2>1. LegacyFor(d)' = LegacyFor(d) \cup {n + 1}
    BY <1>1, <1>4 DEF LegacyFor
  <2> QED
    BY <1>3, <1>4, <2>1 DEF LastValue
<1>5. CASE ~ (l.leader = "legacy" /\ l.disc = d)
  <2>1. LegacyFor(d)' = LegacyFor(d)
    BY <1>1, <1>5 DEF LegacyFor
  <2> QED
    BY <1>3, <1>5, <2>1 DEF LastValue
<1> QED
  BY <1>4, <1>5

\* A disc has been in scope once a row opened its scope.
Seen(d) == d \in {ScopeAt(m) : m \in 1..Len(lines)}

LEMMA SeenExtends ==
    ASSUME lines \in Seq(Lines), ScopeInv, NEW l \in Lines, lines' = Append(lines, l),
           NEW d \in Discs
    PROVE  /\ Seen(d)' <=> Seen(d) \/ (GoodDiscid(l) /\ l.disc = d)
           /\ current_discid = d => Seen(d)
<1>1. PICK n \in Nat : n = Len(lines)
  BY LineRead
<1>2. Len(lines') = n + 1
  BY <1>1, LineRead
<1>3. /\ \A m \in 0..n : ScopeAt(m)' = ScopeAt(m)
      /\ ScopeAt(n + 1)' = IF GoodDiscid(l) THEN l.disc ELSE ScopeAt(n)
  BY <1>1, ScopeExtends
<1>4. ScopeAt(0) # d
  BY NamesAssumption DEF ScopeAt, DiscidRows
<1>5. ScopeAt(n) = d => Seen(d)
  <2>1. ScopeAt(n) = d => n \in 1..n
    BY <1>4
  <2> QED
    BY <1>1, <2>1 DEF Seen
<1>6. Seen(d)' <=> (\E m \in 1..(n + 1) : ScopeAt(m)' = d)
  BY <1>2 DEF Seen
<1>7. Seen(d) <=> \E m \in 1..n : ScopeAt(m) = d
  BY <1>1 DEF Seen
<1>8. 1..(n + 1) = 1..n \cup {n + 1} /\ 1..n \subseteq 0..n
  OBVIOUS
<1>9. Seen(d)' <=> Seen(d) \/ ScopeAt(n + 1)' = d
  BY <1>3, <1>6, <1>7, <1>8
<1>10. Seen(d)' <=> Seen(d) \/ (GoodDiscid(l) /\ l.disc = d)
  BY <1>3, <1>5, <1>9
<1> QED
  BY <1>1, <1>5, <1>10 DEF ScopeInv

\* A line is lost that cannot be read, or has no disc to go to.
Lost(l) ==
    \/ l.leader = "unknown"
    \/ l.leader \in {"DISCID", "legacy"} /\ l.disc = None
    \/ l.leader \in Scoped \cup Globals /\ l.value = None
    \/ l.leader \in Scoped /\ current_discid = None

LEMMA UnreadableExtends ==
    ASSUME lines \in Seq(Lines), ScopeInv, NEW l \in Lines, lines' = Append(lines, l),
           NEW n, n = Len(lines)
    PROVE  /\ \A m \in 1..n : Unreadable(m)' <=> Unreadable(m)
           /\ Unreadable(n + 1)' <=> Lost(l)
<1>1. /\ n \in Nat
      /\ \A m \in 1..n : lines'[m] = lines[m]
      /\ lines'[n + 1] = l
  BY LineRead
<1>2. /\ \A m \in 0..n : ScopeAt(m)' = ScopeAt(m)
      /\ ScopeAt(n + 1)' = IF GoodDiscid(l) THEN l.disc ELSE ScopeAt(n)
  BY ScopeExtends
<1>3. \A m \in 1..n : Unreadable(m)' <=> Unreadable(m)
  <2> TAKE m \in 1..n
  <2>1. lines'[m] = lines[m] /\ ScopeAt(m)' = ScopeAt(m)
    BY <1>1, <1>2
  <2> QED
    BY <2>1 DEF Unreadable
<1>4. l.leader \in Scoped => ScopeAt(n + 1)' = current_discid
  BY <1>2, LeadersAssumption DEF GoodDiscid, Scoped, ScopeInv
<1>5. Unreadable(n + 1)' <=> Lost(l)
  BY <1>1, <1>4 DEF Unreadable, Lost
<1> QED
  BY <1>3, <1>5

\* The report stays exact if a line is added to it just when it is lost.
LEMMA ReportExtends ==
    ASSUME IInv, NEW l \in Lines, lines' = Append(lines, l),
           skipped' = IF Lost(l) THEN Append(skipped, LineNumber) ELSE skipped
    PROVE  skipped' \in Seq(Nat) /\ ReportIsExact'
<1>1. PICK n \in Nat : n = Len(lines) /\ LineNumber = n + 1 /\ Len(lines') = n + 1
  BY LineRead DEF IInv, TypeOK, LineNumber
<1>2. /\ \A m \in 1..n : Unreadable(m)' <=> Unreadable(m)
      /\ Unreadable(n + 1)' <=> Lost(l)
  BY <1>1, UnreadableExtends DEF IInv, TypeOK
<1>3. PICK k \in Nat : k = Len(skipped) /\ DOMAIN skipped = 1..k /\ skipped \in Seq(Nat)
  BY LenProperties DEF IInv, TypeOK
<1>4. {skipped[j] : j \in 1..k} = {m \in 1..n : Unreadable(m)}
  BY <1>1, <1>3 DEF IInv, ReportIsExact
<1>5. \A i, j \in 1..k : i < j => skipped[i] < skipped[j]
  BY <1>3 DEF IInv, ReportIsExact
<1>6. \A j \in 1..k : skipped[j] \in 1..n
  BY <1>4
<1>7. {m \in 1..(n + 1) : Unreadable(m)'} =
         {m \in 1..n : Unreadable(m)} \cup (IF Lost(l) THEN {n + 1} ELSE {})
  BY <1>2
<1>8. CASE ~ Lost(l)
  <2>1. skipped' = skipped
    BY <1>8
  <2>2. {skipped[j] : j \in 1..k} = {m \in 1..(n + 1) : Unreadable(m)'}
    BY <1>4, <1>7, <1>8
  <2> QED
    BY <1>1, <1>3, <1>5, <2>1, <2>2 DEF ReportIsExact
<1>9. CASE Lost(l)
  <2>1. /\ skipped' \in Seq(Nat) /\ DOMAIN skipped' = 1..(k + 1)
        /\ \A j \in 1..k : skipped'[j] = skipped[j]
        /\ skipped'[k + 1] = n + 1
    BY <1>1, <1>3, <1>9, AppendProperties
  <2>2. {skipped'[j] : j \in 1..(k + 1)} = {skipped[j] : j \in 1..k} \cup {n + 1}
    BY <2>1
  <2>3. {skipped'[j] : j \in 1..(k + 1)} = {m \in 1..(n + 1) : Unreadable(m)'}
    BY <1>4, <1>7, <1>9, <2>2
  <2>4. ASSUME NEW i \in 1..(k + 1), NEW j \in 1..(k + 1), i < j
        PROVE  skipped'[i] < skipped'[j]
    <3>1. i \in 1..k
      BY <2>4
    <3>2. CASE j \in 1..k
      BY <1>5, <2>1, <2>4, <3>1, <3>2
    <3>3. CASE j = k + 1
      <4>1. skipped'[i] \in 1..n
        BY <1>6, <2>1, <3>1
      <4>2. skipped'[j] = n + 1
        BY <2>1, <3>3
      <4>3. \A x \in 1..n : x < n + 1
        OBVIOUS
      <4> QED
        BY <4>1, <4>2, <4>3
    <3>4. j \in 1..k \/ j = k + 1
      OBVIOUS
    <3> QED
      BY <3>2, <3>3, <3>4
  <2> QED
    BY <1>1, <2>1, <2>3, <2>4 DEF ReportIsExact
<1> QED
  BY <1>8, <1>9

\* What the record of a disc holds, as RowsStayWithTheirDisc says it.
Indexed(keys, K, ls) ==
    /\ Len(keys) = Cardinality(K)
    /\ \A n \in K : keys[Cardinality({m \in K : m <= n})] = ls[n].value

Kept(d) ==
    /\ disc_records[d] = None <=> ~ Seen(d)
    /\ disc_records[d] # None =>
          /\ \A f \in Fields : disc_records[d].fields[f] = LastValue(RowsFor(d, f))
          /\ Indexed(disc_records[d].title_keys, RowsFor(d, "TK"), lines)

\* The places of a set of line numbers, counted from its first.
LEMMA RowPlaces ==
    ASSUME NEW n \in Nat, NEW K \in SUBSET (1..n)
    PROVE  /\ IsFiniteSet(K) /\ Cardinality(K) \in Nat
           /\ n + 1 \notin K /\ Cardinality(K \cup {n + 1}) = Cardinality(K) + 1
           /\ \A k \in K : Cardinality({m \in K : m <= k}) \in 1..Cardinality(K)
<1>1. IsFiniteSet(K) /\ Cardinality(K) \in Nat
  <2>1. IsFiniteSet(1..n)
    BY FS_Interval
  <2>2. IsFiniteSet(K)
    BY <2>1, FS_Subset
  <2> QED
    BY <2>2, FS_CardinalityType
<1>2. n + 1 \notin K
  OBVIOUS
<1>3. Cardinality(K \cup {n + 1}) = Cardinality(K) + 1
  BY <1>1, <1>2, FS_AddElement
<1>4. ASSUME NEW k \in K
      PROVE  Cardinality({m \in K : m <= k}) \in 1..Cardinality(K)
  <2> DEFINE P == {m \in K : m <= k}
  <2>1. IsFiniteSet(P) /\ Cardinality(P) <= Cardinality(K)
    BY <1>1, FS_Subset
  <2>2. Cardinality(P) \in Nat
    BY <2>1, FS_CardinalityType
  <2>3. P # {}
    <3>1. k \in P
      OBVIOUS
    <3> QED
      BY <3>1
  <2>4. Cardinality(P) # 0
    <3> HIDE DEF P
    <3> QED
      BY <2>1, <2>3, FS_EmptySet
  <2> QED
    BY <1>1, <2>1, <2>2, <2>4
<1> QED
  BY <1>1, <1>2, <1>3, <1>4

\* Appending the new line's key puts it in the new line's place.
LEMMA IndexedAppend ==
    ASSUME NEW n \in Nat, NEW K \in SUBSET (1..n), NEW ls, NEW mores,
           \A m \in 1..n : mores[m] = ls[m],
           NEW keys \in Seq(Values), NEW v \in Values, mores[n + 1].value = v,
           Indexed(keys, K, ls)
    PROVE  Indexed(Append(keys, v), K \cup {n + 1}, mores)
<1> DEFINE more == K \cup {n + 1}
           long == Append(keys, v)
<1>1. Len(long) = Len(keys) + 1 /\ Len(keys) \in Nat
  BY AppendProperties
<1>2. /\ \A j \in 1..Len(keys) : long[j] = keys[j]
      /\ long[Len(keys) + 1] = v
  BY AppendProperties
<1>3. Len(keys) = Cardinality(K)
  BY DEF Indexed
<1>4. Len(long) = Cardinality(more)
  <2>1. Cardinality(more) = Cardinality(K) + 1
    BY RowPlaces
  <2> QED
    BY <1>1, <1>3, <2>1
<1>5. ASSUME NEW k \in more
      PROVE  long[Cardinality({m \in more : m <= k})] = mores[k].value
  <2>1. CASE k \in K
    <3>1. {m \in more : m <= k} = {m \in K : m <= k}
      BY <2>1
    <3>2. Cardinality({m \in K : m <= k}) \in 1..Len(keys)
      BY <1>3, <2>1, RowPlaces
    <3>3. keys[Cardinality({m \in K : m <= k})] = ls[k].value
      BY <2>1 DEF Indexed
    <3>4. mores[k] = ls[k]
      BY <2>1
    <3> QED
      BY <1>2, <3>1, <3>2, <3>3, <3>4
  <2>2. CASE k = n + 1
    <3>1. \A m \in more : m <= k
      <4>1. \A m \in 1..n : m <= n + 1
        OBVIOUS
      <4>2. n + 1 <= n + 1
        OBVIOUS
      <4> QED
        BY <2>2, <4>1, <4>2
    <3>2. {m \in more : m <= k} = more
      BY <3>1
    <3>3. Cardinality(more) = Len(keys) + 1
      BY <1>1, <1>4
    <3> QED
      BY <1>2, <2>2, <3>2, <3>3
  <2> QED
    BY <2>1, <2>2
<1> QED
  BY <1>4, <1>5 DEF Indexed

LEMMA IndexedSame ==
    ASSUME NEW keys, NEW K, NEW ls, NEW mores, \A m \in K : mores[m] = ls[m],
           Indexed(keys, K, ls)
    PROVE  Indexed(keys, K, mores)
BY DEF Indexed

\* A title key is appended, any other value replaces the one of its field.
LEMMA WithRowType ==
    ASSUME NEW rec \in DiscRecords, NEW l, l.value \in Values
    PROVE  /\ l.leader = "TK" =>
                /\ WithRow(rec, l) \in DiscRecords
                /\ WithRow(rec, l).fields = rec.fields
                /\ WithRow(rec, l).title_keys = Append(rec.title_keys, l.value)
           /\ l.leader \in Fields =>
                /\ WithRow(rec, l) \in DiscRecords
                /\ WithRow(rec, l).fields = [rec.fields EXCEPT ![l.leader] = l.value]
                /\ WithRow(rec, l).title_keys = rec.title_keys
<1>1. rec.title_keys \in Seq(Values) /\ rec.fields \in [Fields -> Values \cup {None}]
  BY DEF DiscRecords
<1>2. CASE l.leader = "TK"
  <2>1. WithRow(rec, l) = [rec EXCEPT !.title_keys = Append(rec.title_keys, l.value)]
    BY <1>2 DEF WithRow
  <2>2. Append(rec.title_keys, l.value) \in Seq(Values)
    BY <1>1, AppendProperties
  <2>3. l.leader \notin Fields
    BY <1>2, LeadersAssumption
  <2> QED
    BY <1>2, <2>1, <2>2, <2>3 DEF DiscRecords
<1>3. CASE l.leader \in Fields
  <2>1. l.leader # "TK"
    BY <1>3, LeadersAssumption
  <2>2. WithRow(rec, l) = [rec EXCEPT !.fields[l.leader] = l.value]
    BY <2>1 DEF WithRow
  <2>3. [rec.fields EXCEPT ![l.leader] = l.value] \in [Fields -> Values \cup {None}]
    BY <1>1
  <2> QED
    BY <1>3, <2>1, <2>2, <2>3 DEF DiscRecords
<1> QED
  BY <1>2, <1>3

\* A line of a kind that has no value, or that belongs to another disc, leaves
\* what is kept of a disc right.
LEMMA KeptUntouched ==
    ASSUME IInv, NEW l \in Lines, lines' = Append(lines, l),
           NEW d \in Discs, Kept(d), disc_records'[d] = disc_records[d],
           ~ (GoodDiscid(l) /\ l.disc = d),
           \A f \in Scoped : ~ Joins(l, d, f)
    PROVE  Kept(d)'
<1>1. PICK n : n = Len(lines)
  OBVIOUS
<1>2. Seen(d)' <=> Seen(d)
  BY SeenExtends DEF IInv, TypeOK
<1>3. ASSUME NEW f \in Scoped
      PROVE  /\ RowsFor(d, f) \in SUBSET (1..n)
             /\ RowsFor(d, f)' = RowsFor(d, f)
             /\ LastValue(RowsFor(d, f))' = LastValue(RowsFor(d, f))
  BY <1>1, RowsExtend DEF IInv, TypeOK
<1>4. /\ "TK" \in Scoped /\ Fields \subseteq Scoped
      /\ \A m \in 1..n : lines'[m] = lines[m]
  BY <1>1, LineRead DEF Scoped, IInv, TypeOK
<1>5. \A m \in RowsFor(d, "TK") : lines'[m] = lines[m]
  BY <1>3, <1>4
<1>6. ASSUME disc_records[d] # None
      PROVE  Indexed(disc_records[d].title_keys, RowsFor(d, "TK")', lines')
  BY <1>3, <1>4, <1>5, <1>6 DEF Kept, Indexed
<1> QED
  BY <1>2, <1>3, <1>4, <1>6 DEF Kept

\* The record a row is put into: the disc's, or an empty one, which is right for
\* a disc that has not been in scope.
LEMMA RecordIsKept ==
    ASSUME TypeOK, NEW d \in Discs, Kept(d)
    PROVE  /\ RecordOf(d) \in DiscRecords
           /\ \A f \in Fields : RecordOf(d).fields[f] = LastValue(RowsFor(d, f))
           /\ Indexed(RecordOf(d).title_keys, RowsFor(d, "TK"), lines)
<1>1. CASE disc_records[d] # None
  BY <1>1 DEF Kept, RecordOf, TypeOK
<1>2. CASE disc_records[d] = None
  <2>1. RecordOf(d) = EmptyRecord
    BY <1>2 DEF RecordOf
  <2>2. \A f : RowsFor(d, f) = {}
    BY <1>2 DEF Kept, Seen, RowsFor
  <2>3. EmptyRecord \in DiscRecords
    BY DEF EmptyRecord, DiscRecords
  <2>4. \A f \in Fields : EmptyRecord.fields[f] = LastValue(RowsFor(d, f))
    BY <2>2 DEF EmptyRecord, LastValue
  <2>5. Indexed(EmptyRecord.title_keys, {}, lines)
    BY FS_EmptySet DEF EmptyRecord, Indexed
  <2> QED
    BY <2>1, <2>2, <2>3, <2>4, <2>5
<1> QED
  BY <1>1, <1>2

\* A well-formed DISCID row gives its disc a record and no row.
LEMMA KeptDiscid ==
    ASSUME IInv, NEW l \in Lines, lines' = Append(lines, l),
           NEW d \in Discs, Kept(d), GoodDiscid(l), l.disc = d,
           NEW label \in Labels \cup {None},
           disc_records'[d] = [RecordOf(d) EXCEPT !.label = label]
    PROVE  disc_records'[d] \in DiscRecords /\ Kept(d)'
<1>1. PICK n : n = Len(lines)
  OBVIOUS
<1>2. Seen(d)'
  BY SeenExtends DEF IInv, TypeOK
<1>3. ASSUME NEW f \in Scoped
      PROVE  /\ RowsFor(d, f) \in SUBSET (1..n)
             /\ RowsFor(d, f)' = RowsFor(d, f)
             /\ LastValue(RowsFor(d, f))' = LastValue(RowsFor(d, f))
  <2>1. ~ Joins(l, d, f)
    BY LeadersAssumption DEF GoodDiscid, Joins, Scoped
  <2> QED
    BY <1>1, <2>1, RowsExtend DEF IInv, TypeOK
<1>4. /\ "TK" \in Scoped /\ Fields \subseteq Scoped
      /\ \A m \in 1..n : lines'[m] = lines[m]
  BY <1>1, LineRead DEF Scoped, IInv, TypeOK
<1>5. \A m \in RowsFor(d, "TK") : lines'[m] = lines[m]
  BY <1>3, <1>4
<1>6. /\ RecordOf(d) \in DiscRecords
      /\ \A f \in Fields : RecordOf(d).fields[f] = LastValue(RowsFor(d, f))
      /\ Indexed(RecordOf(d).title_keys, RowsFor(d, "TK"), lines)
  BY RecordIsKept DEF IInv
<1>7. /\ disc_records'[d] \in DiscRecords
      /\ disc_records'[d].fields = RecordOf(d).fields
      /\ disc_records'[d].title_keys = RecordOf(d).title_keys
  BY <1>6 DEF DiscRecords
<1>8. Indexed(RecordOf(d).title_keys, RowsFor(d, "TK")', lines')
  <2>1. Indexed(RecordOf(d).title_keys, RowsFor(d, "TK"), lines')
    <3>1. PICK K : K = RowsFor(d, "TK")
      OBVIOUS
    <3>2. PICK more : more = lines'
      OBVIOUS
    <3>3. Indexed(RecordOf(d).title_keys, K, more)
      <4>1. Indexed(RecordOf(d).title_keys, K, lines)
        BY <1>6, <3>1
      <4>2. \A m \in K : more[m] = lines[m]
        BY <1>5, <3>1, <3>2
      <4> QED
        BY <4>1, <4>2, IndexedSame
    <3> QED
      BY <3>1, <3>2, <3>3
  <2> QED
    BY <1>3, <1>4, <2>1
<1> QED
  BY <1>2, <1>3, <1>4, <1>6, <1>7, <1>8, RecordsAssumption DEF Kept

\* A row with a value goes to the disc in scope.
LEMMA KeptScoped ==
    ASSUME IInv, NEW l \in Lines, lines' = Append(lines, l),
           NEW d \in Discs, Kept(d), l.leader \in Scoped, l.value \in Values,
           current_discid = d, disc_records'[d] = WithRow(RecordOf(d), l)
    PROVE  disc_records'[d] \in DiscRecords /\ Kept(d)'
<1>1. PICK n \in Nat : n = Len(lines)
  BY LineRead DEF IInv, TypeOK
<1>2. Seen(d)'
  BY SeenExtends DEF IInv, TypeOK
<1>3. ASSUME NEW f \in Scoped
      PROVE  /\ RowsFor(d, f) \in SUBSET (1..n)
             /\ RowsFor(d, f)' = IF l.leader = f THEN RowsFor(d, f) \cup {n + 1}
                                                 ELSE RowsFor(d, f)
             /\ LastValue(RowsFor(d, f))' = IF l.leader = f THEN l.value
                                                 ELSE LastValue(RowsFor(d, f))
  <2>1. Joins(l, d, f) <=> l.leader = f
    BY NamesAssumption DEF Joins
  <2> QED
    BY <1>1, <2>1, RowsExtend DEF IInv, TypeOK
<1>4. /\ "TK" \in Scoped /\ Fields \subseteq Scoped /\ "TK" \notin Fields
      /\ \A m \in 1..n : lines'[m] = lines[m]
      /\ lines'[n + 1].value = l.value
  BY <1>1, LineRead, LeadersAssumption DEF Scoped, IInv, TypeOK
<1>5. RowsFor(d, "TK") \in SUBSET (1..n)
  BY <1>3, <1>4
<1>6. /\ RecordOf(d) \in DiscRecords
      /\ \A f \in Fields : RecordOf(d).fields[f] = LastValue(RowsFor(d, f))
      /\ Indexed(RecordOf(d).title_keys, RowsFor(d, "TK"), lines)
  BY RecordIsKept DEF IInv
<1>7. CASE l.leader = "TK"
  <2>1. /\ disc_records'[d] \in DiscRecords
        /\ disc_records'[d].fields = RecordOf(d).fields
        /\ disc_records'[d].title_keys = Append(RecordOf(d).title_keys, l.value)
    <3>1. /\ WithRow(RecordOf(d), l) \in DiscRecords
          /\ WithRow(RecordOf(d), l).fields = RecordOf(d).fields
          /\ WithRow(RecordOf(d), l).title_keys = Append(RecordOf(d).title_keys, l.value)
      BY <1>6, <1>7, WithRowType, Zenon
    <3> QED
      BY <3>1
  <2>2. RecordOf(d).title_keys \in Seq(Values)
    BY <1>6 DEF DiscRecords
  <2>3. Indexed(disc_records'[d].title_keys, RowsFor(d, "TK") \cup {n + 1}, lines')
    BY <1>4, <1>5, <1>6, <2>1, <2>2, IndexedAppend
  <2>4. RowsFor(d, "TK")' = RowsFor(d, "TK") \cup {n + 1}
    BY <1>3, <1>4, <1>7
  <2>5. \A f \in Fields : disc_records'[d].fields[f] = LastValue(RowsFor(d, f))'
    BY <1>3, <1>4, <1>6, <1>7, <2>1
  <2> QED
    BY <1>2, <2>1, <2>3, <2>4, <2>5, RecordsAssumption DEF Kept
<1>8. CASE l.leader \in Fields
  <2>1. /\ disc_records'[d] \in DiscRecords
        /\ disc_records'[d].fields = [RecordOf(d).fields EXCEPT ![l.leader] = l.value]
        /\ disc_records'[d].title_keys = RecordOf(d).title_keys
    BY <1>6, <1>8, WithRowType
  <2>2. \A f \in Fields : disc_records'[d].fields[f] =
                            IF f = l.leader THEN l.value ELSE RecordOf(d).fields[f]
    BY <1>6, <2>1 DEF DiscRecords
  <2>3. \A f \in Fields : disc_records'[d].fields[f] = LastValue(RowsFor(d, f))'
    BY <1>3, <1>4, <1>6, <2>2
  <2>4. RowsFor(d, "TK")' = RowsFor(d, "TK")
    BY <1>3, <1>4, <1>8
  <2>5. \A m \in RowsFor(d, "TK") : lines'[m] = lines[m]
    BY <1>4, <1>5
  <2>6. Indexed(RecordOf(d).title_keys, RowsFor(d, "TK")', lines')
    BY <1>6, <2>4, <2>5 DEF Indexed
  <2> QED
    BY <1>2, <2>1, <2>3, <2>6, RecordsAssumption DEF Kept
<1> QED
  BY <1>7, <1>8 DEF Scoped
-----------------------------------------------------------------------------
(* The invariant *)

RowsKept == \A d \in Discs : Kept(d)

LEMMA RowsKeptIs == RowsKept <=> RowsStayWithTheirDisc
BY Zenon DEF RowsKept, Kept, Indexed, Seen, RowsStayWithTheirDisc

LEMMA LineType ==
    ASSUME NEW l \in Lines
    PROVE  /\ l.leader = "DISCID" => l.disc \in Discs \cup {None} /\ l.label \in Labels \cup {None}
           /\ l.leader \in Scoped \cup Globals => l.value \in Values \cup {None}
           /\ l.leader = "legacy" => l.disc = None \/ (l.disc \in Discs /\ l.value \in Values)
<1> USE LeadersAssumption DEF Scoped, Row
<1>1. CASE l \in DiscidLines
  BY <1>1 DEF DiscidLines
<1>2. CASE l \in ScopedLines
  BY <1>2 DEF ScopedLines
<1>3. CASE l \in GlobalLines
  BY <1>3 DEF GlobalLines
<1>4. CASE l \in LegacyLines
  BY <1>4 DEF LegacyLines
<1>5. CASE l \in OtherLines
  BY <1>5 DEF OtherLines
<1> QED
  BY <1>1, <1>2, <1>3, <1>4, <1>5 DEF Lines

LEMMA InitIInv == Init => IInv
<1> SUFFICES ASSUME Init PROVE IInv
  OBVIOUS
<1>1. /\ lines = <<>> /\ Len(lines) = 0 /\ skipped = <<>> /\ DOMAIN skipped = {}
      /\ current_discid = None
  BY DEF Init
<1>2. TypeOK
  BY <1>1 DEF Init, TypeOK
<1>3. ScopeInv
  BY <1>1 DEF ScopeInv, ScopeAt, DiscidRows
<1>4. \A d \in Discs : LegacyFor(d) = {} /\ ~ Seen(d)
  BY <1>1 DEF LegacyFor, Seen
<1>5. LegacyInv
  BY <1>4 DEF Init, LegacyInv, LastValue
<1>6. RowsKept
  BY <1>4 DEF Init, RowsKept, Kept
<1>7. ReportIsExact
  BY <1>1 DEF ReportIsExact
<1> QED
  BY <1>2, <1>3, <1>5, <1>6, <1>7, RowsKeptIs DEF IInv

\* What every line must do to keep the invariant.
LEMMA LineKeepsIInv ==
    ASSUME IInv, NEW l \in Lines, lines' = Append(lines, l),
           current_discid' = IF GoodDiscid(l) THEN l.disc ELSE current_discid,
           by_disc_id' = IF l.leader = "legacy" /\ l.disc # None
                           THEN [by_disc_id EXCEPT ![l.disc] = l.value] ELSE by_disc_id,
           skipped' = IF Lost(l) THEN Append(skipped, LineNumber) ELSE skipped,
           disc_records' \in [Discs -> DiscRecords \cup {None}], RowsKept'
    PROVE  IInv'
<1>1. PICK n \in Nat : n = Len(lines) /\ Len(lines') = n + 1 /\ lines' \in Seq(Lines)
  BY LineRead DEF IInv, TypeOK
<1>2. TypeOK'
  <2>1. current_discid' \in Discs \cup {None}
    BY LineType DEF GoodDiscid, IInv, TypeOK
  <2>2. by_disc_id' \in [Discs -> Values \cup {None}]
    BY LineType DEF IInv, TypeOK
  <2> QED
    BY <1>1, <2>1, <2>2, ReportExtends DEF TypeOK
<1>3. ScopeInv'
  <2>1. ScopeAt(n + 1)' = IF GoodDiscid(l) THEN l.disc ELSE ScopeAt(n)
    BY <1>1, ScopeExtends DEF IInv, TypeOK
  <2> QED
    BY <1>1, <2>1 DEF ScopeInv, IInv
<1>4. LegacyInv'
  <2> SUFFICES ASSUME NEW d \in Discs
               PROVE  by_disc_id'[d] = LastValue(LegacyFor(d))'
    BY DEF LegacyInv
  <2>1. LastValue(LegacyFor(d))' =
           IF l.leader = "legacy" /\ l.disc = d THEN l.value ELSE LastValue(LegacyFor(d))
    BY <1>1, LegacyExtends DEF IInv, TypeOK
  <2>2. by_disc_id'[d] =
           IF l.leader = "legacy" /\ l.disc = d THEN l.value ELSE by_disc_id[d]
    BY NamesAssumption DEF IInv, TypeOK
  <2> QED
    BY <2>1, <2>2 DEF IInv, LegacyInv
<1>5. RowsStayWithTheirDisc'
  <2>1. (RowsKept <=> RowsStayWithTheirDisc)'
    BY RowsKeptIs, PTL
  <2> QED
    BY <2>1
<1> QED
  BY <1>2, <1>3, <1>4, <1>5, ReportExtends DEF IInv

\* A line that is no row of any disc leaves the records right.
LEMMA NoRow ==
    ASSUME IInv, NEW l \in Lines, lines' = Append(lines, l),
           UNCHANGED disc_records, ~ GoodDiscid(l),
           l.leader \notin Scoped \/ l.value = None \/ current_discid = None
    PROVE  disc_records' \in [Discs -> DiscRecords \cup {None}] /\ RowsKept'
<1>1. disc_records' \in [Discs -> DiscRecords \cup {None}]
  BY DEF IInv, TypeOK
<1>2. ASSUME NEW d \in Discs
      PROVE  Kept(d)'
  <2>1. \A f \in Scoped : ~ Joins(l, d, f)
    BY NamesAssumption DEF Joins
  <2>2. Kept(d)
    BY RowsKeptIs DEF IInv, RowsKept
  <2> QED
    BY <2>1, <2>2, KeptUntouched
<1> QED
  BY <1>1, <1>2 DEF RowsKept

LEMMA DiscidKeepsIInv ==
    ASSUME IInv, NEW l \in Lines, lines' = Append(lines, l), ParseDiscid(l)
    PROVE  IInv'
<1>1. /\ l.leader = "DISCID" /\ l.leader \notin Scoped /\ l.leader \notin Globals
      /\ GoodDiscid(l) <=> ~ Lost(l)
  BY LeadersAssumption DEF ParseDiscid, Scoped, GoodDiscid, Lost
<1>2. CASE l.disc = None
  <2>1. Skip /\ ~ GoodDiscid(l)
    BY <1>2 DEF ParseDiscid, GoodDiscid
  <2>2. disc_records' \in [Discs -> DiscRecords \cup {None}] /\ RowsKept'
    BY <1>1, <2>1, NoRow DEF Skip
  <2> QED
    BY <1>1, <2>1, <2>2, LineKeepsIInv DEF Skip
<1>3. CASE l.disc # None
  <2>1. l.disc \in Discs /\ l.label \in Labels \cup {None} /\ GoodDiscid(l)
    BY <1>1, <1>3, LineType DEF GoodDiscid
  <2>2. PICK label : label = IF RecordOf(l.disc).label = None THEN l.label
                                                             ELSE RecordOf(l.disc).label
    OBVIOUS
  <2>3. /\ disc_records' = [disc_records EXCEPT ![l.disc] =
                               [RecordOf(l.disc) EXCEPT !.label = label]]
        /\ current_discid' = l.disc
        /\ UNCHANGED <<by_disc_id, skipped>>
    BY <1>3, <2>2 DEF ParseDiscid
  <2>4. \A d \in Discs : Kept(d)
    BY RowsKeptIs DEF IInv, RowsKept
  <2>5. label \in Labels \cup {None}
    BY <2>1, <2>2, <2>4, RecordIsKept DEF IInv, DiscRecords
  <2>6. disc_records'[l.disc] \in DiscRecords /\ Kept(l.disc)'
    BY <2>1, <2>3, <2>4, <2>5, KeptDiscid DEF IInv, TypeOK
  <2>7. ASSUME NEW d \in Discs, d # l.disc
        PROVE  Kept(d)'
    <3>1. disc_records'[d] = disc_records[d]
      BY <2>3, <2>7 DEF IInv, TypeOK
    <3>2. \A f \in Scoped : ~ Joins(l, d, f)
      BY <1>1 DEF Joins
    <3> QED
      BY <2>4, <2>7, <3>1, <3>2, KeptUntouched
  <2>8. RowsKept'
    BY <2>6, <2>7 DEF RowsKept
  <2>9. disc_records' \in [Discs -> DiscRecords \cup {None}]
    BY <2>1, <2>3, <2>6 DEF IInv, TypeOK
  <2> QED
    BY <1>1, <2>1, <2>3, <2>8, <2>9, LineKeepsIInv
<1> QED
  BY <1>2, <1>3

LEMMA ScopedKeepsIInv ==
    ASSUME IInv, NEW l \in Lines, lines' = Append(lines, l), ParseScoped(l)
    PROVE  IInv'
<1>1. /\ l.leader \in Scoped /\ l.leader # "legacy" /\ ~ GoodDiscid(l)
      /\ Lost(l) <=> current_discid = None \/ l.value = None
  BY LeadersAssumption DEF ParseScoped, Scoped, GoodDiscid, Lost
<1>2. CASE current_discid = None \/ l.value = None
  <2>1. Skip
    BY <1>2 DEF ParseScoped
  <2>2. disc_records' \in [Discs -> DiscRecords \cup {None}] /\ RowsKept'
    BY <1>1, <1>2, <2>1, NoRow DEF Skip
  <2> QED
    BY <1>1, <1>2, <2>1, <2>2, LineKeepsIInv DEF Skip
<1>3. CASE ~ (current_discid = None \/ l.value = None)
  <2>1. PICK c \in Discs : c = current_discid
    BY <1>3 DEF IInv, TypeOK
  <2>2. /\ disc_records' = [disc_records EXCEPT ![c] = WithRow(RecordOf(c), l)]
        /\ UNCHANGED <<current_discid, by_disc_id, skipped>>
    BY <1>3, <2>1 DEF ParseScoped
  <2>3. \A d \in Discs : Kept(d)
    BY RowsKeptIs DEF IInv, RowsKept
  <2>4. l.value \in Values
    BY <1>1, <1>3, LineType
  <2>5. disc_records'[c] \in DiscRecords /\ Kept(c)'
    <3>1. disc_records'[c] = WithRow(RecordOf(c), l)
      BY <2>2 DEF IInv, TypeOK
    <3> QED
      BY <1>1, <2>1, <2>3, <2>4, <3>1, KeptScoped
  <2>6. ASSUME NEW d \in Discs, d # c
        PROVE  Kept(d)'
    <3>1. disc_records'[d] = disc_records[d]
      BY <2>2, <2>6 DEF IInv, TypeOK
    <3>2. \A f \in Scoped : ~ Joins(l, d, f)
      BY <2>1, <2>6 DEF Joins
    <3> QED
      BY <1>1, <2>3, <3>1, <3>2, KeptUntouched
  <2>7. RowsKept'
    BY <2>5, <2>6 DEF RowsKept
  <2>8. disc_records' \in [Discs -> DiscRecords \cup {None}]
    BY <2>2, <2>5 DEF IInv, TypeOK
  <2> QED
    BY <1>1, <1>3, <2>2, <2>7, <2>8, LineKeepsIInv
<1> QED
  BY <1>2, <1>3

\* Global, legacy, unknown and blank lines.
LEMMA OthersKeepIInv ==
    ASSUME IInv, NEW l \in Lines, lines' = Append(lines, l),
           ParseGlobal(l) \/ ParseLegacy(l) \/ ParseUnknown(l) \/ SkipBlank(l)
    PROVE  IInv'
<1> USE DEF Skip
<1>1. /\ l.leader \in Globals \cup {"legacy", "unknown", "blank"}
      /\ l.leader \notin Scoped /\ ~ GoodDiscid(l)
  BY LeadersAssumption DEF ParseGlobal, ParseLegacy, ParseUnknown, SkipBlank, Scoped,
                           GoodDiscid
<1>2. UNCHANGED <<disc_records, current_discid>>
  BY DEF ParseGlobal, ParseLegacy, ParseUnknown, SkipBlank
<1>3. disc_records' \in [Discs -> DiscRecords \cup {None}] /\ RowsKept'
  BY <1>1, <1>2, NoRow
<1>4. by_disc_id' = IF l.leader = "legacy" /\ l.disc # None
                      THEN [by_disc_id EXCEPT ![l.disc] = l.value] ELSE by_disc_id
  BY LeadersAssumption DEF ParseGlobal, ParseLegacy, ParseUnknown, SkipBlank
<1>5. skipped' = IF Lost(l) THEN Append(skipped, LineNumber) ELSE skipped
  BY <1>1, LeadersAssumption DEF ParseGlobal, ParseLegacy, ParseUnknown, SkipBlank, Lost
<1> QED
  BY <1>1, <1>2, <1>3, <1>4, <1>5, LineKeepsIInv

LEMMA NextIInv == IInv /\ [Next]_vars => IInv'
<1> SUFFICES ASSUME IInv, [Next]_vars PROVE IInv'
  OBVIOUS
<1>1. ASSUME NEW l \in Lines, ReadLine(l)
      PROVE  IInv'
  <2>1. lines' = Append(lines, l)
    BY <1>1 DEF ReadLine
  <2>2. CASE ParseDiscid(l)
    BY <2>1, <2>2, DiscidKeepsIInv
  <2>3. CASE ParseScoped(l)
    BY <2>1, <2>3, ScopedKeepsIInv
  <2>4. CASE ParseGlobal(l) \/ ParseLegacy(l) \/ ParseUnknown(l) \/ SkipBlank(l)
    BY <2>1, <2>4, OthersKeepIInv
  <2> QED
    BY <1>1, <2>2, <2>3, <2>4 DEF ReadLine
<1>2. CASE UNCHANGED vars
  <2>1. UNCHANGED <<lines, current_discid, by_disc_id, disc_records, skipped>>
    BY <1>2 DEF vars
  <2>2. TypeOK'
    BY <2>1 DEF IInv, TypeOK
  <2>3. \A m : ScopeAt(m)' = ScopeAt(m)
    BY <2>1 DEF ScopeAt, DiscidRows
  <2>4. ScopeInv'
    BY <2>1, <2>3 DEF IInv, ScopeInv
  <2>5. LegacyInv'
    BY <2>1 DEF IInv, LegacyInv, LegacyFor, LastValue
  <2>6. \A d, f : RowsFor(d, f)' = RowsFor(d, f)
    BY <2>1, <2>3 DEF RowsFor
  <2>7. \A d, f : LastValue(RowsFor(d, f))' = LastValue(RowsFor(d, f))
    BY <2>1, <2>6 DEF LastValue
  <2>8. RowsStayWithTheirDisc'
    BY <2>1, <2>3, <2>6, <2>7 DEF IInv, RowsStayWithTheirDisc
  <2>9. ReportIsExact'
    BY <2>1, <2>3 DEF IInv, ReportIsExact, Unreadable
  <2> QED
    BY <2>2, <2>4, <2>5, <2>8, <2>9 DEF IInv
<1> QED
  BY <1>1, <1>2 DEF Next

\* The invariant says what a lookup finds.
LEMMA LookupIs == IInv => LookupFindsTheVuk
<1> SUFFICES ASSUME IInv, NEW d \in Discs
             PROVE  VukForDisc(d) = IF LegacyFor(d) # {} THEN LastValue(LegacyFor(d))
                                    ELSE LastValue(RowsFor(d, "VUK"))
  BY DEF LookupFindsTheVuk
<1>1. "VUK" \in Fields
  BY LeadersAssumption
<1>2. by_disc_id[d] = LastValue(LegacyFor(d))
  BY DEF IInv, LegacyInv
<1>3. ASSUME LegacyFor(d) # {}
      PROVE  LastValue(LegacyFor(d)) # None
  <2>1. PICK n \in Nat : n = Len(lines) /\ lines \in Seq(Lines)
    BY LenProperties DEF IInv, TypeOK
  <2>2. LegacyFor(d) \in SUBSET (1..n)
    BY <2>1 DEF LegacyFor
  <2>3. PICK k \in LegacyFor(d) : k = Last(LegacyFor(d))
    BY <1>3, <2>2, LastOf
  <2>4. lines[k] \in Lines /\ lines[k].leader = "legacy" /\ lines[k].disc = d
    BY <2>1, <2>3, ElementOfSeq DEF LegacyFor
  <2>5. lines[k].value # None
    BY <2>4, LineType, NamesAssumption
  <2> QED
    BY <1>3, <2>3, <2>5 DEF LastValue
<1>4. LegacyFor(d) = {} => LastValue(LegacyFor(d)) = None
  BY DEF LastValue
<1>5. LastValue(RowsFor(d, "VUK")) =
         IF disc_records[d] = None THEN None ELSE disc_records[d].fields["VUK"]
  <2>1. CASE disc_records[d] = None
    <3>1. RowsFor(d, "VUK") = {}
      BY <2>1 DEF IInv, RowsStayWithTheirDisc, RowsFor
    <3> QED
      BY <2>1, <3>1 DEF LastValue
  <2>2. CASE disc_records[d] # None
    BY <1>1, <2>2 DEF IInv, RowsStayWithTheirDisc
  <2> QED
    BY <2>1, <2>2
<1> QED
  BY <1>2, <1>3, <1>4, <1>5 DEF VukForDisc
-----------------------------------------------------------------------------
(* Theorems *)

LEMMA Invariance == Spec => []IInv
BY InitIInv, NextIInv, PTL DEF Spec

\* parse_with_report: every row under a well-formed DISCID row ends up with that
\* disc and no other, the last value of each field and all title keys in order,
\* however long the file and however its scopes interleave.
THEOREM RowsStay == Spec => []RowsStayWithTheirDisc
BY Invariance, PTL DEF IInv

\* ParseReport lists the lines that were lost, all of them and no other, in the
\* order of the file.
THEOREM ReportExact == Spec => []ReportIsExact
BY Invariance, PTL DEF IInv

\* vuk_for_disc finds the VUK of the disc's last legacy line, else that of the
\* last VUK row in its scopes, else none.
THEOREM LookupFinds == Spec => []LookupFindsTheVuk
BY LookupIs, Invariance, PTL
=============================================================================
