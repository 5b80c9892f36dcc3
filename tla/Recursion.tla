------------------------------ MODULE Recursion ------------------------------
(***************************************************************************)
(* What the proofs need of the numbers: induction, stated for a set, and   *)
(* that a function defined by recursion over 0..n is the function its      *)
(* equation describes; how sequences are joined and parted; and what       *)
(* division is.                                                            *)
(***************************************************************************)
EXTENDS Integers, Sequences, FiniteSetTheorems, SequenceTheorems, TLAPS

\* A set that has 0, and with a number the next one, has every number.  (Were
\* some number missing, take the least k with k missing: 1..k is minimal among
\* the intervals that end in a missing number.)
LEMMA SetInduction ==
    ASSUME NEW S \in SUBSET Nat, 0 \in S, \A n \in S : n + 1 \in S
    PROVE  S = Nat
<1> SUFFICES ASSUME NEW n \in Nat, n \notin S PROVE FALSE
  OBVIOUS
<1> DEFINE T == {b \in SUBSET (1..n) : \E k \in 0..n : b = 1..k /\ k \notin S}
           Fin == FiniteSubsetsOf(1..n)
           Less == StrictSubsetOrdering(1..n)
<1>1. IsWellFoundedOn(Less, Fin)
  BY FS_StrictSubsetOrderingWellFounded
<1>2. T \subseteq Fin
  BY FS_Interval, FS_Subset DEF FiniteSubsetsOf
<1>3. T # {}
  <2>1. 1..n \in T
    OBVIOUS
  <2> QED
    BY <2>1
<1>4. PICK b \in T : \A c \in T : ~ (<<c, b>> \in Less)
  <2> HIDE DEF T, Fin, Less
  <2> QED
    BY <1>1, <1>2, <1>3, WFMin
<1>5. PICK k \in 0..n : b = 1..k /\ k \notin S
  OBVIOUS
<1>6. k # 0 /\ k - 1 \in 0..n /\ k - 1 \notin S
  <2>1. k # 0
    BY <1>5
  <2>2. k - 1 \in Nat /\ (k - 1) + 1 = k
    BY <2>1
  <2> QED
    BY <1>5, <2>1, <2>2
<1>7. 1..(k - 1) \in SUBSET (1..n) /\ 1..k \in SUBSET (1..n)
  BY <1>6
<1>8. 1..(k - 1) \in T
  BY <1>6, <1>7
<1>9. <<1..(k - 1), b>> \in Less
  <2>1. k \in 1..k /\ k \notin 1..(k - 1) /\ 1..(k - 1) \subseteq 1..k
    BY <1>6
  <2> QED
    BY <1>5, <1>7, <2>1 DEF StrictSubsetOrdering
<1> QED
  BY <1>4, <1>8, <1>9

\* f is computed from its value at 0 by the steps G.
IsRecursion(f, N, base, G) ==
    \A n \in 0..N : f[n] = IF n = 0 THEN base ELSE G[n][f[n - 1]]

\* Step n of a recursion is the function G[n] on T.  Values in T for every
\* number up to N: there is such a function, by extending one for n to n + 1.
LEMMA RecursionExists ==
    ASSUME NEW N \in Nat, NEW T, NEW base \in T, NEW G \in [1..N -> [T -> T]]
    PROVE  \E f \in [0..N -> T] : IsRecursion(f, N, base, G)
<1> DEFINE Upto(k, f) == \A n \in 0..k : f[n] = IF n = 0 THEN base ELSE G[n][f[n - 1]]
           S == {k \in Nat : k <= N => \E f \in [0..k -> T] : Upto(k, f)}
<1>1. 0 \in S
  <2>1. [n \in 0..0 |-> base] \in [0..0 -> T]
    OBVIOUS
  <2>2. Upto(0, [n \in 0..0 |-> base])
    OBVIOUS
  <2> QED
    BY <2>1, <2>2
<1>2. ASSUME NEW k \in S PROVE k + 1 \in S
  <2>1. SUFFICES ASSUME k + 1 <= N PROVE \E f \in [0..(k + 1) -> T] : Upto(k + 1, f)
    <3> HIDE DEF Upto
    <3> QED
      OBVIOUS
  <2>2. PICK f \in [0..k -> T] : Upto(k, f)
    BY <2>1
  <2>3. G[k + 1] \in [T -> T] /\ f[k] \in T
    BY <2>1
  <2> DEFINE g == [n \in 0..(k + 1) |-> IF n = k + 1 THEN G[k + 1][f[k]] ELSE f[n]]
  <2>4. g \in [0..(k + 1) -> T]
    BY <2>3
  <2>5. ASSUME NEW n \in 0..(k + 1)
        PROVE  g[n] = IF n = 0 THEN base ELSE G[n][g[n - 1]]
    <3>1. CASE n = k + 1
      <4>1. n - 1 = k /\ k \in 0..(k + 1) /\ k # k + 1
        BY <3>1
      <4>2. g[n - 1] = f[k] /\ g[n] = G[k + 1][f[k]]
        BY <3>1, <4>1
      <4> QED
        BY <3>1, <4>1, <4>2
    <3>2. CASE n # k + 1
      <4>1. n \in 0..k
        BY <3>2
      <4>2. g[n] = f[n] /\ (n # 0 => g[n - 1] = f[n - 1])
        BY <4>1
      <4> QED
        BY <2>2, <4>1, <4>2
    <3> QED
      BY <3>1, <3>2
  <2> HIDE DEF g
  <2> QED
    BY <2>4, <2>5
<1>3. S = Nat
  <2> HIDE DEF Upto
  <2>1. S \subseteq Nat
    OBVIOUS
  <2> HIDE DEF S
  <2> QED
    BY <1>1, <1>2, <2>1, SetInduction
<1>4. N \in S
  BY <1>3
<1> QED
  BY <1>4 DEF IsRecursion
-----------------------------------------------------------------------------
(* Sequences *)

\* The sequence w is s and then t.
IsJoin(w, s, t) ==
    /\ Len(w) = Len(s) + Len(t)
    /\ \A c \in 1..Len(s) : w[c] = s[c]
    /\ \A i \in 1..Len(t) : w[Len(s) + i] = t[i]

\* The sequence x is the elements of s after lo of them and up to the hi-th.
IsPart(x, s, lo, hi) == Len(x) = hi - lo /\ \A i \in 1..(hi - lo) : x[i] = s[lo + i]

\* Two sequences end to end.
LEMMA JoinedEnds ==
    ASSUME NEW V, NEW s \in Seq(V), NEW t \in Seq(V)
    PROVE  s \o t \in Seq(V) /\ IsJoin(s \o t, s, t)
<1>1. s \o t \in Seq(V) /\ Len(s \o t) = Len(s) + Len(t)
      /\ \A i \in 1..(Len(s) + Len(t)) : (s \o t)[i] = IF i <= Len(s) THEN s[i] ELSE t[i - Len(s)]
  BY ConcatProperties
<1>2. Len(s) \in Nat /\ Len(t) \in Nat
  OBVIOUS
<1> QED
  BY <1>1, <1>2 DEF IsJoin

\* A sequence is its elements.
LEMMA SameSequence ==
    ASSUME NEW V, NEW s \in Seq(V), NEW t \in Seq(V), Len(s) = Len(t),
           \A i \in 1..Len(s) : s[i] = t[i]
    PROVE  s = t
OBVIOUS

\* A part of a sequence.
LEMMA Part ==
    ASSUME NEW V, NEW s \in Seq(V), NEW lo \in Nat, NEW hi \in Nat, lo <= hi, hi <= Len(s)
    PROVE  SubSeq(s, lo + 1, hi) \in Seq(V) /\ IsPart(SubSeq(s, lo + 1, hi), s, lo, hi)
<1>1. \A i \in (lo + 1)..hi : s[i] \in V
  OBVIOUS
<1>2. lo + 1 \in Int /\ hi \in Int /\ hi - (lo + 1) + 1 = hi - lo
  OBVIOUS
<1>3. /\ SubSeq(s, lo + 1, hi) \in Seq(V)
      /\ Len(SubSeq(s, lo + 1, hi)) = IF lo + 1 <= hi THEN hi - lo ELSE 0
      /\ \A i \in 1..(hi - lo) : SubSeq(s, lo + 1, hi)[i] = s[(lo + 1) + i - 1]
  BY <1>1, <1>2, SubSeqProperties
<1>4. (IF lo + 1 <= hi THEN hi - lo ELSE 0) = hi - lo
  OBVIOUS
<1>5. \A i \in 1..(hi - lo) : (lo + 1) + i - 1 = lo + i
  OBVIOUS
<1> QED
  BY <1>3, <1>4, <1>5 DEF IsPart

\* The same part of two sequences that agree there.
LEMMA SamePart ==
    ASSUME NEW V, NEW s \in Seq(V), NEW t \in Seq(V), NEW lo \in Nat, NEW hi \in Nat,
           lo <= hi, hi <= Len(s), hi <= Len(t), \A i \in (lo + 1)..hi : s[i] = t[i]
    PROVE  SubSeq(s, lo + 1, hi) = SubSeq(t, lo + 1, hi)
<1>1. PICK a \in Seq(V) :
         a = SubSeq(s, lo + 1, hi) /\ IsPart(a, s, lo, hi)
  BY Part, Zenon
<1>2. PICK b \in Seq(V) :
         b = SubSeq(t, lo + 1, hi) /\ IsPart(b, t, lo, hi)
  BY Part, Zenon
<1>3. \A i \in 1..(hi - lo) : lo + i \in (lo + 1)..hi
  OBVIOUS
<1>4. a = b
  BY <1>1, <1>2, <1>3, SameSequence DEF IsPart
<1> QED
  BY <1>1, <1>2, <1>4

\* Two adjacent parts.
LEMMA AdjacentParts ==
    ASSUME NEW V, NEW s \in Seq(V), NEW a \in Nat, NEW b \in Nat, NEW c \in Nat,
           a <= b, b <= c, c <= Len(s)
    PROVE  SubSeq(s, a + 1, b) \o SubSeq(s, b + 1, c) = SubSeq(s, a + 1, c)
<1>1. a + 1 \in 1..(Len(s) + 1) /\ b \in ((a + 1) - 1)..Len(s) /\ c \in b..Len(s)
  OBVIOUS
<1> QED
  BY <1>1, ConcatAdjacentSubSeq, Zenon

\* The first part.
LEMMA Prefix ==
    ASSUME NEW V, NEW s \in Seq(V), NEW a \in Nat, NEW b \in Nat, a <= b, b <= Len(s)
    PROVE  SubSeq(s, 1, a) \in Seq(V) /\ SubSeq(s, 1, a) \o SubSeq(s, a + 1, b) = SubSeq(s, 1, b)
<1>1. 1 \in 1..(Len(s) + 1) /\ a \in (1 - 1)..Len(s) /\ b \in a..Len(s)
  OBVIOUS
<1>2. SubSeq(s, 1, a) \o SubSeq(s, a + 1, b) = SubSeq(s, 1, b)
  BY <1>1, ConcatAdjacentSubSeq, Zenon
<1>3. SubSeq(s, 0 + 1, a) \in Seq(V)
  <2>1. 0 \in Nat /\ 0 <= a /\ a <= Len(s)
    OBVIOUS
  <2> QED
    BY <2>1, Part, Zenon
<1> QED
  BY <1>2, <1>3

\* The brackets do not matter.
EitherWay(a, b, c) == a \o (b \o c) = (a \o b) \o c

LEMMA EitherGrouping ==
    ASSUME NEW V, NEW a \in Seq(V), NEW b \in Seq(V), NEW c \in Seq(V)
    PROVE  EitherWay(a, b, c)
BY ConcatAssociative DEF EitherWay

Regrouped(x, a, b, c) == ((x \o a) \o b) \o c = x \o ((a \o b) \o c)

LEMMA Regroup ==
    ASSUME NEW V, NEW x \in Seq(V), NEW a \in Seq(V), NEW b \in Seq(V), NEW c \in Seq(V)
    PROVE  Regrouped(x, a, b, c)
<1>1. (x \o a) \o b = x \o (a \o b)
  BY ConcatAssociative
<1>2. PICK d \in Seq(V) : d = a \o b
  BY ConcatProperties
<1>3. EitherWay(x, d, c)
  BY EitherGrouping, Zenon
<1>4. (x \o d) \o c = x \o (d \o c)
  BY <1>3 DEF EitherWay
<1> QED
  BY <1>1, <1>2, <1>4 DEF Regrouped

\* The same facts under names.
Adjoin(s, a, b, c) == SubSeq(s, a + 1, b) \o SubSeq(s, b + 1, c) = SubSeq(s, a + 1, c)
Extends(s, a, b) == SubSeq(s, 1, a) \o SubSeq(s, a + 1, b) = SubSeq(s, 1, b)

LEMMA Adjoining ==
    ASSUME NEW V, NEW s \in Seq(V), NEW a \in Nat, NEW b \in Nat, NEW c \in Nat,
           a <= b, b <= c, c <= Len(s)
    PROVE  Adjoin(s, a, b, c)
BY AdjacentParts DEF Adjoin

LEMMA Extending ==
    ASSUME NEW V, NEW s \in Seq(V), NEW a \in Nat, NEW b \in Nat, a <= b, b <= Len(s)
    PROVE  Extends(s, a, b)
BY Prefix DEF Extends

\* A part of a part.
LEMMA PartOfPart ==
    ASSUME NEW V, NEW s \in Seq(V), NEW a \in Nat, NEW b \in Nat, a <= b, b <= Len(s),
           NEW lo \in Nat, NEW hi \in Nat, lo <= hi, hi <= b - a
    PROVE  SubSeq(SubSeq(s, a + 1, b), lo + 1, hi) = SubSeq(s, (a + lo) + 1, a + hi)
<1>1. PICK x \in Seq(V) :
         x = SubSeq(s, a + 1, b) /\ IsPart(x, s, a, b)
  BY Part, Zenon
<1>2. PICK y \in Seq(V) :
         y = SubSeq(x, lo + 1, hi) /\ IsPart(y, x, lo, hi)
  <2>1. hi <= Len(x)
    BY <1>1 DEF IsPart
  <2> QED
    BY <2>1, Part, Zenon
<1>3. PICK m \in Nat, n \in Nat : m = a + lo /\ n = a + hi
  OBVIOUS
<1>4. PICK z \in Seq(V) :
         z = SubSeq(s, m + 1, n) /\ IsPart(z, s, m, n)
  <2>1. m <= n /\ n <= Len(s)
    BY <1>3
  <2> QED
    BY <2>1, Part, Zenon
<1>5. n - m = hi - lo
  BY <1>3
<1>6. ASSUME NEW i \in 1..(hi - lo) PROVE y[i] = z[i]
  <2>1. lo + i \in 1..(b - a) /\ a + (lo + i) = m + i
    BY <1>3
  <2> QED
    BY <1>1, <1>2, <1>4, <1>5, <2>1 DEF IsPart
<1>7. y = z
  BY <1>2, <1>4, <1>5, <1>6, SameSequence DEF IsPart
<1> QED
  BY <1>1, <1>2, <1>3, <1>4, <1>7
-----------------------------------------------------------------------------
(* Sequences of numbers *)

\* Two sequences end to end.
LEMMA Joined ==
    ASSUME NEW s \in Seq(Nat), NEW t \in Seq(Nat)
    PROVE  /\ s \o t \in Seq(Nat) /\ Len(s \o t) = Len(s) + Len(t)
           /\ \A c \in 1..Len(s) : (s \o t)[c] = s[c]
           /\ \A i \in 1..Len(t) : (s \o t)[Len(s) + i] = t[i]
<1>1. s \o t \in Seq(Nat) /\ Len(s \o t) = Len(s) + Len(t)
      /\ \A i \in 1..(Len(s) + Len(t)) : (s \o t)[i] = IF i <= Len(s) THEN s[i] ELSE t[i - Len(s)]
  BY ConcatProperties
<1>2. Len(s) \in Nat /\ Len(t) \in Nat
  OBVIOUS
<1> QED
  BY <1>1, <1>2

\* A sequence is its elements.
LEMMA Same ==
    ASSUME NEW s \in Seq(Nat), NEW t \in Seq(Nat), Len(s) = Len(t),
           \A i \in 1..Len(s) : s[i] = t[i]
    PROVE  s = t
OBVIOUS
-----------------------------------------------------------------------------
(* Division *)

\* A larger factor, a larger product.
LEMMA Monotone ==
    ASSUME NEW a \in Nat, NEW b \in Nat, NEW P \in Nat, a <= b
    PROVE  a * P <= b * P
OBVIOUS

\* What quotient and remainder are.
LEMMA Division ==
    ASSUME NEW n \in Nat, NEW P \in Nat \ {0}
    PROVE  n \div P \in Nat /\ n % P \in 0..(P - 1) /\ n = ((n \div P) * P) + (n % P)
OBVIOUS

\* The multiples of P are in the order of their factors.
LEMMA Factors ==
    ASSUME NEW a \in Nat, NEW b \in Nat, NEW P \in Nat, a * P < b * P
    PROVE  a < b
<1>1. SUFFICES ASSUME b <= a PROVE FALSE
  OBVIOUS
<1>2. b * P <= a * P
  BY <1>1, Monotone
<1>3. PICK x \in Nat, y \in Nat : x = a * P /\ y = b * P
  OBVIOUS
<1> QED
  BY <1>2, <1>3

\* There is no multiple of P between two neighbours.
LEMMA NextMultiple ==
    ASSUME NEW a \in Nat, NEW b \in Nat, NEW P \in Nat, a < b
    PROVE  (a * P) + P <= b * P
<1>1. (a + 1) * P <= b * P
  BY Monotone
<1>2. (a + 1) * P = (a * P) + P
  OBVIOUS
<1> QED
  BY <1>1, <1>2

\* They are the only numbers that are so.
LEMMA Quotient ==
    ASSUME NEW q \in Nat, NEW n \in Nat, NEW P \in Nat \ {0}, q * P <= n, n < (q * P) + P
    PROVE  n \div P = q /\ n % P = n - (q * P)
<1>1. PICK a \in Nat, r \in 0..(P - 1) : a = n \div P /\ r = n % P
  BY Division
<1>2. PICK x \in Nat, y \in Nat : x = a * P /\ y = q * P
  OBVIOUS
<1>3. n = x + r
  BY <1>1, <1>2, Division
<1>4. ~(a < q)
  BY <1>2, <1>3, NextMultiple
<1>5. ~(q < a)
  BY <1>2, <1>3, NextMultiple
<1> QED
  BY <1>1, <1>2, <1>3, <1>4, <1>5
==============================================================================
