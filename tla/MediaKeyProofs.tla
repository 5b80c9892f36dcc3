--------------------------- MODULE MediaKeyProofs ---------------------------
(***************************************************************************)
(* Proofs about module MediaKey, for trees of every depth, every MKB of    *)
(* the licensing authority and every device.  First the tree: the masks of *)
(* src/subdiff.rs, which are divisions by powers of 2, cut it into the     *)
(* intervals of leaves the authority means.  Then the keys of a device:    *)
(* among those of one family exactly one is above the target.  Then the    *)
(* derivation.                                                             *)
(***************************************************************************)
EXTENDS MediaKey, Recursion

LEMMA Multiple ==
    ASSUME NEW n \in Nat, NEW P \in Nat \ {0}
    PROVE  n % P = 0 <=> \E b \in Nat : n = b * P
<1>1. ASSUME n % P = 0 PROVE \E b \in Nat : n = b * P
  <2>1. PICK a \in Nat, r \in 0..(P - 1) : a = n \div P /\ r = n % P
    BY Division
  <2>2. n = (a * P) + r
    BY <2>1, Division
  <2>3. PICK x \in Nat : x = a * P
    OBVIOUS
  <2>4. n = a * P
    BY <1>1, <2>1, <2>2, <2>3
  <2> QED
    BY <2>4
<1>2. ASSUME NEW b \in Nat, n = b * P PROVE n % P = 0
  <2>1. PICK x \in Nat : x = b * P
    OBVIOUS
  <2>2. b * P <= n /\ n < (b * P) + P
    BY <1>2, <2>1
  <2>3. n % P = n - (b * P)
    BY <2>2, Quotient
  <2> QED
    BY <1>2, <2>1, <2>3
<1> QED
  BY <1>1, <1>2

LEMMA Associative ==
    ASSUME NEW a \in Nat, NEW b \in Nat, NEW c \in Nat PROVE (a * b) * c = a * (b * c)
OBVIOUS
-----------------------------------------------------------------------------
(* Powers of 2 *)

LEMMA Pow2Type ==
    /\ Pow2[0] = 1
    /\ \A z \in 1..W : Pow2[z] = 2 * Pow2[z - 1]
    /\ \A z \in 0..W : Pow2[z] \in Nat \ {0}
<1> DEFINE F(f) == [z \in 0..W |-> IF z = 0 THEN 1 ELSE 2 * f[z - 1]]
           T == Nat \ {0}
           G == [n \in 1..W |-> [x \in T |-> 2 * x]]
<1>1. W \in Nat
  BY WidthAssumption
<1>2. \E f : f = F(f) /\ f \in [0..W -> T]
  <2>1. G \in [1..W -> [T -> T]] /\ 1 \in T
    OBVIOUS
  <2> HIDE DEF G, T
  <2>2. PICK f \in [0..W -> T] : IsRecursion(f, W, 1, G)
    BY <1>1, <2>1, RecursionExists
  <2>3. ASSUME NEW n \in 0..W, n # 0 PROVE G[n][f[n - 1]] = 2 * f[n - 1]
    <3>1. n \in 1..W /\ n - 1 \in 0..W
      BY <1>1, <2>3
    <3> QED
      BY <3>1 DEF G
  <2>4. f = F(f)
    BY <2>2, <2>3 DEF IsRecursion
  <2> QED
    BY <2>4
<1>3. Pow2 = F(Pow2)
  <2>1. Pow2 = CHOOSE f : f = F(f)
    BY DEF Pow2
  <2> HIDE DEF F
  <2> QED
    BY <1>2, <2>1
<1>4. DOMAIN Pow2 = 0..W /\ \A z \in 0..W : Pow2[z] = IF z = 0 THEN 1 ELSE 2 * Pow2[z - 1]
  BY <1>3
<1>5. \A z \in 1..W : z \in 0..W /\ z # 0
  BY <1>1
<1> HIDE DEF F
<1> DEFINE S == {z \in Nat : z <= W => Pow2[z] \in Nat \ {0}}
<1>6. 0 \in S
  BY <1>1, <1>4
<1>7. ASSUME NEW z \in S PROVE z + 1 \in S
  <2>1. CASE z + 1 <= W
    <3>1. z + 1 \in 0..W /\ z + 1 # 0 /\ (z + 1) - 1 = z /\ Pow2[z] \in Nat \ {0}
      BY <1>1, <2>1
    <3>2. Pow2[z + 1] = 2 * Pow2[z]
      BY <1>4, <3>1
    <3> QED
      BY <3>1, <3>2
  <2> QED
    BY <2>1
<1>8. S = Nat
  <2>1. S \subseteq Nat
    OBVIOUS
  <2> HIDE DEF S
  <2> QED
    BY <1>6, <1>7, <2>1, SetInduction
<1>9. \A z \in 0..W : Pow2[z] \in Nat \ {0}
  BY <1>1, <1>8
<1>10. 0 \in 0..W
  BY <1>1
<1> QED
  BY <1>4, <1>5, <1>9, <1>10

LEMMA Pow2Divides ==
    ASSUME NEW z \in 0..W, NEW y \in 0..W, z <= y
    PROVE  \E c \in Nat \ {0} : Pow2[y] = c * Pow2[z]
<1> DEFINE S == {k \in Nat : z + k <= W => \E c \in Nat \ {0} : Pow2[z + k] = c * Pow2[z]}
<1>0. W \in Nat /\ z \in Nat
  BY WidthAssumption
<1>1. 0 \in S
  <2>1. Pow2[z + 0] = 1 * Pow2[z]
    BY Pow2Type
  <2> QED
    BY <2>1
<1>2. ASSUME NEW k \in S PROVE k + 1 \in S
  <2>1. SUFFICES ASSUME z + (k + 1) <= W
                 PROVE  \E c \in Nat \ {0} : Pow2[z + (k + 1)] = c * Pow2[z]
    OBVIOUS
  <2>2. PICK c \in Nat \ {0} : Pow2[z + k] = c * Pow2[z]
    BY <1>0, <2>1
  <2>3. z + (k + 1) \in 1..W /\ (z + (k + 1)) - 1 = z + k
    BY <1>0, <2>1
  <2>4. Pow2[z + (k + 1)] = 2 * (c * Pow2[z])
    BY <2>2, <2>3, Pow2Type
  <2>5. 2 * (c * Pow2[z]) = (2 * c) * Pow2[z]
    BY Pow2Type
  <2>6. 2 * c \in Nat \ {0}
    OBVIOUS
  <2> QED
    BY <2>4, <2>5, <2>6
<1>3. S = Nat
  <2>1. S \subseteq Nat
    OBVIOUS
  <2> HIDE DEF S
  <2> QED
    BY <1>1, <1>2, <2>1, SetInduction
<1>4. PICK k \in Nat : z + k = y /\ z + k <= W
  <2>1. y - z \in Nat /\ z + (y - z) = y /\ y <= W
    BY <1>0
  <2> QED
    BY <2>1
<1>5. \E c \in Nat \ {0} : Pow2[z + k] = c * Pow2[z]
  <2>1. k \in S
    BY <1>3
  <2> QED
    BY <1>4, <2>1
<1> QED
  BY <1>4, <1>5
-----------------------------------------------------------------------------
(* Nodes *)

\* A node at the level of z: the middle of an interval of length 2^z.
Form(n, q, z) ==
    /\ z \in 1..W /\ q \in Nat
    /\ n = (q * Pow2[z]) + Pow2[z - 1]

\* What the other lemmas need of the two powers of a level.
LEMMA Level ==
    ASSUME NEW z \in 1..W
    PROVE  \E P \in Nat \ {0}, h \in Nat \ {0} :
              P = Pow2[z] /\ h = Pow2[z - 1] /\ P = 2 * h
<1>1. z - 1 \in 0..W /\ z \in 0..W
  BY WidthAssumption
<1> QED
  BY <1>1, Pow2Type

\* A multiple of a power is one of every lesser power.
LEMMA NoRemainder ==
    ASSUME NEW a \in Nat, NEW z \in 0..W, NEW y \in 0..W, z <= y
    PROVE  (a * Pow2[y]) % Pow2[z] = 0
<1>1. PICK c \in Nat \ {0} : Pow2[y] = c * Pow2[z]
  BY Pow2Divides
<1>2. PICK P \in Nat \ {0}, Q \in Nat \ {0} : P = Pow2[z] /\ Q = Pow2[y]
  BY Pow2Type
<1>3. PICK b \in Nat : b = a * c
  OBVIOUS
<1>4. a * Q = b * P
  BY <1>1, <1>2, <1>3, Associative
<1>5. PICK n \in Nat : n = b * P
  OBVIOUS
<1>6. n % P = 0
  BY <1>2, <1>5, Multiple
<1> QED
  BY <1>2, <1>4, <1>5, <1>6

LEMMA FormZeros ==
    ASSUME NEW n \in Nat, NEW q, NEW z, Form(n, q, z)
    PROVE  n # 0 /\ VZeros(n) = z
<1>1. z \in 1..W /\ q \in Nat /\ z - 1 \in 0..(W - 1) /\ z - 1 \in 0..W /\ z \in 0..W /\ W \in Nat
  BY WidthAssumption DEF Form
<1>2. PICK P \in Nat \ {0}, h \in Nat \ {0} : P = Pow2[z] /\ h = Pow2[z - 1] /\ P = 2 * h
  BY <1>1, Level
<1>3. n = (q * P) + h
  BY <1>2 DEF Form
<1>4. PICK x \in Nat : x = q * P
  BY <1>1
<1>5. n % P = h
  BY <1>1, <1>2, <1>3, <1>4, Quotient
<1>6. PICK a \in Nat : a = (2 * q) + 1 /\ n = a * h
  <2>1. q * (2 * h) = (2 * q) * h /\ ((2 * q) + 1) * h = ((2 * q) * h) + h
    BY <1>1
  <2> QED
    BY <1>1, <1>2, <1>3, <2>1
<1> DEFINE Found(y) == n % Pow2[y] = 0 /\ n % Pow2[y + 1] # 0
<1>7. Found(z - 1)
  <2>1. n % Pow2[z - 1] = 0
    BY <1>1, <1>2, <1>6, NoRemainder
  <2>2. (z - 1) + 1 = z
    BY <1>1
  <2> QED
    BY <1>2, <1>5, <2>1, <2>2
<1>8. ASSUME NEW y \in 0..(W - 1), Found(y) PROVE y = z - 1
  <2>1. y \in 0..W /\ y + 1 \in 0..W /\ y \in Nat
    BY <1>1
  <2>2. CASE y + 1 <= z - 1
    <3>1. (a * Pow2[z - 1]) % Pow2[y + 1] = 0
      BY <1>1, <2>1, <2>2, NoRemainder
    <3> QED
      BY <1>2, <1>6, <1>8, <3>1
  <2>3. CASE z <= y
    <3>1. PICK R \in Nat \ {0} : R = Pow2[y]
      BY <2>1, Pow2Type
    <3>2. PICK b \in Nat : n = b * R
      BY <1>8, <3>1, Multiple
    <3>3. n = b * Pow2[y]
      BY <3>1, <3>2
    <3>4. (b * Pow2[y]) % Pow2[z] = 0
      BY <1>1, <2>1, <2>3, NoRemainder
    <3> QED
      BY <1>2, <1>5, <3>3, <3>4
  <2> QED
    BY <1>1, <2>1, <2>2, <2>3
<1>9. TrailingZeros(n) = z - 1
  <2>1. TrailingZeros(n) = CHOOSE y \in 0..(W - 1) : Found(y)
    BY DEF TrailingZeros
  <2> HIDE DEF Found
  <2> QED
    BY <1>1, <1>7, <1>8, <2>1
<1>10. n # 0
  BY <1>2, <1>3, <1>4
<1>11. (z - 1) + 1 = z
  BY <1>1
<1> QED
  BY <1>9, <1>10, <1>11 DEF VZeros

LEMMA NodeForm ==
    ASSUME NEW n \in Nodes PROVE \E q \in Nat : Form(n, q, VZeros(n))
<1>1. W \in Nat /\ 0 \in 0..W /\ W \in 0..W
  BY WidthAssumption
<1>2. PICK M \in Nat \ {0} : M = Pow2[W]
  BY <1>1, Pow2Type
<1>3. n \in Nat /\ n # 0 /\ n < M
  BY <1>2 DEF Nodes
<1>4. n % Pow2[W] # 0
  <2>1. 0 * M <= n /\ n < (0 * M) + M
    BY <1>3
  <2>2. n % M = n - (0 * M)
    BY <1>3, <2>1, Quotient
  <2> QED
    BY <1>2, <1>3, <2>2
<1> DEFINE S == {z \in Nat : z <= W => n % Pow2[z] = 0}
<1>5. 0 \in S
  <2>1. n % 1 = 0
    BY <1>3
  <2> QED
    BY <2>1, Pow2Type
<1>6. PICK y \in S : y + 1 \notin S
  <2>1. S # Nat
    BY <1>1, <1>4
  <2>2. S \subseteq Nat
    OBVIOUS
  <2> HIDE DEF S
  <2> QED
    BY <1>5, <2>1, <2>2, SetInduction
<1>7. y \in Nat /\ y + 1 <= W /\ n % Pow2[y] = 0 /\ n % Pow2[y + 1] # 0
  BY <1>1, <1>6
<1>8. y + 1 \in 1..W /\ (y + 1) - 1 = y
  BY <1>1, <1>7
<1>9. PICK P \in Nat \ {0}, h \in Nat \ {0} : P = Pow2[y + 1] /\ h = Pow2[y] /\ P = 2 * h
  <2>1. PICK P \in Nat \ {0}, h \in Nat \ {0} :
           P = Pow2[y + 1] /\ h = Pow2[(y + 1) - 1] /\ P = 2 * h
    BY <1>8, Level
  <2> QED
    BY <1>8, <2>1
<1>10. PICK a \in Nat : n = a * h
  <2>1. n % h = 0
    BY <1>7, <1>9
  <2> QED
    BY <1>3, <2>1, Multiple
<1>11. PICK b \in Nat, r \in {0, 1} : a = (2 * b) + r
  <2>1. a \div 2 \in Nat /\ a % 2 \in {0, 1} /\ a = (2 * (a \div 2)) + (a % 2)
    OBVIOUS
  <2> QED
    BY <2>1
<1>12. (2 * b) * h = b * P /\ ((2 * b) + 1) * h = (b * P) + h
  <2>1. (2 * b) * h = b * (2 * h) /\ ((2 * b) + 1) * h = ((2 * b) * h) + h
    OBVIOUS
  <2> QED
    BY <1>9, <2>1
<1>13. r = 1
  <2>1. SUFFICES ASSUME r = 0 PROVE FALSE
    OBVIOUS
  <2>2. n = b * P
    BY <1>10, <1>11, <1>12, <2>1
  <2>3. PICK x \in Nat : x = b * P
    OBVIOUS
  <2>4. n % P = n - (b * P)
    BY <1>3, <2>2, <2>3, Quotient
  <2> QED
    BY <1>7, <1>9, <2>2, <2>3, <2>4
<1>14. n = (b * P) + h
  BY <1>10, <1>11, <1>12, <1>13
<1>15. Form(n, b, y + 1)
  BY <1>8, <1>9, <1>14 DEF Form
<1> QED
  BY <1>3, <1>15, FormZeros
-----------------------------------------------------------------------------
(* Intervals *)

Lo(n) == n - HalfSpan(n)
Hi(n) == n + HalfSpan(n)

\* The interval of a node is the q-th of length P, and its half is h.
Interval(n, q, P, h) ==
    /\ P = Pow2[VZeros(n)] /\ h = Pow2[VZeros(n) - 1] /\ P = 2 * h
    /\ HalfSpan(n) = h /\ n = (q * P) + h
    /\ Lo(n) = q * P /\ Hi(n) = (q * P) + P /\ Hi(n) <= Pow2[W]

LEMMA NodeInterval ==
    ASSUME NEW n \in Nodes
    PROVE  /\ VZeros(n) \in 1..W /\ n \in Nat
           /\ \E q \in Nat, P \in Nat \ {0}, h \in Nat \ {0} : Interval(n, q, P, h)
<1>1. PICK q \in Nat : Form(n, q, VZeros(n))
  BY NodeForm
<1>2. VZeros(n) \in 1..W /\ VZeros(n) \in 0..W /\ W \in 0..W /\ VZeros(n) <= W
  BY <1>1, WidthAssumption DEF Form
<1>3. PICK P \in Nat \ {0}, h \in Nat \ {0} :
         P = Pow2[VZeros(n)] /\ h = Pow2[VZeros(n) - 1] /\ P = 2 * h
  BY <1>2, Level
<1>4. n = (q * P) + h
  BY <1>1, <1>3 DEF Form
<1>5. PICK x \in Nat : x = q * P
  OBVIOUS
<1>6. HalfSpan(n) = h
  BY <1>3 DEF HalfSpan
<1>7. Lo(n) = x /\ Hi(n) = x + P
  <2>1. Lo(n) = n - h /\ Hi(n) = n + h
    BY <1>6, Zenon DEF Lo, Hi
  <2>2. n = x + h /\ P = 2 * h
    BY <1>3, <1>4, <1>5, Zenon
  <2>3. (x + h) - h = x /\ (x + h) + h = x + (2 * h)
    OBVIOUS
  <2> QED
    BY <2>1, <2>2, <2>3, Zenon
<1>8. PICK c \in Nat \ {0}, M \in Nat \ {0} : M = Pow2[W] /\ M = c * P
  <2>1. PICK c \in Nat \ {0} : Pow2[W] = c * Pow2[VZeros(n)]
    BY <1>2, Pow2Divides
  <2>2. Pow2[W] \in Nat \ {0}
    BY <1>2, Pow2Type
  <2> QED
    BY <1>3, <2>1, <2>2
<1>9. x + P <= M
  <2>1. x < M
    BY <1>4, <1>5, <1>8 DEF Nodes
  <2>2. q < c
    BY <1>5, <1>8, <2>1, Factors
  <2> QED
    BY <1>5, <1>8, <2>2, NextMultiple
<1>10. Interval(n, q, P, h)
  BY <1>3, <1>4, <1>5, <1>6, <1>7, <1>8, <1>9 DEF Interval
<1>11. n \in Nat
  BY <1>4, <1>5
<1> QED
  BY <1>2, <1>10, <1>11

\* The middle of an interval is a node.
LEMMA IntervalNode ==
    ASSUME NEW q \in Nat, NEW z \in 1..W, NEW n,
           n = (q * Pow2[z]) + Pow2[z - 1], (q * Pow2[z]) + Pow2[z] <= Pow2[W]
    PROVE  n \in Nodes /\ VZeros(n) = z
<1>1. PICK P \in Nat \ {0}, h \in Nat \ {0} : P = Pow2[z] /\ h = Pow2[z - 1] /\ P = 2 * h
  BY Level
<1>2. PICK x \in Nat : x = q * P
  OBVIOUS
<1>3. PICK M \in Nat : M = Pow2[W]
  BY Pow2Type, WidthAssumption
<1>4. n = x + h /\ x + P <= M
  BY <1>1, <1>2, <1>3
<1>5. n \in Nat /\ n # 0 /\ n <= M - 1
  BY <1>1, <1>4
<1>6. n \in Nodes
  BY <1>3, <1>5 DEF Nodes
<1>7. Form(n, q, z)
  BY DEF Form
<1> QED
  BY <1>5, <1>6, <1>7, FormZeros

\* A number that is not the lower end of a node's interval is in it if its
\* masked bits are the node's.
LEMMA MaskIsInterval ==
    ASSUME NEW n \in Nodes, NEW d \in Nat, d # Lo(n)
    PROVE  d \div Pow2[VZeros(n)] = n \div Pow2[VZeros(n)] <=> Under(d, n)
<1>1. PICK q \in Nat, P \in Nat \ {0}, h \in Nat \ {0} : Interval(n, q, P, h)
  BY NodeInterval
<1>2. PICK x \in Nat : x = q * P
  OBVIOUS
<1>3. n = x + h /\ Lo(n) = x /\ Hi(n) = x + P /\ P = 2 * h /\ P = Pow2[VZeros(n)]
  BY <1>1, <1>2 DEF Interval
<1>4. n \div P = q
  <2>1. n \in Nat /\ q * P <= n /\ n < (q * P) + P
    BY <1>2, <1>3
  <2> QED
    BY <2>1, Quotient
<1>5. Under(d, n) <=> x < d /\ d < x + P
  BY <1>3 DEF Under, Lo, Hi
<1>6. ASSUME Under(d, n) PROVE d \div P = q
  <2>1. q * P <= d /\ d < (q * P) + P
    BY <1>2, <1>5, <1>6
  <2> QED
    BY <2>1, Quotient
<1>7. ASSUME d \div P = q PROVE Under(d, n)
  <2>1. PICK r \in 0..(P - 1) : d = (q * P) + r
    BY <1>7, Division
  <2>2. x <= d /\ d < x + P
    BY <1>2, <2>1
  <2> QED
    BY <1>3, <1>5, <2>2
<1> QED
  BY <1>3, <1>4, <1>6, <1>7

\* Inside(a, b): the interval of a is part of that of b.
Inside(a, b) == Lo(b) <= Lo(a) /\ Hi(a) <= Hi(b)

LEMMA Bounds ==
    ASSUME NEW n \in Nodes
    PROVE  /\ n \in Nat /\ Lo(n) \in Nat /\ Hi(n) \in Nat /\ Lo(n) < n /\ n < Hi(n)
           /\ \A d \in Nat : Under(d, n) <=> Lo(n) < d /\ d < Hi(n)
<1>1. PICK q \in Nat, P \in Nat \ {0}, h \in Nat \ {0} : Interval(n, q, P, h)
  BY NodeInterval
<1>2. PICK x \in Nat : x = q * P
  OBVIOUS
<1>3. n = x + h /\ Lo(n) = x /\ Hi(n) = x + P /\ P = 2 * h
  BY <1>1, <1>2 DEF Interval
<1>4. n \in Nat /\ Lo(n) \in Nat /\ Hi(n) \in Nat /\ Lo(n) < n /\ n < Hi(n)
  BY <1>3
<1>5. \A d \in Nat : Under(d, n) <=> Lo(n) < d /\ d < Hi(n)
  BY DEF Under, Lo, Hi
<1> QED
  BY <1>4, <1>5

\* Two intervals of which the first is not the longer: if they meet in a number
\* that is no end of the first, the first is inside the second.
LEMMA Meet ==
    ASSUME NEW a \in Nodes, NEW b \in Nodes, VZeros(a) <= VZeros(b),
           NEW v \in Nat, Lo(a) < v, v < Hi(a), Lo(b) < v, v < Hi(b)
    PROVE  Inside(a, b) /\ Under(a, b) /\ (VZeros(a) = VZeros(b) => a = b)
<1>1. PICK qa \in Nat, Pa \in Nat \ {0}, ha \in Nat \ {0} : Interval(a, qa, Pa, ha)
  BY NodeInterval
<1>2. PICK qb \in Nat, Pb \in Nat \ {0}, hb \in Nat \ {0} : Interval(b, qb, Pb, hb)
  BY NodeInterval
<1>3. VZeros(a) \in 0..W /\ VZeros(b) \in 0..W
  BY NodeInterval, WidthAssumption
<1>4. PICK c \in Nat \ {0} : Pb = c * Pa
  <2>1. \E c \in Nat \ {0} : Pow2[VZeros(b)] = c * Pow2[VZeros(a)]
    BY <1>3, Pow2Divides
  <2>2. Pa = Pow2[VZeros(a)] /\ Pb = Pow2[VZeros(b)]
    BY <1>1, <1>2 DEF Interval
  <2> QED
    BY <2>1, <2>2, Zenon
<1>5. PICK x \in Nat : x = qb * c /\ qb * Pb = x * Pa
  <2>1. qb * c \in Nat /\ qb * (c * Pa) = (qb * c) * Pa
    OBVIOUS
  <2> QED
    BY <1>4, <2>1
<1>6. PICK y \in Nat : y = x + c /\ (qb * Pb) + Pb = y * Pa
  <2>1. (x + c) * Pa = (x * Pa) + (c * Pa)
    OBVIOUS
  <2> QED
    BY <1>4, <1>5, <2>1
<1>7. /\ Lo(a) = qa * Pa /\ Hi(a) = (qa * Pa) + Pa /\ a = (qa * Pa) + ha /\ Pa = 2 * ha
      /\ Lo(b) = x * Pa /\ Hi(b) = y * Pa
  BY <1>1, <1>2, <1>5, <1>6 DEF Interval
<1>8. PICK A \in Nat, X \in Nat, Y \in Nat : A = qa * Pa /\ X = x * Pa /\ Y = y * Pa
  OBVIOUS
<1>9. (qa + 1) * Pa = A + Pa
  <2>1. (qa + 1) * Pa = (qa * Pa) + Pa
    OBVIOUS
  <2> QED
    BY <1>8, <2>1
<1>10. x <= qa
  <2>1. X < A + Pa
    BY <1>7, <1>8
  <2>2. x < qa + 1
    BY <1>8, <1>9, <2>1, Factors
  <2> QED
    BY <2>2
<1>11. qa + 1 <= y
  <2>1. A < Y
    BY <1>7, <1>8
  <2>2. qa < y
    BY <1>8, <2>1, Factors
  <2> QED
    BY <2>2
<1>12. X <= A /\ A + Pa <= Y
  BY <1>8, <1>9, <1>10, <1>11, Monotone
<1>13. Inside(a, b)
  BY <1>7, <1>8, <1>12 DEF Inside
<1>14. Under(a, b)
  BY <1>7, <1>8, <1>12, Bounds
<1>15. ASSUME VZeros(a) = VZeros(b) PROVE a = b
  <2>1. Pa = Pb /\ ha = hb
    BY <1>1, <1>2, <1>15 DEF Interval
  <2>2. c = 1
    <3>1. 1 * Pa = c * Pa
      BY <1>4, <2>1
    <3>2. ~(1 < c)
      <4>1. SUFFICES ASSUME 1 < c PROVE FALSE
        OBVIOUS
      <4>2. (1 * Pa) + Pa <= c * Pa
        BY <4>1, NextMultiple
      <4> QED
        BY <3>1, <4>2
    <3> QED
      BY <3>2
  <2>3. x = qb /\ y = qb + 1
    BY <1>5, <1>6, <2>2
  <2>4. qa = qb
    BY <1>10, <1>11, <2>3
  <2> QED
    BY <1>1, <1>2, <2>1, <2>4 DEF Interval
<1> QED
  BY <1>13, <1>14, <1>15

\* A node under another has the shorter interval.
LEMMA Nested ==
    ASSUME NEW a \in Nodes, NEW b \in Nodes, Under(a, b)
    PROVE  /\ Inside(a, b) /\ VZeros(a) <= VZeros(b)
           /\ VZeros(a) = VZeros(b) => a = b
<1>1. Lo(a) < a /\ a < Hi(a) /\ Lo(b) < a /\ a < Hi(b) /\ a \in Nat /\ Lo(b) < b /\ b < Hi(b)
  BY Bounds
<1>2. VZeros(a) \in Nat /\ VZeros(b) \in Nat
  BY NodeInterval
<1>3. VZeros(a) <= VZeros(b)
  <2>1. SUFFICES ASSUME VZeros(b) < VZeros(a) PROVE FALSE
    BY <1>2
  <2>2. PICK qa \in Nat, Pa \in Nat \ {0}, ha \in Nat \ {0} : Interval(a, qa, Pa, ha)
    BY NodeInterval
  <2>3. PICK qb \in Nat, Pb \in Nat \ {0}, hb \in Nat \ {0} : Interval(b, qb, Pb, hb)
    BY NodeInterval
  <2>4. VZeros(a) - 1 \in 0..W /\ VZeros(b) \in 0..W /\ VZeros(b) <= VZeros(a) - 1
    <3>1. PICK za \in 1..W, zb \in 1..W : za = VZeros(a) /\ zb = VZeros(b)
      BY NodeInterval
    <3>2. zb < za
      BY <2>1, <3>1
    <3>3. za - 1 \in 0..W /\ zb \in 0..W /\ zb <= za - 1
      BY <3>2, WidthAssumption
    <3> QED
      BY <3>1, <3>3, Zenon
  <2>5. PICK c \in Nat \ {0} : ha = c * Pb
    <3>1. \E c \in Nat \ {0} : Pow2[VZeros(a) - 1] = c * Pow2[VZeros(b)]
      BY <2>4, Pow2Divides
    <3>2. ha = Pow2[VZeros(a) - 1] /\ Pb = Pow2[VZeros(b)]
      BY <2>2, <2>3 DEF Interval
    <3> QED
      BY <3>1, <3>2, Zenon
  <2>6. PICK w \in Nat : w = ((2 * qa) + 1) * c
    OBVIOUS
  <2>7. a = w * Pb
    <3>1. a = ((2 * qa) + 1) * ha
      <4>1. a = (qa * (2 * ha)) + ha
        BY <2>2 DEF Interval
      <4>2. ((2 * qa) + 1) * ha = (qa * (2 * ha)) + ha
        OBVIOUS
      <4> QED
        BY <4>1, <4>2
    <3>2. PICK e \in Nat : e = (2 * qa) + 1
      OBVIOUS
    <3>3. e * (c * Pb) = (e * c) * Pb
      BY Associative
    <3> QED
      BY <2>5, <2>6, <3>1, <3>2, <3>3
  <2>8. PICK B \in Nat : B = qb * Pb /\ (qb + 1) * Pb = B + Pb
    <3>1. (qb + 1) * Pb = (qb * Pb) + Pb /\ qb * Pb \in Nat
      OBVIOUS
    <3> QED
      BY <3>1
  <2>9. Lo(b) = B /\ Hi(b) = B + Pb
    BY <2>3, <2>8 DEF Interval
  <2>10. qb < w
    BY <1>1, <2>7, <2>8, <2>9, Factors
  <2>11. w < qb + 1
    BY <1>1, <2>7, <2>8, <2>9, Factors
  <2> QED
    BY <2>10, <2>11
<1> QED
  BY <1>1, <1>3, Meet
-----------------------------------------------------------------------------
(* The tree *)

LEMMA Transitive ==
    ASSUME NEW a \in Nodes, NEW b \in Nodes, NEW c \in Nodes, Under(a, b), Under(b, c)
    PROVE  Under(a, c)
<1>1. Inside(b, c)
  BY Nested
<1>2. a \in Nat /\ Lo(b) < a /\ a < Hi(b)
  BY Bounds
<1>3. Lo(b) \in Nat /\ Hi(b) \in Nat /\ Lo(c) \in Nat /\ Hi(c) \in Nat
  BY Bounds
<1>4. Lo(c) < a /\ a < Hi(c)
  BY <1>1, <1>2, <1>3 DEF Inside
<1> QED
  BY <1>2, <1>4, Bounds

\* Of two nodes above a third one is above the other.
LEMMA Comparable ==
    ASSUME NEW v \in Nodes, NEW a \in Nodes, NEW b \in Nodes, Under(v, a), Under(v, b)
    PROVE  Under(a, b) \/ Under(b, a)
<1>1. v \in Nat /\ Lo(a) < v /\ v < Hi(a) /\ Lo(b) < v /\ v < Hi(b)
  BY Bounds
<1>2. VZeros(a) \in Nat /\ VZeros(b) \in Nat
  BY NodeInterval
<1>3. CASE VZeros(a) <= VZeros(b)
  BY <1>1, <1>3, Meet
<1>4. CASE VZeros(b) <= VZeros(a)
  BY <1>1, <1>4, Meet
<1> QED
  BY <1>2, <1>3, <1>4

LEMMA UnderItself ==
    ASSUME NEW n \in Nodes PROVE Under(n, n)
BY Bounds

\* A leaf is odd and the ends of an interval are even.
LEMMA NotLow ==
    ASSUME NEW d \in Leaves, NEW n \in Nodes PROVE d # Lo(n)
<1>1. PICK q \in Nat, P \in Nat \ {0}, h \in Nat \ {0} : Interval(n, q, P, h)
  BY NodeInterval
<1>2. PICK b \in Nat : b = q * h
  OBVIOUS
<1>3. q * (2 * h) = 2 * (q * h)
  OBVIOUS
<1>4. Lo(n) = 2 * b
  <2>1. Lo(n) = q * P /\ P = 2 * h
    BY <1>1 DEF Interval
  <2> QED
    BY <1>2, <1>3, <2>1, Zenon
<1>5. d \in Nat /\ d % 2 = 1
  BY Bounds DEF Leaves
<1> QED
  BY <1>4, <1>5

\* What applies_to_device computes with masks is what the authority means.
LEMMA MasksCover ==
    ASSUME NEW u \in Nodes, NEW v \in Nodes, Under(v, u), NEW d \in Leaves
    PROVE  AppliesToDevice(Entry(u, v), d) <=> Covered(Entry(u, v), d)
<1>1. d \in Nodes /\ d \in Nat /\ v \in Nat /\ v # 0
  BY Bounds DEF Leaves, Nodes
<1>2. UZeros(Entry(u, v)) = VZeros(u)
  <2>1. PICK z \in 1..W : z = VZeros(u)
    BY NodeInterval
  <2>2. IF z >= W THEN W = z ELSE TRUE
    BY WidthAssumption
  <2> QED
    BY <2>1, <2>2 DEF UZeros, Entry
<1>3. v \div Pow2[VZeros(u)] = u \div Pow2[VZeros(u)]
  <2>1. v # Lo(u)
    BY <1>1, Bounds
  <2> QED
    BY <1>1, <2>1, MaskIsInterval
<1>4. SameUnder(VZeros(u), d, v) <=> Under(d, u)
  BY <1>1, <1>3, NotLow, MaskIsInterval DEF SameUnder
<1>5. SameUnder(VZeros(v), d, v) <=> Under(d, v)
  BY <1>1, NotLow, MaskIsInterval DEF SameUnder
<1>6. Entry(u, v).u = u /\ Entry(u, v).v = v /\ Entry(u, v).uv = v
  BY DEF Entry
<1> QED
  BY <1>2, <1>4, <1>5, <1>6 DEF AppliesToDevice, Covered

\* Padding applies to no device.
LEMMA PaddingIsSkipped ==
    ASSUME NEW d \in Leaves PROVE ~AppliesToDevice(Padding, d)
<1>1. d \in Nat /\ d # 0
  BY DEF Leaves, Nodes
<1>2. UZeros(Padding) = 0 /\ Padding.uv = 0
  BY WidthAssumption DEF UZeros, Padding
<1>3. d \div 1 = d /\ 0 \div 1 = 0
  BY <1>1
<1>4. ~SameUnder(0, d, 0)
  BY <1>1, <1>3, Pow2Type DEF SameUnder
<1> QED
  BY <1>2, <1>4 DEF AppliesToDevice

\* One level down: the child that the target's bit selects is a node under n,
\* and above every target that is under n and on a lower level.
LEMMA Down ==
    ASSUME NEW s, NEW n \in Nodes, VZeros(n) > 1, NEW v \in Nodes
    PROVE  \E m \in Nodes :
              /\ Child(Label(s, n), v, VZeros(n)) = Label(s, m)
              /\ VZeros(m) = VZeros(n) - 1
              /\ Under(m, n)
              /\ Under(v, n) /\ VZeros(v) < VZeros(n) => Under(v, m)
<1>1. PICK q \in Nat, P \in Nat \ {0}, h \in Nat \ {0} : Interval(n, q, P, h)
  BY NodeInterval
<1>2. PICK z \in 1..W : z = VZeros(n) /\ z - 1 \in 1..W /\ (z - 1) - 1 = z - 2
  <2>1. PICK z \in 1..W : z = VZeros(n)
    BY NodeInterval
  <2>2. z - 1 \in 1..W /\ (z - 1) - 1 = z - 2
    BY <2>1, WidthAssumption
  <2> QED
    BY <2>1, <2>2
<1>3. PICK g \in Nat \ {0} : g = Pow2[z - 2] /\ h = 2 * g /\ h = Pow2[z - 1]
  <2>1. PICK H \in Nat \ {0}, g \in Nat \ {0} :
           H = Pow2[z - 1] /\ g = Pow2[(z - 1) - 1] /\ H = 2 * g
    BY <1>2, Level
  <2>2. h = Pow2[z - 1]
    BY <1>1, <1>2 DEF Interval
  <2> QED
    BY <1>2, <2>1, <2>2, Zenon
<1>4. PICK x \in Nat : x = q * P /\ x = (2 * q) * h /\ x + h = ((2 * q) + 1) * h
  <2>1. (2 * q) * h = q * (2 * h) /\ ((2 * q) + 1) * h = ((2 * q) * h) + h /\ q * P \in Nat
    OBVIOUS
  <2>2. P = 2 * h
    BY <1>1 DEF Interval
  <2> QED
    BY <2>1, <2>2
<1>5. n = x + h /\ Lo(n) = x /\ Hi(n) = x + P /\ P = 2 * h /\ x + P <= Pow2[W]
  BY <1>1, <1>4 DEF Interval
<1>6. PICK M \in Nat : M = Pow2[W]
  BY Pow2Type, WidthAssumption
<1> DEFINE left == x + g
           right == (x + h) + g
<1>7. left \in Nodes /\ VZeros(left) = z - 1
  <2>1. x + h <= M
    BY <1>5, <1>6
  <2>2. /\ left = ((2 * q) * Pow2[z - 1]) + Pow2[(z - 1) - 1]
        /\ ((2 * q) * Pow2[z - 1]) + Pow2[z - 1] <= Pow2[W]
    BY <1>2, <1>3, <1>4, <1>6, <2>1, Zenon
  <2>3. 2 * q \in Nat
    OBVIOUS
  <2> HIDE DEF left
  <2> QED
    BY <1>2, <2>2, <2>3, IntervalNode
<1>8. right \in Nodes /\ VZeros(right) = z - 1
  <2>1. (x + h) + h <= M
    BY <1>5, <1>6
  <2>2. /\ right = (((2 * q) + 1) * Pow2[z - 1]) + Pow2[(z - 1) - 1]
        /\ (((2 * q) + 1) * Pow2[z - 1]) + Pow2[z - 1] <= Pow2[W]
    BY <1>2, <1>3, <1>4, <1>6, <2>1, Zenon
  <2>3. (2 * q) + 1 \in Nat
    OBVIOUS
  <2> HIDE DEF right
  <2> QED
    BY <1>2, <2>2, <2>3, IntervalNode
<1>9. HalfSpan(left) = g /\ HalfSpan(right) = g
  BY <1>2, <1>3, <1>7, <1>8, Zenon DEF HalfSpan
<1>10. /\ n - g = left /\ n + g = right
       /\ Lo(left) = x /\ Hi(left) = x + h /\ Lo(right) = x + h /\ Hi(right) = x + P
  <2>1. /\ (x + h) - g = left /\ left - g = x /\ left + g = x + h
        /\ right - g = x + h /\ right + g = x + P
    BY <1>3, <1>5
  <2> HIDE DEF left, right
  <2>2. n - g = left /\ n + g = (x + h) + g
    BY <1>5, <2>1, Zenon
  <2> QED
    BY <1>9, <2>1, <2>2, Zenon DEF Lo, Hi, right
<1>11. Under(left, n) /\ Under(right, n)
  <2>1. x < left /\ left < x + P /\ x < right /\ right < x + P
    BY <1>3, <1>5
  <2>2. left \in Nat /\ right \in Nat
    OBVIOUS
  <2> HIDE DEF left, right
  <2> QED
    BY <1>5, <2>1, <2>2, Bounds
<1> HIDE DEF left, right
<1> DEFINE k == Label(s, n)
<1>12. LeftChild(k) = Label(s, left) /\ RightChild(k) = Label(s, right)
  <2>1. k.node = n /\ k = [seed |-> s, node |-> n]
    BY DEF Label
  <2>2. n - Pow2[VZeros(n) - 2] = left /\ n + Pow2[VZeros(n) - 2] = right
    BY <1>2, <1>3, <1>10, Zenon
  <2> QED
    BY <2>1, <2>2 DEF LeftChild, RightChild, Label
<1>13. CASE Bit(v, z - 1) = 0
  <2>1. Child(k, v, VZeros(n)) = Label(s, left)
    BY <1>2, <1>12, <1>13 DEF Child
  <2>2. ASSUME Under(v, n), VZeros(v) < VZeros(n) PROVE Under(v, left)
    <3>1. v \in Nat /\ x < v /\ v < x + P /\ v # x + h
      BY <1>5, <2>2, Bounds, NodeInterval
    <3>2. ~(x + h <= v)
      <4>1. SUFFICES ASSUME x + h <= v PROVE FALSE
        OBVIOUS
      <4>2. ((2 * q) + 1) * h <= v /\ v < (((2 * q) + 1) * h) + h
        BY <1>4, <1>5, <3>1, <4>1
      <4>3. v \div h = (2 * q) + 1
        <5>1. PICK a \in Nat : a = (2 * q) + 1
          OBVIOUS
        <5>2. v \div h = a
          BY <3>1, <4>2, <5>1, Quotient
        <5> QED
          BY <5>1, <5>2
      <4>4. ((2 * q) + 1) % 2 = 1
        OBVIOUS
      <4> QED
        BY <1>3, <1>13, <4>3, <4>4 DEF Bit
    <3>3. x < v /\ v < x + h
      BY <3>1, <3>2
    <3> QED
      BY <1>7, <1>10, <3>1, <3>3, Bounds
  <2> QED
    BY <1>2, <1>7, <1>11, <2>1, <2>2
<1>14. CASE Bit(v, z - 1) # 0
  <2>1. Child(k, v, VZeros(n)) = Label(s, right)
    BY <1>2, <1>12, <1>14 DEF Child
  <2>2. ASSUME Under(v, n), VZeros(v) < VZeros(n) PROVE Under(v, right)
    <3>1. v \in Nat /\ x < v /\ v < x + P /\ v # x + h
      BY <1>5, <2>2, Bounds, NodeInterval
    <3>2. ~(v < x + h)
      <4>1. SUFFICES ASSUME v < x + h PROVE FALSE
        OBVIOUS
      <4>2. (2 * q) * h <= v /\ v < ((2 * q) * h) + h
        BY <1>4, <1>5, <3>1, <4>1
      <4>3. v \div h = 2 * q
        <5>1. PICK a \in Nat : a = 2 * q
          OBVIOUS
        <5>2. v \div h = a
          BY <3>1, <4>2, <5>1, Quotient
        <5> QED
          BY <5>1, <5>2
      <4>4. (2 * q) % 2 = 0
        OBVIOUS
      <4> QED
        BY <1>3, <1>14, <4>3, <4>4 DEF Bit
    <3>3. x + h < v /\ v < x + P
      BY <3>1, <3>2
    <3> QED
      BY <1>8, <1>10, <3>1, <3>3, Bounds
  <2> QED
    BY <1>2, <1>8, <1>11, <2>1, <2>2
<1> QED
  BY <1>13, <1>14
-----------------------------------------------------------------------------
(* The keys of a device *)

\* The nodes between v and u that do not have d under them.
Between(n, u, v, d) == n \in Nodes /\ Under(v, n) /\ Under(n, u) /\ ~Under(d, n)

\* If there are any, one of them is as high as any other.
LEMMA Highest ==
    ASSUME NEW u, NEW v, NEW d, NEW a, Between(a, u, v, d)
    PROVE  \E n : /\ Between(n, u, v, d)
                  /\ \A m : Between(m, u, v, d) => VZeros(m) <= VZeros(n)
<1>1. SUFFICES ASSUME \A n : Between(n, u, v, d) =>
                         \E m : Between(m, u, v, d) /\ ~(VZeros(m) <= VZeros(n))
               PROVE  FALSE
  OBVIOUS
<1>2. \A n : Between(n, u, v, d) => VZeros(n) \in 1..W
  BY NodeInterval DEF Between
<1> DEFINE S == {k \in Nat : \E n : Between(n, u, v, d) /\ k <= VZeros(n)}
<1>3. 0 \in S
  BY <1>2
<1>4. ASSUME NEW k \in S PROVE k + 1 \in S
  <2>1. PICK n : Between(n, u, v, d) /\ k <= VZeros(n)
    OBVIOUS
  <2>2. PICK m : Between(m, u, v, d) /\ ~(VZeros(m) <= VZeros(n))
    BY <1>1, <2>1
  <2>3. k + 1 <= VZeros(m)
    BY <1>2, <2>1, <2>2
  <2> QED
    BY <2>2, <2>3
<1>5. S = Nat
  <2>1. S \subseteq Nat
    OBVIOUS
  <2> HIDE DEF S
  <2> QED
    BY <1>3, <1>4, <2>1, SetInduction
<1>6. W + 1 \in S
  BY <1>5, WidthAssumption
<1> QED
  BY <1>2, <1>6, WidthAssumption

\* A device that is under u and not under v has, among its keys of u's family,
\* exactly one that is above v.
LEMMA OneLabel ==
    ASSUME NEW d \in Leaves, NEW u \in Nodes, NEW v \in Nodes,
           Under(v, u), Under(d, u), ~Under(d, v)
    PROVE  \E l \in LabelsOf(d) : \A k \in LabelsOf(d) :
              (k.seed = u /\ Under(v, k.node)) <=> k = l
<1>1. Between(v, u, v, d)
  BY UnderItself DEF Between
<1>2. PICK n : /\ Between(n, u, v, d)
               /\ \A m : Between(m, u, v, d) => VZeros(m) <= VZeros(n)
  BY <1>1, Highest
<1>3. n \in Nodes /\ Under(v, n) /\ Under(n, u) /\ ~Under(d, n) /\ n # u
  BY <1>2 DEF Between
<1>4. ASSUME NEW m \in Nodes, Under(n, m), m # n, Under(m, u) PROVE Under(d, m)
  <2>1. SUFFICES ASSUME ~Under(d, m) PROVE FALSE
    OBVIOUS
  <2>2. Under(v, m)
    BY <1>3, <1>4, Transitive
  <2>3. VZeros(m) <= VZeros(n)
    BY <1>2, <1>4, <2>1, <2>2 DEF Between
  <2>4. VZeros(n) <= VZeros(m) /\ VZeros(n) # VZeros(m)
    BY <1>3, <1>4, Nested
  <2>5. VZeros(n) \in 1..W /\ VZeros(m) \in 1..W
    BY <1>3, NodeInterval
  <2> QED
    BY <2>3, <2>4, <2>5
<1>5. n \in OffPath(u, d)
  BY <1>3, <1>4 DEF OffPath
<1>6. Label(u, n) \in LabelsOf(d)
  BY <1>5 DEF LabelsOf
<1>7. ASSUME NEW k \in LabelsOf(d), k.seed = u, Under(v, k.node) PROVE k = Label(u, n)
  <2>1. PICK w \in Nodes : k \in {Label(w, x) : x \in OffPath(w, d)}
    BY DEF LabelsOf
  <2>2. PICK m \in OffPath(w, d) : k = Label(w, m)
    BY <2>1
  <2>3. w = u /\ k.node = m
    BY <1>7, <2>2 DEF Label
  <2>4. m \in Nodes /\ Under(v, m) /\ Under(m, u) /\ ~Under(d, m)
    BY <1>7, <2>3 DEF OffPath
  <2>5. \A x \in Nodes : (Under(m, x) /\ x # m /\ Under(x, u)) => Under(d, x)
    BY <2>3 DEF OffPath
  <2>6. CASE Under(n, m)
    BY <1>3, <1>4, <2>2, <2>3, <2>4, <2>6
  <2>7. CASE Under(m, n)
    BY <1>3, <2>2, <2>3, <2>4, <2>5, <2>7
  <2> QED
    BY <1>3, <2>4, <2>6, <2>7, Comparable
<1>8. Label(u, n).seed = u /\ Under(v, Label(u, n).node)
  BY <1>3 DEF Label
<1> QED
  BY <1>6, <1>7, <1>8

LEMMA LabelsAreNodes ==
    ASSUME NEW d, NEW l \in LabelsOf(d)
    PROVE  l.node \in Nodes /\ l = Label(l.seed, l.node)
<1>1. PICK w \in Nodes : l \in {Label(w, x) : x \in OffPath(w, d)}
  BY DEF LabelsOf
<1>2. PICK m \in OffPath(w, d) : l = Label(w, m)
  BY <1>1
<1>3. m \in Nodes
  BY DEF OffPath
<1> QED
  BY <1>2, <1>3 DEF Label
-----------------------------------------------------------------------------
(* MKBs and devices *)

\* Entry i of MKB c covers device dev.
Chosen(c, dev, i) ==
    LET sd == c.entries[i] IN sd.u # None /\ Covered(sd, dev.node)

\* Key k of the device is the one for entry i.
Good(c, dev, i, k) ==
    /\ dev.keys[k].seed = c.entries[i].u
    /\ Under(c.entries[i].v, dev.keys[k].node)

\* Entry i is the first that covers the device.
First(c, dev, i) ==
    /\ i \in 1..Len(c.entries) /\ Chosen(c, dev, i)
    /\ \A j \in 1..(i - 1) : ~Chosen(c, dev, j)

LEMMA EntryShape ==
    ASSUME NEW c \in Cases, NEW i \in 1..Len(c.entries)
    PROVE  \/ c.entries[i] = Padding
           \/ \E u \in Nodes, v \in Nodes : Under(v, u) /\ c.entries[i] = Entry(u, v)
<1>1. c.entries[i] \in Subsets \cup {Padding}
  BY CasesAssumption
<1>2. ASSUME c.entries[i] \in Subsets
      PROVE  \E u \in Nodes, v \in Nodes : Under(v, u) /\ c.entries[i] = Entry(u, v)
  <2>1. PICK p \in {q \in Nodes \X Nodes : q[1] # q[2] /\ Under(q[2], q[1])} :
            c.entries[i] = Entry(p[1], p[2])
    BY <1>2 DEF Subsets
  <2> QED
    BY <2>1
<1> QED
  BY <1>1, <1>2

LEMMA ChosenShape ==
    ASSUME NEW c \in Cases, NEW dev \in Devices, NEW i \in 1..Len(c.entries),
           Chosen(c, dev, i)
    PROVE  \E u \in Nodes, v \in Nodes :
              /\ Under(v, u) /\ c.entries[i] = Entry(u, v)
              /\ Under(dev.node, u) /\ ~Under(dev.node, v)
<1>1. c.entries[i] # Padding
  BY DEF Chosen, Padding
<1>2. PICK u \in Nodes, v \in Nodes : Under(v, u) /\ c.entries[i] = Entry(u, v)
  BY <1>1, EntryShape
<1> QED
  BY <1>2 DEF Chosen, Covered, Entry

LEMMA AppliesIsChosen ==
    ASSUME NEW c \in Cases, NEW dev \in Devices, NEW i \in 1..Len(c.entries)
    PROVE  AppliesToDevice(c.entries[i], dev.node) <=> Chosen(c, dev, i)
<1>1. dev.node \in Leaves
  BY DevicesAssumption
<1>2. CASE c.entries[i] = Padding
  <2>1. ~Chosen(c, dev, i)
    BY <1>2 DEF Chosen, Padding
  <2> QED
    BY <1>1, <1>2, <2>1, PaddingIsSkipped
<1>3. CASE c.entries[i] # Padding
  <2>1. PICK u \in Nodes, v \in Nodes : Under(v, u) /\ c.entries[i] = Entry(u, v)
    BY <1>3, EntryShape
  <2>2. Entry(u, v).u # None
    BY CasesAssumption DEF Entry
  <2>3. Chosen(c, dev, i) <=> Covered(Entry(u, v), dev.node)
    BY <2>1, <2>2 DEF Chosen
  <2> QED
    BY <1>1, <2>1, <2>3, MasksCover
<1> QED
  BY <1>2, <1>3

LEMMA KeysAreLabels ==
    ASSUME NEW dev \in Devices, NEW k \in 1..Len(dev.keys)
    PROVE  /\ dev.keys[k] \in LabelsOf(dev.node)
           /\ dev.keys[k].node \in Nodes
           /\ dev.keys[k] = Label(dev.keys[k].seed, dev.keys[k].node)
<1>1. dev.keys[k] \in LabelsOf(dev.node)
  BY DevicesAssumption
<1> QED
  BY <1>1, LabelsAreNodes

\* One key of the device, and no other, is the one for an entry that covers it.
LEMMA OneGoodKey ==
    ASSUME NEW c \in Cases, NEW dev \in Devices, NEW i \in 1..Len(c.entries),
           Chosen(c, dev, i)
    PROVE  \E k \in 1..Len(dev.keys) :
              \A j \in 1..Len(dev.keys) : Good(c, dev, i, j) <=> j = k
<1>1. PICK u \in Nodes, v \in Nodes :
         /\ Under(v, u) /\ c.entries[i] = Entry(u, v)
         /\ Under(dev.node, u) /\ ~Under(dev.node, v)
  BY ChosenShape
<1>2. dev.node \in Leaves /\ dev.keys \in Seq(LabelsOf(dev.node))
  BY DevicesAssumption
<1>3. PICK l \in LabelsOf(dev.node) : \A k \in LabelsOf(dev.node) :
         (k.seed = u /\ Under(v, k.node)) <=> k = l
  BY <1>1, <1>2, OneLabel
<1>4. PICK k \in DOMAIN dev.keys : \A j \in DOMAIN dev.keys : dev.keys[j] = l <=> j = k
  BY DevicesAssumption
<1>5. DOMAIN dev.keys = 1..Len(dev.keys)
  BY <1>2
<1>6. \A j \in 1..Len(dev.keys) : Good(c, dev, i, j) <=> dev.keys[j] = l
  BY <1>1, <1>3, KeysAreLabels DEF Good, Entry
<1> QED
  BY <1>4, <1>5, <1>6

\* The data of an entry that covers a device is what the authority put there.
LEMMA ChosenData ==
    ASSUME NEW c \in Cases, NEW dev \in Devices, NEW i \in 1..Len(c.entries),
           Chosen(c, dev, i), i <= Len(c.data)
    PROVE  c.data[i] = MediaKeyData(c.entries[i], c.holds)
<1>1. c.entries[i] # Padding
  BY DEF Chosen, Padding
<1>2. PICK n \in 0..Len(c.entries) : c.data = DataOf(c.entries, c.holds, n)
  BY CasesAssumption
<1>3. Len(c.entries) \in Nat
  BY CasesAssumption
<1>4. Len(c.data) = n
  BY <1>2, <1>3 DEF DataOf
<1>5. i \in 1..n
  BY <1>3, <1>4
<1> QED
  BY <1>1, <1>2, <1>5 DEF DataOf

\* If an entry covers the device, there is a first one that does.
LEMMA FirstExists ==
    ASSUME NEW c \in Cases, NEW dev \in Devices,
           NEW i \in 1..Len(c.entries), Chosen(c, dev, i)
    PROVE  \E j : First(c, dev, j)
<1>1. SUFFICES ASSUME \A j : ~First(c, dev, j) PROVE FALSE
  OBVIOUS
<1>2. PICK l \in Nat : l = Len(c.entries)
  BY CasesAssumption
<1> DEFINE S == {n \in Nat : \A j \in 1..n : j <= l => ~Chosen(c, dev, j)}
<1>3. 0 \in S
  OBVIOUS
<1>4. ASSUME NEW n \in S PROVE n + 1 \in S
  <2>1. ASSUME n + 1 <= l PROVE ~Chosen(c, dev, n + 1)
    <3>1. n + 1 \in 1..l /\ \A j \in 1..((n + 1) - 1) : j \in 1..n /\ j <= l
      BY <2>1
    <3>2. \A j \in 1..((n + 1) - 1) : ~Chosen(c, dev, j)
      BY <3>1
    <3> QED
      BY <1>1, <1>2, <3>1, <3>2 DEF First
  <2>2. ASSUME NEW j \in 1..(n + 1), j <= l PROVE ~Chosen(c, dev, j)
    <3>1. j \in 1..n \/ j = n + 1
      OBVIOUS
    <3> QED
      BY <2>1, <2>2, <3>1
  <2> QED
    BY <2>2
<1>5. S = Nat
  <2>1. S \subseteq Nat
    OBVIOUS
  <2> HIDE DEF S
  <2> QED
    BY <1>3, <1>4, <2>1, SetInduction
<1>6. i \in S
  <2>1. i \in Nat
    BY <1>2
  <2> HIDE DEF S
  <2> QED
    BY <1>5, <2>1
<1> QED
  BY <1>2, <1>6

LEMMA FirstIsUnique ==
    ASSUME NEW c, NEW dev, Len(c.entries) \in Nat,
           NEW i, NEW j, First(c, dev, i), First(c, dev, j)
    PROVE  i = j
<1>1. i \in Nat /\ j \in Nat /\ i >= 1 /\ j >= 1
  BY DEF First
<1>2. ~(i < j)
  <2>1. i < j => i \in 1..(j - 1)
    BY <1>1
  <2> QED
    BY <2>1 DEF First
<1>3. ~(j < i)
  <2>1. j < i => j \in 1..(i - 1)
    BY <1>1
  <2> QED
    BY <2>1 DEF First
<1> QED
  BY <1>1, <1>2, <1>3
-----------------------------------------------------------------------------
(* The derivation *)

\* No entry before the one being looked at covers the device.
Passed == \A j \in 1..(idx - 1) : ~Chosen(case, device, j)

TypeOK ==
    /\ case \in Cases /\ device \in Devices
    /\ tried \in 0..Len(device.keys)
    /\ pc \in {"scan", "walk", "verify", "done"}
    /\ idx \in 1..(Len(case.entries) + 1)
    /\ pc # "done" => tried # 0 /\ outcome = None
    /\ tried = 0 => outcome = None
    /\ opened \in Nat

Scanning == pc # "done" => Passed

\* The entry that was chosen is the first that covers the device.
Choosing == pc \in {"walk", "verify"} => First(case, device, idx)

\* The walk is at a node under the key it started from, and above the target if
\* that key is.
Walking ==
    pc = "walk" =>
        \E n \in Nodes :
            /\ dk = Label(device.keys[tried].seed, n)
            /\ m_zeros = VZeros(n)
            /\ Under(n, device.keys[tried].node)
            /\ Good(case, device, idx, tried) => Under(case.entries[idx].v, n)

Unlocked ==
    pc = "verify" =>
        candidate = IF Good(case, device, idx, tried) THEN case.holds ELSE Garbled

Concluded ==
    /\ outcome = "ok" => First(case, device, idx) /\ Good(case, device, idx, tried)
    /\ (pc = "done" /\ tried # 0) =>
          (outcome = "DeviceRevoked" <=> ~Reached(device.node))

\* How many of the keys have been tried to the end.
Finished == IF pc = "done" THEN tried ELSE tried - 1

\* An MKB that has every record, for a caller that brings the Key Conversion
\* Data it asks for.
Complete(c) ==
    /\ c.vmk /\ Len(c.data) = Len(c.entries)
    /\ c.holds = Kmp => c.kcd = Kcd

Counted ==
    \A i : (Complete(case) /\ First(case, device, i)) =>
        opened = IF \E k \in 1..Finished : Good(case, device, i, k) THEN 1 ELSE 0

IInv ==
    /\ TypeOK /\ Scanning /\ Choosing /\ Walking /\ Unlocked /\ Concluded /\ Counted

LEMMA ReachedIsChosen ==
    ASSUME case \in Cases
    PROVE  Reached(device.node) <=> \E i \in 1..Len(case.entries) : Chosen(case, device, i)
<1>1. DOMAIN case.entries = 1..Len(case.entries)
  BY CasesAssumption
<1> QED
  BY <1>1 DEF Reached, Chosen

\* The key handed in, and the device node the code works with: the legacy device
\* number is the node without its last bit, which is 1.
LEMMA KeyHandedIn ==
    ASSUME case \in Cases, device \in Devices, tried \in 1..Len(device.keys)
    PROVE  /\ Key.key = device.keys[tried]
           /\ Key.v_zeros = VZeros(device.keys[tried].node)
           /\ DNode = device.node
<1> DEFINE d == device.node
<1>1. d \in Nodes /\ d # None
  BY DevicesAssumption, CasesAssumption DEF Leaves
<1>2. d \in Nat /\ d % 2 = 1
  BY <1>1, DevicesAssumption, Bounds DEF Leaves
<1>3. PICK M \in Nat \ {0} : M = Pow2[W]
  BY Pow2Type, WidthAssumption
<1>4. d < M
  BY <1>1, <1>3 DEF Nodes
<1>5. (2 * (d \div 2) + 1) % Pow2[W] = d
  <2>1. 2 * (d \div 2) + 1 = d
    BY <1>2
  <2>2. d % M = d
    <3>1. 0 * M <= d /\ d < (0 * M) + M /\ d - (0 * M) = d
      BY <1>2, <1>4
    <3> HIDE DEF d
    <3> QED
      BY <1>2, <3>1, Quotient
  <2> QED
    BY <1>3, <2>1, <2>2
<1>6. /\ Key.key = device.keys[tried]
      /\ Key.v_zeros = VZeros(device.keys[tried].node)
      /\ Key.uv = IF case.legacy THEN d \div 2 ELSE device.keys[tried].node
      /\ Key.device_node = IF case.legacy THEN None ELSE d
  BY DEF Key, DeviceKey
<1>7. DNode = d
  <2>1. CASE case.legacy
    BY <1>5, <1>6, <2>1 DEF DNode
  <2>2. CASE ~case.legacy
    BY <1>1, <1>6, <2>2 DEF DNode
  <2> QED
    BY <2>1, <2>2
<1> QED
  BY <1>6, <1>7

\* The end of the attempt with one key.  It must have succeeded exactly if the
\* key was the one for the first entry that covers the device.
LEMMA CountedAfter ==
    ASSUME NEW r, TypeOK, Counted, pc # "done", End(r),
           \A i : (Complete(case) /\ First(case, device, i)) =>
                     (r = "ok" <=> Good(case, device, i, tried))
    PROVE  Counted'
<1>1. PICK t \in Nat : t = tried /\ t # 0 /\ t <= Len(device.keys)
  BY DevicesAssumption DEF TypeOK
<1>2. Finished = t - 1 /\ Finished' = t /\ case' = case /\ device' = device
  BY <1>1 DEF Finished, End
<1>3. SUFFICES ASSUME NEW i, Complete(case), First(case, device, i)
               PROVE  opened' = IF \E k \in 1..t : Good(case, device, i, k) THEN 1 ELSE 0
  BY <1>2 DEF Counted
<1>4. opened = IF \E k \in 1..(t - 1) : Good(case, device, i, k) THEN 1 ELSE 0
  BY <1>2, <1>3 DEF Counted
<1>5. PICK b \in 1..Len(device.keys) :
         \A j \in 1..Len(device.keys) : Good(case, device, i, j) <=> j = b
  BY <1>3, OneGoodKey DEF First, TypeOK
<1>6. Len(device.keys) \in Nat
  BY DevicesAssumption DEF TypeOK
<1>7. t \in 1..Len(device.keys) /\ \A k \in 1..t : k \in 1..Len(device.keys)
  BY <1>1, <1>6
<1>8. CASE t = b
  <2>1. Good(case, device, i, t)
    BY <1>5, <1>7, <1>8
  <2>2. \A k \in 1..(t - 1) : k # b /\ k \in 1..t
    BY <1>8
  <2>3. opened = 0
    BY <1>4, <1>5, <1>7, <2>2
  <2>4. opened' = 1
    BY <1>1, <1>3, <2>1, <2>3 DEF End
  <2>5. t \in 1..t
    BY <1>1
  <2> QED
    BY <2>1, <2>4, <2>5
<1>9. CASE t # b
  <2>1. ~Good(case, device, i, t)
    BY <1>5, <1>7, <1>9
  <2>2. opened' = opened
    BY <1>1, <1>3, <2>1 DEF End
  <2>3. \A k : k \in 1..t <=> k \in 1..(t - 1) \/ k = t
    BY <1>1
  <2> QED
    BY <1>4, <2>1, <2>2, <2>3
<1> QED
  BY <1>8, <1>9

\* What the three ways of calling make of the candidate: only the Media Key, or
\* its precursor with the disc's Key Conversion Data, is taken.
LEMMA ConcludeEnds ==
    ASSUME TypeOK, Unlocked, Conclude
    PROVE  \E r : /\ End(r) /\ r # "DeviceRevoked"
                  /\ r = "ok" => Good(case, device, idx, tried)
                  /\ (Complete(case) /\ Good(case, device, idx, tried)) => r = "ok"
<1> DEFINE g == Good(case, device, idx, tried)
           Fits(r) == /\ r # "DeviceRevoked" /\ (r = "ok" => g)
                      /\ (Complete(case) /\ g) => r = "ok"
<1>1. candidate = IF g THEN case.holds ELSE Garbled
  BY DEF Unlocked, Conclude
<1>2. case \in Cases /\ case.holds \in {Km, Kmp} /\ (case.call = "plain" => case.kcd = None)
  BY CasesAssumption DEF TypeOK
<1>3. Km # Kmp /\ Km # Garbled /\ Kmp # Garbled /\ None # Kcd
  BY KeysAssumption
<1>4. /\ IsVerified(candidate) => g
      /\ IsVerified(Convert(candidate, case.kcd)) => g
      /\ (Complete(case) /\ g) =>
            \/ IsVerified(candidate)
            \/ case.kcd = Kcd /\ IsVerified(Convert(candidate, case.kcd))
      /\ Complete(case) => case.vmk
  BY <1>1, <1>2, <1>3 DEF IsVerified, Convert, Complete
<1> HIDE DEF g
<1>5. CASE case.call = "plain" /\ End(PlainResult(candidate))
  <2>1. Fits(PlainResult(candidate))
    BY <1>2, <1>3, <1>4, <1>5 DEF PlainResult, Verify
  <2> QED
    BY <1>5, <2>1 DEF g
<1>6. CASE case.call = "with_kcd" /\ End(ResultWithKcd(candidate, case.kcd))
  <2>1. Fits(ResultWithKcd(candidate, case.kcd))
    BY <1>3, <1>4 DEF ResultWithKcd, Verify
  <2> QED
    BY <1>6, <2>1 DEF g
<1>7. CASE case.call = "resolve" /\ End(ResolveResult(candidate, case.kcd))
  <2>1. Fits(ResolveResult(candidate, case.kcd))
    BY <1>4 DEF ResolveResult
  <2> QED
    BY <1>7, <2>1 DEF g
<1> QED
  BY <1>5, <1>6, <1>7 DEF Conclude

\* The walk ends at the target exactly if it started above it, and the key of
\* the target in the entry's family opens the entry's data.
LEMMA WalkUnlocks ==
    ASSUME TypeOK, Choosing, Walking, pc = "walk", m_zeros <= Target, idx <= Len(case.data)
    PROVE  Unlock(ProcessingKey(dk), case.entries[idx].uv, case.data[idx]) =
              IF Good(case, device, idx, tried) THEN case.holds ELSE Garbled
<1>1. case \in Cases /\ device \in Devices /\ idx \in 1..Len(case.entries)
  BY DEF TypeOK, Choosing, First
<1>2. Chosen(case, device, idx)
  BY DEF Choosing, First
<1>3. PICK u \in Nodes, v \in Nodes : Under(v, u) /\ case.entries[idx] = Entry(u, v)
  BY <1>1, <1>2, ChosenShape
<1>4. PICK n \in Nodes :
         /\ dk = Label(device.keys[tried].seed, n)
         /\ m_zeros = VZeros(n)
         /\ Under(n, device.keys[tried].node)
         /\ Good(case, device, idx, tried) => Under(case.entries[idx].v, n)
  BY DEF Walking
<1>5. device.keys[tried].node \in Nodes
  <2>1. tried \in 1..Len(device.keys)
    BY DevicesAssumption DEF TypeOK
  <2> QED
    BY <1>1, <2>1, KeysAreLabels
<1>6. /\ case.entries[idx].u = u /\ case.entries[idx].v = v /\ case.entries[idx].uv = v
      /\ case.data[idx] = MediaKeyData(Entry(u, v), case.holds)
  BY <1>1, <1>2, <1>3, ChosenData DEF Entry
<1>7. VZeros(n) <= VZeros(v)
  BY <1>4, <1>6 DEF Target
<1>8. Good(case, device, idx, tried) <=> (device.keys[tried].seed = u /\ n = v)
  <2>1. ASSUME Good(case, device, idx, tried) PROVE device.keys[tried].seed = u /\ n = v
    <3>1. Under(v, n) /\ device.keys[tried].seed = u
      BY <1>4, <1>6, <2>1 DEF Good
    <3>2. VZeros(v) <= VZeros(n) /\ (VZeros(v) = VZeros(n) => v = n)
      BY <3>1, Nested
    <3>3. VZeros(v) \in 1..W /\ VZeros(n) \in 1..W
      BY NodeInterval
    <3>4. VZeros(v) = VZeros(n)
      BY <1>7, <3>2, <3>3
    <3> QED
      BY <3>1, <3>2, <3>4
  <2>2. ASSUME device.keys[tried].seed = u, n = v PROVE Good(case, device, idx, tried)
    BY <1>4, <1>6, <2>2 DEF Good
  <2> QED
    BY <2>1, <2>2
<1>9. MediaKeyData(Entry(u, v), case.holds) =
         [under |-> ProcessingKey(Label(u, v)), plain |-> case.holds, uv |-> v]
  BY DEF MediaKeyData, Entry
<1>10. ProcessingKey(dk) = ProcessingKey(Label(u, v)) <=>
          (device.keys[tried].seed = u /\ n = v)
  BY <1>4 DEF ProcessingKey, Label
<1> QED
  BY <1>6, <1>8, <1>9, <1>10 DEF Unlock

LEMMA InitInv == Init => IInv
<1> SUFFICES ASSUME Init PROVE IInv
  OBVIOUS
<1>1. Len(device.keys) \in Nat /\ Len(case.entries) \in Nat
  BY DevicesAssumption, CasesAssumption DEF Init
<1>2. TypeOK
  BY <1>1 DEF Init, TypeOK
<1>3. Finished = 0
  BY DEF Init, Finished
<1>4. Counted
  BY <1>3 DEF Init, Counted
<1>5. outcome # "ok"
  BY KeysAssumption DEF Init
<1> QED
  BY <1>2, <1>4, <1>5 DEF Init, IInv, Scanning, Choosing, Walking, Unlocked, Concluded

\* The next key: the scan starts again.
LEMMA TryKeyInv == ASSUME IInv, TryKey PROVE IInv'
<1>1. Len(device.keys) \in Nat /\ Len(case.entries) \in Nat
  BY DevicesAssumption, CasesAssumption DEF IInv, TypeOK
<1>2. tried \in Nat /\ tried + 1 \in 1..Len(device.keys) /\ tried + 1 # 0
  BY <1>1 DEF IInv, TypeOK, TryKey
<1>3. TypeOK'
  BY <1>1, <1>2 DEF IInv, TypeOK, TryKey
<1>4. Scanning'
  BY DEF Scanning, Passed, TryKey
<1>5. Finished' = Finished
  BY <1>2 DEF Finished, TryKey
<1>6. Counted'
  BY <1>5 DEF IInv, Counted, TryKey
<1>7. (Choosing /\ Walking /\ Unlocked)'
  BY DEF Choosing, Walking, Unlocked, TryKey
<1>8. Concluded'
  BY KeysAssumption DEF Concluded, TryKey
<1> QED
  BY <1>3, <1>4, <1>6, <1>7, <1>8 DEF IInv

LEMMA SkipEntryInv == ASSUME IInv, SkipEntry PROVE IInv'
<1>1. PICK l \in Nat : l = Len(case.entries)
  BY CasesAssumption DEF IInv, TypeOK
<1>2. /\ case \in Cases /\ device \in Devices /\ tried \in 1..Len(device.keys)
      /\ idx \in 1..l /\ idx + 1 \in 1..(l + 1)
  BY <1>1, DevicesAssumption DEF IInv, TypeOK, SkipEntry
<1>3. ~Chosen(case, device, idx)
  BY <1>1, <1>2, KeyHandedIn, AppliesIsChosen DEF SkipEntry
<1>4. TypeOK'
  BY <1>1, <1>2 DEF IInv, TypeOK, SkipEntry
<1>5. Scanning'
  <2>1. \A j \in 1..((idx + 1) - 1) : j \in 1..(idx - 1) \/ j = idx
    BY <1>2
  <2>2. \A j \in 1..((idx + 1) - 1) : ~Chosen(case, device, j)
    BY <1>3, <2>1 DEF IInv, Scanning, Passed, SkipEntry
  <2> QED
    BY <2>2 DEF Scanning, Passed, SkipEntry
<1>6. Counted'
  <2>1. Finished' = Finished
    BY DEF Finished, SkipEntry
  <2> QED
    BY <2>1 DEF IInv, Counted, SkipEntry
<1>7. (Choosing /\ Walking /\ Unlocked)'
  BY DEF Choosing, Walking, Unlocked, SkipEntry
<1>8. Concluded'
  BY KeysAssumption DEF IInv, TypeOK, Concluded, SkipEntry
<1> QED
  BY <1>4, <1>5, <1>6, <1>7, <1>8 DEF IInv

LEMMA ChooseEntryInv == ASSUME IInv, ChooseEntry PROVE IInv'
<1>1. PICK l \in Nat : l = Len(case.entries)
  BY CasesAssumption DEF IInv, TypeOK
<1>2. /\ case \in Cases /\ device \in Devices /\ tried \in 1..Len(device.keys)
      /\ idx \in 1..l
  BY <1>1, DevicesAssumption DEF IInv, TypeOK, ChooseEntry
<1>3. Chosen(case, device, idx)
  BY <1>1, <1>2, KeyHandedIn, AppliesIsChosen DEF ChooseEntry
<1>4. First(case, device, idx)
  BY <1>1, <1>2, <1>3 DEF First, IInv, Scanning, Passed, ChooseEntry
<1>5. TypeOK'
  BY DEF IInv, TypeOK, ChooseEntry
<1>6. Scanning'
  BY DEF IInv, Scanning, Passed, ChooseEntry
<1>7. Choosing'
  BY <1>4 DEF Choosing, ChooseEntry
<1>8. Walking'
  <2> DEFINE n == device.keys[tried].node
  <2>1. n \in Nodes /\ device.keys[tried] = Label(device.keys[tried].seed, n)
    BY <1>2, KeysAreLabels
  <2>2. dk' = device.keys[tried] /\ m_zeros' = VZeros(n)
    BY <1>2, KeyHandedIn DEF ChooseEntry
  <2>3. Under(n, n)
    BY <2>1, UnderItself
  <2>4. Good(case, device, idx, tried) => Under(case.entries[idx].v, n)
    BY DEF Good
  <2> HIDE DEF n
  <2>5. case' = case /\ device' = device /\ tried' = tried /\ idx' = idx
    BY DEF ChooseEntry
  <2> QED
    BY <2>1, <2>2, <2>3, <2>4, <2>5 DEF Walking, n
<1>9. Counted'
  <2>1. Finished' = Finished
    BY DEF Finished, ChooseEntry
  <2> QED
    BY <2>1 DEF IInv, Counted, ChooseEntry
<1>10. Unlocked'
  BY DEF Unlocked, ChooseEntry
<1>11. Concluded'
  BY KeysAssumption DEF IInv, TypeOK, Concluded, ChooseEntry
<1> QED
  BY <1>5, <1>6, <1>7, <1>8, <1>9, <1>10, <1>11 DEF IInv

\* An attempt ends with result r: what is left to show is what r says.
LEMMA EndInv ==
    ASSUME NEW r, IInv, pc # "done", End(r),
           r = "ok" => First(case, device, idx) /\ Good(case, device, idx, tried),
           r = "DeviceRevoked" <=> ~Reached(device.node),
           \A i : (Complete(case) /\ First(case, device, i)) =>
                     (r = "ok" <=> Good(case, device, i, tried))
    PROVE  IInv'
<1>1. TypeOK'
  BY DEF IInv, TypeOK, End
<1>2. (Scanning /\ Choosing /\ Walking /\ Unlocked)'
  BY DEF Scanning, Choosing, Walking, Unlocked, End
<1>3. Concluded'
  <2>1. case' = case /\ device' = device /\ tried' = tried /\ idx' = idx /\ outcome' = r
    BY DEF End
  <2>2. Reached(device.node)' <=> Reached(device.node)
    BY <2>1 DEF Reached
  <2> QED
    BY <2>1, <2>2 DEF Concluded
<1>4. Counted'
  BY CountedAfter DEF IInv
<1> QED
  BY <1>1, <1>2, <1>3, <1>4 DEF IInv

LEMMA NoEntryAppliesInv == ASSUME IInv, NoEntryApplies PROVE IInv'
<1>1. PICK l \in Nat : l = Len(case.entries)
  BY CasesAssumption DEF IInv, TypeOK
<1>2. case \in Cases /\ idx = l + 1
  BY <1>1 DEF IInv, TypeOK, NoEntryApplies
<1>3. \A j \in 1..l : ~Chosen(case, device, j)
  <2>1. \A j \in 1..l : j \in 1..(idx - 1)
    BY <1>2
  <2> QED
    BY <2>1 DEF IInv, Scanning, Passed, NoEntryApplies
<1>4. ~Reached(device.node)
  BY <1>1, <1>2, <1>3, ReachedIsChosen
<1>5. \A i : ~First(case, device, i)
  BY <1>1, <1>3 DEF First
<1>6. pc # "done" /\ End("DeviceRevoked")
  BY DEF NoEntryApplies
<1> QED
  BY <1>4, <1>5, <1>6, EndInv

LEMMA DescendInv == ASSUME IInv, Descend PROVE IInv'
<1>1. /\ case \in Cases /\ device \in Devices /\ First(case, device, idx)
      /\ tried \in 1..Len(device.keys)
  BY DevicesAssumption DEF IInv, TypeOK, Choosing, Descend
<1>2. PICK n \in Nodes :
         /\ dk = Label(device.keys[tried].seed, n)
         /\ m_zeros = VZeros(n)
         /\ Under(n, device.keys[tried].node)
         /\ Good(case, device, idx, tried) => Under(case.entries[idx].v, n)
  BY DEF IInv, Walking, Descend
<1>3. PICK u \in Nodes, v \in Nodes : Under(v, u) /\ case.entries[idx] = Entry(u, v)
  BY <1>1, ChosenShape DEF First
<1>4. case.entries[idx].v = v /\ case.entries[idx].uv = v
  BY <1>3 DEF Entry
<1>5. VZeros(v) < VZeros(n) /\ VZeros(n) > 1
  <2>1. VZeros(v) \in 1..W /\ VZeros(n) \in 1..W
    BY NodeInterval
  <2>2. VZeros(n) > VZeros(v)
    BY <1>2, <1>4 DEF Descend, Target
  <2> QED
    BY <2>1, <2>2
<1>6. PICK m \in Nodes :
         /\ Child(Label(device.keys[tried].seed, n), v, VZeros(n)) =
               Label(device.keys[tried].seed, m)
         /\ VZeros(m) = VZeros(n) - 1
         /\ Under(m, n)
         /\ (Under(v, n) /\ VZeros(v) < VZeros(n)) => Under(v, m)
  BY <1>5, Down
<1>7. dk' = Label(device.keys[tried].seed, m) /\ m_zeros' = VZeros(m)
  BY <1>2, <1>4, <1>6 DEF Descend
<1>8. Under(m, device.keys[tried].node)
  <2>1. device.keys[tried].node \in Nodes
    BY <1>1, KeysAreLabels
  <2> QED
    BY <1>2, <1>6, <2>1, Transitive
<1>9. Good(case, device, idx, tried) => Under(case.entries[idx].v, m)
  BY <1>2, <1>4, <1>5, <1>6
<1>10. case' = case /\ device' = device /\ tried' = tried /\ idx' = idx
  BY DEF Descend
<1>11. Walking'
  BY <1>7, <1>8, <1>9, <1>10 DEF Walking
<1>12. TypeOK' /\ Scanning' /\ Choosing'
  BY DEF IInv, TypeOK, Scanning, Passed, Choosing, Descend
<1>13. Unlocked'
  BY DEF Unlocked, Descend
<1>14. Concluded'
  BY KeysAssumption DEF IInv, TypeOK, Concluded, Descend
<1>15. Counted'
  <2>1. Finished' = Finished
    BY DEF Finished, Descend
  <2> QED
    BY <2>1 DEF IInv, Counted, Descend
<1> QED
  BY <1>11, <1>12, <1>13, <1>14, <1>15 DEF IInv

LEMMA ChosenIsReached ==
    ASSUME TypeOK, First(case, device, idx)
    PROVE  /\ Reached(device.node)
           /\ \A i : First(case, device, i) => i = idx
<1>1. Len(case.entries) \in Nat /\ case \in Cases
  BY CasesAssumption DEF TypeOK
<1>2. Reached(device.node)
  BY <1>1, ReachedIsChosen DEF First
<1>3. \A i : First(case, device, i) => i = idx
  BY <1>1, FirstIsUnique
<1> QED
  BY <1>2, <1>3

LEMMA FinishWalkInv == ASSUME IInv, FinishWalk PROVE IInv'
<1>1. TypeOK /\ First(case, device, idx) /\ pc = "walk"
  BY DEF IInv, Choosing, FinishWalk
<1>2. CASE idx <= Len(case.data)
  <2>1. candidate' = IF Good(case, device, idx, tried) THEN case.holds ELSE Garbled
    BY <1>2, WalkUnlocks DEF IInv, FinishWalk
  <2>2. /\ pc' = "verify"
        /\ UNCHANGED <<case, device, tried, idx, dk, m_zeros, outcome, opened>>
    BY <1>2 DEF FinishWalk
  <2>3. (TypeOK /\ Scanning /\ Choosing)'
    BY <1>1, <2>2 DEF IInv, TypeOK, Scanning, Passed, Choosing
  <2>4. Unlocked'
    BY <2>1, <2>2 DEF Unlocked
  <2>5. Walking'
    BY <2>2 DEF Walking
  <2>6. Concluded'
    BY <1>1, <2>2, KeysAssumption DEF TypeOK, Concluded
  <2>7. Counted'
    <3>1. Finished' = Finished
      BY <1>1, <2>2 DEF Finished
    <3> QED
      BY <2>2, <3>1 DEF IInv, Counted
  <2> QED
    BY <2>3, <2>4, <2>5, <2>6, <2>7 DEF IInv
<1>3. CASE ~(idx <= Len(case.data))
  <2>1. End("MissingVerifyMediaKeyRecord")
    BY <1>3 DEF FinishWalk
  <2>2. ~Complete(case)
    <3>1. Len(case.entries) \in Nat /\ idx \in 1..Len(case.entries)
      BY <1>1, CasesAssumption DEF TypeOK, First
    <3>2. Len(case.data) # Len(case.entries)
      BY <1>3, <3>1
    <3> QED
      BY <3>2 DEF Complete
  <2> QED
    BY <1>1, <2>1, <2>2, EndInv, ChosenIsReached
<1> QED
  BY <1>2, <1>3

LEMMA ConcludeInv == ASSUME IInv, Conclude PROVE IInv'
<1>1. TypeOK /\ First(case, device, idx) /\ pc # "done"
  BY DEF IInv, Choosing, Conclude
<1>2. PICK r :
         /\ End(r) /\ r # "DeviceRevoked"
         /\ r = "ok" => Good(case, device, idx, tried)
         /\ (Complete(case) /\ Good(case, device, idx, tried)) => r = "ok"
  BY ConcludeEnds DEF IInv
<1>3. Reached(device.node) /\ \A i : First(case, device, i) => i = idx
  BY <1>1, ChosenIsReached
<1>4. \A i : (Complete(case) /\ First(case, device, i)) =>
                (r = "ok" <=> Good(case, device, i, tried))
  BY <1>2, <1>3
<1> QED
  BY <1>1, <1>2, <1>3, <1>4, EndInv

LEMMA Inductive == IInv /\ [Next]_vars => IInv'
<1> SUFFICES ASSUME IInv, [Next]_vars PROVE IInv'
  OBVIOUS
<1>1. CASE TryKey
  BY <1>1, TryKeyInv
<1>2. CASE SkipEntry
  BY <1>2, SkipEntryInv
<1>3. CASE ChooseEntry
  BY <1>3, ChooseEntryInv
<1>4. CASE NoEntryApplies
  BY <1>4, NoEntryAppliesInv
<1>5. CASE Descend
  BY <1>5, DescendInv
<1>6. CASE FinishWalk
  BY <1>6, FinishWalkInv
<1>7. CASE Conclude
  BY <1>7, ConcludeInv
<1>8. CASE UNCHANGED vars
  <2>1. TypeOK' /\ Scanning' /\ Choosing' /\ Unlocked'
    BY <1>8 DEF vars, IInv, TypeOK, Scanning, Passed, Choosing, Unlocked
  <2>2. Walking'
    BY <1>8 DEF vars, IInv, Walking
  <2>3. Concluded'
    BY <1>8 DEF vars, IInv, Concluded, Reached
  <2>4. Counted'
    <3>1. Finished' = Finished
      BY <1>8 DEF vars, Finished
    <3> QED
      BY <1>8, <3>1 DEF vars, IInv, Counted
  <2> QED
    BY <2>1, <2>2, <2>3, <2>4 DEF IInv
<1> QED
  BY <1>1, <1>2, <1>3, <1>4, <1>5, <1>6, <1>7, <1>8 DEF Next

LEMMA Invariant == Spec => []IInv
<1> QED
  BY InitInv, Inductive, PTL DEF Spec
-----------------------------------------------------------------------------
(* What follows *)

\* AacsVolume reports DeviceRevoked to a device exactly if no entry of the MKB
\* covers it, and opens the Media Key only for devices that one covers: whatever
\* the depth of the tree, the subsets of the MKB, the key the device tries and
\* the way the caller asks.
THEOREM RevocationIsExact == Spec => []RevokedExactlyWhenExcluded
<1>1. IInv => RevokedExactlyWhenExcluded
  <2> SUFFICES ASSUME IInv, pc = "done", tried > 0
               PROVE  /\ outcome = "ok" => Reached(device.node)
                      /\ outcome = "DeviceRevoked" <=> ~Reached(device.node)
    BY DEF RevokedExactlyWhenExcluded
  <2>1. tried # 0
    BY DevicesAssumption DEF IInv, TypeOK
  <2>2. outcome = "DeviceRevoked" <=> ~Reached(device.node)
    BY <2>1 DEF IInv, Concluded
  <2>3. outcome = "ok" => Reached(device.node)
    BY ChosenIsReached DEF IInv, Concluded
  <2> QED
    BY <2>2, <2>3
<1> QED
  BY <1>1, Invariant, PTL

\* A key opens an entry only if it is of the family of the entry's u and of a
\* node above its v: no walk of derive_processing_key from another key arrives.
THEOREM RightKeyOpens == Spec => []OnlyTheRightKeyOpens
<1>1. IInv => OnlyTheRightKeyOpens
  BY DEF IInv, Concluded, Good, OnlyTheRightKeyOpens
<1> QED
  BY <1>1, Invariant, PTL

\* Of the keys of a device that is not revoked exactly one opens the Media Key,
\* provided the MKB is complete and the Key Conversion Data at hand.
THEOREM OneKey == Spec => []OneKeyOpens
<1>1. IInv => OneKeyOpens
  <2> SUFFICES ASSUME IInv, pc = "done", tried = Len(device.keys),
                      Reached(device.node), Complete(case)
               PROVE  opened = 1
    BY DEF OneKeyOpens, Complete
  <2>1. case \in Cases /\ device \in Devices
    BY DEF IInv, TypeOK
  <2>2. PICK i : First(case, device, i)
    BY <2>1, ReachedIsChosen, FirstExists
  <2>3. \E k \in 1..Len(device.keys) : Good(case, device, i, k)
    BY <2>1, <2>2, OneGoodKey DEF First
  <2>4. Finished = Len(device.keys)
    BY DEF Finished
  <2> QED
    BY <2>2, <2>3, <2>4 DEF IInv, Counted
<1> QED
  BY <1>1, Invariant, PTL
=============================================================================
