------------------------------- MODULE Curve -------------------------------
(***************************************************************************)
(* The elliptic curve of src/ec.rs: affine points, and the scalar multiple *)
(* in Jacobian coordinates.  Field elements are numbers below p here; that *)
(* the limbs compute with them so is checked in Ecdsa.                     *)
(***************************************************************************)
EXTENDS Limbs

CONSTANTS
    P, B, N,    \* the field's prime, the curve's b, the group's order
    GX, GY,     \* the base point
    Infinity    \* the point at infinity

ASSUME CurveAssumption ==
    /\ P \in Nat /\ N \in Nat /\ B \in 0..(P - 1)
    /\ GX \in 0..(P - 1) /\ GY \in 0..(P - 1)
    /\ P > 2 ^ (Width - 1) /\ N > P /\ N < 2 ^ Width

Fp == 0..(P - 1)
Affine(x, y) == [x |-> x, y |-> y]
Generator == Affine(GX, GY)

Add(a, b) == (a + b) % P
Sub(a, b) == (a - b) % P
Mul(a, b) == (a * b) % P
Square(a) == Mul(a, a)

BitOf(v, i) == (v \div 2 ^ i) % 2
BitLen(v) == CHOOSE n \in 0..Width : v < 2 ^ n /\ \A m \in 0..Width : v < 2 ^ m => n <= m

\* Square-and-multiply, from the most significant bit.
Pow(a, exp, m) ==
    LET from[i \in 0..Width] ==
            IF i >= BitLen(exp) THEN 1
            ELSE LET result == from[i + 1]
                 IN  (((result * result) % m) * (IF BitOf(exp, i) = 1 THEN a ELSE 1)) % m
    IN  from[0]

\* Fermat's inverse, zero for zero.
InvMod(a, m) == IF a = 0 THEN 0 ELSE Pow(a, m - 2, m)
Inv(a) == InvMod(a, P)
-----------------------------------------------------------------------------
(* Point *)

OnCurve(p) ==
    p = Infinity
        \/ Square(p.y) = Add(Sub(Mul(Square(p.x), p.x), Mul(3, p.x)), B)

Double(p) ==
    IF p = Infinity THEN Infinity
    ELSE IF p.y = 0 THEN Infinity
    ELSE LET lambda == Mul(Sub(Mul(3, Square(p.x)), 3), Inv(Mul(2, p.y)))
             x3 == Sub(Sub(Square(lambda), p.x), p.x)
         IN  Affine(x3, Sub(Mul(lambda, Sub(p.x, x3)), p.y))

\* Faulty variant: equal points are not told from opposite ones.
PointAddNoDouble(p, q) ==
    IF p = Infinity THEN q
    ELSE IF q = Infinity THEN p
    ELSE IF p.x = q.x THEN Infinity
    ELSE LET lambda == Mul(Sub(q.y, p.y), Inv(Sub(q.x, p.x)))
             x3 == Sub(Sub(Square(lambda), p.x), q.x)
         IN  Affine(x3, Sub(Mul(lambda, Sub(p.x, x3)), p.y))

PointAdd(p, q) ==
    IF p = Infinity THEN q
    ELSE IF q = Infinity THEN p
    ELSE IF p.x = q.x THEN IF p.y = q.y THEN Double(p) ELSE Infinity
    ELSE LET lambda == Mul(Sub(q.y, p.y), Inv(Sub(q.x, p.x)))
             x3 == Sub(Sub(Square(lambda), p.x), q.x)
         IN  Affine(x3, Sub(Mul(lambda, Sub(p.x, x3)), p.y))

\* As U160, zero for the point at infinity.
XOf(p) == IF p = Infinity THEN 0 ELSE p.x
-----------------------------------------------------------------------------
(* Jacobian *)

Jacobian(x, y, z) == [x |-> x, y |-> y, z |-> z]
JInfinity == Jacobian(1, 1, 0)

JDouble(p) ==
    IF p.z = 0 \/ p.y = 0 THEN JInfinity
    ELSE LET zz == Square(p.z)
             yy == Square(p.y)
             m == Mul(Mul(3, Sub(p.x, zz)), Add(p.x, zz))
             s == Mul(Mul(4, p.x), yy)
             x3 == Sub(Square(m), Mul(2, s))
         IN  Jacobian(x3, Sub(Mul(m, Sub(s, x3)), Mul(8, Square(yy))), Mul(Mul(2, p.y), p.z))

\* Faulty variant: no falling back when the points are equal.
JAddNoDouble(p, q) ==
    IF p.z = 0 THEN q
    ELSE IF q.z = 0 THEN p
    ELSE LET z1z1 == Square(p.z)
             h == Sub(Mul(q.x, z1z1), p.x)
             r == Sub(Mul(Mul(q.y, z1z1), p.z), p.y)
             hhh == Mul(Square(h), h)
             u1hh == Mul(p.x, Square(h))
             x3 == Sub(Sub(Square(r), hhh), Mul(2, u1hh))
         IN  IF h = 0 THEN JInfinity
             ELSE Jacobian(x3, Sub(Mul(r, Sub(u1hh, x3)), Mul(p.y, hhh)), Mul(p.z, h))

\* q is affine.
JAdd(p, q) ==
    IF p.z = 0 THEN q
    ELSE IF q.z = 0 THEN p
    ELSE LET z1z1 == Square(p.z)
             h == Sub(Mul(q.x, z1z1), p.x)
             r == Sub(Mul(Mul(q.y, z1z1), p.z), p.y)
             hhh == Mul(Square(h), h)
             u1hh == Mul(p.x, Square(h))
             x3 == Sub(Sub(Square(r), hhh), Mul(2, u1hh))
         IN  IF h = 0 THEN IF r = 0 THEN JDouble(p) ELSE JInfinity
             ELSE Jacobian(x3, Sub(Mul(r, Sub(u1hh, x3)), Mul(p.y, hhh)), Mul(p.z, h))

ToAffine(p) ==
    IF p.z = 0 THEN Infinity
    ELSE LET zinv == Inv(p.z)
             zinv2 == Square(zinv)
         IN  Affine(Mul(p.x, zinv2), Mul(p.y, Mul(zinv2, zinv)))

\* One turn of the loop of mul_scalar.
LadderStep(acc, base, bit) ==
    LET doubled == JDouble(acc)
    IN  IF bit = 1 THEN JAdd(doubled, Jacobian(base.x, base.y, 1)) ELSE doubled

MulScalar(p, k) ==
    LET from[i \in 0..Width] ==
            IF i >= BitLen(k) THEN JInfinity ELSE LadderStep(from[i + 1], p, BitOf(k, i))
    IN  IF p = Infinity THEN Infinity ELSE ToAffine(from[0])
=============================================================================
