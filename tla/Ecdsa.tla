------------------------------- MODULE Ecdsa -------------------------------
(***************************************************************************)
(* AACS_Sign and AACS_Verify of src/ecdsa.rs, and the loops of src/ec.rs   *)
(* they run: one call at a time, from its arguments to its answer.  The    *)
(* product takes a step per row and per bit, the scalar multiple one per   *)
(* bit of the scalar, the signature one per attempt.                       *)
(*                                                                         *)
(* The digest is any number of Width bits, and rederive_k any scalar: what *)
(* AES-H and SHA-1 make of their input is not a property of this code.     *)
(***************************************************************************)
EXTENDS Curve

LOCAL INSTANCE SequencesExt
LOCAL INSTANCE TLC

CONSTANTS
    Attempts,       \* the turns of sign_with_k's loop, 8 in the code
    Digests,        \* digests of the messages that are signed and verified
    PrivKeys,       \* private scalars
    Nonces,         \* what rederive_k may return
    PubKeys,        \* points handed to verify
    None, Exhausted \* no answer yet, and sign_with_k's None

ASSUME EcdsaAssumption ==
    /\ Attempts \in Nat \ {0}
    /\ Digests \subseteq 0..(2 ^ Width - 1)
    /\ PrivKeys \subseteq 1..(N - 1) /\ Nonces \subseteq 0..(N - 1)

VARIABLES
    call,       \* the call that is running and its arguments
    i,          \* its loop's counter
    acc,        \* its loop's accumulator
    answer      \* what it returned

vars == <<call, i, acc, answer>>

Numbers == 0..(2 ^ Width - 1)
Scalars == 0..(N - 1)
Idle == [op |-> "idle"]

Init == call = Idle /\ i = 0 /\ acc = None /\ answer = None

Running(op) == call.op = op /\ answer = None

Begin(arguments, count, start) ==
    call' = arguments /\ i' = count /\ acc' = start /\ UNCHANGED answer

Answer(value) == answer' = value /\ UNCHANGED <<call, i, acc>>

\* The caller takes the answer.
Return ==
    /\ answer # None
    /\ call' = Idle /\ i' = 0 /\ acc' = None /\ answer' = None
-----------------------------------------------------------------------------
(* Arithmetic modulo p and modulo n *)

Moduli == {LimbsOf(P), LimbsOf(N)}

\* The operations without a loop of their own; neg and sub are the field's only.
BeginCalc ==
    /\ call = Idle
    /\ \E m \in Moduli, a \in U160, b \in U160, f \in {"reduce", "add", "sub", "neg", "inv"} :
           /\ f # "reduce" => Less(a, m)
           /\ IF f \in {"add", "sub"} THEN Less(b, m) ELSE b = Zero
           /\ f \in {"sub", "neg"} => m = LimbsOf(P)
           /\ Begin([op |-> "calc", f |-> f, a |-> a, b |-> b, m |-> m], 0, None)

Calculated(f, a, b, m) ==
    CASE f = "reduce" -> Reduce(a, m)
      [] f = "add" -> AddMod(a, b, m)
      [] f = "sub" -> SubMod(a, b, m)
      [] f = "neg" -> NegMod(a, m)
      [] f = "inv" -> LimbsOf(InvMod(Value(a), Value(m)))

Calc == Running("calc") /\ Answer(Calculated(call.f, call.a, call.b, call.m))

\* Fp::mul of two field elements, scalar_mul of a scalar and any number.
BeginMul ==
    /\ call = Idle
    /\ \E m \in Moduli, a \in U160, b \in U160 :
           /\ Less(a, m) /\ (m = LimbsOf(P) => Less(b, m))
           /\ Begin([op |-> "product", a |-> a, b |-> b, m |-> m], 0,
                    [wide |-> ZeroWide, rem |-> Zero])

MulWide ==
    /\ Running("product") /\ i < LimbCount
    /\ acc' = [acc EXCEPT !.wide = MulRow(@, call.a, call.b, i)]
    /\ i' = i + 1
    /\ UNCHANGED <<call, answer>>

\* The product is there: its bits are taken from the top.
BeginReduceWide ==
    /\ Running("product") /\ i = LimbCount
    /\ call' = [call EXCEPT !.op = "remainder"] /\ i' = 2 * Width
    /\ UNCHANGED <<acc, answer>>

ReduceWide ==
    /\ Running("remainder") /\ i > 0
    /\ acc' = [acc EXCEPT !.rem = ReduceBit(@, Bit(acc.wide, i - 1), call.m)]
    /\ i' = i - 1
    /\ UNCHANGED <<call, answer>>

Reduced == Running("remainder") /\ i = 0 /\ Answer(acc.rem)
-----------------------------------------------------------------------------
(* Point *)

\* The points of the group, by the multiple of the base point they are.
Multiple ==
    FoldLeft(LAMBDA m, k : m @@ (k :> PointAdd(m[k - 1], Generator)),
             0 :> Infinity, [k \in 1..(N - 1) |-> k])

BeginAdd ==
    /\ call = Idle
    /\ \E j, k \in Scalars : Begin([op |-> "add", j |-> j, k |-> k], 0, None)

AddPoints == Running("add") /\ Answer(PointAdd(Multiple[call.j], Multiple[call.k]))

\* mul_scalar of a point that is not at infinity, by any number.
BeginMulScalar ==
    /\ call = Idle
    /\ \E j \in Scalars \ {0}, k \in Numbers :
           Begin([op |-> "ladder", j |-> j, k |-> k], BitLen(k), JInfinity)

MulScalarStep ==
    /\ Running("ladder") /\ i > 0
    /\ acc' = LadderStep(acc, Multiple[call.j], BitOf(call.k, i - 1))
    /\ i' = i - 1
    /\ UNCHANGED <<call, answer>>

Multiplied == Running("ladder") /\ i = 0 /\ Answer(ToAffine(acc))
-----------------------------------------------------------------------------
(* sign_with_k and verify *)

\* Faulty variant: the caller's number is taken as it is.
ScalarReduceNot(v) == v

ScalarReduce(v) == v % N
ScalarMul(a, b) == (a * b) % N
Signature(r, s) == [r |-> r, s |-> s]

\* The two components that k makes.
Signed(d, e, k) ==
    LET r == ScalarReduce(XOf(MulScalar(Generator, k)))
    IN  Signature(r, ScalarMul(InvMod(k, N), ScalarReduce(e + ScalarMul(r, d))))

\* Faulty variant: r and s are not held against n.
VerifyNoRange(key, sig, digest) ==
    LET e == ScalarReduce(digest)
        w == InvMod(sig.s, N)
        x == PointAdd(MulScalar(Generator, ScalarMul(e, w)),
                      MulScalar(key, ScalarMul(sig.r, w)))
    IN  /\ sig.r # 0 /\ sig.s # 0
        /\ key # Infinity /\ OnCurve(key)
        /\ x # Infinity
        /\ ScalarReduce(XOf(x)) = sig.r

Verify(key, sig, digest) ==
    LET e == ScalarReduce(digest)
        w == InvMod(sig.s, N)
        x == PointAdd(MulScalar(Generator, ScalarMul(e, w)),
                      MulScalar(key, ScalarMul(sig.r, w)))
    IN  /\ sig.r # 0 /\ sig.s # 0
        /\ sig.r < N /\ sig.s < N
        /\ key # Infinity /\ OnCurve(key)
        /\ x # Infinity
        /\ ScalarReduce(XOf(x)) = sig.r

BeginSign ==
    /\ call = Idle
    /\ \E d \in PrivKeys, digest \in Digests, k \in Numbers :
           Begin([op |-> "sign", d |-> d, digest |-> digest], 0, ScalarReduce(k))

\* Faulty variant: s is not looked at.
DegenerateRNotS(d, digest, k) ==
    k = 0 \/ Signed(d, ScalarReduce(digest), k).r = 0

\* k is zero, or k*G is at infinity, or r or s is zero.
Degenerate(d, digest, k) ==
    k = 0 \/ LET sig == Signed(d, ScalarReduce(digest), k) IN sig.r = 0 \/ sig.s = 0

\* A k that will not do is folded into another; the last turn gives up.
SignRetry ==
    /\ Running("sign") /\ i < Attempts
    /\ Degenerate(call.d, call.digest, acc)
    /\ acc' \in Nonces
    /\ i' = i + 1
    /\ UNCHANGED <<call, answer>>

Sign ==
    /\ Running("sign") /\ i < Attempts
    /\ ~Degenerate(call.d, call.digest, acc)
    /\ Answer(Signed(call.d, ScalarReduce(call.digest), acc))

SignGivesUp == Running("sign") /\ i = Attempts /\ Answer(Exhausted)

BeginVerify ==
    /\ call = Idle
    /\ \E key \in PubKeys, r \in Numbers, s \in Numbers, digest \in Digests :
           Begin([op |-> "verify", key |-> key, sig |-> Signature(r, s), digest |-> digest],
                 0, None)

VerifyStep == Running("verify") /\ Answer(Verify(call.key, call.sig, call.digest))
-----------------------------------------------------------------------------
Next ==
    \/ BeginCalc \/ Calc
    \/ BeginMul \/ MulWide \/ BeginReduceWide \/ ReduceWide \/ Reduced
    \/ BeginAdd \/ AddPoints
    \/ BeginMulScalar \/ MulScalarStep \/ Multiplied
    \/ BeginSign \/ SignRetry \/ Sign \/ SignGivesUp
    \/ BeginVerify \/ VerifyStep
    \/ Return

Spec == Init /\ [][Next]_vars
-----------------------------------------------------------------------------
\* The answer to a call that had one.
Answered(op) == call.op = op /\ answer # None

\* The product of the rows so far, and the remainder of the bits so far: the
\* bit that the remainder loses when it is doubled must not be lost.
WideValue(wide) ==
    LET upto[c \in 0..(2 * LimbCount)] ==
            IF c = 0 THEN 0 ELSE upto[c - 1] + wide[c - 1] * Radix ^ (c - 1)
    IN  upto[2 * LimbCount]

\* Whatever limbs and carries do, a call computes modulo p or n what it is
\* named for, and each turn of mul_wide and reduce_wide leaves the product of
\* the rows and the remainder of the bits it has seen (src/ec.rs:225-378,
\* 387-448).  A carry of the addition or of the doubled remainder that is lost
\* would show only for operands near the top of the range.
ArithmeticIsModular ==
    call.op \in {"product", "remainder", "calc"} =>
        LET a == Value(call.a)
            b == Value(call.b)
            m == Value(call.m)
        IN  /\ call.op = "product" => WideValue(acc.wide) = (a % Radix ^ i) * b
            /\ call.op = "remainder" => Value(acc.rem) = ((a * b) \div 2 ^ i) % m
            /\ Answered("remainder") => Value(answer) = (a * b) % m
            /\ Answered("calc") =>
                /\ Value(answer) < m
                /\ call.f = "reduce" => Value(answer) = a % m
                /\ call.f = "add" => Value(answer) = (a + b) % m
                /\ call.f = "sub" => Value(answer) = (a - b) % m
                /\ call.f = "neg" => (Value(answer) + a) % m = 0
                /\ call.f = "inv" => (Value(answer) * a) % m = IF a = 0 THEN 0 ELSE 1

\* Every pair of points, equal, opposite and infinite ones included, adds to
\* the point whose multiple is the sum, and the N multiples are different
\* points of the curve (src/ec.rs:551-570).
AdditionIsTheGroup ==
    Answered("add") =>
        /\ answer = Multiple[(call.j + call.k) % N]
        /\ OnCurve(answer)
        /\ answer = Infinity <=> (call.j + call.k) % N = 0

\* After each bit the Jacobian accumulator stands for the multiple by the bits
\* taken so far, also for a k of n or more, where the accumulator meets the
\* point it adds or its opposite (src/ec.rs:572-594, 625-715).
LadderIsTheMultiple ==
    /\ call.op = "ladder" => ToAffine(acc) = Multiple[(call.j * (call.k \div 2 ^ i)) % N]
    /\ Answered("ladder") => answer = Multiple[(call.j * call.k) % N]

\* A signature sign_with_k returns, after however many retries, verifies under
\* the key's public point (src/ecdsa.rs:132-165, 218-251).
SignedVerifies ==
    Answered("sign") /\ answer # Exhausted =>
        Verify(Multiple[call.d], answer, call.digest)

\* verify accepts exactly the signatures that some k makes with the private
\* key of the point it is handed, and nothing for a point that has none, for
\* r or s out of range included (src/ecdsa.rs:218-251).
VerifyIsTheEquation ==
    Answered("verify") =>
        (answer <=>
            \E d \in Scalars \ {0}, k \in Scalars \ {0} :
                /\ Multiple[d] = call.key
                /\ call.sig.r = XOf(Multiple[k]) % N /\ call.sig.r # 0
                /\ call.sig.s \in Scalars \ {0}
                /\ (k * call.sig.s) % N = (call.digest + call.sig.r * d) % N)
=============================================================================
