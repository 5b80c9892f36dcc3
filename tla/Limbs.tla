------------------------------- MODULE Limbs -------------------------------
(***************************************************************************)
(* The multi-limb integers of src/ec.rs: addition with carry, subtraction  *)
(* with borrow, comparison, the double-width product and its reduction one *)
(* bit at a time, and the modular operations built from them.  A U160 is   *)
(* LimbCount little-endian limbs of LimbBits bits, where the code has five *)
(* of 32.                                                                  *)
(***************************************************************************)
EXTENDS Integers

CONSTANTS LimbBits, LimbCount

ASSUME LimbAssumption == LimbBits \in Nat \ {0} /\ LimbCount \in Nat \ {0}

Radix == 2 ^ LimbBits
Width == LimbBits * LimbCount
Indices == 0..(LimbCount - 1)
U160 == [Indices -> 0..(Radix - 1)]
Zero == [i \in Indices |-> 0]

\* The number limbs stand for, and the limbs of a number.
Value(u) ==
    LET upto[i \in 0..LimbCount] == IF i = 0 THEN 0 ELSE upto[i - 1] + u[i - 1] * Radix ^ (i - 1)
    IN  upto[LimbCount]
LimbsOf(v) == [i \in Indices |-> (v \div Radix ^ i) % Radix]
-----------------------------------------------------------------------------
(* U160 *)

Adc(a, b) ==
    LET carry[i \in 0..LimbCount] ==
            IF i = 0 THEN 0 ELSE (a[i - 1] + b[i - 1] + carry[i - 1]) \div Radix
    IN  [value |-> [i \in Indices |-> (a[i] + b[i] + carry[i]) % Radix],
         carry |-> carry[LimbCount]]

Sbb(a, b) ==
    LET borrow[i \in 0..LimbCount] ==
            IF i # 0 /\ a[i - 1] - b[i - 1] - borrow[i - 1] < 0 THEN 1 ELSE 0
    IN  [value |-> [i \in Indices |-> (a[i] - b[i] - borrow[i]) % Radix],
         borrow |-> borrow[LimbCount]]

\* The most significant limb that differs decides.
Less(a, b) ==
    \E i \in Indices : a[i] < b[i] /\ \A j \in Indices : j > i => a[j] = b[j]

Bit(u, i) == (u[i \div LimbBits] \div 2 ^ (i % LimbBits)) % 2
-----------------------------------------------------------------------------
(* mul_wide and reduce_wide *)

ZeroWide == [i \in 0..(2 * LimbCount - 1) |-> 0]

\* One turn of the outer loop: limb i of a times b, added in from limb i on.
MulRow(out, a, b, i) ==
    LET cur[j \in Indices] ==
            out[i + j] + a[i] * b[j] + (IF j = 0 THEN 0 ELSE cur[j - 1] \div Radix)
    IN  [c \in DOMAIN out |->
            IF c \in i..(i + LimbCount - 1) THEN cur[c - i] % Radix
            ELSE IF c = i + LimbCount THEN out[c] + cur[LimbCount - 1] \div Radix
            ELSE out[c]]

\* The remainder times two plus the next bit, and the bit that falls out.
ShiftIn(rem, bit) ==
    [value |-> [i \in Indices |->
                   (2 * rem[i] + (IF i = 0 THEN bit ELSE rem[i - 1] \div (Radix \div 2))) % Radix],
     carry |-> rem[LimbCount - 1] \div (Radix \div 2)]

\* Faulty variant: the bit that falls out is forgotten.
ReduceBitNoCarry(rem, bit, m) ==
    LET shifted == ShiftIn(rem, bit)
    IN  IF ~Less(shifted.value, m) THEN Sbb(shifted.value, m).value ELSE shifted.value

\* One turn of the loop over the bits.
ReduceBit(rem, bit, m) ==
    LET shifted == ShiftIn(rem, bit)
    IN  IF shifted.carry = 1 \/ ~Less(shifted.value, m)
          THEN Sbb(shifted.value, m).value ELSE shifted.value
-----------------------------------------------------------------------------
(* The operations modulo p and modulo n *)

\* from_u160 and scalar_reduce: subtract while there is something to subtract.
Reduce(v, m) ==
    LET reduced[u \in U160] == IF Less(u, m) THEN u ELSE reduced[Sbb(u, m).value]
    IN  reduced[v]

\* Fp::add and scalar_add.
AddMod(a, b, m) ==
    LET sum == Adc(a, b)
    IN  Reduce(IF sum.carry = 1 THEN Sbb(sum.value, m).value ELSE sum.value, m)

SubMod(a, b, m) ==
    LET diff == Sbb(a, b)
    IN  IF diff.borrow = 1 THEN Adc(diff.value, m).value ELSE diff.value

NegMod(a, m) == IF a = Zero THEN a ELSE Sbb(m, a).value
=============================================================================
