------------------------------ MODULE MCEcdsa ------------------------------
(***************************************************************************)
(* A curve of order 41 over the field of 37 elements, in three limbs of    *)
(* two bits: like the code's, both primes have the width's top bit, n is   *)
(* the larger, the group has no point with y = 0, and some have x = 0.     *)
(***************************************************************************)
EXTENDS Ecdsa

\* n and one more reduce to 0 and 1; 63 is the largest digest.
MCDigests == {0, 1, N, N + 1, 63}

MCPrivKeys == {1, 2, 17, 20, N - 1}

\* Zero, an ordinary k, and the logarithm of a point with x = 0.
MCNonces ==
    {0, 3, CHOOSE k \in 1..(N - 1) : MulScalar(Generator, k) = Affine(0, 3)}

\* Points of the group, points of no group, and infinity.
MCPubKeys ==
    {MulScalar(Generator, d) : d \in {1, 20}}
        \cup {Affine(0, 0), Affine(1, 10), Infinity}
=============================================================================
