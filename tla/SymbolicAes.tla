---------------------------- MODULE SymbolicAes ----------------------------
(***************************************************************************)
(* AES-128 and the modes of src/aes.rs over symbols.  A block is a set of  *)
(* terms, the exclusive or of its members: equal terms cancel.  Encrypt    *)
(* and Decrypt are each other's inverse under one key and tell nothing     *)
(* under another.                                                          *)
(***************************************************************************)
EXTENDS Integers, Sequences

\* A block nothing is known about but its name, a sequence.
Atom(name) == {<<"atom", {}, {}, name>>}

Xor(a, b) == (a \ b) \cup (b \ a)

\* What `op' under key k was applied to, if block b is the outcome of that.
Inside(op, k, b) == {t[3] : t \in {u \in b : b = {u} /\ u[1] = op /\ u[2] = k}}

Apply(op, inverse, k, b) ==
    IF Inside(inverse, k, b) # {} THEN CHOOSE a \in Inside(inverse, k, b) : TRUE
    ELSE {<<op, k, b, "">>}

\* aes_128_ecb_encrypt, aes_128_ecb_decrypt.
Encrypt(k, b) == Apply("E", "D", k, b)
Decrypt(k, b) == Apply("D", "E", k, b)

\* aes_128_cbc_encrypt: each block is chained to the ciphertext before it.
CbcEncrypt(k, iv, data) ==
    LET prev[n \in 0..Len(data)] ==
            IF n = 0 THEN iv ELSE Encrypt(k, Xor(data[n], prev[n - 1]))
    IN  [n \in 1..Len(data) |-> prev[n]]

\* aes_128_cbc_decrypt.
CbcDecrypt(k, iv, data) ==
    [n \in 1..Len(data) |->
        Xor(Decrypt(k, data[n]), IF n = 1 THEN iv ELSE data[n - 1])]

\* aes_g: AES-128D(x1, x2) XOR x2.
AesG(x1, x2) == Xor(Decrypt(x1, x2), x2)

\* aes_h over data that has been padded to whole blocks.
AesH(padded) ==
    LET h[n \in 0..Len(padded)] ==
            IF n = 0 THEN Atom(<<"H0_AACS">>) ELSE AesG(padded[n], h[n - 1])
    IN  h[Len(padded)]
=============================================================================
