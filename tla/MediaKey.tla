------------------------------ MODULE MediaKey ------------------------------
(***************************************************************************)
(* From a Device Key to the Media Key: the subset-difference walk of       *)
(* src/subdiff.rs as AacsVolume drives it in src/volume.rs.                *)
(*                                                                         *)
(* The 2^(W-1) devices are the leaves of a binary tree whose nodes are the *)
(* numbers 1 .. 2^W - 1, read as the code reads a uv number: the lowest    *)
(* 1-bit and the 0-bits below it are the node's "don't care" bits, the     *)
(* rest is the path from the root.  The code has W = 32; masking a number  *)
(* with z zero bits is a division by 2^z.                                  *)
(*                                                                         *)
(* Keys are symbolic.  [seed |-> u, node |-> v] is the Device Key of node  *)
(* v in the family that starts at node u, which AES-G3 turns into those of *)
(* v's children; a block is the pair of its key and its plaintext.         *)
(***************************************************************************)
EXTENDS Integers, Sequences

CONSTANTS
    W,          \* width of a uv number in bits
    Cases,      \* the MKBs, callers and arguments to explore
    Devices,    \* each with its node and its keys, in the order they are tried
    Km,         \* the Media Key
    Kmp,        \* the Media Key Precursor of a Type-4 MKB
    Kcd,        \* the disc's Key Conversion Data
    Garbled,    \* what decrypting with a wrong key yields
    None

ASSUME WidthAssumption == W \in Nat \ {0, 1}
ASSUME KeysAssumption ==
    /\ Km # Kmp /\ Km # Garbled /\ Kmp # Garbled
    /\ None \notin {Kcd, "ok", "DeviceRevoked"}

VARIABLES
    case,       \* the MKB and the call, fixed for a behaviour
    device,     \* the device that calls
    tried,      \* how many of its keys the caller has handed in
    pc,         \* where the derivation stands
    idx,        \* the Explicit-Subset-Difference entry being looked at
    dk,         \* the Device Key during the walk
    m_zeros,    \* zero bits of dk's v mask
    candidate,  \* what media_key_from_processing_key returned
    outcome,    \* the Result of the last derivation
    opened      \* how many of the keys have derived the Media Key

vars == <<case, device, tried, pc, idx, dk, m_zeros, candidate, outcome, opened>>
-----------------------------------------------------------------------------
(* The tree, as src/subdiff.rs computes with it *)

\* A shift of 1; no number is wider than W.
Pow2[z \in 0 .. W] == IF z = 0 THEN 1 ELSE 2 * Pow2[z - 1]

Nodes == 1 .. Pow2[W] - 1

TrailingZeros(n) == CHOOSE z \in 0 .. W - 1 : n % Pow2[z] = 0 /\ n % Pow2[z + 1] # 0

\* SubsetDifference::v_mask: as many zero bits as the lowest 1-bit and what is
\* below it; all of them for uv = 0.
VZeros(uv) == IF uv = 0 THEN W ELSE TrailingZeros(uv) + 1

\* SubsetDifference::u_mask: a shift by the width or more leaves no bit.
UZeros(sd) == IF sd.u_zeros >= W THEN W ELSE sd.u_zeros

SameUnder(zeros, a, b) == a \div Pow2[zeros] = b \div Pow2[zeros]

\* Faulty variant: every device under u is covered, those under v too.
AppliesUnderU(sd, d_node) == SameUnder(UZeros(sd), d_node, sd.uv)

\* applies_to_device: under u and not under v.
AppliesToDevice(sd, d_node) ==
    /\ SameUnder(UZeros(sd), d_node, sd.uv)
    /\ ~SameUnder(VZeros(sd.uv), d_node, sd.uv)

Bit(n, pos) == (n \div Pow2[pos]) % 2

\* AES-G3: the Device Key of a child, and the Processing Key of a Device Key.
LeftChild(k) == [k EXCEPT !.node = @ - Pow2[VZeros(@) - 2]]
RightChild(k) == [k EXCEPT !.node = @ + Pow2[VZeros(@) - 2]]
ProcessingKey(k) == [kp |-> k]

\* One level of derive_processing_key's loop.
Child(k, uv, zeros) ==
    IF Bit(uv, zeros - 1) = 0 THEN LeftChild(k) ELSE RightChild(k)
-----------------------------------------------------------------------------
(* The licensing authority: which keys it gives out and how it builds an   *)
(* MKB.  It is not part of the crate; nodes are compared as intervals of   *)
(* leaves here, never with masks.                                          *)

Leaves == {n \in Nodes : n % 2 = 1}

HalfSpan(n) == Pow2[VZeros(n) - 1]
Under(n, v) == v - HalfSpan(v) < n /\ n < v + HalfSpan(v)
Covered(sd, d) == Under(d, sd.u) /\ ~Under(d, sd.v)

Label(u, v) == [seed |-> u, node |-> v]

\* The keys of a device: for each of its ancestors u, those of the nodes that
\* hang off the path from u down to the device.
OffPath(u, d) ==
    {v \in Nodes :
        /\ Under(v, u) /\ v # u /\ ~Under(d, v)
        /\ \A n \in Nodes : (Under(v, n) /\ n # v /\ Under(n, u)) => Under(d, n)}
LabelsOf(d) ==
    UNION {{Label(u, v) : v \in OffPath(u, d)} : u \in {n \in Nodes : Under(d, n)}}

\* A DeviceKey record.  A caller that knows the device's node says so; a legacy
\* caller leaves it out and gives the device number for uv.
DeviceKey(label, d, legacy) ==
    [key |-> label,
     uv |-> IF legacy THEN d \div 2 ELSE label.node,
     v_zeros |-> VZeros(label.node),
     device_node |-> IF legacy THEN None ELSE d]

\* An entry of the Explicit-Subset-Difference Record for the devices under u
\* and not under v, and its Media Key Data.
Entry(u, v) == [u |-> u, v |-> v, u_zeros |-> VZeros(u), uv |-> v]
MediaKeyData(sd, plain) ==
    [under |-> ProcessingKey(Label(sd.u, sd.v)), plain |-> plain, uv |-> sd.uv]

\* The record may be padded; the Media Key Data may be cut.
Padding == [u |-> None, v |-> None, u_zeros |-> 0, uv |-> 0]
Subsets == {Entry(p[1], p[2]) : p \in {q \in Nodes \X Nodes : q[1] # q[2] /\ Under(q[2], q[1])}}
DataOf(entries, plain, n) ==
    [i \in 1..n |-> IF entries[i] = Padding THEN [under |-> None, plain |-> None, uv |-> 0]
                    ELSE MediaKeyData(entries[i], plain)]

\* A device has each of its keys, once.
ASSUME DevicesAssumption ==
    \A dev \in Devices :
        /\ dev.node \in Leaves
        /\ dev.keys \in Seq(LabelsOf(dev.node))
        /\ \A l \in LabelsOf(dev.node) : \E i \in DOMAIN dev.keys :
              \A j \in DOMAIN dev.keys : dev.keys[j] = l <=> j = i

\* An MKB holds the Media Key or its precursor; derive_vuk_from_device_key takes
\* no Key Conversion Data.
ASSUME CasesAssumption ==
    /\ None \notin Nodes
    /\ \A c \in Cases :
        /\ c.entries \in Seq(Subsets \cup {Padding})
        /\ c.holds \in {Km, Kmp}
        /\ \E n \in 0..Len(c.entries) : c.data = DataOf(c.entries, c.holds, n)
        /\ c.vmk \in BOOLEAN /\ c.legacy \in BOOLEAN
        /\ c.call \in {"plain", "with_kcd", "resolve"}
        /\ c.call = "plain" => c.kcd = None

Reached(d) == \E i \in DOMAIN case.entries :
                 LET sd == case.entries[i] IN sd.u # None /\ Covered(sd, d)
-----------------------------------------------------------------------------
(* The derivation *)

\* media_key_from_processing_key: decrypt, then take the uv out again.
Unlock(kp, uv, c) == IF c.under = kp /\ c.uv = uv THEN c.plain ELSE Garbled

\* apply_key_conversion_data.
Convert(k, kcd) == IF k = Kmp /\ kcd = Kcd THEN Km ELSE Garbled

\* is_verified_media_key.
IsVerified(k) == case.vmk /\ k = Km

\* Faulty variant: the decrypted sentinel is not compared.
VerifyPresence(k) == IF case.vmk THEN "ok" ELSE "MissingVerifyMediaKeyRecord"

\* verify_media_key.
Verify(k) ==
    IF ~case.vmk THEN "MissingVerifyMediaKeyRecord"
    ELSE IF IsVerified(k) THEN "ok" ELSE "MediaKeyVerificationFailed"

\* derive_vuk_from_device_key.
PlainResult(k) == Verify(k)

\* Faulty variant: Key Conversion Data is applied whenever there is any.
ResultAlwaysConverts(k, kcd) ==
    IF kcd # None THEN Verify(Convert(k, kcd))
    ELSE IF IsVerified(k) THEN "ok" ELSE "MediaKeyVerificationFailed"

\* derive_vuk_from_device_key_with_kcd: an old MKB's key is taken as it is.
ResultWithKcd(k, kcd) ==
    IF IsVerified(k) THEN "ok"
    ELSE IF kcd # None THEN Verify(Convert(k, kcd))
    ELSE "MediaKeyVerificationFailed"

\* Mkb::resolve_media_key_with_kcd, for a caller that makes the decision itself.
ResolveResult(k, kcd) ==
    IF ~case.vmk THEN "MissingVerifyMediaKeyRecord"
    ELSE IF IsVerified(k) \/ IsVerified(Convert(k, kcd)) THEN "ok"
    ELSE "MediaKeyPrecursorResolutionFailed"

Key == DeviceKey(device.keys[tried], device.node, case.legacy)

DNode == IF Key.device_node = None THEN (2 * Key.uv + 1) % Pow2[W] ELSE Key.device_node

End(result) ==
    /\ pc' = "done"
    /\ outcome' = result
    /\ opened' = IF result = "ok" THEN opened + 1 ELSE opened
    /\ UNCHANGED <<case, device, tried, idx, dk, m_zeros, candidate>>

\* The caller hands in the next of its keys.
TryKey ==
    /\ pc = "done" /\ tried < Len(device.keys)
    /\ tried' = tried + 1
    /\ pc' = "scan"
    /\ idx' = 1
    /\ outcome' = None
    /\ UNCHANGED <<case, device, dk, m_zeros, candidate, opened>>

SkipEntry ==
    /\ pc = "scan" /\ idx <= Len(case.entries)
    /\ ~AppliesToDevice(case.entries[idx], DNode)
    /\ idx' = idx + 1
    /\ UNCHANGED <<case, device, tried, pc, dk, m_zeros, candidate, outcome, opened>>

\* The first entry that applies is the one.
ChooseEntry ==
    /\ pc = "scan" /\ idx <= Len(case.entries)
    /\ AppliesToDevice(case.entries[idx], DNode)
    /\ pc' = "walk"
    /\ dk' = Key.key
    /\ m_zeros' = Key.v_zeros
    /\ UNCHANGED <<case, device, tried, idx, candidate, outcome, opened>>

NoEntryApplies ==
    /\ pc = "scan" /\ idx > Len(case.entries)
    /\ End("DeviceRevoked")

Target == VZeros(case.entries[idx].uv)

Descend ==
    /\ pc = "walk" /\ m_zeros > Target
    /\ dk' = Child(dk, case.entries[idx].uv, m_zeros)
    /\ m_zeros' = m_zeros - 1
    /\ UNCHANGED <<case, device, tried, pc, idx, candidate, outcome, opened>>

\* The walk is over, or there was nothing to walk: a key stored at the target's
\* level or below it is used as it is.
FinishWalk ==
    /\ pc = "walk" /\ m_zeros <= Target
    /\ IF idx <= Len(case.data)
         THEN /\ candidate' =
                     Unlock(ProcessingKey(dk), case.entries[idx].uv, case.data[idx])
              /\ pc' = "verify"
              /\ UNCHANGED <<case, device, tried, idx, dk, m_zeros, outcome, opened>>
         ELSE End("MissingVerifyMediaKeyRecord")

Conclude ==
    /\ pc = "verify"
    /\ \/ case.call = "plain" /\ End(PlainResult(candidate))
       \/ case.call = "with_kcd" /\ End(ResultWithKcd(candidate, case.kcd))
       \/ case.call = "resolve" /\ End(ResolveResult(candidate, case.kcd))

Init ==
    /\ device \in Devices
    /\ case \in Cases
    /\ tried = 0
    /\ pc = "done"
    /\ idx = 1
    /\ dk = None
    /\ m_zeros = 0
    /\ candidate = None
    /\ outcome = None
    /\ opened = 0

Next ==
    \/ TryKey
    \/ SkipEntry
    \/ ChooseEntry
    \/ NoEntryApplies
    \/ Descend
    \/ FinishWalk
    \/ Conclude

Spec == Init /\ [][Next]_vars
-----------------------------------------------------------------------------
(* What holds of it *)

\* Revocation works: a device all of whose ancestors' subsets exclude it gets
\* the Media Key with none of its keys, and is told that it is revoked; no
\* other device is told so.
RevokedExactlyWhenExcluded ==
    (pc = "done" /\ tried > 0) =>
        /\ outcome = "ok" => Reached(device.node)
        /\ outcome = "DeviceRevoked" <=> ~Reached(device.node)

\* The key that opens an entry is the one the authority meant for it: of the
\* family of the entry's u, and of an ancestor of its v.
OnlyTheRightKeyOpens ==
    outcome = "ok" =>
        LET sd == case.entries[idx]
            k == device.keys[tried]
        IN  k.seed = sd.u /\ Under(sd.v, k.node)

\* A device that is not revoked gets the Media Key with one of its keys, and
\* with no other: the key on the path to the v of the first entry that applies.
\* The MKB must be complete and the caller bring the Key Conversion Data the
\* MKB asks for; an old MKB's key is taken as it is, whatever the caller brings.
OneKeyOpens ==
    (/\ pc = "done" /\ tried = Len(device.keys)
     /\ Reached(device.node)
     /\ case.vmk /\ Len(case.data) = Len(case.entries)
     /\ case.holds = Kmp => case.kcd = Kcd)
    => opened = 1
=============================================================================
