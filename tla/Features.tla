------------------------------ MODULE Features ------------------------------
(***************************************************************************)
(* GET CONFIGURATION, from src/mmc.rs: whether a drive has the AACS        *)
(* Feature.  The response is a header and the descriptors of the drive's   *)
(* features, byte by byte; the host may receive any part of it from the    *)
(* front, and walks it for the AACS descriptor.                            *)
(***************************************************************************)
EXTENDS Integers, Sequences

CONSTANTS
    AacsDescriptors,   \* the AacsFeatureDescriptors of the drives
    OtherCodes,        \* codes of other features
    OtherLens,         \* their Additional Lengths
    MaxFeatures,       \* bound on the features of a drive
    NoFeature

FeatureHeaderLen == 8     \* FEATURE_HEADER_LEN
DescriptorHeaderLen == 4  \* feature code, version bits, Additional Length
FeatureAacs == 269        \* FEATURE_AACS, 0x010D
AacsLen == 8              \* AACS_FEATURE_DESCRIPTOR_LEN

\* The fields of AacsFeatureDescriptor, each of the bits to_bytes gives it.
DescriptorType ==
    [current : BOOLEAN, persistent : BOOLEAN, version : 0..15,
     read_drive_certificate : BOOLEAN, return_mkb_of_cprm : BOOLEAN,
     write_bus_encryption : BOOLEAN, bus_encryption_capable : BOOLEAN,
     binding_nonce_generation : BOOLEAN, block_count_for_binding_nonce : 0..255,
     number_of_agids : 0..7, aacs_version : 0..255]

ASSUME DescriptorsAssumption ==
    AacsDescriptors \subseteq DescriptorType /\ NoFeature \notin AacsDescriptors
ASSUME OthersAssumption ==
    /\ \A code \in OtherCodes : code \in Nat /\ code < 65536 /\ code # FeatureAacs
    /\ OtherLens \subseteq 0..255

VARIABLES
    features,     \* what the drive has: AACS descriptors and others
    received,     \* the bytes the host got
    offset,       \* of the walk
    found         \* its outcome

featureVars == <<features, received, offset, found>>

Walking == [error |-> "walking", descriptor |-> NoFeature]
Returned(descriptor) == [error |-> "none", descriptor |-> descriptor]
Refusal(error) == [error |-> error, descriptor |-> NoFeature]
-----------------------------------------------------------------------------
FlagBit(b, weight) == IF b THEN weight ELSE 0
BitSet(byte, weight) == (byte \div weight) % 2 = 1

\* AacsFeatureDescriptor::to_bytes.
AacsBytes(d) ==
    <<FeatureAacs \div 256, FeatureAacs % 256,
      4 * (d.version % 16) + FlagBit(d.persistent, 2) + FlagBit(d.current, 1),
      AacsLen - DescriptorHeaderLen,
      FlagBit(d.read_drive_certificate, 128) + FlagBit(d.return_mkb_of_cprm, 64)
         + FlagBit(d.write_bus_encryption, 32) + FlagBit(d.bus_encryption_capable, 16)
         + FlagBit(d.binding_nonce_generation, 1),
      d.block_count_for_binding_nonce, d.number_of_agids % 8, d.aacs_version>>

\* parse_aacs_feature_descriptor.
ParseAacs(s) ==
    IF Len(s) < AacsLen THEN Refusal("Truncated")
    ELSE IF 256 * s[1] + s[2] # FeatureAacs \/ s[4] # AacsLen - DescriptorHeaderLen
      THEN Refusal("InvalidValue")
    ELSE Returned(
        [current |-> BitSet(s[3], 1), persistent |-> BitSet(s[3], 2),
         version |-> (s[3] \div 4) % 16,
         read_drive_certificate |-> BitSet(s[5], 128),
         return_mkb_of_cprm |-> BitSet(s[5], 64),
         write_bus_encryption |-> BitSet(s[5], 32),
         bus_encryption_capable |-> BitSet(s[5], 16),
         binding_nonce_generation |-> BitSet(s[5], 1),
         block_count_for_binding_nonce |-> s[6], number_of_agids |-> s[7] % 8,
         aacs_version |-> s[8]])

\* A feature: an AACS descriptor or [code, length] of another, whose bytes look
\* like an AACS descriptor's.
IsAacs(f) == f \in AacsDescriptors
FeatureBytes(f) ==
    IF IsAacs(f) THEN AacsBytes(f)
    ELSE <<f.code \div 256, f.code % 256, 3, f.length>>
            \o [n \in 1..f.length |-> IF n % 2 = 1 THEN FeatureAacs \div 256
                                                   ELSE FeatureAacs % 256]

\* The response: build_get_configuration_aacs_response has one feature.
FeatureHeader == <<0, 0, 0, 4, 0, 0, 0, 65>>
Response(fs) ==
    LET upto[n \in 0..Len(fs)] ==
            IF n = 0 THEN FeatureHeader ELSE upto[n - 1] \o FeatureBytes(fs[n])
    IN  upto[Len(fs)]
-----------------------------------------------------------------------------
\* The drive gains a feature in its list, before it is asked.
AddFeature(f) ==
    /\ received = <<>> /\ found = Walking /\ Len(features) < MaxFeatures
    /\ features' = Append(features, f)
    /\ UNCHANGED <<received, offset, found>>

\* The command is run with some allocation length; find_aacs_feature_descriptor
\* starts on what came back.
GetConfiguration(n) ==
    /\ received = <<>> /\ found = Walking
    /\ n \in 0..Len(Response(features))
    /\ received' = SubSeq(Response(features), 1, n)
    /\ offset' = FeatureHeaderLen
    /\ found' = IF n < FeatureHeaderLen THEN Refusal("Truncated") ELSE Walking
    /\ UNCHANGED features

Here(n) == received[offset + n]
DescriptorLen == DescriptorHeaderLen + Here(4)

\* Faulty variant: the Additional Length is taken for the whole length.
WalkByLength ==
    /\ received # <<>> /\ found = Walking
    /\ IF offset + DescriptorHeaderLen > Len(received)
         THEN found' = Returned(NoFeature) /\ UNCHANGED offset
       ELSE IF offset + DescriptorLen > Len(received)
         THEN found' = Refusal("Truncated") /\ UNCHANGED offset
       ELSE IF 256 * Here(1) + Here(2) = FeatureAacs
         THEN /\ found' = ParseAacs(SubSeq(received, offset + 1, offset + DescriptorLen))
              /\ UNCHANGED offset
       ELSE offset' = offset + Here(4) + 2 /\ UNCHANGED found
    /\ UNCHANGED <<features, received>>

\* One round of the walk.
Walk ==
    /\ received # <<>> /\ found = Walking
    /\ IF offset + DescriptorHeaderLen > Len(received)
         THEN found' = Returned(NoFeature) /\ UNCHANGED offset
       ELSE IF offset + DescriptorLen > Len(received)
         THEN found' = Refusal("Truncated") /\ UNCHANGED offset
       ELSE IF 256 * Here(1) + Here(2) = FeatureAacs
         THEN /\ found' = ParseAacs(SubSeq(received, offset + 1, offset + DescriptorLen))
              /\ UNCHANGED offset
       ELSE offset' = offset + DescriptorLen /\ UNCHANGED found
    /\ UNCHANGED <<features, received>>

FeaturesInit ==
    features = <<>> /\ received = <<>> /\ offset = 0 /\ found = Walking

FeatureType == AacsDescriptors \cup [code : OtherCodes, length : OtherLens]

FeaturesNext ==
    \/ \E f \in FeatureType : AddFeature(f)
    \/ \E n \in 0..(FeatureHeaderLen + 12 * MaxFeatures) : GetConfiguration(n)
    \/ Walk
-----------------------------------------------------------------------------
(* What holds of it *)

\* The bytes up to the end of the first n features.
EndOf(n) == Len(Response(SubSeq(features, 1, n)))

\* The walk returns the first AACS descriptor of the drive, field for field,
\* when the host received all of it, whatever the features before it hold and
\* however much is missing after it; it never returns another's bytes for one.
\* It denies the feature only if no AACS descriptor, but for less than a
\* descriptor header, was cut off.
FeatureWalkIsExact ==
    found # Walking =>
        LET first == {n \in DOMAIN features :
                         IsAacs(features[n]) /\ \A m \in 1..(n - 1) : ~IsAacs(features[m])}
            whole == {n \in first : EndOf(n) <= Len(received)}
        IN  /\ whole # {} => \A n \in whole : found = Returned(features[n])
            /\ whole = {} => found.descriptor = NoFeature
            /\ found = Returned(NoFeature) =>
                  \A n \in first : Len(received) < EndOf(n - 1) + DescriptorHeaderLen
=============================================================================
