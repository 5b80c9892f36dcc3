---------------------------- MODULE Certificate ----------------------------
(***************************************************************************)
(* The Content Certificate and the Content Hash Table it vouches for, from *)
(* src/content_certificate.rs and src/cht.rs.                              *)
(*                                                                         *)
(* The certificate's header is ten cells: the type; the byte of the Bus    *)
(* Encryption flag, whose other bits are reserved; the fields nothing here *)
(* depends on, as one cell; the counts of hash units and of digests; the   *)
(* two halves of the ID; the least CRL version; two reserved bytes; the    *)
(* length of the Format-Specific Section.  A digest and a hash value are a *)
(* cell each, a clip descriptor is three.                                  *)
(***************************************************************************)
EXTENDS Crl

CONSTANTS
    CcSigned,   \* what the AACS LA has signed with the certificates' key
    Hashes,     \* the hashes of what was mastered: pairs of data and hash
    NoHash      \* the hash of anything else

\* SHA-1 is taken to be free of collisions.
ASSUME HashAssumption ==
    \A x, y \in Hashes : x.hash # NoHash /\ (x.hash = y.hash => x.data = y.data)

HeaderFixedLen == 10
DescriptorLen == 3
FlagBit == 8

Hash(data) ==
    IF \E x \in Hashes : x.data = data
      THEN (CHOOSE x \in Hashes : x.data = data).hash ELSE NoHash
-----------------------------------------------------------------------------
(* ContentCertificate *)

\* An empty section is followed by two bytes of alignment.
SectionLen(length) == IF length = 0 THEN 2 ELSE length

DigestsAt(bytes) == HeaderFixedLen + SectionLen(bytes[10])
SignatureAt(bytes) == DigestsAt(bytes) + bytes[5]

ParseCertificate(bytes) ==
    LET length == bytes[10]
        digests == DigestsAt(bytes)
        signature == SignatureAt(bytes)
    IN  IF Len(bytes) < HeaderFixedLen THEN [error |-> "truncated"]
        ELSE IF bytes[1] # 0 \/ (length # 0 /\ (length + 2) % 4 # 0) THEN [error |-> "invalid"]
        ELSE IF Len(bytes) < signature + SigLen THEN [error |-> "oversized"]
        ELSE [error |-> None,
              certificate_type |-> bytes[1],
              bee |-> bytes[2] \div FlagBit = 1,
              layers |-> bytes[3],
              number_of_hash_units |-> bytes[4],
              number_of_digests |-> bytes[5],
              content_certificate_id |-> Number(bytes[6], bytes[7]),
              minimum_crl_version |-> bytes[8],
              format_specific_section |->
                  SubSeq(bytes, HeaderFixedLen + 1, HeaderFixedLen + length),
              content_hash_table_digests |-> SubSeq(bytes, digests + 1, signature),
              signature_data |-> SubSeq(bytes, signature + 1, signature + SigLen)]

\* Faulty variant: the least CRL version is taken for reserved.
HeaderWithoutVersion(c) ==
    <<c.certificate_type, IF c.bee THEN FlagBit ELSE 0, c.layers,
      c.number_of_hash_units, c.number_of_digests,
      c.content_certificate_id \div Nibble, c.content_certificate_id % Nibble,
      0, 0, Len(c.format_specific_section)>>

\* What was reserved in the file is written as zero.
CertificateHeader(c) ==
    <<c.certificate_type, IF c.bee THEN FlagBit ELSE 0, c.layers,
      c.number_of_hash_units, c.number_of_digests,
      c.content_certificate_id \div Nibble, c.content_certificate_id % Nibble,
      c.minimum_crl_version, 0, Len(c.format_specific_section)>>

SignedRangeBytes(c) ==
    CertificateHeader(c)
        \o (IF c.format_specific_section = <<>> THEN <<0, 0>> ELSE c.format_specific_section)
        \o c.content_hash_table_digests

SignatureVerifies(c) == [sig |-> c.signature_data, data |-> SignedRangeBytes(c)] \in CcSigned

\* digest_index counts from 0.
DigestVerifies(c, digest_index, table) ==
    /\ digest_index < Len(c.content_hash_table_digests)
    /\ Hash(table) = c.content_hash_table_digests[digest_index + 1]
-----------------------------------------------------------------------------
(* ContentHashTable *)

Descriptor(bytes, i) ==
    [starting_hu_num |-> bytes[i * DescriptorLen + 1], clip_num |-> bytes[i * DescriptorLen + 2],
     hu_offset_in_clip |-> bytes[i * DescriptorLen + 3]]

\* The table has no counts of its own; what follows the hash values is ignored.
ParseTable(bytes, number_of_digests, number_of_hash_units) ==
    LET header == number_of_digests * DescriptorLen
    IN  IF Len(bytes) < header + number_of_hash_units THEN [error |-> "oversized"]
        ELSE [error |-> None,
              clips |-> [i \in 1..number_of_digests |-> Descriptor(bytes, i - 1)],
              hash_values |-> SubSeq(bytes, header + 1, header + number_of_hash_units)]

\* hash_unit_index counts from 0.
\* Faulty variant: the index is off by one.
UnitVerifiesNext(table, hash_unit_index, unit) ==
    /\ hash_unit_index + 1 < Len(table.hash_values)
    /\ Hash(unit) = table.hash_values[hash_unit_index + 2]

UnitVerifies(table, hash_unit_index, unit) ==
    /\ hash_unit_index < Len(table.hash_values)
    /\ Hash(unit) = table.hash_values[hash_unit_index + 1]
=============================================================================
