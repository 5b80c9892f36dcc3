-------------------------------- MODULE Crl --------------------------------
(***************************************************************************)
(* The Content Revocation List, from src/crl.rs: parsing, the bytes that   *)
(* a segment's signature covers, written again from what was parsed, and   *)
(* the queries.                                                            *)
(*                                                                         *)
(* A file is a sequence of cells, and a cell has the values of a nibble.   *)
(* A revocation record of eight bytes is a slot of five cells: the two     *)
(* nibbles of byte 0, byte 1, bytes 2 to 6 and byte 7.  A segment's size   *)
(* is two cells and counts cells, the header is four: List Type, reserved  *)
(* nibble, List Version, Number of Segments.                               *)
(***************************************************************************)
EXTENDS Naturals, Sequences

CONSTANTS
    SigLen,        \* a signature, 40 bytes
    Segment1Max,   \* SEGMENT_1_SIZE_MAX
    LaSigned,      \* what the AACS LA has signed: pairs of sig and data
    None

Errors == {"truncated", "invalid", "oversized"}

ASSUME CrlAssumption ==
    /\ SigLen \in Nat \ {0} /\ Segment1Max \in Nat
    /\ None \notin Errors

CrlHeaderLen == 4
SizeLen == 2
SlotLen == 5
Nibble == 16

Cell == 0..(Nibble - 1)

Concat(seqs) ==
    LET upto[n \in 0..Len(seqs)] == IF n = 0 THEN <<>> ELSE upto[n - 1] \o seqs[n]
    IN  upto[Len(seqs)]

\* Faulty variant: no padding is allowed.
IsEmpty(s) == s = <<>>

IsZero(s) == \A z \in DOMAIN s : s[z] = 0
From(s, n) == SubSeq(s, n, Len(s))
-----------------------------------------------------------------------------
(* One record *)

\* The bytes of a big-endian field as a number: u64_from_6, from_be_bytes.
Number(hi, lo) == hi * Nibble + lo
Digits(n) == <<n \div Nibble, n % Nibble>>

WithId(type, s) == [type |-> type, range |-> Number(s[2], s[3]), id |-> Number(s[4], s[5])]

Unknown(s) == [type |-> "Unknown", bytes |-> s]

DecodeSlot(s) ==
    IF s[1] = 0 THEN WithId("ContentCertificateId", s)
    ELSE IF s[1] = 1 THEN WithId("ManagedCopyServerCertificateId", s)
    ELSE Unknown(s)

\* Bit 3 of the second nibble is the ICCID flag.  Byte 1 of the Media ID lies
\* half in part 2 and half in part 3.
DecodeRmrr(a, b, c) ==
    [type |-> "RecordableMedia",
     iccid |-> a[2] \div 8 = 1,
     media_type |-> a[2] % 8,
     content_certificate_id |-> Number(a[3], a[4]),
     media_id |-> <<a[5], b[2] * Nibble + c[2]>> \o From(b, 3) \o From(c, 3)]

\* Faulty variant: the halves of byte 1 are exchanged.
EncodeRmrrSwapped(r) ==
    <<2, (IF r.iccid THEN 8 ELSE 0) + r.media_type,
      r.content_certificate_id \div Nibble, r.content_certificate_id % Nibble, r.media_id[1],
      3, r.media_id[2] % Nibble>> \o SubSeq(r.media_id, 3, 5)
        \o <<4, r.media_id[2] \div Nibble>> \o SubSeq(r.media_id, 6, 8)

EncodeRmrr(r) ==
    <<2, (IF r.iccid THEN 8 ELSE 0) + r.media_type,
      r.content_certificate_id \div Nibble, r.content_certificate_id % Nibble, r.media_id[1],
      3, r.media_id[2] \div Nibble>> \o SubSeq(r.media_id, 3, 5)
        \o <<4, r.media_id[2] % Nibble>> \o SubSeq(r.media_id, 6, 8)

EncodeWithId(tag, r) ==
    <<tag>> \o Digits(r.range) \o Digits(r.id)

Encode(r) ==
    CASE r.type = "ContentCertificateId" -> EncodeWithId(0, r)
      [] r.type = "ManagedCopyServerCertificateId" -> EncodeWithId(1, r)
      [] r.type = "RecordableMedia" -> EncodeRmrr(r)
      [] r.type = "Unknown" -> r.bytes
-----------------------------------------------------------------------------
(* parse_revocation_record_set *)

Slots(cells) ==
    [n \in 1..(Len(cells) \div SlotLen) |-> SubSeq(cells, (n - 1) * SlotLen + 1, n * SlotLen)]

\* Three contiguous records with the tags of the three parts.
RmrrAt(slots, n) ==
    /\ n + 2 <= Len(slots)
    /\ slots[n][1] = 2 /\ slots[n + 1][1] = 3 /\ slots[n + 2][1] = 4

\* Faulty variant: three slots are taken for every part 1, whole or not.
NextRecordSkipping(slots, done) ==
    LET n == done.next
    IN  IF n > Len(slots) THEN done
        ELSE IF RmrrAt(slots, n)
          THEN [next |-> n + 3,
                records |-> Append(done.records,
                                   DecodeRmrr(slots[n], slots[n + 1], slots[n + 2]))]
        ELSE [next |-> IF slots[n][1] = 2 THEN n + 3 ELSE n + 1,
              records |-> Append(done.records, DecodeSlot(slots[n]))]

\* A part that does not belong to three is kept as Unknown, and the next slot
\* is looked at.
NextRecord(slots, done) ==
    LET n == done.next
    IN  IF n > Len(slots) THEN done
        ELSE IF RmrrAt(slots, n)
          THEN [next |-> n + 3,
                records |-> Append(done.records,
                                   DecodeRmrr(slots[n], slots[n + 1], slots[n + 2]))]
        ELSE [next |-> n + 1, records |-> Append(done.records, DecodeSlot(slots[n]))]

RecordSet(cells) ==
    LET slots == Slots(cells)
        upto[i \in 0..Len(slots)] ==
            IF i = 0 THEN [next |-> 1, records |-> <<>>]
            ELSE NextRecord(slots, upto[i - 1])
    IN  upto[Len(slots)].records
-----------------------------------------------------------------------------
(* ContentRevocationList::parse.  A result has the error, or None, and the *)
(* segments so far.                                                        *)

Refused(error) == [error |-> error, cursor |-> 0, segments |-> <<>>]

ParseSegment(bytes, parsed) ==
    LET c == parsed.cursor
        size == Number(bytes[c + 1], bytes[c + 2])
        signature == c + size - SigLen
    IN  IF parsed.error # None THEN parsed
        ELSE IF c + SizeLen > Len(bytes) THEN Refused("truncated")
        ELSE IF c = CrlHeaderLen /\ size > Segment1Max THEN Refused("invalid")
        ELSE IF size < SizeLen + SigLen THEN Refused("invalid")
        ELSE IF c + size > Len(bytes) THEN Refused("oversized")
        ELSE IF (size - SizeLen - SigLen) % SlotLen # 0 THEN Refused("invalid")
        ELSE [error |-> None,
              cursor |-> c + size,
              segments |-> Append(parsed.segments,
                  [segment_size |-> size,
                   records |-> RecordSet(SubSeq(bytes, c + SizeLen + 1, signature)),
                   signature |-> SubSeq(bytes, signature + 1, c + size)])]

ParseSegments(bytes) ==
    LET upto[n \in 0..bytes[4]] ==
            IF n = 0 THEN [error |-> None, cursor |-> CrlHeaderLen, segments |-> <<>>]
            ELSE ParseSegment(bytes, upto[n - 1])
    IN  upto[bytes[4]]

\* Nothing but zeros may follow the last segment.
ParseCrl(bytes) ==
    IF Len(bytes) < CrlHeaderLen THEN [error |-> "truncated"]
    ELSE IF bytes[4] = 0 THEN [error |-> "invalid"]
    ELSE LET parsed == ParseSegments(bytes)
         IN  IF parsed.error # None THEN [error |-> parsed.error]
             ELSE IF ~IsZero(From(bytes, parsed.cursor + 1)) THEN [error |-> "invalid"]
             ELSE [error |-> None,
                   list_type |-> bytes[1], reserved_nibble |-> bytes[2],
                   list_version |-> bytes[3], number_of_segments |-> bytes[4],
                   segments |-> parsed.segments]
-----------------------------------------------------------------------------
(* to_bytes, signed_range_for_segment and the signatures *)

Header(crl) ==
    <<crl.list_type, crl.reserved_nibble, crl.list_version, crl.number_of_segments>>

Records(segment) ==
    Concat([n \in DOMAIN segment.records |-> Encode(segment.records[n])])

Unsigned(segment) == Digits(segment.segment_size) \o Records(segment)

CrlToBytes(crl) ==
    Header(crl) \o Concat([n \in DOMAIN crl.segments |->
                               Unsigned(crl.segments[n]) \o crl.segments[n].signature])

\* Everything before the k-th signature, the earlier signatures included.
SignedRange(crl, k) ==
    Header(crl) \o Concat([n \in 1..k |->
                               Unsigned(crl.segments[n])
                                 \o (IF n = k THEN <<>> ELSE crl.segments[n].signature)])

SegmentVerifies(crl, k) ==
    [sig |-> crl.segments[k].signature, data |-> SignedRange(crl, k)] \in LaSigned

\* Faulty variant: the first segment is checked.
FirstSegmentVerifies(crl) == SegmentVerifies(crl, 1)

LastSegmentVerifies(crl) == SegmentVerifies(crl, Len(crl.segments))

AllSegmentsVerify(crl) == \A k \in DOMAIN crl.segments : SegmentVerifies(crl, k)
-----------------------------------------------------------------------------
(* The queries *)

AllRecords(crl) ==
    UNION {{crl.segments[k].records[n] : n \in DOMAIN crl.segments[k].records} :
               k \in DOMAIN crl.segments}

InRange(query, r) == query >= r.id /\ query <= r.id + r.range

\* A record of a medium that ignores the certificate revokes no certificate.
RevokesCertificate(r, query) ==
    \/ r.type = "ContentCertificateId" /\ InRange(query, r)
    \/ r.type = "RecordableMedia" /\ ~r.iccid /\ r.content_certificate_id = query

CertificateRevoked(crl, query) == \E r \in AllRecords(crl) : RevokesCertificate(r, query)

ServerRevoked(crl, query) ==
    \E r \in AllRecords(crl) :
        r.type = "ManagedCopyServerCertificateId" /\ InRange(query, r)

MediaRevoked(crl, media_type, media_id, certificate_id) ==
    \E r \in AllRecords(crl) :
        /\ r.type = "RecordableMedia"
        /\ r.media_type = media_type /\ r.media_id = media_id
        /\ r.iccid \/ r.content_certificate_id = certificate_id
=============================================================================
