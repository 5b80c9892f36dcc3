------------------------------- MODULE Trust -------------------------------
(***************************************************************************)
(* A player decides what on a disc to trust, with the calls of src/crl.rs, *)
(* src/content_certificate.rs and src/cht.rs: it parses the revocation     *)
(* list, the Content Certificate and the Content Hash Table, checks their  *)
(* signatures and digest, and then the units of a clip, in whatever order. *)
(* On their way to it the files may be cut, damaged, padded or exchanged   *)
(* for those of another disc.  The list and the chain from certificate to  *)
(* unit share no state, so a behaviour has one of them.                    *)
(***************************************************************************)
EXTENDS Certificate

CONSTANTS
    Crls,       \* lists of the AACS LA: a file and whom it is to revoke
    Discs,      \* discs: certificate, its ID, table and units
    Queries,    \* IDs a player asks about
    Media,      \* media a player asks about: type, ID and certificate's ID
    Damages,    \* what a damaged cell may read as
    PadLens,    \* the lengths of padding
    MaxHarm     \* bound on the cells damaged and the files cut

ASSUME DeliveryAssumption ==
    Damages \subseteq Cell /\ PadLens \subseteq Nat /\ MaxHarm \in Nat

\* None is no answer and no call.
ASSUME AnswerAssumption ==
    None \notin {"signature", "mismatch", "parse_crl", "verify_crl", "parse_certificate",
                 "verify_certificate", "digest", "parse_table", "unit"}

\* Where the k-th segment ends in the file.
EndOfSegment(segments, k) ==
    LET upto[n \in 0..k] == IF n = 0 THEN CrlHeaderLen
                            ELSE upto[n - 1] + segments[n].segment_size
    IN  upto[k]

\* A signature stands behind what it signs.
SignedAt(bytes, n) == [sig |-> SubSeq(bytes, n + 1, n + SigLen), data |-> SubSeq(bytes, 1, n)]

\* Whom a list revokes.
Revokes(list, x) ==
    /\ x.version = list.list_version
    /\ \A q \in Queries : CertificateRevoked(list, q) <=> q \in x.certificates
    /\ \A q \in Queries : ServerRevoked(list, q) <=> q \in x.servers
    /\ \A m \in Media :
          MediaRevoked(list, m.media_type, m.media_id, m.id) <=> m \in x.media

\* The AACS LA signs its lists up to each of the signatures, and with this key
\* nothing else.
ASSUME ListsAssumption ==
    /\ \A x \in Crls :
          LET list == ParseCrl(x.file)
          IN  /\ x.file \in Seq(Cell) /\ list.error = None /\ Revokes(list, x)
              /\ \A k \in DOMAIN list.segments :
                    SignedAt(x.file, EndOfSegment(list.segments, k) - SigLen) \in LaSigned
    /\ \A s \in LaSigned : \E x \in Crls : \E n \in 0..(Len(x.file) - SigLen) :
          s = SignedAt(x.file, n)

\* It signs the certificates of the discs, with zeros for what is reserved, and
\* with that key nothing else.
ASSUME CertificatesAssumption ==
    /\ \A d \in Discs :
          /\ d.certificate \in Seq(Cell)
          /\ ParseCertificate(d.certificate).error = None
          /\ d.certificate[2] \in {0, FlagBit} /\ d.certificate[9] = 0
          /\ d.certificate[10] = 0 => d.certificate[11] = 0 /\ d.certificate[12] = 0
          /\ SignedAt(d.certificate, SignatureAt(d.certificate)) \in CcSigned
    /\ \A s \in CcSigned : \E d \in Discs :
          s = SignedAt(d.certificate, SignatureAt(d.certificate))

\* A disc's certificate has the digest of its table, the table the hashes of
\* its units.
ASSUME TablesAssumption ==
    \A d \in Discs :
        LET c == ParseCertificate(d.certificate)
            t == ParseTable(d.table, c.number_of_digests, c.number_of_hash_units)
        IN  /\ d.id = c.content_certificate_id
            /\ d.table \in Seq(Cell) /\ t.error = None
            /\ \A n \in DOMAIN c.content_hash_table_digests :
                  [data |-> d.table, hash |-> c.content_hash_table_digests[n]] \in Hashes
            /\ DOMAIN d.units = DOMAIN t.hash_values
            /\ \A n \in DOMAIN d.units :
                  [data |-> d.units[n], hash |-> t.hash_values[n]] \in Hashes

VARIABLES
    mastered,     \* the files as they were made
    file,         \* the files as they are read
    harm,         \* how often they were harmed
    pc,
    crl,          \* what has been parsed, or None
    certificate,
    table,
    trusted,      \* the files whose signature or digest was found right
    answer        \* what the latest call returned

parsed == <<crl, certificate, table>>
vars == <<mastered, file, harm, pc, parsed, trusted, answer>>

FileNames == DOMAIN mastered
-----------------------------------------------------------------------------
(* The files' way to the player *)

Harm(f, bytes) ==
    /\ pc = "delivery" /\ harm < MaxHarm
    /\ harm' = harm + 1
    /\ file' = [file EXCEPT ![f] = bytes]
    /\ UNCHANGED <<mastered, pc, parsed, trusted, answer>>

Cut(f, n) == n < Len(file[f]) /\ Harm(f, SubSeq(file[f], 1, n))
Damage(f, c, value) == Harm(f, [file[f] EXCEPT ![c] = value])

Deliver(f, n) ==
    /\ pc = "delivery"
    /\ file' = [file EXCEPT ![f] = @ \o [z \in 1..n |-> 0]]
    /\ pc' = "reading"
    /\ UNCHANGED <<mastered, harm, parsed, trusted, answer>>
-----------------------------------------------------------------------------
(* The player's calls *)

Answer(call, says) == answer' = [call |-> call, says |-> says, index |-> 0, unit |-> None]

Kept(p) == IF p.error = None THEN p ELSE None

ReadCrl ==
    /\ pc = "reading" /\ "crl" \in FileNames /\ crl = None
    /\ LET p == ParseCrl(file["crl"])
       IN  crl' = Kept(p) /\ Answer("parse_crl", p.error)
    /\ UNCHANGED <<mastered, file, harm, pc, certificate, table, trusted>>

\* verify_last_segment_signature or verify_all_segments.
VerifyCrl(all) ==
    /\ crl # None
    /\ LET ok == IF all THEN AllSegmentsVerify(crl) ELSE LastSegmentVerifies(crl)
       IN  /\ trusted' = IF ok THEN trusted \cup {"crl"} ELSE trusted
           /\ Answer("verify_crl", IF ok THEN None ELSE "signature")
    /\ UNCHANGED <<mastered, file, harm, pc, parsed>>

ReadCertificate ==
    /\ pc = "reading" /\ "certificate" \in FileNames /\ certificate = None
    /\ LET p == ParseCertificate(file["certificate"])
       IN  certificate' = Kept(p) /\ Answer("parse_certificate", p.error)
    /\ UNCHANGED <<mastered, file, harm, pc, crl, table, trusted>>

VerifyCertificate ==
    /\ certificate # None
    /\ LET ok == SignatureVerifies(certificate)
       IN  /\ trusted' = IF ok THEN trusted \cup {"certificate"} ELSE trusted
           /\ Answer("verify_certificate", IF ok THEN None ELSE "signature")
    /\ UNCHANGED <<mastered, file, harm, pc, parsed>>

\* The digest is that of the file, not of what was parsed from it.
CheckDigest(digest_index) ==
    /\ certificate # None
    /\ LET ok == DigestVerifies(certificate, digest_index, file["table"])
       IN  /\ trusted' = IF ok THEN trusted \cup {"table"} ELSE trusted
           /\ Answer("digest", IF ok THEN None ELSE "mismatch")
    /\ UNCHANGED <<mastered, file, harm, pc, parsed>>

\* The counts come from the certificate.
ReadTable ==
    /\ certificate # None /\ table = None
    /\ LET p == ParseTable(file["table"], certificate.number_of_digests,
                           certificate.number_of_hash_units)
       IN  table' = Kept(p) /\ Answer("parse_table", p.error)
    /\ UNCHANGED <<mastered, file, harm, pc, crl, certificate, trusted>>

CheckUnit(hash_unit_index, unit) ==
    /\ table # None
    /\ answer' = [call |-> "unit",
                  says |-> IF UnitVerifies(table, hash_unit_index, unit)
                             THEN None ELSE "mismatch",
                  index |-> hash_unit_index, unit |-> unit]
    /\ UNCHANGED <<mastered, file, harm, pc, parsed, trusted>>
-----------------------------------------------------------------------------
Init ==
    /\ \/ \E x \in Crls : mastered = [f \in {"crl"} |-> x.file]
       \/ \E d, e \in Discs :
             mastered = [f \in {"certificate", "table"} |->
                            IF f = "table" THEN e.table ELSE d.certificate]
    /\ file = mastered
    /\ harm = 0 /\ pc = "delivery"
    /\ crl = None /\ certificate = None /\ table = None
    /\ trusted = {}
    /\ answer = [call |-> None, says |-> None, index |-> 0, unit |-> None]

Units == UNION {{d.units[n] : n \in DOMAIN d.units} : d \in Discs}
HashUnitIndices == UNION {{n - 1 : n \in DOMAIN d.units} : d \in Discs}

Next ==
    \/ \E f \in FileNames : \E n \in 0..(Len(file[f]) - 1) : Cut(f, n)
    \/ \E f \in FileNames : \E c \in DOMAIN file[f], value \in Damages : Damage(f, c, value)
    \/ \E f \in FileNames, n \in PadLens : Deliver(f, n)
    \/ ReadCrl \/ \E all \in BOOLEAN : VerifyCrl(all)
    \/ ReadCertificate \/ VerifyCertificate
    \/ \E n \in {0, 1} : CheckDigest(n)
    \/ ReadTable
    \/ \E n \in HashUnitIndices, unit \in Units : CheckUnit(n, unit)

Spec == Init /\ [][Next]_vars
-----------------------------------------------------------------------------
(* What holds of it *)

\* A file as it was made, padded or not, is parsed and verified; only a table's
\* digest covers its padding too.
Padded(f) ==
    /\ Len(mastered[f]) <= Len(file[f])
    /\ SubSeq(file[f], 1, Len(mastered[f])) = mastered[f]
    /\ \A n \in Len(mastered[f]) + 1 .. Len(file[f]) : file[f][n] = 0
MadeFor(c, t) == \E d \in Discs : d.certificate = c /\ d.table = t
IntactFilesPass ==
    /\ (answer.call \in {"parse_crl", "verify_crl"} /\ Padded("crl")) => answer.says = None
    /\ (answer.call \in {"parse_certificate", "verify_certificate"} /\ Padded("certificate"))
          => answer.says = None
    /\ (answer.call = "parse_table" /\ Padded("certificate") /\ Padded("table")
          /\ MadeFor(mastered["certificate"], mastered["table"])) => answer.says = None

\* What is signed is read from the file only through what was parsed: written
\* again it is the file, up to each of the signatures and as a whole.
End(k) == EndOfSegment(crl.segments, k)
SignedRangeIsThePrefix ==
    crl # None =>
        /\ CrlToBytes(crl) = SubSeq(file["crl"], 1, End(Len(crl.segments)))
        /\ \A k \in DOMAIN crl.segments :
              SignedRange(crl, k) = SubSeq(file["crl"], 1, End(k) - SigLen)

\* A list whose last signature verifies revokes whom one list of the AACS LA
\* was to revoke and nobody else, however its segments were harmed.
VerifiedListRevokesAsIssued ==
    "crl" \in trusted =>
        \E x \in Crls : Revokes(crl, x)

\* A damaged record takes no neighbour with it: every record of a certificate's
\* or a server's ID in a segment is among the records, in the file's order.
SlotsOf(k) == Slots(SubSeq(file["crl"], End(k - 1) + SizeLen + 1, End(k) - SigLen))
IdSlots(slots) ==
    Concat([n \in DOMAIN slots |->
               IF slots[n][1] \in {0, 1} THEN <<DecodeSlot(slots[n])>> ELSE <<>>])
IdRecords(records) ==
    Concat([n \in DOMAIN records |->
               IF records[n].type \in {"ContentCertificateId", "ManagedCopyServerCertificateId"}
                 THEN <<records[n]>> ELSE <<>>])
NoRecordIsSwallowed ==
    crl # None =>
        \A k \in DOMAIN crl.segments :
            IdRecords(crl.segments[k].records) = IdSlots(SlotsOf(k))

\* The fields of a certificate that verifies are those of one certificate the
\* AACS LA signed, though reserved bits and what follows it may differ.
VerifiedCertificateIsIssued ==
    "certificate" \in trusted =>
        \E d \in Discs : certificate = ParseCertificate(d.certificate)

\* With the certificate and the table trusted, a unit that is accepted at an
\* index is the one mastered there on the disc the certificate was made for.
AcceptedUnitIsMastered ==
    (answer.call = "unit" /\ answer.says = None /\ {"certificate", "table"} \subseteq trusted) =>
        \E d \in Discs :
            /\ d.id = certificate.content_certificate_id
            /\ answer.index + 1 \in DOMAIN d.units
            /\ d.units[answer.index + 1] = answer.unit
=============================================================================
