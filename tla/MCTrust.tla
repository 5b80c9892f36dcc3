------------------------------ MODULE MCTrust ------------------------------
(* Two lists: one of two segments with a range of certificates, a server,  *)
(* and a medium with and without its certificate; one with a server's      *)
(* record alone.  Two discs whose units are the same in another order; the *)
(* second one's certificate asks for no CRL version.                       *)
EXTENDS Trust

\* Revocation records, by the tables of the AACS books.
CertificateSlot(range, hi, lo) == <<0, 0, range, hi, lo>>
ServerSlot(range, hi, lo) == <<1, 0, range, hi, lo>>
MediaSlots(flags, hi, lo) ==
    <<2, flags, hi, lo, 9>> \o <<3, 1, 0, 7, 0>> \o <<4, 2, 0, 0, 5>>
MediaId == <<9, 18, 0, 7, 0, 0, 0, 5>>

Signature(n) == <<n, n>>
Sig(n, data) == [sig |-> Signature(n), data |-> data]
Segment(slots) == Digits(2 + Len(slots) + 2) \o slots

Part1 == <<0, 0, 1, 2>> \o Segment(CertificateSlot(2, 3, 1) \o MediaSlots(0, 5, 1))
Part2 == Part1 \o Signature(11) \o Segment(ServerSlot(0, 3, 3) \o MediaSlots(9, 6, 1))
Other == <<0, 0, 2, 1>> \o Segment(ServerSlot(1, 3, 3))
MCLaSigned == {Sig(11, Part1), Sig(12, Part2), Sig(13, Other)}

Id(hi, lo) == hi * Nibble + lo
Medium(type, id) == [media_type |-> type, media_id |-> MediaId, id |-> id]
MCQueries == {Id(3, n) : n \in 0..5} \cup {Id(5, 1), Id(6, 1)}
MCMedia == {Medium(type, id) : type \in {0, 1}, id \in {Id(5, 1), Id(6, 1), Id(7, 1)}}
MCCrls ==
    {[file |-> Part2 \o Signature(12), version |-> 1,
      certificates |-> {Id(3, n) : n \in 1..3} \cup {Id(5, 1)},
      servers |-> {Id(3, 3)},
      media |-> {Medium(0, Id(5, 1))} \cup {Medium(1, q) : q \in {Id(5, 1), Id(6, 1), Id(7, 1)}}],
     [file |-> Other \o Signature(13), version |-> 2,
      certificates |-> {}, servers |-> {Id(3, 3), Id(3, 4)}, media |-> {}]}

\* A disc's certificate: one clip, its section empty or of two cells.
Unit(n) == <<n, n>>
Table(n, first, second) == <<0, n, 0, first, second>>
Unsigned1 == <<0, 8, 1, 2, 1, 5, 1, 1, 0, 0, 0, 0, 7>>
Unsigned2 == <<0, 0, 1, 2, 1, 7, 1, 0, 0, 2, 4, 4, 8>>
MCCcSigned == {Sig(14, Unsigned1), Sig(15, Unsigned2)}
MCHashes ==
    {[data |-> Unit(1), hash |-> 5], [data |-> Unit(2), hash |-> 6],
     [data |-> Table(1, 5, 6), hash |-> 7], [data |-> Table(2, 6, 5), hash |-> 8]}
MCDiscs ==
    {[certificate |-> Unsigned1 \o Signature(14), id |-> Id(5, 1),
      table |-> Table(1, 5, 6), units |-> <<Unit(1), Unit(2)>>],
     [certificate |-> Unsigned2 \o Signature(15), id |-> Id(7, 1),
      table |-> Table(2, 6, 5), units |-> <<Unit(2), Unit(1)>>]}
=============================================================================
