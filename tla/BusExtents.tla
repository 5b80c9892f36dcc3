----------------------------- MODULE BusExtents -----------------------------
(***************************************************************************)
(* The drive's table of Bus-Encryption Sector Extents, from src/mmc.rs:    *)
(* SEND DISC STRUCTURE Format 0x85 replaces it, READ DISC STRUCTURE Format *)
(* 0x85 reports it.  Neither needs the drive-host authentication, so any   *)
(* host may issue either at any time; the drive runs one command to its    *)
(* end before the next.                                                    *)
(*                                                                         *)
(* A parameter list or response is its 16-bit length field and its extent  *)
(* records.  The length field, the record size and the Maximum byte keep   *)
(* the widths of the code; LbaMax stands for u32::MAX.                     *)
(***************************************************************************)
EXTENDS Integers, Sequences

CONSTANTS
    Hosts,
    LbaMax,       \* the largest u32
    Capacities,   \* the media_capacity_lba of the media there are
    Maxima,       \* the max_bus_encryption_sector_extents of the drives
    Lists,        \* the extent lists hosts send
    None

LenMod == 65536   \* the Data Length field is a u16
RecLen == 16      \* BUS_ENCRYPTION_SECTOR_EXTENT_LEN
ByteMod == 256    \* the Maximum byte

Extent == [start_lba : 0..LbaMax, lba_count : 0..LbaMax]

ASSUME LbaAssumption == LbaMax \in Nat /\ Capacities \subseteq 0..LbaMax
ASSUME MaximaAssumption == Maxima \subseteq 1..ByteMod
ASSUME ListsAssumption == Lists \subseteq Seq(Extent) /\ None \notin Lists
ASSUME NoneAssumption == None \notin {"ok", "lost", "refused"}
-----------------------------------------------------------------------------
VARIABLES
    capacity,     \* media_capacity_lba
    maximum,      \* max_bus_encryption_sector_extents
    extents,      \* bus_encryption_sector_extents
    pc,           \* "idle", or "validate" while a SEND is being checked
    sent,         \* the list the latest SEND was built from, None if by hand
    request,      \* the list the drive parsed from it
    i,            \* the record validate_bus_encryption_sector_extents is at
    answer,       \* the latest SEND's outcome at its host
    view          \* what each host's latest READ returned

vars == <<capacity, maximum, extents, pc, sent, request, i, answer, view>>
-----------------------------------------------------------------------------
(* The wire *)

\* The two builders emit the low 16 bits of 2 + N*16 and every record.
Message(list) ==
    [length |-> (2 + RecLen * Len(list)) % LenMod, records |-> list]

\* A parameter list made by hand: a length field too short, too long for the
\* buffer, or off the record stride.
Malformed(list) ==
    {[length |-> n, records |-> list] : n \in {0, 2 + RecLen * (Len(list) + 1)}}
        \cup {[length |-> RecLen * Len(list) + 1, records |-> list] : x \in 1..Len(list)}

\* The three refusals both parsers share.
WellFormed(m) ==
    /\ m.length >= 2
    /\ 2 + m.length <= 4 + RecLen * Len(m.records)
    /\ (m.length - 2) % RecLen = 0

Parsed(m) == SubSeq(m.records, 1, (m.length - 2) \div RecLen)

\* Faulty variant: 256 is clamped to the byte.
EncodeClamped(n) == IF n = ByteMod THEN ByteMod - 1 ELSE n

\* READ DISC STRUCTURE writes 256 as 0.
EncodeMaximum(n) == IF n = ByteMod THEN 0 ELSE n % ByteMod

DecodeMaximum(b) == IF b = 0 THEN ByteMod ELSE b
-----------------------------------------------------------------------------
(* validate_bus_encryption_sector_extents, one record at a time *)

\* One past the last LBA, in u64.
End(e) == e.start_lba + e.lba_count

\* Faulty variant: an extent may start inside the one before it.
SortedOnly(e, prev) == e.start_lba < prev.start_lba

OutOfOrder(e, prev) == e.start_lba < prev.start_lba \/ e.start_lba < End(prev)

Refused(list, n) ==
    \/ list[n].lba_count = 0
    \/ End(list[n]) > capacity
    \/ n > 1 /\ OutOfOrder(list[n], list[n - 1])
-----------------------------------------------------------------------------
Tell(what) == answer' = what

\* The command ends.  A reply to a SEND that was carried out may be lost.
Done == pc' = "idle" /\ request' = <<>> /\ i' = 1

\* SEND DISC STRUCTURE 0x85 up to the count check.
Send(list, m) ==
    /\ pc = "idle"
    /\ sent' = list
    /\ IF WellFormed(m) /\ Len(Parsed(m)) <= maximum
         THEN /\ pc' = "validate" /\ request' = Parsed(m) /\ i' = 1
              /\ Tell(None)
         ELSE Done /\ Tell("refused")
    /\ UNCHANGED <<capacity, maximum, extents, view>>

\* Faulty variant: a record is stored as soon as it is checked.
CheckAndStoreExtent ==
    /\ pc = "validate" /\ i \in 1..Len(request)
    /\ IF Refused(request, i)
         THEN Done /\ Tell("refused") /\ UNCHANGED extents
         ELSE /\ i' = i + 1
              /\ extents' = SubSeq(request, 1, i)
              /\ UNCHANGED <<pc, request, answer>>
    /\ UNCHANGED <<capacity, maximum, sent, view>>

CheckExtent ==
    /\ pc = "validate" /\ i \in 1..Len(request)
    /\ IF Refused(request, i)
         THEN Done /\ Tell("refused")
         ELSE i' = i + 1 /\ UNCHANGED <<pc, request, answer>>
    /\ UNCHANGED <<capacity, maximum, extents, sent, view>>

Accept ==
    /\ pc = "validate" /\ i = Len(request) + 1
    /\ extents' = request
    /\ Done
    /\ \E what \in {"ok", "lost"} : Tell(what)
    /\ UNCHANGED <<capacity, maximum, sent, view>>

\* READ DISC STRUCTURE 0x85 and its parser.
Read(h) ==
    /\ pc = "idle"
    /\ LET m == Message(extents)
       IN  /\ WellFormed(m)
           /\ view' = [view EXCEPT ![h] =
                 [maximum |-> DecodeMaximum(EncodeMaximum(maximum)),
                  extents |-> Parsed(m)]]
    /\ UNCHANGED <<capacity, maximum, extents, pc, sent, request, i, answer>>

Init ==
    /\ capacity \in Capacities
    /\ maximum \in Maxima
    /\ extents = <<>>
    /\ pc = "idle"
    /\ sent = None
    /\ request = <<>>
    /\ i = 1
    /\ answer = None
    /\ view = [h \in Hosts |-> None]

Next ==
    \/ \E list \in Lists : Send(list, Message(list))
    \/ \E list \in Lists : \E m \in Malformed(list) : Send(None, m)
    \/ CheckExtent
    \/ Accept
    \/ \E h \in Hosts : Read(h)

Spec == Init /\ [][Next]_vars
-----------------------------------------------------------------------------
(* What holds of it *)

TypeOK ==
    /\ capacity \in Capacities /\ maximum \in Maxima
    /\ extents \in Seq(Extent)
    /\ pc \in {"idle", "validate"}
    /\ sent \in Lists \cup {None}
    /\ request \in Seq(Extent) /\ i \in 1..(Len(request) + 1)
    /\ answer \in {None, "ok", "lost", "refused"}
    /\ view \in [Hosts -> [maximum : 1..ByteMod, extents : Seq(Extent)] \cup {None}]

\* What the table must be, over sectors: non-empty extents that lie on the
\* media, every sector of one before every sector of the next.
Sectors(e) == e.start_lba..(e.start_lba + e.lba_count - 1)

LegalTable(list) ==
    /\ Len(list) <= maximum
    /\ \A n \in 1..Len(list) :
          Sectors(list[n]) # {} /\ Sectors(list[n]) \subseteq 0..(capacity - 1)
    /\ \A m, n \in 1..Len(list) : m < n =>
          \A s \in Sectors(list[m]), t \in Sectors(list[n]) : s < t

\* The drive never holds a table with an empty, overlapping, unsorted or
\* off-media extent, nor more of them than it advertises, whatever any host
\* sends: the loop only compares neighbours, the table is legal for all pairs.
StoredTableLegal == LegalTable(extents)

\* A host told ok has its whole list in the drive when the reply arrives, and
\* nothing but a SEND that passed every check changes the table: a list
\* refused at its last record leaves the old table whole.
SendReplacesAllOrNothing ==
    [][/\ answer # "ok" /\ answer' = "ok" => extents' = sent'
       /\ extents' # extents => answer' \in {"ok", "lost"}]_vars

\* A READ returns the table and the maximum of the drive, through the 16-bit
\* length and the Maximum byte in which 256 is written 0: a host that keeps to
\* what it read is never refused for the number of its extents.
ReadReportsTheDrive ==
    [][\A h \in Hosts : view'[h] # view[h] =>
          view'[h] = [maximum |-> maximum, extents |-> extents]]_vars
=============================================================================
