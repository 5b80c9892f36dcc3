----------------------------- MODULE MkbRecords -----------------------------
(***************************************************************************)
(* The Media Key Block as a file, from src/mkb.rs: Mkb::parse reads it     *)
(* record by record, later records replacing earlier ones of their type,   *)
(* and the three verify_* calls read it a second time to find what the     *)
(* AACS LA signed.  On its way the file may be cut or followed by the      *)
(* records of another, damaged and padded.                                 *)
(*                                                                         *)
(* The file is a sequence of cells.  A record is its tag, its length (a    *)
(* cell, for three bytes) and its payload; HeaderLen, CountLen, EntryLen   *)
(* and SigLen stand for 4, 4, 8 and 40 bytes.  What the other records'     *)
(* payloads say is not looked into.                                        *)
(***************************************************************************)
EXTENDS Naturals, Sequences, FiniteSets

CONSTANTS
    Masters,     \* MKBs of the AACS LA, each a sequence of records
    LaSigned,    \* what the AACS LA has signed: pairs of sig and data
    EntryLen,
    SigLen,
    MinLen,      \* the least payload of each plain record
    Damages,     \* what a damaged cell may read as
    Tails,       \* what may stand in the file behind the MKB, such as the end of
                 \* a longer one it was written over
    PadLens,     \* the lengths of padding
    MaxDamage,   \* bound on the damaged cells
    None

HeaderLen == 2
CountLen == 2
Base == 256      \* of a count's digits

TypeAndVersion == 16
EndOfBlock == 2
Lists == {33, 32}                     \* host and drive revocation lists
Plain == {16, 129, 4, 7, 5, 12, 13}   \* the other records an Mkb holds

ASSUME SizesAssumption ==
    /\ EntryLen \in Nat \ {0} /\ SigLen \in Nat \ {0}
    /\ MinLen \in [Plain -> Nat]
ASSUME FilesAssumption ==
    /\ Masters \subseteq Seq([tag : Nat, payload : Seq(Nat)])
    /\ LaSigned \subseteq [sig : Seq(Nat), data : Seq(Nat)]
    /\ Tails \subseteq Seq(Nat)
    /\ Damages \subseteq Nat /\ PadLens \subseteq Nat /\ MaxDamage \in Nat
    /\ None \notin Seq(Nat) /\ None \notin Lists \cup {EndOfBlock}

VARIABLES
    master,      \* the MKB the file was made from
    bytes,       \* the file, original_bytes
    damage,      \* how many cells were damaged
    pc,
    cursor,      \* Mkb::parse's place in the file
    starts,      \* where it found records
    saw_type_record_first,
    mkb,         \* what it has parsed
    list,        \* parse_revocation_list_with_blocks: place and result so far
    call,        \* the verify_* call: the tag it looks for
    found,       \* its place in the file
    at,          \* its place in the list's payload
    k,           \* the block it is at
    verified_any,
    answer       \* what the latest call returned

parsing == <<cursor, starts, saw_type_record_first, mkb, list>>
verifying == <<call, found, at, k, verified_any, answer>>
vars == <<master, bytes, damage, pc, parsing, verifying>>
-----------------------------------------------------------------------------
(* Cells *)

Bytes(r) == <<r.tag, HeaderLen + Len(r.payload)>> \o r.payload

FileOf(m) ==
    LET upto[n \in 0..Len(m)] == IF n = 0 THEN <<>> ELSE upto[n - 1] \o Bytes(m[n])
    IN  upto[Len(m)]

Zeros(n) == [z \in 1..n |-> 0]
IsZero(s) == \A z \in DOMAIN s : s[z] = 0

Tag(c) == bytes[c + 1]
Length(c) == bytes[c + 2]
Record(c) == SubSeq(bytes, c + 1, c + Length(c))
Payload(c) == SubSeq(bytes, c + HeaderLen + 1, c + Length(c))

Count(p, c) == Base * p[c + 1] + p[c + 2]

\* Faulty variant: any signature of the AACS LA will do.
KnownSignature(sig, data) == \E s \in LaSigned : s.sig = sig

Verifies(sig, data) == [sig |-> sig, data |-> data] \in LaSigned
-----------------------------------------------------------------------------
(* The file's way to the reader *)

Cut(n) ==
    /\ pc = "delivery" /\ n < Len(bytes) /\ bytes = FileOf(master)
    /\ bytes' = SubSeq(bytes, 1, n)
    /\ UNCHANGED <<master, damage, pc, parsing, verifying>>

Follow(tail) ==
    /\ pc = "delivery" /\ bytes = FileOf(master)
    /\ bytes' = bytes \o tail
    /\ UNCHANGED <<master, damage, pc, parsing, verifying>>

Damage(c, value) ==
    /\ pc = "delivery" /\ damage < MaxDamage
    /\ damage' = damage + 1
    /\ bytes' = [bytes EXCEPT ![c] = value]
    /\ UNCHANGED <<master, pc, parsing, verifying>>

\* Padding to a sector, after which the reader is given the file.
Deliver(n) ==
    /\ pc = "delivery"
    /\ bytes' = bytes \o Zeros(n)
    /\ pc' = "record"
    /\ UNCHANGED <<master, damage, parsing, verifying>>
-----------------------------------------------------------------------------
(* Mkb::parse *)

Remaining == Len(bytes) - cursor

\* A length below that of a header: the padding of a file that is complete, or
\* nothing but zeros.
Padding ==
    mkb.end_of_block \/ IsZero(SubSeq(bytes, cursor + 1, Len(bytes)))

\* A record the parser takes, header and all.
Whole == Remaining >= HeaderLen /\ Length(cursor) \in HeaderLen..Remaining

Fail(error) ==
    /\ pc' = "failed"
    /\ answer' = [call |-> None, says |-> error]
    /\ UNCHANGED <<call, found, at, k, verified_any>>

EndOfRecords ==
    \/ Remaining < HeaderLen
    \/ Remaining >= HeaderLen /\ Length(cursor) < HeaderLen /\ Padding

FinishParse ==
    /\ pc = "record" /\ EndOfRecords
    /\ IF saw_type_record_first
         THEN pc' = "parsed" /\ UNCHANGED verifying
         ELSE Fail("missing_type_and_version")
    /\ UNCHANGED <<master, bytes, damage, parsing>>

RefuseRecord ==
    /\ pc = "record" /\ ~EndOfRecords /\ ~Whole
    /\ Fail(IF Length(cursor) < HeaderLen THEN "length" ELSE "oversized")
    /\ UNCHANGED <<master, bytes, damage, parsing>>

\* Faulty variant: the header is counted twice.
AdvanceByHeader == cursor' = cursor + HeaderLen + Length(cursor)

Advance == cursor' = cursor + Length(cursor)

NoteRecord ==
    /\ starts' = Append(starts, cursor)
    /\ saw_type_record_first' =
          IF starts = <<>> THEN Tag(cursor) = TypeAndVersion ELSE saw_type_record_first

AtRecord == pc = "record" /\ ~EndOfRecords /\ Whole

\* The Type-and-Version Record's cells are kept whole, for the lists.
ReadPlain ==
    /\ AtRecord /\ Tag(cursor) \in Plain
    /\ LET t == Tag(cursor)
       IN  IF Len(Payload(cursor)) < MinLen[t]
             THEN Fail("truncated") /\ UNCHANGED parsing
             ELSE /\ mkb' = [mkb EXCEPT !.fields[t] = Payload(cursor),
                        !.type_and_version_raw =
                            IF t = TypeAndVersion THEN Record(cursor) ELSE @]
                  /\ NoteRecord /\ Advance
                  /\ UNCHANGED <<pc, list, verifying>>
    /\ UNCHANGED <<master, bytes, damage>>

\* A payload that is no signature is accepted and none is remembered.
EndMkb(p) ==
    [mkb EXCEPT !.end_of_block = TRUE,
                !.end_of_block_signature = IF Len(p) = SigLen THEN p ELSE None]

\* The parser goes on after it.
ReadEnd ==
    /\ AtRecord /\ Tag(cursor) = EndOfBlock
    /\ mkb' = EndMkb(Payload(cursor))
    /\ NoteRecord /\ Advance
    /\ UNCHANGED <<master, bytes, damage, pc, list, verifying>>

ReadUnknown ==
    /\ AtRecord /\ Tag(cursor) \notin Plain \cup Lists \cup {EndOfBlock}
    /\ mkb' = [mkb EXCEPT !.unknown_records = Append(@, Record(cursor))]
    /\ NoteRecord /\ Advance
    /\ UNCHANGED <<master, bytes, damage, pc, list, verifying>>

BeginList ==
    /\ AtRecord /\ Tag(cursor) \in Lists
    /\ IF Len(Payload(cursor)) < CountLen
         THEN Fail("truncated") /\ UNCHANGED parsing
         ELSE /\ pc' = "list"
              /\ list' = [at |-> CountLen, blocks |-> <<>>]
              /\ UNCHANGED <<cursor, starts, saw_type_record_first, mkb, verifying>>
    /\ UNCHANGED <<master, bytes, damage>>
-----------------------------------------------------------------------------
(* parse_revocation_list_with_blocks, one signature block at a time *)

Entries(p, c, n) ==
    [e \in 1..n |-> SubSeq(p, c + (e - 1) * EntryLen + 1, c + e * EntryLen)]

\* The count and the entries of a block at c lie in the payload.
BlockFits(p, c) ==
    /\ c + CountLen <= Len(p)
    /\ c + CountLen + Count(p, c) * EntryLen <= Len(p)

SignatureAt(p, c) == c + CountLen + Count(p, c) * EntryLen

\* A block after which a signature does not fit is the last and has none.
Block(p, c) ==
    [entries_in_block |-> Count(p, c),
     entries |-> Entries(p, c + CountLen, Count(p, c)),
     signature |-> IF SignatureAt(p, c) + SigLen <= Len(p)
                     THEN SubSeq(p, SignatureAt(p, c) + 1, SignatureAt(p, c) + SigLen)
                     ELSE None]

AfterBlock(p, c) ==
    IF SignatureAt(p, c) + SigLen <= Len(p) THEN SignatureAt(p, c) + SigLen ELSE Len(p)

ReadBlock ==
    /\ pc = "list" /\ list.at < Len(Payload(cursor))
    /\ LET p == Payload(cursor)
       IN  IF ~BlockFits(p, list.at)
             THEN Fail("truncated") /\ UNCHANGED parsing
             ELSE /\ list' = [at |-> AfterBlock(p, list.at),
                              blocks |-> Append(list.blocks, Block(p, list.at))]
                  /\ UNCHANGED <<pc, cursor, starts, saw_type_record_first, mkb, verifying>>
    /\ UNCHANGED <<master, bytes, damage>>

EndList ==
    /\ pc = "list" /\ list.at >= Len(Payload(cursor))
    /\ pc' = "record"
    /\ mkb' = [mkb EXCEPT !.revocation_blocks[Tag(cursor)] = list.blocks]
    /\ NoteRecord /\ Advance
    /\ UNCHANGED <<master, bytes, damage, list, verifying>>
-----------------------------------------------------------------------------
(* verify_end_of_block_signature, verify_host_revocation_list and          *)
(* verify_drive_revocation_list                                            *)

Return(tag, says) ==
    /\ pc' = "parsed"
    /\ answer' = [call |-> tag, says |-> says]

Verify(tag) ==
    /\ pc = "parsed"
    /\ IF \/ tag = EndOfBlock /\ mkb.end_of_block_signature = None
          \/ tag \in Lists /\ (mkb.revocation_blocks[tag] = <<>>
                                 \/ mkb.type_and_version_raw = <<>>)
         THEN Return(tag, "missing") /\ UNCHANGED <<call, found, at, k, verified_any>>
         ELSE /\ pc' = "scan"
              /\ call' = tag /\ found' = 0
              /\ UNCHANGED <<at, k, verified_any, answer>>
    /\ UNCHANGED <<master, bytes, damage, parsing>>

AtFound ==
    /\ found + HeaderLen <= Len(bytes)
    /\ Length(found) >= HeaderLen
    /\ found + Length(found) <= Len(bytes)

\* find_end_of_block_signed_prefix_len and find_record_extent.
\* Faulty variant: the header is not counted.
SkipPayload == found' = found + Length(found) - HeaderLen

SkipRecord == found' = found + Length(found)

Scan ==
    /\ pc = "scan" /\ ~(AtFound /\ Tag(found) = call)
    /\ IF AtFound
         THEN SkipRecord /\ UNCHANGED <<pc, answer>>
         ELSE Return(call, "missing") /\ UNCHANGED found
    /\ UNCHANGED <<master, bytes, damage, parsing, call, at, k, verified_any>>

\* Everything up to, but not including, the End record.
SignedPrefix == SubSeq(bytes, 1, found)

CheckEnd ==
    /\ pc = "scan" /\ AtFound /\ Tag(found) = call /\ call = EndOfBlock
    /\ Return(call, IF Verifies(mkb.end_of_block_signature, SignedPrefix)
                    THEN "ok" ELSE "invalid")
    /\ UNCHANGED <<master, bytes, damage, parsing, call, found, at, k, verified_any>>

BeginBlocks ==
    /\ pc = "scan" /\ AtFound /\ Tag(found) = call /\ call \in Lists
    /\ IF Len(Payload(found)) < CountLen
         THEN Return(call, "truncated") /\ UNCHANGED <<at, k, verified_any>>
         ELSE /\ pc' = "verify"
              /\ at' = CountLen /\ k' = 1 /\ verified_any' = FALSE
              /\ UNCHANGED answer
    /\ UNCHANGED <<master, bytes, damage, parsing, call, found>>

Blocks == mkb.revocation_blocks[call]

\* Where block k's signature begins, by the count the parser remembered.
EndOfEntries == at + CountLen + Blocks[k].entries_in_block * EntryLen

\* Faulty variant: a block's signature covers its own entries only.
SignedByBlockAlone ==
    mkb.type_and_version_raw
        \o SubSeq(Record(found), HeaderLen + at + 1, HeaderLen + EndOfEntries)

\* The Type-and-Version Record and the list's record up to the signature.
SignedByBlock ==
    mkb.type_and_version_raw \o SubSeq(Record(found), 1, HeaderLen + EndOfEntries)

Conclude(any) == Return(call, IF any THEN "ok" ELSE "missing")

\* Faulty variant: off by one at the end of the payload.
BlockTouchesEnd ==
    \/ at + CountLen >= Len(Payload(found))
    \/ EndOfEntries >= Len(Payload(found))

BlockIsBeyond ==
    \/ at + CountLen > Len(Payload(found))
    \/ EndOfEntries > Len(Payload(found))

\* Faulty variant: only the first block's signature is verified.
FirstBlockRefused ==
    /\ k = 1 /\ ~BlockIsBeyond
    /\ Blocks[k].signature # None
    /\ ~Verifies(Blocks[k].signature, SignedByBlock)

BlockRefused ==
    /\ ~BlockIsBeyond
    /\ Blocks[k].signature # None
    /\ ~Verifies(Blocks[k].signature, SignedByBlock)

RefuseBlock ==
    /\ pc = "verify" /\ k <= Len(Blocks)
    /\ BlockIsBeyond \/ BlockRefused
    /\ Return(call, IF BlockIsBeyond THEN "truncated" ELSE "invalid")
    /\ UNCHANGED <<master, bytes, damage, parsing, call, found, at, k, verified_any>>

\* A block without a signature is passed over; the walk stops where a signature
\* no longer fits.
CheckBlock ==
    /\ pc = "verify" /\ k <= Len(Blocks)
    /\ ~BlockIsBeyond /\ ~BlockRefused
    /\ LET any == verified_any \/ Blocks[k].signature # None
       IN  /\ verified_any' = any
           /\ IF EndOfEntries + SigLen > Len(Payload(found))
                THEN Conclude(any) /\ UNCHANGED <<at, k>>
                ELSE /\ at' = EndOfEntries + SigLen
                     /\ k' = k + 1
                     /\ UNCHANGED <<pc, answer>>
    /\ UNCHANGED <<master, bytes, damage, parsing, call, found>>

EndBlocks ==
    /\ pc = "verify" /\ k > Len(Blocks)
    /\ Conclude(verified_any)
    /\ UNCHANGED <<master, bytes, damage, parsing, call, found, at, k, verified_any>>
-----------------------------------------------------------------------------
EmptyMkb ==
    [fields |-> [t \in Plain |-> None], type_and_version_raw |-> <<>>,
     revocation_blocks |-> [t \in Lists |-> <<>>],
     end_of_block |-> FALSE, end_of_block_signature |-> None,
     unknown_records |-> <<>>]

Init ==
    /\ master \in Masters
    /\ bytes = FileOf(master)
    /\ damage = 0
    /\ pc = "delivery"
    /\ cursor = 0 /\ starts = <<>> /\ saw_type_record_first = FALSE
    /\ mkb = EmptyMkb
    /\ list = [at |-> 0, blocks |-> <<>>]
    /\ call = None /\ found = 0 /\ at = 0 /\ k = 1 /\ verified_any = FALSE
    /\ answer = [call |-> None, says |-> None]

Delivery ==
    \/ \E n \in 0..(Len(bytes) - 1) : Cut(n)
    \/ \E tail \in Tails : Follow(tail)
    \/ \E c \in DOMAIN bytes, value \in Damages : Damage(c, value)
    \/ \E n \in PadLens : Deliver(n)

Parse ==
    \/ FinishParse \/ RefuseRecord
    \/ ReadPlain \/ ReadEnd \/ ReadUnknown
    \/ BeginList \/ ReadBlock \/ EndList

Walk ==
    \/ Scan \/ CheckEnd
    \/ BeginBlocks \/ RefuseBlock \/ CheckBlock \/ EndBlocks

Next ==
    \/ Delivery
    \/ Parse
    \/ \E tag \in Lists \cup {EndOfBlock} : Verify(tag)
    \/ Walk

Spec == Init /\ [][Next]_vars

\* A call that was made runs on.
FairSpec == Spec /\ WF_vars(Parse) /\ WF_vars(Walk)
-----------------------------------------------------------------------------
(* What the AACS LA makes and signs *)

\* The data of a list's signature that begins at c, in the record rl of an MKB
\* that starts with tv.
ListData(tv, rl, c) == Bytes(tv) \o SubSeq(Bytes(rl), 1, HeaderLen + c)

\* A list's n blocks lie end to end, each signed but perhaps a last one that is
\* not the first.
BlocksMade(tv, rl, n, pos) ==
    /\ pos[1] = CountLen /\ pos[n + 1] = Len(rl.payload)
    /\ \A b \in 1..n :
          /\ pos[b] < Len(rl.payload) /\ BlockFits(rl.payload, pos[b])
          /\ pos[b + 1] = AfterBlock(rl.payload, pos[b])
          /\ LET sig == Block(rl.payload, pos[b]).signature
             IN  IF sig = None THEN b > 1
                 ELSE [sig |-> sig, data |-> ListData(tv, rl, SignatureAt(rl.payload, pos[b]))]
                         \in LaSigned
ListMade(tv, rl) ==
    \E n \in 1..Len(rl.payload) :
       \E pos \in [1..(n + 1) -> 0..Len(rl.payload)] : BlocksMade(tv, rl, n, pos)

Unsigned(m) == SubSeq(m, 1, Len(m) - 1)

\* From the Type-and-Version Record to the End record, with one record of each
\* type that is known.
MkbMade(m) ==
    /\ m # <<>> /\ m[1].tag = TypeAndVersion /\ m[Len(m)].tag = EndOfBlock
    /\ \A i, j \in DOMAIN m :
          m[i].tag = m[j].tag => i = j \/ m[i].tag \notin Plain \cup Lists \cup {EndOfBlock}
    /\ \A i \in DOMAIN m :
          /\ m[i].tag \in Plain => Len(m[i].payload) >= MinLen[m[i].tag]
          /\ m[i].tag \in Lists => ListMade(m[1], m[i])
    /\ Len(m[Len(m)].payload) = SigLen
    /\ [sig |-> m[Len(m)].payload, data |-> FileOf(Unsigned(m))] \in LaSigned

SignsMkb(s, m) == s = [sig |-> m[Len(m)].payload, data |-> FileOf(Unsigned(m))]
SignsList(s, m) ==
    \E i \in DOMAIN m : \E c \in 0..Len(m[i].payload) :
        c + SigLen <= Len(m[i].payload) /\ s.data = ListData(m[1], m[i], c)

ASSUME MadeAssumption ==
    /\ \A m \in Masters : MkbMade(m)
    /\ \A s \in LaSigned : \E m \in Masters : SignsMkb(s, m) \/ SignsList(s, m)
-----------------------------------------------------------------------------
(* What holds of it *)

\* The record of a type in an MKB as it was made, or None.
PayloadIn(m, tag) ==
    IF \E n \in DOMAIN m : m[n].tag = tag
      THEN m[CHOOSE n \in DOMAIN m : m[n].tag = tag].payload ELSE None

ParsedAs(m) == \A t \in Plain : mkb.fields[t] = PayloadIn(m, t)

Padded(file) ==
    /\ Len(file) <= Len(bytes)
    /\ SubSeq(bytes, 1, Len(file)) = file
    /\ IsZero(SubSeq(bytes, Len(file) + 1, Len(bytes)))

\* A file that arrived whole is never refused, whatever its padding: it parses
\* to the MKB it was made from, its End record verifies, and so do its lists.
IntactIsAccepted ==
    (pc # "delivery" /\ Padded(FileOf(master))) =>
        /\ pc # "failed"
        /\ pc \in {"parsed", "scan", "verify"} => ParsedAs(master)
        /\ answer.call = EndOfBlock => answer.says = "ok"
        /\ answer.call \in Lists =>
              answer.says = IF PayloadIn(master, answer.call) = None THEN "missing" ELSE "ok"

\* Where the parser found records of a type: the walks of the verify_* calls end
\* at the first of them, while the Mkb holds what the last one says.
StartsOf(tag) == {n \in DOMAIN starts : Tag(starts[n]) = tag}
FirstOf(tag) == CHOOSE n \in StartsOf(tag) : \A o \in StartsOf(tag) : n <= o
LastOf(tag) == CHOOSE n \in StartsOf(tag) : \A o \in StartsOf(tag) : n >= o

\* What a verified End record vouches for, in every file: a field is that of one
\* MKB of the AACS LA, the same for all fields, whatever was cut, damaged or
\* padded; but a record of its type behind the first End record, where nothing is
\* signed, takes its place.
VerifiedIsAsMade ==
    answer = [call |-> EndOfBlock, says |-> "ok"] =>
        \E m \in Masters : \A t \in Plain :
            mkb.fields[t] =
                IF \E n \in StartsOf(t) : n > FirstOf(EndOfBlock)
                  THEN Payload(starts[LastOf(t)]) ELSE PayloadIn(m, t)

\* The second reading finds what the first one found, in every file: a call
\* reports a missing signature only if the parser had none, and finds a list that
\* parsed too short only where lists are repeated, the first shorter than the last.
Signed(tag) ==
    IF tag = EndOfBlock THEN mkb.end_of_block_signature # None
    ELSE \E n \in DOMAIN mkb.revocation_blocks[tag] :
            mkb.revocation_blocks[tag][n].signature # None
WalksAgree ==
    answer.call # None =>
        /\ answer.says = "missing" => ~Signed(answer.call)
        /\ answer.says = "truncated" =>
              /\ answer.call \in Lists
              /\ Len(Payload(starts[FirstOf(answer.call)]))
                   < Len(Payload(starts[LastOf(answer.call)]))

\* The place behind a list's n-th block and its signature, for all n, and the
\* entries of that block in a payload, by the counts in blocks.
Behind(blocks) ==
    LET behind[n \in 0..Len(blocks)] ==
            IF n = 0 THEN CountLen
            ELSE behind[n - 1] + CountLen + blocks[n].entries_in_block * EntryLen + SigLen
    IN  behind
EntriesEnd(blocks, n) == Behind(blocks)[n] - SigLen
EntriesIn(p, blocks, n) ==
    Entries(p, Behind(blocks)[n - 1] + CountLen, blocks[n].entries_in_block)

EndsWith(data, entries) ==
    /\ Len(data) >= Len(entries) * EntryLen
    /\ LET start == Len(data) - Len(entries) * EntryLen
       IN  entries = Entries(data, start, Len(entries))
Attested(sig, entries) ==
    \E s \in LaSigned :
        /\ s.sig = sig
        /\ SubSeq(s.data, 1, Len(mkb.type_and_version_raw)) = mkb.type_and_version_raw
        /\ EndsWith(s.data, entries)

\* What a verified list vouches for, in every file.  The blocks in the Mkb are
\* those of the last list of the type, the first of them signed, and only the last
\* may lack a signature.  What was verified with each signature are the entries at
\* the block's place in the first list: they end what the AACS LA signed with it,
\* after this Type-and-Version Record.  So the entries of the Mkb are attested
\* where the two lists are one; where the first is another and shorter list, the
\* blocks that lie beyond it, never the first one, are not looked at.
VerifiedListsAreSigned ==
    (answer.call \in Lists /\ answer.says = "ok") =>
        LET blocks == mkb.revocation_blocks[answer.call]
            kept == Payload(starts[LastOf(answer.call)])
            walked == Payload(starts[FirstOf(answer.call)])
        IN  /\ blocks # <<>> /\ blocks[1].signature # None
            /\ EntriesEnd(blocks, 1) <= Len(walked)
            /\ \A n \in DOMAIN blocks :
                  /\ EntriesEnd(blocks, n) <= Len(kept)
                  /\ blocks[n].entries = EntriesIn(kept, blocks, n)
                  /\ IF blocks[n].signature = None THEN n = Len(blocks)
                     ELSE EntriesEnd(blocks, n) <= Len(walked) =>
                            Attested(blocks[n].signature, EntriesIn(walked, blocks, n))

\* Every call returns, whatever lengths and counts it reads.
CallsReturn == (pc \in {"record", "list", "scan", "verify"}) ~> (pc \in {"parsed", "failed"})
=============================================================================
