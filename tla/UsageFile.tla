----------------------------- MODULE UsageFile -----------------------------
(***************************************************************************)
(* The CPS Unit Usage File, from src/cci.rs: the usage rules of a CPS unit *)
(* as typed structures, the CCI_and_other_info blocks they are written as, *)
(* and the file of a Primary and an optional Secondary CCI Area.  A rule   *)
(* is added to an area, the file is saved, and what is on the disc may be  *)
(* cut short or padded before it is parsed.                                *)
(*                                                                         *)
(* A file is a sequence of cells, one for each field and for each byte of  *)
(* a date; the sizes that the code fixes in bytes are counted in cells.    *)
(***************************************************************************)
EXTENDS Integers, Sequences

CONSTANTS
    Rules,        \* the usage rules there are
    LenMod,       \* a block's length field holds a number modulo this,
    CountMod,     \* and an area's count field modulo this
    SectorLen,    \* an area with its header fills one or more sectors
    TitleBits,    \* the bits of Basic CCI's title bitmap
    MaxBlocks,    \* bound on the rules of a file
    Undefined     \* a date that is not set

ASSUME SectorAssumption ==
    /\ SectorLen \in Nat /\ SectorLen > 2 /\ TitleBits \in Nat
    /\ LenMod \in Nat \ {0} /\ CountMod \in Nat \ {0}

AreaHeaderLen == 2      \* CCI_AREA_HEADER_LEN: the count, the reserved bytes
BlockHeaderLen == 3     \* CCI_HEADER_LEN: type, version, length
AreaLen == SectorLen - AreaHeaderLen   \* PRIMARY_CCI_AREA_LEN
DateLen == 7

\* The rules a disc can hold: each date's fields have the digits written for
\* them, and of the date that means none there is none; a bitmap has a bit for
\* each title; a block of another type keeps its own bytes.
TitleDates ==
    {Undefined} \cup
    ([year : 0..9999, month : 0..99, day : 0..99, hour : 0..99, minute : 0..99,
      timezone : 0..255]
        \ {[year |-> 0, month |-> 0, day |-> 0, hour |-> 0, minute |-> 0, timezone |-> 0]})

IsBasic(r) ==
    /\ r \in [type : {257}, epn_unasserted : BOOLEAN,
              cci : {"CopyControlNotAsserted", "ReservedNoMoreCopy", "CopyOneGeneration",
                     "NeverCopy"},
              image_constraint : BOOLEAN, digital_only : BOOLEAN, apstb : 0..7,
              titles : Seq({"Basic", "Enhanced"})]
    /\ Len(r.titles) <= TitleBits

IsRule(r) ==
    \/ IsBasic(r)
    \/ r \in [type : {273}, title_id : Nat, cacheable : BOOLEAN, period : Nat,
              after : TitleDates, before : TitleDates]
    \/ r \in [type : {274}, unit_key_status : Nat,
              binding : {<<"Media", 1>>, <<"Content", 2>>, <<"DeviceContent", 3>>,
                         <<"DeviceMedia", 4>>} \cup {<<"Reserved", b>> : b \in {0} \cup 5..255}]
    \/ r \in [type : {275}, outputs : Nat]
    \/ r \in [type : Nat \ {257, 273, 274, 275}, version : Nat, data : Seq(Nat)]

ASSUME RulesAssumption == \A r \in Rules : IsRule(r)

\* The mark of no date is no date.
ASSUME UndefinedAssumption ==
    Undefined \notin [year : 0..9999, month : 0..99, day : 0..99, hour : 0..99,
                      minute : 0..99, timezone : 0..255]

VARIABLES
    rules,        \* the rules of the two areas and has_secondary
    disc_file,    \* the file on the disc, None before it is saved
    touched       \* whether the file on the disc was cut or padded

usageVars == <<rules, disc_file, touched>>

NotSaved == <<>>
Repeat(n, x) == [z \in 1..n |-> x]
-----------------------------------------------------------------------------
(* The typed structures *)

ByteMod == 256

\* Faulty variant: a date is written in binary.
Bcd2Binary(v) == v

\* TitleDate::to_bytes; a shift of a byte drops what leaves it.
Bcd2(v) == (((v \div 10) * 16) % ByteMod) + (v % 10)
DateBytes(d) ==
    LET y == d.year % 10000
    IN  <<Bcd2(y \div 100), Bcd2(y % 100), Bcd2(d.month), Bcd2(d.day),
          Bcd2(d.hour), Bcd2(d.minute), d.timezone>>

\* TitleDate::parse: a nibble is worth its value, above 9 too.
Digits(b) == (b \div 16) * 10 + (b % 16)
DateOf(s) ==
    [year |-> 100 * Digits(s[1]) + Digits(s[2]), month |-> Digits(s[3]),
     day |-> Digits(s[4]), hour |-> Digits(s[5]), minute |-> Digits(s[6]),
     timezone |-> s[7]]

ZeroDate == DateOf(Repeat(DateLen, 0))
WrittenDate(d) == DateBytes(IF d = Undefined THEN ZeroDate ELSE d)
ReadDate(s) == IF DateOf(s) = ZeroDate THEN Undefined ELSE DateOf(s)

\* Cci::to_bits, from_bits: the position in Table 3-22.
CciBits == [CopyControlNotAsserted |-> 0, ReservedNoMoreCopy |-> 1,
            CopyOneGeneration |-> 2, NeverCopy |-> 3]
CciOf(bits) == CHOOSE c \in DOMAIN CciBits : CciBits[c] = bits % 4

\* BindingType::to_u8, from_u8.
Bindings == <<"Media", "Content", "DeviceContent", "DeviceMedia">>
BindingByte(t) ==
    IF t[1] = "Reserved" THEN t[2] ELSE CHOOSE b \in 1..4 : Bindings[b] = t[1]
BindingOf(b) == IF b \in 1..4 THEN <<Bindings[b], b>> ELSE <<"Reserved", b>>

BasicLen == 3 + TitleBits
UsageLen == 3 + 2 * DateLen + 1
OnlineLen == 3
OutputsLen == 1
Version == 256

\* The bit with this value.
Bit(b, v) == (b \div v) % 2
Flag(b) == IF b THEN 1 ELSE 0

Block(type, data) == [type |-> type, version |-> Version, data |-> data]
Refused(b) == [type |-> b.type, error |-> "InvalidValue"]

\* BasicCci::to_block, parse_data.
BasicBlock(r) == Block(257,
    <<4 * Flag(r.epn_unasserted) + CciBits[r.cci],
      16 * Flag(r.image_constraint) + 8 * Flag(r.digital_only) + (r.apstb % 8),
      Len(r.titles)>>
    \o [n \in 1..TitleBits |->
          IF n \in DOMAIN r.titles THEN Flag(r.titles[n] = "Enhanced") ELSE 0])
BasicOf(b) ==
    LET d == b.data
    IN  IF Len(d) # BasicLen \/ d[3] > TitleBits THEN Refused(b)
        ELSE [type |-> 257, epn_unasserted |-> Bit(d[1], 4) = 1, cci |-> CciOf(d[1]),
              image_constraint |-> Bit(d[2], 16) = 1, digital_only |-> Bit(d[2], 8) = 1,
              apstb |-> d[2] % 8,
              titles |-> [n \in 1..d[3] |-> IF d[3 + n] = 1 THEN "Enhanced" ELSE "Basic"]]

\* EnhancedTitleUsage::to_block, parse_data.
UsageBlock(r) == Block(273,
    <<r.title_id, Flag(~r.cacheable), r.period>>
    \o WrittenDate(r.after) \o WrittenDate(r.before) \o <<0>>)
UsageOf(b) ==
    LET d == b.data
    IN  IF Len(d) # UsageLen THEN Refused(b)
        ELSE [type |-> 273, title_id |-> d[1], cacheable |-> d[2] % 2 = 0, period |-> d[3],
              after |-> ReadDate(SubSeq(d, 4, 10)), before |-> ReadDate(SubSeq(d, 11, 17))]

\* KeyManagementOnline::to_block, parse_data.
OnlineBlock(r) == Block(274, <<r.unit_key_status, BindingByte(r.binding), 0>>)
OnlineOf(b) ==
    IF Len(b.data) # OnlineLen THEN Refused(b)
    ELSE [type |-> 274, unit_key_status |-> b.data[1], binding |-> BindingOf(b.data[2])]

\* ContentOwnerAuthorizedOutputs::to_block, parse_data.
OutputsBlock(r) == Block(275, <<r.outputs>>)
OutputsOf(b) ==
    IF Len(b.data) # OutputsLen THEN Refused(b)
    ELSE [type |-> 275, outputs |-> b.data[1]]

\* Any other block is kept as it is.
ToBlock(r) ==
    CASE r.type = 257 -> BasicBlock(r)
      [] r.type = 273 -> UsageBlock(r)
      [] r.type = 274 -> OnlineBlock(r)
      [] r.type = 275 -> OutputsBlock(r)
      [] OTHER -> [type |-> r.type, version |-> r.version, data |-> r.data]

\* as_basic_cci, as_enhanced_title_usage, as_key_management_online and
\* as_content_owner_outputs, each for its own type.
FromBlock(b) ==
    CASE b.type = 257 -> BasicOf(b)
      [] b.type = 273 -> UsageOf(b)
      [] b.type = 274 -> OnlineOf(b)
      [] b.type = 275 -> OutputsOf(b)
      [] OTHER -> b
-----------------------------------------------------------------------------
(* Blocks, areas and the file *)

\* CciAndOtherInfo::to_bytes: the length is cast to 16 bits, the data is not.
BlockBytes(b) == <<b.type, b.version, Len(b.data) % LenMod>> \o b.data

Run(blocks) ==
    LET upto[n \in 0..Len(blocks)] ==
            IF n = 0 THEN <<>> ELSE upto[n - 1] \o BlockBytes(blocks[n])
    IN  upto[Len(blocks)]

Header(blocks) == <<Len(blocks) % CountMod, 0>>

\* Vec::resize.
Resize(s, n) ==
    IF Len(s) >= n THEN SubSeq(s, 1, n) ELSE s \o Repeat(n - Len(s), 0)

PrimaryArea(blocks) == Resize(Run(blocks), AreaLen)

SecondaryArea(blocks) ==
    LET run == Run(blocks)
        target == IF Len(run) > AreaLen THEN Len(run) ELSE AreaLen
    IN  Resize(run, ((target + AreaLen - 1) \div AreaLen) * AreaLen)

\* CpsUnitUsageFile::to_bytes.
FileBytes(primary, secondary, has_secondary) ==
    Header(primary) \o PrimaryArea(primary)
       \o (IF has_secondary THEN Header(secondary) \o SecondaryArea(secondary) ELSE <<>>)

\* CciAndOtherInfo::parse at a cell of an area, and the loop of parse_area.
ParseBlock(area, acc) ==
    LET at == acc.at
        data_length == area[at + 3]
    IN  IF acc.error \/ at + BlockHeaderLen > Len(area) THEN [acc EXCEPT !.error = TRUE]
        ELSE IF at + BlockHeaderLen + data_length > Len(area) THEN [acc EXCEPT !.error = TRUE]
        ELSE [error |-> FALSE, at |-> at + BlockHeaderLen + data_length,
              blocks |-> Append(acc.blocks,
                 [type |-> area[at + 1], version |-> area[at + 2],
                  data |-> SubSeq(area, at + 4, at + BlockHeaderLen + data_length)])]

NothingRead == [error |-> FALSE, at |-> 0, blocks |-> <<>>]

\* Faulty variant: the loop takes the zeros after the blocks for the end.
ParseAreaToPadding(area, loops) ==
    LET upto[n \in 0..loops] ==
            IF n = 0 THEN NothingRead
            ELSE IF upto[n - 1].at + BlockHeaderLen > Len(area) THEN upto[n - 1]
            ELSE ParseBlock(area, upto[n - 1])
    IN  upto[loops]

ParseArea(area, loops) ==
    LET upto[n \in 0..loops] ==
            IF n = 0 THEN NothingRead ELSE ParseBlock(area, upto[n - 1])
    IN  upto[loops]

Failed == [error |-> TRUE, primary |-> <<>>, secondary |-> <<>>, has_secondary |-> FALSE]

\* CpsUnitUsageFile::parse.
ParseFile(bytes) ==
    LET primary == ParseArea(SubSeq(bytes, AreaHeaderLen + 1, SectorLen), bytes[1])
        secondary == ParseArea(SubSeq(bytes, SectorLen + AreaHeaderLen + 1, Len(bytes)),
                               bytes[SectorLen + 1])
    IN  IF Len(bytes) < SectorLen THEN Failed
        ELSE IF primary.error THEN Failed
        ELSE IF Len(bytes) = SectorLen
          THEN [error |-> FALSE, primary |-> primary.blocks, secondary |-> <<>>,
                has_secondary |-> FALSE]
        ELSE IF Len(bytes) < SectorLen + AreaHeaderLen \/ secondary.error THEN Failed
        ELSE [error |-> FALSE, primary |-> primary.blocks, secondary |-> secondary.blocks,
              has_secondary |-> TRUE]
-----------------------------------------------------------------------------
Areas == {"primary", "secondary"}

\* The caller pushes a block; has_secondary is its own to set.
AddRule(area, r) ==
    /\ disc_file = NotSaved
    /\ Len(rules.primary) + Len(rules.secondary) < MaxBlocks
    /\ rules' = [rules EXCEPT ![area] = Append(@, r)]
    /\ UNCHANGED <<disc_file, touched>>

SetHasSecondary ==
    /\ disc_file = NotSaved
    /\ rules' = [rules EXCEPT !.has_secondary = TRUE]
    /\ UNCHANGED <<disc_file, touched>>

Blocks(area) == [n \in DOMAIN rules[area] |-> ToBlock(rules[area][n])]

Save ==
    /\ disc_file = NotSaved
    /\ disc_file' = FileBytes(Blocks("primary"), Blocks("secondary"), rules.has_secondary)
    /\ UNCHANGED <<rules, touched>>

CutFile(n) ==
    /\ disc_file # NotSaved /\ ~touched
    /\ n < Len(disc_file)
    /\ disc_file' = SubSeq(disc_file, 1, n) /\ touched' = TRUE
    /\ UNCHANGED rules

PadFile(n) ==
    /\ disc_file # NotSaved /\ ~touched
    /\ disc_file' = disc_file \o Repeat(n, 0) /\ touched' = TRUE
    /\ UNCHANGED rules

UsageInit ==
    /\ rules = [primary |-> <<>>, secondary |-> <<>>, has_secondary |-> FALSE]
    /\ disc_file = NotSaved /\ touched = FALSE

UsageNext ==
    \/ \E area \in Areas, r \in Rules : AddRule(area, r)
    \/ SetHasSecondary
    \/ Save
    \/ \E n \in 1..(3 * SectorLen) : CutFile(n)
    \/ \E n \in {1, AreaHeaderLen, SectorLen} : PadFile(n)

UsageSpec == UsageInit /\ [][UsageNext]_usageVars
-----------------------------------------------------------------------------
(* What holds of it *)

\* A block that is as long as the modulus of its length, or longer, reads as
\* another, and moves all that follow it.
FitsUpTo(area, n) == \A o \in 1..n : Len(Blocks(area)[o].data) < LenMod

\* The fields hold the rules: no count and no block is too long.
FieldsHold ==
    \A area \in Areas :
        Len(rules[area]) < CountMod /\ FitsUpTo(area, Len(rules[area]))

\* Blocks that were read of an area are as many as its count field said, and each
\* is its rule again unless it, or one before it, is too long.
ReadFrom(area, blocks) ==
    /\ Len(blocks) = Len(rules[area]) % CountMod
    /\ \A n \in DOMAIN blocks : FitsUpTo(area, n) => FromBlock(blocks[n]) = rules[area][n]

\* A saved file is read as the rules it was saved from, each under its own type
\* and in its own area, or is refused; a count or length that its field cannot
\* hold takes with it what lies behind it, and nothing else.  If there is none,
\* the file is refused exactly when the rules of the Primary Area did not fit it.
RulesReadAsWritten ==
    (disc_file # NotSaved /\ ~touched) =>
        LET file == ParseFile(disc_file)
        IN  /\ FieldsHold => (file.error <=> Len(Run(Blocks("primary"))) > AreaLen)
            /\ ~file.error =>
                  /\ ReadFrom("primary", file.primary)
                  /\ file.has_secondary = rules.has_secondary
                  /\ IF rules.has_secondary THEN ReadFrom("secondary", file.secondary)
                     ELSE file.secondary = <<>>

\* A file that was cut or padded is never read as other rules: it is refused, or
\* its Primary Area is whole and its Secondary Area is whole, or empty because
\* the cut took all of it.
DamagedFileNeverMisread ==
    touched =>
        LET file == ParseFile(disc_file)
        IN  ~file.error =>
              /\ ReadFrom("primary", file.primary)
              /\ file.secondary # <<>> => ReadFrom("secondary", file.secondary)
              /\ (rules.has_secondary /\ Len(rules.secondary) % CountMod > 0
                    /\ file.secondary = <<>>) => Len(disc_file) = SectorLen

\* to_bytes says it pads the Secondary Area "to fill `2048*N - 16` bytes", which
\* makes the file, with its two headers, whole sectors.
SavedInWholeSectors ==
    (disc_file # NotSaved /\ ~touched) => Len(disc_file) % SectorLen = 0
=============================================================================
