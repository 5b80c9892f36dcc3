------------------------------ MODULE Commands ------------------------------
(***************************************************************************)
(* The MMC commands, from src/mmc.rs: the CDB a constructor builds, its    *)
(* twelve bytes, the MockDrive that parses them and answers, and the host  *)
(* that parses the answer.  A host also fetches the CPRM Media Key Block   *)
(* pack by pack, while sessions come and go (module Ake has the handshake  *)
(* and the session keys' use; here a session is only opened and lost).     *)
(*                                                                         *)
(* A response or parameter list is its length field, its size and its      *)
(* fields; a CPRM pack is its blocks of 16 bytes.                          *)
(***************************************************************************)
EXTENDS Integers, Sequences

CONSTANTS
    SessionKeys,
    Unkeyed,      \* the drive is armed and has no Bus Key
    Static,       \* the drive answers from its fixtures
    Agids,        \* AGIDs a host passes, which may be wider than two bits
    Targets,      \* LBA and block count of the Binding Nonce commands
    PackLen,      \* blocks of a CPRM pack, CPRM_MKB_PACK_LEN
    PackMax,      \* u8::MAX, also the header-only address
    MkbLens       \* blocks of the CPRM Media Key Blocks there are

ASSUME ModesAssumption ==
    Static # Unkeyed /\ Static \notin SessionKeys /\ Unkeyed \notin SessionKeys
\* u32 and u8: a number's top byte is a byte.  A pack's length is a u16.
ASSUME TargetsAssumption ==
    /\ Agids \subseteq Nat
    /\ \A t \in Targets : t.lba \in Nat /\ t.lba \div 16777216 < 256 /\ t.blocks \in 0..255
ASSUME PacksAssumption ==
    /\ PackLen \in Nat \ {0} /\ 4 + PackLen < 65536
    /\ PackMax \in 0..255 /\ MkbLens \subseteq Nat

VARIABLES
    auth,         \* Static, Unkeyed or the drive's Bus Key
    drive,        \* what the drive records of the commands it carried out
    exchange,     \* the latest command and how it ended at its host
    mkb_len,      \* length of cprm_media_key_block
    total,        \* the Total Packs the host was told, -1 before
    packs,        \* the packs it has, in order
    first_under   \* history: auth when the host was given pack 0

commandVars == <<auth, drive, exchange, mkb_len, total, packs, first_under>>
-----------------------------------------------------------------------------
(* CDBs *)

Byte(n, weight) == (n \div weight) % 256

RK == 164
SK == 163
RDS == 173
SDS == 191
Aacs == 2       \* KEY_CLASS_AACS
Bd == 1         \* MEDIA_TYPE_BD
KeyOpcodes == {RK, SK}

\* A command as a host means it; the fields its opcode has no place for are 0.
Command(opcode, format, agid, address, count, length) ==
    [opcode |-> opcode, class |-> IF opcode \in KeyOpcodes THEN Aacs ELSE Bd,
     format |-> format, agid |-> agid % 4, address |-> address, count |-> count,
     length |-> length, control |-> 0]

\* Faulty variant: the AGID in the low bits.
KeyCdbLowAgid(c) ==
    <<c.opcode, 0, Byte(c.address, 16777216), Byte(c.address, 65536), Byte(c.address, 256),
      Byte(c.address, 1), c.count, c.class, Byte(c.length, 256), Byte(c.length, 1),
      (c.agid % 4) + 4 * (c.format % 64), c.control>>

\* ReportKey::cdb, SendKey::cdb: in byte 10 the AGID in bits 7..6 and the Key
\* Format below it.
KeyCdb(c) ==
    <<c.opcode, 0, Byte(c.address, 16777216), Byte(c.address, 65536), Byte(c.address, 256),
      Byte(c.address, 1), c.count, c.class, Byte(c.length, 256), Byte(c.length, 1),
      64 * (c.agid % 4) + (c.format % 64), c.control>>

\* ReadDiscStructure::cdb, SendDiscStructure::cdb.
DiscCdb(c) ==
    <<c.opcode, c.class % 16, Byte(c.address, 16777216), Byte(c.address, 65536),
      Byte(c.address, 256), Byte(c.address, 1), c.count, c.format, Byte(c.length, 256),
      Byte(c.length, 1), 64 * (c.agid % 4), c.control>>

Cdb(c) == IF c.opcode \in KeyOpcodes THEN KeyCdb(c) ELSE DiscCdb(c)

AddressIn(b) == 16777216 * b[3] + 65536 * b[4] + 256 * b[5] + b[6]
LengthIn(b) == 256 * b[9] + b[10]

\* ReportKey::parse_cdb, SendKey::parse_cdb.
ParseKey(b) ==
    [opcode |-> b[1], class |-> b[8], format |-> b[11] % 64, agid |-> b[11] \div 64,
     address |-> IF b[1] = RK THEN AddressIn(b) ELSE 0,
     count |-> IF b[1] = RK THEN b[7] ELSE 0,
     length |-> LengthIn(b), control |-> b[12]]

\* ReadDiscStructure::parse_cdb, SendDiscStructure::parse_cdb.
ParseDisc(b) ==
    [opcode |-> b[1], class |-> b[2] % 16, format |-> b[8], agid |-> b[11] \div 64,
     address |-> IF b[1] = RDS THEN AddressIn(b) ELSE 0,
     count |-> IF b[1] = RDS THEN b[7] ELSE 0,
     length |-> LengthIn(b), control |-> b[12]]

ParseCdb(b) == IF b[1] \in KeyOpcodes THEN ParseKey(b) ELSE ParseDisc(b)
-----------------------------------------------------------------------------
(* The commands hosts issue: what each means, and its constructor *)

Meant(what, agid, target, command) ==
    [what |-> what, agid |-> agid, target |-> target, command |-> command]

NoTarget == [lba |-> 0, blocks |-> 0]

\* The constructors of ReportKey.
ReportKeys ==
    {Meant("agid", 0, NoTarget, Command(RK, 0, 0, 0, 0, 8)),
     Meant("drive_cert", 0, NoTarget, Command(RK, 56, 0, 0, 0, 96))}
    \cup {Meant("binding_nonce", a, t, Command(RK, f, a, t.lba, t.blocks, 36)) :
             a \in Agids, f \in {32, 33}, t \in Targets}
    \cup UNION {
       {Meant("drive_cert_chal", a, NoTarget, Command(RK, 1, a, 0, 0, 116)),
        Meant("drive_key", a, NoTarget, Command(RK, 2, a, 0, 0, 84)),
        Meant("invalidate", a, NoTarget, Command(RK, 63, a, 0, 0, 0))} : a \in Agids}

\* Of SendKey.
SendKeys == UNION {
    {Meant("host_cert_chal", a, NoTarget, Command(SK, 1, a, 0, 0, 116)),
     Meant("host_key", a, NoTarget, Command(SK, 2, a, 0, 0, 84)),
     Meant("invalidate", a, NoTarget, Command(SK, 63, a, 0, 0, 0))} : a \in Agids}

\* Of ReadDiscStructure; CprmPack is another.
DiscReads == UNION {
    {Meant("volume_id", a, NoTarget, Command(RDS, 128, a, 0, 0, 36)),
     Meant("media_serial", a, NoTarget, Command(RDS, 129, a, 0, 0, 36)),
     Meant("media_id", a, NoTarget, Command(RDS, 130, a, 0, 0, 36)),
     Meant("data_keys", a, NoTarget, Command(RDS, 132, a, 0, 0, 36))} : a \in Agids}

\* Of SendDiscStructure.
DiscSends == {Meant("write_data_key", a, NoTarget, Command(SDS, 132, a, 0, 0, 20)) : a \in Agids}

Requests == ReportKeys \cup SendKeys \cup DiscReads \cup DiscSends

\* No arm of MockDrive: Format 0x83, and what no constructor makes.
Unsupported ==
    {Command(RDS, 131, 0, 0, 0, 32772), Command(RK, 3, 0, 0, 0, 8), Command(SK, 3, 0, 0, 0, 8),
     Command(SDS, 131, 0, 0, 0, 20), [Command(RK, 0, 0, 0, 0, 8) EXCEPT !.class = 0],
     [Command(SK, 1, 0, 0, 0, 116) EXCEPT !.class = 0],
     [Command(RK, 0, 0, 0, 0, 8) EXCEPT !.opcode = 18]}

CprmPack(n) == Command(RDS, 134, 0, n, 0, 4 + PackLen)
-----------------------------------------------------------------------------
(* MockDrive::execute *)

HasKey == auth \in SessionKeys

Field(name) == <<name, name>>
MacUnderSession(name) == IF HasKey THEN <<"cmac", auth, name>> ELSE <<"fixture MAC", name>>
Wrapped(name) == IF HasKey THEN <<"wrapped", auth, name>> ELSE Field(name)

Good(length, size, fields) ==
    [status |-> "good", length |-> length, size |-> size, total |-> 0, fields |-> fields]
Identified(name) == Good(34, 36, <<Field(name), MacUnderSession(name)>>)
NoData == Good(0, 0, <<>>)
Error == [NoData EXCEPT !.status = "error"]

\* What the drive sends back.  In the other modes of `auth' the three exchanges
\* of the handshake are those of module Ake.
AnswerTo(q) ==
    CASE q.opcode = RK /\ q.class = Aacs /\ q.format = 0 -> Good(6, 8, <<Field("agid")>>)
      [] q.opcode = RK /\ q.class = Aacs /\ q.format = 1 ->
           Good(114, 116, <<Field("drive_nonce"), Field("drive_cert")>>)
      [] q.opcode = RK /\ q.class = Aacs /\ q.format = 2 ->
           Good(82, 84, <<Field("dv"), Field("dsig")>>)
      [] q.opcode = RK /\ q.class = Aacs /\ q.format = 56 -> Good(94, 96, <<Field("drive_cert")>>)
      [] q.opcode = RK /\ q.class = Aacs /\ q.format \in {32, 33} -> Identified("binding_nonce")
      [] q.opcode \in KeyOpcodes /\ q.class = Aacs /\ q.format = 63 -> NoData
      [] q.opcode = RDS /\ q.format = 128 -> Identified("volume_id")
      [] q.opcode = RDS /\ q.format = 129 -> Identified("media_serial")
      [] q.opcode = RDS /\ q.format = 130 -> Identified("media_id")
      [] q.opcode = RDS /\ q.format = 132 /\ auth # Unkeyed ->
           Good(34, 36, <<Wrapped("read_data_key"), Wrapped(drive.write_data_key)>>)
      [] OTHER -> Error

\* The parameter lists of the three SENDs, as their builders make them and their
\* parsers require them.
ParameterLists ==
    {[opcode |-> SK, format |-> 1, length |-> 114, size |-> 116],
     [opcode |-> SK, format |-> 2, length |-> 82, size |-> 84],
     [opcode |-> SDS, format |-> 132, length |-> 18, size |-> 20]}

ListFor(q) == {p \in ParameterLists : p.opcode = q.opcode /\ p.format = q.format}

\* A SEND is accepted with its list whole, from the device's side of the bus.
Accepts(q, direction, size) ==
    /\ direction = "to_device" /\ (q.opcode = SK => q.class = Aacs)
    /\ \E p \in ListFor(q) : size >= p.size
    /\ q.opcode = SDS => auth # Unkeyed

\* What the drive records of a command it carries out.  The host of a SEND DISC
\* STRUCTURE holds the Bus Key the drive has (module Ake has those that do not),
\* so the drive unwraps the key it sent.
RecordAfter(q) ==
    IF q.format = 63 /\ q.opcode \in KeyOpcodes
      THEN [drive EXCEPT !.agid_invalidated = TRUE]
    ELSE IF q.opcode = RK /\ q.format \in {32, 33}
      THEN [drive EXCEPT !.last_binding_nonce_op = <<q.format, q.address, q.count>>]
    ELSE IF q.opcode = RDS /\ q.format = 132 THEN [drive EXCEPT !.last_data_keys_read = TRUE]
    ELSE IF q.opcode = SDS
      THEN [drive EXCEPT !.write_data_key = "sent_data_key",
                         !.last_sent = @ \cup {<<q.opcode, q.format>>}]
    ELSE IF q.opcode = SK THEN [drive EXCEPT !.last_sent = @ \cup {<<q.opcode, q.format>>}]
    ELSE drive

\* The transport hands over no more than the Allocation Length; the host's
\* parsers want their length field and all of their fields.
Expected ==
    [agid |-> <<6, 8>>, drive_cert |-> <<94, 96>>, drive_cert_chal |-> <<114, 116>>,
     drive_key |-> <<82, 84>>, binding_nonce |-> <<34, 36>>, volume_id |-> <<34, 36>>,
     media_serial |-> <<34, 36>>, media_id |-> <<34, 36>>, data_keys |-> <<34, 36>>]

ReadBy(what, response, allocation) ==
    LET size == IF response.size < allocation THEN response.size ELSE allocation
    IN  IF response.status = "error" THEN <<"refused">>
        ELSE IF what \notin DOMAIN Expected THEN <<"done">>
        ELSE IF size < 2 THEN <<"Truncated">>
        ELSE IF response.length # Expected[what][1] THEN <<"InvalidValue">>
        ELSE IF size < Expected[what][2] THEN <<"Truncated">>
        ELSE <<"read", response.fields>>
-----------------------------------------------------------------------------
\* A host issues a command with no data of its own; `short' bytes of the answer
\* are lost on the way.
Issue(r, short) ==
    /\ ListFor(r.command) = {}
    /\ auth = Static \/ r.what \notin {"drive_cert_chal", "drive_key"}
    /\ LET q == ParseCdb(Cdb(r.command))
           response == AnswerTo(q)
       IN  /\ exchange' = [request |-> r, short |-> short, under |-> auth,
                 outcome |-> ReadBy(r.what, response, q.length - short)]
           /\ drive' = IF response.status = "good" THEN RecordAfter(q) ELSE drive
    /\ UNCHANGED <<auth, mkb_len, total, packs, first_under>>

\* A host issues a SEND, some bytes of its list missing or the direction wrong.
SendList(r, direction, short) ==
    /\ ListFor(r.command) # {}
    /\ auth = Static \/ r.what \in {"write_data_key", "unsupported"}
    /\ LET q == ParseCdb(Cdb(r.command))
           carried_out == Accepts(q, direction, q.length - short)
       IN  /\ exchange' = [request |-> r, short |-> short, under |-> auth,
                 outcome |-> IF carried_out THEN <<"done">> ELSE <<"refused">>]
           /\ drive' = IF carried_out THEN RecordAfter(q) ELSE drive
    /\ UNCHANGED <<auth, mkb_len, total, packs, first_under>>

\* A session begins or is lost, of this host or another (module Ake).
ChangeSession(k) ==
    /\ auth # Static /\ auth # k
    /\ auth' = k
    /\ UNCHANGED <<drive, exchange, mkb_len, total, packs, first_under>>
-----------------------------------------------------------------------------
(* The CPRM Media Key Block, Format 0x86 *)

TotalPacks == (mkb_len + PackLen - 1) \div PackLen
HeaderOnly == PackMax

MkbBlock(n) == <<"MKB", n>>
Padding == <<"zero">>
MacBlock == IF HasKey THEN <<"cmac", auth, "MKB_Hash">> ELSE MkbBlock(1)

\* Faulty variant: the last pack is a short one.
PackShort(index) ==
    LET start == PackLen * index
    IN  [n \in 1..(IF mkb_len - start < PackLen THEN mkb_len - start ELSE PackLen) |->
            IF start + n = 1 THEN MacBlock ELSE MkbBlock(start + n)]

Pack(index) ==
    LET start == PackLen * index
    IN  [n \in 1..PackLen |->
            IF start + n > mkb_len THEN Padding
            ELSE IF start + n = 1 THEN MacBlock
            ELSE MkbBlock(start + n)]

\* The drive's answer to an address.
CprmResponse(address) ==
    IF TotalPacks > PackMax THEN Error
    ELSE IF address = HeaderOnly THEN [Good(2, 4, <<>>) EXCEPT !.total = TotalPacks]
    ELSE IF address >= TotalPacks \/ (address = 0 /\ auth = Unkeyed) THEN Error
    ELSE [Good(PackLen + 2, PackLen + 4, Pack(address)) EXCEPT !.total = TotalPacks]

\* parse_cprm_mkb_pack_response: an empty body or a full one.
CprmBody(response) ==
    IF response.status = "error" THEN <<>>
    ELSE IF Len(response.fields) \notin {0, PackLen} THEN <<>>
    ELSE response.fields

\* The host asks for the header, which needs no session, then for pack after
\* pack; what is refused it asks for again.
FetchTotal ==
    /\ total = -1
    /\ LET response == CprmResponse(ParseCdb(Cdb(CprmPack(HeaderOnly))).address)
       IN  /\ response # Error
           /\ total' = response.total
    /\ UNCHANGED <<auth, drive, exchange, mkb_len, packs, first_under>>

FetchPack ==
    /\ total > Len(packs)
    /\ LET body == CprmBody(CprmResponse(ParseCdb(Cdb(CprmPack(Len(packs)))).address))
       IN  /\ body # <<>>
           /\ packs' = Append(packs, body)
    /\ first_under' = IF packs = <<>> THEN auth ELSE first_under
    /\ UNCHANGED <<auth, drive, exchange, mkb_len, total>>

NoExchange == [outcome |-> <<"none">>]

CommandsInit ==
    /\ auth \in {Static, Unkeyed}
    /\ drive = [agid_invalidated |-> FALSE, last_data_keys_read |-> FALSE,
                write_data_key |-> "write_data_key",
                last_binding_nonce_op |-> <<0, 0, 0>>, last_sent |-> {}]
    /\ exchange = NoExchange
    /\ mkb_len \in MkbLens
    /\ total = -1 /\ packs = <<>> /\ first_under = Unkeyed

CommandsNext ==
    \/ \E r \in Requests, short \in 0..1 : Issue(r, short)
    \/ \E c \in Unsupported :
          LET r == Meant("unsupported", 0, NoTarget, c)
          IN  Issue(r, 0) \/ SendList(r, "to_device", 0)
    \/ \E r \in Requests, d \in {"to_device", "from_device"}, short \in 0..1 : SendList(r, d, short)
    \/ \E k \in SessionKeys \cup {Unkeyed} : ChangeSession(k)

\* No other command reads or writes what these do.
CprmNext ==
    \/ \E k \in SessionKeys \cup {Unkeyed} : ChangeSession(k)
    \/ FetchTotal
    \/ FetchPack
-----------------------------------------------------------------------------
(* What holds of it *)

Identifiers == {"binding_nonce", "volume_id", "media_serial", "media_id"}
Under(how, name) ==
    IF exchange.under \in SessionKeys THEN <<how, exchange.under, name>> ELSE Field(name)
FieldsMeant(what) ==
    CASE what = "drive_cert_chal" -> <<Field("drive_nonce"), Field("drive_cert")>>
      [] what = "drive_key" -> <<Field("dv"), Field("dsig")>>
      [] what = "data_keys" ->
           <<Under("wrapped", "read_data_key"),
             Under("wrapped", IF <<SDS, 132>> \in drive.last_sent THEN "sent_data_key"
                              ELSE "write_data_key")>>
      [] what \in Identifiers ->
           <<Field(what), IF exchange.under \in SessionKeys THEN Under("cmac", what)
                          ELSE <<"fixture MAC", what>>>>
      [] OTHER -> <<Field(what)>>

\* Through its CDB, the drive's dispatch and the parsers, a command does what
\* its constructor's name says: a host reads the fields it asked for, each MAC
\* and wrapped key under the Bus Key the drive has then, and none of them from
\* an answer that came short; data keys only in a session, the write key being
\* the last one sent; the drive sees the 32-bit target of a Binding Nonce; an
\* AGID wider than two bits changes no other field; what the drive does not know
\* is refused.
CommandsAreAnsweredAsMeant ==
    exchange # NoExchange =>
        LET what == exchange.request.what
        IN  /\ (what \in DOMAIN Expected /\ exchange.short = 0) =>
                  exchange.outcome =
                     IF what = "data_keys" /\ exchange.under = Unkeyed THEN <<"refused">>
                     ELSE <<"read", FieldsMeant(what)>>
            /\ (exchange.short # 0 /\ what # "invalidate") =>
                  exchange.outcome \in {<<"Truncated">>, <<"refused">>}
            /\ what = "binding_nonce" =>
                  drive.last_binding_nonce_op = <<exchange.request.command.format,
                     exchange.request.target.lba, exchange.request.target.blocks>>
            /\ what = "invalidate" => drive.agid_invalidated
            /\ what = "unsupported" => exchange.outcome = <<"refused">>

\* The n-th block a host has collected.
Held(n) == packs[((n - 1) \div PackLen) + 1][((n - 1) % PackLen) + 1]

\* The packs a host collects are the CPRM Media Key Block in order, zeros after
\* its end, with the CMAC under the Bus Key the drive had when it gave pack 0
\* in place of the first block, whatever sessions come and go in between.
\* Every pack of an advertised total can be had, pack 0 in a session only; a
\* block of more packs than the byte can count is never advertised.
PacksRebuildTheMkb ==
    LET First == IF first_under = Static THEN MkbBlock(1)
                 ELSE <<"cmac", first_under, "MKB_Hash">>
    IN  total # -1 =>
          /\ total * PackLen >= mkb_len /\ total * PackLen < mkb_len + PackLen
          /\ total <= PackMax
          /\ \A p \in DOMAIN packs : Len(packs[p]) = PackLen
          /\ packs # <<>> => first_under # Unkeyed /\ Held(1) = First
          /\ \A n \in 2..(PackLen * Len(packs)) :
                Held(n) = IF n <= mkb_len THEN MkbBlock(n) ELSE Padding
          /\ \A n \in 0..(total - 1) :
                CprmBody(CprmResponse(n)) # <<>> \/ (n = 0 /\ auth = Unkeyed)
=============================================================================
