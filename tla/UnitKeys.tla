------------------------------ MODULE UnitKeys ------------------------------
(***************************************************************************)
(* Unit_Key_RO.inf, from src/unit_key.rs: the address of the key block,    *)
(* the header with the CPS units of the titles, and the block with one     *)
(* record for each CPS unit.  A file is a sequence of cells, one for each  *)
(* field, counted from 0 as in the code; Align cells stand for 16 bytes.   *)
(***************************************************************************)
EXTENDS SymbolicAes

CONSTANT Align

ASSUME AlignAssumption == Align \in Nat \ {0, 1}

At(s, n) == s[n + 1]
From(s, n) == SubSeq(s, n + 1, Len(s))

HeaderLen == 4      \* Application_Type, Num_of_BD_Directory, flag, reserved
DirectoryLen == 3   \* First Playback, Top Menu, Num_of_Title
TitleLen == 2       \* reserved, CPS_Unit_number
RecordLen == 3      \* MAC of PMSN, MAC of Device Binding Nonce, key

Zeros(n) == [z \in 1..n |-> 0]

\* A mastered file of one directory, padded at its end: no code of the crate
\* writes one.
MasteredFile(directory, keys) ==
    LET titles == [c \in 1..(TitleLen * Len(directory.titles)) |->
                      IF c % TitleLen = 0 THEN directory.titles[c \div TitleLen] ELSE 0]
        header == <<1, 1, 0, 0, directory.first, directory.top, Len(directory.titles)>>
                     \o titles
        start == Align * ((Align + Len(header) + Align - 1) \div Align)
        records == [c \in 1..(RecordLen * Len(keys)) |->
                       IF c % RecordLen = 0 THEN keys[c \div RecordLen] ELSE 0]
    IN  <<start>> \o Zeros(Align - 1) \o header \o Zeros(start - Align - Len(header))
          \o <<Len(keys)>> \o Zeros(Align - 1) \o records \o Zeros(Align)

\* parse_header: the directories one after the other, each with its titles.
ParseDirectory(s, acc) ==
    LET at == acc.at + DirectoryLen
        num_titles == At(s, acc.at + 2)
    IN  IF acc.error # "none" THEN acc
        ELSE IF at > Len(s) \/ at + TitleLen * num_titles > Len(s)
          THEN [acc EXCEPT !.error = "Truncated"]
        ELSE [error |-> "none", at |-> at + TitleLen * num_titles,
              directories |-> Append(acc.directories,
                 [first |-> At(s, acc.at), top |-> At(s, acc.at + 1),
                  titles |-> [t \in 1..num_titles |-> At(s, at + TitleLen * t - 1)]])]

ParseHeader(s) ==
    IF Len(s) < HeaderLen
      THEN [error |-> "Truncated", at |-> 0, directories |-> <<>>]
      ELSE LET after[i \in 0..At(s, 1)] ==
                   IF i = 0 THEN [error |-> "none", at |-> HeaderLen, directories |-> <<>>]
                   ELSE ParseDirectory(s, after[i - 1])
           IN  after[At(s, 1)]

\* parse_unit_key_block.
ParseUnitKeyBlock(s) ==
    IF Len(s) < Align THEN [error |-> "Truncated", keys |-> <<>>]
    ELSE IF Align + RecordLen * At(s, 0) > Len(s)
      THEN [error |-> "OversizedRecord", keys |-> <<>>]
    ELSE [error |-> "none",
          keys |-> [i \in 1..At(s, 0) |-> At(s, Align + RecordLen * i - 1)]]

\* UnitKeyFile::parse.
ParseUnitKeyFile(bytes) ==
    LET Failed(error) == [error |-> error, directories |-> <<>>, keys |-> <<>>]
        kbs == At(bytes, 0)
        header == ParseHeader(From(bytes, Align))
        block == ParseUnitKeyBlock(From(bytes, kbs))
    IN  IF Len(bytes) < Align THEN Failed("Truncated")
        ELSE IF header.error # "none" THEN Failed(header.error)
        ELSE IF kbs >= Len(bytes) THEN Failed("OversizedRecord")
        ELSE IF kbs % Align # 0 THEN Failed("InvalidValue")
        ELSE IF block.error # "none" THEN Failed(block.error)
        ELSE [error |-> "none", directories |-> header.directories, keys |-> block.keys]
=============================================================================
