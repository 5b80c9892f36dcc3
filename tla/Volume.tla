------------------------------- MODULE Volume -------------------------------
(***************************************************************************)
(* A disc and the AacsVolume opened on it, from src/volume.rs, content.rs, *)
(* vuk.rs and unit_key.rs: the two files open() reads, each from AACS/ or  *)
(* AACS/DUPLICATE/, the VUK, looked up in a KEYDB or derived, the title    *)
(* keys unwrapped with it, and the copies of CPS units a caller keeps and  *)
(* decrypts with.                                                          *)
(*                                                                         *)
(* A disc ID stands for the edition whose Unit_Key_RO.inf hashes to it.    *)
(* The disc is of edition `pressed'; its DUPLICATE directory may have been *)
(* taken from another.  Files only get worse: unreadable, cut or padded.   *)
(***************************************************************************)
EXTENDS KeyDb, UnitKeys

CONSTANTS
    Units,       \* CPS units of an edition: 1..Units
    CutLens,     \* cells a damaged Unit_Key_RO.inf may have lost at its end
    PadLens,     \* cells one may have gained
    MaxHarm,     \* bound on the damaged files
    MaxLookupLines  \* bound on the length of the KEYDBs a disc is opened with

ASSUME UnitsAssumption == Units \in Nat \ {0}

Places == {"AACS", "DUPLICATE"}
Files == {"MKB", "UnitKey"}

VARIABLES
    pressed,     \* the edition of the disc and of its clips
    vuk_of,      \* the VUK of each edition, as a KEYDB would give it
    dir,         \* the copies of the two files
    mkb_bytes,   \* what open() has read of MKB_RO.inf, None between calls
    volume,      \* the AacsVolume, None before the first open
    unlocker,    \* history: where the VUK of the last unwrap came from
    copy         \* the CpsUnit the caller copied last, with the unlocker then

volumeVars == <<pressed, vuk_of, dir, mkb_bytes, volume, unlocker, copy>>
-----------------------------------------------------------------------------
(* Keys, files and clips *)

MediaKey(e) == Atom(<<"Km", e>>)
VolumeId(e) == Atom(<<"IDv", e>>)
TitleKeyOf(e, n) == Atom(<<"Kcu", e, n>>)

\* derive_vuk.
DeriveVuk(media_key, volume_id) == AesG(media_key, volume_id)

\* The block behind a value of a VUK row: an edition's VUK, or some other key.
VukBlock(v) ==
    IF \E e \in Discs : vuk_of[e] = v
      THEN LET e == CHOOSE e \in Discs : vuk_of[e] = v
           IN  DeriveVuk(MediaKey(e), VolumeId(e))
      ELSE Atom(<<"K", v>>)

\* Unit_Key_RO.inf of an edition: two titles in the last CPS unit.
Directory == [first |-> 1, top |-> 0, titles |-> <<Units, Units>>]
UnitKeyRo(e) ==
    MasteredFile(Directory,
        [n \in 1..Units |-> Encrypt(VukBlock(vuk_of[e]), TitleKeyOf(e, n))])

Seed == Atom(<<"seed">>)
Clip(e, n) == <<Seed, Atom(<<"video", e, n>>), Atom(<<"audio", e, n>>)>>
UnitLen == 3
Iv0 == Atom(<<"IV0_AACS">>)

\* derive_block_key.
BlockKey(unit_key, seed) == Xor(Encrypt(unit_key, seed), seed)

\* encrypt_aligned_unit.
EncryptAlignedUnit(unit_key, unit) ==
    <<unit[1]>> \o CbcEncrypt(BlockKey(unit_key, unit[1]), Iv0, Tail(unit))

\* decrypt_aligned_unit.
DecryptAlignedUnit(unit_key, unit) ==
    IF Len(unit) # UnitLen THEN <<"BadAlignedUnitLength">>
    ELSE <<unit[1]>> \o CbcDecrypt(BlockKey(unit_key, unit[1]), Iv0, Tail(unit))

\* decrypt_unit.
DecryptUnit(cps_unit, unit) ==
    IF cps_unit.title_key = None THEN <<"InvalidValue">>
    ELSE DecryptAlignedUnit(cps_unit.title_key, unit)

ClipOnDisc(n) == EncryptAlignedUnit(TitleKeyOf(pressed, n), Clip(pressed, n))

\* What a volume is made of, whatever it was opened from and unwrapped with.
EncryptedKeys ==
    {Encrypt(DeriveVuk(MediaKey(e), VolumeId(e)), TitleKeyOf(e, n)) : e \in Discs, n \in 1..Units}
Vuks == {DeriveVuk(MediaKey(d), VolumeId(e)) : d \in Discs, e \in Discs}
           \cup {Atom(<<"K", v>>) : v \in Values}
CpsUnits ==
    [id : 1..Units, encrypted_title_key : EncryptedKeys,
     title_key : {None} \cup {Decrypt(k, c) : k \in Vuks, c \in EncryptedKeys}]
Volumes ==
    [mkb : Discs, directories : {<<Directory>>}, cps_units : [1..Units -> CpsUnits]]
Unlockers == [how : {"keydb", "derived"}, edition : Discs]

ASSUME WearAssumption == CutLens \cup PadLens \subseteq Nat \ {0}
ASSUME VolumesAssumption ==
    /\ None \notin Volumes \cup Unlockers
    /\ None \notin [edition : Discs] \cup [edition : Discs, lost : Nat, gained : Nat]
    /\ None \notin {TitleKeyOf(e, n) : e \in Discs, n \in 1..Units}
-----------------------------------------------------------------------------
(* Reading the disc *)

ReadError == None   \* std::fs::read fails
Damaged == [edition |-> None]

\* A copy of Unit_Key_RO.inf is kept as its edition and the cells it lost or
\* gained, one of MKB_RO.inf as its edition, or damaged so that it is refused.
Whole(f, e) ==
    IF f = "MKB" THEN [edition |-> e] ELSE [edition |-> e, lost |-> 0, gained |-> 0]
UnitKeyBytes(c) ==
    LET bytes == UnitKeyRo(c.edition)
    IN  SubSeq(bytes, 1, Len(bytes) - c.lost) \o Zeros(c.gained)

\* disc_id_from_unit_key_file_bytes: the hash of the whole file, with no cell
\* lost or gained, is the disc ID of its edition; of any other, of no disc.
DiscId(c) == IF c = Whole("UnitKey", c.edition) THEN c.edition ELSE None

\* Faulty variant: the duplicate is read first.
ReadDuplicateFirst(name) ==
    IF dir["DUPLICATE"][name] # ReadError THEN dir["DUPLICATE"][name] ELSE dir["AACS"][name]

\* read_aacs_file: the duplicate only when the file cannot be read at all.
ReadAacsFile(name) ==
    IF dir["AACS"][name] # ReadError THEN dir["AACS"][name] ELSE dir["DUPLICATE"][name]

\* AacsVolume::open, its first file.
ReadMkb ==
    /\ mkb_bytes = None
    /\ ReadAacsFile("MKB") # ReadError
    /\ mkb_bytes' = ReadAacsFile("MKB")
    /\ UNCHANGED <<pressed, vuk_of, dir, volume, unlocker, copy>>

OpenedFrom(mkb, file) ==
    [mkb |-> mkb.edition, directories |-> file.directories,
     cps_units |-> [n \in DOMAIN file.keys |->
        [id |-> n, encrypted_title_key |-> file.keys[n], title_key |-> None]]]

\* Its second file and the two parsers.  A caller whose open fails keeps the
\* volume it had.
ReadUnitKeyRo ==
    /\ mkb_bytes # None
    /\ mkb_bytes' = None
    /\ LET read == ReadAacsFile("UnitKey")
           file == ParseUnitKeyFile(UnitKeyBytes(read))
       IN  IF read = ReadError \/ mkb_bytes = Damaged \/ file.error # "none"
             THEN UNCHANGED <<volume, unlocker>>
             ELSE /\ volume' = OpenedFrom(mkb_bytes, file)
                  /\ unlocker' = None
    /\ UNCHANGED <<pressed, vuk_of, dir, copy>>

\* Faulty variant: a unit that has a title key keeps it.
UnwrapLocked(vuk) ==
    [volume EXCEPT !.cps_units = [n \in DOMAIN @ |->
        LET unit == volume.cps_units[n]
        IN  IF unit.title_key # None THEN unit
            ELSE [unit EXCEPT !.title_key = Decrypt(vuk, unit.encrypted_title_key)]]]

\* unwrap_title_keys: every unit, and nothing tells whether the VUK was right.
UnwrapTitleKeys(vuk) ==
    [volume EXCEPT !.cps_units = [n \in DOMAIN @ |->
        LET unit == volume.cps_units[n]
        IN  [unit EXCEPT !.title_key = Decrypt(vuk, unit.encrypted_title_key)]]]

\* The caller hashes a copy of Unit_Key_RO.inf, looks its disc ID up with
\* resolve_vuk_from_keydb and unwraps with what it finds.
UnlockByKeyDb(place) ==
    /\ volume # None /\ mkb_bytes = None
    /\ dir[place]["UnitKey"] # ReadError
    /\ LET id == DiscId(dir[place]["UnitKey"])
       IN  /\ id # None
           /\ VukForDisc(id) # None
           /\ volume' = UnwrapTitleKeys(VukBlock(VukForDisc(id)))
           /\ unlocker' = [how |-> "keydb", edition |-> id]
    /\ UNCHANGED <<pressed, vuk_of, dir, mkb_bytes, copy>>

\* derive_vuk_from_device_key with the MKB of the volume and the Volume ID the
\* drive reads off the disc; module MediaKey has the way to the Media Key.
UnlockByDeviceKey ==
    /\ volume # None /\ mkb_bytes = None
    /\ volume' = UnwrapTitleKeys(DeriveVuk(MediaKey(volume.mkb), VolumeId(pressed)))
    /\ unlocker' = [how |-> "derived", edition |-> volume.mkb]
    /\ UNCHANGED <<pressed, vuk_of, dir, mkb_bytes, copy>>

\* CpsUnit is Copy: what the caller passes to decrypt_unit is its own.
TakeCopy(n) ==
    /\ volume # None /\ mkb_bytes = None
    /\ n \in DOMAIN volume.cps_units
    /\ copy' = [unit |-> volume.cps_units[n], unlocker |-> unlocker]
    /\ UNCHANGED <<pressed, vuk_of, dir, mkb_bytes, volume, unlocker>>
-----------------------------------------------------------------------------
(* The disc wears out *)

Harmed ==
    {at \in Places \X Files : dir[at[1]][at[2]] \notin {Whole(at[2], e) : e \in Discs}}

Worse(f, c) ==
    {ReadError} \cup
    IF f = "MKB" THEN {Damaged}
    ELSE {[c EXCEPT !.lost = n] : n \in CutLens} \cup {[c EXCEPT !.gained = n] : n \in PadLens}

Harm(p, f) ==
    /\ <<p, f>> \notin Harmed /\ Cardinality(Harmed) < MaxHarm
    /\ \E c \in Worse(f, dir[p][f]) : dir' = [dir EXCEPT ![p][f] = c]
    /\ UNCHANGED <<pressed, vuk_of, mkb_bytes, volume, unlocker, copy>>

VolumeInit ==
    /\ pressed \in Discs
    /\ vuk_of \in [Discs -> Values]
    /\ \A d, e \in Discs : d # e => vuk_of[d] # vuk_of[e]
    /\ \E duplicate \in Discs :
          dir = [p \in Places |-> [f \in Files |->
                    Whole(f, IF p = "AACS" THEN pressed ELSE duplicate)]]
    /\ mkb_bytes = None /\ volume = None /\ unlocker = None /\ copy = None

VolumeNext ==
    \/ ReadMkb
    \/ ReadUnitKeyRo
    \/ \E p \in Places :
          UnlockByKeyDb(p) \/ \E f \in Files : Harm(p, f)
    \/ UnlockByDeviceKey
    \/ \E n \in 1..Units : TakeCopy(n)
-----------------------------------------------------------------------------
(* What holds of it *)

\* The VUK the file of the KEYDB gives a disc, read as a whole.
VukInFile(d) ==
    IF LegacyFor(d) # {} THEN LastValue(LegacyFor(d)) ELSE LastValue(RowsFor(d, "VUK"))

\* The unlock a copy was taken after had the VUK of the disc's edition.
UnlockedRight(by) ==
    /\ by # None
    /\ IF by.how = "derived" THEN by.edition = pressed
       ELSE VukInFile(by.edition) = vuk_of[pressed]

\* A copied CPS unit decrypts the clips of its own number, and of no other,
\* exactly when the last unwrap before the copy had the VUK of the disc and the
\* unit came from the disc's own Unit_Key_RO.inf: a wrong KEYDB row or MKB is
\* made good by unwrapping again, a copy taken too early is not.
CopyPlaysAsUnlocked ==
    copy # None =>
        \A n \in 1..Units :
            DecryptUnit(copy.unit, ClipOnDisc(n)) = Clip(pressed, n)
            <=> /\ UnlockedRight(copy.unlocker)
                /\ copy.unit.id = n
                /\ copy.unit.encrypted_title_key =
                      Encrypt(VukBlock(vuk_of[pressed]), TitleKeyOf(pressed, n))

\* An open that succeeds yields the CPS units and titles of one mastered file,
\* all of them, however the copies were cut or padded; it is the disc's own, and
\* of one edition with its MKB, unless a file in AACS/ cannot be read.
OpenedVolumeIsMastered ==
    volume # None =>
        \E e \in Discs :
            /\ [n \in DOMAIN volume.cps_units |-> volume.cps_units[n].encrypted_title_key]
                  = ParseUnitKeyFile(UnitKeyRo(e)).keys
            /\ Len(volume.cps_units) = Units
            /\ volume.directories[1].titles = <<Units, Units>>
            /\ e # pressed => dir["AACS"]["UnitKey"] = ReadError
            /\ volume.mkb # pressed => dir["AACS"]["MKB"] = ReadError
=============================================================================
