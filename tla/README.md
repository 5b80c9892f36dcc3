# A verification of oxideav-aacs

TLA+ models of the crate `oxideav-aacs` (AACS for Blu-ray and CPRM media),
model-checked with TLC, with the properties that matter most proved for every
value of the constants with TLAPS.  Paths such as `ake.rs` are under
`src/src/`; `tests/...` under `src/tests/`.

## 1. The system

The crate is a library.  Three flows run through it: a caller authenticates
itself to a drive and reads identifiers and keys over the bus (`ake`, `mmc`);
it opens a disc, processes its Media Key Block and reaches the keys of the
titles (`volume`, `mkb`, `subdiff`, `vuk`, `unit_key`, `keydb`, `content`);
and it checks the trust data on the disc (`content_certificate`, `crl`,
`cht`).  `aes`, `ec` and `ecdsa` lie below all three.

| component | state | operations | hard behaviour |
|---|---|---|---|
| `ake.rs` | drive: `DriveAuthState` (its nonce and secret, the captured Hn and host certificate, the Bus Key); host: the locals of `host_authenticate`, then the `AkeResult` | `host_authenticate` (five commands), `accept_host_cert_challenge`, `drive_key_response`, `accept_host_key`, `read_verified_volume_id` | commands of several hosts interleave at one state; a command or its reply is lost; retries meet what an aborted call left; re-arming; refusals reported as a status |
| `mmc.rs` | `MockDrive`: fixtures, extent table, write data key, `auth`, captures for tests | CDB builders and parsers, response builders and parsers, `MockDrive::execute` | 16-bit lengths, `0` for 256, tables that must be replaced whole, loops that validate neighbours, feature descriptors |
| `subdiff.rs` | none | masks, `applies_to_device`, AES-G3, `derive_processing_key`, Key Conversion Data | mask widths, the walk's direction, keys of the wrong subtree |
| `mkb.rs` | the parsed `Mkb` and its original bytes | `parse`, Verify Media Key, `resolve_media_key_with_kcd`, signature checks, revocation queries | repeated records, records after the end of block, signed prefixes |
| `volume.rs` | `AacsVolume`: MKB and Unit Key File, title keys once unwrapped | `open`, `derive_*`, `resolve_vuk_from_keydb`, `unwrap_title_keys`, `decrypt_unit` | fallback to `DUPLICATE` per file, stale copies of a unit, order of the Key Conversion decisions |
| `keydb.rs` | `KeyDb` and, while parsing, the `DISCID` scope | `parse_with_report`, `load`, `load_default`, `vuk_for_disc` | a scope that outlives bad lines, two VUK tables, a report that must be exact |
| `unit_key.rs` | the parsed file | `parse` | nested counts and offsets |
| `content.rs` | none | Aligned Unit decryption | clear and encrypted parts of a unit; a wrong key is not noticed |
| `content_certificate.rs`, `crl.rs`, `cht.rs` | the parsed files | `parse`, `verify`, lookups | a signed range built again from fields, segment signatures, digest indices |
| `cci.rs` | the parsed usage file | `parse`, `to_bytes` and the typed structures | 16-bit counts, areas of whole sectors, an area that overflows, dates, files cut or padded |
| `online.rs` | none | permission message, its verification, title key recovery | late, repeated and crossed messages |
| `ec.rs`, `ecdsa.rs` | none | 160-bit field and group, sign, verify | carries, special cases of the group law |
| `aes.rs`, `vuk.rs`, `self_check.rs`, `lib.rs`, `error.rs` | none | wrappers, formulas, known answers, re-exports | |

Interaction.  `host_authenticate` and `read_verified_volume_id` reach a drive
only through the trait `DriveCommand`; everything between two `execute` calls
is local.  `MockDrive` forwards the AKE's commands to its `DriveAuthState` and
uses its Bus Key for Volume ID, Binding Nonce and data keys.  `AacsVolume`
owns an `Mkb` and calls `subdiff` for the walk, `mkb` for verification, `vuk`
for the VUK, `keydb` for a lookup instead of a derivation, and `content` last.
There are no threads, callbacks or persistent state; concurrency is that of
several hosts with handles on one drive, and the failures are those of the
bus and of malformed files.

What makes each component correct:

* AKE: no key without both authentications; success means both ends hold the
  same key; failures of others do not end a session; a retry can succeed.
* MMC: a command does what its constructor's name says; a response says what the drive holds; a table is replaced whole or not
  at all and is always legal.
* Subset-difference, MKB, volume: exactly the devices the authority did not
  revoke reach the Media Key, with exactly one of their keys.
* KEYDB: a row belongs to the disc it stands under; what is lost is reported;
  a lookup returns what the file says last.
* Volume: what plays is what was unlocked with the disc's own VUK.
* Usage rules and permissions: what is read is what was written, or refused;
  a permission opens what was asked for.
* Trust data: what is used is what was signed.
* Curve: the algorithms compute the group law, special cases included.

## 2. Modules

| module | models | |
|---|---|---|
| `BusKeySession` | what the AKE promises | abstract specification |
| `Ake` | `ake.rs`, the AKE's dispatch and Formats 0x80, 0x84 of `mmc.rs` | implements `BusKeySession` |
| `AkeProofs` | | types, safety and refinement of `Ake` |
| `MediaKey` | `subdiff.rs`; Verify Media Key and resolution of `mkb.rs`; the device-key entry points of `volume.rs` | against the authority's definition of revocation |
| `Recursion` | | induction over numbers, that recursive functions exist, joining and parting sequences, division |
| `MediaKeyProofs` | | revocation is exact, for trees of any depth |
| `MkbRecords` | `mkb.rs`: `parse`, the revocation lists' blocks, the three `verify_*` calls | against what the authority made and signed |
| `MkbRecordsProofs` | | where the two readings of a file agree; what a verified list and a verified file vouch for; an intact file is accepted |
| `BusExtents` | Format 0x85 of `mmc.rs` | |
| `Commands` | `mmc.rs`: CDBs, responses and parameter lists, all other arms of `MockDrive::execute`, the CPRM packs | |
| `Features` | `mmc.rs`: the AACS feature descriptor and the walk that finds it | |
| `Drive` | the three together | composes `BusExtents`, `Commands`, `Features` |
| `DriveProofs` | | the extent table's legality, its replacement and its reading; commands through their CDBs; the CPRM packs; the walk over the features |
| `KeyDb` | `keydb.rs` | against a reading of the file as a whole |
| `KeyDbProofs` | | the scanner agrees with that reading |
| `SymbolicAes` | `aes.rs`: ECB, CBC, AES-G, AES-H | operators only |
| `UnitKeys` | `unit_key.rs` | operators only, extends `SymbolicAes` |
| `Volume` | `volume.rs` but for `MediaKey`'s part, `vuk.rs`, `content.rs` | extends `KeyDb`, `UnitKeys` |
| `UsageFile` | `cci.rs` | against the rules that were saved |
| `Online` | `online.rs`, a player and a server | extends `SymbolicAes` |
| `Disc` | what a player reads from a disc and its companions | composes `Volume`, `UsageFile`, `Online` |
| `DiscProofs` | | volumes, usage rules and permissions of `Disc` |
| `Crl` | `crl.rs`: records, segments, both directions of the encoding, queries | operators only |
| `Certificate` | `content_certificate.rs`, `cht.rs`: `parse`, `to_bytes`, signature, digests | operators only, extends `Crl` |
| `Trust` | a player's calls on the three files, and what happens to the files before | against what was signed and mastered |
| `TrustProofs` | | what a list and a certificate sign is what they are read from; a list that verifies revokes as issued; accepted units are mastered; intact files pass |
| `Limbs` | `ec.rs`: `U160`, `mul_wide`, `reduce_wide`, the modular operations | operators only |
| `Curve` | `ec.rs`: `Point` and `Jacobian` | operators only, extends `Limbs` |
| `Ecdsa` | `ecdsa.rs`, and the loops of `ec.rs` | against arithmetic on integers and the group's table |
| `MC*` | | instances for TLC |

### Ake and BusKeySession

`auth` is `MockDrive::auth`, a `DriveAuthState`; `heard[h]`, `pc[h]` and
`attempt[h]` are the locals and the place of host `h` in `host_authenticate`;
`result[h]` is the last `AkeResult` it was given; `answer` is what the last
session command returned.  Each action from `AcquireAgid` to `SendHostKey` is
one `execute` with what the drive does in it and what the host does with the
reply up to its next `execute`.  `ReplyLost` is an `Err` from `execute` after
the drive acted, `CommandLost` one before.  `Arm` assigns a new
`DriveAuthState`.  `Exclusive` says that a caller holds `&mut D` for the whole
call with no second handle on the device; without it commands of several
hosts interleave.  `StatusBackend` is a `DriveCommand` that reports a refusal
as `Ok` with a non-zero status, which the trait's doc allows (`mmc.rs:2224`).

Cryptography is symbolic: a point is the set of secrets multiplied into the
generator, a signature is the pair of key and message, one draw stands for a
nonce and its secret.  Two calls therefore never draw the same nonce.  A MAC
made with the fixture bytes (no Bus Key) never equals a computed one.

`BusKeySession` has no messages at all: a key is adopted by the drive and
handed to a host in one step (`Establish`), or adopted and handed to nobody
(`Orphan`, a lost reply), or dropped (`Forget`).  The refinement mapping reads
`current` from `auth.bus_key` and `held` from `result`.

### MediaKey

A device holds the labels the authority gave it; `TryKey` begins one of the
entry points with one of its keys and one MKB; `SkipEntry`, `ChooseEntry` and
`NoEntryApplies` are the scan for the covering subset; `Target`, `Descend` and
`FinishWalk` the walk; `Conclude` the three ways of deciding on the candidate.
AES-G3 is a free key tree and Media Key Data is opened only by the Processing
Key that closed it.  The authority's side (`Leaves`, `Under`, `Covered`,
`Label`, ...) is not in the crate; it is defined from intervals of leaves, with
no masks, so the mask arithmetic has something to be compared with.

### MkbRecords

The file is a sequence of cells: a cell stands for the tag, for the three bytes
of the length, or for a unit of payload; `HeaderLen`, `CountLen`, `EntryLen`
and `SigLen` stand for 4, 4, 8 and 40 bytes.  A file starts as one the
authority made; `Cut`, `Follow`, `Damage` and `Deliver` are its way to the
reader, `Tails` what may stand behind it, repeated records included.  Each
of `ReadPlain`, `ReadEnd`, `ReadUnknown`, `BeginList` is one turn of the loop
of `Mkb::parse` with the arm of its `match`; `ReadBlock` is one turn of
`parse_revocation_list_with_blocks`.  `Verify` begins a `verify_*` call; `Scan`
is a turn of the `find_*` function that looks for the record a second time,
`CheckBlock` a turn of the loop over the blocks.  `starts` records where the
parser found records and is read by properties only: `FirstOf` is where a
`verify_*` call stops, `LastOf` what the `Mkb` holds.  `Verifies` is ECDSA:
`LaSigned` lists the pairs of signature and data for which it succeeds.
`MkbMade`, `SignsMkb` and `SignsList` say what the AACS LA, which is not in the
crate, makes and signs: from a Type-and-Version Record to a signed End record
with one record of each known type, lists of blocks that lie end to end, each
signed but perhaps the last; and it signs nothing else.  `MadeAssumption` is
that `Masters` and `LaSigned` are such.

### BusExtents

`Send` parses the parameter list and compares the count; `CheckExtent` is one
turn of the loop in `validate_bus_encryption_sector_extents`; `Accept`
replaces the table; `Read` is Format 0x85 of READ DISC STRUCTURE with its
parser.  The 16-bit length, the record size and the Maximum byte have the
code's widths.

### Commands, Features and Drive

`Command` is a CDB struct, `KeyCdb` and `DiscCdb` its twelve bytes, `ParseKey`
and `ParseDisc` what the drive makes of them; `ReportKeys`, `SendKeys`,
`DiscReads` and `DiscSends` are the named constructors.  `Issue` is one
`execute` of a command without data: CDB, dispatch (`AnswerTo`), what the drive
records (`RecordAfter`) and the host's parser (`ReadBy`).  A response is its
length field, its size and its fields; bytes missing at its end are `short`.
`SendList` is one with a parameter list; the commands of `Unsupported` go both
ways.  `auth` has the three modes of
`MockDrive::auth`: `Static` for `None`, `Unkeyed`, or the Bus Key;
`ChangeSession` is the handshake, which `Ake` has in full, so the three commands
of it are issued here in the static mode only.  `FetchTotal` and `FetchPack` are
a host that reads the CPRM Media Key Block, Format 0x86, with any number of
session changes between two packs.  In `Features` the response is bytes: `Walk`
is one turn of the loop of `find_aacs_feature_descriptor` over any prefix of
it, with other features before and after whose bytes look like the AACS
descriptor's.  `Drive` runs one of the parts: in the code they share no state
but the Bus Key.

### KeyDb

`ReadLine` is one turn of the loop of `parse_with_report`; the file is
whatever has been read, so every file up to the bound is covered.  A line is
what tokenising it yields.  `ScopeAt`, `RowsFor` and `Unreadable` say what the
file means without a scanner, and the properties compare the two.

### Volume, UnitKeys and SymbolicAes

`dir` is the disc: for `AACS/` and `AACS/DUPLICATE/` the copies of the two
files, each of some edition and whole, cut, padded or unreadable (`Harm`).
`ReadMkb` and `ReadUnitKeyRo` are the two reads of `open`, the parsers in the
second; a copy may get worse between them, and when `open` fails the caller
keeps the volume it had.  `UnlockByKeyDb` is `disc_id_from_unit_key_file_bytes`
of a copy the caller chooses, `resolve_vuk_from_keydb` and `unwrap_title_keys`;
`UnlockByDeviceKey` takes the VUK from the Media Key of the MKB that was read,
which is `MediaKey`'s subject.  `TakeCopy` is a `CpsUnit`, which is `Copy`, in
the caller's hands.  `unlocker` is a history variable: where the VUK of the
last unwrap came from.  The key database is the one `KeyDb` scanned, right or
wrong.

A block of AES is a set of terms, the exclusive or of its members, so equal
terms cancel; `Encrypt` and `Decrypt` undo each other under one key and are
free otherwise.  `UnitKeys` has a cell for each field, counted from 0 as in the
code, and `Align` cells for 16 bytes.

### UsageFile

`rules` are the typed structures a caller pushes, `Save` is `to_block` of each
and `CpsUnitUsageFile::to_bytes`; `CutFile` and `PadFile` are a file's way to the
reader; `ParseFile` is `parse`, and `FromBlock` the `as_*` accessors.  Dates are
bytes with the code's digit arithmetic.  A file is cells: `AreaHeaderLen` and
`BlockHeaderLen` stand for 16 and 6 bytes, `SectorLen` for 2048, `LenMod` (of a
block's length) and `CountMod` (of an area's count) for 65536, `TitleBits` for 1024.  `Rules` may be any rules a disc can hold (`IsRule`):
a date's fields have the digits the code writes for them, `apstb` three bits, a
bitmap a bit for each title; what is outside of this the fields cannot say.

### Online

`Ask` is a player's request with a nonce that was not used before, `Grant` the
server's message for any request ever made, `Receive` the arrival of any
message ever sent: so messages are lost, late, repeated and crossed.  `opened`
is what `verify_enhanced_permission` said of it and what
`recover_enhanced_title_key` made of it.

### Trust, Crl and Certificate

A file is a sequence of cells again, and a cell has the values of a nibble.  A
revocation record of eight bytes is a slot of five cells, chosen so that
everything `decode_rmrr` splits or joins lies in cells of its own; an ID, a
range and a segment's size are two cells, `Number` and `Digits` the code's
`from_be_bytes` and `to_be_bytes`.  `NextRecord` is a turn of the loop of
`parse_revocation_record_set`.  A
certificate's header is ten cells; the fields no decision depends on are one of
them.  `Hash` is SHA-1 of the data that was mastered and `NoHash` of any other;
`LaSigned` and `CcSigned` are the signatures that exist.  `Cut`, `Damage` and
`Deliver` (padding) are a file's way to the player, and a table may come from
another disc than the certificate.  Each of `ReadCrl`, `VerifyCrl`,
`ReadCertificate`, `VerifyCertificate`, `CheckDigest`, `ReadTable`, `CheckUnit`
is one public call; their order is the caller's.  The list and the chain from
certificate to unit share no state, so a behaviour has one of them.

### Ecdsa, Curve and Limbs

The code's sizes are constants: `LimbCount` limbs of `LimbBits` bits for five of
32, and a curve for the one of Table 2-1.  `Limbs` computes with limbs, carries
and borrows as the code does.  `Curve` takes field elements as numbers: that
the limbs compute the same is `ArithmeticIsModular`.  `Ecdsa` runs one call at
a time: `MulWide` is a turn of the outer loop of `mul_wide`, `ReduceWide` a bit
of `reduce_wide`, `MulScalarStep` a bit of `mul_scalar`, `SignRetry` and `Sign`
an attempt of `sign_with_k`; the calls without a loop are one step.  A digest
is any number, and `rederive_k` returns any scalar.

An operator with the comment `Faulty variant` is not part of a model.  It is
the operator after it with a plausible mistake, and a property must fail with
it in place.

## 3. Runs

| run | shows | bounds |
|---|---|---|
| `ake_shared` | `MutualAuthentication`, `OnlyLossesOrphanKeys`, `SessionSurvives`, `OkMeansShared` and the refinement | three hosts, one calling twice, one signing with a key that is not its certificate's; one loss; one re-arming |
| `ake_status_backend` | finding: an `Ok` for a refused Host Key | as above, with `StatusBackend` |
| `ake_liveness` | `UndisturbedCallSucceeds` | `Exclusive`; one host with good credentials (three calls), one with an unknown certificate, one with the wrong key, one that does not trust the drive |
| `media_key` | `RevokedExactlyWhenExcluded`, `OnlyTheRightKeyOpens`, `OneKeyOpens` | 8 leaves; MKBs of one and two subsets, complete or not, plain or converted |
| `drive` | `StoredTableLegal`, `SendReplacesAllOrNothing`, `ReadReportsTheDrive` | every list of one extent over four sectors, pairs that touch, overlap or are empty, every order of three; capacities 2 and 3; maxima 2 and 256 |
| | `CommandsAreAnsweredAsMeant` | every constructor; AGID 6, of more than two bits; targets whose address bytes all differ; answers and lists whole or one byte short; two session keys |
| | `PacksRebuildTheMkb` | packs of two blocks, a count of at most 3, Media Key Blocks of 0 to 7 blocks |
| | `FeatureWalkIsExact` | up to three features, other lengths 0, 4 and 8, every prefix of the response |
| `bus_extents_wide` | finding: a list of 4096 extents clears the table | one list |
| `disc` | `RowsStayWithTheirDisc`, `ReportIsExact`, `LookupFindsTheVuk` | files of four lines, two discs, two values |
| | `CopyPlaysAsUnlocked`, `OpenedVolumeIsMastered` | two editions, two CPS units, KEYDBs of two lines, two damaged copies, cuts into the padding, the keys and the header |
| | `RulesReadAsWritten`, `DamagedFileNeverMisread` | files of three blocks out of nine in two areas of 30 cells, lengths modulo 32 and counts modulo 3, both exceeded; cut anywhere, padded by 1 cell, a header or a sector |
| | `OnlyTheAnsweredRequestOpens` | two volumes, two titles, two requests |
| `keydb_scope` | finding: a bad `DISCID` row leaves the scope open | four lines |
| `usage_sectors` | finding: a long Secondary Area does not fill its sectors | two blocks that need a second sector |
| `mkb_records` | `IntactIsAccepted`, `VerifiedIsAsMade`, `WalksAgree`, `VerifiedListsAreSigned`, `CallsReturn` | two MKBs: one whose host list has two signed blocks, one whose drive list ends in an unsigned block; cut anywhere or followed by one of five tails (host lists of the same shape, longer and shorter, a longer drive list, a second Type-and-Version and End record), one cell damaged, padded by 0, 1 or 4: 424,000 states |
| `trust` | `IntactFilesPass`, `SignedRangeIsThePrefix`, `VerifiedListRevokesAsIssued`, `NoRecordIsSwallowed`, `VerifiedCertificateIsIssued`, `AcceptedUnitIsMastered` | two lists, of one and of two segments; two discs with the same units in another order; files cut, two cells damaged, padded by 1 or 3 |
| `curve` | `ArithmeticIsModular`, `AdditionIsTheGroup`, `LadderIsTheMultiple`, `SignedVerifies`, `VerifyIsTheEquation` | three limbs of two bits; the curve of order 41 over 37 elements with b = 9; all operands, points and scalars; five private keys and digests, five public points |

Why the bounds are enough.  The one `DriveAuthState` holds one host's
data at a time, so two hosts show every interference there is, and the third
adds one with wrong credentials; a loss or a re-arming acts on one call.  Eight leaves have subsets at every depth with
room beside, above and below them.  Overlap and order are relations of pairs
of extents, so three extents include the pair the code does not compare.  In
a KEYDB file a line sets up a scope, one breaks it or opens another, one returns
to the first and one shows what becomes of the rows after it.  A disc is played
with KEYDBs of at most two lines that a lookup sees: a right or a wrong VUK under
either table, or a legacy line over a scoped row, are all a lookup can return.
Two damaged copies can be both copies of one file or one of each.  Three blocks
overflow the Primary Area, or one fills it almost and two need a second sector
of the Secondary Area; one block's length does not fit the field's modulus, nor
three blocks in one area the count's.
Media Key Blocks of 0 to 7 blocks in packs of two have no pack, a short last
pack, whole packs, the largest count and one more than that.  Three features
put the AACS descriptor first, last and between others, or twice.  A second
request is all that can be confused with the first.  One damaged cell can be a tag, a length, a count
or a signature, which are the places where the two readings of an MKB could
part; a list of two blocks has a first, a last and a step between them; a second
list is shorter than the first, longer or as long with other entries.  A three-part revocation record has two joints, and
two damaged cells can break both, or one and a signature.  The small curve has
what makes the code's curve awkward: both primes have the width's top bit, so
that sums and doubled remainders overflow; n is larger than p; scalars from n
to the width's limit reach the doubling and the infinity inside the Jacobian
addition; points with x = 0 make `sign_with_k` retry.  The properties proved in section 5 hold
without any of these bounds.

`CHECK_DEADLOCK FALSE` stands only where the system does stop: a file ends, a
host makes no further call.

## 4. Fairness

`Ake!FairSpec` has weak fairness on the steps of a begun `host_authenticate`
call: the function is a straight line and its caller's thread runs on.
Nothing makes a host begin a call, lose a message or re-arm a drive.
`MkbRecords!FairSpec` has it on `Parse` and on `Walk`, the loops of one call;
nothing makes a caller begin a call.
Liveness is checked for `Exclusive` callers only: with interleaving, two hosts
can displace each other's challenge for ever, and the code does not prevent
it.

## 5. Proofs

`Ake`.  `TypeCorrect`, then `MutuallyAuthenticated`, `SharedOnSuccess`,
`SessionsSurvive` and `LossesOrphanKeys`, then `Implements`.  The safety
properties are not inductive: that the drive accepts a Host Key says something
about the host only through what that host heard.  The invariant is
`IInv == TypeOK /\ DriveInv /\ ProgressInv /\ HeardInv`: what the drive has
captured and keyed itself with, what a host's place in the call implies of its
credentials, and where the values it heard come from.  `SharedOnSuccess`,
`SessionsSurvive` and `Implements` assume `~StatusBackend`, which run
`ake_status_backend` shows to be needed.

`BusExtents`.  `TableLegal`, then `ReadsAreTrue` and `AllOrNothing`.  The loop invariant is that the first `i - 1`
records of a request are non-empty, within the media and each after its
predecessor; the lemma `InOrderIsLegal` turns order of neighbours into order
of all pairs.  It holds for every set of lists, including those whose length
field wraps: what the drive stores is legal, even when it is not what was
sent.  `AllOrNothing` says that an accepted list is stored whole; it has the
hypothesis `ListsFitTheLength`, since run `bus_extents_wide` shows it false of
the others.

`Features`.  `WalkIsExact`, for every list of features, AACS or not, and every
length the response is cut to.  The property is about the outcome only, so
`FeatureInv` adds where the walk is: the received bytes begin the response, and
`offset` is the end of one of the drive's features, those before it being
others.  It is never inside a feature, where the bytes may spell an AACS
descriptor.  `ResponseBegins` (a response begins with those of fewer features)
and `BytesAt` place a feature's bytes in the response; `BytesOf` and
`DescriptorReadBack` say what a parser reads in them, for every value of every
field.

`Commands`.  `CommandsAreAnswered` and `PacksAreTheMkb`, for every AGID, target,
Bus Key, pack length and Media Key Block.  Both rest on `CdbReadBack`: what the
drive parses from twelve bytes is the command they were built from, if its
fields fit their bits (`Encodable`); that those of the constructors do is
`ReadRequests` and `SendRequests`, one constructor after the other, an AGID being
cut to two bits.  `AnswersInv` adds to the property that the drive's write data
key is the last one it was sent (`RecordsOk`).  `ReadsAreAnswered` says which arm
of the drive each read meets, `ReadByIs` that its parser takes all of it or
nothing.  `CprmInv` says of each pack a host has what it should be (`BlockDue`),
and that pack 0 was had with a Bus Key or in the static mode; `CprmInvSuffices`
turns packs into blocks by division.  The proof attempt found the model short of
a step: the SEND KEY of another key class, one of the `Unsupported`, had no
action that could issue it.

`MediaKey`.  `RevocationIsExact`, `RightKeyOpens` and `OneKey`: the three
properties of run `media_key`, for every `W` from 2 on, hence for the code's 32,
every MKB, and every device that holds what the authority gives out.  Masks are
divisions by powers of two, the authority speaks of intervals of leaves: `Meet`
and `MaskIsInterval` say that they are the same, `Nested` and `Comparable` that
two intervals are one within the other or apart, so that the nodes above a leaf
are a chain.  `Down` is one level of the walk: the half that holds the target is
the half the code takes.  `Highest` and `OneGoodKey` say that of the labels a
device has in a family exactly one is above the target.  The invariant is `IInv
== TypeOK /\ Scanning /\ Choosing /\ Walking /\ Unlocked /\ Concluded /\
Counted`: the entries passed over do not cover the device; the entry chosen is
the first that does, and padding is none; the key at hand is a label of the
family on the way from the device's key to the target (this is what fails to be
inductive without the tree lemmas); what an outcome says of the key that was
tried; and that `opened` counts the good keys among those tried.

`MkbRecords`.  `ReadingsAgree` and `ListsAreSigned`, for every file, however it
was cut, damaged, padded or followed by other records, lists repeated or not.
`Mkb::parse` and the `find_*` functions of `verify_*` walk the same bytes in
different ways; the invariant `IInv` ties both to the list of the records'
places, which are a chain: each begins where the one before it ends.  The
parser keeps the last record of a type, a call finds the first, and the
properties say what that comes to.  A list that parsed is found truncated only
where the first of its type is shorter than the last.  In a list that verifies
the first block is signed and only the last may not be; what the AACS LA signed
are the entries at the blocks' places in the first list.  They are the `Mkb`'s
where first and last are one; where they are not, the `Mkb`'s entries need not
have been signed by anyone, and blocks beyond the end of a shorter first list
are not looked at.  That follows block by block from the loop's part of the
invariant, which remembers for each block passed what was verified of it.

`IntactFilesPass` and `VerifiedFileIsMade`, for everything the AACS LA can make.
`VInv` adds to that invariant where the values in the `Mkb` were read (`Kept`)
and that a file was found verified only with the signature of its last End
record and the prefix of its first (`EndChecked`).  `Aligned` is the common step: a file
that begins as an MKB's does is parsed at the places where that MKB's records
begin.  An intact file then holds these records and nothing else, no step of
the parser or of a call can refuse one, and a list's blocks are read where they
were made (`MadePositions`).  A verified file begins as some MKB of the AACS LA up
to its first End record, or as a list's signed data does; `NotSignedAsList` excludes
the second: that data ends within the list's record, where no record begins.
So each field is that MKB's, except the fields of whose type a record stands
behind the first End record: nothing signs it, and it takes the field.

`Trust`.  `Invariant`, then `SignedRangeIsPrefix`, `VerifiedListRevokes`,
`NoRecordSwallowed`, `VerifiedCertificates`, `AcceptedUnits` and `IntactFiles`:
the six properties of run `trust`, for all lists, certificates and tables, any
number of damaged cells and any sizes.  `Inv` says that an untouched file is the
mastered one with padding, that what the player holds is what the file parses to,
that what it trusts was found signed or hashed, and what the answers say of the
intact files.  The weight is in the lemmas about the two directions of the code.
`ParsedList` says where the segments of a list that parses lie in the file
(`Layout`); `RecordSetOfSlots` that the records of a segment, written again, are its
cells, the three parts of a record split and joined, every part without its
neighbours kept as it was; `SegmentWrittenAgain`, `ListWrittenAgain` and
`SignedRangeOfList` put the segments together.  So the bytes the code rebuilds to
check a signature are those before the signature in the file, and a list whose
last signature verifies is the same, from its first cell to the end of that
signature, as a list of the AACS LA (`SameSigned`); the parser takes nothing from
behind it, and the count of segments is among what is signed (`SameList`).  A certificate is written again without its reserved bits, so there
the fields, not the bytes, are those of a signed one (`SameSignedRange`).  A
table's digest and a unit's hash determine the bytes by `HashAssumption`.
`PaddedList` and `PaddedCertificate` carry an intact file over its padding.

`Disc`.  `OpenedIsMastered`, `CopyPlays` and `OnlyTheAnswerOpens`.  The
invariant of a volume is `DiscInv == IInv /\ VolumeInv`, the first being that of
the KEYDB's scanner: each copy on the disc is of an edition, cut or padded; the
volume is, cell by cell, what one edition's file gives, unlocked with the key
the history `unlocker` tells; so is the copied unit.  Below it are `FileParse`
(a mastered file that was cut or padded is refused or read as it was made, for
every number of units and every alignment; `MasteredCells` is the file's layout)
and the symbols: `VuksDiffer`, `EncKeysDiffer`, `KeyComesOut`,
`PlayedOnlyWithItsKey` say which keys and blocks are the same.  That symbolic
AES is injective is proved from the terms, not assumed; that AES is as good as
the symbols is the model's idealisation.  `CopyPlays` then needs `LookupIs` of
`KeyDbProofs`, for a VUK that came from the KEYDB.

`UsageFile`.  `RulesComeBack` and `DamageIsNoticed`: the two properties of run
`disc` about usage rules, for any rules, any number of them, and any sizes of a
sector, the length and count fields and a bitmap; run `usage_sectors` is where
the code does not do what its comment says.  Where every count and length fits
its field (`FieldsHold`) all rules come back, or the file is refused just when
the Primary Area did not hold its rules.  Where not, `to_bytes` truncates them, and what
the file is read as is other than what was saved: as many rules as the truncated
count says, and those from the first over-long block on are anything.  The properties
say that the rules before it are as they were, in files that were damaged as well.  The invariant `UsageInv` says
that a file on the disc is not empty (so nothing is added after it was saved),
and is the rules as they were written, cut or padded once.  From the
inside out: `RuleReadBack` (each structure comes back from its block, down to the
digits of a date, `TwoDigits`, and the bits of the first bytes), `RunStands`
(where each block of an area lies), `AreaRead` (an area that begins as blocks
were written is read as exactly these blocks, or refused when it ends before
them; that the first block lost is refused, and nothing after it is read, is the
induction), `LeadRead` (the same when blocks may be too long: the ones before the
first of these), `FileIsLaidOut` (the two areas in the file, with the padding to whole
areas, `RoundedUp`), `FileIsRead` (when a file is refused) and `FileLeads` (what
it is read as when it is not), which `ReadFollows` and `DamageFollows`
turn into the properties.  The proof needs no bound on the padding or the cut.

`KeyDb`.  `RowsStay`, `ReportExact` and `LookupFinds`: the three properties of
run `disc` about the scanner, for a file of any length.  They read the file as
a whole, the scanner line by line, so the invariant says that what is kept is
what the whole-file reading comes to so far: `ScopeInv` (`current_discid` is
`ScopeAt` the last line), `LegacyInv` (`by_disc_id` holds the last legacy
value) and the first two properties themselves.  `LookupFinds` follows from
it.  The lemmas `ScopeExtends`, `RowsExtend`, `LegacyExtends`, `SeenExtends`
and `UnreadableExtends` say what one more line does to each part of the
reading; `LastOf`, that a set of line numbers has a last one, comes from the
well-foundedness of strict inclusion among finite sets, so no induction is
needed; `IndexedAppend` places a new title key after those before it.

Induction.  The library's induction theorems take an operator, which the provers
cannot instantiate, so `Recursion` has induction over a set of numbers
(`SetInduction`, from the well-foundedness the library states of sets) and, from
it, that a function defined from its predecessors exists (`RecursionExists`) and
the laws of division that masks, bytes and packs need (`Division`, `Quotient`);
between them, what a part of a sequence, and two sequences end to end, are
(`Part`, `JoinedEnds`, `PartOfPart`).
`Pow2`, the hash chain of `Online`, the chaining of `Volume` and the header
loop of `UnitKeys` are reasoned about by them or by writing the function out.

Everything rests on the named assumptions in the modules (`CredentialsAssumption`,
`NamesAssumption`, `BoundsAssumption`, `LbaAssumption`, `MaximaAssumption`,
`ListsAssumption`; in `Commands` `ModesAssumption`, `TargetsAssumption`,
`PacksAssumption`: the modes differ, addresses are 32 bits, a pack has at least
one block and its length field 16 bits; in `Features` `DescriptorsAssumption` and `OthersAssumption`:
the fields have the bits `to_bytes` gives them, no other feature has the code of
AACS; in `KeyDb` `LeadersAssumption`, `NamesAssumption`,
`RecordsAssumption`: the leaders are distinct, `VUK` is one, `None` is no value
and no record; in `MediaKey` `WidthAssumption`, `KeysAssumption`,
`CasesAssumption`, `DevicesAssumption`: the keys differ, an MKB's entries are
subsets or padding with the data of a prefix of them, a device has the labels
the authority gives it, each once; in `MkbRecords` `SizesAssumption`,
`FilesAssumption` and `MadeAssumption`: what the AACS LA makes and signs; in
`UnitKeys` `AlignAssumption`; in `Volume` `UnitsAssumption`, `WearAssumption`,
`VolumesAssumption`: a damaged copy lost or gained something, `None` is no
volume, no copy and no title key; in `UsageFile` `SectorAssumption`,
`RulesAssumption`, `UndefinedAssumption`: the sizes are numbers, the rules are
such as a disc can hold, the mark of no date is no date; in `Crl`, `Certificate` and `Trust`
`CrlAssumption`, `HashAssumption`, `DeliveryAssumption`, `AnswerAssumption`,
`ListsAssumption`, `CertificatesAssumption` and `TablesAssumption`: SHA-1 has no
collisions; the lists, certificates and tables of the AACS LA parse, it signs
each list up to each of its signatures and each certificate, and with these keys
nothing else); TLC evaluates them in every run, as it does those of the
modules without proofs.

Only model-checked: liveness (`UndisturbedCallSucceeds`, `CallsReturn`), since
fairness and `ENABLED` are out of the prover's reach; and the properties of
`Ecdsa`.  `AdditionIsTheGroup` and `LadderIsTheMultiple` would need that the
addition on the curve is associative, `SignedVerifies` and
`VerifyIsTheEquation` rest on both and on inverses by Fermat's theorem, and so
does a part of `ArithmeticIsModular`: number theory the libraries do not have.
Run `curve` goes through all operands, points and scalars of one small curve instead.

## 6. Findings

1. `host_authenticate` never looks at `ScsiResponse::status` (`ake.rs:304`).
2. The extent list's Data Length wraps at 4096 records (`mmc.rs:1715`).
3. A malformed `DISCID` row leaves the previous scope open (`keydb.rs:880`).
4. A Secondary Area of more than one sector is padded to a multiple of 2032
   bytes, not to `2048*N - 16` (`cci.rs:596`, comment `cci.rs:593`, doc
   `cci.rs:527`): the file is no whole number of sectors.

Seen while modelling, without a run: with `kcd = None` and an MKB without a
Verify Media Key Record, `derive_vuk_from_device_key_with_kcd` returns
`MediaKeyVerificationFailed` and `derive_vuk_from_device_key`, to which
`volume.rs:187-188` says it is equivalent, `MissingVerifyMediaKeyRecord`;
`find_aacs_feature_descriptor` returns `Ok(None)` for a descriptor header cut
to 1 to 3 bytes, where `mmc.rs:2145-2146` promises `Truncated`
(`FeatureWalkIsExact` says for which cuts the feature is denied); Format 0x83
has a constructor and a parser, but `MockDrive` no arm for it; `parse_area`
reads exactly `loops` blocks and never stops "on trailing zero padding"
(`cci.rs:603-604`); a CCI block or list longer than 65535 is written with its
length cut to 16 bits and misreads from there on (`RulesReadAsWritten` says what
survives), and `BasicCci::to_block` indexes past its bitmap with
more than 1024 titles; `to_bytes` drops `secondary` when `has_secondary` is not
set; a `TitleDate` with a month of 160 or a year of 10000 is not read back, and
`Some` of the all-zero date is read as `None`; `derive_processing_key` returns `Some`
when the two masks are equal; with `media_capacity_lba = u32::MAX`, documented
as skipping the capacity check (`mmc.rs:1807`), an extent ending at LBA 2^32
is refused; `MockDrive::default` has AGID 0 where its field's doc says 1;
Key Format 0x38 returns the fixture certificate in authenticating mode too;
`ContentCertificate::to_bytes` drops the reserved bits, the bytes of alignment
and whatever follows the signature, so what it writes is not always what was
parsed; a hash table followed by padding parses but fails its digest, which is
taken over the whole slice; in an MKB with two lists of a type
`verify_host_revocation_list` verifies the first list by the last one's counts and
signatures, so entries the `Mkb` holds may be unsigned, and stops where the
first list ends: `mkb.rs:526-527` says it "Verifies every signature block whose
`signature` is present"; records behind the End record are parsed and not signed
(`VerifiedIsAsMade`); `Point::x_u160` returns zero for the point at
infinity where its doc says it panics (`ec.rs:596`).

## 7. Not modelled

The CDB of GET CONFIGURATION and the response parser of Format 0x83, for which
the mock drive has no arm; that the AGID is the one given out, which the mock
never checks; AES itself and SHA-1, which are symbolic, the subkeys of
AES-CMAC and the padding of AES-H; the byte encodings of the curve's numbers,
`from_coords` and `derive_k`; the Format-Specific Section of a Content
Certificate and its sequence number, which split one field.  The AKE's model
takes signatures as symbols and does not use `Ecdsa`.  Values of KEYDB rows are
abstract: tokenising and hex decoding are modelled by whether a value results;
`load_default`'s search path is not modelled.  `self_check.rs` runs known
answers of the primitives in a fixed order; `lib.rs` and `error.rs` hold no
behaviour.  Dates and title lists outside what a disc can hold (section 6) are
not among the rules that are saved.

## 8. Plan

1. Width models: legacy hex fields, `u8` masks beyond 32.
2. Proofs: `ReduceWide` and the limbs, for every width.
