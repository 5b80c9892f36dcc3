----------------------------- MODULE DriveProofs -----------------------------
(***************************************************************************)
(* What is proved of the drive of src/mmc.rs but for the handshake.        *)
(*                                                                         *)
(* Its extent table is legal for every set of lists, every media capacity  *)
(* and every maximum.  The validation loop compares neighbours only; the   *)
(* invariant says what that amounts to for the records it has passed: they *)
(* are in order pairwise.  What a host reads back or has stored is what it *)
(* was about: the length field never wraps for a table the drive holds,    *)
(* nor for a list short enough to fit it.                                  *)
(*                                                                         *)
(* A host that walks the drive's features finds the AACS one, for every    *)
(* list of features and every cut of the response: the walk is always at   *)
(* the end of a feature of the drive, never inside one.                    *)
(*                                                                         *)
(* What the drive parses is the command the host built: the CDB's bytes    *)
(* hold every field its opcode has a place for.  So a command of any       *)
(* constructor is answered as its name says.  A host that collects the     *)
(* CPRM Media Key Block has it, pack 0 from one session or the static      *)
(* mode, every other pack from any.                                        *)
(***************************************************************************)
EXTENDS Drive, SequenceTheorems, Recursion, TLAPS

\* The behaviours of the drive are behaviours of its parts.
LEMMA PartsOfTheDrive ==
    DriveSpec => Spec /\ FeaturesInit /\ [][FeaturesNext]_featureVars
<1>1. DriveInit => Init /\ FeaturesInit
  BY DEF DriveInit
<1>2. [DriveNext]_driveVars => [Next]_vars /\ [FeaturesNext]_featureVars
  BY DEF DriveNext, driveVars
<1> QED
  BY <1>1, <1>2, PTL DEF DriveSpec, Spec
-----------------------------------------------------------------------------
(* The table of extents *)

\* The first k records are non-empty, on the media, and each ends before every
\* later one starts.
InOrder(list, k) ==
    /\ \A n \in 1..k : list[n].lba_count >= 1 /\ End(list[n]) <= capacity
    /\ \A m, n \in 1..k : m < n => End(list[m]) <= list[n].start_lba

TableInv == InOrder(extents, Len(extents)) /\ Len(extents) <= maximum

RequestInv ==
    pc = "validate" => Len(request) <= maximum /\ InOrder(request, i - 1)

IInv == TypeOK /\ TableInv /\ RequestInv

\* What either parser accepts is a list of extents no longer than the records.
LEMMA ParsedType ==
    ASSUME NEW list \in Seq(Extent), NEW n \in Int,
           WellFormed([length |-> n, records |-> list])
    PROVE  Parsed([length |-> n, records |-> list]) \in Seq(Extent)
<1> DEFINE k == (n - 2) \div RecLen
<1>1. k \in Nat /\ k <= Len(list)
  BY DEF WellFormed, RecLen
<1>2. SubSeq(list, 1, k) \in Seq(Extent)
  BY <1>1, SubSeqProperties
<1> QED
  BY <1>2 DEF Parsed

\* A list in order is a legal table: intervals that end before the next start
\* share no sector.
LEMMA InOrderIsLegal ==
    ASSUME NEW list \in Seq(Extent), capacity \in Nat, maximum \in Nat,
           InOrder(list, Len(list)), Len(list) <= maximum
    PROVE  LegalTable(list)
<1>1. ASSUME NEW n \in 1..Len(list)
      PROVE  /\ list[n].start_lba \in Nat /\ list[n].lba_count \in Nat
             /\ Sectors(list[n]) # {} /\ Sectors(list[n]) \subseteq 0..(capacity - 1)
  <2>1. list[n] \in Extent
    OBVIOUS
  <2>2. list[n].start_lba \in Nat /\ list[n].lba_count \in Nat
    BY <2>1, LbaAssumption DEF Extent
  <2>3. list[n].lba_count >= 1 /\ list[n].start_lba + list[n].lba_count <= capacity
    BY DEF InOrder, End
  <2>4. list[n].start_lba \in Sectors(list[n])
    BY <2>2, <2>3 DEF Sectors
  <2> QED
    BY <2>2, <2>3, <2>4 DEF Sectors
<1>2. ASSUME NEW m \in 1..Len(list), NEW n \in 1..Len(list), m < n,
             NEW s \in Sectors(list[m]), NEW t \in Sectors(list[n])
      PROVE  s < t
  <2>1. list[m].start_lba + list[m].lba_count <= list[n].start_lba
    BY <1>2 DEF InOrder, End
  <2>2. /\ list[m].start_lba \in Nat /\ list[m].lba_count \in Nat
        /\ list[n].start_lba \in Nat /\ list[n].lba_count \in Nat
    BY <1>1
  <2>3. s \in Int /\ s <= list[m].start_lba + list[m].lba_count - 1
    BY <2>2 DEF Sectors
  <2>4. t \in Int /\ list[n].start_lba <= t
    BY <2>2 DEF Sectors
  <2> QED
    BY <2>1, <2>2, <2>3, <2>4
<1> QED
  BY <1>1, <1>2 DEF LegalTable

\* The check of record k + 1 against record k carries the order of the first k
\* records over to k + 1.
LEMMA NextInOrder ==
    ASSUME NEW list \in Seq(Extent), NEW k \in 1..Len(list), capacity \in Nat,
           InOrder(list, k - 1), ~Refused(list, k)
    PROVE  InOrder(list, k)
<1>1. ASSUME NEW n \in 1..Len(list)
      PROVE  list[n].start_lba \in Nat /\ list[n].lba_count \in Nat
  <2>1. list[n] \in Extent
    OBVIOUS
  <2> QED
    BY <2>1, LbaAssumption DEF Extent
<1>2. list[k].lba_count >= 1 /\ End(list[k]) <= capacity
  BY <1>1 DEF Refused, End
<1>3. k > 1 => End(list[k - 1]) <= list[k].start_lba
  BY <1>1 DEF Refused, OutOfOrder, End
<1>4. ASSUME NEW m \in 1..k, NEW n \in 1..k, m < n
      PROVE  End(list[m]) <= list[n].start_lba
  <2>1. CASE n < k
    BY <1>4, <2>1 DEF InOrder
  <2>2. CASE n = k /\ m = k - 1
    BY <1>3, <2>2
  <2>3. CASE n = k /\ m < k - 1
    <3>1. End(list[m]) <= list[k - 1].start_lba
      BY <2>3 DEF InOrder
    <3>2. list[k - 1].start_lba <= End(list[k - 1])
      BY <1>1, <2>3 DEF End
    <3>3. End(list[k - 1]) <= list[k].start_lba
      BY <1>3, <2>3
    <3>4. PICK a \in Nat, b \in Nat : a = list[m].start_lba /\ b = list[m].lba_count
      BY <1>1
    <3>5. PICK c \in Nat, d \in Nat : c = list[k - 1].start_lba /\ d = list[k - 1].lba_count
      BY <1>1, <2>3
    <3>6. PICK e \in Nat : e = list[k].start_lba
      BY <1>1
    <3>7. a + b <= c /\ c <= c + d /\ c + d <= e
      BY <3>1, <3>2, <3>3, <3>4, <3>5, <3>6 DEF End
    <3>8. a + b <= e
      BY <3>7
    <3> QED
      BY <2>3, <3>4, <3>6, <3>8 DEF End
  <2> QED
    BY <1>4, <2>1, <2>2, <2>3
<1>5. \A n \in 1..k : list[n].lba_count >= 1 /\ End(list[n]) <= capacity
  BY <1>2 DEF InOrder
<1> QED
  BY <1>4, <1>5 DEF InOrder
-----------------------------------------------------------------------------
LEMMA InitIInv == Init => IInv
<1> SUFFICES ASSUME Init PROVE IInv
  OBVIOUS
<1>1. TypeOK
  BY LbaAssumption DEF Init, TypeOK
<1>2. Len(extents) = 0 /\ maximum \in Nat
  BY MaximaAssumption DEF Init, ByteMod
<1> QED
  BY <1>1, <1>2 DEF Init, IInv, TableInv, RequestInv, InOrder

LEMMA SendKeepsIInv ==
    ASSUME IInv, NEW list \in Seq(Extent), NEW n \in Int,
           NEW from \in Lists \cup {None},
           Send(from, [length |-> n, records |-> list])
    PROVE  IInv'
<1> DEFINE m == [length |-> n, records |-> list]
<1>1. CASE WellFormed(m) /\ Len(Parsed(m)) <= maximum
  <2>1. Parsed(m) \in Seq(Extent)
    BY <1>1, ParsedType
  <2>2. /\ pc' = "validate" /\ request' = Parsed(m) /\ i' = 1 /\ answer' = None
        /\ sent' = from
        /\ UNCHANGED <<capacity, maximum, extents, view>>
    BY <1>1 DEF Send, Tell
  <2> HIDE DEF m
  <2>3. TypeOK'
    BY <2>1, <2>2 DEF IInv, TypeOK
  <2>4. TableInv'
    BY <2>2 DEF IInv, TableInv, InOrder
  <2>5. RequestInv'
    BY <1>1, <2>2 DEF RequestInv, InOrder
  <2> QED
    BY <2>3, <2>4, <2>5 DEF IInv
<1>2. CASE ~(WellFormed(m) /\ Len(Parsed(m)) <= maximum)
  <2>1. /\ pc' = "idle" /\ request' = <<>> /\ i' = 1 /\ answer' = "refused"
        /\ sent' = from
        /\ UNCHANGED <<capacity, maximum, extents, view>>
    BY <1>2 DEF Send, Tell, Done
  <2> HIDE DEF m
  <2>2. TypeOK'
    BY <2>1 DEF IInv, TypeOK
  <2>3. TableInv' /\ RequestInv'
    BY <2>1 DEF IInv, TableInv, RequestInv, InOrder
  <2> QED
    BY <2>2, <2>3 DEF IInv
<1> QED
  BY <1>1, <1>2

LEMMA CheckExtentKeepsIInv == IInv /\ CheckExtent => IInv'
<1> SUFFICES ASSUME IInv, CheckExtent PROVE IInv'
  OBVIOUS
<1>1. CASE Refused(request, i)
  <2>1. /\ pc' = "idle" /\ request' = <<>> /\ i' = 1 /\ answer' = "refused"
        /\ UNCHANGED <<capacity, maximum, extents, sent, view>>
    BY <1>1 DEF CheckExtent, Tell, Done
  <2>2. TypeOK'
    BY <2>1 DEF IInv, TypeOK
  <2>3. TableInv' /\ RequestInv'
    BY <2>1 DEF IInv, TableInv, RequestInv, InOrder
  <2> QED
    BY <2>2, <2>3 DEF IInv
<1>2. CASE ~Refused(request, i)
  <2>1. /\ i \in 1..Len(request) /\ pc = "validate" /\ i' = i + 1
        /\ UNCHANGED <<capacity, maximum, extents, pc, sent, request, answer, view>>
    BY <1>2 DEF CheckExtent
  <2>2. capacity \in Nat /\ request \in Seq(Extent)
    BY LbaAssumption DEF IInv, TypeOK
  <2>3. InOrder(request, i)
    BY <1>2, <2>1, <2>2, NextInOrder DEF IInv, RequestInv
  <2>4. i' - 1 = i
    BY <2>1
  <2>5. RequestInv'
    BY <2>1, <2>3, <2>4 DEF IInv, RequestInv, InOrder
  <2>6. TypeOK'
    BY <2>1, <2>2 DEF IInv, TypeOK
  <2>7. TableInv'
    BY <2>1 DEF IInv, TableInv, InOrder
  <2> QED
    BY <2>5, <2>6, <2>7 DEF IInv
<1> QED
  BY <1>1, <1>2

LEMMA AcceptKeepsIInv == IInv /\ Accept => IInv'
<1> SUFFICES ASSUME IInv, Accept PROVE IInv'
  OBVIOUS
<1>1. /\ pc = "validate" /\ i = Len(request) + 1 /\ extents' = request
      /\ pc' = "idle" /\ request' = <<>> /\ i' = 1 /\ answer' \in {"ok", "lost"}
      /\ UNCHANGED <<capacity, maximum, sent, view>>
  BY DEF Accept, Tell, Done
<1>2. i - 1 = Len(request)
  BY <1>1 DEF IInv, TypeOK
<1>3. TableInv'
  BY <1>1, <1>2 DEF IInv, TableInv, RequestInv, InOrder
<1>4. TypeOK' /\ RequestInv'
  BY <1>1 DEF IInv, TypeOK, RequestInv
<1> QED
  BY <1>3, <1>4 DEF IInv

LEMMA ReadKeepsIInv ==
    ASSUME IInv, NEW h \in Hosts, Read(h) PROVE IInv'
<1> DEFINE m == Message(extents)
<1>1. m.length \in Int /\ m = [length |-> m.length, records |-> extents]
  BY DEF Message, IInv, TypeOK, LenMod, RecLen
<1>2. Parsed(m) \in Seq(Extent)
  BY <1>1, ParsedType DEF Read, IInv, TypeOK
<1>3. DecodeMaximum(EncodeMaximum(maximum)) \in 1..ByteMod
  BY MaximaAssumption DEF DecodeMaximum, EncodeMaximum, ByteMod, IInv, TypeOK
<1>4. /\ view' = [view EXCEPT ![h] =
            [maximum |-> DecodeMaximum(EncodeMaximum(maximum)), extents |-> Parsed(m)]]
      /\ UNCHANGED <<capacity, maximum, extents, pc, sent, request, i, answer>>
  BY DEF Read
<1> HIDE DEF m
<1>5. TypeOK'
  BY <1>2, <1>3, <1>4 DEF IInv, TypeOK
<1>6. TableInv' /\ RequestInv'
  BY <1>4 DEF IInv, TableInv, RequestInv, InOrder
<1> QED
  BY <1>5, <1>6 DEF IInv

LEMMA StepIInv == IInv /\ [Next]_vars => IInv'
<1> SUFFICES ASSUME IInv, [Next]_vars PROVE IInv'
  OBVIOUS
<1>1. ASSUME NEW list \in Lists, Send(list, Message(list)) PROVE IInv'
  <2>1. list \in Seq(Extent) /\ Message(list).length \in Int
    BY ListsAssumption DEF Message, LenMod, RecLen
  <2>2. Message(list) = [length |-> Message(list).length, records |-> list]
    BY DEF Message
  <2> QED
    BY <1>1, <2>1, <2>2, SendKeepsIInv
<1>2. ASSUME NEW list \in Lists, NEW m \in Malformed(list), Send(None, m) PROVE IInv'
  <2>1. list \in Seq(Extent)
    BY ListsAssumption
  <2>2. PICK n \in Int : m = [length |-> n, records |-> list]
    BY <2>1 DEF Malformed, RecLen
  <2> QED
    BY <1>2, <2>1, <2>2, SendKeepsIInv
<1>3. CASE UNCHANGED vars
  BY <1>3 DEF vars, IInv, TypeOK, TableInv, RequestInv, InOrder
<1> QED
  BY <1>1, <1>2, <1>3, CheckExtentKeepsIInv, AcceptKeepsIInv, ReadKeepsIInv DEF Next

THEOREM Invariance == Spec => []IInv
<1>1. Init => IInv
  BY InitIInv
<1>2. IInv /\ [Next]_vars => IInv'
  BY StepIInv
<1> QED
  BY <1>1, <1>2, PTL DEF Spec

\* The drive never holds a table with an empty, overlapping, unsorted or
\* off-media extent, nor more extents than it advertises.
THEOREM TableLegal == Spec => []StoredTableLegal
<1>1. IInv => StoredTableLegal
  <2> SUFFICES ASSUME IInv PROVE StoredTableLegal
    OBVIOUS
  <2>1. extents \in Seq(Extent) /\ capacity \in Nat /\ maximum \in Nat
    BY LbaAssumption, MaximaAssumption DEF IInv, TypeOK, ByteMod
  <2> QED
    BY <2>1, InOrderIsLegal DEF IInv, TableInv, StoredTableLegal
<1> QED
  BY <1>1, Invariance, PTL
-----------------------------------------------------------------------------
(* What the two commands carry *)

\* A list whose length fits the field comes out of the parser as it went in.
LEMMA RoundTrip ==
    ASSUME NEW list \in Seq(Extent), 2 + RecLen * Len(list) < LenMod
    PROVE  WellFormed(Message(list)) /\ Parsed(Message(list)) = list
<1>1. PICK n \in Nat : n = Len(list)
  OBVIOUS
<1>2. (2 + 16 * n) % 65536 = 2 + 16 * n
  BY <1>1 DEF RecLen, LenMod
<1>3. (16 * n) % 16 = 0 /\ (16 * n) \div 16 = n
  BY <1>1
<1>4. Message(list).length = 2 + 16 * n /\ Message(list).records = list
  BY <1>1, <1>2 DEF Message, RecLen, LenMod
<1>5. Message(list).length - 2 = 16 * n
  BY <1>4
<1>6. WellFormed(Message(list))
  BY <1>1, <1>3, <1>4, <1>5 DEF WellFormed, RecLen
<1>7. Parsed(Message(list)) = SubSeq(list, 1, Len(list))
  BY <1>1, <1>3, <1>4, <1>5 DEF Parsed, RecLen
<1>8. SubSeq(list, 1, Len(list)) = list
  OBVIOUS
<1> QED
  BY <1>6, <1>7, <1>8

\* Neither parser takes a list whose length field does not match its records.
LEMMA MalformedIsRefused ==
    ASSUME NEW list \in Seq(Extent), NEW m \in Malformed(list)
    PROVE  ~WellFormed(m)
<1>1. PICK n \in Nat : n = Len(list)
  OBVIOUS
<1>2. m.records = list
  BY DEF Malformed
<1>3. m.length \in {0, 2 + 16 * (n + 1), 16 * n + 1}
  BY <1>1 DEF Malformed, RecLen
<1>4. (16 * n - 1) % 16 = 15
  BY <1>1
<1>5. CASE m.length = 16 * n + 1
  <2>1. m.length - 2 = 16 * n - 1
    BY <1>5
  <2> QED
    BY <1>4, <2>1 DEF WellFormed, RecLen
<1>6. CASE m.length \in {0, 2 + 16 * (n + 1)}
  BY <1>1, <1>2, <1>6 DEF WellFormed, RecLen
<1> QED
  BY <1>3, <1>5, <1>6

\* A READ returns the table and the maximum of the drive, for every table it
\* can hold: through the length field, and the Maximum byte that writes 256 as 0.
THEOREM ReadsAreTrue == Spec => ReadReportsTheDrive
<1>1. ASSUME IInv, NEW r \in Hosts, Read(r), NEW h \in Hosts, view'[h] # view[h]
      PROVE  view'[h] = [maximum |-> maximum, extents |-> extents]
  <2>1. extents \in Seq(Extent) /\ maximum \in 1..256 /\ Len(extents) <= maximum
    BY <1>1, MaximaAssumption DEF IInv, TypeOK, TableInv, ByteMod
  <2>2. 2 + RecLen * Len(extents) < LenMod
    BY <2>1 DEF RecLen, LenMod
  <2>3. Parsed(Message(extents)) = extents
    BY <2>1, <2>2, RoundTrip
  <2>4. DecodeMaximum(EncodeMaximum(maximum)) = maximum
    BY <2>1 DEF DecodeMaximum, EncodeMaximum, ByteMod
  <2>5. view' = [view EXCEPT ![r] = [maximum |-> maximum, extents |-> extents]]
    BY <1>1, <2>3, <2>4 DEF Read
  <2>6. DOMAIN view = Hosts
    BY <1>1 DEF IInv, TypeOK
  <2> QED
    BY <1>1, <2>5, <2>6
<1>2. ASSUME IInv, [Next]_vars
      PROVE  [\A h \in Hosts : view'[h] # view[h] =>
                 view'[h] = [maximum |-> maximum, extents |-> extents]]_vars
  <2>1. ASSUME NEW r \in Hosts, Read(r)
        PROVE  \A h \in Hosts : view'[h] # view[h] =>
                  view'[h] = [maximum |-> maximum, extents |-> extents]
    BY <1>1, <1>2, <2>1
  <2>2. CASE UNCHANGED view
    BY <2>2
  <2>3. UNCHANGED view \/ \E r \in Hosts : Read(r)
    BY <1>2 DEF Next, Send, CheckExtent, Accept, vars
  <2> QED
    BY <2>1, <2>2, <2>3
<1> QED
  BY <1>2, Invariance, PTL DEF Spec, ReadReportsTheDrive

\* The lists hosts send fit the length field: 2 + N*16 is below 2^16.  A longer
\* list is stored cut short (run bus_extents_wide), so this is needed.
ListsFitTheLength == \A list \in Lists : 2 + RecLen * Len(list) < LenMod

\* While it is validated, the request is the list of the SEND.
SentInv == pc = "validate" => request = sent

LEMMA StepSentInv ==
    ASSUME ListsFitTheLength, SentInv, [Next]_vars PROVE SentInv'
<1>1. ASSUME NEW list \in Lists, Send(list, Message(list)) PROVE SentInv'
  <2>1. list \in Seq(Extent) /\ 2 + RecLen * Len(list) < LenMod
    BY ListsAssumption DEF ListsFitTheLength
  <2>2. Parsed(Message(list)) = list
    BY <2>1, RoundTrip
  <2> QED
    BY <1>1, <2>2 DEF Send, Done, SentInv
<1>2. ASSUME NEW list \in Lists, NEW m \in Malformed(list), Send(None, m) PROVE SentInv'
  <2>1. ~WellFormed(m)
    BY ListsAssumption, MalformedIsRefused
  <2> QED
    BY <1>2, <2>1 DEF Send, Done, SentInv
<1>3. CASE CheckExtent
  BY <1>3 DEF CheckExtent, Done, SentInv
<1>4. CASE Accept
  BY <1>4 DEF Accept, Done, SentInv
<1>5. CASE (\E h \in Hosts : Read(h)) \/ UNCHANGED vars
  BY <1>5 DEF Read, vars, SentInv
<1> QED
  BY <1>1, <1>2, <1>3, <1>4, <1>5 DEF Next

\* A host told ok has its whole list in the drive, and only a SEND that passed
\* every check changes the table.
THEOREM AllOrNothing ==
    ASSUME ListsFitTheLength PROVE Spec => SendReplacesAllOrNothing
<1>1. Init => SentInv
  BY DEF Init, SentInv
<1>2. SentInv /\ [Next]_vars => SentInv'
  BY StepSentInv
<1>3. ASSUME SentInv, [Next]_vars
      PROVE  [/\ answer # "ok" /\ answer' = "ok" => extents' = sent'
              /\ extents' # extents => answer' \in {"ok", "lost"}]_vars
  <2>1. CASE Accept
    BY <1>3, <2>1 DEF Accept, Tell, Done, SentInv
  <2>2. CASE UNCHANGED extents /\ (answer' # "ok" \/ UNCHANGED answer)
    BY <2>2
  <2>3. CASE CheckExtent
    <3>1. UNCHANGED extents /\ (answer' = "refused" \/ UNCHANGED answer)
      BY <2>3 DEF CheckExtent, Tell
    <3> QED
      BY <2>2, <3>1
  <2>4. ASSUME NEW list, NEW m, Send(list, m)
        PROVE  UNCHANGED extents /\ answer' # "ok"
    BY <2>4, NoneAssumption DEF Send, Tell
  <2>5. CASE (\E h \in Hosts : Read(h)) \/ UNCHANGED vars
    BY <2>2, <2>5 DEF Read, vars
  <2>6. CASE \E list, m : Send(list, m)
    BY <2>2, <2>4, <2>6
  <2> QED
    BY <1>3, <2>1, <2>3, <2>5, <2>6 DEF Next
<1> QED
  BY <1>1, <1>2, <1>3, PTL DEF Spec, SendReplacesAllOrNothing
-----------------------------------------------------------------------------
(* The response to GET CONFIGURATION *)

\* Every field of an AACS descriptor is read back from its bytes.
LEMMA Flags ==
    ASSUME NEW a \in BOOLEAN, NEW b \in BOOLEAN, NEW c \in BOOLEAN, NEW d \in BOOLEAN,
           NEW e \in BOOLEAN, NEW x,
           x = FlagBit(a, 128) + FlagBit(b, 64) + FlagBit(c, 32) + FlagBit(d, 16) + FlagBit(e, 1)
    PROVE  /\ x \in Nat
           /\ BitSet(x, 128) = a /\ BitSet(x, 64) = b /\ BitSet(x, 32) = c
           /\ BitSet(x, 16) = d /\ BitSet(x, 1) = e
<1> DEFINE Bit(p) == IF p THEN 1 ELSE 0
<1>1. PICK A \in {0, 1}, B \in {0, 1}, C \in {0, 1}, D \in {0, 1}, E \in {0, 1} :
         A = Bit(a) /\ B = Bit(b) /\ C = Bit(c) /\ D = Bit(d) /\ E = Bit(e)
  OBVIOUS
<1>2. x = 128 * A + 64 * B + 32 * C + 16 * D + E
  BY <1>1 DEF FlagBit
<1>3. /\ (x \div 128) % 2 = A /\ (x \div 64) % 2 = B /\ (x \div 32) % 2 = C
      /\ (x \div 16) % 2 = D /\ (x \div 1) % 2 = E
  BY <1>2
<1> QED
  BY <1>1, <1>2, <1>3 DEF BitSet

Third(v, p, c) == 4 * (v % 16) + FlagBit(p, 2) + FlagBit(c, 1)

\* The version nibble and the two bits beside it.
LEMMA VersionByte ==
    ASSUME NEW v \in 0..15, NEW p \in BOOLEAN, NEW c \in BOOLEAN, NEW x, x = Third(v, p, c)
    PROVE  /\ x \in Nat /\ BitSet(x, 1) = c /\ BitSet(x, 2) = p /\ (x \div 4) % 16 = v
<1> DEFINE Bit(q) == IF q THEN 1 ELSE 0
<1>1. PICK P \in {0, 1}, C \in {0, 1} : P = Bit(p) /\ C = Bit(c)
  OBVIOUS
<1>2. x = 4 * v + 2 * P + C
  BY <1>1 DEF FlagBit, Third
<1>3. (x \div 1) % 2 = C /\ (x \div 2) % 2 = P /\ (x \div 4) % 16 = v
  BY <1>2
<1> QED
  BY <1>1, <1>2, <1>3 DEF BitSet

\* The elements of eight bytes written out.
LEMMA Octet ==
    ASSUME NEW a \in Nat, NEW b \in Nat, NEW c \in Nat, NEW d \in Nat,
           NEW e \in Nat, NEW f \in Nat, NEW g \in Nat, NEW h \in Nat,
           NEW s, s = <<a, b, c, d, e, f, g, h>>
    PROVE  /\ s \in Seq(Nat) /\ Len(s) = 8
           /\ s[1] = a /\ s[2] = b /\ s[3] = c /\ s[4] = d
           /\ s[5] = e /\ s[6] = f /\ s[7] = g /\ s[8] = h
OBVIOUS

\* parse_aacs_feature_descriptor undoes to_bytes.
LEMMA DescriptorReadBack ==
    ASSUME NEW d \in DescriptorType
    PROVE  /\ AacsBytes(d) \in Seq(Nat) /\ Len(AacsBytes(d)) = 8
           /\ AacsBytes(d)[1] = 1 /\ AacsBytes(d)[2] = 13 /\ AacsBytes(d)[4] = 4
           /\ ParseAacs(AacsBytes(d)) = Returned(d)
<1>1. PICK x \in Nat : /\ x = Third(d.version, d.persistent, d.current)
                      /\ BitSet(x, 1) = d.current /\ BitSet(x, 2) = d.persistent
                      /\ (x \div 4) % 16 = d.version
  <2>1. d.version \in 0..15 /\ d.persistent \in BOOLEAN /\ d.current \in BOOLEAN
    BY DEF DescriptorType
  <2> QED
    BY <2>1, VersionByte
<1>2. PICK y \in Nat : y = FlagBit(d.read_drive_certificate, 128) + FlagBit(d.return_mkb_of_cprm, 64)
         + FlagBit(d.write_bus_encryption, 32) + FlagBit(d.bus_encryption_capable, 16)
         + FlagBit(d.binding_nonce_generation, 1)
  <2>1. /\ d.read_drive_certificate \in BOOLEAN /\ d.return_mkb_of_cprm \in BOOLEAN
        /\ d.write_bus_encryption \in BOOLEAN /\ d.bus_encryption_capable \in BOOLEAN
        /\ d.binding_nonce_generation \in BOOLEAN
    BY DEF DescriptorType
  <2> QED
    BY <2>1, Flags
<1>3. PICK blocks \in Nat, agids \in Nat, edition \in Nat :
         /\ blocks = d.block_count_for_binding_nonce /\ agids = d.number_of_agids % 8
         /\ edition = d.aacs_version /\ agids % 8 = d.number_of_agids
  <2>1. /\ d.block_count_for_binding_nonce \in 0..255 /\ d.number_of_agids \in 0..7
        /\ d.aacs_version \in 0..255
    BY DEF DescriptorType
  <2>2. PICK g \in 0..7 : g = d.number_of_agids
    BY <2>1
  <2>3. g % 8 = g /\ g \in Nat
    OBVIOUS
  <2>4. d.block_count_for_binding_nonce \in Nat /\ d.aacs_version \in Nat
    BY <2>1
  <2> QED
    BY <2>2, <2>3, <2>4
<1>4. FeatureAacs \div 256 = 1 /\ FeatureAacs % 256 = 13
  BY DEF FeatureAacs
<1>5. AacsBytes(d) = <<1, 13, x, 4, y, blocks, agids, edition>>
  BY <1>1, <1>2, <1>3, <1>4 DEF AacsBytes, Third, AacsLen, DescriptorHeaderLen
<1>6. PICK s \in Seq(Nat) : s = AacsBytes(d) /\ Len(s) = 8 /\ s[1] = 1 /\ s[2] = 13 /\ s[3] = x
                            /\ s[4] = 4 /\ s[5] = y /\ s[6] = blocks /\ s[7] = agids /\ s[8] = edition
  <2>1. 1 \in Nat /\ 13 \in Nat /\ 4 \in Nat
    OBVIOUS
  <2>2. PICK s : s = AacsBytes(d)
    OBVIOUS
  <2>3. s = <<1, 13, x, 4, y, blocks, agids, edition>>
    BY <1>5, <2>2
  <2>4. /\ s \in Seq(Nat) /\ Len(s) = 8 /\ s[1] = 1 /\ s[2] = 13 /\ s[3] = x
        /\ s[4] = 4 /\ s[5] = y /\ s[6] = blocks /\ s[7] = agids /\ s[8] = edition
    BY <2>1, <2>3, Octet
  <2> QED
    BY <2>2, <2>4
<1>7. /\ BitSet(x, 1) = d.current /\ BitSet(x, 2) = d.persistent /\ (x \div 4) % 16 = d.version
  BY <1>1
<1>8. /\ BitSet(y, 128) = d.read_drive_certificate /\ BitSet(y, 64) = d.return_mkb_of_cprm
      /\ BitSet(y, 32) = d.write_bus_encryption /\ BitSet(y, 16) = d.bus_encryption_capable
      /\ BitSet(y, 1) = d.binding_nonce_generation
  <2>1. /\ d.read_drive_certificate \in BOOLEAN /\ d.return_mkb_of_cprm \in BOOLEAN
        /\ d.write_bus_encryption \in BOOLEAN /\ d.bus_encryption_capable \in BOOLEAN
        /\ d.binding_nonce_generation \in BOOLEAN
    BY DEF DescriptorType
  <2> QED
    BY <1>2, <2>1, Flags
<1>9. ParseAacs(s) = Returned(
        [current |-> BitSet(x, 1), persistent |-> BitSet(x, 2), version |-> (x \div 4) % 16,
         read_drive_certificate |-> BitSet(y, 128), return_mkb_of_cprm |-> BitSet(y, 64),
         write_bus_encryption |-> BitSet(y, 32), bus_encryption_capable |-> BitSet(y, 16),
         binding_nonce_generation |-> BitSet(y, 1),
         block_count_for_binding_nonce |-> blocks, number_of_agids |-> agids % 8,
         aacs_version |-> edition])
  <2>1. ~(Len(s) < AacsLen) /\ 256 * s[1] + s[2] = FeatureAacs /\ s[4] = AacsLen - DescriptorHeaderLen
    BY <1>6 DEF AacsLen, FeatureAacs, DescriptorHeaderLen
  <2> QED
    BY <1>6, <2>1 DEF ParseAacs
<1>10. d = [current |-> d.current, persistent |-> d.persistent, version |-> d.version,
         read_drive_certificate |-> d.read_drive_certificate,
         return_mkb_of_cprm |-> d.return_mkb_of_cprm,
         write_bus_encryption |-> d.write_bus_encryption,
         bus_encryption_capable |-> d.bus_encryption_capable,
         binding_nonce_generation |-> d.binding_nonce_generation,
         block_count_for_binding_nonce |-> d.block_count_for_binding_nonce,
         number_of_agids |-> d.number_of_agids, aacs_version |-> d.aacs_version]
  BY DEF DescriptorType
<1>11. ParseAacs(s) = Returned(d)
  BY <1>3, <1>7, <1>8, <1>9, <1>10
<1> QED
  BY <1>6, <1>11

\* The same for a feature of another code, whatever its bytes are.
LEMMA OtherBytes ==
    ASSUME NEW code \in Nat, NEW length \in Nat, NEW data \in Seq(Nat), Len(data) = length
    PROVE  LET b == <<code \div 256, code % 256, 3, length>> \o data
           IN  /\ b \in Seq(Nat) /\ Len(b) = 4 + length
               /\ 256 * b[1] + b[2] = code /\ b[4] = length
<1> DEFINE h == <<code \div 256, code % 256, 3, length>>
           b == h \o data
<1>1. code \div 256 \in Nat /\ code % 256 \in Nat /\ 256 * (code \div 256) + (code % 256) = code
  OBVIOUS
<1>2. h \in Seq(Nat) /\ Len(h) = 4
  BY <1>1
<1>3. h[1] = code \div 256 /\ h[2] = code % 256 /\ h[4] = length
  BY <1>1
<1> HIDE DEF h
<1>4. b \in Seq(Nat) /\ Len(b) = 4 + length /\ \A n \in 1..4 : b[n] = h[n]
  <2>1. /\ h \o data \in Seq(Nat) /\ Len(h \o data) = Len(h) + Len(data)
        /\ \A n \in 1..Len(h) : (h \o data)[n] = h[n]
    BY <1>2, Joined
  <2> QED
    BY <1>2, <2>1
<1>5. b[1] = h[1] /\ b[2] = h[2] /\ b[4] = h[4]
  BY <1>4
<1> QED
  BY <1>1, <1>3, <1>4, <1>5 DEF h

\* The codes and lengths of other features, for leaves without the ranges.
LEMMA OthersAreNumbers ==
    /\ \A code \in OtherCodes : code \in Nat /\ code # 269
    /\ \A length \in OtherLens : length \in Nat
BY OthersAssumption DEF FeatureAacs

\* The bytes of a feature: its code, its length and what is read of them.
LEMMA BytesOf ==
    ASSUME NEW f \in FeatureType
    PROVE  /\ FeatureBytes(f) \in Seq(Nat)
           /\ Len(FeatureBytes(f)) = DescriptorHeaderLen + FeatureBytes(f)[4]
           /\ FeatureBytes(f)[4] \in Nat
           /\ (256 * FeatureBytes(f)[1] + FeatureBytes(f)[2] = FeatureAacs) <=> IsAacs(f)
           /\ IsAacs(f) => ParseAacs(FeatureBytes(f)) = Returned(f)
<1>1. CASE IsAacs(f)
  <2>1. f \in DescriptorType
    BY <1>1, DescriptorsAssumption DEF IsAacs
  <2>2. FeatureBytes(f) = AacsBytes(f)
    BY <1>1 DEF FeatureBytes
  <2>3. PICK b \in Seq(Nat) : /\ b = AacsBytes(f) /\ Len(b) = 8 /\ b[1] = 1 /\ b[2] = 13 /\ b[4] = 4
                              /\ ParseAacs(b) = Returned(f)
    BY <2>1, DescriptorReadBack
  <2> QED
    BY <1>1, <2>2, <2>3 DEF FeatureAacs, DescriptorHeaderLen
<1>2. CASE ~IsAacs(f)
  <2>1. f \in [code : OtherCodes, length : OtherLens]
    BY <1>2 DEF FeatureType, IsAacs
  <2>2. f.code \in Nat /\ f.length \in Nat /\ f.code # 269
    <3>1. f.code \in OtherCodes /\ f.length \in OtherLens
      BY <2>1
    <3> QED
      BY <3>1, OthersAreNumbers, Zenon
  <2>3. PICK code \in Nat, length \in Nat : f.code = code /\ f.length = length /\ code # 269
    BY <2>2
  <2> DEFINE data == [n \in 1..length |-> IF n % 2 = 1 THEN FeatureAacs \div 256
                                                       ELSE FeatureAacs % 256]
  <2>4. data \in Seq(Nat) /\ Len(data) = length
    <3>1. FeatureAacs \div 256 \in Nat /\ FeatureAacs % 256 \in Nat
      BY DEF FeatureAacs
    <3> QED
      BY <3>1
  <2>5. FeatureBytes(f) = <<code \div 256, code % 256, 3, length>> \o data
    BY <1>2, <2>3 DEF FeatureBytes
  <2> HIDE DEF data
  <2>6. PICK b : b = FeatureBytes(f)
    OBVIOUS
  <2>7. b \in Seq(Nat) /\ Len(b) = 4 + length /\ 256 * b[1] + b[2] = code /\ b[4] = length
    BY <2>4, <2>5, <2>6, OtherBytes
  <2> QED
    BY <1>2, <2>3, <2>6, <2>7 DEF FeatureAacs, DescriptorHeaderLen
<1> QED
  BY <1>1, <1>2

\* upto[n] is the response of a drive with the first n features of a list.
Responses(fs, upto) ==
    /\ upto \in [0..Len(fs) -> Seq(Nat)]
    /\ upto[0] = FeatureHeader
    /\ \A n \in 1..Len(fs) : upto[n] = upto[n - 1] \o FeatureBytes(fs[n])

\* The Feature Header is what offset starts after.
LEMMA HeaderBytes == FeatureHeader \in Seq(Nat) /\ Len(FeatureHeader) = FeatureHeaderLen
BY DEF FeatureHeader, FeatureHeaderLen

\* A response is the last of such a function: the recursion exists.
LEMMA ResponseUpto ==
    ASSUME NEW fs \in Seq(FeatureType)
    PROVE  \E upto : Responses(fs, upto) /\ Response(fs) = upto[Len(fs)]
<1> DEFINE N == Len(fs)
           F(f) == [n \in 0..N |-> IF n = 0 THEN FeatureHeader
                                            ELSE f[n - 1] \o FeatureBytes(fs[n])]
           G == [n \in 1..N |-> [s \in Seq(Nat) |-> s \o FeatureBytes(fs[n])]]
           upto == CHOOSE f : f = F(f)
<1>1. ASSUME NEW s \in Seq(Nat), NEW n \in 1..N PROVE s \o FeatureBytes(fs[n]) \in Seq(Nat)
  <2>1. FeatureBytes(fs[n]) \in Seq(Nat)
    BY BytesOf
  <2> QED
    BY <2>1, ConcatProperties
<1>2. \E f : f = F(f)
  <2>1. G \in [1..N -> [Seq(Nat) -> Seq(Nat)]]
    BY <1>1
  <2>2. PICK base \in Seq(Nat) : base = FeatureHeader
    BY HeaderBytes
  <2>3. N \in Nat
    OBVIOUS
  <2> HIDE DEF N, G
  <2>4. PICK f \in [0..N -> Seq(Nat)] : IsRecursion(f, N, base, G)
    BY <2>1, <2>3, RecursionExists
  <2>5. ASSUME NEW n \in 0..N, n # 0 PROVE G[n][f[n - 1]] = f[n - 1] \o FeatureBytes(fs[n])
    <3>1. n \in 1..N /\ n - 1 \in 0..N
      BY <2>3, <2>5
    <3> QED
      BY <3>1 DEF G
  <2>6. f = F(f)
    BY <2>2, <2>4, <2>5 DEF IsRecursion
  <2> QED
    BY <2>6
<1>3. upto = F(upto)
  <2> HIDE DEF F
  <2> QED
    BY <1>2
<1> DEFINE S == {n \in Nat : n <= N => upto[n] \in Seq(Nat)}
<1> HIDE DEF upto
<1>4. 0 \in S
  BY <1>3, HeaderBytes
<1>5. ASSUME NEW n \in S PROVE n + 1 \in S
  <2>1. CASE n + 1 <= N
    <3>1. n + 1 \in 1..N /\ n \in 0..N /\ (n + 1) - 1 = n
      BY <2>1
    <3>2. upto[n + 1] = upto[n] \o FeatureBytes(fs[n + 1])
      <4>1. PICK k \in 1..N : k = n + 1 /\ k - 1 = n /\ k \in 0..N /\ k # 0
        BY <3>1
      <4>2. upto[k] = upto[k - 1] \o FeatureBytes(fs[k])
        BY <1>3, <4>1
      <4> QED
        BY <4>1, <4>2
    <3>3. upto[n] \in Seq(Nat)
      BY <3>1
    <3>4. upto[n + 1] \in Seq(Nat)
      BY <1>1, <3>1, <3>2, <3>3
    <3> QED
      BY <3>4
  <2> QED
    BY <2>1
<1>6. S = Nat
  <2>1. S \subseteq Nat
    OBVIOUS
  <2> HIDE DEF S
  <2> QED
    BY <1>4, <1>5, <2>1, SetInduction
<1>7. ASSUME NEW n \in 0..N PROVE upto[n] \in Seq(Nat)
  <2>1. n \in S /\ n <= N
    BY <1>6
  <2> QED
    BY <2>1
<1>8. Responses(fs, upto)
  <2>1. upto \in [0..N -> Seq(Nat)]
    BY <1>3, <1>7
  <2>2. ASSUME NEW n \in 1..N PROVE upto[n] = upto[n - 1] \o FeatureBytes(fs[n])
    <3>1. n \in 0..N /\ n # 0
      OBVIOUS
    <3> QED
      BY <1>3, <3>1
  <2>3. upto[0] = FeatureHeader
    BY <1>3
  <2> QED
    BY <2>1, <2>2, <2>3 DEF Responses
<1>9. Response(fs) = upto[N]
  BY DEF Response, upto
<1> QED
  BY <1>8, <1>9

\* A response with a feature more.
LEMMA Longer ==
    ASSUME NEW s \in Seq(Nat), NEW f \in FeatureType, NEW t, t = s \o FeatureBytes(f)
    PROVE  /\ t \in Seq(Nat) /\ Len(s) + 4 <= Len(t)
           /\ \A c \in 1..Len(s) : t[c] = s[c]
<1>1. PICK b \in Seq(Nat), z \in Nat : b = FeatureBytes(f) /\ Len(b) = 4 + z
  <2>1. FeatureBytes(f) \in Seq(Nat)
    BY BytesOf
  <2>2. FeatureBytes(f)[4] \in Nat /\ Len(FeatureBytes(f)) = 4 + FeatureBytes(f)[4]
    BY BytesOf DEF DescriptorHeaderLen
  <2> QED
    BY <2>1, <2>2
<1>2. t = s \o b
  BY <1>1
<1>3. /\ s \o b \in Seq(Nat) /\ Len(s \o b) = Len(s) + Len(b)
      /\ \A c \in 1..Len(s) : (s \o b)[c] = s[c]
  BY Joined
<1> QED
  BY <1>1, <1>2, <1>3

\* Each is the one before and the bytes of a feature.
LEMMA ResponseStep ==
    ASSUME NEW fs \in Seq(FeatureType), NEW upto, Responses(fs, upto), NEW n \in 1..Len(fs)
    PROVE  \E s \in Seq(Nat), t \in Seq(Nat), f \in FeatureType :
              /\ s = upto[n - 1] /\ t = upto[n] /\ f = fs[n] /\ t = s \o FeatureBytes(f)
<1>1. n \in 0..Len(fs) /\ n - 1 \in 0..Len(fs)
  OBVIOUS
<1>2. PICK s \in Seq(Nat), t \in Seq(Nat) : s = upto[n - 1] /\ t = upto[n]
  BY <1>1 DEF Responses
<1>3. PICK f \in FeatureType : f = fs[n]
  OBVIOUS
<1>4. upto[n] = upto[n - 1] \o FeatureBytes(fs[n])
  BY DEF Responses
<1> QED
  BY <1>2, <1>3, <1>4

\* A response begins with that of every drive with fewer of its features.
LEMMA ResponseBegins ==
    ASSUME NEW fs \in Seq(FeatureType), NEW upto, Responses(fs, upto),
           NEW m \in 0..Len(fs), NEW n \in 0..Len(fs), m <= n
    PROVE  /\ upto[m] \in Seq(Nat) /\ upto[n] \in Seq(Nat)
           /\ Len(upto[m]) <= Len(upto[n])
           /\ m < n => Len(upto[m]) + DescriptorHeaderLen <= Len(upto[n])
           /\ \A c \in 1..Len(upto[m]) : upto[n][c] = upto[m][c]
<1>0. ASSUME NEW k \in 1..Len(fs)
      PROVE  /\ Len(upto[k - 1]) + 4 <= Len(upto[k])
             /\ \A c \in 1..Len(upto[k - 1]) : upto[k][c] = upto[k - 1][c]
  <2>1. PICK s \in Seq(Nat), t \in Seq(Nat), f \in FeatureType :
           /\ s = upto[k - 1] /\ t = upto[k] /\ f = fs[k] /\ t = s \o FeatureBytes(f)
    BY ResponseStep
  <2>2. t = s \o FeatureBytes(f)
    BY <2>1
  <2>3. Len(s) + 4 <= Len(t) /\ \A c \in 1..Len(s) : t[c] = s[c]
    BY <2>2, Longer
  <2> QED
    BY <2>1, <2>3
<1> DEFINE Grows(d) == /\ Len(upto[m]) <= Len(upto[m + d])
                       /\ d > 0 => Len(upto[m]) + 4 <= Len(upto[m + d])
                       /\ \A c \in 1..Len(upto[m]) : upto[m + d][c] = upto[m][c]
           S == {d \in Nat : m + d <= Len(fs) => Grows(d)}
<1>1. \A k \in 0..Len(fs) : upto[k] \in Seq(Nat) /\ Len(upto[k]) \in Nat
  BY DEF Responses
<1>2. 0 \in S
  BY <1>1
<1>3. ASSUME NEW d \in S PROVE d + 1 \in S
  <2>1. SUFFICES ASSUME m + (d + 1) <= Len(fs) PROVE Grows(d + 1)
    OBVIOUS
  <2>2. PICK k \in 1..Len(fs) : k = m + (d + 1) /\ k - 1 = m + d /\ k - 1 \in 0..Len(fs)
    BY <2>1
  <2>3. Grows(d)
    BY <2>1
  <2>4. PICK x \in Nat, y \in Nat, z \in Nat :
           x = Len(upto[m]) /\ y = Len(upto[k - 1]) /\ z = Len(upto[k])
    BY <1>1, <2>2
  <2>5. z >= y + 4 /\ \A c \in 1..y : upto[k][c] = upto[k - 1][c]
    BY <1>0, <2>4
  <2>6. x <= y /\ \A c \in 1..x : upto[k - 1][c] = upto[m][c]
    BY <2>2, <2>3, <2>4
  <2>7. x <= z /\ x + 4 <= z /\ \A c \in 1..x : upto[k][c] = upto[m][c]
    <3>1. x <= y /\ z >= y + 4
      BY Zenon, <2>5, <2>6
    <3>2. x <= z /\ x + 4 <= z /\ \A c \in 1..x : c \in 1..y
      <4> HIDE DEF S, Grows
      <4> QED
        BY SMT, <3>1
    <3>3. \A c \in 1..x : upto[k][c] = upto[m][c]
      BY Zenon, <2>5, <2>6, <3>2
    <3> QED
      BY Zenon, <3>2, <3>3
  <2> QED
    BY <2>2, <2>4, <2>7
<1>4. S = Nat
  <2>1. S \subseteq Nat
    OBVIOUS
  <2> HIDE DEF S
  <2> QED
    BY <1>2, <1>3, <2>1, SetInduction
<1>5. Grows(n - m)
  <2>1. PICK d \in Nat : d = n - m /\ m + d = n
    OBVIOUS
  <2>2. d \in S /\ m + d <= Len(fs)
    <3> HIDE DEF S
    <3> QED
      BY <1>4, <2>1
  <2>3. Grows(d)
    BY <2>2
  <2> HIDE DEF Grows
  <2> QED
    BY <2>1, <2>3
<1>6. m + (n - m) = n /\ (m < n => n - m > 0)
  OBVIOUS
<1> QED
  BY <1>1, <1>5, <1>6 DEF DescriptorHeaderLen

\* The same as one relation of two responses.
BeginsWith(t, s) == \A c \in 1..Len(s) : t[c] = s[c]

LEMMA BeginsWithFewer ==
    ASSUME NEW fs \in Seq(FeatureType), NEW upto, Responses(fs, upto),
           NEW m \in 0..Len(fs), NEW n \in 0..Len(fs), m <= n
    PROVE  BeginsWith(upto[n], upto[m])
<1>1. \A c \in 1..Len(upto[m]) : upto[n][c] = upto[m][c]
  BY ResponseBegins
<1> QED
  BY <1>1 DEF BeginsWith

\* What the property calls the end of the first n features.
LEMMA ResponseOfFewer ==
    ASSUME NEW fs \in Seq(FeatureType), NEW upto, Responses(fs, upto), NEW n \in 0..Len(fs)
    PROVE  Response(SubSeq(fs, 1, n)) = upto[n]
<1>1. PICK gs \in Seq(FeatureType) :
         gs = SubSeq(fs, 1, n) /\ Len(gs) = n /\ \A k \in 1..n : gs[k] = fs[k]
  <2>1. 1 \in 1..(Len(fs) + 1) /\ n \in (1 - 1)..Len(fs) /\ (n - 1) + 1 = n
    OBVIOUS
  <2>2. SubSeq(fs, 1, n) \in Seq(FeatureType) /\ Len(SubSeq(fs, 1, n)) = n
    BY <2>1, SubSeqProperties
  <2>3. \A k \in 1..n : SubSeq(fs, 1, n)[k] = fs[k]
    BY <2>1
  <2> QED
    BY <2>2, <2>3
<1>2. PICK other : Responses(gs, other) /\ Response(gs) = other[n]
  BY <1>1, ResponseUpto
<1> DEFINE S == {k \in Nat : k <= n => other[k] = upto[k]}
<1>3. 0 \in S
  BY <1>2 DEF Responses
<1>4. ASSUME NEW k \in S PROVE k + 1 \in S
  <2>1. SUFFICES ASSUME k + 1 <= n PROVE other[k + 1] = upto[k + 1]
    OBVIOUS
  <2>2. PICK j \in 1..n : j = k + 1 /\ j - 1 = k /\ j \in 1..Len(fs)
    BY <2>1
  <2>3. other[j - 1] = upto[j - 1]
    BY <2>2
  <2>4. other[j] = other[j - 1] \o FeatureBytes(gs[j])
    BY <1>1, <1>2, <2>2 DEF Responses
  <2>5. upto[j] = upto[j - 1] \o FeatureBytes(fs[j])
    BY <2>2 DEF Responses
  <2> QED
    BY <1>1, <2>2, <2>3, <2>4, <2>5
<1>5. S = Nat
  <2>1. S \subseteq Nat
    OBVIOUS
  <2> HIDE DEF S
  <2> QED
    BY <1>3, <1>4, <2>1, SetInduction
<1>6. n \in S
  BY <1>5
<1> QED
  BY <1>1, <1>2, <1>6
-----------------------------------------------------------------------------
(* The walk *)

\* Where the features of the drive end in its response.
LEMMA Ends ==
    ASSUME features \in Seq(FeatureType)
    PROVE  /\ Response(features) \in Seq(Nat) /\ EndOf(0) = FeatureHeaderLen
           /\ EndOf(Len(features)) = Len(Response(features))
           /\ \A n \in 0..Len(features) : EndOf(n) \in Nat
           /\ \A m, n \in 0..Len(features) :
                 /\ m <= n => EndOf(m) <= EndOf(n)
                 /\ m < n => EndOf(m) + DescriptorHeaderLen <= EndOf(n)
<1>1. PICK upto : Responses(features, upto) /\ Response(features) = upto[Len(features)]
  BY ResponseUpto
<1>2. \A n \in 0..Len(features) : upto[n] \in Seq(Nat) /\ Response(SubSeq(features, 1, n)) = upto[n]
  <2>1. ASSUME NEW n \in 0..Len(features)
        PROVE  upto[n] \in Seq(Nat) /\ Response(SubSeq(features, 1, n)) = upto[n]
    BY <1>1, ResponseOfFewer DEF Responses
  <2> QED
    BY <2>1
<1>3. \A n \in 0..Len(features) : EndOf(n) = Len(upto[n])
  BY <1>2 DEF EndOf
<1>4. ASSUME NEW m \in 0..Len(features), NEW n \in 0..Len(features)
      PROVE  /\ m <= n => EndOf(m) <= EndOf(n)
             /\ m < n => EndOf(m) + DescriptorHeaderLen <= EndOf(n)
  <2>1. CASE m <= n
    <3>1. /\ Len(upto[m]) <= Len(upto[n])
          /\ m < n => Len(upto[m]) + DescriptorHeaderLen <= Len(upto[n])
      BY <1>1, <2>1, ResponseBegins
    <3> QED
      BY <1>3, <3>1
  <2> QED
    BY <2>1
<1>5. 0 \in 0..Len(features) /\ Len(features) \in 0..Len(features)
  OBVIOUS
<1>6. upto[0] = FeatureHeader
  BY <1>1 DEF Responses
<1>7. \A n \in 0..Len(features) : EndOf(n) \in Nat
  BY <1>2, <1>3
<1> QED
  BY <1>1, <1>2, <1>3, <1>4, <1>5, <1>6, <1>7, HeaderBytes

\* The bytes of a feature are in the response from the end of the one before.
LEMMA BytesAt ==
    ASSUME features \in Seq(FeatureType), NEW n \in 1..Len(features),
           NEW b, b = FeatureBytes(features[n])
    PROVE  /\ EndOf(n) = EndOf(n - 1) + Len(b)
           /\ \A c \in 1..Len(b) : Response(features)[EndOf(n - 1) + c] = b[c]
<1>1. PICK upto : Responses(features, upto) /\ Response(features) = upto[Len(features)]
  BY ResponseUpto
<1>2. PICK s \in Seq(Nat), t \in Seq(Nat), f \in FeatureType :
         /\ s = upto[n - 1] /\ t = upto[n] /\ f = features[n] /\ t = s \o FeatureBytes(f)
  <2>1. PICK fs \in Seq(FeatureType) : fs = features
    OBVIOUS
  <2>2. Responses(fs, upto) /\ n \in 1..Len(fs)
    BY <1>1, <2>1
  <2>3. \E s \in Seq(Nat), t \in Seq(Nat), f \in FeatureType :
           /\ s = upto[n - 1] /\ t = upto[n] /\ f = fs[n] /\ t = s \o FeatureBytes(f)
    BY <2>2, ResponseStep
  <2> QED
    BY <2>1, <2>3, Zenon
<1>3. EndOf(n - 1) = Len(s) /\ EndOf(n) = Len(t)
  <2>1. n - 1 \in 0..Len(features) /\ n \in 0..Len(features)
    OBVIOUS
  <2>2. Response(SubSeq(features, 1, n - 1)) = upto[n - 1]
    BY <1>1, <2>1, ResponseOfFewer
  <2>3. Response(SubSeq(features, 1, n)) = upto[n]
    BY <1>1, <2>1, ResponseOfFewer
  <2> QED
    BY <1>2, <2>2, <2>3 DEF EndOf
<1>4. PICK r \in Seq(Nat) : r = b
  BY BytesOf
<1>5. t = s \o r
  BY <1>2, <1>4
<1>6. /\ Len(s \o r) = Len(s) + Len(r)
      /\ \A c \in 1..Len(r) : (s \o r)[Len(s) + c] = r[c]
  BY Joined
<1>7. Len(t) = Len(s) + Len(r) /\ \A c \in 1..Len(r) : t[Len(s) + c] = r[c]
  BY <1>5, <1>6
<1>8. \A c \in 1..Len(t) : Response(features)[c] = t[c]
  <2>1. PICK fs \in Seq(FeatureType) : fs = features
    OBVIOUS
  <2>2. PICK last \in 0..Len(fs) : last = Len(fs) /\ n \in 0..Len(fs) /\ n <= last
    BY <2>1
  <2>3. Responses(fs, upto)
    BY <1>1, <2>1
  <2>4. BeginsWith(upto[last], upto[n])
    BY <2>2, <2>3, BeginsWithFewer
  <2> QED
    BY Zenon, <1>1, <1>2, <2>1, <2>2, <2>4 DEF BeginsWith
<1>9. \A c \in 1..Len(r) : Len(s) + c \in 1..Len(t)
  <2>1. PICK x \in Nat, y \in Nat : x = Len(s) /\ y = Len(r)
    OBVIOUS
  <2>2. \A c \in 1..y : x + c \in 1..(x + y)
    OBVIOUS
  <2> QED
    BY <1>7, <2>1, <2>2
<1> QED
  BY <1>3, <1>4, <1>7, <1>8, <1>9

\* What the property says of an outcome, when the host has so many bytes.
Exact(bytes, outcome) ==
    LET first == {n \in DOMAIN features :
                     IsAacs(features[n]) /\ \A m \in 1..(n - 1) : ~IsAacs(features[m])}
        whole == {n \in first : EndOf(n) <= bytes}
    IN  /\ whole # {} => \A n \in whole : outcome = Returned(features[n])
        /\ whole = {} => outcome.descriptor = NoFeature
        /\ outcome = Returned(NoFeature) =>
              \A n \in first : bytes < EndOf(n - 1) + DescriptorHeaderLen

\* The first n features are others.
Passed(n) == n \in 0..Len(features) /\ \A m \in 1..n : ~IsAacs(features[m])

\* What the host received begins the response, and a walk that goes on is at the
\* end of a feature of the drive, having passed others only.  Inside a feature
\* the bytes may say anything, so the property alone is not inductive.
FeatureInv ==
    /\ features \in Seq(FeatureType) /\ received \in Seq(Nat)
    /\ Len(received) <= Len(Response(features))
    /\ \A c \in 1..Len(received) : received[c] = Response(features)[c]
    /\ received # <<>> /\ found = Walking =>
          \E n : Passed(n) /\ offset = EndOf(n) /\ EndOf(n) <= Len(received)
    /\ FeatureWalkIsExact

\* The feature is denied where the walk ends.
LEMMA Denied ==
    ASSUME features \in Seq(FeatureType), NEW n, Passed(n), NEW bytes \in Nat,
           bytes < EndOf(n) + DescriptorHeaderLen
    PROVE  Exact(bytes, Returned(NoFeature))
<1>1. ASSUME NEW k \in 1..Len(features), IsAacs(features[k])
      PROVE  bytes < EndOf(k - 1) + DescriptorHeaderLen /\ ~(EndOf(k) <= bytes)
  <2>1. n \in 0..Len(features) /\ k \in 0..Len(features) /\ k - 1 \in 0..Len(features) /\ n <= k - 1
    BY <1>1 DEF Passed
  <2>2. PICK x \in Nat, y \in Nat, z \in Nat : x = EndOf(n) /\ y = EndOf(k - 1) /\ z = EndOf(k)
    BY <2>1, Ends
  <2>3. x <= y
    BY <2>1, <2>2, Ends
  <2>4. y + DescriptorHeaderLen <= z
    <3>1. k - 1 < k
      OBVIOUS
    <3>2. EndOf(k - 1) + DescriptorHeaderLen <= EndOf(k)
      BY <2>1, <3>1, Ends
    <3> QED
      BY <2>2, <3>2
  <2> QED
    BY <2>2, <2>3, <2>4 DEF DescriptorHeaderLen
<1>2. DOMAIN features = 1..Len(features)
  OBVIOUS
<1>3. Returned(NoFeature).descriptor = NoFeature
  BY DEF Returned
<1> QED
  BY <1>1, <1>2, <1>3 DEF Exact

\* A response that is cut off before the next feature ends is refused.
LEMMA CutOff ==
    ASSUME features \in Seq(FeatureType), NEW n, Passed(n), NEW bytes \in Nat,
           n < Len(features) => bytes < EndOf(n + 1), NEW error, error # "none"
    PROVE  Exact(bytes, Refusal(error))
<1>1. ASSUME NEW k \in 1..Len(features), IsAacs(features[k])
      PROVE  ~(EndOf(k) <= bytes)
  <2>1. n + 1 \in 0..Len(features) /\ k \in 0..Len(features) /\ n + 1 <= k /\ n < Len(features)
    BY <1>1 DEF Passed
  <2>2. PICK x \in Nat, y \in Nat : x = EndOf(n + 1) /\ y = EndOf(k)
    BY <2>1, Ends
  <2>3. x <= y
    BY <2>1, <2>2, Ends
  <2> QED
    BY <2>1, <2>2, <2>3
<1>2. DOMAIN features = 1..Len(features)
  OBVIOUS
<1>3. Refusal(error).descriptor = NoFeature /\ Refusal(error) # Returned(NoFeature)
  BY DEF Refusal, Returned
<1> QED
  BY <1>1, <1>2, <1>3 DEF Exact

\* The first AACS descriptor is what is returned.
LEMMA FoundFirst ==
    ASSUME features \in Seq(FeatureType), NEW n \in 1..Len(features), Passed(n - 1),
           IsAacs(features[n]), NEW bytes \in Nat, EndOf(n) <= bytes
    PROVE  Exact(bytes, Returned(features[n]))
<1>1. ASSUME NEW k \in 1..Len(features), IsAacs(features[k]),
             \A m \in 1..(k - 1) : ~IsAacs(features[m])
      PROVE  k = n
  <2>1. ~(k < n)
    BY <1>1 DEF Passed
  <2>2. ~(n < k)
    BY <1>1
  <2> QED
    BY <2>1, <2>2
<1>2. \A m \in 1..(n - 1) : ~IsAacs(features[m])
  BY DEF Passed
<1>3. DOMAIN features = 1..Len(features)
  OBVIOUS
<1>4. Returned(features[n]) # Returned(NoFeature)
  BY DescriptorsAssumption DEF Returned, IsAacs
<1> QED
  BY <1>1, <1>2, <1>3, <1>4 DEF Exact
-----------------------------------------------------------------------------
\* An outcome that is exact for the bytes received makes the property hold next.
LEMMA OutcomeIsKept ==
    ASSUME features' = features, received' = received,
           found' # Walking => Exact(Len(received), found')
    PROVE  FeatureWalkIsExact'
BY DEF FeatureWalkIsExact, Exact, EndOf

\* The walk leaves the bytes alone.
LEMMA BytesAreKept ==
    ASSUME FeatureInv, features' = features, received' = received
    PROVE  /\ features' \in Seq(FeatureType) /\ received' \in Seq(Nat)
           /\ Len(received') <= Len(Response(features'))
           /\ \A c \in 1..Len(received') : received'[c] = Response(features')[c]
BY DEF FeatureInv

\* The invariant holds at first and is kept by the drive's list growing, by the
\* command and by every round of the walk.
LEMMA InitFeatureInv == FeaturesInit => FeatureInv
<1> SUFFICES ASSUME FeaturesInit PROVE FeatureInv
  OBVIOUS
<1>1. features = <<>> /\ received = <<>> /\ found = Walking
  BY DEF FeaturesInit
<1>2. features \in Seq(FeatureType) /\ received \in Seq(Nat) /\ Len(received) = 0
  BY <1>1
<1>3. Len(Response(features)) \in Nat
  BY <1>2, Ends
<1> QED
  BY <1>1, <1>2, <1>3 DEF FeatureInv, FeatureWalkIsExact

LEMMA AddFeatureKeepsInv ==
    ASSUME FeatureInv, NEW f \in FeatureType, AddFeature(f)
    PROVE  FeatureInv'
<1>1. /\ received = <<>> /\ received' = <<>> /\ found' = Walking
      /\ features' = Append(features, f)
  BY DEF AddFeature
<1>2. features' \in Seq(FeatureType)
  BY <1>1 DEF FeatureInv
<1>3. PICK r \in Seq(Nat) : r = Response(features')
  <2>1. PICK fs \in Seq(FeatureType) : fs = features'
    BY <1>2
  <2>2. PICK upto : Responses(fs, upto) /\ Response(fs) = upto[Len(fs)]
    BY ResponseUpto
  <2>3. Len(fs) \in 0..Len(fs)
    OBVIOUS
  <2>4. Response(fs) \in Seq(Nat)
    BY <2>2, <2>3 DEF Responses
  <2> QED
    BY <2>1, <2>4
<1>4. received' \in Seq(Nat) /\ Len(received') = 0 /\ Len(received') <= Len(r)
  BY <1>1
<1> QED
  BY <1>1, <1>2, <1>3, <1>4 DEF FeatureInv, FeatureWalkIsExact

LEMMA GetConfigurationKeepsInv ==
    ASSUME FeatureInv, NEW n \in Nat, GetConfiguration(n)
    PROVE  FeatureInv'
<1>1. features \in Seq(FeatureType) /\ features' = features
  BY DEF FeatureInv, GetConfiguration
<1>2. PICK r \in Seq(Nat) : r = Response(features)
  BY <1>1, Ends
<1>3. PICK s \in Seq(Nat) : /\ s = received' /\ Len(s) = n /\ n <= Len(r)
                            /\ \A c \in 1..n : s[c] = r[c]
  <2>1. n \in 0..Len(r) /\ received' = SubSeq(r, 1, n)
    BY <1>2 DEF GetConfiguration
  <2>2. 1 \in 1..(Len(r) + 1) /\ n \in (1 - 1)..Len(r) /\ (n - 1) + 1 = n
    BY <2>1
  <2>3. SubSeq(r, 1, n) \in Seq(Nat) /\ Len(SubSeq(r, 1, n)) = n
    BY <2>2, SubSeqProperties
  <2>4. \A c \in 1..n : SubSeq(r, 1, n)[c] = r[c]
    BY <2>1
  <2>5. /\ received' \in Seq(Nat) /\ Len(received') = n
        /\ \A c \in 1..n : received'[c] = r[c]
    BY Zenon, <2>1, <2>3, <2>4
  <2>6. n <= Len(r)
    BY <2>1
  <2> QED
    BY Zenon, <2>5, <2>6
<1>4. Passed(0) /\ EndOf(0) = FeatureHeaderLen
  BY <1>1, Ends DEF Passed
<1>5. FeatureWalkIsExact'
  <2>1. CASE n < FeatureHeaderLen
    <3>1. 0 < Len(features) => n < EndOf(0 + 1)
      <4> SUFFICES ASSUME 0 < Len(features) PROVE n < EndOf(1)
        OBVIOUS
      <4>1. 0 \in 0..Len(features) /\ 1 \in 0..Len(features) /\ 0 <= 1
        BY <1>1
      <4>2. EndOf(0) <= EndOf(1) /\ EndOf(1) \in Nat
        BY <1>1, <4>1, Ends
      <4> QED
        BY <1>4, <2>1, <4>2 DEF FeatureHeaderLen
    <3>2. Exact(n, Refusal("Truncated"))
      BY <1>1, <1>4, <3>1, CutOff
    <3>3. found' = Refusal("Truncated") /\ Len(received') = n
      BY <1>3, <2>1 DEF GetConfiguration
    <3> QED
      BY <1>1, <3>2, <3>3 DEF FeatureWalkIsExact, Exact, EndOf
  <2>2. CASE ~(n < FeatureHeaderLen)
    BY <2>2 DEF GetConfiguration, FeatureWalkIsExact
  <2> QED
    BY <2>1, <2>2
<1>6. found' = Walking => offset' = EndOf(0) /\ EndOf(0) <= n
  BY <1>4 DEF GetConfiguration, FeatureHeaderLen, Walking, Refusal
<1>7. found' = Walking => \E m : Passed(m)' /\ offset' = EndOf(m)' /\ EndOf(m)' <= Len(received')
  <2>1. Passed(0)' /\ EndOf(0)' = EndOf(0)
    BY <1>1, <1>4 DEF Passed, EndOf
  <2> QED
    BY <1>3, <1>6, <2>1
<1> QED
  BY <1>1, <1>2, <1>3, <1>5, <1>7 DEF FeatureInv

LEMMA WalkKeepsInv ==
    ASSUME FeatureInv, Walk PROVE FeatureInv'
<1>1. /\ features \in Seq(FeatureType) /\ features' = features
      /\ received' = received /\ received # <<>> /\ found = Walking
  BY DEF FeatureInv, Walk
<1>2. PICK n : Passed(n) /\ offset = EndOf(n) /\ EndOf(n) <= Len(received)
  BY <1>1 DEF FeatureInv
<1>3. PICK r \in Seq(Nat), bytes \in Nat :
         /\ r = received /\ bytes = Len(r) /\ bytes <= Len(Response(features))
         /\ \A c \in 1..bytes : r[c] = Response(features)[c]
  BY DEF FeatureInv
<1>4. PICK x \in Nat : x = offset /\ x = EndOf(n) /\ x <= bytes
  BY <1>1, <1>2, <1>3, Ends DEF Passed
<1>5. CASE x + DescriptorHeaderLen > bytes
  <2>1. found' = Returned(NoFeature)
    BY <1>3, <1>4, <1>5 DEF Walk
  <2>2. bytes < EndOf(n) + DescriptorHeaderLen
    BY <1>4, <1>5 DEF DescriptorHeaderLen
  <2>3. Exact(bytes, Returned(NoFeature))
    BY <1>1, <1>2, <2>2, Denied
  <2>4. FeatureWalkIsExact'
    BY <1>1, <1>3, <2>1, <2>3, OutcomeIsKept
  <2>5. found' # Walking
    BY <2>1 DEF Returned, Walking
  <2> QED
    BY <1>1, <2>4, <2>5, BytesAreKept DEF FeatureInv
<1>6. CASE ~(x + DescriptorHeaderLen > bytes)
  <2>1. n < Len(features)
    <3>1. n \in 0..Len(features)
      BY <1>2 DEF Passed
    <3>2. n # Len(features)
      <4>1. EndOf(Len(features)) = Len(Response(features)) /\ Response(features) \in Seq(Nat)
        BY <1>1, Ends
      <4>2. PICK all \in Nat : all = Len(Response(features))
        BY <4>1
      <4>3. x + 4 <= bytes /\ bytes <= all
        BY <1>3, <1>6, <4>2 DEF DescriptorHeaderLen
      <4>4. x # all
        BY <4>3
      <4> QED
        BY <1>4, <4>1, <4>2, <4>4
    <3> QED
      BY <1>1, <3>1, <3>2
  <2>2. PICK k \in 1..Len(features) : k = n + 1 /\ k - 1 = n
    BY <1>2, <2>1 DEF Passed
  <2>3. PICK f \in FeatureType : f = features[k]
    BY <1>1
  <2>4. PICK b \in Seq(Nat), z \in Nat :
           /\ b = FeatureBytes(f) /\ z = b[4] /\ Len(b) = DescriptorHeaderLen + z
           /\ (256 * b[1] + b[2] = FeatureAacs) <=> IsAacs(f)
           /\ IsAacs(f) => ParseAacs(b) = Returned(f)
    BY BytesOf
  <2>5. /\ EndOf(k) = x + Len(b)
        /\ \A c \in 1..Len(b) : Response(features)[x + c] = b[c]
    <3>1. b = FeatureBytes(features[k])
      BY <2>3, <2>4
    <3>2. /\ EndOf(k) = EndOf(k - 1) + Len(b)
          /\ \A c \in 1..Len(b) : Response(features)[EndOf(k - 1) + c] = b[c]
      BY <1>1, <3>1, BytesAt
    <3>3. EndOf(k - 1) = x
      BY <1>4, <2>2
    <3> QED
      BY <3>2, <3>3
  <2>6. \A c \in 1..Len(b) : x + c <= bytes => Here(c) = b[c]
    <3> SUFFICES ASSUME NEW c \in 1..Len(b), x + c <= bytes PROVE Here(c) = b[c]
      OBVIOUS
    <3>1. x + c \in 1..bytes
      OBVIOUS
    <3>2. r[x + c] = Response(features)[x + c]
      BY <1>3, <3>1
    <3>3. Here(c) = r[x + c]
      BY <1>3, <1>4 DEF Here
    <3> QED
      BY <2>5, <3>2, <3>3
  <2>7. Here(1) = b[1] /\ Here(2) = b[2] /\ Here(4) = b[4]
    <3>1. 1 \in 1..Len(b) /\ 2 \in 1..Len(b) /\ 4 \in 1..Len(b)
      <4>1. PICK m \in Nat : m = Len(b) /\ m = 4 + z
        BY <2>4 DEF DescriptorHeaderLen
      <4>2. 1 \in 1..m /\ 2 \in 1..m /\ 4 \in 1..m
        BY <4>1
      <4> QED
        BY <4>1, <4>2
    <3>2. x + 1 <= bytes /\ x + 2 <= bytes /\ x + 4 <= bytes
      BY <1>6 DEF DescriptorHeaderLen
    <3> QED
      BY <2>6, <3>1, <3>2
  <2>8. DescriptorLen = Len(b)
    BY <2>4, <2>7 DEF DescriptorLen
  <2>9. PICK y \in Nat : y = Len(b) /\ DescriptorLen = y /\ EndOf(k) = x + y
    BY <2>5, <2>8
  <2>10. (256 * Here(1) + Here(2) = FeatureAacs) <=> IsAacs(f)
    BY <2>4, <2>7
  <2>11. /\ ~(offset + DescriptorHeaderLen > Len(received))
         /\ offset + DescriptorLen > Len(received) <=> x + y > bytes
    BY <1>3, <1>4, <1>6, <2>9
  <2>12. Passed(k - 1)
    BY <1>2, <2>2
  <2>13. CASE x + y > bytes
    <3>1. found' = Refusal("Truncated")
      BY <2>11, <2>13 DEF Walk
    <3>2. n < Len(features) => bytes < EndOf(n + 1)
      BY <2>2, <2>9, <2>13
    <3>3. Exact(bytes, Refusal("Truncated"))
      BY <1>1, <1>2, <3>2, CutOff
    <3>4. FeatureWalkIsExact'
      BY <1>1, <1>3, <3>1, <3>3, OutcomeIsKept
    <3>5. found' # Walking
      BY <3>1 DEF Refusal, Walking
    <3> QED
      BY <1>1, <3>4, <3>5, BytesAreKept DEF FeatureInv
  <2>14. CASE ~(x + y > bytes) /\ IsAacs(f)
    <3>1. found' = ParseAacs(SubSeq(received, offset + 1, offset + DescriptorLen))
      BY <2>10, <2>11, <2>14 DEF Walk
    <3>2. SubSeq(received, offset + 1, offset + DescriptorLen) = SubSeq(r, x + 1, x + y)
      BY <1>3, <1>4, <2>9
    <3>3. SubSeq(r, x + 1, x + y) = b
      <4>1. /\ x + 1 \in 1..(Len(r) + 1) /\ x + y \in ((x + 1) - 1)..Len(r)
            /\ ((x + y) - (x + 1)) + 1 = y
        <5>1. PICK l \in Nat : l = Len(r)
          OBVIOUS
        <5>2. x + y <= l
          BY <1>3, <1>4, <2>14, <5>1
        <5>3. /\ x + 1 \in 1..(l + 1) /\ x + y \in ((x + 1) - 1)..l
              /\ ((x + y) - (x + 1)) + 1 = y
          BY <5>2
        <5> QED
          BY <5>1, <5>3
      <4>2. PICK s \in Seq(Nat) : /\ s = SubSeq(r, x + 1, x + y) /\ Len(s) = y
                                  /\ \A c \in 1..y : s[c] = r[x + c]
        <5>1. /\ SubSeq(r, x + 1, x + y) \in Seq(Nat)
              /\ Len(SubSeq(r, x + 1, x + y)) = y
          <6>1. /\ SubSeq(r, x + 1, x + y) \in Seq(Nat)
                /\ Len(SubSeq(r, x + 1, x + y)) =
                      IF x + 1 <= x + y THEN (x + y) - (x + 1) + 1 ELSE 0
            BY <4>1, SubSeqProperties
          <6>2. (IF x + 1 <= x + y THEN (x + y) - (x + 1) + 1 ELSE 0) = y
            OBVIOUS
          <6> QED
            BY <6>1, <6>2
        <5>2. ASSUME NEW c \in 1..y PROVE SubSeq(r, x + 1, x + y)[c] = r[x + c]
          <6>1. c \in 1..((x + y) - (x + 1) + 1) /\ (x + 1) + c - 1 = x + c
            OBVIOUS
          <6>2. SubSeq(r, x + 1, x + y)[c] = r[(x + 1) + c - 1]
            BY <4>1, <6>1, SubSeqProperties
          <6> QED
            BY <6>1, <6>2
        <5> QED
          BY <5>1, <5>2
      <4>3. ASSUME NEW c \in 1..y PROVE s[c] = b[c]
        <5>1. x + c <= bytes /\ c \in 1..Len(b)
          BY <2>9, <2>14
        <5>2. Here(c) = b[c]
          BY <2>6, <5>1
        <5>3. Here(c) = r[x + c]
          BY <1>3, <1>4 DEF Here
        <5> QED
          BY <4>2, <5>2, <5>3
      <4>4. s = b
        BY <2>9, <4>2, <4>3, Same
      <4> QED
        BY <4>2, <4>4
    <3>4. found' = Returned(features[k])
      BY <2>3, <2>4, <2>14, <3>1, <3>2, <3>3
    <3>5. EndOf(k) <= bytes /\ IsAacs(features[k])
      BY <2>3, <2>9, <2>14
    <3>6. Exact(bytes, Returned(features[k]))
      BY <1>1, <2>12, <3>5, FoundFirst
    <3>7. FeatureWalkIsExact'
      BY <1>1, <1>3, <3>4, <3>6, OutcomeIsKept
    <3>8. found' # Walking
      BY <3>4 DEF Returned, Walking
    <3> QED
      BY <1>1, <3>7, <3>8, BytesAreKept DEF FeatureInv
  <2>15. CASE ~(x + y > bytes) /\ ~IsAacs(f)
    <3>1. offset' = offset + DescriptorLen /\ found' = found
      BY <2>10, <2>11, <2>15 DEF Walk
    <3>2. offset' = EndOf(k) /\ EndOf(k) <= Len(received)
      <4>1. offset' = x + y
        BY <1>4, <2>9, <3>1
      <4>2. x + y <= bytes
        BY <2>15
      <4> QED
        BY <1>3, <2>9, <4>1, <4>2
    <3>3. Passed(k)
      BY <1>2, <2>2, <2>3, <2>15 DEF Passed
    <3>4. FeatureWalkIsExact'
      BY <1>1, <3>1, OutcomeIsKept
    <3>5. Passed(k)' /\ offset' = EndOf(k)' /\ EndOf(k)' <= Len(received')
      BY <1>1, <3>2, <3>3 DEF Passed, EndOf
    <3> QED
      BY <1>1, <3>4, <3>5, BytesAreKept DEF FeatureInv
  <2> QED
    BY <2>13, <2>14, <2>15
<1> QED
  BY <1>5, <1>6

LEMMA StepFeatureInv == FeatureInv /\ [FeaturesNext]_featureVars => FeatureInv'
<1> SUFFICES ASSUME FeatureInv, [FeaturesNext]_featureVars PROVE FeatureInv'
  OBVIOUS
<1>1. ASSUME NEW n \in 0..(FeatureHeaderLen + 12 * MaxFeatures), GetConfiguration(n)
      PROVE  FeatureInv'
  <2>1. n \in Nat
    BY DEF GetConfiguration
  <2> QED
    BY <1>1, <2>1, GetConfigurationKeepsInv
<1>2. CASE UNCHANGED featureVars
  <2>1. UNCHANGED <<features, received, offset, found>>
    BY <1>2 DEF featureVars
  <2> QED
    BY <2>1 DEF FeatureInv, FeatureWalkIsExact, Passed, EndOf
<1> QED
  BY <1>1, <1>2, AddFeatureKeepsInv, WalkKeepsInv DEF FeaturesNext

\* find_aacs_feature_descriptor returns the drive's first AACS descriptor field
\* for field when the host received all of it, never other bytes for one, and
\* denies the feature only where no more than a part of a descriptor header of it
\* was received: for every list of features, whatever their bytes spell, and for
\* every length the response is cut to.
THEOREM WalkIsExact == DriveSpec => []FeatureWalkIsExact
<1>1. FeaturesInit => FeatureInv
  BY InitFeatureInv
<1>2. FeatureInv /\ [FeaturesNext]_featureVars => FeatureInv'
  BY StepFeatureInv
<1>3. FeatureInv => FeatureWalkIsExact
  BY DEF FeatureInv
<1> QED
  BY <1>1, <1>2, <1>3, PartsOfTheDrive, PTL
-----------------------------------------------------------------------------
(* Commands through their CDBs *)

\* Numbers that are a u16 or a u32: its top byte is one.
IsU16(n) == n \div 256 < 256
IsU32(n) == n \div 16777216 < 256

\* A command whose fields have the widths its CDB gives them.
Encodable(c) ==
    /\ c \in [opcode : Nat, class : Nat, format : Nat, agid : Nat, address : Nat,
              count : Nat, length : Nat, control : Nat]
    /\ IF c.opcode \in KeyOpcodes THEN c.format < 64 ELSE c.class < 16
    /\ c.opcode # RK /\ c.opcode # RDS => c.address = 0 /\ c.count = 0
    /\ c.agid < 4 /\ IsU32(c.address) /\ IsU16(c.length)

\* The elements of twelve bytes written out.
LEMMA Twelve ==
    ASSUME NEW a, NEW b, NEW c, NEW d, NEW e, NEW f, NEW g, NEW h, NEW j, NEW k, NEW m, NEW n,
           NEW s, s = <<a, b, c, d, e, f, g, h, j, k, m, n>>
    PROVE  /\ s[1] = a /\ s[2] = b /\ s[3] = c /\ s[4] = d /\ s[5] = e /\ s[6] = f
           /\ s[7] = g /\ s[8] = h /\ s[9] = j /\ s[10] = k /\ s[11] = m /\ s[12] = n
OBVIOUS

\* Big-endian fields are read as they were written.
LEMMA LowByte ==
    ASSUME NEW n \in Nat
    PROVE  \E a \in Nat, r \in Nat :
              /\ a = n \div 256 /\ r = n % 256 /\ r < 256 /\ n = 256 * a + r
<1>1. n \div 256 \in Nat /\ n % 256 \in 0..(256 - 1) /\ n = ((n \div 256) * 256) + (n % 256)
  BY Division
<1>2. n % 256 \in Nat /\ n % 256 < 256
  BY <1>1
<1> QED
  BY <1>1, <1>2

LEMMA Word ==
    ASSUME NEW n \in Nat, IsU16(n)
    PROVE  /\ Byte(n, 256) \in Nat /\ Byte(n, 1) \in Nat
           /\ 256 * Byte(n, 256) + Byte(n, 1) = n
<1>1. PICK a \in Nat, r \in Nat : a = n \div 256 /\ r = n % 256 /\ r < 256 /\ n = 256 * a + r
  BY LowByte
<1>2. n \div 1 = n
  OBVIOUS
<1>3. a < 256
  BY <1>1 DEF IsU16
<1>4. a % 256 = a
  BY <1>3
<1>5. Byte(n, 256) = a /\ Byte(n, 1) = r
  BY <1>1, <1>2, <1>4 DEF Byte
<1>6. n = 256 * a + r
  BY <1>1
<1> QED
  BY SMT, <1>5, <1>6

LEMMA DoubleWord ==
    ASSUME NEW n \in Nat, IsU32(n)
    PROVE  /\ Byte(n, 16777216) \in Nat /\ Byte(n, 65536) \in Nat
           /\ Byte(n, 256) \in Nat /\ Byte(n, 1) \in Nat
           /\ 16777216 * Byte(n, 16777216) + 65536 * Byte(n, 65536)
                + 256 * Byte(n, 256) + Byte(n, 1) = n
<1>1. PICK a \in Nat, r \in Nat : a = n \div 256 /\ r = n % 256 /\ r < 256 /\ n = 256 * a + r
  BY SMT, LowByte
<1>2. PICK b \in Nat, s \in Nat : b = a \div 256 /\ s = a % 256 /\ s < 256 /\ a = 256 * b + s
  BY SMT, LowByte
<1>3. PICK c \in Nat, t \in Nat : c = b \div 256 /\ t = b % 256 /\ t < 256 /\ b = 256 * c + t
  BY SMT, LowByte
<1>4. n \div 1 = n
  BY SMT
<1>5. n \div 65536 = b
  <2>1. n = 65536 * b + (256 * s + r) /\ 256 * s + r < 65536
    BY SMT, <1>1, <1>2
  <2> QED
    BY SMT, <2>1
<1>6. n \div 16777216 = c
  <2>1. n = 16777216 * c + (65536 * t + 256 * s + r) /\ 65536 * t + 256 * s + r < 16777216
    BY SMT, <1>1, <1>2, <1>3
  <2> QED
    BY SMT, <2>1
<1>7. c % 256 = c
  BY SMT, <1>6 DEF IsU32
<1>8. Byte(n, 16777216) = c /\ Byte(n, 65536) = t /\ Byte(n, 256) = s /\ Byte(n, 1) = r
  BY SMT, <1>1, <1>2, <1>3, <1>4, <1>5, <1>6, <1>7 DEF Byte
<1>9. n = 16777216 * c + 65536 * t + 256 * s + r
  BY SMT, <1>1, <1>2, <1>3
<1> QED
  BY SMT, <1>8, <1>9

\* What the drive parses is the command the host built.
LEMMA CdbReadBack ==
    ASSUME NEW c, Encodable(c) PROVE ParseCdb(Cdb(c)) = c
<1>1. PICK opcode \in Nat, class \in Nat, format \in Nat, agid \in Nat, address \in Nat,
           count \in Nat, length \in Nat, control \in Nat :
         /\ c.opcode = opcode /\ c.class = class /\ c.format = format /\ c.agid = agid
         /\ c.address = address /\ c.count = count /\ c.length = length /\ c.control = control
  <2>1. /\ c.opcode \in Nat /\ c.class \in Nat /\ c.format \in Nat /\ c.agid \in Nat
        /\ c.address \in Nat /\ c.count \in Nat /\ c.length \in Nat /\ c.control \in Nat
    BY SMT DEF Encodable
  <2> QED
    BY Zenon, <2>1
<1>2. c = [opcode |-> opcode, class |-> class, format |-> format, agid |-> agid,
           address |-> address, count |-> count, length |-> length, control |-> control]
  BY SMT, <1>1 DEF Encodable
<1>3. /\ opcode # RK /\ opcode # RDS => address = 0 /\ count = 0
      /\ agid < 4 /\ IsU32(address) /\ IsU16(length)
  BY SMT, <1>1 DEF Encodable
<1>4. agid % 4 = agid
  BY SMT, <1>3
<1>5. /\ Byte(address, 16777216) \in Nat /\ Byte(address, 65536) \in Nat
      /\ Byte(address, 256) \in Nat /\ Byte(address, 1) \in Nat
      /\ 16777216 * Byte(address, 16777216) + 65536 * Byte(address, 65536)
           + 256 * Byte(address, 256) + Byte(address, 1) = address
  BY SMT, <1>3, DoubleWord
<1>6. PICK a1 \in Nat, a2 \in Nat : a1 = Byte(address, 16777216) /\ a2 = Byte(address, 65536)
  BY SMT, <1>5
<1>7. PICK a3 \in Nat, a4 \in Nat : a3 = Byte(address, 256) /\ a4 = Byte(address, 1)
  BY SMT, <1>5
<1>8. /\ a1 = Byte(address, 16777216) /\ a2 = Byte(address, 65536)
      /\ a3 = Byte(address, 256) /\ a4 = Byte(address, 1)
      /\ 16777216 * a1 + 65536 * a2 + 256 * a3 + a4 = address
  BY SMT, <1>5, <1>6, <1>7
<1>9. PICK l1 \in Nat, l2 \in Nat :
         l1 = Byte(length, 256) /\ l2 = Byte(length, 1) /\ 256 * l1 + l2 = length
  <2>1. /\ Byte(length, 256) \in Nat /\ Byte(length, 1) \in Nat
        /\ 256 * Byte(length, 256) + Byte(length, 1) = length
    BY SMT, <1>3, Word
  <2> QED
    BY SMT, <2>1
<1>10. CASE opcode \in KeyOpcodes
  <2>1. format < 64
    BY SMT, <1>1, <1>10 DEF Encodable
  <2>2. format % 64 = format
    BY SMT, <2>1
  <2>3. PICK x \in Nat : x = 64 * agid + format /\ x % 64 = format /\ x \div 64 = agid
    BY SMT, <2>1
  <2>4. KeyCdb(c) = <<opcode, 0, a1, a2, a3, a4, count, class, l1, l2, x, control>>
    BY SMT, <1>1, <1>4, <1>8, <1>9, <2>2, <2>3 DEF KeyCdb
  <2>5. PICK b : /\ b = KeyCdb(c) /\ b[1] = opcode /\ b[3] = a1 /\ b[4] = a2 /\ b[5] = a3
                 /\ b[6] = a4 /\ b[7] = count /\ b[8] = class /\ b[9] = l1 /\ b[10] = l2
                 /\ b[11] = x /\ b[12] = control
    BY SMT, <2>4, Twelve
  <2>6. Cdb(c) = b
    BY SMT, <1>1, <1>10, <2>5 DEF Cdb
  <2>7. AddressIn(b) = address /\ LengthIn(b) = length
    BY SMT, <1>8, <1>9, <2>5 DEF AddressIn, LengthIn
  <2>8. /\ (IF opcode = RK THEN address ELSE 0) = address
        /\ (IF opcode = RK THEN count ELSE 0) = count
    BY SMT, <1>3, <1>10 DEF KeyOpcodes, RK, SK, RDS
  <2>9. ParseKey(b) = c
    BY SMT, <1>2, <2>3, <2>5, <2>7, <2>8 DEF ParseKey
  <2> QED
    BY SMT, <1>10, <2>5, <2>6, <2>9 DEF ParseCdb
<1>11. CASE opcode \notin KeyOpcodes
  <2>1. class < 16
    BY SMT, <1>1, <1>11 DEF Encodable
  <2>2. class % 16 = class
    BY SMT, <2>1
  <2>3. PICK x \in Nat : x = 64 * agid /\ x \div 64 = agid
    BY SMT
  <2>4. DiscCdb(c) = <<opcode, class, a1, a2, a3, a4, count, format, l1, l2, x, control>>
    BY SMT, <1>1, <1>4, <1>8, <1>9, <2>2, <2>3 DEF DiscCdb
  <2>5. PICK b : /\ b = DiscCdb(c) /\ b[1] = opcode /\ b[2] = class /\ b[3] = a1 /\ b[4] = a2
                 /\ b[5] = a3 /\ b[6] = a4 /\ b[7] = count /\ b[8] = format /\ b[9] = l1
                 /\ b[10] = l2 /\ b[11] = x /\ b[12] = control
    BY SMT, <2>4, Twelve
  <2>6. Cdb(c) = b
    BY SMT, <1>1, <1>11, <2>5 DEF Cdb
  <2>7. AddressIn(b) = address /\ LengthIn(b) = length
    BY SMT, <1>8, <1>9, <2>5 DEF AddressIn, LengthIn
  <2>8. /\ (IF opcode = RDS THEN address ELSE 0) = address
        /\ (IF opcode = RDS THEN count ELSE 0) = count
    BY SMT, <1>3, <1>11 DEF KeyOpcodes, RK
  <2>9. ParseDisc(b) = c
    BY SMT, <1>2, <2>2, <2>3, <2>5, <2>7, <2>8 DEF ParseDisc
  <2> QED
    BY SMT, <1>11, <2>5, <2>6, <2>9 DEF ParseCdb
<1> QED
  BY SMT, <1>10, <1>11
-----------------------------------------------------------------------------
(* The CPRM Media Key Block *)

\* The packs are asked for at their addresses.
LEMMA PackAddress ==
    ASSUME NEW n \in 0..255 PROVE ParseCdb(Cdb(CprmPack(n))).address = n
<1>1. CprmPack(n) = [opcode |-> RDS, class |-> Bd, format |-> 134, agid |-> 0, address |-> n,
                     count |-> 0, length |-> 4 + PackLen, control |-> 0]
  BY SMT DEF CprmPack, Command, KeyOpcodes, RDS, RK, SK
<1>2. IsU32(n) /\ n \in Nat
  BY SMT DEF IsU32
<1>3. PICK length \in Nat : length = 4 + PackLen /\ IsU16(length)
  <2>1. PICK length \in Nat : length = 4 + PackLen /\ length < 65536
    BY SMT, PacksAssumption
  <2>2. PICK a \in Nat, r \in Nat : a = length \div 256 /\ r < 256 /\ length = 256 * a + r
    BY SMT, LowByte
  <2> QED
    BY SMT, <2>1, <2>2 DEF IsU16
<1>4. Encodable(CprmPack(n))
  BY SMT, <1>1, <1>2, <1>3 DEF Encodable, KeyOpcodes, RDS, RK, SK, Bd
<1>5. ParseCdb(Cdb(CprmPack(n))) = CprmPack(n)
  BY <1>4, CdbReadBack
<1> QED
  BY <1>1, <1>5

\* Enough packs, and none too many.
LEMMA TotalIsCeiling ==
    ASSUME mkb_len \in Nat
    PROVE  /\ TotalPacks \in Nat
           /\ TotalPacks * PackLen >= mkb_len /\ TotalPacks * PackLen < mkb_len + PackLen
<1>1. PICK p \in Nat \ {0} : p = PackLen
  BY PacksAssumption
<1>2. PICK n \in Nat : n = mkb_len + p - 1
  BY <1>1
<1>3. n \div p \in Nat /\ n % p \in 0..(p - 1) /\ n = ((n \div p) * p) + (n % p)
  BY Division
<1>4. PICK x \in Nat : x = (n \div p) * p
  BY <1>3
<1>5. x >= mkb_len /\ x < mkb_len + p
  BY <1>2, <1>3, <1>4
<1> QED
  BY <1>1, <1>2, <1>3, <1>4, <1>5 DEF TotalPacks

Blocks == {Padding} \cup {MkbBlock(n) : n \in Nat} \cup {<<"cmac", k, "MKB_Hash">> : k \in SessionKeys}

\* The n-th block a host should have.
BlockDue(n) ==
    IF n = 1 THEN IF first_under = Static THEN MkbBlock(1) ELSE <<"cmac", first_under, "MKB_Hash">>
    ELSE IF n <= mkb_len THEN MkbBlock(n) ELSE Padding

\* Pack 0 was had in a session or in the static mode, and pack after pack is
\* what it should be; none beyond the total.
CprmInv ==
    /\ auth \in SessionKeys \cup {Static, Unkeyed} /\ mkb_len \in Nat
    /\ packs \in Seq([1..PackLen -> Blocks])
    /\ IF total = -1 THEN packs = <<>>
       ELSE total = TotalPacks /\ total <= PackMax /\ Len(packs) <= total
    /\ packs # <<>> => first_under \in SessionKeys \cup {Static}
    /\ \A p \in 1..Len(packs) : \A n \in 1..PackLen :
          packs[p][n] = BlockDue(PackLen * (p - 1) + n)

\* A pack of the total, asked for in a session or in the static mode, comes
\* whole.
LEMMA PackComes ==
    ASSUME mkb_len \in Nat, auth \in SessionKeys \cup {Static, Unkeyed}, TotalPacks <= PackMax,
           NEW index \in Nat, index < TotalPacks
    PROVE  /\ index = 0 /\ auth = Unkeyed => CprmBody(CprmResponse(index)) = <<>>
           /\ index # 0 \/ auth # Unkeyed =>
                 /\ CprmBody(CprmResponse(index)) = Pack(index)
                 /\ Pack(index) \in [1..PackLen -> Blocks] /\ Pack(index) # <<>>
<1>1. ~(TotalPacks > PackMax) /\ index # HeaderOnly /\ ~(index >= TotalPacks)
  <2>1. TotalPacks \in Nat
    BY TotalIsCeiling
  <2> QED
    BY <2>1, PacksAssumption DEF HeaderOnly
<1>2. CASE index = 0 /\ auth = Unkeyed
  <2>1. CprmResponse(index) = Error
    BY <1>1, <1>2 DEF CprmResponse
  <2>2. Error.status = "error"
    BY DEF Error, NoData, Good
  <2> QED
    BY <1>2, <2>1, <2>2 DEF CprmBody
<1>3. CASE ~(index = 0 /\ auth = Unkeyed)
  <2>1. PICK start \in Nat : start = PackLen * index
    BY PacksAssumption
  <2>2. start = 0 <=> index = 0
    BY <2>1, PacksAssumption
  <2>3. ASSUME NEW n \in 1..PackLen
        PROVE  (IF start + n > mkb_len THEN Padding ELSE IF start + n = 1 THEN MacBlock
                ELSE MkbBlock(start + n)) \in Blocks
    <3>1. start + n \in Nat /\ 1 \in Nat
      BY <2>1, PacksAssumption
    <3>2. MacBlock \in Blocks
      BY <3>1 DEF MacBlock, HasKey, Blocks
    <3> QED
      BY <3>1, <3>2 DEF Blocks
  <2>4. Pack(index) = [n \in 1..PackLen |->
            IF start + n > mkb_len THEN Padding ELSE IF start + n = 1 THEN MacBlock
            ELSE MkbBlock(start + n)]
    BY <2>1 DEF Pack
  <2>5. Pack(index) \in [1..PackLen -> Blocks]
    BY <2>3, <2>4
  <2>6. PICK body \in Seq(Blocks) : body = Pack(index) /\ Len(body) = PackLen
    BY <2>5, PacksAssumption
  <2>7. body # <<>>
    BY <2>6, PacksAssumption
  <2>8. /\ CprmResponse(index).status = "good" /\ CprmResponse(index).fields = body
    BY <1>1, <1>3, <2>6 DEF CprmResponse, Good
  <2>9. CprmBody(CprmResponse(index)) = body
    BY <2>6, <2>8 DEF CprmBody
  <2> QED
    BY <1>3, <2>5, <2>6, <2>7, <2>9
<1> QED
  BY <1>2, <1>3

\* The pack asked for comes, and is the next one.
LEMMA FetchPackKeepsInv ==
    ASSUME CprmInv, FetchPack PROVE CprmInv'
<1>1. /\ auth \in SessionKeys \cup {Static, Unkeyed} /\ mkb_len \in Nat
      /\ packs \in Seq([1..PackLen -> Blocks]) /\ total = TotalPacks /\ total <= PackMax
      /\ UNCHANGED <<auth, mkb_len, total>>
  <2>1. total # -1
    <3>1. packs \in Seq([1..PackLen -> Blocks])
      BY DEF CprmInv
    <3>2. Len(packs) \in Nat
      BY <3>1
    <3>3. total > Len(packs)
      BY DEF FetchPack
    <3> QED
      BY <3>2, <3>3
  <2>2. UNCHANGED <<auth, mkb_len, total>>
    BY DEF FetchPack
  <2> QED
    BY <2>1, <2>2 DEF CprmInv
<1>2. PICK index \in 0..255 : index = Len(packs) /\ index < TotalPacks
  <2>0. \A n \in Nat : n <= 255 => n \in 0..255
    BY SMT
  <2>1. Len(packs) < TotalPacks /\ TotalPacks <= PackMax
    BY <1>1 DEF FetchPack
  <2>2. PICK x \in Nat, y \in Nat : x = Len(packs) /\ y = TotalPacks
    BY <1>1, TotalIsCeiling
  <2>3. PICK z \in Nat : z = PackMax /\ z <= 255
    BY PacksAssumption
  <2>4. x < y /\ y <= z
    BY <2>1, <2>2, <2>3
  <2>5. x <= 255 /\ x < y
    BY <2>3, <2>4
  <2>6. x \in 0..255
    BY Zenon, <2>0, <2>5
  <2> QED
    BY Zenon, <2>2, <2>5, <2>6
<1>3. /\ CprmBody(CprmResponse(index)) # <<>>
      /\ packs' = Append(packs, CprmBody(CprmResponse(index)))
      /\ first_under' = IF packs = <<>> THEN auth ELSE first_under
  BY <1>2, PackAddress DEF FetchPack
<1>4. index # 0 \/ auth # Unkeyed
  BY <1>1, <1>2, <1>3, PackComes
<1>5. CprmBody(CprmResponse(index)) = Pack(index) /\ Pack(index) \in [1..PackLen -> Blocks]
  <2>1. TotalPacks <= PackMax /\ index \in Nat /\ index < TotalPacks
    BY <1>1, <1>2
  <2> QED
    BY Zenon, <1>1, <1>4, <2>1, PackComes
<1>6. /\ packs' \in Seq([1..PackLen -> Blocks]) /\ Len(packs') = index + 1
      /\ packs'[index + 1] = Pack(index)
      /\ \A p \in 1..index : packs'[p] = packs[p]
  <2>1. PICK S : S = [1..PackLen -> Blocks]
    OBVIOUS
  <2>2. PICK s \in Seq(S), e \in S : s = packs /\ e = Pack(index)
    BY Zenon, <1>1, <1>5, <2>1
  <2>3. packs' = Append(s, e)
    BY Zenon, <1>3, <1>5, <2>2
  <2>4. /\ Append(s, e) \in Seq(S) /\ Len(Append(s, e)) = Len(s) + 1
        /\ Append(s, e)[Len(s) + 1] = e
        /\ \A p \in 1..Len(s) : Append(s, e)[p] = s[p]
    BY SMT
  <2>5. Len(s) = index
    BY Zenon, <1>2, <2>2
  <2> QED
    BY Zenon, <2>1, <2>2, <2>3, <2>4, <2>5
<1>7. packs = <<>> <=> index = 0
  BY <1>1, <1>2
<1>8. first_under' \in SessionKeys \cup {Static}
  BY <1>1, <1>3, <1>4, <1>7 DEF CprmInv
<1>9. index > 0 => UNCHANGED first_under
  BY <1>3, <1>7
<1>10. mkb_len >= 1
  <2>1. PICK p \in Nat \ {0} : p = PackLen
    BY PacksAssumption
  <2>2. PICK t \in Nat : t = TotalPacks /\ t >= 1 /\ t * p < mkb_len + p
    <3>1. TotalPacks \in Nat /\ TotalPacks * PackLen < mkb_len + PackLen
      BY <1>1, TotalIsCeiling
    <3>2. PICK t \in Nat : t = TotalPacks /\ index < t
      BY <1>2, <3>1
    <3>3. t >= 1 /\ t * p < mkb_len + p
      BY <2>1, <3>1, <3>2
    <3> QED
      BY <3>2, <3>3
  <2>3. 1 * p <= t * p
    BY <2>2, Monotone
  <2>4. PICK x \in Nat : x = t * p
    OBVIOUS
  <2> QED
    BY <1>1, <2>2, <2>3, <2>4
<1>11. ASSUME NEW p \in 1..(index + 1), NEW n \in 1..PackLen
       PROVE  packs'[p][n] = BlockDue(PackLen * (p - 1) + n)'
  <2>1. CASE p <= index
    <3>1. packs'[p] = packs[p] /\ packs[p][n] = BlockDue(PackLen * (p - 1) + n)
      <4>1. p \in 1..index
        BY <2>1
      <4>2. p \in 1..Len(packs) /\ packs'[p] = packs[p]
        BY Zenon, <1>2, <1>6, <4>1
      <4> QED
        BY Zenon, <4>2 DEF CprmInv
    <3>2. UNCHANGED <<first_under, mkb_len>>
      BY <1>1, <1>9, <2>1
    <3> QED
      BY <3>1, <3>2 DEF BlockDue
  <2>2. CASE p = index + 1
    <3>0. PICK start \in Nat : start = PackLen * index /\ (start = 0 <=> index = 0)
      <4>1. PICK start \in Nat : start = PackLen * index
        BY PacksAssumption
      <4>2. start = 0 <=> index = 0
        BY <4>1, PacksAssumption
      <4> QED
        BY <4>1, <4>2
    <3>1. PICK b \in Nat : /\ b = start + n /\ b = PackLen * (p - 1) + n
                           /\ start = PackLen * index /\ (start = 0 <=> index = 0)
      <4>1. p - 1 = index
        BY <2>2
      <4>2. start + n \in Nat
        OBVIOUS
      <4> QED
        BY <3>0, <4>1, <4>2
    <3>2. packs'[p][n] = IF b > mkb_len THEN Padding ELSE IF b = 1 THEN MacBlock ELSE MkbBlock(b)
      <4>1. Pack(index) = [c \in 1..PackLen |->
               IF start + c > mkb_len THEN Padding ELSE IF start + c = 1 THEN MacBlock
               ELSE MkbBlock(start + c)]
        BY Zenon, <3>1 DEF Pack
      <4>2. Pack(index)[n] = IF b > mkb_len THEN Padding ELSE IF b = 1 THEN MacBlock
                             ELSE MkbBlock(b)
        BY Zenon, <3>1, <4>1
      <4>3. packs'[p] = Pack(index)
        BY Zenon, <1>6, <2>2
      <4> QED
        BY Zenon, <4>2, <4>3
    <3>3. b = 1 => packs = <<>>
      <4>1. b = 1 => start = 0
        BY <3>1
      <4> QED
        BY <1>7, <3>1, <4>1
    <3>6. BlockDue(PackLen * (p - 1) + n)' = BlockDue(b)'
      BY <3>1
    <3>4. CASE b = 1
      <4>1. packs'[p][n] = MacBlock /\ first_under' = auth
        BY <1>1, <1>3, <1>10, <3>2, <3>3, <3>4
      <4>2. auth \in SessionKeys \cup {Static}
        BY <1>8, <4>1
      <4>3. MacBlock = IF auth = Static THEN MkbBlock(1) ELSE <<"cmac", auth, "MKB_Hash">>
        BY <4>2, ModesAssumption DEF MacBlock, HasKey
      <4> QED
        BY <3>4, <3>6, <4>1, <4>3 DEF BlockDue
    <3>5. CASE b # 1
      <4>1. (IF b > mkb_len THEN Padding ELSE MkbBlock(b)) = IF b <= mkb_len THEN MkbBlock(b) ELSE Padding
        BY <1>1, <3>1
      <4> QED
        BY <1>1, <3>2, <3>5, <3>6, <4>1 DEF BlockDue
    <3> QED
      BY <3>4, <3>5
  <2> QED
    BY <2>1, <2>2
<1>12. TotalPacks' = TotalPacks
  BY <1>1 DEF TotalPacks
<1>13. total' # -1 /\ total' = TotalPacks' /\ total' <= PackMax /\ Len(packs') <= total'
  <2>1. TotalPacks \in Nat
    BY <1>1, TotalIsCeiling
  <2> QED
    <3>1. PICK x \in Nat, y \in Nat : x = index /\ y = TotalPacks
      BY <2>1
    <3>2. x < y /\ y # -1 /\ x + 1 <= y
      BY <1>2, <3>1
    <3> QED
      BY Zenon, <1>1, <1>6, <1>12, <3>1, <3>2
<1> QED
  BY <1>1, <1>6, <1>8, <1>11, <1>13 DEF CprmInv

LEMMA FetchTotalKeepsInv ==
    ASSUME CprmInv, FetchTotal PROVE CprmInv'
<1>1. /\ packs = <<>> /\ mkb_len \in Nat
      /\ UNCHANGED <<auth, mkb_len, packs, first_under>>
  BY DEF FetchTotal, CprmInv
<1>2. ParseCdb(Cdb(CprmPack(HeaderOnly))).address = PackMax
  <2>1. PICK n \in 0..255 : n = PackMax
    BY PacksAssumption
  <2>2. ParseCdb(Cdb(CprmPack(n))).address = n
    BY PackAddress
  <2> QED
    BY <2>1, <2>2 DEF HeaderOnly
<1>3. CprmResponse(PackMax) # Error /\ total' = CprmResponse(PackMax).total
  BY <1>2 DEF FetchTotal
<1>4. ~(TotalPacks > PackMax) /\ CprmResponse(PackMax) = [Good(2, 4, <<>>) EXCEPT !.total = TotalPacks]
  BY <1>3 DEF CprmResponse, HeaderOnly
<1>5. total' = TotalPacks
  BY <1>3, <1>4 DEF Good
<1>6. TotalPacks' = TotalPacks /\ TotalPacks \in Nat
  BY <1>1, TotalIsCeiling DEF TotalPacks
<1>7. total' # -1 /\ total' = TotalPacks' /\ total' <= PackMax /\ Len(packs') <= total'
  <2>1. PICK t \in Nat, z \in Nat : t = TotalPacks /\ z = PackMax
    BY <1>6, PacksAssumption
  <2>2. t # -1 /\ t <= z
    BY <1>4, <2>1
  <2>3. Len(packs') = 0
    BY <1>1
  <2> QED
    BY <1>5, <1>6, <2>1, <2>2, <2>3
<1> QED
  BY <1>1, <1>7 DEF CprmInv

\* The CPRM block, and which session pack 0 was had in, do not change otherwise.
LEMMA OthersKeepCprmInv ==
    ASSUME CprmInv, auth' \in SessionKeys \cup {Static, Unkeyed},
           UNCHANGED <<mkb_len, total, packs, first_under>>
    PROVE  CprmInv'
<1>1. TotalPacks' = TotalPacks
  BY DEF TotalPacks
<1>2. \A n : BlockDue(n)' = BlockDue(n)
  BY DEF BlockDue
<1> QED
  BY <1>1, <1>2 DEF CprmInv

LEMMA InitCprmInv == CommandsInit => CprmInv
BY PacksAssumption DEF CommandsInit, CprmInv

LEMMA StepCprmInv ==
    CprmInv /\ [CommandsNext \/ CprmNext]_commandVars => CprmInv'
<1> SUFFICES ASSUME CprmInv, [CommandsNext \/ CprmNext]_commandVars PROVE CprmInv'
  OBVIOUS
<1>1. ASSUME NEW k \in SessionKeys \cup {Unkeyed}, ChangeSession(k) PROVE CprmInv'
  BY <1>1, OthersKeepCprmInv DEF ChangeSession
<1>2. ASSUME UNCHANGED <<auth, mkb_len, total, packs, first_under>> PROVE CprmInv'
  BY <1>2, OthersKeepCprmInv DEF CprmInv
<1>3. ASSUME NEW r, NEW short, Issue(r, short) PROVE CprmInv'
  BY <1>2, <1>3 DEF Issue
<1>4. ASSUME NEW r, NEW d, NEW short, SendList(r, d, short) PROVE CprmInv'
  BY <1>2, <1>4 DEF SendList
<1>5. CASE UNCHANGED commandVars
  BY <1>2, <1>5 DEF commandVars
<1>6. CASE CommandsNext
  BY <1>1, <1>3, <1>4, <1>6 DEF CommandsNext
<1>7. CASE CprmNext
  BY <1>1, <1>7, FetchTotalKeepsInv, FetchPackKeepsInv DEF CprmNext
<1> QED
  BY <1>5, <1>6, <1>7

\* Block n is in pack (n - 1) \div PackLen, at place (n - 1) % PackLen.
LEMMA CprmInvSuffices == CprmInv => PacksRebuildTheMkb
<1> SUFFICES ASSUME CprmInv, total # -1 PROVE PacksRebuildTheMkb
  BY DEF PacksRebuildTheMkb
<1>1. /\ auth \in SessionKeys \cup {Static, Unkeyed} /\ mkb_len \in Nat
      /\ packs \in Seq([1..PackLen -> Blocks]) /\ total = TotalPacks /\ total <= PackMax
      /\ packs # <<>> => first_under \in SessionKeys \cup {Static}
  BY DEF CprmInv
<1>2. PICK p \in Nat \ {0} : p = PackLen
  BY PacksAssumption
<1>3. total * PackLen >= mkb_len /\ total * PackLen < mkb_len + PackLen
  BY <1>1, TotalIsCeiling
<1>4. ASSUME NEW n \in DOMAIN packs PROVE Len(packs[n]) = PackLen
  <2>1. packs[n] \in [1..p -> Blocks]
    BY <1>1, <1>2
  <2>2. PICK s \in [1..p -> Blocks] : s = packs[n]
    BY <2>1
  <2>3. s \in Seq(Blocks) /\ Len(s) = p
    BY <2>2
  <2> QED
    BY <1>2, <2>2, <2>3
<1>5. ASSUME NEW n \in 1..(PackLen * Len(packs)) PROVE Held(n) = BlockDue(n)
  <2>1. PICK len \in Nat : len = Len(packs)
    BY <1>1
  <2>2. PICK m \in Nat : m = n - 1
    OBVIOUS
  <2>3. PICK q \in Nat, r \in 0..(p - 1) : q = m \div p /\ r = m % p /\ m = (q * p) + r
    BY Division
  <2>4. PICK x \in Nat, y \in Nat : x = q * p /\ y = len * p /\ x = p * q /\ y = p * len
    OBVIOUS
  <2>5. n <= y
    BY <1>2, <2>1, <2>4
  <2>6. x < y
    BY <2>2, <2>3, <2>4, <2>5
  <2>7. q < len
    BY <2>4, <2>6, Factors
  <2>8. q + 1 \in 1..len /\ r + 1 \in 1..p /\ p * ((q + 1) - 1) + (r + 1) = n
    <3>1. q + 1 \in 1..len /\ r + 1 \in 1..p /\ (q + 1) - 1 = q
      BY <2>7
    <3>2. x + (r + 1) = n
      BY <2>2, <2>3, <2>4
    <3> QED
      BY <2>4, <3>1, <3>2
  <2>9. packs[q + 1][r + 1] = BlockDue(p * ((q + 1) - 1) + (r + 1))
    BY <1>2, <2>1, <2>8 DEF CprmInv
  <2>10. Held(n) = packs[q + 1][r + 1]
    BY <1>2, <2>2, <2>3 DEF Held
  <2> QED
    BY <2>8, <2>9, <2>10
<1>6. packs # <<>> => first_under # Unkeyed /\ Held(1) = BlockDue(1)
  <2> SUFFICES ASSUME packs # <<>> PROVE first_under # Unkeyed /\ Held(1) = BlockDue(1)
    OBVIOUS
  <2>1. PICK len \in Nat \ {0} : len = Len(packs)
    BY <1>1
  <2>2. 1 * 1 <= p * len
    <3>1. 1 * len <= p * len
      BY Monotone
    <3>2. PICK x \in Nat : x = p * len
      OBVIOUS
    <3> QED
      BY <3>1, <3>2
  <2>3. 1 \in 1..(PackLen * Len(packs))
    <3>1. PICK x \in Nat : x = p * len
      OBVIOUS
    <3> QED
      BY <1>2, <2>1, <2>2, <3>1
  <2> QED
    BY <1>1, <1>5, <2>3, ModesAssumption
<1>7. ASSUME NEW n \in 2..(PackLen * Len(packs))
      PROVE  Held(n) = IF n <= mkb_len THEN MkbBlock(n) ELSE Padding
  <2>1. n \in 1..(PackLen * Len(packs)) /\ n # 1
    <3>1. PICK x : x = PackLen * Len(packs)
      OBVIOUS
    <3> QED
      BY <3>1
  <2> QED
    BY <1>5, <2>1 DEF BlockDue
<1>8. ASSUME NEW n \in 0..(total - 1)
      PROVE  CprmBody(CprmResponse(n)) # <<>> \/ (n = 0 /\ auth = Unkeyed)
  <2>1. n \in Nat /\ n < TotalPacks
    BY <1>1, TotalIsCeiling
  <2> QED
    BY <1>1, <2>1, PackComes
<1> QED
  BY <1>1, <1>3, <1>4, <1>6, <1>7, <1>8 DEF PacksRebuildTheMkb, BlockDue

LEMMA CommandsOfTheDrive ==
    DriveSpec => CommandsInit /\ [][CommandsNext \/ CprmNext]_commandVars
<1>1. DriveInit => CommandsInit
  BY DEF DriveInit
<1>2. [DriveNext]_driveVars => [CommandsNext \/ CprmNext]_commandVars
  BY DEF DriveNext, driveVars
<1> QED
  BY <1>1, <1>2, PTL DEF DriveSpec

\* The packs a host collects are the CPRM Media Key Block in order, zeros after
\* its end, the CMAC under the Bus Key of pack 0 in place of the first block,
\* whatever sessions come and go in between; every pack of a total the drive
\* advertised can be had, pack 0 in a session only: for every length of the
\* block, every pack length and every number of packs the byte can count.
THEOREM PacksAreTheMkb == DriveSpec => []PacksRebuildTheMkb
BY CommandsOfTheDrive, InitCprmInv, StepCprmInv, CprmInvSuffices, PTL
-----------------------------------------------------------------------------
(* The commands hosts issue *)

\* What a constructor makes of a command that is called `what'.
Makes(r, what, opcode, format, length) ==
    /\ r.what = what /\ r.command.opcode = opcode /\ r.command.format = format
    /\ r.command.class = (IF opcode \in KeyOpcodes THEN Aacs ELSE Bd)
    /\ r.command.length = length

ReadKinds(r) ==
    \/ Makes(r, "agid", RK, 0, 8)
    \/ Makes(r, "drive_cert", RK, 56, 96)
    \/ \E f \in {32, 33} : /\ Makes(r, "binding_nonce", RK, f, 36)
                           /\ r.command.address = r.target.lba
                           /\ r.command.count = r.target.blocks
    \/ Makes(r, "drive_cert_chal", RK, 1, 116)
    \/ Makes(r, "drive_key", RK, 2, 84)
    \/ Makes(r, "volume_id", RDS, 128, 36)
    \/ Makes(r, "media_serial", RDS, 129, 36)
    \/ Makes(r, "media_id", RDS, 130, 36)
    \/ Makes(r, "data_keys", RDS, 132, 36)

InvalidateKinds(r) == Makes(r, "invalidate", RK, 63, 0) \/ Makes(r, "invalidate", SK, 63, 0)

SendKinds(r) ==
    \/ Makes(r, "host_cert_chal", SK, 1, 116)
    \/ Makes(r, "host_key", SK, 2, 84)
    \/ Makes(r, "write_data_key", SDS, 132, 20)

\* A command whose parameters are as the constructors' callers give them.
Fits(opcode, format, agid, address, count, length) ==
    /\ opcode \in {RK, SK, RDS, SDS} /\ format \in Nat /\ agid \in Nat
    /\ address \in Nat /\ IsU32(address) /\ count \in Nat /\ length \in 0..255
    /\ opcode \in KeyOpcodes => format < 64
    /\ opcode \in {RK, RDS} \/ (address = 0 /\ count = 0)

\* An AGID wider than two bits is cut to two, so every such command is encodable.
LEMMA CommandIsEncodable ==
    ASSUME NEW opcode, NEW format, NEW agid, NEW address, NEW count, NEW length,
           Fits(opcode, format, agid, address, count, length)
    PROVE  Encodable(Command(opcode, format, agid, address, count, length))
<1>1. PICK a \in Nat : a = agid % 4 /\ a < 4
  BY SMT DEF Fits
<1>2. PICK class \in Nat : class = (IF opcode \in KeyOpcodes THEN Aacs ELSE Bd) /\ class < 16
  BY SMT DEF Aacs, Bd
<1>3. Command(opcode, format, agid, address, count, length) =
         [opcode |-> opcode, class |-> class, format |-> format, agid |-> a, address |-> address,
          count |-> count, length |-> length, control |-> 0]
  BY SMT, <1>1, <1>2 DEF Command
<1>4. opcode \in Nat /\ format \in Nat /\ count \in Nat
  BY SMT DEF Fits, RK, SK, RDS, SDS
<1>5. /\ opcode # RK /\ opcode # RDS => address = 0 /\ count = 0
      /\ opcode \in KeyOpcodes => format < 64
      /\ address \in Nat /\ IsU32(address)
  BY SMT DEF Fits
<1>6. length \in Nat /\ IsU16(length)
  BY SMT DEF Fits, IsU16
<1>7. PICK c : c = Command(opcode, format, agid, address, count, length)
  OBVIOUS
<1>8. c \in [opcode : Nat, class : Nat, format : Nat, agid : Nat, address : Nat,
             count : Nat, length : Nat, control : Nat]
  BY <1>1, <1>2, <1>3, <1>4, <1>5, <1>6, <1>7
<1>9. /\ c.opcode = opcode /\ c.class = class /\ c.format = format /\ c.agid = a
      /\ c.address = address /\ c.count = count /\ c.length = length
  BY SMT, <1>3, <1>7
<1>10. Encodable(c)
  BY SMT, <1>1, <1>2, <1>5, <1>6, <1>8, <1>9 DEF Encodable
<1> QED
  BY Zenon, <1>7, <1>10

\* The request r is made by a constructor that fits.
Constructs(r, what, agid, target, opcode, format, address, count, length) ==
    /\ Fits(opcode, format, agid, address, count, length)
    /\ r = Meant(what, agid, target, Command(opcode, format, agid, address, count, length))

\* A request has the command its constructor makes, and the drive parses that.
LEMMA Constructed ==
    ASSUME NEW r, NEW what, NEW agid, NEW target, NEW opcode, NEW format, NEW address, NEW count,
           NEW length, Constructs(r, what, agid, target, opcode, format, address, count, length)
    PROVE  /\ Encodable(r.command) /\ Makes(r, what, opcode, format, length)
           /\ r.command.address = address /\ r.command.count = count /\ r.target = target
<1>1. PICK c : c = Command(opcode, format, agid, address, count, length)
  OBVIOUS
<1>2. Encodable(c)
  <2>1. Fits(opcode, format, agid, address, count, length)
    BY DEF Constructs
  <2> QED
    BY Zenon, <1>1, <2>1, CommandIsEncodable
<1>3. r.what = what /\ r.target = target /\ r.command = c
  BY <1>1 DEF Meant, Constructs
<1>4. /\ c.opcode = opcode /\ c.format = format /\ c.length = length
      /\ c.class = (IF opcode \in KeyOpcodes THEN Aacs ELSE Bd)
      /\ c.address = address /\ c.count = count
  BY <1>1 DEF Command
<1> QED
  BY <1>2, <1>3, <1>4 DEF Makes

\* The constructors of ReportKey and ReadDiscStructure, one by one.
LEMMA ReadRequests ==
    ASSUME NEW r \in ReportKeys \cup DiscReads
    PROVE  Encodable(r.command) /\ (ReadKinds(r) \/ InvalidateKinds(r))
<1>1. CASE r = Meant("agid", 0, NoTarget, Command(RK, 0, 0, 0, 0, 8))
  <2>1. Constructs(r, "agid", 0, NoTarget, RK, 0, 0, 0, 8)
    BY SMT, <1>1 DEF Constructs, Fits, IsU32, KeyOpcodes, RK, SK, RDS, SDS
  <2>2. Encodable(r.command) /\ Makes(r, "agid", RK, 0, 8)
    BY <2>1, Constructed
  <2> QED
    BY <2>2 DEF ReadKinds
<1>2. CASE r = Meant("drive_cert", 0, NoTarget, Command(RK, 56, 0, 0, 0, 96))
  <2>1. Constructs(r, "drive_cert", 0, NoTarget, RK, 56, 0, 0, 96)
    BY SMT, <1>2 DEF Constructs, Fits, IsU32, KeyOpcodes, RK, SK, RDS, SDS
  <2>2. Encodable(r.command) /\ Makes(r, "drive_cert", RK, 56, 96)
    BY <2>1, Constructed
  <2> QED
    BY <2>2 DEF ReadKinds
<1>3. ASSUME NEW a \in Agids, NEW f \in {32, 33}, NEW t \in Targets,
             r = Meant("binding_nonce", a, t, Command(RK, f, a, t.lba, t.blocks, 36))
      PROVE  Encodable(r.command) /\ ReadKinds(r)
  <2>1. PICK lba \in Nat, blocks \in Nat : lba = t.lba /\ blocks = t.blocks /\ IsU32(lba)
    BY SMT, TargetsAssumption DEF IsU32
  <2>2. Fits(RK, f, a, lba, blocks, 36)
    BY SMT, <2>1, TargetsAssumption DEF Fits, KeyOpcodes, RK, SK, RDS, SDS
  <2>3. Constructs(r, "binding_nonce", a, t, RK, f, lba, blocks, 36)
    BY <1>3, <2>1, <2>2 DEF Constructs
  <2>4. /\ Encodable(r.command) /\ Makes(r, "binding_nonce", RK, f, 36)
        /\ r.command.address = lba /\ r.command.count = blocks /\ r.target = t
    BY <2>3, Constructed
  <2> QED
    BY <2>1, <2>4 DEF ReadKinds
<1>4. ASSUME NEW a \in Agids,
             r \in {Meant("drive_cert_chal", a, NoTarget, Command(RK, 1, a, 0, 0, 116)),
                    Meant("drive_key", a, NoTarget, Command(RK, 2, a, 0, 0, 84)),
                    Meant("invalidate", a, NoTarget, Command(RK, 63, a, 0, 0, 0))}
      PROVE  Encodable(r.command) /\ (ReadKinds(r) \/ InvalidateKinds(r))
  <2>0. a \in Nat
    BY SMT, TargetsAssumption
  <2>1. CASE r = Meant("drive_cert_chal", a, NoTarget, Command(RK, 1, a, 0, 0, 116))
    <3>1. Constructs(r, "drive_cert_chal", a, NoTarget, RK, 1, 0, 0, 116)
      BY SMT, <2>1, <2>0 DEF Constructs, Fits, IsU32, KeyOpcodes, RK, SK, RDS, SDS
    <3>2. Encodable(r.command) /\ Makes(r, "drive_cert_chal", RK, 1, 116)
      BY <3>1, Constructed
    <3> QED
      BY <3>2 DEF ReadKinds, InvalidateKinds
  <2>2. CASE r = Meant("drive_key", a, NoTarget, Command(RK, 2, a, 0, 0, 84))
    <3>1. Constructs(r, "drive_key", a, NoTarget, RK, 2, 0, 0, 84)
      BY SMT, <2>2, <2>0 DEF Constructs, Fits, IsU32, KeyOpcodes, RK, SK, RDS, SDS
    <3>2. Encodable(r.command) /\ Makes(r, "drive_key", RK, 2, 84)
      BY <3>1, Constructed
    <3> QED
      BY <3>2 DEF ReadKinds, InvalidateKinds
  <2>3. CASE r = Meant("invalidate", a, NoTarget, Command(RK, 63, a, 0, 0, 0))
    <3>1. Constructs(r, "invalidate", a, NoTarget, RK, 63, 0, 0, 0)
      BY SMT, <2>3, <2>0 DEF Constructs, Fits, IsU32, KeyOpcodes, RK, SK, RDS, SDS
    <3>2. Encodable(r.command) /\ Makes(r, "invalidate", RK, 63, 0)
      BY <3>1, Constructed
    <3> QED
      BY <3>2 DEF ReadKinds, InvalidateKinds
  <2> QED
    BY <1>4, <2>1, <2>2, <2>3
<1>5. ASSUME NEW a \in Agids,
             r \in {Meant("volume_id", a, NoTarget, Command(RDS, 128, a, 0, 0, 36)),
                    Meant("media_serial", a, NoTarget, Command(RDS, 129, a, 0, 0, 36)),
                    Meant("media_id", a, NoTarget, Command(RDS, 130, a, 0, 0, 36)),
                    Meant("data_keys", a, NoTarget, Command(RDS, 132, a, 0, 0, 36))}
      PROVE  Encodable(r.command) /\ ReadKinds(r)
  <2>0. a \in Nat /\ RDS \notin KeyOpcodes
    BY SMT, TargetsAssumption DEF RDS, RK, SK, KeyOpcodes
  <2>1. CASE r = Meant("volume_id", a, NoTarget, Command(RDS, 128, a, 0, 0, 36))
    <3>1. Constructs(r, "volume_id", a, NoTarget, RDS, 128, 0, 0, 36)
      BY SMT, <2>1, <2>0 DEF Constructs, Fits, IsU32, KeyOpcodes, RK, SK, RDS, SDS
    <3>2. Encodable(r.command) /\ Makes(r, "volume_id", RDS, 128, 36)
      BY <3>1, Constructed
    <3> QED
      BY <3>2 DEF ReadKinds
  <2>2. CASE r = Meant("media_serial", a, NoTarget, Command(RDS, 129, a, 0, 0, 36))
    <3>1. Constructs(r, "media_serial", a, NoTarget, RDS, 129, 0, 0, 36)
      BY SMT, <2>2, <2>0 DEF Constructs, Fits, IsU32, KeyOpcodes, RK, SK, RDS, SDS
    <3>2. Encodable(r.command) /\ Makes(r, "media_serial", RDS, 129, 36)
      BY <3>1, Constructed
    <3> QED
      BY <3>2 DEF ReadKinds
  <2>3. CASE r = Meant("media_id", a, NoTarget, Command(RDS, 130, a, 0, 0, 36))
    <3>1. Constructs(r, "media_id", a, NoTarget, RDS, 130, 0, 0, 36)
      BY SMT, <2>3, <2>0 DEF Constructs, Fits, IsU32, KeyOpcodes, RK, SK, RDS, SDS
    <3>2. Encodable(r.command) /\ Makes(r, "media_id", RDS, 130, 36)
      BY <3>1, Constructed
    <3> QED
      BY <3>2 DEF ReadKinds
  <2>4. CASE r = Meant("data_keys", a, NoTarget, Command(RDS, 132, a, 0, 0, 36))
    <3>1. Constructs(r, "data_keys", a, NoTarget, RDS, 132, 0, 0, 36)
      BY SMT, <2>4, <2>0 DEF Constructs, Fits, IsU32, KeyOpcodes, RK, SK, RDS, SDS
    <3>2. Encodable(r.command) /\ Makes(r, "data_keys", RDS, 132, 36)
      BY <3>1, Constructed
    <3> QED
      BY <3>2 DEF ReadKinds
  <2> QED
    BY <1>5, <2>1, <2>2, <2>3, <2>4
<1> QED
  <2>1. CASE r \in ReportKeys
    BY <1>1, <1>2, <1>3, <1>4, <2>1 DEF ReportKeys
  <2>2. CASE r \in DiscReads
    BY <1>5, <2>2 DEF DiscReads
  <2> QED
    BY <2>1, <2>2

\* Those of SendKey and SendDiscStructure.
LEMMA SendRequests ==
    ASSUME NEW r \in SendKeys \cup DiscSends
    PROVE  Encodable(r.command) /\ (SendKinds(r) \/ InvalidateKinds(r))
<1>1. ASSUME NEW a \in Agids,
             r \in {Meant("host_cert_chal", a, NoTarget, Command(SK, 1, a, 0, 0, 116)),
                    Meant("host_key", a, NoTarget, Command(SK, 2, a, 0, 0, 84)),
                    Meant("invalidate", a, NoTarget, Command(SK, 63, a, 0, 0, 0))}
      PROVE  Encodable(r.command) /\ (SendKinds(r) \/ InvalidateKinds(r))
  <2>0. a \in Nat
    BY SMT, TargetsAssumption
  <2>1. CASE r = Meant("host_cert_chal", a, NoTarget, Command(SK, 1, a, 0, 0, 116))
    <3>1. Constructs(r, "host_cert_chal", a, NoTarget, SK, 1, 0, 0, 116)
      BY SMT, <2>1, <2>0 DEF Constructs, Fits, IsU32, KeyOpcodes, RK, SK, RDS, SDS
    <3>2. Encodable(r.command) /\ Makes(r, "host_cert_chal", SK, 1, 116)
      BY <3>1, Constructed
    <3> QED
      BY <3>2 DEF SendKinds, InvalidateKinds
  <2>2. CASE r = Meant("host_key", a, NoTarget, Command(SK, 2, a, 0, 0, 84))
    <3>1. Constructs(r, "host_key", a, NoTarget, SK, 2, 0, 0, 84)
      BY SMT, <2>2, <2>0 DEF Constructs, Fits, IsU32, KeyOpcodes, RK, SK, RDS, SDS
    <3>2. Encodable(r.command) /\ Makes(r, "host_key", SK, 2, 84)
      BY <3>1, Constructed
    <3> QED
      BY <3>2 DEF SendKinds, InvalidateKinds
  <2>3. CASE r = Meant("invalidate", a, NoTarget, Command(SK, 63, a, 0, 0, 0))
    <3>1. Constructs(r, "invalidate", a, NoTarget, SK, 63, 0, 0, 0)
      BY SMT, <2>3, <2>0 DEF Constructs, Fits, IsU32, KeyOpcodes, RK, SK, RDS, SDS
    <3>2. Encodable(r.command) /\ Makes(r, "invalidate", SK, 63, 0)
      BY <3>1, Constructed
    <3> QED
      BY <3>2 DEF SendKinds, InvalidateKinds
  <2> QED
    BY <1>1, <2>1, <2>2, <2>3
<1>2. ASSUME NEW a \in Agids,
             r = Meant("write_data_key", a, NoTarget, Command(SDS, 132, a, 0, 0, 20))
      PROVE  Encodable(r.command) /\ SendKinds(r)
  <2>0. a \in Nat /\ SDS \notin KeyOpcodes
    BY SMT, TargetsAssumption DEF SDS, RK, SK, KeyOpcodes
  <2>1. Constructs(r, "write_data_key", a, NoTarget, SDS, 132, 0, 0, 20)
    BY SMT, <1>2, <2>0 DEF Constructs, Fits, IsU32, KeyOpcodes, RK, SK, RDS, SDS
  <2>2. Encodable(r.command) /\ Makes(r, "write_data_key", SDS, 132, 20)
    BY <2>1, Constructed
  <2> QED
    BY <2>2 DEF SendKinds
<1> QED
  <2>1. CASE r \in SendKeys
    BY <1>1, <2>1 DEF SendKeys
  <2>2. CASE r \in DiscSends
    BY <1>2, <2>2 DEF DiscSends
  <2> QED
    BY <2>1, <2>2
-----------------------------------------------------------------------------
(* The commands' answers *)

Reads == {"agid", "drive_cert", "drive_cert_chal", "drive_key", "binding_nonce", "volume_id",
          "media_serial", "media_id", "data_keys"}

\* The length field and the size of each response.
LEMMA ExpectedIs ==
    /\ DOMAIN Expected = Reads
    /\ Expected["agid"] = <<6, 8>> /\ Expected["drive_cert"] = <<94, 96>>
    /\ Expected["drive_cert_chal"] = <<114, 116>> /\ Expected["drive_key"] = <<82, 84>>
    /\ \A what \in {"binding_nonce", "volume_id", "media_serial", "media_id", "data_keys"} :
          Expected[what] = <<34, 36>>
BY SMT DEF Expected, Reads

\* What the drive now gives for what a host means.
Given(what) ==
    CASE what = "drive_cert_chal" -> <<Field("drive_nonce"), Field("drive_cert")>>
      [] what = "drive_key" -> <<Field("dv"), Field("dsig")>>
      [] what = "data_keys" -> <<Wrapped("read_data_key"), Wrapped(drive.write_data_key)>>
      [] what \in Identifiers -> <<Field(what), MacUnderSession(what)>>
      [] OTHER -> <<Field(what)>>

\* A response of the given sizes that carries them, to the command of that
\* length; no data keys without a session.
Answered(r) ==
    LET sizes == Expected[r.what]
    IN  /\ r.what \in Reads /\ r.command.length = sizes[2]
        /\ AnswerTo(r.command) = IF r.what = "data_keys" /\ auth = Unkeyed THEN Error
                                 ELSE Good(sizes[1], sizes[2], Given(r.what))

\* Every read constructor's command meets the arm of its name.
LEMMA ReadsAreAnswered ==
    ASSUME NEW r, ReadKinds(r) PROVE Answered(r)
<1>1. CASE Makes(r, "agid", RK, 0, 8)
  BY SMT, <1>1, ExpectedIs DEF Answered, Makes, AnswerTo, Given, Reads, RK, SK, RDS, KeyOpcodes, Identifiers
<1>2. CASE Makes(r, "drive_cert", RK, 56, 96)
  BY SMT, <1>2, ExpectedIs DEF Answered, Makes, AnswerTo, Given, Reads, RK, SK, RDS, KeyOpcodes, Identifiers
<1>3. ASSUME NEW f \in {32, 33}, Makes(r, "binding_nonce", RK, f, 36) PROVE Answered(r)
  BY SMT, <1>3, ExpectedIs DEF Answered, Makes, AnswerTo, Given, Reads, RK, SK, RDS, KeyOpcodes,
     Identifiers, Identified
<1>4. CASE Makes(r, "drive_cert_chal", RK, 1, 116)
  BY SMT, <1>4, ExpectedIs DEF Answered, Makes, AnswerTo, Given, Reads, RK, SK, RDS, KeyOpcodes,
     Identifiers
<1>5. CASE Makes(r, "drive_key", RK, 2, 84)
  BY SMT, <1>5, ExpectedIs DEF Answered, Makes, AnswerTo, Given, Reads, RK, SK, RDS, KeyOpcodes,
     Identifiers
<1>6. CASE Makes(r, "volume_id", RDS, 128, 36)
  BY SMT, <1>6, ExpectedIs DEF Answered, Makes, AnswerTo, Given, Reads, RK, SK, RDS, KeyOpcodes,
     Identifiers, Identified
<1>7. CASE Makes(r, "media_serial", RDS, 129, 36)
  BY SMT, <1>7, ExpectedIs DEF Answered, Makes, AnswerTo, Given, Reads, RK, SK, RDS, KeyOpcodes,
     Identifiers, Identified
<1>8. CASE Makes(r, "media_id", RDS, 130, 36)
  BY SMT, <1>8, ExpectedIs DEF Answered, Makes, AnswerTo, Given, Reads, RK, SK, RDS, KeyOpcodes,
     Identifiers, Identified
<1>9. CASE Makes(r, "data_keys", RDS, 132, 36)
  BY SMT, <1>9, ExpectedIs DEF Answered, Makes, AnswerTo, Given, Reads, RK, SK, RDS, KeyOpcodes,
     Identifiers
<1> QED
  BY <1>1, <1>2, <1>3, <1>4, <1>5, <1>6, <1>7, <1>8, <1>9 DEF ReadKinds

\* A host reads a whole response, and nothing of one that is a byte short.
LEMMA ReadByIs ==
    ASSUME NEW what \in Reads, NEW fields,
           NEW response, response = Good(Expected[what][1], Expected[what][2], fields)
    PROVE  /\ ReadBy(what, response, Expected[what][2] - 0) = <<"read", fields>>
           /\ ReadBy(what, response, Expected[what][2] - 1) = <<"Truncated">>
<1>1. PICK n \in Nat, m \in Nat : n = Expected[what][1] /\ m = Expected[what][2] /\ m > 2
  BY SMT, ExpectedIs DEF Reads
<1>2. /\ response.status = "good" /\ response.length = n /\ response.size = m
      /\ response.fields = fields
  BY SMT, <1>1 DEF Good
<1> QED
  BY SMT, <1>1, <1>2, ExpectedIs DEF ReadBy

\* An error is read as a refusal.
LEMMA RefusedIs == \A what, n : ReadBy(what, Error, n) = <<"refused">>
<1>1. Error.status = "error"
  BY DEF Error, NoData, Good
<1> QED
  BY <1>1 DEF ReadBy

\* The drive's records: the write data key is the one it was sent last.
RecordsOk(d) ==
    /\ d = [agid_invalidated |-> d.agid_invalidated,
            last_data_keys_read |-> d.last_data_keys_read,
            write_data_key |-> d.write_data_key,
            last_binding_nonce_op |-> d.last_binding_nonce_op, last_sent |-> d.last_sent]
    /\ d.write_data_key = IF <<SDS, 132>> \in d.last_sent THEN "sent_data_key"
                          ELSE "write_data_key"

\* What the drive records of a command it carried out.
LEMMA RecordsAfter ==
    ASSUME RecordsOk(drive), NEW q, q.opcode = SDS => q.format = 132
    PROVE  /\ RecordsOk(RecordAfter(q))
           /\ q.format = 63 /\ q.opcode \in KeyOpcodes => RecordAfter(q).agid_invalidated
           /\ q.opcode = RK /\ q.format \in {32, 33} =>
                 RecordAfter(q).last_binding_nonce_op = <<q.format, q.address, q.count>>
           /\ q.opcode \in {RK, RDS} => RecordAfter(q).last_sent = drive.last_sent
<1>0a. PICK a, b : a = drive.agid_invalidated /\ b = drive.last_data_keys_read
  OBVIOUS
<1>0b. PICK c, d : c = drive.write_data_key /\ d = drive.last_binding_nonce_op
  OBVIOUS
<1>0c. PICK e : e = drive.last_sent
  OBVIOUS
<1>1. /\ drive = [agid_invalidated |-> a, last_data_keys_read |-> b, write_data_key |-> c,
                  last_binding_nonce_op |-> d, last_sent |-> e]
      /\ c = IF <<SDS, 132>> \in e THEN "sent_data_key" ELSE "write_data_key"
  BY Zenon, <1>0a, <1>0b, <1>0c DEF RecordsOk
<1>2. CASE q.format = 63 /\ q.opcode \in KeyOpcodes
  <2>1. PICK yes : yes = TRUE
    OBVIOUS
  <2>2. RecordAfter(q) = [drive EXCEPT !.agid_invalidated = yes]
    BY Zenon, <1>2, <2>1 DEF RecordAfter
  <2>3. RecordAfter(q) = [agid_invalidated |-> yes, last_data_keys_read |-> b, write_data_key |-> c,
                     last_binding_nonce_op |-> d, last_sent |-> e]
    BY SMT, <1>1, <2>2
  <2> QED
    BY SMT, <1>1, <1>2, <2>1, <2>3 DEF RecordsOk, KeyOpcodes, RK, SK
<1>3. CASE q.opcode = RK /\ q.format \in {32, 33}
  <2>1. RecordAfter(q) = [agid_invalidated |-> a, last_data_keys_read |-> b, write_data_key |-> c,
                     last_binding_nonce_op |-> <<q.format, q.address, q.count>>, last_sent |-> e]
    BY SMT, <1>1, <1>3 DEF RecordAfter
  <2> QED
    BY SMT, <1>1, <1>3, <2>1 DEF RecordsOk
<1>4. CASE q.opcode = RDS /\ q.format = 132
  <2>1. PICK yes : yes = TRUE
    OBVIOUS
  <2>2. RDS \notin {RK, SK} /\ KeyOpcodes = {RK, SK}
    BY SMT DEF RDS, RK, SK, KeyOpcodes
  <2>3. RecordAfter(q) = [drive EXCEPT !.last_data_keys_read = yes]
    BY Zenon, <1>4, <2>1, <2>2 DEF RecordAfter
  <2>4. RecordAfter(q) = [agid_invalidated |-> a, last_data_keys_read |-> yes, write_data_key |-> c,
                     last_binding_nonce_op |-> d, last_sent |-> e]
    BY SMT, <1>1, <2>3
  <2> QED
    BY SMT, <1>1, <1>4, <2>4 DEF RecordsOk, RDS, RK, SK, KeyOpcodes
<1>5. CASE q.opcode = SDS
  <2>0. <<q.opcode, q.format>> = <<SDS, 132>>
    BY SMT, <1>5
  <2>1. RecordAfter(q) = [agid_invalidated |-> a, last_data_keys_read |-> b,
                     write_data_key |-> "sent_data_key",
                     last_binding_nonce_op |-> d, last_sent |-> e \cup {<<SDS, 132>>}]
    <3>1. SDS \notin {RK, SK, RDS} /\ KeyOpcodes = {RK, SK}
      BY SMT DEF RDS, RK, SK, SDS, KeyOpcodes
    <3>2. PICK f : f = drive.last_sent \cup {<<SDS, 132>>}
      OBVIOUS
    <3>3. RecordAfter(q) = [drive EXCEPT !.write_data_key = "sent_data_key", !.last_sent = f]
      BY <1>5, <2>0, <3>1, <3>2 DEF RecordAfter
    <3>4. f = e \cup {<<SDS, 132>>}
      BY <1>0c, <3>2
    <3>5. RecordAfter(q) = [agid_invalidated |-> a, last_data_keys_read |-> b,
                     write_data_key |-> "sent_data_key",
                     last_binding_nonce_op |-> d, last_sent |-> f]
      <4>1. drive = [agid_invalidated |-> a, last_data_keys_read |-> b, write_data_key |-> c,
                     last_binding_nonce_op |-> d, last_sent |-> e]
        BY <1>1
      <4>2. PICK g : g = [drive EXCEPT !.write_data_key = "sent_data_key"]
        OBVIOUS
      <4>3. g = [agid_invalidated |-> a, last_data_keys_read |-> b,
                 write_data_key |-> "sent_data_key", last_binding_nonce_op |-> d, last_sent |-> e]
        BY SMT, <4>1, <4>2
      <4>4. RecordAfter(q) = [g EXCEPT !.last_sent = f]
        BY Zenon, <3>3, <4>2
      <4> QED
        BY SMT, <4>3, <4>4
    <3> QED
      BY Zenon, <3>4, <3>5
  <2> QED
    BY SMT, <1>5, <2>1 DEF RecordsOk, RDS, RK, SK, SDS, KeyOpcodes
<1>6. CASE q.opcode = SK /\ q.format # 63
  <2>1. RecordAfter(q) = [agid_invalidated |-> a, last_data_keys_read |-> b, write_data_key |-> c,
                     last_binding_nonce_op |-> d, last_sent |-> e \cup {<<SK, q.format>>}]
    BY SMT, <1>1, <1>6 DEF RecordAfter, RDS, RK, SK, SDS, KeyOpcodes
  <2>2. <<SDS, 132>> \in e \cup {<<SK, q.format>>} <=> <<SDS, 132>> \in e
    BY SMT DEF SDS, SK
  <2> QED
    BY SMT, <1>1, <1>6, <2>1, <2>2 DEF RecordsOk, RK, SK, RDS
<1>7. CASE /\ ~(q.format = 63 /\ q.opcode \in KeyOpcodes)
           /\ ~(q.opcode = RK /\ q.format \in {32, 33})
           /\ ~(q.opcode = RDS /\ q.format = 132) /\ q.opcode # SDS /\ q.opcode # SK
  <2>1. RecordAfter(q) = drive
    BY SMT, <1>7 DEF RecordAfter
  <2> QED
    BY SMT, <1>7, <2>1
<1> QED
  BY SMT, <1>2, <1>3, <1>4, <1>5, <1>6, <1>7 DEF KeyOpcodes
-----------------------------------------------------------------------------
(* Every command is answered as its host means it *)

AnswersInv ==
    /\ auth \in SessionKeys \cup {Static, Unkeyed} /\ RecordsOk(drive)
    /\ CommandsAreAnsweredAsMeant

\* The commands that come with a parameter list.
LEMMA ListsFor ==
    ASSUME NEW r
    PROVE  /\ ReadKinds(r) \/ InvalidateKinds(r) => ListFor(r.command) = {}
           /\ SendKinds(r) =>
                 /\ ListFor(r.command) # {}
                 /\ r.command.opcode = SDS => r.command.format = 132
                 /\ \A p \in ListFor(r.command) : p.size = r.command.length
                 /\ r.command.length \in Nat
                 /\ r.what \in {"host_cert_chal", "host_key", "write_data_key"}
<1>1. ASSUME NEW p \in ParameterLists
      PROVE  \/ p.opcode = SK /\ p.format = 1 /\ p.size = 116
             \/ p.opcode = SK /\ p.format = 2 /\ p.size = 84
             \/ p.opcode = SDS /\ p.format = 132 /\ p.size = 20
  BY SMT DEF ParameterLists
<1>2. ASSUME ReadKinds(r) PROVE ListFor(r.command) = {}
  <2>1. r.command.opcode \in {RK, RDS}
    BY <1>2 DEF ReadKinds, Makes
  <2> QED
    BY SMT, <1>1, <2>1 DEF ListFor, RK, RDS, SK, SDS
<1>3. ASSUME InvalidateKinds(r) PROVE ListFor(r.command) = {}
  <2>1. r.command.opcode \in {RK, SK} /\ r.command.format = 63
    BY <1>3 DEF InvalidateKinds, Makes
  <2> QED
    BY SMT, <1>1, <2>1 DEF ListFor, RK, SK, SDS
<1>4. ASSUME SendKinds(r)
      PROVE  /\ ListFor(r.command) # {}
             /\ r.command.opcode = SDS => r.command.format = 132
             /\ \A p \in ListFor(r.command) : p.size = r.command.length
             /\ r.command.length \in Nat
             /\ r.what \in {"host_cert_chal", "host_key", "write_data_key"}
  <2>1. CASE Makes(r, "host_cert_chal", SK, 1, 116)
    <3>1. [opcode |-> SK, format |-> 1, length |-> 114, size |-> 116] \in ListFor(r.command)
      BY SMT, <2>1 DEF ListFor, ParameterLists, Makes
    <3> QED
      BY SMT, <1>1, <2>1, <3>1 DEF ListFor, Makes, SK, SDS
  <2>2. CASE Makes(r, "host_key", SK, 2, 84)
    <3>1. [opcode |-> SK, format |-> 2, length |-> 82, size |-> 84] \in ListFor(r.command)
      BY SMT, <2>2 DEF ListFor, ParameterLists, Makes
    <3> QED
      BY SMT, <1>1, <2>2, <3>1 DEF ListFor, Makes, SK, SDS
  <2>3. CASE Makes(r, "write_data_key", SDS, 132, 20)
    <3>1. [opcode |-> SDS, format |-> 132, length |-> 18, size |-> 20] \in ListFor(r.command)
      BY SMT, <2>3 DEF ListFor, ParameterLists, Makes
    <3> QED
      BY SMT, <1>1, <2>3, <3>1 DEF ListFor, Makes, SK, SDS
  <2> QED
    BY <1>4, <2>1, <2>2, <2>3 DEF SendKinds
<1> QED
  BY <1>2, <1>3, <1>4

\* What the drive gives now is what the exchange that gets it should read.
LEMMA GivenIsMeant ==
    ASSUME auth \in SessionKeys \cup {Static, Unkeyed}, RecordsOk(drive),
           exchange'.under = auth, drive'.last_sent = drive.last_sent,
           NEW what \in Reads, exchange'.request.what = what
    PROVE  FieldsMeant(exchange.request.what)' = Given(what)
<1>1. FieldsMeant(exchange.request.what)' =
         CASE what = "drive_cert_chal" -> <<Field("drive_nonce"), Field("drive_cert")>>
           [] what = "drive_key" -> <<Field("dv"), Field("dsig")>>
           [] what = "data_keys" ->
                <<IF auth \in SessionKeys THEN <<"wrapped", auth, "read_data_key">>
                  ELSE Field("read_data_key"),
                  IF auth \in SessionKeys
                  THEN <<"wrapped", auth, IF <<SDS, 132>> \in drive.last_sent
                                          THEN "sent_data_key" ELSE "write_data_key">>
                  ELSE Field(IF <<SDS, 132>> \in drive.last_sent
                             THEN "sent_data_key" ELSE "write_data_key")>>
           [] what \in Identifiers ->
                <<Field(what), IF auth \in SessionKeys THEN <<"cmac", auth, what>>
                               ELSE <<"fixture MAC", what>>>>
           [] OTHER -> <<Field(what)>>
  BY Zenon DEF FieldsMeant, Under, Identifiers, Field
<1>2. drive.write_data_key = IF <<SDS, 132>> \in drive.last_sent THEN "sent_data_key"
                             ELSE "write_data_key"
  BY Zenon DEF RecordsOk
<1> QED
  BY <1>1, <1>2 DEF Given, Wrapped, MacUnderSession, HasKey, Field

\* A command the drive has no arm for.
Unheard(c, opcode, class, format, length) ==
    /\ c = [opcode |-> opcode, class |-> class, format |-> format, agid |-> 0, address |-> 0,
            count |-> 0, length |-> length, control |-> 0]
    /\ class \in Nat /\ format \in Nat /\ length \in Nat /\ IsU16(length)
    /\ IF opcode \in KeyOpcodes THEN format < 64 ELSE class < 16
    /\ \/ opcode = RDS /\ format = 131
       \/ opcode \in KeyOpcodes /\ format = 3
       \/ opcode = SDS /\ format = 131
       \/ opcode \in KeyOpcodes /\ class = 0
       \/ opcode = 18

\* Such a command is an error, and no list makes it anything else.
LEMMA UnheardIsRefused ==
    ASSUME NEW c, NEW opcode, NEW class, NEW format, NEW length,
           Unheard(c, opcode, class, format, length)
    PROVE  /\ Encodable(c) /\ AnswerTo(c) = Error
           /\ \A size : ~Accepts(c, "to_device", size)
<1>1. /\ c.opcode = opcode /\ c.class = class /\ c.format = format /\ c.agid = 0
      /\ c.address = 0 /\ c.count = 0 /\ c.length = length /\ c.control = 0
  BY DEF Unheard
<1>2. opcode \in Nat /\ IsU32(0)
  BY SMT DEF Unheard, KeyOpcodes, RK, SK, RDS, SDS, IsU32
<1>3. c \in [opcode : Nat, class : Nat, format : Nat, agid : Nat, address : Nat,
             count : Nat, length : Nat, control : Nat]
  BY <1>2 DEF Unheard
<1>4. Encodable(c)
  BY SMT, <1>1, <1>2, <1>3 DEF Encodable, Unheard
<1>5. AnswerTo(c) = Error
  BY SMT, <1>1 DEF Unheard, AnswerTo, KeyOpcodes, RK, SK, RDS, SDS, Aacs
<1>6. ASSUME NEW size PROVE ~Accepts(c, "to_device", size)
  <2>1. ASSUME NEW p \in ParameterLists
        PROVE  \/ p.opcode = SK /\ p.format \in {1, 2}
               \/ p.opcode = SDS /\ p.format = 132
    BY SMT DEF ParameterLists
  <2>2. opcode = SK => class # Aacs \/ format = 3
    BY SMT DEF Unheard, KeyOpcodes, RK, SK, RDS, SDS, Aacs
  <2>3. opcode = SDS => format = 131
    BY SMT DEF Unheard, KeyOpcodes, RK, SK, RDS, SDS
  <2> QED
    BY SMT, <1>1, <2>1, <2>2, <2>3 DEF Accepts, ListFor
<1> QED
  BY <1>4, <1>5, <1>6

\* So are the ones that hosts try.
LEMMA UnsupportedAreRefused ==
    ASSUME NEW c \in Unsupported
    PROVE  /\ Encodable(c) /\ AnswerTo(c) = Error
           /\ \A size : ~Accepts(c, "to_device", size)
<1>1. CASE c = Command(RDS, 131, 0, 0, 0, 32772)
  <2>1. Unheard(c, RDS, Bd, 131, 32772)
    BY SMT, <1>1 DEF Unheard, Command, KeyOpcodes, RK, SK, RDS, SDS, Aacs, Bd, IsU16
  <2> QED
    BY <2>1, UnheardIsRefused
<1>2. CASE c = Command(RK, 3, 0, 0, 0, 8)
  <2>1. Unheard(c, RK, Aacs, 3, 8)
    BY SMT, <1>2 DEF Unheard, Command, KeyOpcodes, RK, SK, RDS, SDS, Aacs, Bd, IsU16
  <2> QED
    BY <2>1, UnheardIsRefused
<1>3. CASE c = Command(SK, 3, 0, 0, 0, 8)
  <2>1. Unheard(c, SK, Aacs, 3, 8)
    BY SMT, <1>3 DEF Unheard, Command, KeyOpcodes, RK, SK, RDS, SDS, Aacs, Bd, IsU16
  <2> QED
    BY <2>1, UnheardIsRefused
<1>4. CASE c = Command(SDS, 131, 0, 0, 0, 20)
  <2>1. Unheard(c, SDS, Bd, 131, 20)
    BY SMT, <1>4 DEF Unheard, Command, KeyOpcodes, RK, SK, RDS, SDS, Aacs, Bd, IsU16
  <2> QED
    BY <2>1, UnheardIsRefused
<1>5. CASE c = [Command(RK, 0, 0, 0, 0, 8) EXCEPT !.class = 0]
  <2>1. Unheard(c, RK, 0, 0, 8)
    BY SMT, <1>5 DEF Unheard, Command, KeyOpcodes, RK, SK, RDS, SDS, Aacs, Bd, IsU16
  <2> QED
    BY <2>1, UnheardIsRefused
<1>6. CASE c = [Command(SK, 1, 0, 0, 0, 116) EXCEPT !.class = 0]
  <2>1. Unheard(c, SK, 0, 1, 116)
    BY SMT, <1>6 DEF Unheard, Command, KeyOpcodes, RK, SK, RDS, SDS, Aacs, Bd, IsU16
  <2> QED
    BY <2>1, UnheardIsRefused
<1>7. CASE c = [Command(RK, 0, 0, 0, 0, 8) EXCEPT !.opcode = 18]
  <2>1. Unheard(c, 18, Aacs, 0, 8)
    BY SMT, <1>7 DEF Unheard, Command, KeyOpcodes, RK, SK, RDS, SDS, Aacs, Bd, IsU16
  <2> QED
    BY <2>1, UnheardIsRefused
<1> QED
  BY <1>1, <1>2, <1>3, <1>4, <1>5, <1>6, <1>7 DEF Unsupported

\* An AGID is invalidated by an answer without data.
LEMMA InvalidateIsDone ==
    ASSUME NEW r, InvalidateKinds(r)
    PROVE  /\ r.what = "invalidate" /\ r.command.format = 63 /\ r.command.opcode \in {RK, SK}
           /\ AnswerTo(r.command) = NoData /\ NoData.status = "good"
<1>1. /\ r.what = "invalidate" /\ r.command.format = 63 /\ r.command.opcode \in {RK, SK}
      /\ r.command.class = Aacs
  BY SMT DEF InvalidateKinds, Makes, KeyOpcodes
<1>2. AnswerTo(r.command) = NoData
  BY SMT, <1>1 DEF AnswerTo, KeyOpcodes, RK, SK, RDS
<1>3. NoData.status = "good"
  BY DEF NoData, Good
<1> QED
  BY <1>1, <1>2, <1>3

\* A host reads what it asked for, whole or not at all.
LEMMA ReadKeepsInv ==
    ASSUME AnswersInv, NEW r, ReadKinds(r), Encodable(r.command), NEW short \in 0..1,
           Issue(r, short)
    PROVE  RecordsOk(drive)' /\ CommandsAreAnsweredAsMeant'
<1>1. PICK q : q = r.command /\ q = ParseCdb(Cdb(r.command))
  BY CdbReadBack
<1>2. PICK outcome : outcome = ReadBy(r.what, AnswerTo(q), q.length - short)
  OBVIOUS
<1>3. /\ exchange' = [request |-> r, short |-> short, under |-> auth, outcome |-> outcome]
      /\ drive' = IF AnswerTo(q).status = "good" THEN RecordAfter(q) ELSE drive
  BY <1>1, <1>2 DEF Issue
<1>4. /\ exchange'.request = r /\ exchange'.short = short /\ exchange'.under = auth
      /\ exchange'.outcome = outcome
  BY <1>3
<1>5. /\ r.what \in Reads /\ q.length = Expected[r.what][2]
      /\ AnswerTo(q) = IF r.what = "data_keys" /\ auth = Unkeyed THEN Error
                       ELSE Good(Expected[r.what][1], Expected[r.what][2], Given(r.what))
  BY <1>1, ReadsAreAnswered DEF Answered
<1>6. RecordsOk(drive) /\ auth \in SessionKeys \cup {Static, Unkeyed}
  BY DEF AnswersInv
<1>7. q.opcode \in {RK, RDS}
  BY <1>1 DEF ReadKinds, Makes
<1>8. /\ RecordsOk(RecordAfter(q)) /\ RecordAfter(q).last_sent = drive.last_sent
      /\ q.opcode = RK /\ q.format \in {32, 33} =>
            RecordAfter(q).last_binding_nonce_op = <<q.format, q.address, q.count>>
  <2>1. q.opcode # SDS
    BY <1>7 DEF RK, RDS, SDS
  <2> QED
    BY <1>6, <1>7, <2>1, RecordsAfter
<1>9. RecordsOk(drive') /\ drive'.last_sent = drive.last_sent
  BY <1>3, <1>6, <1>8
<1>10. r.what # "invalidate" /\ r.what # "unsupported"
  BY <1>5 DEF Reads
<1>11. CASE r.what = "data_keys" /\ auth = Unkeyed
  <2>1. outcome = <<"refused">>
    BY <1>2, <1>5, <1>11, RefusedIs
  <2>2. r.what # "binding_nonce"
    BY <1>11
  <2>3. CommandsAreAnsweredAsMeant'
    BY <1>4, <1>10, <1>11, <2>1, <2>2 DEF CommandsAreAnsweredAsMeant
  <2> QED
    BY <1>9, <2>3 DEF RecordsOk
<1>12. CASE ~(r.what = "data_keys" /\ auth = Unkeyed)
  <2>1. AnswerTo(q) = Good(Expected[r.what][1], Expected[r.what][2], Given(r.what))
    BY <1>5, <1>12
  <2>2. /\ short = 0 => outcome = <<"read", Given(r.what)>>
        /\ short = 1 => outcome = <<"Truncated">>
    BY <1>2, <1>5, <2>1, ReadByIs
  <2>3. FieldsMeant(exchange.request.what)' = Given(r.what)
    BY <1>4, <1>5, <1>6, <1>9, GivenIsMeant
  <2>4. r.what = "binding_nonce" =>
           drive'.last_binding_nonce_op = <<r.command.format, r.target.lba, r.target.blocks>>
    <3>1. HAVE r.what = "binding_nonce"
    <3>2. /\ q.opcode = RK /\ q.format \in {32, 33}
          /\ q.address = r.target.lba /\ q.count = r.target.blocks
      BY <1>1, <3>1 DEF ReadKinds, Makes
    <3>3. AnswerTo(q).status = "good"
      BY <2>1 DEF Good
    <3> QED
      BY <1>1, <1>3, <1>8, <3>2, <3>3
  <2>5. CommandsAreAnsweredAsMeant'
    <3>1. (exchange.short = 0)' => exchange'.outcome = <<"read", FieldsMeant(exchange.request.what)'>>
      BY <1>4, <2>2, <2>3
    <3>2. exchange'.short # 0 => exchange'.outcome = <<"Truncated">>
      BY <1>4, <2>2
    <3> QED
      BY <1>4, <1>10, <1>12, <2>4, <3>1, <3>2 DEF CommandsAreAnsweredAsMeant
  <2> QED
    BY <1>9, <2>5 DEF RecordsOk
<1> QED
  BY <1>11, <1>12

LEMMA InvalidateKeepsInv ==
    ASSUME AnswersInv, NEW r, InvalidateKinds(r), Encodable(r.command), NEW short \in 0..1,
           Issue(r, short)
    PROVE  RecordsOk(drive)' /\ CommandsAreAnsweredAsMeant'
<1>1. ParseCdb(Cdb(r.command)) = r.command
  BY CdbReadBack
<1>2. drive' = RecordAfter(r.command) /\ exchange'.request = r
  BY <1>1, InvalidateIsDone DEF Issue
<1>3. RecordsOk(drive') /\ drive'.agid_invalidated
  <2>1. r.command.opcode # SDS /\ r.command.opcode \in KeyOpcodes
    BY InvalidateIsDone DEF RK, SK, SDS, KeyOpcodes
  <2> QED
    BY <1>2, <2>1, InvalidateIsDone, RecordsAfter DEF AnswersInv
<1>4. r.what = "invalidate" /\ "invalidate" \notin DOMAIN Expected
  BY InvalidateIsDone, ExpectedIs DEF Reads
<1>5. CommandsAreAnsweredAsMeant'
  BY <1>2, <1>3, <1>4 DEF CommandsAreAnsweredAsMeant
<1> QED
  BY <1>3, <1>5 DEF RecordsOk

\* A list that misses a byte, or goes the wrong way, changes nothing.
LEMMA SendKeepsInv ==
    ASSUME AnswersInv, NEW r, SendKinds(r), Encodable(r.command), NEW short \in 0..1,
           NEW direction, SendList(r, direction, short)
    PROVE  RecordsOk(drive)' /\ CommandsAreAnsweredAsMeant'
<1>1. PICK q : q = r.command /\ q = ParseCdb(Cdb(r.command))
  BY CdbReadBack
<1>2. PICK outcome : outcome = IF Accepts(q, direction, q.length - short) THEN <<"done">>
                               ELSE <<"refused">>
  OBVIOUS
<1>3. /\ exchange' = [request |-> r, short |-> short, under |-> auth, outcome |-> outcome]
      /\ drive' = IF Accepts(q, direction, q.length - short) THEN RecordAfter(q) ELSE drive
  BY <1>1, <1>2 DEF SendList
<1>4. exchange'.request = r /\ exchange'.short = short /\ exchange'.outcome = outcome
  BY <1>3
<1>5. /\ q.opcode = SDS => q.format = 132
      /\ \A p \in ListFor(q) : p.size = q.length
      /\ q.length \in Nat /\ r.what \in {"host_cert_chal", "host_key", "write_data_key"}
  <2>1. LET c == r.command
        IN  /\ c.opcode = SDS => c.format = 132
            /\ \A p \in ListFor(c) : p.size = c.length
            /\ c.length \in Nat /\ r.what \in {"host_cert_chal", "host_key", "write_data_key"}
    BY SMT, ListsFor
  <2>2. q = r.command
    BY <1>1
  <2> QED
    BY SMT, <2>1, <2>2
<1>6. RecordsOk(drive')
  BY <1>3, <1>5, RecordsAfter DEF AnswersInv
<1>7. short # 0 => outcome = <<"refused">>
  <2>1. HAVE short # 0
  <2>2. short = 1
    BY <2>1
  <2>3. ~Accepts(q, direction, q.length - 1)
    <3>1. ASSUME NEW p \in ListFor(q) PROVE ~(q.length - 1 >= p.size)
      BY SMT, <1>5
    <3> QED
      BY <3>1 DEF Accepts
  <2> QED
    BY <1>2, <2>2, <2>3
<1>8. r.what \notin DOMAIN Expected /\ r.what \notin {"invalidate", "unsupported", "binding_nonce"}
  BY <1>5, ExpectedIs DEF Reads
<1>9. CommandsAreAnsweredAsMeant'
  BY <1>4, <1>7, <1>8 DEF CommandsAreAnsweredAsMeant
<1> QED
  BY <1>6, <1>9 DEF RecordsOk

\* What the drive does not know is refused and changes nothing.
LEMMA UnsupportedKeepsInv ==
    ASSUME AnswersInv, NEW c \in Unsupported, NEW r, r = Meant("unsupported", 0, NoTarget, c),
           Issue(r, 0) \/ SendList(r, "to_device", 0)
    PROVE  RecordsOk(drive)' /\ CommandsAreAnsweredAsMeant'
<1>1. r.what = "unsupported" /\ r.command = c /\ ParseCdb(Cdb(c)) = c
  BY UnsupportedAreRefused, CdbReadBack DEF Meant
<1>2. /\ exchange'.request = r /\ exchange'.short = 0 /\ exchange'.outcome = <<"refused">>
      /\ drive' = drive
  <2>1. CASE Issue(r, 0)
    <3>1. AnswerTo(c) = Error /\ Error.status # "good"
      BY UnsupportedAreRefused DEF Error, NoData, Good
    <3> QED
      BY <1>1, <2>1, <3>1, RefusedIs DEF Issue
  <2>2. CASE SendList(r, "to_device", 0)
    BY <1>1, <2>2, UnsupportedAreRefused DEF SendList
  <2> QED
    BY <2>1, <2>2
<1>3. r.what \notin DOMAIN Expected
  BY <1>1, ExpectedIs DEF Reads
<1>4. CommandsAreAnsweredAsMeant'
  BY <1>1, <1>2, <1>3 DEF CommandsAreAnsweredAsMeant
<1> QED
  BY <1>2, <1>4 DEF RecordsOk, AnswersInv

LEMMA IssueKeepsAnswers ==
    ASSUME AnswersInv, NEW r \in Requests, NEW short \in 0..1, Issue(r, short)
    PROVE  RecordsOk(drive)' /\ CommandsAreAnsweredAsMeant'
<1>1. Encodable(r.command) /\ (ReadKinds(r) \/ InvalidateKinds(r) \/ SendKinds(r))
  BY ReadRequests, SendRequests DEF Requests
<1>2. ~SendKinds(r)
  BY ListsFor DEF Issue
<1> QED
  BY <1>1, <1>2, ReadKeepsInv, InvalidateKeepsInv

LEMMA SendListKeepsAnswers ==
    ASSUME AnswersInv, NEW r \in Requests, NEW short \in 0..1, NEW direction,
           SendList(r, direction, short)
    PROVE  RecordsOk(drive)' /\ CommandsAreAnsweredAsMeant'
<1>1. Encodable(r.command) /\ (ReadKinds(r) \/ InvalidateKinds(r) \/ SendKinds(r))
  BY ReadRequests, SendRequests DEF Requests
<1>2. SendKinds(r)
  BY <1>1, ListsFor DEF SendList
<1> QED
  BY <1>1, <1>2, SendKeepsInv

LEMMA StepAnswersInv ==
    AnswersInv /\ [CommandsNext \/ CprmNext]_commandVars => AnswersInv'
<1> SUFFICES ASSUME AnswersInv, [CommandsNext \/ CprmNext]_commandVars PROVE AnswersInv'
  OBVIOUS
<1>1. ASSUME RecordsOk(drive)', CommandsAreAnsweredAsMeant', UNCHANGED auth PROVE AnswersInv'
  BY <1>1 DEF AnswersInv
<1>2. ASSUME UNCHANGED <<drive, exchange>>, auth' \in SessionKeys \cup {Static, Unkeyed}
      PROVE  AnswersInv'
  <2>1. CommandsAreAnsweredAsMeant'
    BY <1>2 DEF AnswersInv, CommandsAreAnsweredAsMeant, FieldsMeant, Under
  <2> QED
    BY <1>2, <2>1 DEF AnswersInv, RecordsOk
<1>3. ASSUME NEW r \in Requests, NEW short \in 0..1, Issue(r, short) PROVE AnswersInv'
  BY <1>1, <1>3, IssueKeepsAnswers DEF Issue
<1>4. ASSUME NEW r \in Requests, NEW d, NEW short \in 0..1, SendList(r, d, short)
      PROVE  AnswersInv'
  BY <1>1, <1>4, SendListKeepsAnswers DEF SendList
<1>5. ASSUME NEW c \in Unsupported,
             LET r == Meant("unsupported", 0, NoTarget, c)
             IN  Issue(r, 0) \/ SendList(r, "to_device", 0)
      PROVE  AnswersInv'
  BY <1>1, <1>5, UnsupportedKeepsInv DEF Issue, SendList
<1>6. ASSUME NEW k \in SessionKeys \cup {Unkeyed}, ChangeSession(k) PROVE AnswersInv'
  BY <1>2, <1>6 DEF ChangeSession
<1>7. CASE UNCHANGED commandVars
  BY <1>2, <1>7 DEF commandVars, AnswersInv
<1>8. CASE CommandsNext
  BY <1>3, <1>4, <1>5, <1>6, <1>8 DEF CommandsNext
<1>9. CASE CprmNext
  <2>1. FetchTotal => AnswersInv'
    BY <1>2 DEF FetchTotal, AnswersInv
  <2>2. FetchPack => AnswersInv'
    BY <1>2 DEF FetchPack, AnswersInv
  <2> QED
    BY <1>6, <1>9, <2>1, <2>2 DEF CprmNext
<1> QED
  BY <1>7, <1>8, <1>9

LEMMA InitAnswersInv == CommandsInit => AnswersInv
<1> SUFFICES ASSUME CommandsInit PROVE AnswersInv
  OBVIOUS
<1>1. auth \in SessionKeys \cup {Static, Unkeyed} /\ exchange = NoExchange
  BY DEF CommandsInit
<1>2. RecordsOk(drive)
  BY DEF CommandsInit, RecordsOk
<1>3. CommandsAreAnsweredAsMeant
  BY <1>1 DEF CommandsAreAnsweredAsMeant
<1> QED
  BY <1>1, <1>2, <1>3 DEF AnswersInv

\* A command of any constructor is answered as the constructor's name says,
\* through its twelve bytes, the drive's dispatch and the parsers: the fields
\* asked for, MACs and wrapped keys under the drive's Bus Key of that moment,
\* nothing from an answer that came short, data keys in a session only, the
\* write key the last one sent; the drive sees the 32-bit target of a Binding
\* Nonce, and refuses what it does not know.  For every AGID, target and key.
THEOREM CommandsAreAnswered == DriveSpec => []CommandsAreAnsweredAsMeant
<1>1. AnswersInv => CommandsAreAnsweredAsMeant
  BY DEF AnswersInv
<1> QED
  BY <1>1, InitAnswersInv, StepAnswersInv, CommandsOfTheDrive, PTL
==============================================================================
