------------------------------- MODULE KeyDb -------------------------------
(***************************************************************************)
(* The scanner of KEYDB.cfg, from src/keydb.rs: KeyDb::parse_with_report   *)
(* takes the file line by line, keeps what it understands, reports what it *)
(* does not, and never fails as a whole.  A DISCID row opens the scope the *)
(* VID, VUK, MEK, KCD and TK rows after it belong to.                      *)
(*                                                                         *)
(* A line is what tokenising it yields: its leader and its values, None    *)
(* for one that is missing or malformed.  The file is not known beforehand *)
(* (lines records what has been read of it).                               *)
(***************************************************************************)
EXTENDS Naturals, Sequences, FiniteSets

CONSTANTS
    Discs,       \* disc IDs
    Values,      \* keys and other hex values
    Labels,
    Fields,      \* leaders of the rows a disc has at most one value of
    Globals,     \* leaders of the rows outside any disc: DK, PK, HC, DC
    None,
    MaxLines     \* bound on the length of the file

ASSUME LeadersAssumption ==
    /\ Fields \cap Globals = {}
    /\ (Fields \cup Globals) \cap {"TK", "DISCID", "legacy", "unknown", "blank"} = {}
    /\ "VUK" \in Fields
ASSUME NamesAssumption == None \notin Discs \cup Values \cup Labels
ASSUME BoundAssumption == MaxLines \in Nat

\* DiscRecords: at most one value of each field, title keys, the disc's label.
DiscRecords == [fields : [Fields -> Values \cup {None}],
                title_keys : Seq(Values),
                label : Labels \cup {None}]
ASSUME RecordsAssumption == None \notin DiscRecords

Scoped == Fields \cup {"TK"}

Row(leaders, discs, values, labels) ==
    [leader : leaders, disc : discs, value : values, label : labels]

\* Every way a line can tokenise.  `legacy' is <DISC_ID>=V<VUK>.
DiscidLines == Row({"DISCID"}, Discs, {None}, Labels \cup {None})
                  \cup Row({"DISCID"}, {None}, {None}, {None})
ScopedLines == Row(Scoped, {None}, Values \cup {None}, {None})
GlobalLines == Row(Globals, {None}, Values \cup {None}, {None})
LegacyLines == Row({"legacy"}, Discs, Values, {None})
                  \cup Row({"legacy"}, {None}, {None}, {None})
OtherLines == Row({"unknown", "blank"}, {None}, {None}, {None})

Lines == DiscidLines \cup ScopedLines \cup GlobalLines \cup LegacyLines \cup OtherLines

VARIABLES
    lines,            \* the file so far
    current_discid,   \* the scope
    by_disc_id,       \* VUKs of the legacy lines
    disc_records,     \* DiscRecords of the DISCID-scoped rows
    collections,      \* device_keys, processing_keys, host_certs, drive_certs
    skipped           \* line numbers in the ParseReport

vars == <<lines, current_discid, by_disc_id, disc_records, collections, skipped>>
-----------------------------------------------------------------------------
LineNumber == Len(lines) + 1

\* A line that does not parse changes nothing but the report.
Skip ==
    /\ skipped' = Append(skipped, LineNumber)
    /\ UNCHANGED <<current_discid, by_disc_id, disc_records, collections>>

EmptyRecord == [fields |-> [f \in Fields |-> None], title_keys |-> <<>>, label |-> None]

\* Faulty variant: a plain insert.
FreshRecord(d) == EmptyRecord

\* disc_records.entry(d).or_insert_with(..)
RecordOf(d) == IF disc_records[d] = None THEN EmptyRecord ELSE disc_records[d]

\* parse_discid.  The first label of a disc stays.
ParseDiscid(l) ==
    /\ l.leader = "DISCID"
    /\ IF l.disc = None THEN Skip
       ELSE /\ current_discid' = l.disc
            /\ disc_records' = [disc_records EXCEPT ![l.disc] =
                  [RecordOf(l.disc) EXCEPT !.label = IF @ = None THEN l.label ELSE @]]
            /\ UNCHANGED <<by_disc_id, collections, skipped>>

\* A later row replaces a disc's value; title keys accumulate.
WithRow(rec, l) ==
    IF l.leader = "TK" THEN [rec EXCEPT !.title_keys = Append(@, l.value)]
                       ELSE [rec EXCEPT !.fields[l.leader] = l.value]

\* Faulty variant: a row outside any scope is dropped without a report.
ParseScopedSilently(l) ==
    /\ l.leader \in Scoped
    /\ IF current_discid = None
         THEN UNCHANGED <<current_discid, by_disc_id, disc_records, collections, skipped>>
       ELSE IF l.value = None THEN Skip
       ELSE /\ disc_records' = [disc_records EXCEPT ![current_discid] =
                  WithRow(RecordOf(current_discid), l)]
            /\ UNCHANGED <<current_discid, by_disc_id, collections, skipped>>

\* parse_vid, parse_vuk, parse_mek, parse_kcd and parse_tk.
ParseScoped(l) ==
    /\ l.leader \in Scoped
    /\ IF current_discid = None \/ l.value = None THEN Skip
       ELSE /\ disc_records' = [disc_records EXCEPT ![current_discid] =
                  WithRow(RecordOf(current_discid), l)]
            /\ UNCHANGED <<current_discid, by_disc_id, collections, skipped>>

\* parse_dk, parse_pk, parse_hc, parse_dc.
ParseGlobal(l) ==
    /\ l.leader \in Globals
    /\ IF l.value = None THEN Skip
       ELSE /\ collections' = [collections EXCEPT ![l.leader] = Append(@, l.value)]
            /\ UNCHANGED <<current_discid, by_disc_id, disc_records, skipped>>

\* parse_legacy_line; a disc's later line replaces its earlier one.
ParseLegacy(l) ==
    /\ l.leader = "legacy"
    /\ IF l.disc = None THEN Skip
       ELSE /\ by_disc_id' = [by_disc_id EXCEPT ![l.disc] = l.value]
            /\ UNCHANGED <<current_discid, disc_records, collections, skipped>>

ParseUnknown(l) == l.leader = "unknown" /\ Skip

SkipBlank(l) ==
    /\ l.leader = "blank"
    /\ UNCHANGED <<current_discid, by_disc_id, disc_records, collections, skipped>>

Init ==
    /\ lines = <<>>
    /\ current_discid = None
    /\ by_disc_id = [d \in Discs |-> None]
    /\ disc_records = [d \in Discs |-> None]
    /\ collections = [g \in Globals |-> <<>>]
    /\ skipped = <<>>

ReadLine(l) ==
    /\ Len(lines) < MaxLines
    /\ lines' = Append(lines, l)
    /\ \/ ParseDiscid(l)
       \/ ParseScoped(l)
       \/ ParseGlobal(l)
       \/ ParseLegacy(l)
       \/ ParseUnknown(l)
       \/ SkipBlank(l)

Next == \E l \in Lines : ReadLine(l)

Spec == Init /\ [][Next]_vars
-----------------------------------------------------------------------------
\* Faulty variant: the scoped row is preferred.
VukScopedFirst(d) ==
    IF disc_records[d] # None /\ disc_records[d].fields["VUK"] # None
      THEN disc_records[d].fields["VUK"] ELSE by_disc_id[d]

\* vuk_for_disc, and AacsVolume::resolve_vuk_from_keydb.
VukForDisc(d) ==
    IF by_disc_id[d] # None THEN by_disc_id[d]
    ELSE IF disc_records[d] = None THEN None ELSE disc_records[d].fields["VUK"]
-----------------------------------------------------------------------------
(* What the file says, read as a whole *)

Last(S) == CHOOSE n \in S : \A m \in S : m <= n

\* The disc of the latest well-formed DISCID row at or before line n.
DiscidRows(n) == {m \in 1..n : lines[m].leader = "DISCID" /\ lines[m].disc # None}
ScopeAt(n) == IF DiscidRows(n) = {} THEN None ELSE lines[Last(DiscidRows(n))].disc

\* The lines that give disc d a value under a leader.
RowsFor(d, leader) ==
    {n \in 1..Len(lines) :
        lines[n].leader = leader /\ lines[n].value # None /\ ScopeAt(n) = d}
LegacyFor(d) ==
    {n \in 1..Len(lines) : lines[n].leader = "legacy" /\ lines[n].disc = d}

LastValue(S) == IF S = {} THEN None ELSE lines[Last(S)].value

Unreadable(n) ==
    \/ lines[n].leader = "unknown"
    \/ lines[n].leader \in {"DISCID", "legacy"} /\ lines[n].disc = None
    \/ lines[n].leader \in Scoped \cup Globals /\ lines[n].value = None
    \/ lines[n].leader \in Scoped /\ ScopeAt(n) = None
-----------------------------------------------------------------------------
(* What holds of it *)

\* Every row under a well-formed DISCID row ends up with that disc and no other:
\* the last value of each field, the title keys all of them in order, whatever
\* legacy, global and unreadable lines come between and however often a disc's
\* scope is closed and opened again.
RowsStayWithTheirDisc ==
    \A d \in Discs :
        /\ disc_records[d] = None <=> d \notin {ScopeAt(n) : n \in 1..Len(lines)}
        /\ disc_records[d] # None =>
              /\ \A f \in Fields : disc_records[d].fields[f] = LastValue(RowsFor(d, f))
              /\ Len(disc_records[d].title_keys) = Cardinality(RowsFor(d, "TK"))
              /\ \A n \in RowsFor(d, "TK") :
                    disc_records[d].title_keys[
                        Cardinality({m \in RowsFor(d, "TK") : m <= n})] = lines[n].value

\* The report is the list of the lines that were lost, all of them, each by its
\* 1-based number, in the order of the file.
ReportIsExact ==
    /\ {skipped[k] : k \in DOMAIN skipped} = {n \in 1..Len(lines) : Unreadable(n)}
    /\ \A j, k \in DOMAIN skipped : j < k => skipped[j] < skipped[k]

\* The VUK of a disc is the last the file gives it: that of its legacy line if
\* it has one, else that of its scoped rows.
LookupFindsTheVuk ==
    \A d \in Discs :
        VukForDisc(d) = IF LegacyFor(d) # {} THEN LastValue(LegacyFor(d))
                        ELSE LastValue(RowsFor(d, "VUK"))

\* The rows of a disc are those "that follow until the next DISCID row": one
\* after an unreadable DISCID row has no disc and is rejected.
NearestDiscid(n) == {m \in 1..n : lines[m].leader = "DISCID"}
RowsEndAtNextDiscid ==
    \A n \in 1..Len(lines) :
        (/\ lines[n].leader \in Scoped
         /\ NearestDiscid(n) # {} /\ lines[Last(NearestDiscid(n))].disc = None)
        => n \in {skipped[k] : k \in DOMAIN skipped}
=============================================================================
