--------------------------- MODULE MCBusExtents ---------------------------
(* Instances of BusExtents for TLC. *)
EXTENDS BusExtents, SequencesExt

\* Every list of at most one extent, the lists of two extents that touch,
\* overlap or are empty, and every order of three unit extents.
PairExtents == [start_lba : {0, 1}, lba_count : {0, 1, 2}]
UnitExtents == [start_lba : {0, 1, 2}, lba_count : {1}]
MCLists == BoundedSeq(Extent, 1) \cup [1..2 -> PairExtents] \cup [1..3 -> UnitExtents]

\* An empty list, a short one, and one whose 2 + N*16 bytes no longer fit the
\* length field.
Unit(n) == [start_lba |-> n - 1, lba_count |-> 1]
MCLongLists == {<<>>, <<Unit(1)>>, [n \in 1..4096 |-> Unit(n)]}
=============================================================================
