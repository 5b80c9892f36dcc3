------------------------------ MODULE MCDrive ------------------------------
(* An instance of Drive for TLC. *)
EXTENDS Drive, SequencesExt

\* Every list of at most one extent, the lists of two extents that touch,
\* overlap or are empty, and every order of three unit extents.
PairExtents == [start_lba : {0, 1}, lba_count : {0, 1, 2}]
UnitExtents == [start_lba : {0, 1, 2}, lba_count : {1}]
MCLists == BoundedSeq(Extent, 1) \cup [1..2 -> PairExtents] \cup [1..3 -> UnitExtents]

\* Every byte of the address differs.
MCTargets == {[lba |-> 16909060, blocks |-> 5], [lba |-> 7, blocks |-> 255]}

Descriptor(flag, version) ==
    [current |-> flag, persistent |-> ~flag, version |-> version,
     read_drive_certificate |-> flag, return_mkb_of_cprm |-> ~flag,
     write_bus_encryption |-> flag, bus_encryption_capable |-> ~flag,
     binding_nonce_generation |-> flag, block_count_for_binding_nonce |-> 9,
     number_of_agids |-> 4, aacs_version |-> 1]
MCDescriptors == {Descriptor(TRUE, 2), Descriptor(FALSE, 15)}
=============================================================================
