---------------------------- MODULE MCMkbRecords ----------------------------
(* Two MKBs of the AACS LA: one with a host list of two signed blocks and  *)
(* an unknown record, one with a drive list whose second block has no      *)
(* signature of its own.                                                   *)
EXTENDS MkbRecords

R(tag, payload) == [tag |-> tag, payload |-> payload]
Signature(n) == <<n, n>>

Tv(v) == R(16, <<v>>)
Vmk == R(129, <<7>>)

\* A list's signed cells up to its n-th signature, and its payload.
Upto(n) == IF n = 1 THEN <<0, 2, 0, 1, 8, 1>>
                    ELSE <<0, 2, 0, 1, 8, 1>> \o Signature(61) \o <<0, 1, 8, 2>>
HostList == R(33, Upto(2) \o Signature(62))
DriveList == R(32, Upto(2))

Records1 == <<Tv(1), HostList, R(3, <<>>), Vmk>>
Records2 == <<Tv(2), DriveList>>
MCMasters == {Append(Records1, R(2, Signature(71))), Append(Records2, R(2, Signature(72)))}

Sig(n, data) == [sig |-> Signature(n), data |-> data]
MCLaSigned ==
    {Sig(61, ListData(Tv(1), HostList, Len(Upto(1)))), Sig(62, ListData(Tv(1), HostList, Len(Upto(2)))),
     Sig(61, ListData(Tv(2), DriveList, Len(Upto(1)))),
     Sig(71, FileOf(Records1)), Sig(72, FileOf(Records2))}

\* Behind the MKB: a host list of the same shape with other entries, a longer
\* and a shorter one, a longer drive list whose second block has the End record's
\* signature, and a second Type-and-Version and End record.
MCTails ==
    {Bytes(R(33, <<0, 2, 0, 1, 9, 9>> \o Signature(61) \o <<0, 1, 9, 9>> \o Signature(62))),
     Bytes(R(33, Upto(2) \o Signature(62) \o <<0, 1, 8, 3>> \o Signature(61))),
     Bytes(R(33, Upto(1) \o Signature(61))) \o Bytes(R(129, <<9>>)),
     Bytes(R(32, Upto(2) \o Signature(72) \o <<0, 1, 8, 3>> \o Signature(61))),
     Bytes(R(16, <<2>>)) \o Bytes(R(2, Signature(71)))}

MCMinLen == [t \in Plain |-> IF t \in {16, 129, 7, 13} THEN 1 ELSE 0]
=============================================================================
