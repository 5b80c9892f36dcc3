------------------------------- MODULE MCDisc -------------------------------
(* Instances of Disc for TLC.  Every definition is the same under any      *)
(* exchange of discs and of values.                                        *)
EXTENDS Disc, TLC

Symmetry == Permutations(Discs) \cup Permutations(Values)

Date(y, mo, d, h, mi) ==
    [year |-> y, month |-> mo, day |-> d, hour |-> h, minute |-> mi, timezone |-> 0]

\* Each structure at the edges of its fields, a block of a type the code does
\* not know, and one whose length does not fit its field.
MCRules ==
    {[type |-> 257, epn_unasserted |-> TRUE, cci |-> "CopyOneGeneration",
      image_constraint |-> FALSE, digital_only |-> TRUE, apstb |-> 7,
      titles |-> <<"Basic", "Enhanced">>],
     [type |-> 257, epn_unasserted |-> FALSE, cci |-> "NeverCopy",
      image_constraint |-> TRUE, digital_only |-> FALSE, apstb |-> 0,
      titles |-> <<"Enhanced">>],
     [type |-> 273, title_id |-> 1, cacheable |-> TRUE, period |-> 48,
      after |-> Date(1999, 12, 31, 23, 59), before |-> Date(9999, 10, 9, 0, 10)],
     [type |-> 273, title_id |-> 2, cacheable |-> FALSE, period |-> 0,
      after |-> Undefined, before |-> Date(2026, 1, 30, 19, 5)],
     [type |-> 274, unit_key_status |-> 2, binding |-> <<"DeviceContent", 3>>],
     [type |-> 274, unit_key_status |-> 1, binding |-> <<"Reserved", 5>>],
     [type |-> 275, outputs |-> 16],
     [type |-> 272, version |-> 1, data |-> <<>>],
     [type |-> 999, version |-> 0, data |-> Repeat(LenMod + 1, 257)]}
=============================================================================
