------------------------------ MODULE MCUsage ------------------------------
(* An instance of UsageFile for TLC: blocks of which one fills an area     *)
(* almost, and two need a second.                                          *)
EXTENDS UsageFile

MCLongRules == {[type |-> 999, version |-> 0, data |-> Repeat(n, 1)] : n \in {0, 25}}
=============================================================================
