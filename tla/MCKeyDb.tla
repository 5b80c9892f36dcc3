------------------------------ MODULE MCKeyDb ------------------------------
(* An instance of KeyDb for TLC.  Every definition is the same under any   *)
(* exchange of discs and of values.                                        *)
EXTENDS KeyDb, TLC

Symmetry == Permutations(Discs) \cup Permutations(Values)
=============================================================================
