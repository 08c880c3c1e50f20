------------------------------ MODULE MCFiles ------------------------------
(* Small instances of Files for TLC.                                       *)
EXTENDS Files, TLC

SomeOffsets == {-1, 0, 2}
Symmetry == Permutations(Proc)
=============================================================================
