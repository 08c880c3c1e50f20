---------------------------- MODULE MCSleepLock ----------------------------
(* Small instances of SleepLock for TLC. *)
EXTENDS SleepLock, TLC

Symmetry == Permutations(Proc) \union Permutations(CPU)
=============================================================================
