------------------------------ MODULE MCPolicy ------------------------------
(* Small instances of Policy for TLC. *)
EXTENDS Policy

\* init may ask for a negative priority.
SomePsPriority == [p \in Proc |-> IF p = 1 THEN {-5} ELSE {}]
SomeCfsPriority == [p \in Proc |-> IF p = NPROC THEN {2} ELSE {}]
NoPriority == [p \in Proc |-> {}]
=============================================================================
