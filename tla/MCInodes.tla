------------------------------ MODULE MCInodes ------------------------------
(* Small instances of Inodes for TLC.                                      *)
EXTENDS Inodes

CONSTANTS p1, p2, a, b

\* One process makes, opens and removes files, the other one gives them a second
\* name.
SomeCalls ==
  [p \in Proc |-> [l \in Syscall |->
    CASE p = p1 /\ l \in {"create", "unlink"} -> {a}
      [] p = p1 /\ l = "open" -> {b}
      [] p = p2 /\ l = "link" -> {a}
      [] OTHER -> {}]]
=============================================================================
