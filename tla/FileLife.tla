------------------------------ MODULE FileLife ------------------------------
(***************************************************************************)
(* What the inode layer promises: an inode lives from the moment it is     *)
(* allocated until it has neither a name nor a user, and only then can it  *)
(* be given away again.                                                    *)
(***************************************************************************)
CONSTANTS Name, Inode, NoInode

VARIABLES
  alive,        \* the allocated inodes
  names,        \* names[n]: the inode with this name, or NoInode
  open          \* inodes that somebody has open

vars == <<alive, names, open>>

Init == alive = {} /\ names = [n \in Name |-> NoInode] /\ open = {}

Named == {names[n] : n \in Name}

Allocate(i) ==
  /\ i \in Inode \ alive
  /\ alive' = alive \union {i}
  /\ UNCHANGED <<names, open>>

SetName(n, i) ==
  /\ names[n] = NoInode
  /\ i \in alive
  /\ names' = [names EXCEPT ![n] = i]
  /\ UNCHANGED <<alive, open>>

Unlink(n) ==
  /\ names[n] # NoInode
  /\ names' = [names EXCEPT ![n] = NoInode]
  /\ UNCHANGED <<alive, open>>

Open(i) ==
  /\ i \in alive
  /\ open' = open \union {i}
  /\ UNCHANGED <<alive, names>>

Close(i) ==
  /\ open' = open \ {i}
  /\ UNCHANGED <<alive, names>>

Free(i) ==
  /\ i \in alive \ (Named \union open)
  /\ alive' = alive \ {i}
  /\ UNCHANGED <<names, open>>

\* After a crash nothing is open, and names and inodes are those of some
\* earlier moment; a name still means an inode that is alive.
Crash ==
  /\ open' = {}
  /\ alive' \in SUBSET Inode
  /\ names' \in [Name -> alive' \union {NoInode}]

Next ==
  \/ Crash
  \/ \E i \in Inode :
       \/ Allocate(i) \/ Open(i) \/ Close(i) \/ Free(i)
       \/ \E n \in Name : SetName(n, i)
  \/ \E n \in Name : Unlink(n)

Spec == Init /\ [][Next]_vars
=============================================================================
