----------------------------- MODULE BlockStore -----------------------------
(***************************************************************************)
(* What the buffer cache promises (kernel/bio.c): one copy of every block, *)
(* held by at most one process at a time and changed by its holder only.   *)
(***************************************************************************)
CONSTANTS Proc, Block, Val, Nobody
VARIABLES store, holder

\* bread() returns with the block locked.
Take(p, k) == holder[k] = Nobody /\ holder' = [holder EXCEPT ![k] = p] /\ UNCHANGED store
Write(p, k, v) == holder[k] = p /\ store' = [store EXCEPT ![k] = v] /\ UNCHANGED holder
Release(p, k) == holder[k] = p /\ holder' = [holder EXCEPT ![k] = Nobody] /\ UNCHANGED store

StoreInit == store \in [Block -> Val] /\ holder = [k \in Block |-> Nobody]
StoreNext == \E p \in Proc, k \in Block :
  Take(p, k) \/ Release(p, k) \/ \E v \in Val : Write(p, k, v)
StoreSpec == StoreInit /\ [][StoreNext]_<<store, holder>>
=============================================================================
