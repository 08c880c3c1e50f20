---------------------------- MODULE AtomicStore ----------------------------
(***************************************************************************)
(* What the log of kernel/log.c promises to the file-system calls above it *)
(* and to the disk below it.  Operations run between begin_op() and        *)
(* end_op() and change blocks of a volatile view; the stable view changes  *)
(* only while no operation is running, and then in one step, to the whole  *)
(* volatile view.  A crash loses the volatile view and nothing else, so an *)
(* operation survives a crash with all of its writes or with none.         *)
(***************************************************************************)
CONSTANTS Proc,     \* the processes that make file-system calls
          Block,    \* the home blocks of the file system
          Val       \* the contents a block can have

VARIABLES durable,  \* the blocks as recovery would rebuild them
          current,  \* the blocks as a running operation reads them
          active    \* the processes between begin_op() and end_op()

absVars == <<durable, current, active>>

AbsInit == /\ durable \in [Block -> Val]
           /\ current = durable
           /\ active = {}

AbsBegin(p) == /\ p \notin active
               /\ active' = active \union {p}
               /\ UNCHANGED <<durable, current>>

AbsWrite(p, b, v) == /\ p \in active
                     /\ current' = [current EXCEPT ![b] = v]
                     /\ UNCHANGED <<durable, active>>

AbsEnd(p) == /\ p \in active
             /\ active' = active \ {p}
             /\ UNCHANGED <<durable, current>>

AbsCommit == /\ active = {}
             /\ durable' = current
             /\ UNCHANGED <<current, active>>

AbsCrash == /\ current' = durable
            /\ active' = {}
            /\ UNCHANGED durable

AbsNext == \/ \E p \in Proc : AbsBegin(p) \/ AbsEnd(p)
           \/ \E p \in Proc, b \in Block, v \in Val : AbsWrite(p, b, v)
           \/ AbsCommit
           \/ AbsCrash

AbsSpec == AbsInit /\ [][AbsNext]_absVars
=============================================================================
