----------------------------- MODULE MCKThread -----------------------------
(* Instances of KThread: who may call what.                                *)
EXTENDS KThread

\* Single-threaded processes; fork may run out of memory.
ProcCalls == [t \in Thread |-> IF t[1] = initproc THEN {"fork", "wait", "no_memory"}
                               ELSE {"fork", "wait", "exit"}]

\* A process whose threads come and go, until exit() takes them along; init
\* may kill it at any moment.
ThreadCalls == [t \in Thread |->
  IF t[1] = initproc THEN {"fork", "kill"}
  ELSE IF t[2] = 0 THEN {"kthread_create", "kthread_kill", "kthread_join"}
  ELSE {"kthread_exit", "exit", "sleep"}]
=============================================================================
