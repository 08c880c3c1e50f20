------------------------------ MODULE KThread ------------------------------
(***************************************************************************)
(* Processes and their kernel threads (tree 2: kernel/proc.c, kthread.c):  *)
(* fork, exit, wait, kill, kthread_create, kthread_exit, kthread_kill,     *)
(* kthread_join, sleep, the checks usertrap() makes, and the scheduler.    *)
(*                                                                         *)
(* A section that holds wait_lock, p->lock or k_lock throughout is one     *)
(* action; wlock and tlock are variables because wait(), kthread_join()    *)
(* and sys_sleep() hold them while they look at other locks.  The thread   *)
(* identifier of a slot is its index: allockthread() numbers slots as it   *)
(* takes them and only freeproc() gives them back, all together.  Exit     *)
(* statuses, files and memory are left out.  There are as many CPUs as     *)
(* threads that can run.  wait() may free a process while a thread of it   *)
(* is running; what that thread does next, without page table, trapframe   *)
(* and soon without a kernel stack of its own, is undefined, and there the *)
(* model ends: panicked is then "undefined", which no code prints.         *)
(***************************************************************************)
EXTENDS Naturals, FiniteSets

CONSTANTS
  Proc,        \* slots of proc[]
  initproc,    \* the slot userinit() took
  NoProc,      \* a null struct proc *
  NoThread,    \* "nobody holds this lock"
  NKT,         \* thread slots of a process (param.h:2)
  Calls        \* Calls[t]: the system calls the program of t may make

Slot == 0..NKT - 1
Thread == Proc \X Slot
Main(p) == <<p, 0>>
Op == {"fork", "no_memory", "wait", "exit", "kill", "sleep",
       "kthread_create", "kthread_exit", "kthread_kill", "kthread_join"}

ASSUME KThreadAssumption ==
  /\ initproc \in Proc
  /\ NoProc \notin Proc
  /\ NoThread \notin Thread
  /\ NKT \in Nat \ {0}
  /\ Calls \in [Thread -> SUBSET Op]

VARIABLES
  pstate, parent, killed,   \* struct proc
  kstate, kkilled,          \* struct kthread
  pc, arg, child,           \* where a thread is in the kernel, a slot and a
                            \* process its call is about
  exists,                   \* exists of its kthread_join()
  leaving,                  \* 1: an earlier life of the slot has set K_ZOMBIE
                            \* and not yet left its kernel stack
  noff,                     \* 1: fork() has left a spin lock locked
  first,                    \* exit()'s static int
  wlock, tlock,             \* holders of wait_lock and of tickslock
  panicked                  \* why the machine has stopped, or "no"

procVars == <<pstate, parent, killed>>
callVars == <<arg, child, exists>>
lockVars == <<noff, wlock, tlock>>
vars == <<procVars, kstate, kkilled, pc, callVars, leaving, lockVars, first, panicked>>

KState == {"unused", "used", "sleeping", "runnable", "running", "zombie"}
Holding == {"wait_sleep", "wait_go", "join_sleep", "join_go", "exit_sleep", "exit_go"}
PC == Holding \union
      {"none", "user", "check", "sys", "fork", "wait", "join", "exit_scan",
       "sleep", "sleep_check", "sleep_go",
       "kthread_exit", "exit", "first", "mark", "exit_join", "exit_last", "resumed"}

Init ==
  /\ pstate = [p \in Proc |-> IF p = initproc THEN "used" ELSE "unused"]
  /\ parent = [p \in Proc |-> NoProc]
  /\ killed = [p \in Proc |-> 0]
  /\ kstate = [t \in Thread |-> IF t = Main(initproc) THEN "runnable" ELSE "unused"]
  /\ kkilled = [t \in Thread |-> 0]
  /\ pc = [t \in Thread |-> IF t = Main(initproc) THEN "user" ELSE "none"]
  /\ arg = [t \in Thread |-> 0]
  /\ child = [t \in Thread |-> NoProc]
  /\ exists = [t \in Thread |-> 0]
  /\ leaving = [t \in Thread |-> 0]
  /\ noff = [t \in Thread |-> 0]
  /\ first = 1
  /\ wlock = NoThread
  /\ tlock = NoThread
  /\ panicked = "no"

-----------------------------------------------------------------------------
(* Scheduling, sleep and wakeup.                                           *)

At(t, l) == panicked = "no" /\ kstate[t] = "running" /\ pc[t] = l
Goto(t, l) == pc' = [pc EXCEPT ![t] = l]
Panic(m) ==
  /\ panicked' = m
  /\ UNCHANGED <<procVars, kstate, kkilled, pc, callVars, leaving, lockVars, first>>

\* k_chan: sys_sleep() sleeps on &ticks, wait() and kthread_join() on p.
OnTicks(t) == pc[t] = "sleep"

\* wakeup(p) for every p of S.
Woken(S) == [u \in Thread |->
  IF kstate[u] = "sleeping" /\ ~OnTicks(u) /\ u[1] \in S THEN "runnable" ELSE kstate[u]]

Schedule(t) ==
  /\ panicked = "no"
  /\ pstate[t[1]] = "used"
  /\ kstate[t] = "runnable"
  /\ kstate' = [kstate EXCEPT ![t] = "running"]
  /\ UNCHANGED <<procVars, kkilled, pc, callVars, leaving, lockVars, first, panicked>>

\* A timer interrupt; it cannot come while a spin lock is held in the kernel.
Yield(t) ==
  /\ panicked = "no"
  /\ kstate[t] = "running"
  /\ t \notin {wlock, tlock}
  /\ noff[t] = 0
  /\ kstate' = [kstate EXCEPT ![t] = "runnable"]
  /\ UNCHANGED <<procVars, kkilled, pc, callVars, leaving, lockVars, first, panicked>>

\* User code runs with interrupts on whatever noff is: sched() finds the lock.
YieldPanics(t) ==
  /\ At(t, "user")
  /\ noff[t] = 1
  /\ Panic("sched locks")

\* sleep(): gives back the lock its caller passed, tickslock from sys_sleep()
\* and else wait_lock; any other lock is fatal in sched().
OtherLock(t, l) == noff[t] = 1 \/ (tlock = t /\ l # "sleep")
SleepAs(t, l) ==
  \/ OtherLock(t, l) /\ Panic("sched locks")
  \/ /\ ~OtherLock(t, l)
     /\ kstate' = [kstate EXCEPT ![t] = "sleeping"]
     /\ wlock' = IF wlock = t THEN NoThread ELSE wlock
     /\ tlock' = IF tlock = t THEN NoThread ELSE tlock
     /\ Goto(t, l)
     /\ UNCHANGED <<procVars, kkilled, callVars, leaving, noff, first, panicked>>

\* The call of sleep() after the last look at the killed flags: a kill that
\* comes in between wakes nobody.
Doze(t) ==
  \/ At(t, "wait_go") /\ SleepAs(t, "wait")
  \/ At(t, "join_go") /\ SleepAs(t, "join")
  \/ At(t, "exit_go") /\ SleepAs(t, "exit_scan")
  \/ At(t, "sleep_go") /\ SleepAs(t, "sleep")

\* clockintr().
Tick ==
  /\ panicked = "no"
  /\ tlock = NoThread
  /\ \E t \in Thread : kstate[t] = "sleeping" /\ OnTicks(t)
  /\ kstate' = [u \in Thread |->
       IF kstate[u] = "sleeping" /\ OnTicks(u) THEN "runnable" ELSE kstate[u]]
  /\ UNCHANGED <<procVars, kkilled, pc, callVars, leaving, lockVars, first, panicked>>

\* The dead thread reaches sched() at last.  If its slot has been handed out
\* again, swtch() overwrites the context of the new thread, which will resume
\* in the middle of exit(); if the new thread is running, sched() notices.
Leave(t) ==
  /\ panicked = "no"
  /\ leaving[t] = 1
  /\ \/ (noff[t] = 1 \/ tlock = t) /\ Panic("sched locks")
     \/ noff[t] = 0 /\ tlock # t /\ kstate[t] = "running" /\ Panic("sched running")
     \/ /\ noff[t] = 0 /\ tlock # t /\ kstate[t] # "running"
        /\ leaving' = [leaving EXCEPT ![t] = 0]
        /\ pc' = [pc EXCEPT ![t] = IF kstate[t] \in {"unused", "zombie"}
                                   THEN pc[t] ELSE "resumed"]
        /\ UNCHANGED <<procVars, kstate, kkilled, callVars, lockVars, first, panicked>>

\* sched() returned to exit(): panic("zombie exit").
Resumed(t) == At(t, "resumed") /\ Panic("zombie exit")

-----------------------------------------------------------------------------
(* usertrap(): the checks on the way in and out of the kernel.             *)

CheckProc(t) ==
  /\ At(t, "user")
  /\ Goto(t, IF killed[t[1]] = 1 THEN "exit" ELSE "check")
  /\ UNCHANGED <<procVars, kstate, kkilled, callVars, leaving, lockVars, first, panicked>>

CheckThread(t) ==
  /\ At(t, "check")
  /\ Goto(t, IF kkilled[t] = 1 THEN "kthread_exit" ELSE "sys")
  /\ UNCHANGED <<procVars, kstate, kkilled, callVars, leaving, lockVars, first, panicked>>

\* A call that starts with nothing but its first step, at label l.
Enter(t, op, l) ==
  /\ At(t, "sys")
  /\ op \in Calls[t]
  /\ Goto(t, l)
  /\ UNCHANGED <<procVars, kstate, kkilled, callVars, leaving, lockVars, first, panicked>>

NoCall(t) ==
  /\ At(t, "sys")
  /\ Goto(t, "user")
  /\ UNCHANGED <<procVars, kstate, kkilled, callVars, leaving, lockVars, first, panicked>>

-----------------------------------------------------------------------------
(* fork.                                                                   *)

\* allocproc() and what fork() does before it drops the child's locks.
Fork(t, np) ==
  /\ At(t, "sys")
  /\ "fork" \in Calls[t]
  /\ pstate[np] = "unused"
  /\ pstate' = [pstate EXCEPT ![np] = "used"]
  /\ kstate' = [kstate EXCEPT ![Main(np)] = "used"]
  /\ pc' = [pc EXCEPT ![t] = "fork", ![Main(np)] = "user"]
  /\ child' = [child EXCEPT ![t] = np]
  /\ UNCHANGED <<parent, killed, kkilled, arg, exists, leaving, lockVars, first, panicked>>

\* uvmcopy() fails: freeproc(np), release(&np->lock), and nothing releases
\* the k_lock of the child's first thread.  Left out: the other CPUs, which
\* spin when they come to that lock.
ForkNoMemory(t, np) ==
  /\ At(t, "sys")
  /\ {"fork", "no_memory"} \subseteq Calls[t]
  /\ pstate[np] = "unused"
  /\ noff' = [noff EXCEPT ![t] = 1]
  /\ Goto(t, "user")
  /\ UNCHANGED <<procVars, kstate, kkilled, callVars, leaving, wlock, tlock, first, panicked>>

ForkPublish(t) ==
  /\ At(t, "fork")
  /\ wlock = NoThread
  /\ parent' = [parent EXCEPT ![child[t]] = t[1]]
  /\ kstate' = [kstate EXCEPT ![Main(child[t])] = "runnable"]
  /\ child' = [child EXCEPT ![t] = NoProc]
  /\ Goto(t, "user")
  /\ UNCHANGED <<pstate, killed, kkilled, arg, exists, leaving, lockVars, first, panicked>>

-----------------------------------------------------------------------------
(* wait.                                                                   *)

Children(p) == {q \in Proc : parent[q] = p}
Threads(p) == {p} \X Slot

\* freeproc() takes no k_lock and looks at no k_state: it may free a thread that
\* another CPU is running, and the model follows no further.
Reap(t, q) ==
  /\ pstate' = [pstate EXCEPT ![q] = "unused"]
  /\ parent' = [parent EXCEPT ![q] = NoProc]
  /\ killed' = [killed EXCEPT ![q] = 0]
  /\ kstate' = [u \in Thread |-> IF u[1] = q THEN "unused" ELSE kstate[u]]
  /\ kkilled' = [u \in Thread |-> IF u[1] = q THEN 0 ELSE kkilled[u]]
  /\ pc' = [u \in Thread |-> IF u[1] = q THEN "none" ELSE IF u = t THEN "user" ELSE pc[u]]
  /\ arg' = [u \in Thread |-> IF u[1] = q THEN 0 ELSE arg[u]]
  /\ child' = [u \in Thread |-> IF u[1] = q THEN NoProc ELSE child[u]]
  /\ exists' = [u \in Thread |-> IF u[1] = q THEN 0 ELSE exists[u]]
  /\ panicked' = IF \E u \in Threads(q) : kstate[u] = "running"
                 THEN "undefined" ELSE panicked
  /\ UNCHANGED <<leaving, lockVars, first>>

WaitScan(t) ==
  /\ At(t, "wait")
  /\ wlock = NoThread
  /\ \/ \E q \in Children(t[1]) : pstate[q] = "zombie" /\ Reap(t, q)
     \/ /\ \A q \in Children(t[1]) : pstate[q] # "zombie"
        /\ IF Children(t[1]) = {}
           THEN Goto(t, "user") /\ UNCHANGED wlock
           ELSE Goto(t, "wait_sleep") /\ wlock' = t
        /\ UNCHANGED <<procVars, kstate, kkilled, callVars, leaving, noff, tlock, first,
                       panicked>>

WaitSleep(t) ==
  /\ At(t, "wait_sleep")
  /\ IF killed[t[1]] = 1 THEN Goto(t, "user") /\ wlock' = NoThread
                         ELSE Goto(t, "wait_go") /\ UNCHANGED wlock
  /\ UNCHANGED <<procVars, kstate, kkilled, callVars, leaving, noff, tlock, first, panicked>>

-----------------------------------------------------------------------------
(* The calls about threads.                                                *)

\* allockthread() takes the first free slot; k_killed keeps what kill() left.
KthreadCreate(t) ==
  LET free == {k \in Slot : kstate[<<t[1], k>>] = "unused"} IN
  /\ At(t, "sys")
  /\ "kthread_create" \in Calls[t]
  /\ \E k \in free :
       /\ \A j \in free : k <= j
       /\ kstate' = [kstate EXCEPT ![<<t[1], k>>] = "runnable"]
       /\ pc' = [pc EXCEPT ![t] = "user", ![<<t[1], k>>] = "user"]
  /\ UNCHANGED <<procVars, kkilled, callVars, leaving, lockVars, first, panicked>>

\* Sets k_killed of the threads of S and wakes those that sleep.
Hit(S) ==
  /\ kkilled' = [u \in Thread |-> IF u \in S THEN 1 ELSE kkilled[u]]
  /\ kstate' = [u \in Thread |->
       IF u \in S /\ kstate[u] = "sleeping" THEN "runnable" ELSE kstate[u]]

\* The loop returns after the first slot, whether or not it holds the thread.
KthreadKill(t, k) ==
  /\ At(t, "sys")
  /\ "kthread_kill" \in Calls[t]
  /\ IF k = 0 THEN Hit({<<t[1], 0>>}) ELSE UNCHANGED <<kkilled, kstate>>
  /\ Goto(t, "user")
  /\ UNCHANGED <<procVars, callVars, leaving, lockVars, first, panicked>>

\* kill() marks every slot, in use or not.
Kill(t, p) ==
  /\ At(t, "sys")
  /\ "kill" \in Calls[t]
  /\ pstate[p] # "unused"
  /\ killed' = [killed EXCEPT ![p] = 1]
  /\ Hit(Threads(p))
  /\ Goto(t, "user")
  /\ UNCHANGED <<pstate, parent, callVars, leaving, lockVars, first, panicked>>

\* A bug the test of kthread_exit() could have: dead threads count.
OnlyThreadUnused(t) == \A u \in Threads(t[1]) \ {t} : kstate[u] = "unused"

OnlyThread(t) == \A u \in Threads(t[1]) \ {t} : kstate[u] \in {"zombie", "unused"}

\* A bug: waking the parent process, not the joiners.
WakeParent(t) == {parent[t[1]]}

\* Who kthread_exit() wakes: the threads of its own process.
WakeOwn(t) == {t[1]}

Die(t, S) ==
  /\ kstate' = [Woken(S) EXCEPT ![t] = "zombie"]
  /\ leaving' = [leaving EXCEPT ![t] = 1]
  /\ pc' = [pc EXCEPT ![t] = "none"]

KthreadExit(t) ==
  /\ At(t, "kthread_exit")
  /\ wlock = NoThread
  /\ IF OnlyThread(t)
     THEN Goto(t, "exit") /\ UNCHANGED <<kstate, leaving>>
     ELSE Die(t, WakeOwn(t))
  /\ UNCHANGED <<procVars, kkilled, callVars, lockVars, first, panicked>>

\* kthread_join() of the thread in slot arg[t], from label scan; it ends by Done.
\* A call that has never found the thread returns; one that has found it alive
\* once sleeps unless it is dead.
JoinScan(t, scan, hold, Done) ==
  LET state == kstate[<<t[1], arg[t]>>] IN
  /\ At(t, scan)
  /\ wlock = NoThread
  /\ IF state = "zombie" \/ (state = "unused" /\ exists[t] = 0)
     THEN Done /\ UNCHANGED wlock
     ELSE Goto(t, hold) /\ wlock' = t /\ exists' = [exists EXCEPT ![t] = 1] /\ UNCHANGED arg
  /\ UNCHANGED <<procVars, kstate, kkilled, child, leaving, noff, tlock, first, panicked>>

JoinSleep(t, hold, go, Done) ==
  /\ At(t, hold)
  /\ IF kkilled[t] = 1 THEN Done /\ wlock' = NoThread
                       ELSE Goto(t, go) /\ UNCHANGED <<arg, exists, wlock>>
  /\ UNCHANGED <<procVars, kstate, kkilled, child, leaving, noff, tlock, first, panicked>>

\* t goes on at label l, with slot k: exists is a variable of the call.
GoOn(t, l, k) ==
  /\ Goto(t, l)
  /\ arg' = [arg EXCEPT ![t] = k]
  /\ exists' = [exists EXCEPT ![t] = 0]

JoinDone(t) == GoOn(t, "user", 0)

KthreadJoin(t, k) ==
  /\ At(t, "sys")
  /\ "kthread_join" \in Calls[t]
  /\ GoOn(t, "join", k)
  /\ UNCHANGED <<procVars, kstate, kkilled, child, leaving, lockVars, first, panicked>>

\* sys_sleep(): the loop holds tickslock, and still does in kthread_exit().
SleepTest(t) ==
  /\ At(t, "sleep")
  /\ tlock = NoThread
  /\ \/ Goto(t, "user") /\ UNCHANGED tlock           \* n ticks have passed
     \/ IF killed[t[1]] = 1 THEN Goto(t, "user") /\ UNCHANGED tlock
                            ELSE Goto(t, "sleep_check") /\ tlock' = t
  /\ UNCHANGED <<procVars, kstate, kkilled, callVars, leaving, noff, wlock, first, panicked>>

SleepCheck(t) ==
  /\ At(t, "sleep_check")
  /\ Goto(t, IF kkilled[t] = 1 THEN "kthread_exit" ELSE "sleep_go")
  /\ UNCHANGED <<procVars, kstate, kkilled, callVars, leaving, lockVars, first, panicked>>

-----------------------------------------------------------------------------
(* exit.                                                                   *)

\* if(first): the test and the assignment are not one step.
ExitTest(t) ==
  /\ At(t, "exit")
  /\ Goto(t, IF first = 1 THEN "first" ELSE "exit_last")
  /\ UNCHANGED <<procVars, kstate, kkilled, callVars, leaving, lockVars, first, panicked>>

ExitFirst(t) ==
  /\ At(t, "first")
  /\ first' = 0
  /\ GoOn(t, "mark", 0)
  /\ UNCHANGED <<procVars, kstate, kkilled, child, leaving, lockVars, panicked>>

\* Next slot of a loop over the thread table that goes on at label l.
NextSlot(t, loop, l) ==
  IF arg[t] + 1 < NKT THEN GoOn(t, loop, arg[t] + 1) ELSE GoOn(t, l, 0)

ExitMark(t) ==
  LET u == <<t[1], arg[t]>> IN
  /\ At(t, "mark")
  /\ IF u # t /\ kstate[u] # "unused" THEN Hit({u}) ELSE UNCHANGED <<kkilled, kstate>>
  /\ NextSlot(t, "mark", "exit_join")
  /\ UNCHANGED <<procVars, child, leaving, lockVars, first, panicked>>

\* The second loop; a free slot has k_tid 0, which kthread_join() never finds.
ExitJoin(t) ==
  LET u == <<t[1], arg[t]>> IN
  /\ At(t, "exit_join")
  /\ IF u = t \/ kstate[u] = "unused"
     THEN NextSlot(t, "exit_join", "exit_last")
     ELSE Goto(t, "exit_scan") /\ UNCHANGED <<arg, exists>>
  /\ UNCHANGED <<procVars, kstate, kkilled, child, leaving, lockVars, first, panicked>>

\* A bug reparent() could have: leaving dead children behind.
ReparentUsed(p) ==
  [q \in Proc |-> IF parent[q] = p /\ pstate[q] = "used" THEN initproc ELSE parent[q]]

Reparent(p) == [q \in Proc |-> IF parent[q] = p THEN initproc ELSE parent[q]]

\* A bug exit() could have: leaving its wakeup(p->parent) out.
WakeOnlyInit(p) == IF Children(p) # {} THEN {initproc} ELSE {}

WakeOnExit(p) == {parent[p]} \union (IF Children(p) # {} THEN {initproc} ELSE {})

ExitLast(t) ==
  /\ At(t, "exit_last")
  /\ \/ t[1] = initproc /\ Panic("init exiting")
     \/ /\ t[1] # initproc
        /\ wlock = NoThread
        /\ parent' = Reparent(t[1])
        /\ pstate' = [pstate EXCEPT ![t[1]] = "zombie"]
        /\ Die(t, WakeOnExit(t[1]))
        /\ UNCHANGED <<killed, kkilled, callVars, lockVars, first, panicked>>

-----------------------------------------------------------------------------
Join(t) ==
  \/ \E k \in Slot : KthreadJoin(t, k)
  \/ JoinScan(t, "join", "join_sleep", JoinDone(t))
  \/ JoinSleep(t, "join_sleep", "join_go", JoinDone(t))

Exit(t) ==
  \/ ExitTest(t) \/ ExitFirst(t) \/ ExitMark(t) \/ ExitJoin(t) \/ ExitLast(t)
  \/ JoinScan(t, "exit_scan", "exit_sleep", NextSlot(t, "exit_join", "exit_last"))
  \/ JoinSleep(t, "exit_sleep", "exit_go", NextSlot(t, "exit_join", "exit_last"))

\* What t does in the kernel on its own account.
Step(t) ==
  \/ CheckProc(t) \/ CheckThread(t) \/ NoCall(t)
  \/ \E np \in Proc : Fork(t, np) \/ ForkNoMemory(t, np)
  \/ ForkPublish(t)
  \/ Enter(t, "wait", "wait") \/ WaitScan(t) \/ WaitSleep(t)
  \/ KthreadCreate(t)
  \/ \E k \in Slot : KthreadKill(t, k)
  \/ \E p \in Proc : Kill(t, p)
  \/ Enter(t, "kthread_exit", "kthread_exit") \/ KthreadExit(t)
  \/ Join(t)
  \/ Enter(t, "sleep", "sleep") \/ SleepTest(t) \/ SleepCheck(t)
  \/ Enter(t, "exit", "exit") \/ Exit(t)
  \/ Doze(t)
  \/ Resumed(t)

Next ==
  \/ \E t \in Thread : Schedule(t) \/ Yield(t) \/ YieldPanics(t) \/ Leave(t) \/ Step(t)
  \/ Tick

Spec == Init /\ [][Next]_vars

\* No CPU stops, so a runnable thread is run and a dead one reaches sched();
\* a thread is not always interrupted at the same instruction, and gets a spin
\* lock that is free again and again; init runs for(;;) wait(0).
InitWaits == Enter(Main(initproc), "wait", "wait")
Fairness ==
  /\ \A t \in Thread : WF_vars(Schedule(t)) /\ WF_vars(Leave(t)) /\ SF_vars(Step(t))
  /\ SF_vars(InitWaits)

LiveSpec == Spec /\ Fairness

-----------------------------------------------------------------------------
(* Properties.                                                             *)

\* Every variable keeps its type, and a thread is at a point of the kernel
\* where wait_lock is held exactly while it is the holder.
TypeOK ==
  /\ pstate \in [Proc -> {"unused", "used", "zombie"}]
  /\ parent \in [Proc -> Proc \union {NoProc}]
  /\ killed \in [Proc -> 0..1]
  /\ kstate \in [Thread -> KState]
  /\ kkilled \in [Thread -> 0..1]
  /\ pc \in [Thread -> PC]
  /\ arg \in [Thread -> Slot]
  /\ child \in [Thread -> Proc \union {NoProc}]
  /\ exists \in [Thread -> 0..1]
  /\ leaving \in [Thread -> 0..1]
  /\ noff \in [Thread -> 0..1]
  /\ first \in 0..1
  /\ wlock \in Thread \union {NoThread}
  /\ tlock \in Thread \union {NoThread}
  /\ panicked \in {"no", "sched locks", "sched running", "zombie exit",
                   "undefined", "init exiting"}

\* A process that is not finished has a thread that is not: the last thread
\* to call kthread_exit() turns it into exit(), whatever the others do
\* meanwhile (proc.c kthread_exit, only_thread).
SomeThreadAlive ==
  \A p \in Proc : pstate[p] = "used" =>
    \E t \in Threads(p) : kstate[t] \notin {"unused", "zombie"}

\* No wakeup is lost between the scan of kthread_join() and its sleep: a
\* thread asleep in a join has a target that has not exited yet.  (Only a thread
\* that wait() has freed while it was running could come back to sleep beside
\* an UNUSED slot, by its exists; from there on the code is undefined.)
JoinersWaitForLiving ==
  \A t \in Thread :
    kstate[t] = "sleeping" /\ pstate[t[1]] = "used" /\ pc[t] \in {"join", "exit_scan"} =>
      kstate[<<t[1], arg[t]>>] \notin {"zombie", "unused"}

\* No child's exit is missed: a thread asleep in wait() has a child, and no
\* dead one, not even one it inherited from a process that exited (reparent,
\* wakeup) and not when another thread of the process reaped the last child.
WaitersWaitForLiving ==
  \A t \in Thread :
    kstate[t] = "sleeping" /\ pstate[t[1]] = "used" /\ pc[t] = "wait" =>
      /\ Children(t[1]) # {}
      /\ \A q \in Children(t[1]) : pstate[q] # "zombie"

\* The parent of a process is alive, so that somebody can wait for it: exit()
\* hands every child over, dead or alive (single-threaded processes).
ParentAlive ==
  \A q \in Proc : parent[q] # NoProc => pstate[parent[q]] = "used"

\* While init has a dead child, forked or inherited, it reaps again and again:
\* no orphan's exit leaves it asleep.  (One child may be passed over for ever
\* if slots before it are reused all the time.)
DeadChildOfInit == panicked = "no" /\ \E q \in Children(initproc) : pstate[q] = "zombie"
InitReaps == \E q \in Children(initproc) : pstate[q] = "zombie" /\ pstate'[q] = "unused"
InitKeepsReaping == <>[]DeadChildOfInit => []<><<InitReaps>>_vars

Joining == {"join", "join_sleep", "join_go"}

\* A join returns once its target is dead, unless the process ends first.
JoinReturns ==
  \A t \in Thread :
    (pc[t] \in Joining /\ kstate[<<t[1], arg[t]>>] = "zombie")
       ~> (pc[t] \notin Joining \/ pstate[t[1]] # "used" \/ panicked # "no")
=============================================================================
