----------------------------- MODULE SleepLock -----------------------------
(***************************************************************************)
(* The sleep locks of kernel/sleeplock.c over the machinery under every    *)
(* wait in the kernel: scheduler(), sched(), yield(), sleep(), wakeup() and *)
(* kill() of kernel/proc.c, on several CPUs.  One action per step between  *)
(* two spin-lock operations.  The module watches one sleep lock; processes *)
(* take it and give it back again and again.                               *)
(***************************************************************************)
EXTENDS Naturals, FiniteSets

CONSTANTS
  CPU, Proc,
  NoCPU,       \* a spin lock nobody holds
  NoProc       \* no process; also the scheduler's own stack

ASSUME SleepLockAssumption == NoCPU \notin CPU /\ NoProc \notin Proc

VARIABLES
  state, plock,   \* p->state, and the CPU that holds p->lock
  pc, ret,        \* where p is in the kernel, and where sched() returns to
  stack,          \* the stack a CPU runs on: a process's or the scheduler's
  spc, scan,      \* the scheduler of a CPU: its step and its variable p
  lk,             \* the CPU that holds the inner spin lock of the sleep lock
  locked, owner,  \* the sleep lock: lk->locked, lk->pid
  todo            \* the processes a wakeup() loop has not come to yet

vars == <<state, plock, pc, ret, stack, spc, scan, lk, locked, owner, todo>>
schedVars == <<stack, spc, scan>>
lockVars == <<lk, locked, owner>>

\* Where interrupts are on, no spin lock being held.
Interruptible == {"user", "want", "in"}
PC == Interruptible \union {"test", "go", "set", "switch", "resumed", "wake"}

\* Every process starts in forkret(), as if sched() had returned.
Init ==
  /\ state = [p \in Proc |-> "runnable"]
  /\ plock = [p \in Proc |-> NoCPU]
  /\ pc = [p \in Proc |-> "resumed"]
  /\ ret = [p \in Proc |-> "user"]
  /\ stack = [c \in CPU |-> NoProc]
  /\ spc = [c \in CPU |-> "idle"]
  /\ scan = [c \in CPU |-> NoProc]
  /\ lk = NoCPU
  /\ locked = 0
  /\ owner = NoProc
  /\ todo = [p \in Proc |-> {}]

On(c, p, l) == stack[c] = p /\ pc[p] = l
Goto(p, l) == pc' = [pc EXCEPT ![p] = l]

-----------------------------------------------------------------------------
(* scheduler(), sched() and yield().                                       *)

\* The loop comes to p (in any order) and takes p->lock.
SchedLock(c, p) ==
  /\ spc[c] = "idle"
  /\ plock[p] = NoCPU
  /\ plock' = [plock EXCEPT ![p] = c]
  /\ scan' = [scan EXCEPT ![c] = p]
  /\ spc' = [spc EXCEPT ![c] = "test"]
  /\ UNCHANGED <<state, pc, ret, stack, lockVars, todo>>

\* swtch() to a runnable process, p->lock still held.
SchedRun(c) ==
  /\ spc[c] = "test"
  /\ state[scan[c]] = "runnable"
  /\ state' = [state EXCEPT ![scan[c]] = "running"]
  /\ stack' = [stack EXCEPT ![c] = scan[c]]
  /\ spc' = [spc EXCEPT ![c] = "away"]
  /\ UNCHANGED <<plock, pc, ret, scan, lockVars, todo>>

\* The end of a turn: p was not runnable, or swtch() has come back from it.
SchedNext(c) ==
  /\ \/ /\ spc[c] = "test"
        /\ state[scan[c]] # "runnable"
     \/ spc[c] = "back"
  /\ plock' = [plock EXCEPT ![scan[c]] = NoCPU]
  /\ spc' = [spc EXCEPT ![c] = "idle"]
  /\ UNCHANGED <<state, pc, ret, stack, scan, lockVars, todo>>

\* A bug sched() could have: p->lock given up before the context is saved.
SwitchEarly(c, p) ==
  /\ On(c, p, "switch")
  /\ plock[p] = c
  /\ plock' = [plock EXCEPT ![p] = NoCPU]
  /\ Goto(p, "resumed")
  /\ UNCHANGED <<state, ret, schedVars, lockVars, todo>>

\* sched(): swtch() to the scheduler of this CPU.
Switch(c, p) ==
  /\ On(c, p, "switch")
  /\ stack' = [stack EXCEPT ![c] = NoProc]
  /\ spc' = [spc EXCEPT ![c] = "back"]
  /\ Goto(p, "resumed")
  /\ UNCHANGED <<state, plock, ret, scan, lockVars, todo>>

\* sched() has returned, on whatever CPU: release(&p->lock).
Resume(c, p) ==
  /\ On(c, p, "resumed")
  /\ plock' = [plock EXCEPT ![p] = NoCPU]
  /\ Goto(p, ret[p])
  /\ UNCHANGED <<state, ret, schedVars, lockVars, todo>>

\* A timer interrupt, as far as the call of sched().
Yield(c, p) ==
  /\ stack[c] = p
  /\ pc[p] \in Interruptible
  /\ plock[p] = NoCPU
  /\ plock' = [plock EXCEPT ![p] = c]
  /\ state' = [state EXCEPT ![p] = "runnable"]
  /\ ret' = [ret EXCEPT ![p] = pc[p]]
  /\ Goto(p, "switch")
  /\ UNCHANGED <<schedVars, lockVars, todo>>

-----------------------------------------------------------------------------
(* acquiresleep() and sleep().                                             *)

Want(c, p) ==
  /\ On(c, p, "user")
  /\ Goto(p, "want")
  /\ UNCHANGED <<state, plock, ret, schedVars, lockVars, todo>>

\* acquire(&lk->lk), on entry or at the end of sleep().
LockInner(c, p) ==
  /\ On(c, p, "want")
  /\ lk = NoCPU
  /\ lk' = c
  /\ Goto(p, "test")
  /\ UNCHANGED <<state, plock, ret, schedVars, locked, owner, todo>>

\* A bug: if (lk->locked) sleep(...), then take the lock without a second look.
TakeUnseen(c, p) ==
  /\ On(c, p, "test")
  /\ locked = 0 \/ ret[p] = "want"
  /\ locked' = 1
  /\ owner' = p
  /\ lk' = NoCPU
  /\ Goto(p, "in")
  /\ UNCHANGED <<state, plock, ret, schedVars, todo>>

\* The lock is free: take it, and release(&lk->lk).
Take(c, p) ==
  /\ On(c, p, "test")
  /\ locked = 0
  /\ locked' = 1
  /\ owner' = p
  /\ lk' = NoCPU
  /\ Goto(p, "in")
  /\ UNCHANGED <<state, plock, ret, schedVars, todo>>

\* A bug sleep() could have: release(lk) without p->lock.
SleepLockFirst(c, p) ==
  /\ On(c, p, "test")
  /\ locked = 1
  /\ lk' = NoCPU
  /\ Goto(p, "set")
  /\ UNCHANGED <<state, plock, ret, schedVars, locked, owner, todo>>

\* while(lk->locked) sleep(): acquire(&p->lock),
SleepAcquire(c, p) ==
  /\ On(c, p, "test")
  /\ locked = 1
  /\ plock[p] = NoCPU
  /\ plock' = [plock EXCEPT ![p] = c]
  /\ Goto(p, "go")
  /\ UNCHANGED <<state, ret, schedVars, lockVars, todo>>

\* A bug: sched() with the caller's spin lock still held.
SleepKeeping(c, p) ==
  /\ On(c, p, "go")
  /\ Goto(p, "set")
  /\ UNCHANGED <<state, plock, ret, schedVars, lockVars, todo>>

\* release(lk),
SleepRelease(c, p) ==
  /\ On(c, p, "go")
  /\ lk' = NoCPU
  /\ Goto(p, "set")
  /\ UNCHANGED <<state, plock, ret, schedVars, locked, owner, todo>>

\* and p->state = SLEEPING before sched().
SleepSet(c, p) ==
  /\ On(c, p, "set")
  /\ state' = [state EXCEPT ![p] = "sleeping"]
  /\ ret' = [ret EXCEPT ![p] = "want"]
  /\ Goto(p, "switch")
  /\ UNCHANGED <<plock, schedVars, lockVars, todo>>

-----------------------------------------------------------------------------
(* releasesleep(), wakeup() and kill().                                    *)

\* A bug: the lock is given back and wakeup() not called.
UnlockSilent(c, p) ==
  /\ On(c, p, "in")
  /\ lk = NoCPU
  /\ lk' = c
  /\ locked' = 0
  /\ owner' = NoProc
  /\ Goto(p, "wake")
  /\ UNCHANGED <<state, plock, ret, schedVars, todo>>

\* acquire(&lk->lk), the fields, and the start of wakeup()'s loop.
Unlock(c, p) ==
  /\ On(c, p, "in")
  /\ lk = NoCPU
  /\ lk' = c
  /\ locked' = 0
  /\ owner' = NoProc
  /\ todo' = [todo EXCEPT ![p] = Proc \ {p}]
  /\ Goto(p, "wake")
  /\ UNCHANGED <<state, plock, ret, schedVars>>

Awake(q) == [state EXCEPT ![q] = IF state[q] = "sleeping" THEN "runnable" ELSE state[q]]

\* A turn of the loop, under q->lock.
Wake(c, p, q) ==
  /\ On(c, p, "wake")
  /\ q \in todo[p]
  /\ plock[q] = NoCPU
  /\ state' = Awake(q)
  /\ todo' = [todo EXCEPT ![p] = @ \ {q}]
  /\ UNCHANGED <<plock, pc, ret, schedVars, lockVars>>

\* The loop is over: release(&lk->lk).
WakeDone(c, p) ==
  /\ On(c, p, "wake")
  /\ todo[p] = {}
  /\ lk' = NoCPU
  /\ Goto(p, "user")
  /\ UNCHANGED <<state, plock, ret, schedVars, locked, owner, todo>>

\* kill() wakes a sleeper that nobody gave the lock to.  Its caller is in
\* user code, or one of the processes that do not use this lock: those run on
\* a CPU whose scheduler is between two of Proc.
Kill(c, q) ==
  /\ spc[c] = "idle" \/ \E p \in Proc : On(c, p, "user")
  /\ plock[q] = NoCPU
  /\ state[q] = "sleeping"
  /\ state' = Awake(q)
  /\ UNCHANGED <<plock, pc, ret, schedVars, lockVars, todo>>

-----------------------------------------------------------------------------
\* Steps that wait for nobody, and steps that wait for a spin lock.
Go(c, p) ==
  \/ Switch(c, p) \/ Resume(c, p) \/ Take(c, p)
  \/ SleepRelease(c, p) \/ SleepSet(c, p) \/ WakeDone(c, p)

Run(c, p) ==
  \/ Go(c, p) \/ Yield(c, p) \/ Want(c, p)
  \/ LockInner(c, p) \/ SleepAcquire(c, p) \/ Unlock(c, p)
  \/ \E q \in Proc : Wake(c, p, q)

Schedule(c) == SchedRun(c) \/ SchedNext(c) \/ \E p \in Proc : SchedLock(c, p)

Next == \E c \in CPU : Schedule(c) \/ \E p \in Proc : Run(c, p) \/ Kill(c, p)

Spec == Init /\ [][Next]_vars

\* A CPU does not stop; its scheduler comes to every process again and again;
\* timer interrupts keep coming; a spin lock that is free again and again is
\* obtained at last; and whoever has the sleep lock gives it back.
Fairness ==
  /\ \A c \in CPU : WF_vars(SchedRun(c) \/ SchedNext(c))
  /\ \A c \in CPU, p \in Proc : SF_vars(SchedLock(c, p)) /\ WF_vars(Yield(c, p))
  /\ \A p \in Proc :
       /\ WF_vars(\E c \in CPU : Go(c, p))
       /\ SF_vars(\E c \in CPU : LockInner(c, p))
       /\ SF_vars(\E c \in CPU : SleepAcquire(c, p))
       /\ SF_vars(\E c \in CPU : Unlock(c, p))
       /\ \A q \in Proc : SF_vars(\E c \in CPU : Wake(c, p, q))

LiveSpec == Spec /\ Fairness

-----------------------------------------------------------------------------
(* Properties.                                                             *)

\* Types; and the scheduler remembers a process from the moment it locks it.
TypeOK ==
  /\ state \in [Proc -> {"sleeping", "runnable", "running"}]
  /\ plock \in [Proc -> CPU \union {NoCPU}]
  /\ pc \in [Proc -> PC]
  /\ ret \in [Proc -> Interruptible]
  /\ stack \in [CPU -> Proc \union {NoProc}]
  /\ spc \in [CPU -> {"idle", "test", "away", "back"}]
  /\ scan \in [CPU -> Proc \union {NoProc}]
  /\ \A c \in CPU : spc[c] # "idle" => scan[c] \in Proc
  /\ lk \in CPU \union {NoCPU}
  /\ locked \in {0, 1}
  /\ owner \in Proc \union {NoProc}
  /\ todo \in [Proc -> SUBSET Proc]

\* No two CPUs ever run on the stack of one process, although a process is
\* runnable or asleep before it has left its stack: p->lock is handed from the
\* process to the scheduler and back across swtch() (proc.c:456-469).
OneStack ==
  \A c, d \in CPU : stack[c] # NoProc /\ stack[c] = stack[d] => c = d

\* Between acquiresleep() and releasesleep() a process is alone, on whatever
\* CPU, through any sleeps, wakeups and kills, and lk->pid names it.
Inside(p) == pc[p] = "in" \/ (pc[p] \in {"switch", "resumed"} /\ ret[p] = "in")
Mutex ==
  \A p \in Proc : Inside(p) =>
    /\ locked = 1 /\ owner = p
    /\ \A q \in Proc : Inside(q) => q = p

\* No wakeup is lost: a sleeper waits for a lock that is taken, or the loop of
\* wakeup() is still to come to it (the promise of the comment proc.c:541-545).
NoLostWakeup ==
  \A p \in Proc : state[p] = "sleeping" =>
    locked = 1 \/ \E q \in Proc : pc[q] = "wake" /\ p \in todo[q]

\* The assertions of sched(), acquire() and release(): at swtch() a CPU holds
\* the lock of the process it leaves and no other, whoever releases a lock
\* holds it, and nobody asks for a lock of his own.
Holds(c, P) == \A q \in Proc : plock[q] = c <=> q \in P
Assertions ==
  \A c \in CPU :
    /\ spc[c] = "idle" => Holds(c, {}) /\ lk # c
    /\ spc[c] \in {"test", "back"} => Holds(c, {scan[c]}) /\ lk # c
    /\ \A p \in Proc : stack[c] = p =>
         /\ pc[p] \in {"set", "switch", "resumed"} => Holds(c, {p}) /\ lk # c
         /\ pc[p] = "switch" => state[p] # "running"
         /\ pc[p] = "go" => Holds(c, {p}) /\ lk = c
         /\ pc[p] \in {"test", "wake"} => Holds(c, {}) /\ lk = c
         /\ pc[p] \in Interruptible => Holds(c, {}) /\ lk # c

\* The view of the other modules: sleep() and wakeup() are one step each.
Waiting(p) ==
  /\ pc[p] = "set" \/ state[p] = "sleeping"
  /\ \A q \in Proc : pc[q] = "wake" => p \notin todo[q]

Atomic == INSTANCE AtomicSleep WITH holder <- owner, waiting <- {p \in Proc : Waiting(p)}

\* Seen through owner and the committed sleepers, the code takes only steps of
\* AtomicSleep: a sleeper is enlisted while the lock is taken, and all of them
\* are dismissed at the instant the lock is given back.
ImplementsAtomicSleep == Atomic!AbsSpec

\* Whoever sleeps on the lock is woken at last.
SleepersWake == \A p \in Proc : state[p] = "sleeping" ~> state[p] # "sleeping"
=============================================================================
