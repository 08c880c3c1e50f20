-------------------------- MODULE SleepLockProofs --------------------------
(* Theorems about SleepLock, for every number of CPUs and processes.       *)
EXTENDS SleepLock, TLAPS

\* Where a process that runs holds its own lock, and where the inner one.
Held == {"go", "set", "switch", "resumed"}
Inner == {"test", "go", "wake"}

\* A CPU is away from its scheduler exactly while it runs a process, the one
\* its scheduler remembers.
Away ==
  \A c \in CPU :
    /\ spc[c] = "away" <=> stack[c] # NoProc
    /\ spc[c] = "away" => scan[c] = stack[c]

\* p->lock passes across swtch(): the CPU has it in the scheduler too.
SchedHolds == \A c \in CPU : spc[c] \in {"test", "back"} => plock[scan[c]] = c

\* What a process holds on its stack, and when it is RUNNING.
OnHolds ==
  \A c \in CPU, p \in Proc : stack[c] = p =>
    /\ pc[p] \in Held => plock[p] = c
    /\ pc[p] \in Inner => lk = c
    /\ pc[p] = "switch" <=> state[p] # "running"

\* A process on no stack is in sched(), and not RUNNING.
Off == \A p \in Proc : (\A c \in CPU : stack[c] # p) => pc[p] = "resumed" /\ state[p] # "running"

\* Who may hold a lock.
ProcLock ==
  \A c \in CPU, p \in Proc : plock[p] = c =>
    \/ spc[c] \in {"test", "back"} /\ scan[c] = p
    \/ stack[c] = p /\ pc[p] \in Held

InnerLock == \A c \in CPU : lk = c => stack[c] \in Proc /\ pc[stack[c]] \in Inner

SchedInv == Away /\ SchedHolds /\ OnHolds /\ Off /\ ProcLock /\ InnerLock /\ OneStack

\* The owner is inside, and nobody else; the lock has an owner while locked.
Owner ==
  /\ locked = 0 <=> owner = NoProc
  /\ \A p \in Proc : owner = p <=> Inside(p)

\* Whoever sleeps or is about to.
Committed ==
  \A p \in Proc :
    /\ pc[p] = "go" => locked = 1
    /\ pc[p] = "set" \/ state[p] = "sleeping" =>
         locked = 1 \/ \E q \in Proc : pc[q] = "wake" /\ p \in todo[q]

IInv == TypeOK /\ SchedInv /\ Owner /\ Committed

LEMMA InitIInv == Init => IInv
<1> SUFFICES ASSUME Init PROVE IInv
  OBVIOUS
<1> USE SleepLockAssumption
<1>1. TypeOK
  BY DEF Init, TypeOK, PC, Interruptible
<1>2. SchedInv
  BY DEF Init, SchedInv, Away, SchedHolds, OnHolds, Off, ProcLock, InnerLock, OneStack, Held, Inner
<1>3. Owner
  BY DEF Init, Owner, Inside
<1>4. Committed
  BY DEF Init, Committed
<1> QED
  BY <1>1, <1>2, <1>3, <1>4 DEF IInv

LEMMA StepType ==
  ASSUME TypeOK, Away, NEW c \in CPU, NEW p \in Proc, Run(c, p) \/ Kill(c, p) \/ Schedule(c)
  PROVE  TypeOK'
<1>1. CASE Schedule(c)
  BY <1>1 DEF TypeOK, Schedule, SchedRun, SchedNext, SchedLock, lockVars
<1>2a. CASE Switch(c, p)
  BY <1>2a, SleepLockAssumption DEF TypeOK, Away, Switch, PC, lockVars, Goto, On
<1>2b. CASE Resume(c, p)
  BY <1>2b, SleepLockAssumption DEF TypeOK, Resume, PC, schedVars, lockVars, Goto, On
<1>2c. CASE Yield(c, p)
  BY <1>2c DEF TypeOK, Yield, PC, schedVars, lockVars, Goto
<1>3. CASE Want(c, p) \/ LockInner(c, p) \/ Take(c, p) \/ SleepAcquire(c, p)
  BY <1>3 DEF TypeOK, Want, LockInner, Take, SleepAcquire, PC, Interruptible, schedVars,
             lockVars, Goto, On
<1>4. CASE SleepRelease(c, p) \/ SleepSet(c, p) \/ Unlock(c, p) \/ WakeDone(c, p)
  BY <1>4 DEF TypeOK, SleepRelease, SleepSet, Unlock, WakeDone, PC, Interruptible,
             schedVars, lockVars, Goto, On
<1>5. ASSUME NEW q \in Proc, Wake(c, p, q) \/ Kill(c, q)
      PROVE  TypeOK'
  BY <1>5 DEF TypeOK, Wake, Kill, Awake, schedVars, lockVars, On
<1> QED
  BY <1>1, <1>2a, <1>2b, <1>2c, <1>3, <1>4, <1>5 DEF Run, Go

LEMMA StepSched ==
  ASSUME TypeOK, SchedInv, NEW c \in CPU, NEW p \in Proc, Run(c, p) \/ Kill(c, p) \/ Schedule(c)
  PROVE  SchedInv'
<1> USE SleepLockAssumption DEF TypeOK, SchedInv, Away, SchedHolds, OnHolds, Off,
        ProcLock, InnerLock, OneStack, Held, Inner, Interruptible, schedVars, lockVars,
        Goto, On
<1>1. ASSUME NEW q \in Proc, SchedLock(c, q)
      PROVE  SchedInv'
  BY <1>1 DEF SchedLock
<1>2. CASE SchedRun(c)
  BY <1>2 DEF SchedRun
<1>3. CASE SchedNext(c)
  BY <1>3 DEF SchedNext
<1>4. CASE Switch(c, p)
  BY <1>4 DEF Switch
<1>5. CASE Resume(c, p)
  BY <1>5 DEF Resume
<1>6. CASE Yield(c, p)
  BY <1>6 DEF Yield
<1>7. CASE Want(c, p)
  BY <1>7 DEF Want
<1>8. CASE LockInner(c, p)
  BY <1>8 DEF LockInner
<1>9. CASE Take(c, p)
  BY <1>9 DEF Take
<1>10. CASE SleepAcquire(c, p)
  BY <1>10 DEF SleepAcquire
<1>11. CASE SleepRelease(c, p)
  BY <1>11 DEF SleepRelease
<1>12. CASE SleepSet(c, p)
  BY <1>12 DEF SleepSet
<1>13. CASE Unlock(c, p)
  BY <1>13 DEF Unlock
<1>14. CASE WakeDone(c, p)
  BY <1>14 DEF WakeDone
<1>15. ASSUME NEW q \in Proc, Wake(c, p, q)
      PROVE  SchedInv'
  BY <1>15 DEF Wake, Awake
<1>16. CASE Kill(c, p)
  BY <1>16 DEF Kill, Awake
<1> QED
  BY <1>1, <1>2, <1>3, <1>4, <1>5, <1>6, <1>7, <1>8, <1>9, <1>10, <1>11, <1>12, <1>13, <1>14, <1>15, <1>16
  DEF Run, Go, Schedule

LEMMA StepOwner ==
  ASSUME TypeOK, SchedInv, Owner, NEW c \in CPU, NEW p \in Proc, Run(c, p) \/ Kill(c, p) \/ Schedule(c)
  PROVE  Owner'
<1> USE SleepLockAssumption DEF TypeOK, Owner, Inside, Interruptible, schedVars, lockVars, Goto, On
<1>1. ASSUME NEW q \in Proc, SchedLock(c, q)
      PROVE  Owner'
  BY <1>1 DEF SchedLock
<1>2. CASE SchedRun(c)
  BY <1>2 DEF SchedRun
<1>3. CASE SchedNext(c)
  BY <1>3 DEF SchedNext
<1>4. CASE Switch(c, p)
  BY <1>4 DEF Switch
<1>5. CASE Resume(c, p)
  BY <1>5 DEF Resume
<1>6. CASE Yield(c, p)
  BY <1>6 DEF Yield
<1>7. CASE Want(c, p)
  BY <1>7 DEF Want
<1>8. CASE LockInner(c, p)
  BY <1>8 DEF LockInner
<1>9. CASE Take(c, p)
  BY <1>9 DEF Take
<1>10. CASE SleepAcquire(c, p)
  BY <1>10 DEF SleepAcquire
<1>11. CASE SleepRelease(c, p)
  BY <1>11 DEF SleepRelease
<1>12. CASE SleepSet(c, p)
  BY <1>12 DEF SleepSet
<1>13. CASE Unlock(c, p)
  BY <1>13 DEF Unlock
<1>14. CASE WakeDone(c, p)
  BY <1>14 DEF WakeDone
<1>15. ASSUME NEW q \in Proc, Wake(c, p, q)
      PROVE  Owner'
  BY <1>15 DEF Wake, Awake
<1>16. CASE Kill(c, p)
  BY <1>16 DEF Kill, Awake
<1> QED
  BY <1>1, <1>2, <1>3, <1>4, <1>5, <1>6, <1>7, <1>8, <1>9, <1>10, <1>11, <1>12, <1>13, <1>14, <1>15, <1>16
  DEF Run, Go, Schedule

LEMMA StepCommitted ==
  ASSUME TypeOK, SchedInv, Owner, Committed,
         NEW c \in CPU, NEW p \in Proc, Run(c, p) \/ Kill(c, p) \/ Schedule(c)
  PROVE  Committed'
<1> USE SleepLockAssumption DEF TypeOK, SchedInv, OnHolds, Off, InnerLock, Held, Inner,
        Committed, Interruptible, schedVars, lockVars, Goto, On
<1>1. ASSUME NEW q \in Proc, SchedLock(c, q)
      PROVE  Committed'
  BY <1>1 DEF SchedLock
<1>2. CASE SchedRun(c)
  BY <1>2 DEF SchedRun
<1>3. CASE SchedNext(c)
  BY <1>3 DEF SchedNext
<1>4. CASE Switch(c, p)
  BY <1>4 DEF Switch
<1>5. CASE Resume(c, p)
  BY <1>5 DEF Resume
<1>6. CASE Yield(c, p)
  BY <1>6 DEF Yield
<1>7. CASE Want(c, p)
  BY <1>7 DEF Want
<1>8. CASE LockInner(c, p)
  BY <1>8 DEF LockInner
<1>9. CASE Take(c, p)
  BY <1>9 DEF Take
<1>10. CASE SleepAcquire(c, p)
  BY <1>10 DEF SleepAcquire
<1>11. CASE SleepRelease(c, p)
  BY <1>11 DEF SleepRelease
<1>12. CASE SleepSet(c, p)
  BY <1>12 DEF SleepSet
<1>13. CASE Unlock(c, p)
  BY <1>13 DEF Unlock
<1>14. CASE WakeDone(c, p)
  BY <1>14 DEF WakeDone
<1>15. ASSUME NEW q \in Proc, Wake(c, p, q)
      PROVE  Committed'
  BY <1>15 DEF Wake, Awake
<1>16. CASE Kill(c, p)
  BY <1>16 DEF Kill, Awake
<1> QED
  BY <1>1, <1>2, <1>3, <1>4, <1>5, <1>6, <1>7, <1>8, <1>9, <1>10, <1>11, <1>12, <1>13, <1>14, <1>15, <1>16
  DEF Run, Go, Schedule
-----------------------------------------------------------------------------
THEOREM Invariance == Spec => []IInv
<1>1. ASSUME IInv, [Next]_vars
      PROVE  IInv'
  <2>1. CASE UNCHANGED vars
    BY <1>1, <2>1 DEF vars, schedVars, lockVars, IInv, TypeOK, SchedInv, Away, SchedHolds,
                      OnHolds, Off, ProcLock, InnerLock, OneStack, Owner, Inside, Committed
  <2>2. ASSUME NEW c \in CPU, NEW p \in Proc, Run(c, p) \/ Kill(c, p) \/ Schedule(c)
        PROVE  IInv'
    BY <1>1, <2>2, StepType, StepSched, StepOwner, StepCommitted DEF IInv, SchedInv
  <2>3. ASSUME NEW c \in CPU, Schedule(c)
        PROVE  IInv'
    <3>1. PICK p \in Proc : TRUE
      BY <1>1, <2>3, SleepLockAssumption
      DEF IInv, TypeOK, Schedule, SchedRun, SchedNext, SchedLock
    <3> QED
      BY <2>2, <2>3, <3>1
  <2> QED
    BY <1>1, <2>1, <2>2, <2>3 DEF Next
<1> QED
  BY InitIInv, <1>1, PTL DEF Spec

\* Every reachable state is well typed.
THEOREM TypeCorrect == Spec => []TypeOK
<1>1. IInv => TypeOK
  BY DEF IInv
<1> QED
  BY Invariance, <1>1, PTL

\* Two CPUs never run on one kernel stack (sched() and scheduler()'s hand-over
\* of p->lock).
THEOREM StacksAreOnes == Spec => []OneStack
<1>1. IInv => OneStack
  BY DEF IInv, SchedInv
<1> QED
  BY Invariance, <1>1, PTL

\* A sleep lock excludes: one process at a time between acquiresleep() and
\* releasesleep().
THEOREM SleepLockExcludes == Spec => []Mutex
<1>1. IInv => Mutex
  BY SleepLockAssumption DEF IInv, Owner, Mutex, TypeOK
<1> QED
  BY Invariance, <1>1, PTL

\* A sleeper waits for a lock that is taken or for a wakeup() under way.
THEOREM WakeupsAreKept == Spec => []NoLostWakeup
<1>1. IInv => NoLostWakeup
  BY DEF IInv, Committed, NoLostWakeup
<1> QED
  BY Invariance, <1>1, PTL

\* None of the assertions of sched(), acquire() and release() fails.
THEOREM AssertionsHold == Spec => []Assertions
<1>1. IInv => Assertions
  BY SleepLockAssumption DEF IInv, TypeOK, SchedInv, Away, SchedHolds, OnHolds, ProcLock,
        InnerLock, Held, Inner, Interruptible, PC, Assertions, Holds
<1> QED
  BY Invariance, <1>1, PTL

-----------------------------------------------------------------------------
(* The implementation of AtomicSleep.                                      *)

Sleepers == {p \in Proc : Waiting(p)}

\* What every step does to the sleepers AtomicSleep sees.
LEMMA SleepersKept ==
  ASSUME IInv, NEW c \in CPU, NEW p \in Proc, NEW q \in Proc,
         \/ Schedule(c)
         \/ Switch(c, p) \/ Resume(c, p) \/ Yield(c, p) \/ Want(c, p)
         \/ LockInner(c, p) \/ Take(c, p) \/ SleepAcquire(c, p) \/ SleepSet(c, p)
         \/ WakeDone(c, p) \/ Wake(c, p, q)
  PROVE  Sleepers' = Sleepers
<1> SUFFICES ASSUME NEW r \in Proc
             PROVE  Waiting(r)' <=> Waiting(r)
  BY DEF Sleepers
<1> USE SleepLockAssumption DEF IInv, TypeOK, SchedInv, OnHolds, Off, Held,
        Inner, Waiting, Interruptible, schedVars, lockVars, Goto, On
<1>0. CASE Schedule(c)
  BY <1>0 DEF Schedule, SchedLock, SchedRun, SchedNext
<1>1. CASE Switch(c, p)
  BY <1>1 DEF Switch
<1>2. CASE Resume(c, p)
  BY <1>2 DEF Resume
<1>3. CASE Yield(c, p)
  BY <1>3 DEF Yield
<1>4. CASE Want(c, p)
  BY <1>4 DEF Want
<1>5. CASE LockInner(c, p)
  BY <1>5 DEF LockInner
<1>6. CASE Take(c, p)
  BY <1>6 DEF Take
<1>7. CASE SleepAcquire(c, p)
  BY <1>7 DEF SleepAcquire
<1>8. CASE SleepSet(c, p)
  BY <1>8 DEF SleepSet
<1>9. CASE WakeDone(c, p)
  BY <1>9 DEF WakeDone
<1>10. CASE Wake(c, p, q)
  BY <1>10 DEF Wake, Awake
<1> QED
  BY <1>0, <1>1, <1>2, <1>3, <1>4, <1>5, <1>6, <1>7, <1>8, <1>9, <1>10

LEMMA SleepersChange ==
  ASSUME IInv, NEW c \in CPU, NEW p \in Proc
  PROVE  /\ SleepRelease(c, p) => Sleepers' = Sleepers \union {p}
         /\ Unlock(c, p) => Sleepers' = {}
         /\ Kill(c, p) => Sleepers' = Sleepers \ {p}
<1> USE SleepLockAssumption DEF IInv, TypeOK, SchedInv, OnHolds, Off, Held, InnerLock,
        Inner, Waiting, Interruptible, schedVars, lockVars, Goto, On, Sleepers
<1>1. ASSUME SleepRelease(c, p)
      PROVE  Sleepers' = Sleepers \union {p}
  <2>1. \A r \in Proc : pc[r] # "wake"
    BY <1>1 DEF SleepRelease, OneStack
  <2> QED
    BY <1>1, <2>1 DEF SleepRelease
<1>2. ASSUME Unlock(c, p)
      PROVE  Sleepers' = {}
  BY <1>2 DEF Unlock
<1>3. ASSUME Kill(c, p)
      PROVE  Sleepers' = Sleepers \ {p}
  BY <1>3 DEF Kill, Awake
<1> QED
  BY <1>1, <1>2, <1>3

\* sleep() and wakeup() step by step implement their one-step versions: giving
\* up the spin lock and going to sleep, and waking everybody.
THEOREM SleepIsAtomic == Spec => ImplementsAtomicSleep
<1>1. Init => Atomic!AbsInit
  BY DEF Init, Atomic!AbsInit, Waiting
<1>2. ASSUME IInv, [Next]_vars
      PROVE  [Atomic!AbsNext]_(Atomic!absVars)
  <2>0. SUFFICES ASSUME ~UNCHANGED <<owner, Sleepers>>
                 PROVE  \E p \in Proc : \/ Atomic!Take(p) \/ Atomic!Wait(p)
                                       \/ Atomic!Give(p) \/ Atomic!Interrupt(p)
    BY DEF Atomic!AbsNext, Atomic!absVars, Sleepers
  <2>1. CASE UNCHANGED vars
    BY <2>0, <2>1 DEF vars, lockVars, Sleepers, Waiting
  <2>2. ASSUME NEW c \in CPU, Schedule(c)
        PROVE  FALSE
    <3>1. PICK p \in Proc : TRUE
      BY <1>2, <2>2, SleepLockAssumption
      DEF IInv, TypeOK, Schedule, SchedRun, SchedNext, SchedLock
    <3> QED
      BY <1>2, <2>0, <2>2, <3>1, SleepersKept
      DEF Schedule, SchedRun, SchedNext, SchedLock, lockVars
  <2>3. ASSUME NEW c \in CPU, NEW p \in Proc, Run(c, p)
        PROVE  \E r \in Proc : \/ Atomic!Take(r) \/ Atomic!Wait(r)
                              \/ Atomic!Give(r) \/ Atomic!Interrupt(r)
    <3>1. CASE Take(c, p)
      <4>1. p \notin Sleepers /\ owner = NoProc
        BY <1>2, <3>1 DEF IInv, TypeOK, SchedInv, OnHolds, Owner, Take, On, Waiting, Sleepers
      <4>2. Sleepers' = Sleepers
        BY <1>2, <3>1, SleepersKept
      <4>3. Atomic!Take(p)
        BY <3>1, <4>1, <4>2 DEF Take, Atomic!Take, Sleepers
      <4> QED
        BY <4>3
    <3>2. CASE SleepRelease(c, p)
      <4>1. owner \in Proc \ {p}
        BY <1>2, <3>2 DEF IInv, TypeOK, Owner, Inside, Committed, SleepRelease, On
      <4>2. Sleepers' = Sleepers \union {p}
        BY <1>2, <3>2, SleepersChange
      <4>3. Atomic!Wait(p)
        BY <3>2, <4>1, <4>2 DEF SleepRelease, Atomic!Wait, Sleepers
      <4> QED
        BY <4>3
    <3>3. CASE Unlock(c, p)
      <4>1. owner = p
        BY <1>2, <3>3 DEF IInv, Owner, Inside, Unlock, On
      <4>2. Sleepers' = {}
        BY <1>2, <3>3, SleepersChange
      <4>3. Atomic!Give(p)
        BY <3>3, <4>1, <4>2 DEF Unlock, Atomic!Give, Sleepers
      <4> QED
        BY <4>3
    <3>4. ASSUME NEW q \in Proc, Wake(c, p, q)
          PROVE  FALSE
      BY <1>2, <2>0, <3>4, SleepersKept DEF Wake, lockVars
    <3>5. CASE \/ Switch(c, p) \/ Resume(c, p) \/ Yield(c, p) \/ Want(c, p)
               \/ LockInner(c, p) \/ SleepAcquire(c, p) \/ SleepSet(c, p) \/ WakeDone(c, p)
      BY <1>2, <2>0, <3>5, SleepersKept
      DEF Switch, Resume, Yield, Want, LockInner, SleepAcquire, SleepSet, WakeDone, lockVars
    <3> QED
      BY <2>3, <3>1, <3>2, <3>3, <3>4, <3>5 DEF Run, Go
  <2>4. ASSUME NEW c \in CPU, NEW p \in Proc, Kill(c, p)
        PROVE  Atomic!Interrupt(p)
    BY <1>2, <2>4, SleepersChange DEF Kill, lockVars, Atomic!Interrupt, Sleepers
  <2> QED
    BY <1>2, <2>1, <2>2, <2>3, <2>4 DEF Next
<1> QED
  BY Invariance, <1>1, <1>2, PTL DEF Spec, ImplementsAtomicSleep, Atomic!AbsSpec
=============================================================================
