--------------------------- MODULE KThreadProofs ---------------------------
(***************************************************************************)
(* The lifecycle of KThread.tla for any number of processes, of thread     *)
(* slots and any programs: types, no process left without a live thread,   *)
(* and no wakeup lost by kthread_join().                                   *)
(***************************************************************************)
EXTENDS KThread, TLAPS

\* Who holds wait_lock: a thread between its scan and its sleep, and it runs.
LockHolder ==
  \A t \in Thread : pc[t] \in Holding => wlock = t /\ kstate[t] = "running"

\* Only threads of an existing process run or sleep.
OnlyUsedRun ==
  \A t \in Thread : kstate[t] \in {"running", "sleeping"} => pstate[t[1]] # "unused"

\* Between the scan and the sleep the target of a join stays alive.
TargetAlive(t) == kstate[<<t[1], arg[t]>>] \notin {"zombie", "unused"}
InJoin == {"join_sleep", "join_go", "exit_sleep", "exit_go"}
SeenByJoin == \A t \in Thread : pc[t] \in InJoin => TargetAlive(t)

\* A slot that a call of kthread_join() has once found taken stays taken: only
\* the death of the whole process gives thread slots back.
FoundStaysTaken == \A t \in Thread : exists[t] = 1 => kstate[<<t[1], arg[t]>>] # "unused"

IInv ==
  /\ TypeOK
  /\ LockHolder /\ OnlyUsedRun /\ SeenByJoin /\ FoundStaysTaken
  /\ SomeThreadAlive /\ JoinersWaitForLiving

-----------------------------------------------------------------------------
LEMMA ThreadFacts ==
  /\ \A p \in Proc, k \in Slot : <<p, k>> \in Thread
  /\ \A t \in Thread : t[1] \in Proc /\ t[2] \in Slot /\ t = <<t[1], t[2]>>
  /\ 0 \in Slot
  /\ \A k \in Slot : k \in Nat /\ (k + 1 < NKT => k + 1 \in Slot)
  /\ \A p \in Proc : Main(p) \in Thread /\ Main(p)[1] = p
<1>1. 0 \in Slot /\ \A k \in Slot : k \in Nat /\ (k + 1 < NKT => k + 1 \in Slot)
  BY KThreadAssumption DEF Slot
<1>2. \A p \in Proc, k \in Slot : <<p, k>> \in Thread
  BY DEF Thread
<1>3. \A t \in Thread : t[1] \in Proc /\ t[2] \in Slot /\ t = <<t[1], t[2]>>
  BY DEF Thread
<1> QED
  BY <1>1, <1>2, <1>3 DEF Main

LEMMA Labels ==
  /\ "user" \in PC /\ "check" \in PC /\ "sys" \in PC /\ "fork" \in PC /\ "none" \in PC
  /\ "wait" \in PC /\ "wait_sleep" \in PC /\ "sleep" \in PC /\ "sleep_check" \in PC
  /\ "kthread_exit" \in PC /\ "exit" \in PC /\ "first" \in PC /\ "mark" \in PC
  /\ "exit_join" \in PC /\ "exit_last" \in PC /\ "resumed" \in PC
  /\ "join" \in PC /\ "join_sleep" \in PC /\ "exit_scan" \in PC /\ "exit_sleep" \in PC
  /\ "wait_go" \in PC /\ "join_go" \in PC /\ "exit_go" \in PC /\ "sleep_go" \in PC
  /\ "unused" \in KState /\ "used" \in KState /\ "sleeping" \in KState
  /\ "runnable" \in KState /\ "running" \in KState /\ "zombie" \in KState
  /\ 0 \in 0..1 /\ 1 \in 0..1
BY DEF PC, Holding, KState

LEMMA InitHolds == Init => IInv
<1> SUFFICES ASSUME Init PROVE IInv
  OBVIOUS
<1> USE DEF Init
<1>1. TypeOK
  BY ThreadFacts, KThreadAssumption DEF TypeOK, KState, PC, Holding
<1>2. LockHolder /\ SeenByJoin /\ FoundStaysTaken
  BY DEF LockHolder, SeenByJoin, InJoin, Holding, FoundStaysTaken
<1>3. OnlyUsedRun
  BY ThreadFacts DEF OnlyUsedRun
<1>4. SomeThreadAlive
  <2> SUFFICES ASSUME NEW p \in Proc, pstate[p] = "used"
               PROVE  \E t \in Threads(p) : kstate[t] \notin {"unused", "zombie"}
    BY DEF SomeThreadAlive
  <2>1. p = initproc
    OBVIOUS
  <2>2. Main(p) \in Threads(p) /\ Main(p) \in Thread
    BY ThreadFacts DEF Threads, Main
  <2> QED
    BY <2>1, <2>2
<1>5. JoinersWaitForLiving
  BY DEF JoinersWaitForLiving
<1> QED
  BY <1>1, <1>2, <1>3, <1>4, <1>5 DEF IInv

-----------------------------------------------------------------------------
(* Types.                                                                  *)

LEMMA PanicTypes ==
  ASSUME TypeOK, NEW m, Panic(m),
         m \in {"sched locks", "sched running", "zombie exit",
                "undefined", "init exiting"}
  PROVE  TypeOK'
<1>1. UNCHANGED <<pstate, parent, killed, kstate, kkilled, pc, arg, child, exists,
                  leaving, noff, first, wlock, tlock>>
  BY DEF Panic, procVars, callVars, lockVars
<1>2. panicked' \in {"no", "sched locks", "sched running", "zombie exit",
                     "undefined", "init exiting"}
  BY DEF Panic
<1> QED
  BY <1>1, <1>2 DEF TypeOK

LEMMA HitTypes ==
  ASSUME TypeOK, NEW S, Hit(S)
  PROVE  /\ kstate' \in [Thread -> KState]
         /\ kkilled' \in [Thread -> 0..1]
<1>1. kstate \in [Thread -> KState] /\ kkilled \in [Thread -> 0..1]
  BY DEF TypeOK
<1>2. kstate' \in [Thread -> KState]
  BY <1>1, Labels DEF Hit
<1>3. kkilled' \in [Thread -> 0..1]
  BY <1>1 DEF Hit
<1> QED
  BY <1>2, <1>3

LEMMA DieTypes ==
  ASSUME TypeOK, NEW t \in Thread, NEW S, Die(t, S)
  PROVE  /\ kstate' \in [Thread -> KState]
         /\ leaving' \in [Thread -> 0..1]
         /\ pc' \in [Thread -> PC]
<1>1. kstate \in [Thread -> KState] /\ leaving \in [Thread -> 0..1] /\ pc \in [Thread -> PC]
  BY DEF TypeOK
<1>2. Woken(S) \in [Thread -> KState]
  BY <1>1, Labels DEF Woken
<1>3. kstate' \in [Thread -> KState]
  BY <1>2, Labels DEF Die
<1>4. leaving' \in [Thread -> 0..1]
  BY <1>1 DEF Die
<1>5. pc' \in [Thread -> PC]
  BY <1>1, Labels DEF Die
<1> QED
  BY <1>3, <1>4, <1>5

LEMMA GoOnTypes ==
  ASSUME TypeOK, NEW t \in Thread, NEW l \in PC, NEW k \in Slot, GoOn(t, l, k)
  PROVE  /\ pc' \in [Thread -> PC]
         /\ arg' \in [Thread -> Slot]
         /\ exists' \in [Thread -> 0..1]
<1>1. pc' \in [Thread -> PC]
  BY DEF GoOn, Goto, TypeOK
<1>2. arg' \in [Thread -> Slot]
  BY DEF GoOn, TypeOK
<1>3. exists' \in [Thread -> 0..1]
  BY Labels DEF GoOn, TypeOK
<1> QED
  BY <1>1, <1>2, <1>3

LEMMA NextSlotTypes ==
  ASSUME TypeOK, NEW t \in Thread, NEW loop \in PC, NEW l \in PC, NextSlot(t, loop, l)
  PROVE  /\ pc' \in [Thread -> PC]
         /\ arg' \in [Thread -> Slot]
         /\ exists' \in [Thread -> 0..1]
<1>1. arg[t] \in Slot /\ 0 \in Slot /\ (arg[t] + 1 < NKT => arg[t] + 1 \in Slot)
  BY ThreadFacts DEF TypeOK
<1> QED
  BY <1>1, GoOnTypes DEF NextSlot

LEMMA SleepTypes ==
  ASSUME TypeOK, NEW t \in Thread, NEW l \in PC, SleepAs(t, l)
  PROVE  TypeOK'
<1>1. CASE Panic("sched locks")
  BY <1>1, PanicTypes
<1>2. CASE ~Panic("sched locks")
  <2>1. pc' \in [Thread -> PC]
    BY <1>2 DEF SleepAs, Goto, TypeOK
  <2>2. kstate' \in [Thread -> KState]
    BY <1>2, Labels DEF SleepAs, TypeOK
  <2>3. wlock' \in Thread \union {NoThread} /\ tlock' \in Thread \union {NoThread}
    BY <1>2 DEF SleepAs, TypeOK
  <2>4. UNCHANGED <<pstate, parent, killed, kkilled, arg, child, exists, leaving, noff, first,
                    panicked>>
    BY <1>2 DEF SleepAs, procVars, callVars
  <2> QED
    BY <2>1, <2>2, <2>3, <2>4 DEF TypeOK
<1> QED
  BY <1>1, <1>2

LEMMA TypeStep == TypeOK /\ [Next]_vars => TypeOK'
<1> SUFFICES ASSUME TypeOK, [Next]_vars PROVE TypeOK'
  OBVIOUS
<1> USE Labels DEF TypeOK
<1>1. ASSUME NEW t \in Thread, Schedule(t) \/ Yield(t) PROVE TypeOK'
  BY <1>1, ZenonT(40) DEF Schedule, Yield, procVars, callVars, lockVars
<1>2. ASSUME NEW t \in Thread, YieldPanics(t) \/ Resumed(t) PROVE TypeOK'
  BY <1>2, PanicTypes DEF YieldPanics, Resumed
<1>3. ASSUME NEW t \in Thread, Leave(t) PROVE TypeOK'
  <2>1. CASE Panic("sched locks") \/ Panic("sched running")
    BY <2>1, PanicTypes
  <2>2. CASE ~(Panic("sched locks") \/ Panic("sched running"))
    BY <1>3, <2>2, ZenonT(40) DEF Leave, procVars, callVars, lockVars
  <2> QED
    BY <2>1, <2>2
<1>4. ASSUME NEW t \in Thread, CheckProc(t) \/ CheckThread(t) \/ NoCall(t) PROVE TypeOK'
  BY <1>4, ZenonT(40) DEF CheckProc, CheckThread, NoCall, Goto, procVars, callVars, lockVars
<1>5. ASSUME NEW t \in Thread, NEW np \in Proc, Fork(t, np) PROVE TypeOK'
  <2>1. pstate' \in [Proc -> {"unused", "used", "zombie"}]
    BY <1>5 DEF Fork
  <2>2. kstate' \in [Thread -> KState] /\ pc' \in [Thread -> PC]
    BY <1>5 DEF Fork
  <2>3. child' \in [Thread -> Proc \union {NoProc}]
    BY <1>5 DEF Fork
  <2> QED
    BY <1>5, <2>1, <2>2, <2>3 DEF Fork, lockVars
<1>6. ASSUME NEW t \in Thread, NEW np \in Proc, ForkNoMemory(t, np) PROVE TypeOK'
  <2>1. noff' \in [Thread -> 0..1]
    BY <1>6 DEF ForkNoMemory
  <2>2. pc' \in [Thread -> PC]
    BY <1>6 DEF ForkNoMemory, Goto
  <2> QED
    BY <1>6, <2>1, <2>2 DEF ForkNoMemory, procVars, callVars
<1>7. ASSUME NEW t \in Thread, ForkPublish(t) PROVE TypeOK'
  <2>1. parent' \in [Proc -> Proc \union {NoProc}]
    BY <1>7, ThreadFacts DEF ForkPublish
  <2>2. kstate' \in [Thread -> KState] /\ pc' \in [Thread -> PC]
    BY <1>7 DEF ForkPublish, Goto
  <2>3. child' \in [Thread -> Proc \union {NoProc}]
    BY <1>7 DEF ForkPublish
  <2> QED
    BY <1>7, <2>1, <2>2, <2>3 DEF ForkPublish, lockVars
<1>8. ASSUME NEW t \in Thread, NEW op, NEW l \in PC, Enter(t, op, l) PROVE TypeOK'
  BY <1>8 DEF Enter, Goto, procVars, callVars, lockVars
<1>9. ASSUME NEW t \in Thread, NEW q \in Proc, Reap(t, q) PROVE TypeOK'
  <2>1. pstate' \in [Proc -> {"unused", "used", "zombie"}]
    BY <1>9 DEF Reap
  <2>2. parent' \in [Proc -> Proc \union {NoProc}]
    BY <1>9 DEF Reap
  <2>3. killed' \in [Proc -> 0..1]
    BY <1>9 DEF Reap
  <2>4. kstate' \in [Thread -> KState]
    BY <1>9 DEF Reap
  <2>7. kkilled' \in [Thread -> 0..1]
    BY <1>9 DEF Reap
  <2>5. pc' \in [Thread -> PC]
    BY <1>9 DEF Reap
  <2>6. arg' \in [Thread -> Slot] /\ child' \in [Thread -> Proc \union {NoProc}]
    BY <1>9, ThreadFacts DEF Reap
  <2>8. exists' \in [Thread -> 0..1]
    BY <1>9 DEF Reap
  <2> QED
    BY <1>9, <2>1, <2>2, <2>3, <2>4, <2>5, <2>6, <2>7, <2>8 DEF Reap, lockVars
<1>10. ASSUME NEW t \in Thread, WaitScan(t) PROVE TypeOK'
  <2>1. CASE \E q \in Proc : Reap(t, q)
    BY <1>9, <2>1
  <2>2. CASE ~ \E q \in Proc : Reap(t, q)
    <3>1. pc' \in [Thread -> PC] /\ wlock' \in Thread \union {NoThread}
      BY <1>10, <2>2, ZenonT(40) DEF WaitScan, Children, Goto
    <3> QED
      BY <1>10, <2>2, <3>1 DEF WaitScan, Children, procVars, callVars
  <2> QED
    BY <2>1, <2>2
<1>11. ASSUME NEW t \in Thread, WaitSleep(t) PROVE TypeOK'
  BY <1>11, ZenonT(40) DEF WaitSleep, Goto, procVars, callVars
<1>12. ASSUME NEW t \in Thread, KthreadCreate(t) PROVE TypeOK'
  <2>1. kstate' \in [Thread -> KState]
    BY <1>12 DEF KthreadCreate
  <2>2. pc' \in [Thread -> PC]
    BY <1>12 DEF KthreadCreate
  <2> QED
    BY <1>12, <2>1, <2>2 DEF KthreadCreate, procVars, callVars, lockVars
<1>13. ASSUME NEW t \in Thread, NEW k \in Slot, KthreadKill(t, k) PROVE TypeOK'
  <2>1. kstate' \in [Thread -> KState] /\ kkilled' \in [Thread -> 0..1]
    BY <1>13, HitTypes DEF KthreadKill
  <2>2. pc' \in [Thread -> PC]
    BY <1>13 DEF KthreadKill, Goto
  <2> QED
    BY <1>13, <2>1, <2>2 DEF KthreadKill, procVars, callVars, lockVars
<1>14. ASSUME NEW t \in Thread, NEW p \in Proc, Kill(t, p) PROVE TypeOK'
  <2>1. kstate' \in [Thread -> KState] /\ kkilled' \in [Thread -> 0..1]
    BY <1>14, HitTypes DEF Kill
  <2>2. pc' \in [Thread -> PC]
    BY <1>14 DEF Kill, Goto
  <2>3. killed' \in [Proc -> 0..1]
    BY <1>14 DEF Kill
  <2> QED
    BY <1>14, <2>1, <2>2, <2>3 DEF Kill, callVars, lockVars
<1>15. ASSUME NEW t \in Thread, KthreadExit(t) PROVE TypeOK'
  <2>1. /\ kstate' \in [Thread -> KState]
        /\ leaving' \in [Thread -> 0..1]
        /\ pc' \in [Thread -> PC]
    BY <1>15, DieTypes DEF KthreadExit, Goto
  <2> QED
    BY <1>15, <2>1 DEF KthreadExit, procVars, callVars, lockVars
<1>16. ASSUME NEW t \in Thread, NEW k \in Slot, KthreadJoin(t, k) PROVE TypeOK'
  <2>1. pc' \in [Thread -> PC] /\ arg' \in [Thread -> Slot] /\ exists' \in [Thread -> 0..1]
    BY <1>16, GoOnTypes DEF KthreadJoin
  <2> QED
    BY <1>16, <2>1 DEF KthreadJoin, procVars, lockVars
<1>17. ASSUME NEW t \in Thread,
              \/ JoinScan(t, "join", "join_sleep", JoinDone(t))
              \/ JoinSleep(t, "join_sleep", "join_go", JoinDone(t))
       PROVE  TypeOK'
  <2>1. JoinDone(t) => /\ pc' \in [Thread -> PC]
                       /\ arg' \in [Thread -> Slot]
                       /\ exists' \in [Thread -> 0..1]
    BY GoOnTypes, ThreadFacts DEF JoinDone
  <2>2. /\ pc' \in [Thread -> PC]
        /\ arg' \in [Thread -> Slot]
        /\ exists' \in [Thread -> 0..1]
    BY <1>17, <2>1, ZenonT(40) DEF JoinScan, JoinSleep, Goto
  <2>3. wlock' \in Thread \union {NoThread}
    BY <1>17 DEF JoinScan, JoinSleep
  <2>4. UNCHANGED <<pstate, parent, killed, kstate, kkilled, child, leaving, noff, first,
                    tlock, panicked>>
    BY <1>17 DEF JoinScan, JoinSleep, procVars
  <2> QED
    BY <2>2, <2>3, <2>4
<1>18. ASSUME NEW t \in Thread,
              \/ JoinScan(t, "exit_scan", "exit_sleep", NextSlot(t, "exit_join", "exit_last"))
              \/ JoinSleep(t, "exit_sleep", "exit_go", NextSlot(t, "exit_join", "exit_last"))
       PROVE  TypeOK'
  <2>1. NextSlot(t, "exit_join", "exit_last") => /\ pc' \in [Thread -> PC]
                                                 /\ arg' \in [Thread -> Slot]
                                                 /\ exists' \in [Thread -> 0..1]
    BY NextSlotTypes
  <2>2. /\ pc' \in [Thread -> PC]
        /\ arg' \in [Thread -> Slot]
        /\ exists' \in [Thread -> 0..1]
    BY <1>18, <2>1, ZenonT(40) DEF JoinScan, JoinSleep, Goto
  <2>3. wlock' \in Thread \union {NoThread}
    BY <1>18 DEF JoinScan, JoinSleep
  <2>4. UNCHANGED <<pstate, parent, killed, kstate, kkilled, child, leaving, noff, first,
                    tlock, panicked>>
    BY <1>18 DEF JoinScan, JoinSleep, procVars
  <2> QED
    BY <2>2, <2>3, <2>4
<1>19. ASSUME NEW t \in Thread, SleepTest(t) PROVE TypeOK'
  BY <1>19 DEF SleepTest, Goto, procVars, callVars
<1>20. ASSUME NEW t \in Thread, SleepCheck(t) PROVE TypeOK'
  BY <1>20 DEF SleepCheck, Goto, procVars, callVars, lockVars
<1>31. ASSUME NEW t \in Thread, Doze(t) PROVE TypeOK'
  BY <1>31, SleepTypes DEF Doze
<1>21. ASSUME NEW t \in Thread, ExitTest(t) PROVE TypeOK'
  BY <1>21 DEF ExitTest, Goto, procVars, callVars, lockVars
<1>22. ASSUME NEW t \in Thread, ExitFirst(t) PROVE TypeOK'
  <2>1. pc' \in [Thread -> PC] /\ arg' \in [Thread -> Slot] /\ exists' \in [Thread -> 0..1]
    BY <1>22, GoOnTypes, ThreadFacts DEF ExitFirst
  <2>2. first' \in 0..1
    BY <1>22 DEF ExitFirst
  <2> QED
    BY <1>22, <2>1, <2>2 DEF ExitFirst, procVars, lockVars
<1>23. ASSUME NEW t \in Thread, ExitMark(t) PROVE TypeOK'
  <2>1. kstate' \in [Thread -> KState] /\ kkilled' \in [Thread -> 0..1]
    BY <1>23, HitTypes DEF ExitMark
  <2>2. pc' \in [Thread -> PC] /\ arg' \in [Thread -> Slot] /\ exists' \in [Thread -> 0..1]
    BY <1>23, NextSlotTypes DEF ExitMark
  <2> QED
    BY <1>23, <2>1, <2>2 DEF ExitMark, procVars, lockVars
<1>24. ASSUME NEW t \in Thread, ExitJoin(t) PROVE TypeOK'
  <2>1. pc' \in [Thread -> PC] /\ arg' \in [Thread -> Slot] /\ exists' \in [Thread -> 0..1]
    BY <1>24, NextSlotTypes DEF ExitJoin, Goto
  <2> QED
    BY <1>24, <2>1 DEF ExitJoin, procVars, lockVars
<1>25. ASSUME NEW t \in Thread, ExitLast(t) PROVE TypeOK'
  <2>1. CASE Panic("init exiting")
    BY <2>1, PanicTypes
  <2>2. CASE ~Panic("init exiting")
    <3>1. /\ kstate' \in [Thread -> KState]
          /\ leaving' \in [Thread -> 0..1]
          /\ pc' \in [Thread -> PC]
      BY <1>25, <2>2, DieTypes DEF ExitLast
    <3>2. parent' \in [Proc -> Proc \union {NoProc}]
      BY <1>25, <2>2, KThreadAssumption DEF ExitLast, Reparent
    <3>3. pstate' \in [Proc -> {"unused", "used", "zombie"}]
      BY <1>25, <2>2 DEF ExitLast
    <3> QED
      BY <1>25, <2>2, <3>1, <3>2, <3>3 DEF ExitLast, callVars, lockVars
  <2> QED
    BY <2>1, <2>2
<1>26. CASE Tick
  BY <1>26 DEF Tick, procVars, callVars, lockVars
<1>27. CASE UNCHANGED vars
  BY <1>27 DEF vars, procVars, callVars, lockVars
<1>28. ASSUME NEW t \in Thread, Join(t) PROVE TypeOK'
  BY <1>16, <1>17, <1>28 DEF Join
<1>29. ASSUME NEW t \in Thread, Exit(t) PROVE TypeOK'
  BY <1>18, <1>21, <1>22, <1>23, <1>24, <1>25, <1>29 DEF Exit
<1>30. ASSUME NEW t \in Thread, Step(t) PROVE TypeOK'
  BY <1>2, <1>4, <1>5, <1>6, <1>7, <1>8, <1>10, <1>11, <1>12, <1>13, <1>14, <1>15,
     <1>19, <1>20, <1>28, <1>29, <1>31, <1>30 DEF Step
<1> QED
  BY <1>1, <1>2, <1>3, <1>26, <1>27, <1>30 DEF Next

-----------------------------------------------------------------------------
(* wait_lock.                                                              *)

\* The typing facts the steps below need, without the numbers.
LEMMA FunctionTypes ==
  TypeOK => /\ pstate \in [Proc -> {"unused", "used", "zombie"}]
            /\ parent \in [Proc -> Proc \union {NoProc}]
            /\ kstate \in [Thread -> KState]
            /\ pc \in [Thread -> PC]
            /\ arg \in [Thread -> Slot]
            /\ child \in [Thread -> Proc \union {NoProc}]
BY DEF TypeOK

LEMMA LockStep ==
  ASSUME TypeOK, LockHolder, [Next]_vars
  PROVE  LockHolder'
<1> SUFFICES ASSUME NEW u \in Thread, pc'[u] \in Holding
             PROVE  wlock' = u /\ kstate'[u] = "running"
  BY DEF LockHolder
<1>f. /\ kstate \in [Thread -> KState]
      /\ pc \in [Thread -> PC]
  BY FunctionTypes
<1> USE <1>f, KThreadAssumption DEF LockHolder, Holding
<1>1. ASSUME NEW t \in Thread, Schedule(t) \/ Yield(t)
       PROVE  wlock' = u /\ kstate'[u] = "running"
  BY <1>1 DEF Schedule, Yield, procVars, callVars, lockVars
<1>2. ASSUME NEW t \in Thread, YieldPanics(t) \/ Resumed(t)
       PROVE  wlock' = u /\ kstate'[u] = "running"
  BY <1>2 DEF YieldPanics, Resumed, Panic, procVars, callVars, lockVars
<1>3. ASSUME NEW t \in Thread, Leave(t)
       PROVE  wlock' = u /\ kstate'[u] = "running"
  BY <1>3 DEF Leave, Panic, procVars, callVars, lockVars
<1>4. ASSUME NEW t \in Thread, CheckProc(t) \/ CheckThread(t) \/ NoCall(t)
       PROVE  wlock' = u /\ kstate'[u] = "running"
  BY <1>4 DEF CheckProc, CheckThread, NoCall, Goto, At, procVars, callVars, lockVars
<1>5. ASSUME NEW t \in Thread, NEW np \in Proc, Fork(t, np)
       PROVE  wlock' = u /\ kstate'[u] = "running"
  BY <1>5 DEF Fork, At, Main, procVars, callVars, lockVars
<1>6. ASSUME NEW t \in Thread, NEW np \in Proc, ForkNoMemory(t, np)
       PROVE  wlock' = u /\ kstate'[u] = "running"
  BY <1>6 DEF ForkNoMemory, Goto, At, procVars, callVars, lockVars
<1>7. ASSUME NEW t \in Thread, ForkPublish(t)
       PROVE  wlock' = u /\ kstate'[u] = "running"
  BY <1>7 DEF ForkPublish, Goto, At, Main, procVars, callVars, lockVars
<1>8. ASSUME NEW t \in Thread, NEW op, NEW l \in {"wait", "kthread_exit", "sleep", "exit"}, Enter(t, op, l)
       PROVE  wlock' = u /\ kstate'[u] = "running"
  BY <1>8 DEF Enter, Goto, At, procVars, callVars, lockVars
<1>9. ASSUME NEW t \in Thread, WaitScan(t)
       PROVE  wlock' = u /\ kstate'[u] = "running"
  <2>1. wlock = NoThread /\ At(t, "wait")
    BY <1>9 DEF WaitScan
  <2>2. pc[u] \notin Holding
    BY <2>1, KThreadAssumption
  <2>3. CASE \E q \in Proc : Reap(t, q)
    <3>1. pc'[u] \in {"none", "user", pc[u]}
      BY <2>3 DEF Reap
    <3> QED
      BY <2>2, <3>1
  <2>4. CASE ~ \E q \in Proc : Reap(t, q)
    BY <1>9, <2>1, <2>2, <2>4 DEF WaitScan, Goto, At, Children, procVars
  <2> QED
    BY <2>3, <2>4
<1>10. ASSUME NEW t \in Thread, WaitSleep(t)
       PROVE  wlock' = u /\ kstate'[u] = "running"
  <2>1. wlock = t
    BY <1>10 DEF WaitSleep, At
  <2>2. CASE u = t
    BY <1>10, <2>1, <2>2 DEF WaitSleep, Goto, At, procVars, callVars, lockVars
  <2>3. CASE u # t
    <3>1. pc[u] = pc'[u]
      BY <1>10, <2>3 DEF WaitSleep, Goto, procVars, callVars, lockVars
    <3> QED
      BY <2>1, <2>3, <3>1
  <2> QED
    BY <2>2, <2>3
<1>11. ASSUME NEW t \in Thread, Doze(t)
       PROVE  wlock' = u /\ kstate'[u] = "running"
  <2>1. CASE Panic("sched locks")
    BY <2>1 DEF Panic, procVars, callVars, lockVars
  <2>2. CASE ~Panic("sched locks")
    <3>1. CASE u = t
      BY <1>11, <2>2, <3>1 DEF Doze, SleepAs, Goto
    <3>2. CASE u # t
      <4>1. pc[u] = pc'[u] /\ kstate[u] = kstate'[u]
        BY <1>11, <2>2, <3>2 DEF Doze, SleepAs, Goto
      <4>2. wlock' = IF wlock = t THEN NoThread ELSE wlock
        BY <1>11, <2>2 DEF Doze, SleepAs
      <4> QED
        BY <3>2, <4>1, <4>2
    <3> QED
      BY <3>1, <3>2
  <2> QED
    BY <2>1, <2>2
<1>12. ASSUME NEW t \in Thread, KthreadCreate(t)
       PROVE  wlock' = u /\ kstate'[u] = "running"
  BY <1>12 DEF KthreadCreate, At, procVars, callVars, lockVars
<1>13. ASSUME NEW t \in Thread, NEW k \in Slot, KthreadKill(t, k)
       PROVE  wlock' = u /\ kstate'[u] = "running"
  BY <1>13 DEF KthreadKill, Hit, Goto, At, procVars, callVars, lockVars
<1>14. ASSUME NEW t \in Thread, NEW p \in Proc, Kill(t, p)
       PROVE  wlock' = u /\ kstate'[u] = "running"
  BY <1>14 DEF Kill, Hit, Goto, At, procVars, callVars, lockVars
<1>15. ASSUME NEW t \in Thread, KthreadExit(t)
       PROVE  wlock' = u /\ kstate'[u] = "running"
  BY <1>15 DEF KthreadExit, Die, Woken, Goto, At, procVars, callVars, lockVars
<1>16. ASSUME NEW t \in Thread, NEW k \in Slot, KthreadJoin(t, k)
       PROVE  wlock' = u /\ kstate'[u] = "running"
  BY <1>16 DEF KthreadJoin, GoOn, Goto, At, procVars, callVars, lockVars
<1>17. ASSUME NEW t \in Thread,
              \/ JoinScan(t, "join", "join_sleep", JoinDone(t))
              \/ JoinSleep(t, "join_sleep", "join_go", JoinDone(t))
       PROVE  wlock' = u /\ kstate'[u] = "running"
  <2>1. CASE u = t
    BY <1>17, <2>1 DEF JoinScan, JoinSleep, JoinDone, GoOn, Goto, At, procVars, callVars, lockVars
  <2>2. CASE u # t
    <3>1. pc[u] = pc'[u]
      BY <1>17, <2>2 DEF JoinScan, JoinSleep, JoinDone, GoOn, Goto, procVars, callVars, lockVars
    <3>2. wlock = u /\ kstate[u] = "running"
      BY <3>1
    <3> QED
      BY <1>17, <2>2, <3>2 DEF JoinScan, JoinSleep, At, procVars, callVars, lockVars
  <2> QED
    BY <2>1, <2>2
<1>18. ASSUME NEW t \in Thread,
              \/ JoinScan(t, "exit_scan", "exit_sleep", NextSlot(t, "exit_join", "exit_last"))
              \/ JoinSleep(t, "exit_sleep", "exit_go", NextSlot(t, "exit_join", "exit_last"))
       PROVE  wlock' = u /\ kstate'[u] = "running"
  <2>1. CASE u = t
    BY <1>18, <2>1 DEF JoinScan, JoinSleep, NextSlot, GoOn, Goto, At, procVars, callVars, lockVars
  <2>2. CASE u # t
    <3>1. pc[u] = pc'[u]
      BY <1>18, <2>2 DEF JoinScan, JoinSleep, NextSlot, GoOn, Goto, procVars, callVars, lockVars
    <3>2. wlock = u /\ kstate[u] = "running"
      BY <3>1
    <3> QED
      BY <1>18, <2>2, <3>2 DEF JoinScan, JoinSleep, At, procVars, callVars, lockVars
  <2> QED
    BY <2>1, <2>2
<1>19. ASSUME NEW t \in Thread, SleepTest(t)
       PROVE  wlock' = u /\ kstate'[u] = "running"
  BY <1>19 DEF SleepTest, Goto, At, procVars, callVars, lockVars
<1>20. ASSUME NEW t \in Thread, SleepCheck(t)
       PROVE  wlock' = u /\ kstate'[u] = "running"
  BY <1>20 DEF SleepCheck, Goto, At, procVars, callVars, lockVars
<1>21. ASSUME NEW t \in Thread, ExitTest(t) \/ ExitFirst(t)
       PROVE  wlock' = u /\ kstate'[u] = "running"
  BY <1>21 DEF ExitTest, ExitFirst, GoOn, Goto, At, procVars, callVars, lockVars
<1>22. ASSUME NEW t \in Thread, ExitMark(t)
       PROVE  wlock' = u /\ kstate'[u] = "running"
  BY <1>22 DEF ExitMark, Hit, NextSlot, GoOn, Goto, At, procVars, callVars, lockVars
<1>23. ASSUME NEW t \in Thread, ExitJoin(t)
       PROVE  wlock' = u /\ kstate'[u] = "running"
  BY <1>23 DEF ExitJoin, NextSlot, GoOn, Goto, At, procVars, callVars, lockVars
<1>24. ASSUME NEW t \in Thread, ExitLast(t)
       PROVE  wlock' = u /\ kstate'[u] = "running"
  BY <1>24 DEF ExitLast, Reparent, Die, Woken, Panic, At, procVars, callVars, lockVars
<1>25. CASE Tick
  BY <1>25 DEF Tick, procVars, callVars, lockVars
<1>26. CASE UNCHANGED vars
  BY <1>26 DEF vars, procVars, callVars, lockVars
<1>27. ASSUME NEW t \in Thread, Join(t) \/ Exit(t)
       PROVE  wlock' = u /\ kstate'[u] = "running"
  BY <1>16, <1>17, <1>18, <1>21, <1>22, <1>23, <1>24, <1>27 DEF Join, Exit
<1>28. ASSUME NEW t \in Thread, Step(t)
       PROVE  wlock' = u /\ kstate'[u] = "running"
  BY <1>2, <1>4, <1>5, <1>6, <1>7, <1>8, <1>9, <1>10, <1>11, <1>12, <1>13, <1>14, <1>15, <1>19, <1>20,
     <1>27, <1>28 DEF Step
<1> QED
  BY <1>1, <1>2, <1>3, <1>25, <1>26, <1>28 DEF Next

-----------------------------------------------------------------------------
(* The process table.                                                      *)

LEMMA UsedStep ==
  ASSUME TypeOK, OnlyUsedRun, [Next]_vars
  PROVE  OnlyUsedRun'
<1> SUFFICES ASSUME NEW u \in Thread, kstate'[u] \in {"running", "sleeping"}
             PROVE  pstate'[u[1]] # "unused"
  BY DEF OnlyUsedRun
<1>f. /\ kstate \in [Thread -> KState]
      /\ pstate \in [Proc -> {"unused", "used", "zombie"}]
      /\ u[1] \in Proc
  BY FunctionTypes, ThreadFacts
<1> USE <1>f DEF OnlyUsedRun
<1>1. ASSUME NEW t \in Thread, Schedule(t) \/ Yield(t)
       PROVE  pstate'[u[1]] # "unused"
  BY <1>1 DEF Schedule, Yield, procVars, callVars, lockVars
<1>2. ASSUME NEW t \in Thread, YieldPanics(t) \/ Resumed(t)
       PROVE  pstate'[u[1]] # "unused"
  BY <1>2 DEF YieldPanics, Resumed, Panic, procVars, callVars, lockVars
<1>3. ASSUME NEW t \in Thread, Leave(t)
       PROVE  pstate'[u[1]] # "unused"
  BY <1>3 DEF Leave, Panic, procVars, callVars, lockVars
<1>4. ASSUME NEW t \in Thread, CheckProc(t) \/ CheckThread(t) \/ NoCall(t)
       PROVE  pstate'[u[1]] # "unused"
  BY <1>4 DEF CheckProc, CheckThread, NoCall, Goto, At, procVars, callVars, lockVars
<1>5. ASSUME NEW t \in Thread, NEW np \in Proc, Fork(t, np)
       PROVE  pstate'[u[1]] # "unused"
  BY <1>5 DEF Fork, At, Main, procVars, callVars, lockVars
<1>6. ASSUME NEW t \in Thread, NEW np \in Proc, ForkNoMemory(t, np)
       PROVE  pstate'[u[1]] # "unused"
  BY <1>6 DEF ForkNoMemory, Goto, At, procVars, callVars, lockVars
<1>7. ASSUME NEW t \in Thread, ForkPublish(t)
       PROVE  pstate'[u[1]] # "unused"
  BY <1>7 DEF ForkPublish, Goto, At, Main, procVars, callVars, lockVars
<1>8. ASSUME NEW t \in Thread, NEW op, NEW l \in {"wait", "kthread_exit", "sleep", "exit"}, Enter(t, op, l)
       PROVE  pstate'[u[1]] # "unused"
  BY <1>8 DEF Enter, Goto, At, procVars, callVars, lockVars
<1>9. ASSUME NEW t \in Thread, WaitScan(t)
       PROVE  pstate'[u[1]] # "unused"
  <2>1. CASE \E q \in Proc : Reap(t, q)
    <3>1. PICK q \in Proc : Reap(t, q)
      BY <2>1
    <3>2. kstate' = [v \in Thread |-> IF v[1] = q THEN "unused" ELSE kstate[v]]
      BY <3>1 DEF Reap
    <3>3. kstate[u] \in {"running", "sleeping"} /\ u[1] # q
      BY <3>2
    <3>4. pstate' = [pstate EXCEPT ![q] = "unused"]
      BY <3>1 DEF Reap
    <3> QED
      BY <3>3, <3>4
  <2>2. CASE ~ \E q \in Proc : Reap(t, q)
    <3>1. UNCHANGED <<kstate, pstate>>
      BY <1>9, <2>2 DEF WaitScan, Children, procVars
    <3> QED
      BY <3>1
  <2> QED
    BY <2>1, <2>2
<1>10. ASSUME NEW t \in Thread, WaitSleep(t)
       PROVE  pstate'[u[1]] # "unused"
  BY <1>10 DEF WaitSleep, Goto, At, procVars, callVars, lockVars
<1>11. ASSUME NEW t \in Thread, Doze(t)
       PROVE  pstate'[u[1]] # "unused"
  BY <1>11 DEF Doze, SleepAs, OtherLock, Panic, Goto, At, procVars, callVars, lockVars
<1>12. ASSUME NEW t \in Thread, KthreadCreate(t)
       PROVE  pstate'[u[1]] # "unused"
  BY <1>12 DEF KthreadCreate, At, procVars, callVars, lockVars
<1>13. ASSUME NEW t \in Thread, NEW k \in Slot, KthreadKill(t, k)
       PROVE  pstate'[u[1]] # "unused"
  BY <1>13 DEF KthreadKill, Hit, Goto, At, procVars, callVars, lockVars
<1>14. ASSUME NEW t \in Thread, NEW p \in Proc, Kill(t, p)
       PROVE  pstate'[u[1]] # "unused"
  BY <1>14 DEF Kill, Hit, Goto, At, procVars, callVars, lockVars
<1>15. ASSUME NEW t \in Thread, KthreadExit(t)
       PROVE  pstate'[u[1]] # "unused"
  BY <1>15 DEF KthreadExit, Die, Woken, Goto, At, procVars, callVars, lockVars
<1>16. ASSUME NEW t \in Thread, NEW k \in Slot, KthreadJoin(t, k)
       PROVE  pstate'[u[1]] # "unused"
  BY <1>16 DEF KthreadJoin, GoOn, Goto, At, procVars, callVars, lockVars
<1>17. ASSUME NEW t \in Thread,
              \/ JoinScan(t, "join", "join_sleep", JoinDone(t))
              \/ JoinSleep(t, "join_sleep", "join_go", JoinDone(t))
       PROVE  pstate'[u[1]] # "unused"
  BY <1>17 DEF JoinScan, JoinSleep, JoinDone, GoOn, Goto, At, procVars, callVars, lockVars
<1>18. ASSUME NEW t \in Thread,
              \/ JoinScan(t, "exit_scan", "exit_sleep", NextSlot(t, "exit_join", "exit_last"))
              \/ JoinSleep(t, "exit_sleep", "exit_go", NextSlot(t, "exit_join", "exit_last"))
       PROVE  pstate'[u[1]] # "unused"
  BY <1>18 DEF JoinScan, JoinSleep, NextSlot, GoOn, Goto, At, procVars, callVars, lockVars
<1>19. ASSUME NEW t \in Thread, SleepTest(t)
       PROVE  pstate'[u[1]] # "unused"
  BY <1>19 DEF SleepTest, Goto, At, procVars, callVars, lockVars
<1>20. ASSUME NEW t \in Thread, SleepCheck(t)
       PROVE  pstate'[u[1]] # "unused"
  BY <1>20 DEF SleepCheck, Goto, At, procVars, callVars, lockVars
<1>21. ASSUME NEW t \in Thread, ExitTest(t) \/ ExitFirst(t)
       PROVE  pstate'[u[1]] # "unused"
  BY <1>21 DEF ExitTest, ExitFirst, GoOn, Goto, At, procVars, callVars, lockVars
<1>22. ASSUME NEW t \in Thread, ExitMark(t)
       PROVE  pstate'[u[1]] # "unused"
  BY <1>22 DEF ExitMark, Hit, NextSlot, GoOn, Goto, At, procVars, callVars, lockVars
<1>23. ASSUME NEW t \in Thread, ExitJoin(t)
       PROVE  pstate'[u[1]] # "unused"
  BY <1>23 DEF ExitJoin, NextSlot, GoOn, Goto, At, procVars, callVars, lockVars
<1>24. ASSUME NEW t \in Thread, ExitLast(t)
       PROVE  pstate'[u[1]] # "unused"
  BY <1>24 DEF ExitLast, Reparent, Die, Woken, Panic, At, procVars, callVars, lockVars
<1>25. CASE Tick
  BY <1>25 DEF Tick, procVars, callVars, lockVars
<1>26. CASE UNCHANGED vars
  BY <1>26 DEF vars, procVars, callVars, lockVars
<1>27. ASSUME NEW t \in Thread, Join(t) \/ Exit(t)
       PROVE  pstate'[u[1]] # "unused"
  BY <1>16, <1>17, <1>18, <1>21, <1>22, <1>23, <1>24, <1>27 DEF Join, Exit
<1>28. ASSUME NEW t \in Thread, Step(t)
       PROVE  pstate'[u[1]] # "unused"
  BY <1>2, <1>4, <1>5, <1>6, <1>7, <1>8, <1>9, <1>10, <1>11, <1>12, <1>13, <1>14, <1>15, <1>19, <1>20,
     <1>27, <1>28 DEF Step
<1> QED
  BY <1>1, <1>2, <1>3, <1>25, <1>26, <1>28 DEF Next

-----------------------------------------------------------------------------
(* How a thread's life ends, and how a thread gets to sleep in a join.     *)

Dies(u) ==
  \/ KthreadExit(u) /\ ~OnlyThread(u)
  \/ wlock = NoThread /\ ExitLast(u) /\ pstate'[u[1]] = "zombie"
  \/ \E t \in Thread, q \in Proc : At(t, "wait") /\ wlock = NoThread /\ pstate[q] = "zombie"
                                /\ Reap(t, q) /\ u[1] = q

\* Looks(u) and FallsAsleep(u): the two halves of kthread_join().
Looks(u) ==
  /\ pc[u] \in {"join", "exit_scan"} /\ wlock = NoThread
  /\ TargetAlive(u) /\ UNCHANGED <<kstate, arg>>

FallsAsleep(u) ==
  /\ pc[u] \in {"join_go", "exit_go"}
  /\ kstate' = [kstate EXCEPT ![u] = "sleeping"]
  /\ arg' = arg

LEMMA DyingSteps ==
  ASSUME TypeOK, NEW u \in Thread,
         kstate[u] \notin {"zombie", "unused"}, kstate'[u] \in {"zombie", "unused"}, [Next]_vars
  PROVE  Dies(u)
<1>f. /\ kstate \in [Thread -> KState]
      /\ pstate \in [Proc -> {"unused", "used", "zombie"}]
      /\ u[1] \in Proc
  BY FunctionTypes, ThreadFacts
<1> USE <1>f
<1>1. ASSUME NEW t \in Thread, Schedule(t) \/ Yield(t)
       PROVE  Dies(u)
  BY <1>1 DEF Schedule, Yield, procVars, callVars, lockVars
<1>2. ASSUME NEW t \in Thread, YieldPanics(t) \/ Resumed(t)
       PROVE  Dies(u)
  BY <1>2 DEF YieldPanics, Resumed, Panic, procVars, callVars, lockVars
<1>3. ASSUME NEW t \in Thread, Leave(t)
       PROVE  Dies(u)
  BY <1>3 DEF Leave, Panic, procVars, callVars, lockVars
<1>4. ASSUME NEW t \in Thread, CheckProc(t) \/ CheckThread(t) \/ NoCall(t)
       PROVE  Dies(u)
  BY <1>4 DEF CheckProc, CheckThread, NoCall, Goto, At, procVars, callVars, lockVars
<1>5. ASSUME NEW t \in Thread, NEW np \in Proc, Fork(t, np)
       PROVE  Dies(u)
  BY <1>5 DEF Fork, At, Main, procVars, callVars, lockVars
<1>6. ASSUME NEW t \in Thread, NEW np \in Proc, ForkNoMemory(t, np)
       PROVE  Dies(u)
  BY <1>6 DEF ForkNoMemory, Goto, At, procVars, callVars, lockVars
<1>7. ASSUME NEW t \in Thread, ForkPublish(t)
       PROVE  Dies(u)
  BY <1>7 DEF ForkPublish, Goto, At, Main, procVars, callVars, lockVars
<1>8. ASSUME NEW t \in Thread, NEW op, NEW l \in {"wait", "kthread_exit", "sleep", "exit"}, Enter(t, op, l)
       PROVE  Dies(u)
  BY <1>8 DEF Enter, Goto, At, procVars, callVars, lockVars
<1>9. ASSUME NEW t \in Thread, WaitScan(t)
       PROVE  Dies(u)
  <2>1. PICK q \in Proc : pstate[q] = "zombie" /\ Reap(t, q)
    <3>1. CASE \E q \in Children(t[1]) : pstate[q] = "zombie" /\ Reap(t, q)
      BY <3>1 DEF Children
    <3>2. CASE ~ \E q \in Children(t[1]) : pstate[q] = "zombie" /\ Reap(t, q)
      <4>1. UNCHANGED kstate
        BY <1>9, <3>2 DEF WaitScan
      <4> QED
        BY <4>1
    <3> QED
      BY <3>1, <3>2
  <2>2. kstate' = [v \in Thread |-> IF v[1] = q THEN "unused" ELSE kstate[v]]
    BY <2>1 DEF Reap
  <2>3. u[1] = q
    BY <2>2
  <2> QED
    BY <1>9, <2>1, <2>3 DEF Dies, WaitScan
<1>10. ASSUME NEW t \in Thread, WaitSleep(t)
       PROVE  Dies(u)
  BY <1>10 DEF WaitSleep, Goto, At, procVars, callVars, lockVars
<1>11. ASSUME NEW t \in Thread, Doze(t)
       PROVE  Dies(u)
  <2>1. kstate'[u] \in {kstate[u], "sleeping"}
    BY <1>11 DEF Doze, SleepAs, Panic, procVars, callVars, lockVars
  <2> QED
    BY <2>1
<1>12. ASSUME NEW t \in Thread, KthreadCreate(t)
       PROVE  Dies(u)
  BY <1>12 DEF KthreadCreate, At, procVars, callVars, lockVars
<1>13. ASSUME NEW t \in Thread, NEW k \in Slot, KthreadKill(t, k)
       PROVE  Dies(u)
  BY <1>13 DEF KthreadKill, Hit, Goto, At, procVars, callVars, lockVars
<1>14. ASSUME NEW t \in Thread, NEW p \in Proc, Kill(t, p)
       PROVE  Dies(u)
  BY <1>14 DEF Kill, Hit, Goto, At, procVars, callVars, lockVars
<1>15. ASSUME NEW t \in Thread, KthreadExit(t)
       PROVE  Dies(u)
  <2>1. ~OnlyThread(t) /\ Die(t, WakeOwn(t))
    BY <1>15 DEF KthreadExit
  <2>2. u = t
    BY <2>1 DEF Die, Woken
  <2> QED
    BY <1>15, <2>1, <2>2 DEF Dies
<1>16. ASSUME NEW t \in Thread, NEW k \in Slot, KthreadJoin(t, k)
       PROVE  Dies(u)
  BY <1>16 DEF KthreadJoin, GoOn, Goto, At, procVars, callVars, lockVars
<1>17. ASSUME NEW t \in Thread,
              \/ JoinScan(t, "join", "join_sleep", JoinDone(t))
              \/ JoinSleep(t, "join_sleep", "join_go", JoinDone(t))
       PROVE  Dies(u)
  BY <1>17 DEF JoinScan, JoinSleep, JoinDone, GoOn, Goto, At, procVars, callVars, lockVars
<1>18. ASSUME NEW t \in Thread,
              \/ JoinScan(t, "exit_scan", "exit_sleep", NextSlot(t, "exit_join", "exit_last"))
              \/ JoinSleep(t, "exit_sleep", "exit_go", NextSlot(t, "exit_join", "exit_last"))
       PROVE  Dies(u)
  BY <1>18 DEF JoinScan, JoinSleep, NextSlot, GoOn, Goto, At, procVars, callVars, lockVars
<1>19. ASSUME NEW t \in Thread, SleepTest(t)
       PROVE  Dies(u)
  BY <1>19 DEF SleepTest, Goto, At, procVars, callVars, lockVars
<1>20. ASSUME NEW t \in Thread, SleepCheck(t)
       PROVE  Dies(u)
  BY <1>20 DEF SleepCheck, Goto, At, procVars, callVars, lockVars
<1>21. ASSUME NEW t \in Thread, ExitTest(t) \/ ExitFirst(t)
       PROVE  Dies(u)
  BY <1>21 DEF ExitTest, ExitFirst, GoOn, Goto, At, procVars, callVars, lockVars
<1>22. ASSUME NEW t \in Thread, ExitMark(t)
       PROVE  Dies(u)
  BY <1>22 DEF ExitMark, Hit, NextSlot, GoOn, Goto, At, procVars, callVars, lockVars
<1>23. ASSUME NEW t \in Thread, ExitJoin(t)
       PROVE  Dies(u)
  BY <1>23 DEF ExitJoin, NextSlot, GoOn, Goto, At, procVars, callVars, lockVars
<1>24. ASSUME NEW t \in Thread, ExitLast(t)
       PROVE  Dies(u)
  <2>1. ~Panic("init exiting")
    BY DEF Panic
  <2>2. wlock = NoThread /\ Die(t, WakeOnExit(t[1])) /\ pstate' = [pstate EXCEPT ![t[1]] = "zombie"]
    BY <1>24, <2>1 DEF ExitLast
  <2>3. u = t
    BY <2>2 DEF Die, Woken
  <2> QED
    BY <1>24, <2>2, <2>3 DEF Dies
<1>25. CASE Tick
  BY <1>25 DEF Tick, procVars, callVars, lockVars
<1>26. CASE UNCHANGED vars
  BY <1>26 DEF vars, procVars, callVars, lockVars
<1>27. ASSUME NEW t \in Thread, Join(t) \/ Exit(t)
       PROVE  Dies(u)
  BY <1>16, <1>17, <1>18, <1>21, <1>22, <1>23, <1>24, <1>27 DEF Join, Exit
<1>28. ASSUME NEW t \in Thread, Step(t)
       PROVE  Dies(u)
  BY <1>2, <1>4, <1>5, <1>6, <1>7, <1>8, <1>9, <1>10, <1>11, <1>12, <1>13, <1>14, <1>15, <1>19, <1>20,
     <1>27, <1>28 DEF Step
<1> QED
  BY <1>1, <1>2, <1>3, <1>25, <1>26, <1>28 DEF Next

\* A slot becomes UNUSED only in freeproc(), which resets every call made in
\* the process.
LEMMA FoundStep ==
  ASSUME TypeOK, FoundStaysTaken, [Next]_vars
  PROVE  FoundStaysTaken'
<1> SUFFICES ASSUME NEW u \in Thread, exists'[u] = 1
             PROVE  kstate'[<<u[1], arg'[u]>>] # "unused"
  BY DEF FoundStaysTaken
<1> DEFINE Taken == kstate'[<<u[1], arg'[u]>>] # "unused"
           Kept  == /\ exists' = exists /\ arg' = arg
                    /\ \A v \in Thread : kstate'[v] = "unused" => kstate[v] = "unused"
<1>f. /\ kstate \in [Thread -> KState]
      /\ exists \in [Thread -> 0..1]
      /\ arg \in [Thread -> Slot]
      /\ <<u[1], arg[u]>> \in Thread
  BY FunctionTypes, ThreadFacts DEF TypeOK
<1>k. Kept => Taken
  BY <1>f DEF FoundStaysTaken
<1>h. \A S : Hit(S) => \A v \in Thread : kstate'[v] = "unused" => kstate[v] = "unused"
  BY <1>f DEF Hit
<1>d. \A t \in Thread : \A S : Die(t, S) =>
        \A v \in Thread : kstate'[v] = "unused" => kstate[v] = "unused"
  BY <1>f DEF Die, Woken
<1>m. ASSUME NEW m, Panic(m) PROVE Kept
  BY <1>m DEF Panic, callVars
<1>1. ASSUME NEW t \in Thread, Schedule(t) \/ Yield(t) PROVE Kept
  BY <1>1, <1>f DEF Schedule, Yield, callVars
<1>2. ASSUME NEW t \in Thread, YieldPanics(t) \/ Resumed(t) \/ Leave(t) PROVE Kept
  BY <1>2, <1>m DEF YieldPanics, Resumed, Leave, callVars
<1>4. ASSUME NEW t \in Thread, CheckProc(t) \/ CheckThread(t) \/ NoCall(t) PROVE Kept
  BY <1>4 DEF CheckProc, CheckThread, NoCall, callVars
<1>5. ASSUME NEW t \in Thread, NEW np \in Proc, Fork(t, np) \/ ForkNoMemory(t, np) PROVE Kept
  BY <1>5, <1>f DEF Fork, ForkNoMemory, callVars
<1>7. ASSUME NEW t \in Thread, ForkPublish(t) PROVE Kept
  BY <1>7, <1>f DEF ForkPublish
<1>8. ASSUME NEW t \in Thread, NEW op, NEW l, Enter(t, op, l) PROVE Kept
  BY <1>8 DEF Enter, callVars
<1>9. ASSUME NEW t \in Thread, WaitScan(t) PROVE Taken
  <2>1. CASE \E q \in Proc : Reap(t, q)
    <3>1. PICK q \in Proc : Reap(t, q)
      BY <2>1
    <3>2. u[1] # q /\ exists[u] = 1 /\ arg'[u] = arg[u]
      BY <3>1, <1>f DEF Reap
    <3>3. kstate'[<<u[1], arg[u]>>] = kstate[<<u[1], arg[u]>>]
      BY <3>1, <3>2, <1>f DEF Reap
    <3> QED
      BY <3>2, <3>3 DEF FoundStaysTaken
  <2>2. CASE ~ \E q \in Proc : Reap(t, q)
    <3>1. Kept
      BY <1>9, <2>2 DEF WaitScan, Children, callVars
    <3> QED
      BY <3>1, <1>k
  <2> QED
    BY <2>1, <2>2
<1>10. ASSUME NEW t \in Thread, WaitSleep(t) PROVE Kept
  BY <1>10 DEF WaitSleep, callVars
<1>11. ASSUME NEW t \in Thread, Doze(t) PROVE Kept
  BY <1>11, <1>f, <1>m DEF Doze, SleepAs, callVars
<1>12. ASSUME NEW t \in Thread, KthreadCreate(t) PROVE Kept
  BY <1>12, <1>f DEF KthreadCreate, callVars
<1>13. ASSUME NEW t \in Thread, NEW k \in Slot, KthreadKill(t, k) PROVE Kept
  BY <1>13, <1>h DEF KthreadKill, callVars
<1>14. ASSUME NEW t \in Thread, NEW p \in Proc, Kill(t, p) PROVE Kept
  BY <1>14, <1>h DEF Kill, callVars
<1>15. ASSUME NEW t \in Thread, KthreadExit(t) PROVE Kept
  BY <1>15, <1>d DEF KthreadExit, callVars
<1>g. ASSUME NEW t \in Thread, NEW l, NEW k, GoOn(t, l, k),
             \A v \in Thread : kstate'[v] = "unused" => kstate[v] = "unused"
      PROVE  Taken
  <2>1. u # t /\ exists[u] = 1 /\ arg'[u] = arg[u]
    BY <1>g, <1>f DEF GoOn
  <2> QED
    BY <1>g, <1>f, <2>1 DEF FoundStaysTaken
<1>n. ASSUME NEW t \in Thread, NEW loop, NEW l, NextSlot(t, loop, l),
             \A v \in Thread : kstate'[v] = "unused" => kstate[v] = "unused"
      PROVE  Taken
  BY <1>n, <1>g DEF NextSlot
<1>16. ASSUME NEW t \in Thread, NEW k \in Slot, KthreadJoin(t, k) PROVE Taken
  BY <1>16, <1>g DEF KthreadJoin
<1>s. ASSUME NEW t \in Thread, NEW scan, NEW hold, JoinScan(t, scan, hold, FALSE) PROVE Taken
  <2>1. /\ kstate' = kstate /\ arg' = arg
        /\ exists' = [exists EXCEPT ![t] = 1]
        /\ kstate[<<t[1], arg[t]>>] # "unused" \/ exists[t] # 0
    BY <1>s DEF JoinScan
  <2>2. CASE u = t
    BY <1>f, <2>1, <2>2 DEF FoundStaysTaken
  <2>3. CASE u # t
    BY <1>f, <2>1, <2>3 DEF FoundStaysTaken
  <2> QED
    BY <2>2, <2>3
<1>w. ASSUME NEW t \in Thread, NEW hold, NEW go, JoinSleep(t, hold, go, FALSE) PROVE Taken
  <2>1. Kept
    BY <1>w DEF JoinSleep
  <2> QED
    BY <2>1, <1>k
<1>17. ASSUME NEW t \in Thread,
              \/ JoinScan(t, "join", "join_sleep", JoinDone(t))
              \/ JoinSleep(t, "join_sleep", "join_go", JoinDone(t))
       PROVE  Taken
  <2>1. CASE JoinDone(t)
    BY <1>17, <1>g, <2>1 DEF JoinScan, JoinSleep, JoinDone
  <2>2. CASE ~JoinDone(t)
    <3>1. \/ JoinScan(t, "join", "join_sleep", FALSE)
          \/ JoinSleep(t, "join_sleep", "join_go", FALSE)
      BY <1>17, <2>2 DEF JoinScan, JoinSleep
    <3> QED
      BY <3>1, <1>s, <1>w
  <2> QED
    BY <2>1, <2>2
<1>18. ASSUME NEW t \in Thread,
              \/ JoinScan(t, "exit_scan", "exit_sleep", NextSlot(t, "exit_join", "exit_last"))
              \/ JoinSleep(t, "exit_sleep", "exit_go", NextSlot(t, "exit_join", "exit_last"))
       PROVE  Taken
  <2>1. CASE NextSlot(t, "exit_join", "exit_last")
    <3>1. kstate' = kstate
      BY <1>18 DEF JoinScan, JoinSleep
    <3> QED
      BY <1>n, <2>1, <3>1
  <2>2. CASE ~NextSlot(t, "exit_join", "exit_last")
    <3>1. \/ JoinScan(t, "exit_scan", "exit_sleep", FALSE)
          \/ JoinSleep(t, "exit_sleep", "exit_go", FALSE)
      BY <1>18, <2>2 DEF JoinScan, JoinSleep
    <3> QED
      BY <3>1, <1>s, <1>w
  <2> QED
    BY <2>1, <2>2
<1>19. ASSUME NEW t \in Thread, SleepTest(t) \/ SleepCheck(t) PROVE Kept
  BY <1>19 DEF SleepTest, SleepCheck, callVars
<1>21. ASSUME NEW t \in Thread, ExitTest(t) PROVE Kept
  BY <1>21 DEF ExitTest, callVars
<1>22. ASSUME NEW t \in Thread, ExitFirst(t) PROVE Taken
  BY <1>22, <1>g DEF ExitFirst
<1>23. ASSUME NEW t \in Thread, ExitMark(t) PROVE Taken
  <2>1. \A v \in Thread : kstate'[v] = "unused" => kstate[v] = "unused"
    BY <1>23, <1>h DEF ExitMark
  <2> QED
    BY <1>23, <1>n, <2>1 DEF ExitMark
<1>24. ASSUME NEW t \in Thread, ExitJoin(t) PROVE Taken
  <2>1. kstate' = kstate /\ (NextSlot(t, "exit_join", "exit_last") \/ Kept)
    BY <1>24 DEF ExitJoin
  <2> QED
    BY <1>k, <1>n, <2>1
<1>25. ASSUME NEW t \in Thread, ExitLast(t) PROVE Kept
  BY <1>25, <1>m, <1>d DEF ExitLast, callVars
<1>26. CASE Tick
  <2>1. Kept
    BY <1>26, <1>f DEF Tick, callVars
  <2> QED
    BY <2>1, <1>k
<1>27. CASE UNCHANGED vars
  <2>1. Kept
    BY <1>27 DEF vars, callVars
  <2> QED
    BY <2>1, <1>k
<1>28. ASSUME NEW t \in Thread, Join(t) \/ Exit(t) PROVE Taken
  BY <1>28, <1>k, <1>16, <1>17, <1>18, <1>21, <1>22, <1>23, <1>24, <1>25 DEF Join, Exit
<1>29. ASSUME NEW t \in Thread, Step(t) PROVE Taken
  BY <1>29, <1>k, <1>2, <1>4, <1>5, <1>7, <1>8, <1>9, <1>10, <1>11, <1>12, <1>13, <1>14, <1>15,
     <1>19, <1>28 DEF Step
<1> QED
  BY <1>1, <1>2, <1>k, <1>26, <1>27, <1>29 DEF Next

LEMMA LookSteps ==
  ASSUME TypeOK, FoundStaysTaken, NEW u \in Thread,
         pc'[u] \in InJoin, [Next]_vars
  PROVE  (pc[u] \in InJoin /\ arg[u] = arg'[u]) \/ Looks(u)
<1> DEFINE Seen == (pc[u] \in InJoin /\ arg[u] = arg'[u]) \/ Looks(u)
<1> SUFFICES Seen
  OBVIOUS
<1>f. /\ pc \in [Thread -> PC]
      /\ arg \in [Thread -> Slot]
  BY FunctionTypes
<1>g. exists[u] = 0 \/ kstate[<<u[1], arg[u]>>] # "unused"
  <2>1. exists[u] \in 0..1
    BY ZenonT(20) DEF TypeOK
  <2> QED
    BY <2>1 DEF FoundStaysTaken
<1> USE <1>f DEF InJoin
<1>1. ASSUME NEW t \in Thread, Schedule(t) \/ Yield(t)
       PROVE  Seen
  BY <1>1 DEF Schedule, Yield, procVars, callVars, lockVars
<1>2. ASSUME NEW t \in Thread, YieldPanics(t) \/ Resumed(t)
       PROVE  Seen
  BY <1>2 DEF YieldPanics, Resumed, Panic, procVars, callVars, lockVars
<1>3. ASSUME NEW t \in Thread, Leave(t)
       PROVE  Seen
  BY <1>3 DEF Leave, Panic, procVars, callVars, lockVars
<1>4. ASSUME NEW t \in Thread, CheckProc(t) \/ CheckThread(t) \/ NoCall(t)
       PROVE  Seen
  BY <1>4 DEF CheckProc, CheckThread, NoCall, Goto, At, procVars, callVars, lockVars
<1>5. ASSUME NEW t \in Thread, NEW np \in Proc, Fork(t, np)
       PROVE  Seen
  BY <1>5 DEF Fork, At, Main, procVars, callVars, lockVars
<1>6. ASSUME NEW t \in Thread, NEW np \in Proc, ForkNoMemory(t, np)
       PROVE  Seen
  BY <1>6 DEF ForkNoMemory, Goto, At, procVars, callVars, lockVars
<1>7. ASSUME NEW t \in Thread, ForkPublish(t)
       PROVE  Seen
  BY <1>7 DEF ForkPublish, Goto, At, Main, procVars, callVars, lockVars
<1>8. ASSUME NEW t \in Thread, NEW op, NEW l \in {"wait", "kthread_exit", "sleep", "exit"}, Enter(t, op, l)
       PROVE  Seen
  BY <1>8 DEF Enter, Goto, At, procVars, callVars, lockVars
<1>9. ASSUME NEW t \in Thread, WaitScan(t)
       PROVE  Seen
  <2>1. CASE \E q \in Proc : Reap(t, q)
    <3>1. PICK q \in Proc : Reap(t, q)
      BY <2>1
    <3>2. u[1] # q /\ pc'[u] = pc[u]
      BY <3>1 DEF Reap
    <3> QED
      BY <3>1, <3>2 DEF Reap
  <2>2. CASE ~ \E q \in Proc : Reap(t, q)
    BY <1>9, <2>2 DEF WaitScan, Children, Goto, callVars
  <2> QED
    BY <2>1, <2>2
<1>10. ASSUME NEW t \in Thread, WaitSleep(t)
       PROVE  Seen
  BY <1>10 DEF WaitSleep, Goto, At, procVars, callVars, lockVars
<1>11. ASSUME NEW t \in Thread, Doze(t)
       PROVE  Seen
  BY <1>11 DEF Doze, SleepAs, Panic, Goto, At, InJoin, procVars, callVars, lockVars
<1>12. ASSUME NEW t \in Thread, KthreadCreate(t)
       PROVE  Seen
  BY <1>12 DEF KthreadCreate, At, procVars, callVars, lockVars
<1>13. ASSUME NEW t \in Thread, NEW k \in Slot, KthreadKill(t, k)
       PROVE  Seen
  BY <1>13 DEF KthreadKill, Hit, Goto, At, procVars, callVars, lockVars
<1>14. ASSUME NEW t \in Thread, NEW p \in Proc, Kill(t, p)
       PROVE  Seen
  BY <1>14 DEF Kill, Hit, Goto, At, procVars, callVars, lockVars
<1>15. ASSUME NEW t \in Thread, KthreadExit(t)
       PROVE  Seen
  BY <1>15 DEF KthreadExit, Die, Woken, Goto, At, procVars, callVars, lockVars
<1>16. ASSUME NEW t \in Thread, NEW k \in Slot, KthreadJoin(t, k)
       PROVE  Seen
  BY <1>16 DEF KthreadJoin, GoOn, Goto, At, procVars, callVars, lockVars
<1>17. ASSUME NEW t \in Thread,
              \/ JoinScan(t, "join", "join_sleep", JoinDone(t))
              \/ JoinSleep(t, "join_sleep", "join_go", JoinDone(t))
       PROVE  Seen
  <2>1. CASE u = t
    BY <1>17, <1>g, <2>1 DEF JoinScan, JoinSleep, JoinDone, GoOn, Goto, At, Looks, TargetAlive,
                      procVars, callVars, lockVars
  <2>2. CASE u # t
    BY <1>17, <2>2 DEF JoinScan, JoinSleep, JoinDone, GoOn, Goto, procVars, callVars, lockVars
  <2> QED
    BY <2>1, <2>2
<1>18. ASSUME NEW t \in Thread,
              \/ JoinScan(t, "exit_scan", "exit_sleep", NextSlot(t, "exit_join", "exit_last"))
              \/ JoinSleep(t, "exit_sleep", "exit_go", NextSlot(t, "exit_join", "exit_last"))
       PROVE  Seen
  <2>1. CASE u = t
    BY <1>18, <1>g, <2>1 DEF JoinScan, JoinSleep, NextSlot, GoOn, Goto, At, Looks, TargetAlive,
                      procVars, callVars, lockVars
  <2>2. CASE u # t
    BY <1>18, <2>2 DEF JoinScan, JoinSleep, NextSlot, GoOn, Goto, procVars, callVars, lockVars
  <2> QED
    BY <2>1, <2>2
<1>19. ASSUME NEW t \in Thread, SleepTest(t)
       PROVE  Seen
  BY <1>19 DEF SleepTest, Goto, At, procVars, callVars, lockVars
<1>20. ASSUME NEW t \in Thread, SleepCheck(t)
       PROVE  Seen
  BY <1>20 DEF SleepCheck, Goto, At, procVars, callVars, lockVars
<1>21. ASSUME NEW t \in Thread, ExitTest(t) \/ ExitFirst(t)
       PROVE  Seen
  BY <1>21 DEF ExitTest, ExitFirst, GoOn, Goto, At, procVars, callVars, lockVars
<1>22. ASSUME NEW t \in Thread, ExitMark(t)
       PROVE  Seen
  BY <1>22 DEF ExitMark, Hit, NextSlot, GoOn, Goto, At, procVars, callVars, lockVars
<1>23. ASSUME NEW t \in Thread, ExitJoin(t)
       PROVE  Seen
  BY <1>23 DEF ExitJoin, NextSlot, GoOn, Goto, At, procVars, callVars, lockVars
<1>24. ASSUME NEW t \in Thread, ExitLast(t)
       PROVE  Seen
  BY <1>24 DEF ExitLast, Reparent, Die, Woken, Panic, At, procVars, callVars, lockVars
<1>25. CASE Tick
  BY <1>25 DEF Tick, procVars, callVars, lockVars
<1>26. CASE UNCHANGED vars
  BY <1>26 DEF vars, procVars, callVars, lockVars
<1>27. ASSUME NEW t \in Thread, Join(t) \/ Exit(t)
       PROVE  Seen
  BY <1>16, <1>17, <1>18, <1>21, <1>22, <1>23, <1>24, <1>27 DEF Join, Exit
<1>28. ASSUME NEW t \in Thread, Step(t)
       PROVE  Seen
  BY <1>2, <1>4, <1>5, <1>6, <1>7, <1>8, <1>9, <1>10, <1>11, <1>12, <1>13, <1>14, <1>15, <1>19, <1>20,
     <1>27, <1>28 DEF Step
<1> QED
  BY <1>1, <1>2, <1>3, <1>25, <1>26, <1>28 DEF Next

LEMMA AsleepSteps ==
  ASSUME TypeOK, NEW u \in Thread,
         kstate'[u] = "sleeping", pc'[u] \in {"join", "exit_scan"}, [Next]_vars
  PROVE  \/ kstate[u] = "sleeping" /\ pc[u] = pc'[u] /\ arg[u] = arg'[u]
         \/ FallsAsleep(u)
<1> DEFINE Asleep == \/ kstate[u] = "sleeping" /\ pc[u] = pc'[u] /\ arg[u] = arg'[u]
                     \/ FallsAsleep(u)
<1> SUFFICES Asleep
  OBVIOUS
<1>f. /\ kstate \in [Thread -> KState]
      /\ pc \in [Thread -> PC]
      /\ arg \in [Thread -> Slot]
  BY FunctionTypes
<1> USE <1>f
<1>1. ASSUME NEW t \in Thread, Schedule(t) \/ Yield(t)
       PROVE  Asleep
  BY <1>1 DEF Schedule, Yield, procVars, callVars, lockVars
<1>2. ASSUME NEW t \in Thread, YieldPanics(t) \/ Resumed(t)
       PROVE  Asleep
  BY <1>2 DEF YieldPanics, Resumed, Panic, procVars, callVars, lockVars
<1>3. ASSUME NEW t \in Thread, Leave(t)
       PROVE  Asleep
  BY <1>3 DEF Leave, Panic, procVars, callVars, lockVars
<1>4. ASSUME NEW t \in Thread, CheckProc(t) \/ CheckThread(t) \/ NoCall(t)
       PROVE  Asleep
  BY <1>4 DEF CheckProc, CheckThread, NoCall, Goto, At, procVars, callVars, lockVars
<1>5. ASSUME NEW t \in Thread, NEW np \in Proc, Fork(t, np)
       PROVE  Asleep
  BY <1>5 DEF Fork, At, Main, procVars, callVars, lockVars
<1>6. ASSUME NEW t \in Thread, NEW np \in Proc, ForkNoMemory(t, np)
       PROVE  Asleep
  BY <1>6 DEF ForkNoMemory, Goto, At, procVars, callVars, lockVars
<1>7. ASSUME NEW t \in Thread, ForkPublish(t)
       PROVE  Asleep
  BY <1>7 DEF ForkPublish, Goto, At, Main, procVars, callVars, lockVars
<1>8. ASSUME NEW t \in Thread, NEW op, NEW l \in {"wait", "kthread_exit", "sleep", "exit"}, Enter(t, op, l)
       PROVE  Asleep
  BY <1>8 DEF Enter, Goto, At, procVars, callVars, lockVars
<1>9. ASSUME NEW t \in Thread, WaitScan(t)
       PROVE  Asleep
  <2>1. CASE \E q \in Proc : Reap(t, q)
    <3>1. PICK q \in Proc : Reap(t, q)
      BY <2>1
    <3>2. u[1] # q /\ pc'[u] = pc[u] /\ kstate'[u] = kstate[u]
      BY <3>1 DEF Reap
    <3> QED
      BY <3>1, <3>2 DEF Reap
  <2>2. CASE ~ \E q \in Proc : Reap(t, q)
    BY <1>9, <2>2 DEF WaitScan, Children, Goto, callVars
  <2> QED
    BY <2>1, <2>2
<1>10. ASSUME NEW t \in Thread, WaitSleep(t)
       PROVE  Asleep
  BY <1>10 DEF WaitSleep, Goto, At, procVars, callVars, lockVars
<1>11. ASSUME NEW t \in Thread, Doze(t)
       PROVE  Asleep
  <2>1. CASE Panic("sched locks")
    BY <2>1 DEF Panic, procVars, callVars, lockVars
  <2>2. CASE ~Panic("sched locks")
    <3>1. CASE u = t
      BY <1>11, <2>2, <3>1 DEF Doze, SleepAs, Goto, At, FallsAsleep, callVars
    <3>2. CASE u # t
      BY <1>11, <2>2, <3>2 DEF Doze, SleepAs, Goto, callVars
    <3> QED
      BY <3>1, <3>2
  <2> QED
    BY <2>1, <2>2
<1>12. ASSUME NEW t \in Thread, KthreadCreate(t)
       PROVE  Asleep
  BY <1>12 DEF KthreadCreate, At, procVars, callVars, lockVars
<1>13. ASSUME NEW t \in Thread, NEW k \in Slot, KthreadKill(t, k)
       PROVE  Asleep
  BY <1>13 DEF KthreadKill, Hit, Goto, At, procVars, callVars, lockVars
<1>14. ASSUME NEW t \in Thread, NEW p \in Proc, Kill(t, p)
       PROVE  Asleep
  BY <1>14 DEF Kill, Hit, Goto, At, procVars, callVars, lockVars
<1>15. ASSUME NEW t \in Thread, KthreadExit(t)
       PROVE  Asleep
  BY <1>15 DEF KthreadExit, Die, Woken, Goto, At, procVars, callVars, lockVars
<1>16. ASSUME NEW t \in Thread, NEW k \in Slot, KthreadJoin(t, k)
       PROVE  Asleep
  BY <1>16 DEF KthreadJoin, GoOn, Goto, At, procVars, callVars, lockVars
<1>17. ASSUME NEW t \in Thread,
              \/ JoinScan(t, "join", "join_sleep", JoinDone(t))
              \/ JoinSleep(t, "join_sleep", "join_go", JoinDone(t))
       PROVE  Asleep
  BY <1>17 DEF JoinScan, JoinSleep, JoinDone, GoOn, Goto, At, procVars, callVars, lockVars
<1>18. ASSUME NEW t \in Thread,
              \/ JoinScan(t, "exit_scan", "exit_sleep", NextSlot(t, "exit_join", "exit_last"))
              \/ JoinSleep(t, "exit_sleep", "exit_go", NextSlot(t, "exit_join", "exit_last"))
       PROVE  Asleep
  BY <1>18 DEF JoinScan, JoinSleep, NextSlot, GoOn, Goto, At, procVars, callVars, lockVars
<1>19. ASSUME NEW t \in Thread, SleepTest(t)
       PROVE  Asleep
  BY <1>19 DEF SleepTest, Goto, At, procVars, callVars, lockVars
<1>20. ASSUME NEW t \in Thread, SleepCheck(t)
       PROVE  Asleep
  BY <1>20 DEF SleepCheck, Goto, At, procVars, callVars, lockVars
<1>21. ASSUME NEW t \in Thread, ExitTest(t) \/ ExitFirst(t)
       PROVE  Asleep
  BY <1>21 DEF ExitTest, ExitFirst, GoOn, Goto, At, procVars, callVars, lockVars
<1>22. ASSUME NEW t \in Thread, ExitMark(t)
       PROVE  Asleep
  BY <1>22 DEF ExitMark, Hit, NextSlot, GoOn, Goto, At, procVars, callVars, lockVars
<1>23. ASSUME NEW t \in Thread, ExitJoin(t)
       PROVE  Asleep
  BY <1>23 DEF ExitJoin, NextSlot, GoOn, Goto, At, procVars, callVars, lockVars
<1>24. ASSUME NEW t \in Thread, ExitLast(t)
       PROVE  Asleep
  BY <1>24 DEF ExitLast, Reparent, Die, Woken, Panic, At, procVars, callVars, lockVars
<1>25. CASE Tick
  BY <1>25 DEF Tick, procVars, callVars, lockVars
<1>26. CASE UNCHANGED vars
  BY <1>26 DEF vars, procVars, callVars, lockVars
<1>27. ASSUME NEW t \in Thread, Join(t) \/ Exit(t)
       PROVE  Asleep
  BY <1>16, <1>17, <1>18, <1>21, <1>22, <1>23, <1>24, <1>27 DEF Join, Exit
<1>28. ASSUME NEW t \in Thread, Step(t)
       PROVE  Asleep
  BY <1>2, <1>4, <1>5, <1>6, <1>7, <1>8, <1>9, <1>10, <1>11, <1>12, <1>13, <1>14, <1>15, <1>19, <1>20,
     <1>27, <1>28 DEF Step
<1> QED
  BY <1>1, <1>2, <1>3, <1>25, <1>26, <1>28 DEF Next

LEMMA NewProcess ==
  ASSUME TypeOK, NEW r \in Proc, pstate[r] # "used", pstate'[r] = "used", [Next]_vars
  PROVE  \E s \in Thread : Fork(s, r)
<1> DEFINE Born == \E s \in Thread : Fork(s, r)
<1> HIDE DEF Born
<1> SUFFICES pstate'[r] # "used" \/ Born
  BY DEF Born
<1>f. pstate \in [Proc -> {"unused", "used", "zombie"}]
  BY FunctionTypes
<1> USE <1>f
<1>1. ASSUME NEW t \in Thread, Schedule(t) \/ Yield(t)
       PROVE  pstate'[r] # "used" \/ Born
  BY <1>1 DEF Schedule, Yield, procVars, callVars, lockVars
<1>2. ASSUME NEW t \in Thread, YieldPanics(t) \/ Resumed(t)
       PROVE  pstate'[r] # "used" \/ Born
  BY <1>2 DEF YieldPanics, Resumed, Panic, procVars, callVars, lockVars
<1>3. ASSUME NEW t \in Thread, Leave(t)
       PROVE  pstate'[r] # "used" \/ Born
  BY <1>3 DEF Leave, Panic, procVars, callVars, lockVars
<1>4. ASSUME NEW t \in Thread, CheckProc(t) \/ CheckThread(t) \/ NoCall(t)
       PROVE  pstate'[r] # "used" \/ Born
  BY <1>4 DEF CheckProc, CheckThread, NoCall, Goto, At, procVars, callVars, lockVars
<1>5. ASSUME NEW t \in Thread, NEW np \in Proc, Fork(t, np)
       PROVE  pstate'[r] # "used" \/ Born
  <2>1. CASE np = r
    BY <1>5, <2>1 DEF Born
  <2>2. CASE np # r
    BY <1>5, <2>2 DEF Fork
  <2> QED
    BY <2>1, <2>2
<1>6. ASSUME NEW t \in Thread, NEW np \in Proc, ForkNoMemory(t, np)
       PROVE  pstate'[r] # "used" \/ Born
  BY <1>6 DEF ForkNoMemory, Goto, At, procVars, callVars, lockVars
<1>7. ASSUME NEW t \in Thread, ForkPublish(t)
       PROVE  pstate'[r] # "used" \/ Born
  BY <1>7 DEF ForkPublish, Goto, At, Main, procVars, callVars, lockVars
<1>8. ASSUME NEW t \in Thread, NEW op, NEW l \in {"wait", "kthread_exit", "sleep", "exit"}, Enter(t, op, l)
       PROVE  pstate'[r] # "used" \/ Born
  BY <1>8 DEF Enter, Goto, At, procVars, callVars, lockVars
<1>9. ASSUME NEW t \in Thread, WaitScan(t)
       PROVE  pstate'[r] # "used" \/ Born
  <2>1. CASE \E q \in Proc : Reap(t, q)
    BY <2>1 DEF Reap
  <2>2. CASE ~ \E q \in Proc : Reap(t, q)
    BY <1>9, <2>2 DEF WaitScan, Children, procVars
  <2> QED
    BY <2>1, <2>2
<1>10. ASSUME NEW t \in Thread, WaitSleep(t)
       PROVE  pstate'[r] # "used" \/ Born
  BY <1>10 DEF WaitSleep, Goto, At, procVars, callVars, lockVars
<1>11. ASSUME NEW t \in Thread, Doze(t)
       PROVE  pstate'[r] # "used" \/ Born
  BY <1>11 DEF Doze, SleepAs, OtherLock, Panic, Goto, At, procVars, callVars, lockVars
<1>12. ASSUME NEW t \in Thread, KthreadCreate(t)
       PROVE  pstate'[r] # "used" \/ Born
  BY <1>12 DEF KthreadCreate, At, procVars, callVars, lockVars
<1>13. ASSUME NEW t \in Thread, NEW k \in Slot, KthreadKill(t, k)
       PROVE  pstate'[r] # "used" \/ Born
  BY <1>13 DEF KthreadKill, Hit, Goto, At, procVars, callVars, lockVars
<1>14. ASSUME NEW t \in Thread, NEW p \in Proc, Kill(t, p)
       PROVE  pstate'[r] # "used" \/ Born
  BY <1>14 DEF Kill, Hit, Goto, At, procVars, callVars, lockVars
<1>15. ASSUME NEW t \in Thread, KthreadExit(t)
       PROVE  pstate'[r] # "used" \/ Born
  BY <1>15 DEF KthreadExit, Die, Woken, Goto, At, procVars, callVars, lockVars
<1>16. ASSUME NEW t \in Thread, NEW k \in Slot, KthreadJoin(t, k)
       PROVE  pstate'[r] # "used" \/ Born
  BY <1>16 DEF KthreadJoin, GoOn, Goto, At, procVars, callVars, lockVars
<1>17. ASSUME NEW t \in Thread,
              \/ JoinScan(t, "join", "join_sleep", JoinDone(t))
              \/ JoinSleep(t, "join_sleep", "join_go", JoinDone(t))
       PROVE  pstate'[r] # "used" \/ Born
  BY <1>17 DEF JoinScan, JoinSleep, JoinDone, GoOn, Goto, At, procVars, callVars, lockVars
<1>18. ASSUME NEW t \in Thread,
              \/ JoinScan(t, "exit_scan", "exit_sleep", NextSlot(t, "exit_join", "exit_last"))
              \/ JoinSleep(t, "exit_sleep", "exit_go", NextSlot(t, "exit_join", "exit_last"))
       PROVE  pstate'[r] # "used" \/ Born
  BY <1>18 DEF JoinScan, JoinSleep, NextSlot, GoOn, Goto, At, procVars, callVars, lockVars
<1>19. ASSUME NEW t \in Thread, SleepTest(t)
       PROVE  pstate'[r] # "used" \/ Born
  BY <1>19 DEF SleepTest, Goto, At, procVars, callVars, lockVars
<1>20. ASSUME NEW t \in Thread, SleepCheck(t)
       PROVE  pstate'[r] # "used" \/ Born
  BY <1>20 DEF SleepCheck, Goto, At, procVars, callVars, lockVars
<1>21. ASSUME NEW t \in Thread, ExitTest(t) \/ ExitFirst(t)
       PROVE  pstate'[r] # "used" \/ Born
  BY <1>21 DEF ExitTest, ExitFirst, GoOn, Goto, At, procVars, callVars, lockVars
<1>22. ASSUME NEW t \in Thread, ExitMark(t)
       PROVE  pstate'[r] # "used" \/ Born
  BY <1>22 DEF ExitMark, Hit, NextSlot, GoOn, Goto, At, procVars, callVars, lockVars
<1>23. ASSUME NEW t \in Thread, ExitJoin(t)
       PROVE  pstate'[r] # "used" \/ Born
  BY <1>23 DEF ExitJoin, NextSlot, GoOn, Goto, At, procVars, callVars, lockVars
<1>24. ASSUME NEW t \in Thread, ExitLast(t)
       PROVE  pstate'[r] # "used" \/ Born
  BY <1>24 DEF ExitLast, Reparent, Die, Woken, Panic, At, procVars, callVars, lockVars
<1>25. CASE Tick
  BY <1>25 DEF Tick, procVars, callVars, lockVars
<1>26. CASE UNCHANGED vars
  BY <1>26 DEF vars, procVars, callVars, lockVars
<1>27. ASSUME NEW t \in Thread, Join(t) \/ Exit(t)
       PROVE  pstate'[r] # "used" \/ Born
  BY <1>16, <1>17, <1>18, <1>21, <1>22, <1>23, <1>24, <1>27 DEF Join, Exit
<1>28. ASSUME NEW t \in Thread, Step(t)
       PROVE  pstate'[r] # "used" \/ Born
  BY <1>2, <1>4, <1>5, <1>6, <1>7, <1>8, <1>9, <1>10, <1>11, <1>12, <1>13, <1>14, <1>15, <1>19, <1>20,
     <1>27, <1>28 DEF Step
<1> QED
  BY <1>1, <1>2, <1>3, <1>25, <1>26, <1>28 DEF Next

-----------------------------------------------------------------------------
(* The invariant is inductive.                                             *)

LEMMA SeenStep ==
  ASSUME TypeOK, LockHolder, SeenByJoin, FoundStaysTaken, [Next]_vars
  PROVE  SeenByJoin'
<1> SUFFICES ASSUME NEW u \in Thread, pc'[u] \in InJoin
             PROVE  TargetAlive(u)'
  BY DEF SeenByJoin
<1> DEFINE w == <<u[1], arg[u]>>
<1>1. w \in Thread
  BY FunctionTypes, ThreadFacts
<1>2. CASE Looks(u)
  BY <1>2 DEF Looks, TargetAlive
<1>3. CASE pc[u] \in InJoin /\ arg[u] = arg'[u]
  <2>1. TargetAlive(u) /\ wlock = u
    BY <1>3 DEF SeenByJoin, LockHolder, InJoin, Holding
  <2>2. ~Dies(w)
    BY <2>1, KThreadAssumption DEF Dies, KthreadExit
  <2>3. kstate'[w] \notin {"zombie", "unused"}
    BY <1>1, <2>1, <2>2, DyingSteps DEF TargetAlive
  <2> QED
    BY <1>3, <2>3 DEF TargetAlive
<1> QED
  BY <1>2, <1>3, LookSteps

LEMMA SomeThreadStep ==
  ASSUME TypeOK, SomeThreadAlive, [Next]_vars
  PROVE  SomeThreadAlive'
<1> SUFFICES ASSUME NEW p \in Proc, pstate'[p] = "used"
             PROVE  \E t \in Threads(p) : kstate'[t] \notin {"unused", "zombie"}
  BY DEF SomeThreadAlive, Threads
<1>f. /\ kstate \in [Thread -> KState]
      /\ pstate \in [Proc -> {"unused", "used", "zombie"}]
  BY FunctionTypes
<1>1. \A t \in Threads(p) : t \in Thread /\ t[1] = p
  BY DEF Threads, Thread
<1>2. CASE pstate[p] = "used"
  <2>1. PICK t \in Threads(p) : kstate[t] \notin {"unused", "zombie"}
    BY <1>2 DEF SomeThreadAlive
  <2>2. CASE kstate'[t] \notin {"unused", "zombie"}
    BY <2>2
  <2>3. CASE kstate'[t] \in {"unused", "zombie"}
    <3>1. Dies(t)
      BY <1>1, <2>1, <2>3, DyingSteps
    <3>2. KthreadExit(t) /\ ~OnlyThread(t)
      BY <1>1, <1>2, <3>1 DEF Dies
    <3>3. PICK w \in Threads(p) : w # t /\ kstate[w] \notin {"unused", "zombie"}
      BY <1>1, <3>2 DEF OnlyThread
    <3>4. kstate' = [Woken(WakeOwn(t)) EXCEPT ![t] = "zombie"]
      BY <3>2 DEF KthreadExit, Die
    <3>5. kstate'[w] \in {"runnable", kstate[w]}
      BY <1>1, <3>3, <3>4 DEF Woken
    <3> QED
      BY <3>3, <3>5
  <2> QED
    BY <2>2, <2>3
<1>3. CASE pstate[p] # "used"
  <2>1. PICK s \in Thread : Fork(s, p)
    BY <1>3, NewProcess
  <2>2. kstate'[Main(p)] = "used"
    BY <1>f, <2>1, ThreadFacts DEF Fork
  <2>3. Main(p) \in Threads(p)
    BY ThreadFacts DEF Threads, Main
  <2> QED
    BY <2>2, <2>3
<1> QED
  BY <1>2, <1>3

LEMMA JoinersStep ==
  ASSUME TypeOK, OnlyUsedRun, SeenByJoin, JoinersWaitForLiving, [Next]_vars
  PROVE  JoinersWaitForLiving'
<1> SUFFICES ASSUME NEW u \in Thread, kstate'[u] = "sleeping", pstate'[u[1]] = "used",
                    pc'[u] \in {"join", "exit_scan"}
             PROVE  kstate'[<<u[1], arg'[u]>>] \notin {"zombie", "unused"}
  BY DEF JoinersWaitForLiving
<1> DEFINE w == <<u[1], arg[u]>>
<1>f. /\ kstate \in [Thread -> KState]
      /\ pstate \in [Proc -> {"unused", "used", "zombie"}]
      /\ u[1] \in Proc /\ w \in Thread /\ w[1] = u[1]
  BY FunctionTypes, ThreadFacts
<1>1. CASE FallsAsleep(u)
  <2>1. kstate[w] \notin {"zombie", "unused"}
    BY <1>1 DEF FallsAsleep, SeenByJoin, TargetAlive, InJoin
  <2> QED
    BY <1>f, <1>1, <2>1 DEF FallsAsleep
<1>2. CASE kstate[u] = "sleeping" /\ pc[u] = pc'[u] /\ arg[u] = arg'[u]
  <2>1. pstate[u[1]] = "used"
    <3>1. \A s \in Thread : ~Fork(s, u[1])
      BY <1>2 DEF Fork, OnlyUsedRun
    <3> QED
      BY <1>f, <3>1, NewProcess
  <2>2. kstate[w] \notin {"zombie", "unused"}
    BY <1>2, <2>1 DEF JoinersWaitForLiving
  <2>3. ASSUME kstate'[w] \in {"zombie", "unused"} PROVE FALSE
    <3>1. Dies(w)
      BY <1>f, <2>2, <2>3, DyingSteps
    <3>2. KthreadExit(w) /\ ~OnlyThread(w)
      BY <1>f, <2>1, <3>1 DEF Dies
    <3>3. kstate' = [Woken({u[1]}) EXCEPT ![w] = "zombie"]
      BY <1>f, <3>2 DEF KthreadExit, Die, WakeOwn
    <3>4. u # w
      BY <1>f, <2>3
    <3>5. kstate'[u] = "runnable"
      BY <1>2, <3>3, <3>4 DEF Woken, OnTicks
    <3> QED
      BY <3>5
  <2> QED
    BY <1>2, <2>3
<1> QED
  BY <1>1, <1>2, AsleepSteps

LEMMA NextKeeps == IInv /\ [Next]_vars => IInv'
<1> SUFFICES ASSUME IInv, [Next]_vars PROVE IInv'
  OBVIOUS
<1>1. TypeOK'
  BY TypeStep DEF IInv
<1>2. LockHolder' /\ OnlyUsedRun'
  BY LockStep, UsedStep DEF IInv
<1>3. SeenByJoin' /\ FoundStaysTaken' /\ SomeThreadAlive' /\ JoinersWaitForLiving'
  BY SeenStep, FoundStep, SomeThreadStep, JoinersStep DEF IInv
<1> QED
  BY <1>1, <1>2, <1>3 DEF IInv

-----------------------------------------------------------------------------
(* Theorems.                                                               *)

\* The strengthening IInv holds in every reachable state: userinit() establishes
\* it and every step of every thread, however interleaved, keeps it.
THEOREM Invariance == Spec => []IInv
BY InitHolds, NextKeeps, PTL DEF Spec

\* Every variable keeps its type: in particular a pointer to a child process and
\* the slot index of the loops of exit() and of kthread_join() stay in range.
THEOREM TypeCorrect == Spec => []TypeOK
BY Invariance, PTL DEF IInv

\* kthread_exit()'s only_thread test is right: a process that is not finished
\* has a thread that is not, for any number of threads that exit at once.
THEOREM ThreadsLeft == Spec => []SomeThreadAlive
BY Invariance, PTL DEF IInv

\* No wakeup is lost between the scan of kthread_join() and its sleep, in the
\* call and in the loop of exit(), whatever the earlier scans of the same call
\* have left in exists: wait_lock is held in between, and a slot once found
\* taken stays taken.  It says nothing of what follows once wait() has freed a
\* process under a thread that is running, where KThread.tla ends.
THEOREM JoinsMissNothing == Spec => []JoinersWaitForLiving
BY Invariance, PTL DEF IInv

-----------------------------------------------------------------------------
(***************************************************************************)
(* No child's exit is missed by wait() of KThread.tla, for any number of   *)
(* processes, of threads that wait together, and any programs; and no      *)
(* child of a process of one thread is left without a living parent.       *)
(***************************************************************************)

\* freeproc() leaves neither a thread nor a parent behind.
FreeProc ==
  \A p \in Proc : pstate[p] = "unused" =>
    /\ parent[p] = NoProc
    /\ \A u \in Thread : u[1] = p => kstate[u] = "unused"

\* Until fork() publishes a child nobody is its parent and it does not run;
\* no two calls of fork() work on the same child.
Fresh ==
  \A t \in Thread : pc[t] = "fork" =>
    /\ child[t] \in Proc
    /\ pstate[child[t]] = "used"
    /\ parent[child[t]] = NoProc
    /\ \A u \in Thread : u[1] = child[t] => kstate[u] \in {"used", "unused"}
FreshOnce ==
  \A t, u \in Thread : pc[t] = "fork" /\ pc[u] = "fork" /\ child[t] = child[u] => t = u

\* wait() goes on to its sleep having seen children and no dead one.
Living(p) ==
  /\ \E q \in Proc : parent[q] = p
  /\ \A q \in Proc : parent[q] = p => pstate[q] # "zombie"
SeenByWait == \A t \in Thread : pc[t] \in {"wait_sleep", "wait_go"} => Living(t[1])

\* The sleepers, in the same words.
WaitersSee ==
  \A t \in Thread :
    kstate[t] = "sleeping" /\ pstate[t[1]] = "used" /\ pc[t] = "wait" => Living(t[1])

WaitInv == FreeProc /\ Fresh /\ FreshOnce /\ SeenByWait /\ WaitersSee

LEMMA InitWaitInv == Init => WaitInv
BY KThreadAssumption, ThreadFacts
DEF Init, WaitInv, FreeProc, Fresh, FreshOnce, SeenByWait, WaitersSee, Main

-----------------------------------------------------------------------------
(* Most steps leave the family tree alone, and neither create a thread, nor *)
(* put one to sleep, nor take it to one of wait()'s and fork()'s points.    *)

Quiet ==
  /\ UNCHANGED <<pstate, parent, child>>
  /\ \A u \in Thread : kstate'[u] # kstate[u] =>
       kstate[u] \notin {"unused", "used", "zombie"} /\ kstate'[u] # "sleeping"
  /\ \A u \in Thread : pc'[u] # pc[u] =>
       /\ pc[u] # "resumed" /\ (pc[u] = "fork" => pc'[u] = "resumed")
       /\ pc'[u] \notin {"fork", "wait_sleep", "wait_go"}
       /\ pc'[u] = "wait" => kstate'[u] # "sleeping"

\* The others.
Loud(t) ==
  \/ \E np \in Proc : Fork(t, np)
  \/ ForkPublish(t) \/ WaitScan(t) \/ WaitSleep(t)
  \/ KthreadCreate(t) \/ ExitLast(t) \/ Doze(t)

LEMMA QuietKeeps ==
  ASSUME WaitInv, Quiet
  PROVE  WaitInv'
<1> USE DEF WaitInv, Quiet
<1>1. FreeProc'
  BY DEF FreeProc
<1>2. Fresh' /\ FreshOnce'
  BY DEF Fresh, FreshOnce
<1>3. SeenByWait' /\ WaitersSee'
  BY DEF SeenByWait, WaitersSee, Living
<1> QED
  BY <1>1, <1>2, <1>3
LEMMA QuietSteps ==
  ASSUME TypeOK, [Next]_vars
  PROVE  Quiet \/ \E t \in Thread : Loud(t)
<1>f. kstate \in [Thread -> KState] /\ pc \in [Thread -> PC]
  BY FunctionTypes
<1> USE <1>f DEF Quiet, Goto, At, procVars, callVars, lockVars
<1>1. ASSUME UNCHANGED vars PROVE Quiet
  BY <1>1 DEF vars
<1>2. ASSUME Tick PROVE Quiet
  BY <1>2 DEF Tick
<1>3. ASSUME NEW t \in Thread, Schedule(t) \/ Yield(t)
      PROVE  Quiet
  BY <1>3 DEF Schedule, Yield
<1>4. ASSUME NEW t \in Thread, YieldPanics(t) \/ Resumed(t)
      PROVE  Quiet
  BY <1>4 DEF YieldPanics, Resumed, Panic
<1>5. ASSUME NEW t \in Thread, Leave(t)
      PROVE  Quiet
  BY <1>5 DEF Leave, Panic
<1>6. ASSUME NEW t \in Thread, CheckProc(t) \/ CheckThread(t) \/ NoCall(t)
      PROVE  Quiet
  BY <1>6 DEF CheckProc, CheckThread, NoCall
<1>7. ASSUME NEW t \in Thread, NEW np \in Proc, ForkNoMemory(t, np)
      PROVE  Quiet
  BY <1>7 DEF ForkNoMemory
<1>8. ASSUME NEW t \in Thread, NEW op, NEW l \in {"wait", "kthread_exit", "sleep", "exit"},
              Enter(t, op, l)
      PROVE  Quiet
  BY <1>8 DEF Enter
<1>9. ASSUME NEW t \in Thread, NEW k \in Slot, KthreadKill(t, k)
      PROVE  Quiet
  BY <1>9 DEF KthreadKill, Hit
<1>10. ASSUME NEW t \in Thread, NEW p \in Proc, Kill(t, p)
      PROVE  Quiet
  BY <1>10 DEF Kill, Hit
<1>11. ASSUME NEW t \in Thread, KthreadExit(t)
      PROVE  Quiet
  BY <1>11 DEF KthreadExit, Die, Woken
<1>12. ASSUME NEW t \in Thread, Join(t)
      PROVE  Quiet
  BY <1>12 DEF Join, KthreadJoin, JoinScan, JoinSleep, JoinDone, GoOn
<1>13. ASSUME NEW t \in Thread, SleepTest(t) \/ SleepCheck(t)
      PROVE  Quiet
  BY <1>13 DEF SleepTest, SleepCheck
<1>14. ASSUME NEW t \in Thread, Exit(t), ~ExitLast(t)
      PROVE  Quiet
  BY <1>14 DEF Exit, ExitTest, ExitFirst, ExitMark, ExitJoin, JoinScan, JoinSleep, NextSlot, GoOn,
               Hit
<1> QED
  BY <1>1, <1>2, <1>3, <1>4, <1>5, <1>6, <1>7, <1>8, <1>9, <1>10, <1>11, <1>12, <1>13, <1>14
  DEF Next, Step, Loud

-----------------------------------------------------------------------------
(* The other steps.                                                        *)

LEMMA LoudKeeps ==
  ASSUME TypeOK, LockHolder, WaitInv, NEW t \in Thread, Loud(t)
  PROVE  WaitInv'
<1>f. /\ kstate \in [Thread -> KState] /\ pc \in [Thread -> PC]
      /\ pstate \in [Proc -> {"unused", "used", "zombie"}]
      /\ parent \in [Proc -> Proc \union {NoProc}]
      /\ child \in [Thread -> Proc \union {NoProc}]
      /\ \A u \in Thread : u[1] \in Proc
      /\ \A p \in Proc : Main(p) \in Thread /\ Main(p)[1] = p
      /\ NoProc \notin Proc /\ NoThread \notin Thread
  BY FunctionTypes, ThreadFacts, KThreadAssumption
<1>h. wlock = NoThread => \A u \in Thread : pc[u] \notin {"wait_sleep", "wait_go"}
  BY <1>f DEF LockHolder, Holding
<1>p. ASSUME NEW m, Panic(m)
      PROVE  WaitInv'
  BY <1>p DEF Panic, procVars, callVars, WaitInv, FreeProc, Fresh, FreshOnce, SeenByWait,
              WaitersSee, Living
<1> USE <1>f DEF WaitInv
<1>1. ASSUME NEW np \in Proc, Fork(t, np)
      PROVE  WaitInv'
  <2>1. FreeProc'
    BY <1>1 DEF Fork, FreeProc, At
  <2>2. Fresh'
    BY <1>1 DEF Fork, FreeProc, At, Fresh
  <2>3. FreshOnce'
    BY <1>1 DEF Fork, FreeProc, At, FreshOnce, Fresh
  <2>4. SeenByWait'
    BY <1>1 DEF Fork, FreeProc, At, SeenByWait, Living
  <2>5. WaitersSee'
    BY <1>1 DEF Fork, FreeProc, At, WaitersSee, Living
  <2> QED
    BY <2>1, <2>2, <2>3, <2>4, <2>5
<1>2. CASE ForkPublish(t)
  <2>1. FreeProc'
    BY <1>2, <1>h DEF ForkPublish, Goto, At, Fresh, FreeProc
  <2>2. Fresh'
    BY <1>2, <1>h DEF ForkPublish, Goto, At, Fresh, FreshOnce
  <2>3. FreshOnce'
    BY <1>2, <1>h DEF ForkPublish, Goto, At, Fresh, FreshOnce
  <2>4. SeenByWait'
    BY <1>2, <1>h DEF ForkPublish, Goto, At, Fresh, SeenByWait, Living
  <2>5. WaitersSee'
    BY <1>2, <1>h DEF ForkPublish, Goto, At, Fresh, WaitersSee, Living
  <2> QED
    BY <2>1, <2>2, <2>3, <2>4, <2>5
<1>3. CASE WaitScan(t)
  <2>1. ASSUME NEW q \in Proc, parent[q] = t[1], pstate[q] = "zombie", Reap(t, q)
        PROVE  WaitInv'
    <3>0. /\ \A u \in Thread : pc[u] \notin {"wait_sleep", "wait_go"}
          /\ pstate' = [pstate EXCEPT ![q] = "unused"]
          /\ parent' = [parent EXCEPT ![q] = NoProc]
          /\ \A u \in Thread : u[1] = q => kstate'[u] = "unused" /\ pc'[u] = "none"
          /\ \A u \in Thread : u[1] # q => /\ kstate'[u] = kstate[u]
                                         /\ pc'[u] \in {"user", pc[u]}
                                         /\ child'[u] = child[u]
      BY <1>3, <1>h, <2>1 DEF WaitScan, Reap
    <3>1. FreeProc'
      BY <2>1, <3>0 DEF FreeProc
    <3>2. Fresh'
      BY <2>1, <3>0 DEF Fresh
    <3>3. FreshOnce'
      BY <2>1, <3>0 DEF FreshOnce
    <3>4. SeenByWait'
      BY <2>1, <3>0 DEF SeenByWait, Living
    <3>5. WaitersSee'
      BY <2>1, <3>0 DEF WaitersSee, Living
    <3> QED
      BY <3>1, <3>2, <3>3, <3>4, <3>5
  <2>2. ASSUME ~ \E q \in Children(t[1]) : pstate[q] = "zombie" /\ Reap(t, q)
        PROVE  WaitInv'
    <3>1. FreeProc'
      BY <1>3, <2>2 DEF WaitScan, Children, procVars, callVars, Goto, At, FreeProc
    <3>2. Fresh'
      BY <1>3, <2>2 DEF WaitScan, Children, procVars, callVars, Goto, At, Fresh
    <3>3. FreshOnce'
      BY <1>3, <2>2 DEF WaitScan, Children, procVars, callVars, Goto, At, FreshOnce
    <3>4. SeenByWait'
      BY <1>3, <2>2 DEF WaitScan, Children, procVars, callVars, Goto, At, SeenByWait, Living
    <3>5. WaitersSee'
      BY <1>3, <2>2 DEF WaitScan, Children, procVars, callVars, Goto, At, WaitersSee, Living
    <3> QED
      BY <3>1, <3>2, <3>3, <3>4, <3>5
  <2> QED
    BY <2>1, <2>2 DEF Children
<1>4. CASE WaitSleep(t)
  <2>1. FreeProc'
    BY <1>4 DEF WaitSleep, procVars, callVars, Goto, At, FreeProc
  <2>2. Fresh'
    BY <1>4 DEF WaitSleep, procVars, callVars, Goto, At, Fresh
  <2>3. FreshOnce'
    BY <1>4 DEF WaitSleep, procVars, callVars, Goto, At, FreshOnce
  <2>4. SeenByWait'
    BY <1>4 DEF WaitSleep, procVars, callVars, Goto, At, SeenByWait, Living
  <2>5. WaitersSee'
    BY <1>4 DEF WaitSleep, procVars, callVars, Goto, At, WaitersSee, Living
  <2> QED
    BY <2>1, <2>2, <2>3, <2>4, <2>5
<1>5. CASE KthreadCreate(t)
  <2>1. FreeProc'
    BY <1>5 DEF KthreadCreate, procVars, callVars, FreeProc, At
  <2>2. Fresh'
    BY <1>5 DEF KthreadCreate, procVars, callVars, FreeProc, At, Fresh
  <2>3. FreshOnce'
    BY <1>5 DEF KthreadCreate, procVars, callVars, FreeProc, At, FreshOnce
  <2>4. SeenByWait'
    BY <1>5 DEF KthreadCreate, procVars, callVars, FreeProc, At, SeenByWait, Living
  <2>5. WaitersSee'
    BY <1>5 DEF KthreadCreate, procVars, callVars, FreeProc, At, WaitersSee, Living
  <2> QED
    BY <2>1, <2>2, <2>3, <2>4, <2>5
<1>6. CASE ExitLast(t) /\ ~Panic("init exiting")
  <2>a. /\ wlock = NoThread
        /\ pstate' = [pstate EXCEPT ![t[1]] = "zombie"]
        /\ child' = child
        /\ kstate[t] = "running"
        /\ pc' = [pc EXCEPT ![t] = "none"]
        /\ parent' = [q \in Proc |-> IF parent[q] = t[1] THEN initproc ELSE parent[q]]
        /\ kstate' = [Woken(WakeOnExit(t[1])) EXCEPT ![t] = "zombie"]
    BY <1>6 DEF ExitLast, Reparent, Die, callVars, At
  <2>0. \A u \in Thread :
          /\ pc[u] \notin {"wait_sleep", "wait_go"}
          /\ kstate[u] \in {"unused", "used"} => kstate'[u] = kstate[u]
    BY <1>h, <2>a DEF Woken
  <2>s. ASSUME NEW u \in Thread, kstate'[u] = "sleeping", pc[u] = "wait"
        PROVE  /\ kstate[u] = "sleeping"
               /\ u[1] \notin WakeOnExit(t[1])
    BY <2>a, <2>s DEF Woken, OnTicks
  <2>1. FreeProc'
    BY <2>a, <2>0 DEF FreeProc
  <2>2. Fresh'
    <3> SUFFICES ASSUME NEW u \in Thread, pc'[u] = "fork"
                 PROVE  /\ child'[u] \in Proc
                        /\ pstate'[child'[u]] = "used"
                        /\ parent'[child'[u]] = NoProc
                        /\ \A v \in Thread : v[1] = child'[u] => kstate'[v] \in {"used", "unused"}
      BY DEF Fresh
    <3>1. pc[u] = "fork" /\ child'[u] = child[u]
      BY <2>a
    <3>2. child[u] # t[1]
      BY <2>a, <3>1 DEF Fresh
    <3> QED
      BY <2>a, <2>0, <3>1, <3>2 DEF Fresh
  <2>3. FreshOnce'
    BY <2>a DEF FreshOnce
  <2>4. SeenByWait'
    BY <2>a, <2>0 DEF SeenByWait
  <2>5. WaitersSee'
    <3> SUFFICES ASSUME NEW u \in Thread, kstate'[u] = "sleeping", pstate'[u[1]] = "used",
                        pc'[u] = "wait"
                 PROVE  Living(u[1])'
      BY DEF WaitersSee
    <3>1. u[1] # t[1] /\ pc[u] = "wait"
      BY <2>a
    <3>2. Living(u[1]) /\ u[1] # parent[t[1]]
      BY <2>a, <2>s, <3>1 DEF WaitersSee, WakeOnExit
    <3>3. u[1] = initproc => \A q \in Proc : parent[q] # t[1]
      BY <2>s, <3>1 DEF WakeOnExit, Children
    <3>4. \A q \in Proc : parent'[q] = u[1] <=> parent[q] = u[1]
      BY <2>a, <3>1, <3>3
    <3> QED
      BY <2>a, <3>2, <3>4 DEF Living
  <2> QED
    BY <2>1, <2>2, <2>3, <2>4, <2>5
<1>7. CASE Doze(t) /\ ~Panic("sched locks")
  <2>0. PICK l \in {"wait", "join", "exit_scan", "sleep"} :
          /\ kstate[t] = "running"
          /\ l = "wait" => pc[t] = "wait_go"
          /\ UNCHANGED <<pstate, parent, child>>
          /\ kstate' = [kstate EXCEPT ![t] = "sleeping"]
          /\ pc' = [pc EXCEPT ![t] = l]
    BY <1>7 DEF Doze, SleepAs, Goto, At, procVars, callVars
  <2>1. FreeProc'
    BY <2>0 DEF SeenByWait, FreeProc
  <2>2. Fresh'
    BY <2>0 DEF SeenByWait, Fresh
  <2>3. FreshOnce'
    BY <2>0 DEF SeenByWait, FreshOnce
  <2>4. SeenByWait'
    BY <2>0 DEF SeenByWait, Living
  <2>5. WaitersSee'
    BY <2>0 DEF SeenByWait, WaitersSee, Living
  <2> QED
    BY <2>1, <2>2, <2>3, <2>4, <2>5
<1> QED
  BY <1>p, <1>1, <1>2, <1>3, <1>4, <1>5, <1>6, <1>7 DEF Loud, ExitLast, Doze, SleepAs

-----------------------------------------------------------------------------
\* No child's exit is missed: whoever sleeps in wait() has children and none of
\* them is dead, inherited ones and several waiting threads included.
THEOREM WaitsMissNothing == Spec => []WaitersWaitForLiving
<1>1. IInv /\ WaitInv /\ [Next]_vars => WaitInv'
  BY QuietKeeps, QuietSteps, LoudKeeps DEF IInv
<1>2. WaitInv => WaitersWaitForLiving
  BY DEF WaitInv, WaitersSee, Living, WaitersWaitForLiving, Children
<1> QED
  BY Invariance, InitWaitInv, <1>1, <1>2, PTL DEF Spec

-----------------------------------------------------------------------------
(* Processes of one thread: the dead have no children left behind.         *)

\* init never ends, and only the thread of a process that has not is alive.
LoneInv ==
  /\ ParentAlive
  /\ pstate[initproc] = "used"
  /\ \A t \in Thread : kstate[t] \notin {"unused", "zombie"} => pstate[t[1]] = "used"

LEMMA LoneLoudKeeps ==
  ASSUME NKT = 1, TypeOK, WaitInv, LoneInv, NEW t \in Thread, Loud(t)
  PROVE  LoneInv'
<1>f. /\ kstate \in [Thread -> KState]
      /\ pstate \in [Proc -> {"unused", "used", "zombie"}]
      /\ parent \in [Proc -> Proc \union {NoProc}]
      /\ \A u \in Thread : u[1] \in Proc
      /\ \A p \in Proc : Main(p) \in Thread /\ Main(p)[1] = p
      /\ NoProc \notin Proc /\ initproc \in Proc
  BY FunctionTypes, ThreadFacts, KThreadAssumption
<1>o. \A u, v \in Thread : u[1] = v[1] => u = v
  <2>1. \A u \in Thread : u = <<u[1], 0>>
    BY ThreadFacts DEF Slot
  <2> QED
    BY <2>1
<1>p. ASSUME NEW m, Panic(m)
      PROVE  LoneInv'
  BY <1>p DEF Panic, procVars, LoneInv, ParentAlive
<1> USE <1>f
<1>1. ASSUME NEW np \in Proc, Fork(t, np)
      PROVE  LoneInv'
  BY <1>1 DEF Fork, LoneInv, ParentAlive, At
<1>2. CASE ForkPublish(t)
  <2>1. /\ child[t] \in Proc /\ pstate[child[t]] = "used"
        /\ pstate[t[1]] = "used"
    BY <1>2 DEF ForkPublish, At, WaitInv, Fresh, LoneInv
  <2> QED
    BY <1>2, <2>1 DEF ForkPublish, LoneInv, ParentAlive
<1>3. CASE WaitScan(t)
  <2>1. ASSUME NEW q \in Proc, pstate[q] = "zombie", Reap(t, q)
        PROVE  LoneInv'
    <3>1. /\ pstate' = [pstate EXCEPT ![q] = "unused"]
          /\ parent' = [parent EXCEPT ![q] = NoProc]
          /\ kstate' = [u \in Thread |-> IF u[1] = q THEN "unused" ELSE kstate[u]]
      BY <2>1 DEF Reap
    <3>2. \A p \in Proc : parent[p] # q
      BY <2>1 DEF LoneInv, ParentAlive
    <3> QED
      BY <2>1, <3>1, <3>2 DEF LoneInv, ParentAlive
  <2>2. ASSUME UNCHANGED <<procVars, kstate>>
        PROVE  LoneInv'
    BY <2>2 DEF procVars, LoneInv, ParentAlive
  <2> QED
    BY <1>3, <2>1, <2>2 DEF WaitScan, Children
<1>4. CASE WaitSleep(t)
  BY <1>4 DEF WaitSleep, procVars, LoneInv, ParentAlive
<1>5. CASE KthreadCreate(t)
  <2>1. kstate[t] = "running" /\ t = <<t[1], 0>> /\ Slot = {0}
    BY <1>5, ThreadFacts DEF KthreadCreate, At, Slot
  <2> QED
    BY <1>5, <2>1 DEF KthreadCreate
<1>6. CASE ExitLast(t) /\ ~Panic("init exiting")
  <2>1. /\ t[1] # initproc
        /\ parent' = [q \in Proc |-> IF parent[q] = t[1] THEN initproc ELSE parent[q]]
        /\ pstate' = [pstate EXCEPT ![t[1]] = "zombie"]
        /\ kstate' = [Woken(WakeOnExit(t[1])) EXCEPT ![t] = "zombie"]
    BY <1>6 DEF ExitLast, Reparent, Die
  <2>2. \A u \in Thread : kstate'[u] \notin {"unused", "zombie"} =>
          u # t /\ kstate[u] \notin {"unused", "zombie"}
    BY <2>1 DEF Woken
  <2>3. ParentAlive'
    BY <2>1 DEF LoneInv, ParentAlive
  <2> QED
    BY <1>o, <2>1, <2>2, <2>3 DEF LoneInv
<1>7. CASE Doze(t) /\ ~Panic("sched locks")
  <2>1. /\ UNCHANGED <<pstate, parent>>
        /\ kstate[t] = "running" /\ kstate' = [kstate EXCEPT ![t] = "sleeping"]
    BY <1>7 DEF Doze, SleepAs, At, procVars
  <2> QED
    BY <2>1 DEF LoneInv, ParentAlive
<1> QED
  BY <1>p, <1>1, <1>2, <1>3, <1>4, <1>5, <1>6, <1>7 DEF Loud, ExitLast, Doze, SleepAs

LEMMA LoneInvariant ==
  ASSUME NKT = 1
  PROVE  Spec => []LoneInv
<1>1. Init => LoneInv
  BY KThreadAssumption, ThreadFacts DEF Init, LoneInv, ParentAlive, Main
<1>2. IInv /\ WaitInv /\ LoneInv /\ [Next]_vars => LoneInv'
  <2> SUFFICES ASSUME IInv, WaitInv, LoneInv, [Next]_vars
               PROVE  LoneInv'
    OBVIOUS
  <2>1. CASE Quiet
    BY <2>1 DEF Quiet, LoneInv, ParentAlive
  <2> QED
    BY <2>1, QuietSteps, LoneLoudKeeps DEF IInv
<1>3. IInv /\ WaitInv /\ [Next]_vars => WaitInv'
  BY QuietKeeps, QuietSteps, LoudKeeps DEF IInv
<1> QED
  BY Invariance, InitWaitInv, <1>1, <1>2, <1>3, PTL DEF Spec

\* A process of one thread that exits hands over every child, dead or alive:
\* somebody alive can always wait for it.
THEOREM OrphansAreAdopted ==
  ASSUME NKT = 1
  PROVE  Spec => []ParentAlive
<1>1. LoneInv => ParentAlive
  BY DEF LoneInv
<1> QED
  BY LoneInvariant, <1>1, PTL

\* A process that fork() has not published yet is about to get its parent, and
\* until then the call of fork() is one of a live process.  A thread that
\* resumes in the middle of exit() (Leave) can only panic.
Given(q) ==
  \E t \in Thread : pc[t] \in {"fork", "resumed"} /\ child[t] = q /\ pstate[t[1]] = "used"
NoOrphans == \A q \in Proc \ {initproc} : pstate[q] # "unused" => parent[q] # NoProc \/ Given(q)

LEMMA GivenKept ==
  ASSUME UNCHANGED <<pstate, child>>,
         \A u \in Thread : pc[u] \in {"fork", "resumed"} => pc'[u] \in {"fork", "resumed"},
         NEW q, Given(q)
  PROVE  Given(q)'
BY DEF Given

LEMMA OrphansLoudKeeps ==
  ASSUME NKT = 1, TypeOK, WaitInv, LoneInv, NoOrphans, NEW t \in Thread, Loud(t)
  PROVE  NoOrphans'
<1>f. /\ kstate \in [Thread -> KState] /\ pc \in [Thread -> PC]
      /\ pstate \in [Proc -> {"unused", "used", "zombie"}]
      /\ parent \in [Proc -> Proc \union {NoProc}]
      /\ child \in [Thread -> Proc \union {NoProc}]
      /\ \A u \in Thread : u[1] \in Proc
      /\ \A p \in Proc : Main(p) \in Thread /\ Main(p)[1] = p
      /\ NoProc \notin Proc /\ initproc \in Proc
  BY FunctionTypes, ThreadFacts, KThreadAssumption
<1>o. \A u, v \in Thread : u[1] = v[1] => u = v
  <2>1. \A u \in Thread : u = <<u[1], 0>>
    BY ThreadFacts DEF Slot
  <2> QED
    BY <2>1
<1>s. ASSUME UNCHANGED <<pstate, parent, child>>,
             \A u \in Thread : pc[u] \in {"fork", "resumed"} => pc'[u] \in {"fork", "resumed"}
      PROVE  NoOrphans'
  BY <1>s, GivenKept DEF NoOrphans
<1>p. ASSUME NEW m, Panic(m)
      PROVE  NoOrphans'
  BY <1>p, <1>s DEF Panic, procVars, callVars
<1>1. ASSUME NEW np \in Proc, Fork(t, np)
      PROVE  NoOrphans'
  <2> USE <1>f
  <2>1. /\ pstate' = [pstate EXCEPT ![np] = "used"] /\ pstate[np] = "unused"
        /\ parent' = parent
        /\ child' = [child EXCEPT ![t] = np]
        /\ pc' = [pc EXCEPT ![t] = "fork", ![Main(np)] = "user"]
        /\ pc[t] = "sys" /\ kstate[t] = "running"
    BY <1>1 DEF Fork, At
  <2>2. pstate[t[1]] = "used" /\ t # Main(np)
    BY <2>1 DEF LoneInv
  <2>3. Given(np)'
    BY <2>1, <2>2 DEF Given
  <2>4. ASSUME NEW q \in Proc, q # np, Given(q)
        PROVE  Given(q)'
    <3>1. PICK u \in Thread : /\ pc[u] \in {"fork", "resumed"} /\ child[u] = q
                              /\ pstate[u[1]] = "used"
      BY <2>4 DEF Given
    <3>2. u # t /\ u # Main(np) /\ u[1] # np
      BY <2>1, <3>1
    <3> QED
      BY <2>1, <3>1, <3>2 DEF Given
  <2>5. ASSUME NEW q \in Proc, q # np PROVE pstate'[q] = pstate[q]
    BY <2>1, <2>5
  <2> QED
    BY <2>1, <2>3, <2>4, <2>5 DEF NoOrphans
<1>2. CASE ForkPublish(t)
  <2> USE <1>f
  <2>1. /\ UNCHANGED pstate
        /\ parent' = [parent EXCEPT ![child[t]] = t[1]]
        /\ child' = [child EXCEPT ![t] = NoProc]
        /\ pc' = [pc EXCEPT ![t] = "user"]
        /\ child[t] \in Proc
    BY <1>2 DEF ForkPublish, At, Goto, WaitInv, Fresh
  <2>2. ASSUME NEW q \in Proc, q # child[t], Given(q)
        PROVE  Given(q)'
    <3>1. PICK u \in Thread : /\ pc[u] \in {"fork", "resumed"} /\ child[u] = q
                              /\ pstate[u[1]] = "used"
      BY <2>2 DEF Given
    <3> QED
      BY <2>1, <2>2, <3>1 DEF Given
  <2>3. parent'[child[t]] # NoProc /\ \A q \in Proc : q # child[t] => parent'[q] = parent[q]
    BY <2>1
  <2> QED
    BY <2>1, <2>2, <2>3 DEF NoOrphans
<1>3. CASE WaitScan(t)
  <2> USE <1>f
  <2>1. ASSUME NEW q \in Proc, pstate[q] = "zombie", Reap(t, q), At(t, "wait")
        PROVE  NoOrphans'
    <3>1. /\ pstate' = [pstate EXCEPT ![q] = "unused"]
          /\ parent' = [parent EXCEPT ![q] = NoProc]
          /\ pc' = [u \in Thread |-> IF u[1] = q THEN "none" ELSE IF u = t THEN "user" ELSE pc[u]]
          /\ child' = [u \in Thread |-> IF u[1] = q THEN NoProc ELSE child[u]]
          /\ pc[t] = "wait"
      BY <2>1 DEF Reap, At
    <3>2. ASSUME NEW r \in Proc, Given(r) PROVE Given(r)'
      <4>1. PICK u \in Thread : /\ pc[u] \in {"fork", "resumed"} /\ child[u] = r
                                /\ pstate[u[1]] = "used"
        BY <3>2 DEF Given
      <4>2. u[1] # q /\ u # t
        BY <2>1, <3>1, <4>1
      <4> QED
        BY <3>1, <4>1, <4>2 DEF Given
    <3>3. \A r \in Proc : r # q => parent'[r] = parent[r] /\ pstate'[r] = pstate[r]
      BY <3>1
    <3>4. pstate'[q] = "unused"
      BY <3>1
    <3> QED
      BY <3>2, <3>3, <3>4 DEF NoOrphans
  <2>2. ASSUME UNCHANGED <<procVars, child>>, Goto(t, "user") \/ Goto(t, "wait_sleep"),
               At(t, "wait")
        PROVE  NoOrphans'
    BY <2>2, <1>s DEF procVars, Goto, At
  <2> QED
    BY <1>3, <2>1, <2>2 DEF WaitScan, Children, callVars
<1>4. CASE WaitSleep(t)
  BY <1>4, <1>f, <1>s DEF WaitSleep, procVars, callVars, Goto, At
<1>5. CASE KthreadCreate(t)
  <2>1. kstate[t] = "running" /\ t = <<t[1], 0>> /\ Slot = {0}
    BY <1>5, ThreadFacts DEF KthreadCreate, At, Slot
  <2> QED
    BY <1>5, <2>1 DEF KthreadCreate
<1>6. CASE ExitLast(t) /\ ~Panic("init exiting")
  <2> USE <1>f
  <2>1. /\ parent' = [q \in Proc |-> IF parent[q] = t[1] THEN initproc ELSE parent[q]]
        /\ pstate' = [pstate EXCEPT ![t[1]] = "zombie"]
        /\ pc' = [pc EXCEPT ![t] = "none"]
        /\ UNCHANGED child
        /\ pc[t] = "exit_last" /\ kstate[t] = "running"
    BY <1>6 DEF ExitLast, Reparent, Die, callVars, At
  <2>2. ASSUME NEW q \in Proc, Given(q) PROVE Given(q)'
    <3>1. PICK u \in Thread : /\ pc[u] \in {"fork", "resumed"} /\ child[u] = q
                              /\ pstate[u[1]] = "used"
      BY <2>2 DEF Given
    <3>2. u # t /\ u[1] # t[1]
      BY <1>o, <2>1, <3>1
    <3> QED
      BY <2>1, <3>1, <3>2 DEF Given
  <2>3. pstate[t[1]] = "used"
    BY <2>1 DEF LoneInv
  <2>4. \A q \in Proc : pstate'[q] # "unused" => pstate[q] # "unused"
    BY <2>1, <2>3
  <2>5. \A q \in Proc : parent[q] # NoProc => parent'[q] # NoProc
    BY <2>1
  <2> QED
    BY <2>2, <2>4, <2>5 DEF NoOrphans
<1>7. CASE Doze(t) /\ ~Panic("sched locks")
  <2>1. /\ UNCHANGED <<pstate, parent, child>>
        /\ pc[t] \notin {"fork", "resumed"}
        /\ \E l : pc' = [pc EXCEPT ![t] = l]
    BY <1>7 DEF Doze, SleepAs, At, Goto, procVars, callVars
  <2>2. \A u \in Thread : u # t => pc'[u] = pc[u]
    BY <2>1, <1>f
  <2> QED
    BY <2>1, <2>2, <1>s
<1> QED
  BY <1>p, <1>1, <1>2, <1>3, <1>4, <1>5, <1>6, <1>7 DEF Loud, ExitLast, Doze, SleepAs

\* Every process in use has a parent, or fork() is about to name it, and the
\* parent is alive (OrphansAreAdopted): no reap frees a parent with children, no
\* death comes between allocproc() and the line of fork() that sets np->parent.
THEOREM NobodyIsOrphaned ==
  ASSUME NKT = 1
  PROVE  Spec => [](NoOrphans /\ ParentAlive)
<1>1. Init => NoOrphans
  BY KThreadAssumption DEF Init, NoOrphans
<1>2. IInv /\ WaitInv /\ LoneInv /\ NoOrphans /\ [Next]_vars => NoOrphans'
  <2> SUFFICES ASSUME IInv, WaitInv, LoneInv, NoOrphans, [Next]_vars
               PROVE  NoOrphans'
    OBVIOUS
  <2>1. CASE Quiet
    <3>1. \A u \in Thread : pc[u] \in {"fork", "resumed"} => pc'[u] \in {"fork", "resumed"}
      BY <2>1 DEF Quiet
    <3> QED
      BY <2>1, <3>1, GivenKept DEF Quiet, NoOrphans
  <2> QED
    BY <2>1, QuietSteps, OrphansLoudKeeps DEF IInv
<1>3. IInv /\ WaitInv /\ [Next]_vars => WaitInv'
  BY QuietKeeps, QuietSteps, LoudKeeps DEF IInv
<1>4. NoOrphans /\ LoneInv => NoOrphans /\ ParentAlive
  BY DEF LoneInv
<1> QED
  BY Invariance, InitWaitInv, LoneInvariant, <1>1, <1>2, <1>3, <1>4, PTL DEF Spec
=============================================================================
