---------------------------- MODULE PolicyProofs ----------------------------
(***************************************************************************)
(* Theorems about Policy, for any number of processes and CPUs and any     *)
(* priorities: types, and that priority scheduling never runs a process    *)
(* ahead of one that has waited with a smaller accumulator, unless the     *)
(* search for the minimum has come across a 0.                             *)
(***************************************************************************)
EXTENDS Policy, TLAPS

-----------------------------------------------------------------------------
(* The inductive invariant.                                                *)

InRun(c) == pc[c] \in {"run", "yield"}

\* A process is on one CPU at most; a loop that is over has forgotten its
\* policy, its minimum and its place.
LoopInv ==
  /\ \A c, d \in CPU : InRun(c) /\ InRun(d) /\ at[c] = at[d] => c = d
  /\ \A c \in CPU : pc[c] = "pass" => at[c] = 1 /\ mode[c] = 0 /\ min[c] = 0

\* A slot is taken by one fork() only.
ForkInv ==
  \A p, q \in Proc : fork[p] = "born" /\ fork[q] = "born" /\ slot[p] = slot[q] => p = q

\* Who is waiting is runnable.
WaitInv == \A c \in CPU : \A q \in waiting[c] : state[q] = "runnable"

\* The minimum of a ps loop is found, and not above the accumulator of those
\* waiting that the search has passed.
MinInv ==
  \A c \in CPU : mode[c] = 1 =>
    \A q \in waiting[c] : (pc[c] = "min" => q < at[c]) => min[c] # 0 /\ min[c] <= acc[q]

IInv == TypeOK /\ LoopInv /\ ForkInv /\ WaitInv /\ MinInv

-----------------------------------------------------------------------------
(* The invariant is kept.                                                  *)

State == {"unused", "used", "runnable", "running", "sleeping"}
PC == {"pass", "min", "loop", "run", "yield"}
ForkPC == {"no", "min", "free", "born"}
Accs == -MaxAcc..MaxAcc

\* A step of c leaves the other CPUs alone; p++ stays in the table, and a loop
\* that is over forgets its policy and its minimum.
Elsewhere(c) ==
  \A d \in CPU \ {c} : pc'[d] = pc[d] /\ at'[d] = at[d] /\ mode'[d] = mode[d] /\ min'[d] = min[d]

LEMMA AdvanceFacts ==
  ASSUME TypeOK, NEW c \in CPU, AdvanceLoop(c)
  PROVE  /\ pc' \in [CPU -> PC] /\ at' \in [CPU -> Proc]
         /\ mode' \in [CPU -> 0..2] /\ min' \in [CPU -> Int]
         /\ Elsewhere(c)
         /\ \/ pc'[c] = "loop" /\ mode'[c] = mode[c] /\ min'[c] = min[c]
            \/ pc'[c] = "pass" /\ at'[c] = 1 /\ mode'[c] = 0 /\ min'[c] = 0
<1>1. NPROC \in Nat \ {0}
  BY PolicyAssumption
<1>2. /\ pc \in [CPU -> PC] /\ at \in [CPU -> Proc]
      /\ mode \in [CPU -> 0..2] /\ min \in [CPU -> Int]
  BY DEF TypeOK, PC
<1> HIDE DEF TypeOK
<1>3. pc' \in [CPU -> PC] /\ mode' \in [CPU -> 0..2] /\ min' \in [CPU -> Int]
  BY <1>2 DEF AdvanceLoop, Advance, PC
<1>4. at' \in [CPU -> Proc]
  BY <1>1, <1>2 DEF AdvanceLoop, Advance, Proc
<1>5. /\ Elsewhere(c)
      /\ \/ pc'[c] = "loop" /\ mode'[c] = mode[c] /\ min'[c] = min[c]
         \/ pc'[c] = "pass" /\ at'[c] = 1 /\ mode'[c] = 0 /\ min'[c] = 0
  BY <1>2 DEF AdvanceLoop, Advance, Elsewhere
<1> QED
  BY <1>3, <1>4, <1>5

\* SetState, and what it does to the waiting.
LEMMA SetStateFacts ==
  ASSUME TypeOK, NEW p \in Proc, NEW s \in State, SetState(p, s)
  PROVE  /\ state' = [state EXCEPT ![p] = s] /\ state' \in [Proc -> State]
         /\ waiting' \in [CPU -> SUBSET Proc]
         /\ \A c \in CPU : /\ waiting'[c] \subseteq waiting[c]
                           /\ s # "runnable" => p \notin waiting'[c]
BY DEF SetState, TypeOK, State

\* Virtual run times and aged timers.
LEMMA TimerFacts ==
  ASSUME TypeOK, NEW p \in Proc
  PROVE  Vruntime(p) \in Int /\ Aged(p) \in {"new", "ran", "mixed"}
<1>1. cfs[p] \in 0..2 /\ life[p] \in {"new", "ran", "mixed"}
  BY DEF TypeOK
<1>2. Decay(cfs[p]) \in Int
  BY <1>1 DEF Decay
<1>3. Quotient(life[p]) \in Int
  BY <1>1 DEF Quotient
<1>4. Vruntime(p) \in Int
  BY <1>2, <1>3 DEF Vruntime
<1>5. state[p] \in State
  BY DEF TypeOK, State
<1>6. Aged(p) \in {"new", "ran", "mixed"}
  BY <1>1, <1>5 DEF Aged, State
<1> QED
  BY <1>4, <1>6

\* The types without the last conjuncts of TypeOK.
Typed ==
  /\ policy \in 0..2 /\ state \in [Proc -> State]
  /\ acc \in [Proc -> Accs] /\ ps \in [Proc -> Int] /\ cfs \in [Proc -> 0..2]
  /\ life \in [Proc -> {"new", "ran", "mixed"}] /\ clock \in 0..NPROC
  /\ pc \in [CPU -> PC] /\ at \in [CPU -> Proc]
  /\ mode \in [CPU -> 0..2] /\ min \in [CPU -> Int] /\ waiting \in [CPU -> SUBSET Proc]
  /\ fork \in [Proc -> ForkPC] /\ slot \in [Proc -> Proc] /\ found \in [Proc -> Accs]

Born == \A p \in Proc : fork[p] = "born" => state[slot[p]] = "used"
Running == \A p \in Proc : state[p] = "running" <=> \E c \in CPU : InRun(c) /\ at[c] = p

LEMMA TypedRunning == TypeOK <=> Typed /\ Born /\ Running
BY DEF TypeOK, Typed, Born, Running, InRun, State, PC, ForkPC, Accs

LEMMA TypedStep == ASSUME IInv, Next PROVE Typed'
<1>t. TypeOK /\ Typed /\ NPROC \in Nat \ {0} /\ MaxAcc \in Nat /\ Policies \subseteq 0..2
  BY PolicyAssumption, TypedRunning DEF IInv
<1>n. \A q \in Proc : q # NPROC => q + 1 \in Proc
  BY <1>t DEF Proc
<1> USE DEF Typed
<1>1. ASSUME NEW c \in CPU, Pass(c) PROVE Typed'
  BY <1>t, <1>1 DEF Pass, procVars, forkVars, PC
<1>2. ASSUME NEW c \in CPU, Scan(c) PROVE Typed'
  <2>1. at[c] \in Proc /\ Vruntime(at[c]) \in Int /\ acc[at[c]] \in Int /\ min[c] \in Int
    BY <1>t, TimerFacts DEF Accs
  <2>2. MinStep(min[c], acc[at[c]]) \in Int /\ MinStep(min[c], Vruntime(at[c])) \in Int
    BY <2>1 DEF MinStep
  <2>3. min' \in [CPU -> Int] /\ waiting' \in [CPU -> SUBSET Proc]
    BY <1>2, <1>t, <2>2 DEF Scan
  <2>4. at' \in [CPU -> Proc] /\ pc' \in [CPU -> PC]
    <3>1. Advance(c, "min", "loop") /\ at \in [CPU -> Proc] /\ pc \in [CPU -> PC]
      BY <1>2, <1>t DEF Scan
    <3> HIDE DEF Typed
    <3> QED
      BY <1>t, <3>1 DEF Advance, Proc, PC
  <2> QED
    BY <1>t, <1>2, <2>3, <2>4 DEF Scan, procVars, forkVars
<1>3. ASSUME NEW c \in CPU, Skip(c) PROVE Typed'
  BY <1>t, <1>3, AdvanceFacts DEF Skip, procVars, forkVars
<1>4. ASSUME NEW c \in CPU, Run(c) PROVE Typed'
  <2>1. state' \in [Proc -> State] /\ waiting' \in [CPU -> SUBSET Proc]
    BY <1>t, <1>4, SetStateFacts DEF Run, State
  <2> QED
    BY <1>t, <1>4, <2>1 DEF Run, procVars, cpuVars, forkVars, PC
<1>5. ASSUME NEW c \in CPU, NEW s \in State, Back(c, s)
      PROVE  /\ policy' = policy /\ clock' = clock /\ UNCHANGED <<fork, slot, found>>
             /\ state' \in [Proc -> State] /\ waiting' \in [CPU -> SUBSET Proc]
             /\ pc' \in [CPU -> PC] /\ at' \in [CPU -> Proc]
             /\ mode' \in [CPU -> 0..2] /\ min' \in [CPU -> Int]
  BY <1>t, <1>5, SetStateFacts, AdvanceFacts DEF Back, forkVars
<1>6. ASSUME NEW c \in CPU, Yield(c) \/ Sleep(c) PROVE Typed'
  <2>1. \E s \in State : Back(c, s)
    BY <1>6 DEF Yield, Sleep, State
  <2> QED
    BY <1>t, <1>5, <1>6, <2>1 DEF Yield, Sleep, procVars
<1>7. ASSUME NEW c \in CPU, Exit(c) PROVE Typed'
  <2>1. Back(c, "unused") /\ "unused" \in State
    BY <1>7 DEF Exit, State
  <2> QED
    BY <1>t, <1>5, <1>7, <2>1 DEF Exit, Accs
<1>8. ASSUME NEW c \in CPU, Timer(c) PROVE Typed'
  <2>1. acc' \in [Proc -> Accs]
    BY <1>t, <1>8 DEF Timer, Accs
  <2> QED
    BY <1>t, <1>8, <2>1 DEF Timer, cpuVars, forkVars, PC
<1>9. ASSUME NEW c \in CPU, Forks(c) PROVE Typed'
  <2>1. at[c] \in Proc /\ slot[at[c]] \in Proc /\ found[at[c]] \in Accs /\ 0 \in Accs /\ 1 \in Proc
    BY <1>t DEF Accs, Proc
  <2>2. CASE Fork(c)
    BY <1>t, <2>1, <2>2 DEF Fork, ForkAt, ForkPC, procVars, cpuVars
  <2>3. CASE ForkMin(c)
    <3>1. acc[slot[at[c]]] \in Accs /\ MinStep(found[at[c]], acc[slot[at[c]]]) \in Accs
      BY <1>t, <2>1 DEF MinStep
    <3>2. found' \in [Proc -> Accs]
      BY <1>t, <2>3, <3>1 DEF ForkMin
    <3>3. slot[at[c]] # NPROC => slot[at[c]] + 1 \in Proc
      BY <1>n, <2>1
    <3>4. fork' \in [Proc -> ForkPC] /\ slot' \in [Proc -> Proc]
      BY <1>t, <2>1, <2>3, <3>3 DEF ForkMin, ForkAt, ForkPC
    <3> QED
      BY <1>t, <2>3, <3>2, <3>4 DEF ForkMin, procVars, cpuVars
  <2>4. CASE ForkSearch(c)
    <3>1. slot[at[c]] # NPROC => slot[at[c]] + 1 \in Proc
      BY <1>n, <2>1
    <3>2. fork' \in [Proc -> ForkPC] /\ slot' \in [Proc -> Proc] /\ found' \in [Proc -> Accs]
      BY <1>t, <2>1, <2>4, <3>1 DEF ForkSearch, ForkOver, ForkAt, ForkPC
    <3> QED
      BY <1>t, <2>4, <3>2 DEF ForkSearch, procVars, cpuVars
  <2>5. CASE ForkTake(c)
    <3>1. state' \in [Proc -> State] /\ waiting' \in [CPU -> SUBSET Proc]
      BY <1>t, <2>1, <2>5, SetStateFacts DEF ForkTake, State
    <3>2. fork' \in [Proc -> ForkPC] /\ slot' \in [Proc -> Proc]
      BY <1>t, <2>1, <2>5 DEF ForkTake, ForkAt, ForkPC
    <3>3. /\ acc' \in [Proc -> Accs] /\ ps' \in [Proc -> Int] /\ cfs' \in [Proc -> 0..2]
          /\ life' \in [Proc -> {"new", "ran", "mixed"}]
      BY <1>t, <2>1, <2>5 DEF ForkTake
    <3> QED
      BY <1>t, <2>5, <3>1, <3>2, <3>3 DEF ForkTake, cpuVars
  <2>6. CASE ForkNoMemory(c)
    BY <1>t, <2>1, <2>6 DEF ForkNoMemory, ForkOver, ForkAt, ForkPC, procVars, cpuVars
  <2>7. CASE ForkRunnable(c)
    <3>1. state' \in [Proc -> State] /\ waiting' \in [CPU -> SUBSET Proc]
      BY <1>t, <2>1, <2>7, SetStateFacts DEF ForkRunnable, State
    <3>2. fork' \in [Proc -> ForkPC] /\ slot' \in [Proc -> Proc] /\ found' \in [Proc -> Accs]
      BY <1>t, <2>1, <2>7 DEF ForkRunnable, ForkOver, ForkAt, ForkPC
    <3> QED
      BY <1>t, <2>1, <2>7, <3>1, <3>2 DEF ForkRunnable, cpuVars
  <2> QED
    BY <1>9, <2>2, <2>3, <2>4, <2>5, <2>6, <2>7 DEF Forks
<1>10. ASSUME NEW c \in CPU, NEW k \in PsPriority[at[c]], SetPsPriority(c, k) PROVE Typed'
  <2>1. k \in Int
    BY <1>t, PolicyAssumption
  <2> QED
    BY <1>t, <1>10, <2>1 DEF SetPsPriority, cpuVars, forkVars
<1>11. ASSUME NEW c \in CPU, NEW k \in CfsPriority[at[c]], SetCfsPriority(c, k) PROVE Typed'
  <2>1. k \in 0..2
    BY <1>t, PolicyAssumption
  <2> QED
    BY <1>t, <1>11, <2>1 DEF SetCfsPriority, cpuVars, forkVars
<1>12. ASSUME NEW c \in CPU, NEW k \in Policies, SetPolicy(c, k) PROVE Typed'
  BY <1>t, <1>12 DEF SetPolicy, procVars, cpuVars, forkVars
<1>13. ASSUME NEW p \in Proc, Wake(p) PROVE Typed'
  <2>1. state' \in [Proc -> State] /\ waiting' \in [CPU -> SUBSET Proc]
    BY <1>t, <1>13, SetStateFacts DEF Wake, State
  <2> QED
    BY <1>t, <1>13, <2>1 DEF Wake, procVars, cpuVars, forkVars
<1>14. ASSUME Tick PROVE Typed'
  BY <1>t, <1>14 DEF Tick, procVars, cpuVars, forkVars
<1>15. ASSUME UpdateTimer PROVE Typed'
  <2>1. clock \in Proc /\ Aged(clock) \in {"new", "ran", "mixed"}
    BY <1>t, <1>15, TimerFacts DEF UpdateTimer, Proc
  <2> HIDE DEF Aged
  <2> QED
    <3>1. life' \in [Proc -> {"new", "ran", "mixed"}]
      BY <1>t, <1>15, <2>1 DEF UpdateTimer
    <3>2. clock' \in 0..NPROC
      BY <1>t, <1>15, <2>1 DEF UpdateTimer, Proc
    <3> QED
      BY <1>t, <1>15, <3>1, <3>2 DEF UpdateTimer, cpuVars, forkVars
<1> QED
  BY <1>1, <1>2, <1>3, <1>4, <1>6, <1>7, <1>8, <1>9, <1>10, <1>11, <1>12, <1>13, <1>14, <1>15
  DEF Next, Schedule, GiveUp

LEMMA RunningStep == ASSUME IInv, Next PROVE Running' /\ LoopInv'
<1>t. /\ TypeOK /\ Born /\ Running /\ LoopInv /\ NPROC \in Nat \ {0}
      /\ slot \in [Proc -> Proc]
      /\ state \in [Proc -> State] /\ pc \in [CPU -> PC] /\ at \in [CPU -> Proc]
      /\ mode \in [CPU -> 0..2] /\ min \in [CPU -> Int]
  BY PolicyAssumption, TypedRunning DEF IInv, Typed
<1> USE DEF Running, LoopInv, InRun
\* The state of one process changes, and no place.
<1>a. ASSUME NEW p \in Proc, NEW s \in State, SetState(p, s),
             state[p] # "running", s # "running", UNCHANGED <<pc, cpuVars>>
      PROVE  Running' /\ LoopInv'
  <2>1. state' = [state EXCEPT ![p] = s]
    BY <1>t, <1>a, SetStateFacts
  <2> QED
    BY <1>t, <1>a, <2>1 DEF cpuVars
\* The process that c has run is given up.
<1>b. ASSUME NEW c \in CPU, NEW s \in State, Back(c, s), InRun(c), s # "running"
      PROVE  Running' /\ LoopInv'
  <2>1. at[c] \in Proc /\ state' = [state EXCEPT ![at[c]] = s] /\ AdvanceLoop(c)
    BY <1>t, <1>b, SetStateFacts DEF Back
  <2>2. /\ Elsewhere(c)
        /\ \/ pc'[c] = "loop"
           \/ pc'[c] = "pass" /\ at'[c] = 1 /\ mode'[c] = 0 /\ min'[c] = 0
    <3> HIDE DEF Running, LoopInv
    <3> QED
      BY <1>t, <2>1, AdvanceFacts
  <2> QED
    BY <1>t, <1>b, <2>1, <2>2 DEF Elsewhere
<1>1. ASSUME NEW c \in CPU, Pass(c) PROVE Running' /\ LoopInv'
  BY <1>t, <1>1 DEF Pass
<1>2. ASSUME NEW c \in CPU, Scan(c) PROVE Running' /\ LoopInv'
  <2>1. /\ pc[c] = "min" /\ pc'[c] \in {"min", "loop"}
        /\ \A d \in CPU \ {c} : pc'[d] = pc[d] /\ at'[d] = at[d] /\ min'[d] = min[d]
        /\ mode' = mode /\ state' = state
    BY <1>t, <1>2 DEF Scan, Advance
  <2> QED
    BY <1>t, <2>1
<1>3. ASSUME NEW c \in CPU, Skip(c) PROVE Running' /\ LoopInv'
  <2>1. /\ pc[c] = "loop" /\ Elsewhere(c) /\ state' = state
        /\ \/ pc'[c] = "loop"
           \/ pc'[c] = "pass" /\ at'[c] = 1 /\ mode'[c] = 0 /\ min'[c] = 0
    <3> HIDE DEF Running, LoopInv
    <3>1. AdvanceLoop(c) /\ pc[c] = "loop" /\ state' = state
      BY <1>3 DEF Skip
    <3> QED
      BY <1>t, <3>1, AdvanceFacts
  <2> QED
    BY <1>t, <2>1 DEF Elsewhere
<1>4. ASSUME NEW c \in CPU, Run(c) PROVE Running' /\ LoopInv'
  <2>1. at[c] \in Proc /\ state' = [state EXCEPT ![at[c]] = "running"]
    BY <1>t, <1>4, SetStateFacts DEF Run, State
  <2>2. state[at[c]] = "runnable" /\ pc[c] = "loop"
    BY <1>4 DEF Run, Chosen
  <2>3. pc' = [pc EXCEPT ![c] = "run"] /\ UNCHANGED <<at, mode, min>>
    BY <1>4 DEF Run, cpuVars
  <2> QED
    BY <1>t, <2>1, <2>2, <2>3
<1>5. ASSUME NEW c \in CPU, Yield(c) \/ Sleep(c) \/ Exit(c) PROVE Running' /\ LoopInv'
  <2>1. InRun(c) /\ \E s \in State \ {"running"} : Back(c, s)
    BY <1>5 DEF Yield, Sleep, Exit, OutOfFork, State
  <2> QED
    BY <1>b, <2>1
<1>6. ASSUME NEW c \in CPU, Timer(c) PROVE Running' /\ LoopInv'
  BY <1>t, <1>6 DEF Timer, cpuVars
<1>9. ASSUME UNCHANGED <<state, pc, cpuVars>> PROVE Running' /\ LoopInv'
  BY <1>t, <1>9 DEF cpuVars
<1>7. ASSUME NEW c \in CPU, Forks(c) PROVE Running' /\ LoopInv'
  <2>1. UNCHANGED <<pc, cpuVars>> /\ slot[at[c]] \in Proc
    BY <1>t, <1>7 DEF Forks, Fork, ForkMin, ForkSearch, ForkTake, ForkNoMemory, ForkRunnable
  <2>2. CASE state' = state
    BY <1>9, <2>1, <2>2
  <2>3. ASSUME NEW s \in State \ {"running"}, SetState(slot[at[c]], s),
               state[slot[at[c]]] # "running"
        PROVE  Running' /\ LoopInv'
    BY <1>a, <2>1, <2>3
  <2>4. CASE ForkTake(c)
    BY <2>3, <2>4 DEF ForkTake, State
  <2>5. CASE ForkRunnable(c)
    <3>1. state[slot[at[c]]] = "used"
      BY <1>t, <2>5 DEF ForkRunnable, Born
    <3> QED
      BY <2>3, <2>5, <3>1 DEF ForkRunnable, State
  <2> QED
    BY <1>7, <2>2, <2>4, <2>5 DEF Forks, Fork, ForkMin, ForkSearch, ForkNoMemory
<1>8. ASSUME NEW p \in Proc, Wake(p) PROVE Running' /\ LoopInv'
  BY <1>a, <1>8 DEF Wake, State
<1>10. ASSUME NEW c \in CPU, NEW k, SetPsPriority(c, k) \/ SetCfsPriority(c, k) \/ SetPolicy(c, k)
       PROVE Running' /\ LoopInv'
  BY <1>9, <1>10 DEF SetPsPriority, SetCfsPriority, SetPolicy
<1>11. ASSUME Tick \/ UpdateTimer PROVE Running' /\ LoopInv'
  BY <1>9, <1>11 DEF Tick, UpdateTimer
<1> HIDE DEF Running, LoopInv
<1> QED
  BY <1>1, <1>2, <1>3, <1>4, <1>5, <1>6, <1>7, <1>8, <1>10, <1>11 DEF Next, Schedule, GiveUp

LEMMA BornStep == ASSUME IInv, Next PROVE Born' /\ ForkInv'
<1>t. /\ TypeOK /\ Born /\ ForkInv
      /\ state \in [Proc -> State] /\ at \in [CPU -> Proc]
      /\ fork \in [Proc -> ForkPC] /\ slot \in [Proc -> Proc]
      /\ \A c \in CPU : InRun(c) => state[at[c]] = "running"
  BY TypedRunning DEF IInv, Typed, Running
<1> USE DEF Born, ForkInv
\* No fork() moves, and the state of a USED slot stays.
<1>a. ASSUME UNCHANGED <<fork, slot>>, \A q \in Proc : state[q] = "used" => state'[q] = "used"
      PROVE  Born' /\ ForkInv'
  BY <1>t, <1>a
<1>b. ASSUME NEW p \in Proc, NEW s \in State, SetState(p, s), state[p] # "used"
      PROVE  \A q \in Proc : state[q] = "used" => state'[q] = "used"
  BY <1>t, <1>b, SetStateFacts
<1>1. ASSUME NEW c \in CPU, Schedule(c) \/ GiveUp(c) PROVE Born' /\ ForkInv'
  <2>1. UNCHANGED <<fork, slot>> /\ at[c] \in Proc
    BY <1>t, <1>1 DEF Schedule, GiveUp, Pass, Scan, Skip, Run, Yield, Timer, Sleep, Exit, Back,
                      forkVars
  <2>2. CASE state' = state
    BY <1>a, <2>1, <2>2
  <2>3. CASE \E s \in State : SetState(at[c], s) /\ state[at[c]] # "used"
    BY <1>a, <1>b, <2>1, <2>3
  <2>4. CASE Run(c)
    BY <2>3, <2>4 DEF Run, Chosen, State
  <2>5. CASE Yield(c) \/ Sleep(c) \/ Exit(c)
    <3>1. InRun(c) /\ \E s \in State : SetState(at[c], s)
      BY <2>5 DEF Yield, Sleep, Exit, OutOfFork, Back, InRun, State
    <3> QED
      BY <1>t, <2>3, <3>1
  <2> QED
    BY <1>1, <2>2, <2>4, <2>5 DEF Schedule, GiveUp, Pass, Scan, Skip, Timer
<1>2. ASSUME NEW c \in CPU, Forks(c) PROVE Born' /\ ForkInv'
  <2>1. at[c] \in Proc /\ slot[at[c]] \in Proc
    BY <1>t
  <2>2. ASSUME state' = state, NEW l \in {"no", "min", "free"}, NEW q \in Proc,
               ForkAt(at[c], l, q)
        PROVE  Born' /\ ForkInv'
    BY <1>t, <2>1, <2>2 DEF ForkAt
  <2>3. CASE Fork(c) \/ ForkMin(c) \/ ForkSearch(c) \/ ForkNoMemory(c)
    <3>1. state' = state /\ 1 \in Proc /\ (slot[at[c]] # NPROC => slot[at[c]] + 1 \in Proc)
      BY <2>1, <2>3, PolicyAssumption
      DEF Fork, ForkMin, ForkSearch, ForkNoMemory, procVars, Proc
    <3>2. \E l \in {"no", "min", "free"}, q \in Proc : ForkAt(at[c], l, q)
      BY <2>3, <3>1 DEF Fork, ForkMin, ForkSearch, ForkNoMemory, ForkOver
    <3> QED
      BY <2>2, <3>1, <3>2
  <2>4. CASE ForkTake(c)
    <3>1. /\ state[slot[at[c]]] = "unused" /\ "used" \in State
          /\ SetState(slot[at[c]], "used") /\ ForkAt(at[c], "born", slot[at[c]])
      BY <2>4 DEF ForkTake, State
    <3>2. state' = [state EXCEPT ![slot[at[c]]] = "used"]
      BY <1>t, <2>1, <3>1, SetStateFacts
    <3>3. \A p \in Proc : fork[p] = "born" => slot[p] # slot[at[c]]
      BY <1>t, <3>1
    <3> QED
      BY <1>t, <2>1, <3>1, <3>2, <3>3 DEF ForkAt
  <2>5. CASE ForkRunnable(c)
    <3>1. /\ fork[at[c]] = "born" /\ "runnable" \in State /\ 1 \in Proc
          /\ SetState(slot[at[c]], "runnable") /\ ForkAt(at[c], "no", 1)
      BY <2>5, PolicyAssumption DEF ForkRunnable, ForkOver, State, Proc
    <3>2. state' = [state EXCEPT ![slot[at[c]]] = "runnable"]
      BY <1>t, <2>1, <3>1, SetStateFacts
    <3>3. \A p \in Proc : fork[p] = "born" /\ p # at[c] => slot[p] # slot[at[c]]
      BY <1>t, <2>1, <3>1
    <3> QED
      BY <1>t, <2>1, <3>1, <3>2, <3>3 DEF ForkAt
  <2> QED
    BY <1>2, <2>3, <2>4, <2>5 DEF Forks
<1>3. ASSUME NEW p \in Proc, Wake(p) PROVE Born' /\ ForkInv'
  <2>1. UNCHANGED <<fork, slot>> /\ SetState(p, "runnable") /\ "runnable" \in State
        /\ state[p] # "used"
    BY <1>3 DEF Wake, State, forkVars
  <2> QED
    BY <1>a, <1>b, <2>1
<1>4. ASSUME NEW c \in CPU, NEW k, SetPsPriority(c, k) \/ SetCfsPriority(c, k) \/ SetPolicy(c, k)
      PROVE Born' /\ ForkInv'
  BY <1>a, <1>4 DEF SetPsPriority, SetCfsPriority, SetPolicy, forkVars
<1>5. ASSUME Tick \/ UpdateTimer PROVE Born' /\ ForkInv'
  BY <1>a, <1>5 DEF Tick, UpdateTimer, forkVars
<1> HIDE DEF Born, ForkInv
<1> QED
  BY <1>1, <1>2, <1>3, <1>4, <1>5 DEF Next

\* Who stays waiting keeps state and accumulator.
Stays == \A d \in CPU : /\ waiting'[d] \subseteq waiting[d]
                        /\ \A q \in waiting'[d] : state'[q] = "runnable" /\ acc'[q] = acc[q]

LEMMA WaitStep ==
  ASSUME IInv, Next
  PROVE  WaitInv' /\ (Stays \/ \E c \in CPU : Pass(c))
<1>t. /\ TypeOK /\ WaitInv /\ Born
      /\ state \in [Proc -> State] /\ acc \in [Proc -> Accs]
      /\ at \in [CPU -> Proc] /\ waiting \in [CPU -> SUBSET Proc]
      /\ slot \in [Proc -> Proc]
      /\ \A c \in CPU : InRun(c) => state[at[c]] = "running"
  BY TypedRunning DEF IInv, Typed, Running
<1> USE DEF WaitInv, Stays
<1>a. ASSUME NEW p \in Proc, NEW s \in State, SetState(p, s),
             \A q \in Proc \ {p} : acc'[q] = acc[q],
             acc'[p] = acc[p] \/ state[p] # "runnable"
      PROVE  Stays
  <2>1. /\ state' = [state EXCEPT ![p] = s]
        /\ \A c \in CPU : /\ waiting'[c] \subseteq waiting[c]
                          /\ s # "runnable" => p \notin waiting'[c]
    BY <1>t, <1>a, SetStateFacts
  <2>2. ASSUME NEW d \in CPU, NEW q \in waiting'[d] PROVE state'[q] = "runnable" /\ acc'[q] = acc[q]
    <3>1. q \in Proc /\ state[q] = "runnable"
      BY <1>t, <2>1
    <3>2. CASE q = p
      BY <1>t, <1>a, <2>1, <3>1, <3>2
    <3>3. CASE q # p
      BY <1>t, <1>a, <2>1, <3>1, <3>3
    <3> QED
      BY <3>2, <3>3
  <2> QED
    BY <2>1, <2>2
<1>b. ASSUME UNCHANGED <<state, waiting>>, \A p \in Proc : state[p] = "runnable" => acc'[p] = acc[p]
      PROVE  Stays
  BY <1>t, <1>b
<1>1. ASSUME NEW c \in CPU, Pass(c) PROVE WaitInv'
  <2>1. /\ \A d \in CPU \ {c} : waiting'[d] = waiting[d]
        /\ waiting'[c] \subseteq {p \in Proc : state[p] = "runnable"}
        /\ state' = state
    BY <1>t, <1>1 DEF Pass
  <2> QED
    BY <1>t, <2>1
<1>2. ASSUME NEW c \in CPU, Scan(c) PROVE Stays
  <2>1. state' = state /\ acc' = acc /\ \A d \in CPU : waiting'[d] \subseteq waiting[d]
    BY <1>t, <1>2 DEF Scan, procVars
  <2> QED
    BY <1>t, <2>1
<1>3. ASSUME NEW c \in CPU, Skip(c) PROVE Stays
  BY <1>b, <1>3 DEF Skip, procVars
<1>4. ASSUME NEW c \in CPU, Run(c) PROVE Stays
  BY <1>t, <1>4, <1>a DEF Run, State, procVars
<1>5. ASSUME NEW c \in CPU, Yield(c) \/ Sleep(c) \/ Exit(c) PROVE Stays
  <2>1. /\ InRun(c) /\ \E s \in State : SetState(at[c], s)
        /\ acc' = acc \/ acc' = [acc EXCEPT ![at[c]] = 0]
    BY <1>5 DEF Yield, Sleep, Exit, OutOfFork, State, procVars, Back, InRun
  <2>2. at[c] \in Proc /\ state[at[c]] = "running"
    BY <1>t, <2>1
  <2>3. \A q \in Proc \ {at[c]} : acc'[q] = acc[q]
    BY <1>t, <2>1
  <2> QED
    BY <1>a, <2>1, <2>2, <2>3
<1>6. ASSUME NEW c \in CPU, Timer(c) PROVE Stays
  <2>1. state[at[c]] = "running" /\ UNCHANGED <<state, waiting>>
    BY <1>t, <1>6 DEF Timer, InRun
  <2>2. \A p \in Proc : p # at[c] => acc'[p] = acc[p]
    BY <1>t, <1>6 DEF Timer
  <2> QED
    BY <1>b, <2>1, <2>2
<1>7. ASSUME NEW c \in CPU, Forks(c) PROVE Stays
  <2>1. CASE UNCHANGED <<state, acc, waiting>>
    BY <1>b, <2>1
  <2>2. CASE ForkTake(c)
    <3>1. slot[at[c]] \in Proc /\ state[slot[at[c]]] = "unused" /\ "used" \in State
          /\ SetState(slot[at[c]], "used") /\ acc' = [acc EXCEPT ![slot[at[c]]] = found[at[c]]]
      BY <1>t, <2>2 DEF ForkTake, State
    <3>2. \A q \in Proc \ {slot[at[c]]} : acc'[q] = acc[q]
      BY <1>t, <3>1
    <3> QED
      BY <1>a, <3>1, <3>2
  <2>3. CASE ForkRunnable(c)
    BY <1>t, <1>a, <2>3 DEF ForkRunnable, State
  <2> QED
    BY <1>7, <2>1, <2>2, <2>3 DEF Forks, Fork, ForkMin, ForkSearch, ForkNoMemory, procVars
<1>8. ASSUME NEW p \in Proc, Wake(p) PROVE Stays
  BY <1>t, <1>8, <1>a DEF Wake, State, procVars
<1>9. ASSUME NEW c \in CPU, NEW k, SetPsPriority(c, k) \/ SetCfsPriority(c, k) \/ SetPolicy(c, k)
      PROVE Stays
  BY <1>b, <1>9 DEF SetPsPriority, SetCfsPriority, SetPolicy, procVars
<1>10. ASSUME Tick \/ UpdateTimer PROVE Stays
  BY <1>b, <1>10 DEF Tick, UpdateTimer, procVars
<1>11. Stays => WaitInv'
  OBVIOUS
<1> HIDE DEF WaitInv, Stays
<1> QED
  BY <1>1, <1>2, <1>3, <1>4, <1>5, <1>6, <1>7, <1>8, <1>9, <1>10, <1>11
  DEF Next, Schedule, GiveUp

\* The loop of CPU d is where it was, or its pass is over.
Quiet(d) ==
  \/ mode'[d] # 1
  \/ /\ mode'[d] = mode[d] /\ min'[d] = min[d] /\ (pc'[d] = "min" <=> pc[d] = "min")
     /\ pc[d] = "min" => at'[d] = at[d]

LEMMA QuietSteps ==
  ASSUME TypeOK, Next, ~ \E c \in CPU : Pass(c) \/ Scan(c)
  PROVE  \A d \in CPU : Quiet(d)
<1>t. /\ NPROC \in Nat \ {0} /\ pc \in [CPU -> PC] /\ at \in [CPU -> Proc]
      /\ mode \in [CPU -> 0..2] /\ min \in [CPU -> Int]
  BY PolicyAssumption, TypedRunning DEF Typed
<1>1. ASSUME UNCHANGED <<pc, cpuVars>> PROVE \A d \in CPU : Quiet(d)
  BY <1>1 DEF Quiet, cpuVars
<1>2. ASSUME NEW c \in CPU, AdvanceLoop(c), pc[c] # "min" PROVE \A d \in CPU : Quiet(d)
  <2>1. /\ Elsewhere(c)
        /\ \/ pc'[c] = "loop" /\ mode'[c] = mode[c] /\ min'[c] = min[c]
           \/ pc'[c] = "pass" /\ mode'[c] = 0
    BY <1>2, AdvanceFacts
  <2> QED
    BY <1>2, <2>1 DEF Elsewhere, Quiet
<1>3. ASSUME NEW c \in CPU, Skip(c) \/ Yield(c) \/ Sleep(c) \/ Exit(c)
      PROVE  \A d \in CPU : Quiet(d)
  <2>1. AdvanceLoop(c) /\ pc[c] # "min"
    BY <1>3 DEF Skip, Yield, Sleep, Exit, OutOfFork, Back
  <2> QED
    BY <1>2, <2>1
<1>4. ASSUME NEW c \in CPU, Run(c) \/ Timer(c) PROVE \A d \in CPU : Quiet(d)
  <2>1. UNCHANGED <<at, mode, min>> /\ pc[c] # "min"
        /\ \E l \in {"run", "yield"} : pc' = [pc EXCEPT ![c] = l]
    BY <1>4 DEF Run, Timer, cpuVars
  <2> QED
    BY <1>t, <2>1 DEF Quiet
<1>5. ASSUME NEW c \in CPU,
             \/ Forks(c)
             \/ \E k : SetPsPriority(c, k) \/ SetCfsPriority(c, k) \/ SetPolicy(c, k)
      PROVE  UNCHANGED <<pc, cpuVars>>
  BY <1>5 DEF Forks, Fork, ForkMin, ForkSearch, ForkTake, ForkNoMemory, ForkRunnable,
              SetPsPriority, SetCfsPriority, SetPolicy
<1>6. ASSUME (\E p \in Proc : Wake(p)) \/ Tick \/ UpdateTimer PROVE UNCHANGED <<pc, cpuVars>>
  BY <1>6 DEF Wake, Tick, UpdateTimer
<1> QED
  BY <1>1, <1>3, <1>4, <1>5, <1>6 DEF Next, Schedule, GiveUp

LEMMA MinStepInv == ASSUME IInv, Next PROVE MinInv'
<1>t. /\ WaitInv /\ MinInv /\ LoopInv /\ NPROC \in Nat \ {0} /\ TypeOK
      /\ acc \in [Proc -> Accs] /\ Accs \subseteq Int /\ min \in [CPU -> Int]
      /\ pc \in [CPU -> PC] /\ at \in [CPU -> Proc] /\ waiting \in [CPU -> SUBSET Proc]
      /\ mode \in [CPU -> 0..2]
  BY PolicyAssumption, TypedRunning DEF IInv, Typed, Accs
<1> DEFINE MinAt(d) ==
      mode[d] = 1 =>
        \A q \in waiting[d] : (pc[d] = "min" => q < at[d]) => min[d] # 0 /\ min[d] <= acc[q]
<1>d. MinInv <=> \A d \in CPU : MinAt(d)
  BY DEF MinInv
<1>a. ASSUME NEW d \in CPU, Quiet(d), waiting'[d] \subseteq waiting[d],
             \A q \in waiting'[d] : acc'[q] = acc[q]
      PROVE  MinAt(d)'
  BY <1>a, <1>t DEF Quiet, MinInv
<1>1. ASSUME NEW c \in CPU, Pass(c) PROVE MinInv'
  <2>1. /\ pc[c] = "pass" /\ mode'[c] = policy /\ (policy = 1 => pc'[c] = "min")
        /\ \A d \in CPU \ {c} : /\ pc'[d] = pc[d] /\ mode'[d] = mode[d]
                                 /\ waiting'[d] = waiting[d]
        /\ acc' = acc /\ at' = at /\ min' = min
        /\ waiting'[c] \subseteq Proc
    BY <1>1, <1>t DEF Pass, procVars
  <2>2. at[c] = 1
    BY <1>t, <2>1 DEF LoopInv
  <2>3. MinAt(c)'
    BY <2>1, <2>2 DEF Proc
  <2>4. ASSUME NEW d \in CPU \ {c} PROVE MinAt(d)'
    BY <1>a, <2>1 DEF Quiet
  <2> HIDE DEF MinAt
  <2> QED
    BY <2>3, <2>4 DEF MinInv, MinAt
<1>2. ASSUME NEW c \in CPU, Scan(c) PROVE MinInv'
  <2>1. /\ pc[c] = "min" /\ mode' = mode /\ acc' = acc
        /\ pc' = [pc EXCEPT ![c] = IF at[c] = NPROC THEN "loop" ELSE "min"]
        /\ at' = [at EXCEPT ![c] = IF @ = NPROC THEN 1 ELSE @ + 1]
        /\ \A d \in CPU \ {c} : min'[d] = min[d] /\ waiting'[d] = waiting[d]
        /\ waiting'[c] \subseteq waiting[c]
        /\ mode[c] = 1 => min'[c] = IF Active(at[c]) THEN MinStep(min[c], acc[at[c]]) ELSE min[c]
    BY <1>2, <1>t DEF Scan, Advance, procVars
  <2>2. MinAt(c)'
    <3> SUFFICES ASSUME mode'[c] = 1, NEW q \in waiting'[c], pc'[c] = "min" => q < at'[c]
                 PROVE  min'[c] # 0 /\ min'[c] <= acc'[q]
      OBVIOUS
    <3>1. /\ at[c] \in Proc /\ acc[at[c]] \in Int /\ min[c] \in Int
          /\ q \in Proc /\ q \in waiting[c] /\ state[q] = "runnable" /\ acc[q] \in Int
      BY <1>t, <2>1 DEF WaitInv
    <3>2. q < at[c] => min[c] # 0 /\ min[c] <= acc[q]
      BY <1>t, <2>1, <3>1 DEF MinInv
    <3>3. Active(at[c]) => acc[at[c]] # 0
      BY <1>2, <1>t DEF Scan
    <3>4. q < at[c] \/ q = at[c]
      BY <1>t, <2>1, <3>1 DEF Proc
    <3>5. q = at[c] => Active(at[c])
      BY <3>1 DEF Active
    <3>6. min'[c] = IF Active(at[c]) THEN MinStep(min[c], acc[at[c]]) ELSE min[c]
      BY <2>1
    <3> HIDE DEF Active
    <3> QED
      BY <2>1, <3>1, <3>2, <3>3, <3>4, <3>5, <3>6 DEF MinStep
  <2>3. ASSUME NEW d \in CPU \ {c} PROVE MinAt(d)'
    <3>1. pc'[d] = pc[d] /\ at'[d] = at[d]
      BY <1>t, <2>1
    <3> QED
      BY <1>a, <2>1, <3>1 DEF Quiet
  <2> HIDE DEF MinAt
  <2> QED
    BY <2>2, <2>3 DEF MinInv, MinAt
<1>3. CASE ~ \E c \in CPU : Pass(c) \/ Scan(c)
  <2>1. Stays /\ \A d \in CPU : Quiet(d)
    BY <1>t, <1>3, WaitStep, QuietSteps
  <2>2. ASSUME NEW d \in CPU PROVE MinAt(d)'
    BY <1>a, <2>1 DEF Stays
  <2> HIDE DEF MinAt
  <2> QED
    BY <2>2 DEF MinInv, MinAt
<1> QED
  BY <1>1, <1>2, <1>3

LEMMA InitInv == ASSUME Init PROVE IInv
<1>1. NPROC \in Nat \ {0} /\ MaxAcc \in Nat
  BY PolicyAssumption
<1>2. TypeOK
  BY <1>1 DEF Init, TypeOK, Proc
<1> QED
  BY <1>1, <1>2 DEF Init, IInv, LoopInv, ForkInv, WaitInv, MinInv, InRun, Proc

LEMMA IInvSpec == Spec => []IInv
<1>1. IInv /\ [Next]_vars => IInv'
  <2> SUFFICES ASSUME IInv, [Next]_vars PROVE IInv'
    OBVIOUS
  <2>1. CASE Next
    <3>1. TypeOK'
      <4>1. Typed' /\ Born' /\ Running'
        BY <2>1, TypedStep, BornStep, RunningStep
      <4>2. (Typed /\ Born /\ Running)' => TypeOK'
        BY TypedRunning, PTL
      <4> QED
        BY <4>1, <4>2
    <3> QED
      BY <2>1, <3>1, RunningStep, BornStep, WaitStep, MinStepInv DEF IInv
  <2>2. CASE UNCHANGED vars
    <3>1. /\ policy' = policy /\ state' = state /\ acc' = acc /\ ps' = ps /\ cfs' = cfs
          /\ life' = life /\ clock' = clock /\ pc' = pc /\ at' = at /\ mode' = mode
          /\ min' = min /\ waiting' = waiting
          /\ fork' = fork /\ slot' = slot /\ found' = found
      BY <2>2 DEF vars, procVars, cpuVars, forkVars
    <3>2. TypeOK'
      BY <3>1 DEF IInv, TypeOK
    <3>3. LoopInv' /\ ForkInv' /\ WaitInv' /\ MinInv'
      BY <3>1 DEF IInv, LoopInv, ForkInv, WaitInv, MinInv, InRun
    <3> QED
      BY <3>2, <3>3 DEF IInv
  <2> QED
    BY <2>1, <2>2
<1> QED
  BY InitInv, <1>1, PTL DEF Spec

-----------------------------------------------------------------------------
(* Theorems.                                                               *)

\* Every variable keeps its type, and a process is RUNNING exactly while a CPU is
\* in its loop at that process.
THEOREM TypeCorrect == Spec => []TypeOK
<1>1. IInv => TypeOK
  BY DEF IInv
<1> QED
  BY IInvSpec, <1>1, PTL

\* A process is never on two CPUs, although the loops of scheduler() read the
\* states and the minima of the others without their locks.
OneCpuEach ==
  \A c, d \in CPU : InRun(c) /\ InRun(d) /\ at[c] = at[d] => c = d
THEOREM NobodyRunsTwice == Spec => []OneCpuEach
<1>1. IInv => OneCpuEach
  BY DEF IInv, LoopInv, OneCpuEach
<1> QED
  BY IInvSpec, <1>1, PTL

\* ps never runs a process ahead of one that has waited since the pass began with
\* a smaller accumulator, unless the search of that pass came across a 0.
THEOREM NobodyIsOvertaken == Spec => NeverOvertaken
<1> DEFINE A == \A c \in CPU : mode[c] = 1 /\ pc[c] = "loop" /\ pc'[c] = "run" =>
                  \A q \in waiting[c] : acc[at[c]] <= acc[q]
<1>1. IInv /\ [Next]_vars => [A]_vars
  <2> SUFFICES ASSUME IInv, Next, NEW c \in CPU, mode[c] = 1, pc[c] = "loop", pc'[c] = "run",
                      NEW q \in waiting[c]
               PROVE  acc[at[c]] <= acc[q]
    OBVIOUS
  <2>1. pc \in [CPU -> PC] /\ at \in [CPU -> Proc] /\ TypeOK
    BY TypedRunning DEF IInv, Typed
  <2>2. min[c] <= acc[q]
    BY DEF IInv, MinInv
  <2>3. Run(c)
    <3>1. ASSUME NEW d \in CPU, AdvanceLoop(d) PROVE d = c => pc'[c] # "run"
      BY <2>1, <3>1, AdvanceFacts
    <3>2. ASSUME NEW d \in CPU, d # c,
                 \/ Schedule(d) \/ GiveUp(d)
                 \/ Forks(d)
                 \/ \E k \in PsPriority[at[d]] : SetPsPriority(d, k)
                 \/ \E k \in CfsPriority[at[d]] : SetCfsPriority(d, k)
                 \/ \E k \in Policies : SetPolicy(d, k)
          PROVE  FALSE
      BY <2>1, <3>2
      DEF Schedule, GiveUp, Pass, Scan, Skip, Run, Yield, Timer, Sleep, Exit, Back, AdvanceLoop,
          Advance, Forks, Fork, ForkMin, ForkSearch, ForkTake, ForkNoMemory, ForkRunnable,
          SetPsPriority, SetCfsPriority, SetPolicy
    <3>3. \/ Schedule(c) \/ GiveUp(c)
          \/ Forks(c)
          \/ \E k \in PsPriority[at[c]] : SetPsPriority(c, k)
          \/ \E k \in CfsPriority[at[c]] : SetCfsPriority(c, k)
          \/ \E k \in Policies : SetPolicy(c, k)
      <4>1. ~(\E p \in Proc : Wake(p)) /\ ~Tick /\ ~UpdateTimer
        BY DEF Wake, Tick, UpdateTimer
      <4> QED
        BY <3>2, <4>1 DEF Next
    <3>4. ~Forks(c)
      BY DEF Forks, Fork, ForkMin, ForkSearch, ForkTake, ForkNoMemory, ForkRunnable, OutOfFork
    <3>5. /\ \A k \in PsPriority[at[c]] : ~SetPsPriority(c, k)
          /\ \A k \in CfsPriority[at[c]] : ~SetCfsPriority(c, k)
          /\ \A k \in Policies : ~SetPolicy(c, k)
      BY DEF SetPsPriority, SetCfsPriority, SetPolicy, OutOfFork
    <3>6. ~GiveUp(c)
      BY DEF GiveUp, Timer, Sleep, Exit, OutOfFork
    <3> QED
      BY <3>1, <3>3, <3>4, <3>5, <3>6 DEF Schedule, Pass, Scan, Skip, Yield
  <2> QED
    BY <2>1, <2>2, <2>3 DEF Run, Chosen
<1> QED
  BY IInvSpec, <1>1, PTL DEF Spec, NeverOvertaken
=============================================================================
