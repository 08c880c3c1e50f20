------------------------------- MODULE Policy -------------------------------
(***************************************************************************)
(* The scheduling policies of tree 1 (kernel/proc.c, trap.c): round robin, *)
(* priority scheduling by accumulators (ps) and "completely fair"          *)
(* scheduling by virtual run times (cfs), each a loop that every CPU runs. *)
(*                                                                         *)
(* A section under one p->lock is one step, so a CPU computes its minimum  *)
(* process by process while other CPUs run, tick and wake processes, and   *)
(* fork() goes through the table twice before it takes a slot and later    *)
(* makes the child RUNNABLE; a timer may interrupt it at any slot.  The    *)
(* timers of a process matter to the code only through the quotient        *)
(* rtime / (rtime + stime + retime) of integers: life tells apart the      *)
(* three cases it has.  A dead process is as good as a free slot here.     *)
(***************************************************************************)
EXTENDS Integers, FiniteSets

CONSTANTS
  NPROC,          \* slots of proc[], searched in this order
  CPU,
  Policies,       \* arguments of set_policy()
  PsPriority,     \* PsPriority[p], CfsPriority[p]: arguments that the program
  CfsPriority,    \* in slot p gives set_ps_priority() and set_cfs_priority()
  Forkers,        \* slots whose programs call fork()
  MaxAcc          \* bound of the model: accumulators in -MaxAcc..MaxAcc

Proc == 1..NPROC

ASSUME PolicyAssumption ==
  /\ NPROC \in Nat \ {0}
  /\ Policies \subseteq 0..2
  /\ PsPriority \in [Proc -> SUBSET Int]
  /\ CfsPriority \in [Proc -> SUBSET (0..2)]
  /\ Forkers \subseteq Proc
  /\ MaxAcc \in Nat

VARIABLES
  policy,                   \* curr_sched_policy
  state, acc, ps, cfs,      \* struct proc: accumulator and the two priorities
  life,                     \* its timers: "new", all 0; "ran", only rtime is
                            \* not 0; "mixed"
  clock,                    \* where update_timers() is in the table, or 0
  pc, at,                   \* per CPU: where it is and p of its loop
  mode, min,                \* the policy of its loop and min_acc or
                            \* min_vruntime
  fork, slot, found,        \* per process: where its fork() is, or "no", p of
                            \* its loop and then np, and min_acc of the call
  waiting                   \* history: who has been RUNNABLE since the pass
                            \* of a ps loop began, as long as its search for
                            \* the minimum has not come across a 0

procVars == <<acc, ps, cfs, life>>
cpuVars == <<at, mode, min>>
forkVars == <<fork, slot, found>>
vars == <<policy, state, procVars, clock, pc, cpuVars, forkVars, waiting>>

\* userinit().
Init ==
  /\ policy = 0
  /\ state = [p \in Proc |-> IF p = 1 THEN "runnable" ELSE "unused"]
  /\ acc = [p \in Proc |-> 0]
  /\ ps = [p \in Proc |-> 5]
  /\ cfs = [p \in Proc |-> 1]
  /\ life = [p \in Proc |-> "new"]
  /\ clock = 0
  /\ pc = [c \in CPU |-> "pass"]
  /\ at = [c \in CPU |-> 1]
  /\ mode = [c \in CPU |-> 0]
  /\ min = [c \in CPU |-> 0]
  /\ fork = [p \in Proc |-> "no"]
  /\ slot = [p \in Proc |-> 1]
  /\ found = [p \in Proc |-> 0]
  /\ waiting = [c \in CPU |-> {}]

\* Changes the state of p; who is not RUNNABLE any more is not waiting.
SetState(p, s) ==
  /\ state' = [state EXCEPT ![p] = s]
  /\ waiting' = IF s = "runnable" THEN waiting ELSE [c \in CPU |-> waiting[c] \ {p}]

-----------------------------------------------------------------------------
(* The minima.                                                             *)

\* A bug: the wrong comparison.
MinStepMax(m, a) == IF m = 0 THEN a ELSE IF a > m THEN a ELSE m

\* One step of the search; 0 stands for "none yet".
MinStep(m, a) == IF m = 0 THEN a ELSE IF a < m THEN a ELSE m

\* A bug: sleeping processes take part.
ActiveOrAsleep(p) == state[p] \in {"running", "runnable", "sleeping"}

Active(p) == state[p] \in {"running", "runnable"}

Decay(k) == <<75, 100, 125>>[k + 1]

\* Division by 0 gives -1 on RISC-V.
Quotient(l) == CASE l = "new" -> -1 [] l = "ran" -> 1 [] l = "mixed" -> 0

Vruntime(p) == Decay(cfs[p]) * Quotient(life[p])

-----------------------------------------------------------------------------
(* scheduler() and its three loops.                                        *)

\* The head of a loop, which returns to scheduler() when the policy is not
\* its own any more.
Pass(c) ==
  /\ pc[c] = "pass"
  /\ mode' = [mode EXCEPT ![c] = policy]
  /\ pc' = [pc EXCEPT ![c] = IF policy = 0 THEN "loop" ELSE "min"]
  /\ waiting' = [waiting EXCEPT ![c] = {p \in Proc : policy = 1 /\ state[p] = "runnable"}]
  /\ UNCHANGED <<policy, state, procVars, clock, at, min, forkVars>>

\* p++, and what comes after the last slot.
Advance(c, loop, done) ==
  /\ at' = [at EXCEPT ![c] = IF @ = NPROC THEN 1 ELSE @ + 1]
  /\ pc' = [pc EXCEPT ![c] = IF at[c] = NPROC THEN done ELSE loop]

\* A bug: the last slot of the table is left out.
AdvanceLoopShort(c) ==
  /\ at' = [at EXCEPT ![c] = IF @ >= NPROC - 1 THEN 1 ELSE @ + 1]
  /\ pc' = [pc EXCEPT ![c] = IF at[c] >= NPROC - 1 THEN "pass" ELSE "loop"]
  /\ UNCHANGED <<mode, min>>

\* The minimum and the loop are forgotten with the last slot.
AdvanceLoop(c) ==
  /\ Advance(c, "loop", "pass")
  /\ mode' = [mode EXCEPT ![c] = IF at[c] = NPROC THEN 0 ELSE @]
  /\ min' = [min EXCEPT ![c] = IF at[c] = NPROC THEN 0 ELSE @]

\* get_min_acc() and get_min_vruntime().
Scan(c) ==
  LET p == at[c] IN
  /\ pc[c] = "min"
  /\ min' = [min EXCEPT ![c] =
       IF mode[c] = 1 /\ Active(p) THEN MinStep(@, acc[p])
       ELSE IF mode[c] = 2 /\ state[p] = "runnable" THEN MinStep(@, Vruntime(p))
       ELSE @]
  /\ waiting' = [waiting EXCEPT ![c] = IF Active(p) /\ acc[p] = 0 THEN {} ELSE @]
  /\ Advance(c, "min", "loop")
  /\ UNCHANGED <<policy, state, procVars, clock, mode, forkVars>>

Chosen(c) ==
  /\ state[at[c]] = "runnable"
  /\ \/ mode[c] = 0
     \/ mode[c] = 1 /\ acc[at[c]] = min[c]
     \/ mode[c] = 2 /\ Vruntime(at[c]) = min[c]

Skip(c) ==
  /\ pc[c] = "loop"
  /\ ~Chosen(c)
  /\ AdvanceLoop(c)
  /\ UNCHANGED <<policy, state, procVars, clock, forkVars, waiting>>

Run(c) ==
  /\ pc[c] = "loop"
  /\ Chosen(c)
  /\ SetState(at[c], "running")
  /\ pc' = [pc EXCEPT ![c] = "run"]
  /\ UNCHANGED <<policy, procVars, clock, cpuVars, forkVars>>

\* p->state is s and swtch() returns to the loop.
Back(c, s) ==
  /\ SetState(at[c], s)
  /\ AdvanceLoop(c)
  /\ UNCHANGED <<policy, clock, forkVars>>

-----------------------------------------------------------------------------
(* The process c runs.                                                     *)

\* A timer interrupt, in user mode or in the kernel: the accumulator grows
\* without p->lock, then yield(); only ps reads the accumulators.
Timer(c) ==
  /\ pc[c] = "run"
  /\ acc' = IF 1 \in Policies THEN [acc EXCEPT ![at[c]] = @ + ps[at[c]]] ELSE acc
  /\ acc'[at[c]] \in -MaxAcc..MaxAcc
  /\ pc' = [pc EXCEPT ![c] = "yield"]
  /\ UNCHANGED <<policy, state, ps, cfs, life, clock, cpuVars, forkVars, waiting>>

Yield(c) ==
  /\ pc[c] = "yield"
  /\ Back(c, "runnable")
  /\ UNCHANGED procVars

\* c runs a process that is not in fork().
OutOfFork(c) == pc[c] = "run" /\ fork[at[c]] = "no"

Sleep(c) ==
  /\ OutOfFork(c)
  /\ Back(c, "sleeping")
  /\ UNCHANGED procVars

\* exit(), which init never calls; what a free slot holds is not read before
\* allocproc() resets it.
Exit(c) ==
  /\ OutOfFork(c) /\ at[c] # 1
  /\ Back(c, "unused")
  /\ acc' = [acc EXCEPT ![at[c]] = 0]
  /\ ps' = [ps EXCEPT ![at[c]] = 5]
  /\ cfs' = [cfs EXCEPT ![at[c]] = 1]
  /\ life' = [life EXCEPT ![at[c]] = "new"]

\* Where the fork() of p goes on: at label l, with slot q.
ForkAt(p, l, q) ==
  /\ fork' = [fork EXCEPT ![p] = l]
  /\ slot' = [slot EXCEPT ![p] = q]

\* fork() returns.
ForkOver(p) ==
  /\ ForkAt(p, "no", 1)
  /\ found' = [found EXCEPT ![p] = 0]

Fork(c) ==
  /\ OutOfFork(c)
  /\ at[c] \in Forkers
  /\ ForkAt(at[c], "min", 1)
  /\ UNCHANGED <<policy, state, procVars, clock, pc, cpuVars, found, waiting>>

\* allocproc() calls get_min_acc().  The next loop, which counts the processes
\* that can run, finds the caller itself: firstProc is 0.
ForkMin(c) ==
  LET p == at[c] q == slot[p] IN
  /\ pc[c] = "run" /\ fork[p] = "min"
  /\ found' = [found EXCEPT ![p] = IF Active(q) THEN MinStep(@, acc[q]) ELSE @]
  /\ IF q = NPROC THEN ForkAt(p, "free", 1) ELSE ForkAt(p, "min", q + 1)
  /\ UNCHANGED <<policy, state, procVars, clock, pc, cpuVars, waiting>>

\* The search for a free slot, without success yet or at all.
ForkSearch(c) ==
  LET p == at[c] q == slot[p] IN
  /\ pc[c] = "run" /\ fork[p] = "free"
  /\ state[q] # "unused"
  /\ IF q = NPROC THEN ForkOver(p) ELSE ForkAt(p, "free", q + 1) /\ UNCHANGED found
  /\ UNCHANGED <<policy, state, procVars, clock, pc, cpuVars, waiting>>

\* The slot is taken and filled, with np->lock held until fork() has copied the
\* process.
ForkTake(c) ==
  LET p == at[c] np == slot[p] IN
  /\ pc[c] = "run" /\ fork[p] = "free"
  /\ state[np] = "unused"
  /\ SetState(np, "used")
  /\ acc' = [acc EXCEPT ![np] = found[p]]
  /\ ps' = [ps EXCEPT ![np] = 5]
  /\ cfs' = [cfs EXCEPT ![np] = 1]
  /\ life' = [life EXCEPT ![np] = "new"]
  /\ ForkAt(p, "born", np)
  /\ UNCHANGED <<policy, clock, pc, cpuVars, found>>

\* There is no memory: freeproc() and return -1, under the same lock.
ForkNoMemory(c) ==
  LET p == at[c] IN
  /\ pc[c] = "run" /\ fork[p] = "free"
  /\ state[slot[p]] = "unused"
  /\ ForkOver(p)
  /\ UNCHANGED <<policy, state, procVars, clock, pc, cpuVars, waiting>>

\* After np->parent is set, under wait_lock.
ForkRunnable(c) ==
  LET p == at[c] np == slot[p] IN
  /\ pc[c] = "run" /\ fork[p] = "born"
  /\ SetState(np, "runnable")
  /\ cfs' = [cfs EXCEPT ![np] = cfs[p]]
  /\ ForkOver(p)
  /\ UNCHANGED <<policy, acc, ps, life, clock, pc, cpuVars>>

SetPsPriority(c, k) ==
  /\ OutOfFork(c)
  /\ ps' = [ps EXCEPT ![at[c]] = k]
  /\ UNCHANGED <<policy, state, acc, cfs, life, clock, pc, cpuVars, forkVars, waiting>>

SetCfsPriority(c, k) ==
  /\ OutOfFork(c)
  /\ cfs' = [cfs EXCEPT ![at[c]] = k]
  /\ UNCHANGED <<policy, state, acc, ps, life, clock, pc, cpuVars, forkVars, waiting>>

SetPolicy(c, k) ==
  /\ OutOfFork(c)
  /\ policy' = k
  /\ UNCHANGED <<state, procVars, clock, pc, cpuVars, forkVars, waiting>>

\* wakeup() or kill(), from wherever.
Wake(p) ==
  /\ state[p] = "sleeping"
  /\ SetState(p, "runnable")
  /\ UNCHANGED <<policy, procVars, clock, pc, cpuVars, forkVars>>

\* clockintr(): update_timers(), one process after the other; only cfs reads
\* the timers.
Tick ==
  /\ 2 \in Policies
  /\ clock = 0
  /\ clock' = 1
  /\ UNCHANGED <<policy, state, procVars, pc, cpuVars, forkVars, waiting>>

Aged(p) ==
  CASE state[p] = "running" -> IF life[p] = "new" THEN "ran" ELSE life[p]
    [] state[p] \in {"runnable", "sleeping"} -> "mixed"
    [] OTHER -> life[p]

UpdateTimer ==
  /\ clock # 0
  /\ life' = [life EXCEPT ![clock] = Aged(clock)]
  /\ clock' = IF clock = NPROC THEN 0 ELSE clock + 1
  /\ UNCHANGED <<policy, state, acc, ps, cfs, pc, cpuVars, forkVars, waiting>>

-----------------------------------------------------------------------------
GiveUp(c) == Timer(c) \/ Sleep(c) \/ Exit(c)
Forks(c) ==
  Fork(c) \/ ForkMin(c) \/ ForkSearch(c) \/ ForkTake(c) \/ ForkNoMemory(c) \/ ForkRunnable(c)
Schedule(c) == Pass(c) \/ Scan(c) \/ Skip(c) \/ Run(c) \/ Yield(c)

Next ==
  \/ \E c \in CPU :
       \/ Schedule(c) \/ GiveUp(c)
       \/ Forks(c)
       \/ \E k \in PsPriority[at[c]] : SetPsPriority(c, k)
       \/ \E k \in CfsPriority[at[c]] : SetCfsPriority(c, k)
       \/ \E k \in Policies : SetPolicy(c, k)
  \/ \E p \in Proc : Wake(p)
  \/ Tick \/ UpdateTimer

Spec == Init /\ [][Next]_vars
Fairness == WF_vars(UpdateTimer) /\ \A c \in CPU : WF_vars(Schedule(c)) /\ WF_vars(GiveUp(c))
LiveSpec == Spec /\ Fairness

-----------------------------------------------------------------------------
(* Properties.                                                             *)

\* Every variable keeps its type, a process is RUNNING exactly while a CPU is in
\* its loop at that process, and a slot is USED until its fork() is over.
TypeOK ==
  /\ policy \in 0..2
  /\ state \in [Proc -> {"unused", "used", "runnable", "running", "sleeping"}]
  /\ acc \in [Proc -> -MaxAcc..MaxAcc]
  /\ ps \in [Proc -> Int]
  /\ cfs \in [Proc -> 0..2]
  /\ life \in [Proc -> {"new", "ran", "mixed"}]
  /\ clock \in 0..NPROC
  /\ pc \in [CPU -> {"pass", "min", "loop", "run", "yield"}]
  /\ at \in [CPU -> Proc]
  /\ mode \in [CPU -> 0..2]
  /\ min \in [CPU -> Int]
  /\ fork \in [Proc -> {"no", "min", "free", "born"}]
  /\ slot \in [Proc -> Proc]
  /\ found \in [Proc -> -MaxAcc..MaxAcc]
  /\ waiting \in [CPU -> SUBSET Proc]
  /\ \A p \in Proc : fork[p] = "born" => state[slot[p]] = "used"
  /\ \A p \in Proc : state[p] = "running" <=>
       \E c \in CPU : pc[c] \in {"run", "yield"} /\ at[c] = p

\* A policy never leaves all CPUs idle beside a runnable process: however the
\* accumulators and virtual run times move between the search for the minimum
\* and the search for a process that has it, some pass finds one.
SomebodyRuns ==
  (\E p \in Proc : state[p] = "runnable") ~> (\E p \in Proc : state[p] = "running")

\* ps runs nobody ahead of a process that has waited since the pass began with
\* a smaller accumulator, although other CPUs run, tick, wake and fork processes
\* meanwhile and priorities may be negative - unless the search of this pass has
\* come across an accumulator of 0, which get_min_acc() takes for "none yet".
NeverOvertaken ==
  [][\A c \in CPU : mode[c] = 1 /\ pc[c] = "loop" /\ pc'[c] = "run" =>
       \A q \in waiting[c] : acc[at[c]] <= acc[q]]_vars

\* Under round robin no process is passed over for ever.
DefaultIsFair ==
  <>[](policy = 0) => \A p \in Proc : []<>(state[p] # "runnable")
=============================================================================
