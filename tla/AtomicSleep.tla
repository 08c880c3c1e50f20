---------------------------- MODULE AtomicSleep ----------------------------
(***************************************************************************)
(* What sleep() and wakeup() promise the code that calls them: giving up   *)
(* the condition's lock and going to sleep is one step, so is waking all   *)
(* the sleepers, and nobody goes to sleep on a condition that is already   *)
(* true.  Stated for a sleep lock.                                         *)
(***************************************************************************)
CONSTANTS Proc, NoProc

VARIABLES holder, waiting

absVars == <<holder, waiting>>

AbsInit == holder = NoProc /\ waiting = {}

\* A process that is awake takes the free lock.
Take(p) ==
  /\ holder = NoProc
  /\ p \notin waiting
  /\ holder' = p
  /\ UNCHANGED waiting

\* The lock is another's: wait for it.
Wait(p) ==
  /\ holder \in Proc \ {p}
  /\ waiting' = waiting \union {p}
  /\ UNCHANGED holder

\* Giving the lock back dismisses every waiter.
Give(p) ==
  /\ holder = p
  /\ holder' = NoProc
  /\ waiting' = {}

\* A kill dismisses one.
Interrupt(p) ==
  /\ waiting' = waiting \ {p}
  /\ UNCHANGED holder

AbsNext == \E p \in Proc : Take(p) \/ Wait(p) \/ Give(p) \/ Interrupt(p)

AbsSpec == AbsInit /\ [][AbsNext]_absVars
=============================================================================
