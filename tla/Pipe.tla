------------------------------- MODULE Pipe -------------------------------
(***************************************************************************)
(* Pipes: kernel/pipe.c (the same file in all four trees) with the calls   *)
(* of fileread(), filewrite() and fileclose() that lead to it.  sleep()    *)
(* gives up pi->lock and sleeps in one step and wakeup() wakes in one step *)
(* (AtomicSleep, which SleepLock implements).  kill() does not take        *)
(* pi->lock, so it may come between any two steps of a call.               *)
(***************************************************************************)
EXTENDS Naturals, Sequences, FiniteSets

CONSTANTS
  Proc, Byte,
  NoProc, NoByte,
  PIPESIZE,      \* pipe.c:11
  UINTS,         \* the number of values of a uint, 2^32
  MaxN           \* bytes of one read or write call at most

ASSUME PipeAssumption ==
  /\ NoProc \notin Proc
  /\ PIPESIZE \in Nat \ {0}
  /\ UINTS \in Nat
  /\ UINTS > PIPESIZE
  /\ UINTS % PIPESIZE = 0
  /\ MaxN \in Nat

VARIABLES
  data, nread, nwrite, readopen, writeopen,   \* struct pipe
  lock,             \* the holder of pi->lock
  freed,            \* 1: the page of the pipe went back to kfree()
  openR, openW,     \* the processes with a descriptor of each end
  pc, left,         \* per process: where it is, and n - i, the bytes to go
  got,              \* the last byte that reached a reader
  killed            \* p->killed

bufVars == <<data, nread, nwrite>>
endVars == <<readopen, writeopen, freed, openR, openW>>
vars == <<bufVars, endVars, lock, pc, left, got, killed>>

Writing == {"write", "w_loop", "w_go", "w_asleep"}
Reading == {"read", "r_loop", "r_go", "r_copy", "r_asleep"}
InLock == {"w_loop", "w_go", "r_loop", "r_go", "r_copy"}
PC == {"idle", "close_w", "close_r"} \union Writing \union Reading

\* pipealloc(), and forks since then that spread the two ends over processes.
Init ==
  /\ data \in [0..PIPESIZE - 1 -> {NoByte}]
  /\ nread = 0 /\ nwrite = 0
  /\ readopen = 1 /\ writeopen = 1
  /\ lock = NoProc
  /\ freed = 0
  /\ openR \in SUBSET Proc \ {{}}
  /\ openW \in SUBSET Proc \ {{}}
  /\ pc = [p \in Proc |-> "idle"]
  /\ left = [p \in Proc |-> 0]
  /\ got = NoByte
  /\ killed = [p \in Proc |-> 0]

\* A bug: the test for a full pipe without the wrap-around of uint.
FullNoWrap == nwrite = nread + PIPESIZE

Full == nwrite = (nread + PIPESIZE) % UINTS
Empty == nread = nwrite

\* wakeup(&pi->nread) and wakeup(&pi->nwrite), and where p itself goes.
WakeReaders(p, l) ==
  [q \in Proc |-> IF q = p THEN l ELSE IF pc[q] = "r_asleep" THEN "read" ELSE pc[q]]
WakeWriters(p, l) ==
  [q \in Proc |-> IF q = p THEN l ELSE IF pc[q] = "w_asleep" THEN "write" ELSE pc[q]]

Goto(p, l) == pc' = [pc EXCEPT ![p] = l]

\* release(&pi->lock) and the return to the caller.
Return(p, next) ==
  /\ pc' = next
  /\ lock' = NoProc
  /\ left' = [left EXCEPT ![p] = 0]

\* acquire(&pi->lock), on entry or when sleep() returns.
Acquire(p, from, to) ==
  /\ pc[p] = from
  /\ lock = NoProc
  /\ lock' = p
  /\ Goto(p, to)
  /\ UNCHANGED <<bufVars, endVars, left, got, killed>>

-----------------------------------------------------------------------------
(* pipewrite().                                                            *)

\* usertrap() lets no killed process call anything but exit().
Write(p, size) ==
  /\ pc[p] = "idle" /\ p \in openW /\ killed[p] = 0
  /\ left' = [left EXCEPT ![p] = size]
  /\ Goto(p, "write")
  /\ UNCHANGED <<bufVars, endVars, lock, got, killed>>

\* The tests at the head of the loop.
WriteLoop(p) ==
  /\ pc[p] = "w_loop" /\ left[p] > 0
  /\ readopen = 1 /\ killed[p] = 0
  /\ Goto(p, "w_go")
  /\ UNCHANGED <<bufVars, endVars, lock, left, got, killed>>

\* A call that gives up wakes nobody.
WriteGivesUp(p) ==
  /\ pc[p] = "w_loop" /\ left[p] > 0
  /\ readopen = 0 \/ killed[p] = 1
  /\ Return(p, [pc EXCEPT ![p] = "idle"])
  /\ UNCHANGED <<bufVars, endVars, got, killed>>

\* A bug: the call ends without wakeup(&pi->nread).
WriteDoneSilent(p) ==
  /\ pc[p] = "w_loop" /\ left[p] = 0
  /\ Return(p, [pc EXCEPT ![p] = "idle"])
  /\ UNCHANGED <<bufVars, endVars, got, killed>>

WriteDone(p) ==
  /\ pc[p] = "w_loop" /\ left[p] = 0
  /\ Return(p, WakeReaders(p, "idle"))
  /\ UNCHANGED <<bufVars, endVars, got, killed>>

WriteSleep(p) ==
  /\ pc[p] = "w_go" /\ Full
  /\ pc' = WakeReaders(p, "w_asleep")
  /\ lock' = NoProc
  /\ UNCHANGED <<bufVars, endVars, left, got, killed>>

WriteByte(p, b) ==
  /\ pc[p] = "w_go" /\ ~Full
  /\ data' = [data EXCEPT ![nwrite % PIPESIZE] = b]
  /\ nwrite' = (nwrite + 1) % UINTS
  /\ left' = [left EXCEPT ![p] = @ - 1]
  /\ Goto(p, "w_loop")
  /\ UNCHANGED <<nread, endVars, lock, got, killed>>

\* copyin() fails.
WriteFault(p) ==
  /\ pc[p] = "w_go" /\ ~Full
  /\ Return(p, WakeReaders(p, "idle"))
  /\ UNCHANGED <<bufVars, endVars, got, killed>>

-----------------------------------------------------------------------------
(* piperead().                                                             *)

Read(p, size) ==
  /\ pc[p] = "idle" /\ p \in openR /\ killed[p] = 0
  /\ left' = [left EXCEPT ![p] = size]
  /\ Goto(p, "read")
  /\ UNCHANGED <<bufVars, endVars, lock, got, killed>>

\* The loop that waits for bytes or for the last writer's end.
ReadReady(p) ==
  /\ pc[p] = "r_loop"
  /\ ~Empty \/ writeopen = 0
  /\ Goto(p, "r_copy")
  /\ UNCHANGED <<bufVars, endVars, lock, left, got, killed>>

ReadKilled(p) ==
  /\ pc[p] = "r_loop"
  /\ Empty /\ writeopen = 1 /\ killed[p] = 1
  /\ Return(p, [pc EXCEPT ![p] = "idle"])
  /\ UNCHANGED <<bufVars, endVars, got, killed>>

ReadWait(p) ==
  /\ pc[p] = "r_loop"
  /\ Empty /\ writeopen = 1 /\ killed[p] = 0
  /\ Goto(p, "r_go")
  /\ UNCHANGED <<bufVars, endVars, lock, left, got, killed>>

ReadSleep(p) ==
  /\ pc[p] = "r_go"
  /\ Goto(p, "r_asleep")
  /\ lock' = NoProc
  /\ UNCHANGED <<bufVars, endVars, left, got, killed>>

ReadByte(p) ==
  /\ pc[p] = "r_copy" /\ left[p] > 0 /\ ~Empty
  /\ got' = data[nread % PIPESIZE]
  /\ nread' = (nread + 1) % UINTS
  /\ left' = [left EXCEPT ![p] = @ - 1]
  /\ UNCHANGED <<data, nwrite, endVars, lock, pc, killed>>

\* copyout() fails: the byte has left the pipe.
ReadFault(p) ==
  /\ pc[p] = "r_copy" /\ left[p] > 0 /\ ~Empty
  /\ nread' = (nread + 1) % UINTS
  /\ Return(p, WakeWriters(p, "idle"))
  /\ UNCHANGED <<data, nwrite, endVars, got, killed>>

\* A bug: waking the writers only when the pipe has been drained.
ReadDoneDrained(p) ==
  /\ pc[p] = "r_copy" /\ (left[p] = 0 \/ Empty)
  /\ Return(p, IF Empty THEN WakeWriters(p, "idle") ELSE [pc EXCEPT ![p] = "idle"])
  /\ UNCHANGED <<bufVars, endVars, got, killed>>

ReadDone(p) ==
  /\ pc[p] = "r_copy" /\ (left[p] = 0 \/ Empty)
  /\ Return(p, WakeWriters(p, "idle"))
  /\ UNCHANGED <<bufVars, endVars, got, killed>>

-----------------------------------------------------------------------------
(* fileclose(), pipeclose() and kill().                                    *)

\* A bug: the pipe closed with the first descriptor of an end.
LastEarly(open) == TRUE

\* --f->ref is 0: nobody else has this end.
Last(open) == open = {}

CloseW(p) ==
  /\ pc[p] = "idle" /\ p \in openW
  /\ openW' = openW \ {p}
  /\ Goto(p, IF Last(openW') THEN "close_w" ELSE "idle")
  /\ UNCHANGED <<bufVars, readopen, writeopen, freed, openR, lock, left, got, killed>>

CloseR(p) ==
  /\ pc[p] = "idle" /\ p \in openR
  /\ openR' = openR \ {p}
  /\ Goto(p, IF Last(openR') THEN "close_r" ELSE "idle")
  /\ UNCHANGED <<bufVars, readopen, writeopen, freed, openW, lock, left, got, killed>>

PipeCloseW(p) ==
  /\ pc[p] = "close_w" /\ lock = NoProc
  /\ writeopen' = 0
  /\ pc' = WakeReaders(p, "idle")
  /\ freed' = IF readopen = 0 THEN 1 ELSE freed
  /\ UNCHANGED <<bufVars, readopen, openR, openW, lock, left, got, killed>>

\* A bug: closing the read end and leaving the writers asleep.
PipeCloseRSilent(p) ==
  /\ pc[p] = "close_r" /\ lock = NoProc
  /\ readopen' = 0
  /\ Goto(p, "idle")
  /\ freed' = IF writeopen = 0 THEN 1 ELSE freed
  /\ UNCHANGED <<bufVars, writeopen, openR, openW, lock, left, got, killed>>

PipeCloseR(p) ==
  /\ pc[p] = "close_r" /\ lock = NoProc
  /\ readopen' = 0
  /\ pc' = WakeWriters(p, "idle")
  /\ freed' = IF writeopen = 0 THEN 1 ELSE freed
  /\ UNCHANGED <<bufVars, writeopen, openR, openW, lock, left, got, killed>>

\* kill() sets the flag and wakes the victim if it sleeps already.
Kill(p) ==
  /\ killed[p] = 0
  /\ killed' = [killed EXCEPT ![p] = 1]
  /\ Goto(p, CASE pc[p] = "r_asleep" -> "read"
               [] pc[p] = "w_asleep" -> "write"
               [] OTHER -> pc[p])
  /\ UNCHANGED <<bufVars, endVars, lock, left, got>>

-----------------------------------------------------------------------------
\* What a call does on its own account; the other steps are its caller's.
Proceed(p) ==
  \/ WriteLoop(p) \/ WriteGivesUp(p) \/ WriteDone(p) \/ WriteSleep(p) \/ WriteFault(p)
  \/ \E b \in Byte : WriteByte(p, b)
  \/ ReadReady(p) \/ ReadKilled(p) \/ ReadWait(p) \/ ReadSleep(p)
  \/ ReadByte(p) \/ ReadFault(p) \/ ReadDone(p)

Enter(p) ==
  \/ Acquire(p, "write", "w_loop") \/ Acquire(p, "read", "r_loop")
  \/ PipeCloseW(p) \/ PipeCloseR(p)

Call(p) ==
  \/ \E size \in 1..MaxN : Write(p, size) \/ Read(p, size)
  \/ CloseW(p) \/ CloseR(p)

Next == \E p \in Proc : Proceed(p) \/ Enter(p) \/ Call(p) \/ Kill(p)

Spec == Init /\ [][Next]_vars

\* A process in a call is scheduled, and gets a spin lock that is free again
\* and again.
Fairness == \A p \in Proc : WF_vars(Proceed(p)) /\ SF_vars(Enter(p))

LiveSpec == Spec /\ Fairness

-----------------------------------------------------------------------------
(* Properties.                                                             *)

TypeOK ==
  /\ data \in [0..PIPESIZE - 1 -> Byte \union {NoByte}]
  /\ nread \in 0..UINTS - 1 /\ nwrite \in 0..UINTS - 1
  /\ readopen \in {0, 1} /\ writeopen \in {0, 1} /\ freed \in {0, 1}
  /\ openR \in SUBSET Proc /\ openW \in SUBSET Proc
  /\ lock \in Proc \union {NoProc}
  /\ \A p \in Proc : lock = p <=> pc[p] \in InLock
  /\ pc \in [Proc -> PC]
  /\ left \in [Proc -> 0..MaxN]
  /\ got \in Byte \union {NoByte}
  /\ killed \in [Proc -> {0, 1}]

\* The bytes in the pipe, oldest first.
Used == (nwrite + UINTS - nread) % UINTS
Queue == [k \in 1..Used |-> data[(nread + k - 1) % PIPESIZE]]

Abstract == INSTANCE Fifo WITH queue <- Queue, Size <- PIPESIZE

\* The ring of data[], its two free-running counters and their wrap-around are
\* a queue: no byte is overwritten, repeated, or read out of its turn.
ImplementsFifo == Abstract!AbsSpec

\* A writer sleeps only while the pipe is full and has a reader, or while the
\* reader that has just made room is still on its way to wakeup().
WritersWaitForRoom ==
  \A p \in Proc : pc[p] = "w_asleep" =>
    \/ Full /\ readopen = 1
    \/ \E q \in Proc : pc[q] = "r_copy"

\* A reader sleeps only while the pipe is empty and has a writer, or while the
\* writer is still on its way to wakeup() - unless a process was killed:
\* pipewrite() returns -1 without wakeup() and may leave bytes behind that
\* no reader is told of (pipe.c:84-86).
ReadersWaitForBytes ==
  \A p \in Proc : pc[p] = "r_asleep" =>
    \/ Empty /\ writeopen = 1
    \/ \E q \in Proc : pc[q] \in {"w_loop", "w_go"}
    \/ \E q \in Proc : killed[q] = 1

\* The two together: whoever sleeps has a reason to, or is about to be woken.
SleepersHaveReason == WritersWaitForRoom /\ ReadersWaitForBytes

\* Nobody is in a call on a pipe whose page was freed.
NotUsedFreed == freed = 1 => \A p \in Proc : pc[p] = "idle" /\ p \notin openR \union openW

\* End of file and broken pipe: a call returns once the other end is closed,
\* however many processes share the ends and whoever is killed.
CallsReturn ==
  \A p \in Proc :
    /\ (pc[p] \in Reading /\ writeopen = 0) ~> pc[p] = "idle"
    /\ (pc[p] \in Writing /\ readopen = 0) ~> pc[p] = "idle"

\* As long as nobody is killed, a reader is not left asleep beside bytes nor a
\* writer beside room.
Unharmed == \A q \in Proc : killed[q] = 0
SleepersServed ==
  \A p \in Proc :
    /\ (pc[p] = "r_asleep" /\ ~Empty /\ Unharmed) ~> (pc[p] # "r_asleep" \/ ~Unharmed)
    /\ (pc[p] = "w_asleep" /\ ~Full) ~> pc[p] # "w_asleep"
=============================================================================
