----------------------------- MODULE PipeProofs -----------------------------
(* Theorems about Pipe, for every number of processes and every size of    *)
(* the ring and of the counters.                                           *)
EXTENDS Pipe, Integers, SequenceTheorems, TLAPS

\* The counters stay in the range of a uint.
CountersOK == nread \in 0..UINTS - 1 /\ nwrite \in 0..UINTS - 1

\* What a call still has to transfer; the loop of pipewrite() goes on only
\* while something is left.
LeftOK ==
  /\ left \in [Proc -> 0..MaxN]
  /\ \A p \in Proc : pc[p] = "w_go" => left[p] > 0

\* Where processes may be, and who holds pi->lock.
ControlOK ==
  /\ pc \in [Proc -> PC]
  /\ killed \in [Proc -> {0, 1}]
  /\ lock \in Proc \union {NoProc}
  /\ \A p \in Proc : lock = p <=> pc[p] \in InLock

\* The bytes.
DataOK ==
  /\ data \in [0..PIPESIZE - 1 -> Byte \union {NoByte}]
  /\ got \in Byte \union {NoByte}

\* Who is in a call has a descriptor of that end; who closes an end is the
\* last one, once; the page goes back after both ends.
EndsOK ==
  /\ readopen \in {0, 1} /\ writeopen \in {0, 1} /\ freed \in {0, 1}
  /\ openR \in SUBSET Proc /\ openW \in SUBSET Proc
  /\ \A p \in Proc :
       /\ pc[p] \in Writing => p \in openW
       /\ pc[p] \in Reading => p \in openR
       /\ pc[p] = "close_w" => openW = {}
       /\ pc[p] = "close_r" => openR = {}
       /\ writeopen = 0 => openW = {} /\ pc[p] # "close_w"
       /\ readopen = 0 => openR = {} /\ pc[p] # "close_r"
  /\ \A p, q \in Proc : pc[p] \in {"close_w", "close_r"} /\ pc[p] = pc[q] => p = q
  /\ freed = 1 => readopen = 0 /\ writeopen = 0

\* Between the tests of a loop and the sleep that follows, what was tested
\* holds: pi->lock keeps the others out.
Tested ==
  \A p \in Proc :
    /\ pc[p] = "w_go" => readopen = 1
    /\ pc[p] = "r_go" => Empty /\ writeopen = 1

IInv == CountersOK /\ LeftOK /\ ControlOK /\ DataOK /\ EndsOK /\ Tested /\ SleepersHaveReason

LEMMA InitIInv == Init => IInv
<1> SUFFICES ASSUME Init PROVE IInv
  OBVIOUS
<1>1. CountersOK /\ LeftOK /\ ControlOK
  BY PipeAssumption DEF Init, CountersOK, LeftOK, ControlOK, PC, InLock
<1>2. DataOK
  BY DEF Init, DataOK
<1>3. EndsOK
  BY DEF Init, EndsOK, Writing, Reading
<1>4. Tested /\ SleepersHaveReason
  BY DEF Init, Tested, SleepersHaveReason, WritersWaitForRoom, ReadersWaitForBytes
<1> QED
  BY <1>1, <1>2, <1>3, <1>4 DEF IInv

\* A step of p.
Step(p) == Proceed(p) \/ Enter(p) \/ Call(p) \/ Kill(p)

\* One more, modulo the size of a uint, is a uint.
LEMMA NextCount == \A k \in 0..UINTS - 1 : (k + 1) % UINTS \in 0..UINTS - 1
  BY PipeAssumption

LEMMA StepCounters ==
  ASSUME CountersOK, NEW p \in Proc, Step(p)
  PROVE  CountersOK'
<1> USE NextCount DEF CountersOK
<1>1. CASE Proceed(p)
  BY <1>1 DEF Proceed, WriteLoop, WriteGivesUp, WriteDone, WriteSleep, WriteFault, WriteByte,
     ReadReady, ReadKilled, ReadWait, ReadSleep, ReadByte, ReadFault, ReadDone, bufVars
<1>2. CASE Enter(p) \/ Call(p) \/ Kill(p)
  BY <1>2 DEF Enter, Acquire, PipeCloseW, PipeCloseR, Call, Write, Read, CloseW, CloseR, Kill,
     bufVars
<1> QED
  BY <1>1, <1>2 DEF Step

LEMMA StepData ==
  ASSUME DataOK, CountersOK, NEW p \in Proc, Step(p)
  PROVE  DataOK'
<1> USE DEF DataOK, CountersOK
<1>0. nread % PIPESIZE \in 0..PIPESIZE - 1
  BY PipeAssumption
<1>1. CASE Proceed(p)
  BY <1>0, <1>1 DEF Proceed, WriteLoop, WriteGivesUp, WriteDone, WriteSleep, WriteFault, WriteByte,
     ReadReady, ReadKilled, ReadWait, ReadSleep, ReadByte, ReadFault, ReadDone, bufVars
<1>2. CASE Enter(p) \/ Call(p) \/ Kill(p)
  BY <1>2 DEF Enter, Acquire, PipeCloseW, PipeCloseR, Call, Write, Read, CloseW, CloseR, Kill,
     bufVars
<1> QED
  BY <1>1, <1>2 DEF Step

LEMMA StepLeft ==
  ASSUME LeftOK, ControlOK, NEW p \in Proc, Step(p)
  PROVE  LeftOK'
<1> USE PipeAssumption DEF LeftOK, ControlOK, Goto, Return, WakeReaders, WakeWriters
<1>1. CASE WriteLoop(p) \/ WriteGivesUp(p) \/ WriteDone(p) \/ WriteSleep(p) \/ WriteFault(p)
  BY <1>1 DEF WriteLoop, WriteGivesUp, WriteDone, WriteSleep, WriteFault
<1>2. ASSUME NEW b \in Byte, WriteByte(p, b)
      PROVE  LeftOK'
  BY <1>2 DEF WriteByte
<1>3. CASE ReadReady(p) \/ ReadKilled(p) \/ ReadWait(p) \/ ReadSleep(p) \/ ReadFault(p) \/ ReadDone(p)
  BY <1>3 DEF ReadReady, ReadKilled, ReadWait, ReadSleep, ReadFault, ReadDone
<1>4. CASE ReadByte(p)
  BY <1>4 DEF ReadByte
<1>5. CASE Enter(p)
  BY <1>5 DEF Enter, Acquire, PipeCloseW, PipeCloseR
<1>6. ASSUME NEW size \in 1..MaxN, Write(p, size) \/ Read(p, size)
      PROVE  LeftOK'
  BY <1>6 DEF Write, Read
<1>7. CASE CloseW(p) \/ CloseR(p) \/ Kill(p)
  BY <1>7 DEF CloseW, CloseR, Kill
<1> QED
  BY <1>1, <1>2, <1>3, <1>4, <1>5, <1>6, <1>7 DEF Step, Proceed, Call

LEMMA StepControl ==
  ASSUME ControlOK, NEW p \in Proc, Step(p)
  PROVE  ControlOK'
<1> USE PipeAssumption DEF ControlOK, Goto, Return, WakeReaders, WakeWriters, PC, InLock,
        Writing, Reading
<1>1. CASE WriteLoop(p) \/ WriteGivesUp(p) \/ WriteDone(p)
  BY <1>1 DEF WriteLoop, WriteGivesUp, WriteDone
<1>2. CASE WriteSleep(p) \/ WriteFault(p)
  BY <1>2 DEF WriteSleep, WriteFault
<1>3. ASSUME NEW b \in Byte, WriteByte(p, b)
      PROVE  ControlOK'
  BY <1>3 DEF WriteByte
<1>4. CASE ReadReady(p) \/ ReadKilled(p) \/ ReadWait(p)
  BY <1>4 DEF ReadReady, ReadKilled, ReadWait
<1>5. CASE ReadSleep(p) \/ ReadByte(p) \/ ReadFault(p) \/ ReadDone(p)
  BY <1>5 DEF ReadSleep, ReadByte, ReadFault, ReadDone
<1>6. CASE Enter(p)
  BY <1>6 DEF Enter, Acquire, PipeCloseW, PipeCloseR
<1>7. ASSUME NEW size \in 1..MaxN, Write(p, size) \/ Read(p, size)
      PROVE  ControlOK'
  BY <1>7 DEF Write, Read
<1>8. CASE CloseW(p) \/ CloseR(p)
  BY <1>8 DEF CloseW, CloseR
<1>9. CASE Kill(p)
  BY <1>9 DEF Kill
<1> QED
  BY <1>1, <1>2, <1>3, <1>4, <1>5, <1>6, <1>7, <1>8, <1>9 DEF Step, Proceed, Call

LEMMA StepEnds ==
  ASSUME EndsOK, ControlOK, NEW p \in Proc, Step(p)
  PROVE  EndsOK'
<1> USE DEF EndsOK, ControlOK, Goto, Return, WakeReaders, WakeWriters, Writing, Reading, endVars
<1>1. CASE WriteLoop(p) \/ WriteGivesUp(p) \/ WriteDone(p)
  BY <1>1 DEF WriteLoop, WriteGivesUp, WriteDone
<1>2. CASE WriteSleep(p) \/ WriteFault(p)
  BY <1>2 DEF WriteSleep, WriteFault
<1>3. ASSUME NEW b \in Byte, WriteByte(p, b)
      PROVE  EndsOK'
  BY <1>3 DEF WriteByte
<1>4. CASE ReadReady(p) \/ ReadKilled(p) \/ ReadWait(p)
  BY <1>4 DEF ReadReady, ReadKilled, ReadWait
<1>5. CASE ReadSleep(p) \/ ReadByte(p) \/ ReadFault(p) \/ ReadDone(p)
  BY <1>5 DEF ReadSleep, ReadByte, ReadFault, ReadDone
<1>6. CASE Acquire(p, "write", "w_loop") \/ Acquire(p, "read", "r_loop")
  BY <1>6 DEF Acquire
<1>7. CASE PipeCloseW(p)
  BY <1>7 DEF PipeCloseW
<1>8. CASE PipeCloseR(p)
  BY <1>8 DEF PipeCloseR
<1>9. ASSUME NEW size \in 1..MaxN, Write(p, size) \/ Read(p, size)
      PROVE  EndsOK'
  BY <1>9 DEF Write, Read
<1>10. CASE CloseW(p)
  BY <1>10 DEF CloseW, Last
<1>11. CASE CloseR(p)
  BY <1>11 DEF CloseR, Last
<1>12. CASE Kill(p)
  BY <1>12 DEF Kill
<1> QED
  BY <1>1, <1>2, <1>3, <1>4, <1>5, <1>6, <1>7, <1>8, <1>9, <1>10, <1>11, <1>12
  DEF Step, Proceed, Enter, Call

LEMMA StepTested ==
  ASSUME Tested, ControlOK, EndsOK, NEW p \in Proc, Step(p)
  PROVE  Tested'
<1> USE DEF Tested, ControlOK, InLock, Goto, Return, WakeReaders, WakeWriters, endVars, bufVars,
        Empty
<1>1. CASE WriteLoop(p) \/ WriteGivesUp(p) \/ WriteDone(p) \/ WriteSleep(p) \/ WriteFault(p)
  BY <1>1 DEF WriteLoop, WriteGivesUp, WriteDone, WriteSleep, WriteFault
<1>2. ASSUME NEW b \in Byte, WriteByte(p, b)
      PROVE  Tested'
  BY <1>2 DEF WriteByte
<1>3. CASE ReadReady(p) \/ ReadKilled(p) \/ ReadWait(p)
  BY <1>3 DEF ReadReady, ReadKilled, ReadWait
<1>4. CASE ReadSleep(p) \/ ReadByte(p) \/ ReadFault(p) \/ ReadDone(p)
  BY <1>4 DEF ReadSleep, ReadByte, ReadFault, ReadDone
<1>5. CASE Enter(p)
  BY <1>5, PipeAssumption DEF Enter, Acquire, PipeCloseW, PipeCloseR
<1>6. CASE Call(p)
  BY <1>6 DEF Call, Write, Read, CloseW, CloseR
<1>7. CASE Kill(p)
  BY <1>7 DEF Kill
<1> QED
  BY <1>1, <1>2, <1>3, <1>4, <1>5, <1>6, <1>7 DEF Step, Proceed

LEMMA StepReason ==
  ASSUME SleepersHaveReason, Tested, ControlOK, EndsOK, NEW p \in Proc, Step(p)
  PROVE  SleepersHaveReason'
<1> USE DEF SleepersHaveReason, WritersWaitForRoom, ReadersWaitForBytes, Tested, ControlOK,
        InLock, Goto, Return, WakeReaders, WakeWriters, endVars, bufVars, Empty, Full
<1>1. CASE WriteLoop(p) \/ WriteDone(p)
  BY <1>1 DEF WriteLoop, WriteDone
<1>2. CASE WriteGivesUp(p)
  BY <1>2 DEF WriteGivesUp, EndsOK, Reading
<1>3. CASE WriteSleep(p) \/ WriteFault(p)
  BY <1>3 DEF WriteSleep, WriteFault
<1>4. ASSUME NEW b \in Byte, WriteByte(p, b)
      PROVE  SleepersHaveReason'
  BY <1>4 DEF WriteByte
<1>5. CASE ReadReady(p) \/ ReadKilled(p) \/ ReadWait(p)
  BY <1>5 DEF ReadReady, ReadKilled, ReadWait
<1>6. CASE ReadSleep(p) \/ ReadByte(p)
  BY <1>6 DEF ReadSleep, ReadByte
<1>7. CASE ReadFault(p) \/ ReadDone(p)
  BY <1>7 DEF ReadFault, ReadDone
<1>8. CASE Enter(p)
  BY <1>8 DEF Enter, Acquire, PipeCloseW, PipeCloseR
<1>9. CASE Call(p)
  BY <1>9 DEF Call, Write, Read, CloseW, CloseR
<1>10. CASE Kill(p)
  BY <1>10 DEF Kill
<1> QED
  BY <1>1, <1>2, <1>3, <1>4, <1>5, <1>6, <1>7, <1>8, <1>9, <1>10 DEF Step, Proceed

LEMMA StepIInv == IInv /\ [Next]_vars => IInv'
<1> SUFFICES ASSUME IInv, [Next]_vars PROVE IInv'
  OBVIOUS
<1>1. ASSUME NEW p \in Proc, Step(p)
      PROVE  IInv'
  <2> USE <1>1 DEF IInv
  <2>1. CountersOK'
    BY StepCounters
  <2>2. LeftOK'
    BY StepLeft
  <2>3. ControlOK'
    BY StepControl
  <2>4. DataOK'
    BY StepData
  <2>5. EndsOK'
    BY StepEnds
  <2>6. Tested' /\ SleepersHaveReason'
    BY StepTested, StepReason
  <2> QED
    BY <2>1, <2>2, <2>3, <2>4, <2>5, <2>6
<1>2. CASE UNCHANGED vars
  BY <1>2 DEF IInv, CountersOK, LeftOK, ControlOK, DataOK, EndsOK, Tested, SleepersHaveReason,
     WritersWaitForRoom, ReadersWaitForBytes, Empty, Full, vars, bufVars, endVars
<1> QED
  BY <1>1, <1>2 DEF Next, Step

LEMMA IInvHolds == Spec => []IInv
  BY InitIInv, StepIInv, PTL DEF Spec

\* Types, and pi->lock held exactly where the code holds it.
THEOREM TypeCorrect == Spec => []TypeOK
<1>1. IInv => TypeOK
  BY DEF IInv, CountersOK, LeftOK, ControlOK, DataOK, EndsOK, TypeOK
<1> QED
  BY <1>1, IInvHolds, PTL

\* No writer sleeps beside room and no reader beside bytes or the end of file,
\* unless the wakeup is on its way (pipewrite(), piperead(), pipeclose()).
THEOREM SleepersAreRight == Spec => []SleepersHaveReason
<1>1. IInv => SleepersHaveReason
  BY DEF IInv
<1> QED
  BY <1>1, IInvHolds, PTL

\* kfree() of the page of a pipe (pipeclose()) comes after its last use.
THEOREM FreedIsUnused == Spec => []NotUsedFreed
<1>1. IInv => NotUsedFreed
  BY DEF IInv, ControlOK, EndsOK, NotUsedFreed, PC
<1> QED
  BY <1>1, IInvHolds, PTL

-----------------------------------------------------------------------------
(***************************************************************************)
(* Pipe implements Fifo: the ring, indexed by counters that wrap around,   *)
(* is a queue, for every size of the ring that divides the range of the    *)
(* counters.                                                               *)
(***************************************************************************)

-----------------------------------------------------------------------------
(* Arithmetic modulo a number.                                             *)

LEMMA ModSmall == ASSUME NEW u \in Nat \ {0}, NEW x \in 0..u - 1 PROVE x % u = x
  BY Z3

LEMMA ModOnce == ASSUME NEW u \in Nat \ {0}, NEW x \in u..2 * u - 1 PROVE x % u = x - u
  BY Z3

LEMMA Division ==
  ASSUME NEW u \in Nat \ {0}, NEW x \in Nat
  PROVE  x = u * (x \div u) + (x % u) /\ x % u \in 0..u - 1 /\ x \div u \in Nat
  BY Z3

LEMMA Remainder ==
  ASSUME NEW u \in Nat \ {0}, NEW x \in Nat, NEW q \in Nat, NEW r \in 0..u - 1, x = u * q + r
  PROVE  x % u = r
  BY Z3

\* Where a counter wraps around, its place in the ring does not jump.
LEMMA Wrap == \A x \in Nat : (UINTS + x) % PIPESIZE = x % PIPESIZE
<1> SUFFICES ASSUME NEW x \in Nat PROVE (UINTS + x) % PIPESIZE = x % PIPESIZE
  OBVIOUS
<1> DEFINE m == UINTS \div PIPESIZE
           q == x \div PIPESIZE
           r == x % PIPESIZE
<1>1. UINTS = PIPESIZE * m /\ x = PIPESIZE * q + r /\ r \in 0..PIPESIZE - 1 /\ m \in Nat /\ q \in Nat
  BY Division, PipeAssumption
<1> HIDE DEF m, q, r
<1>2. UINTS + x = PIPESIZE * (m + q) + r /\ m + q \in Nat
  BY <1>1, PipeAssumption
<1>3. (UINTS + x) % PIPESIZE = r
  BY <1>1, <1>2, Remainder, PipeAssumption
<1> QED
  BY <1>3 DEF r

LEMMA NextMultiple ==
  ASSUME NEW u \in Nat \ {0}, NEW m \in Nat, NEW n \in Nat, u * m < u * n
  PROVE  u * m + u <= u * n
<1>1. m < n
  BY Z3
<1>2. u * (m + 1) <= u * n
  BY <1>1, Z3
<1> QED
  BY <1>2

\* Numbers less than u apart differ modulo u.
LEMMA ModApart ==
  ASSUME NEW u \in Nat \ {0}, NEW x \in Nat, NEW y \in Nat, x < y, y < x + u
  PROVE  x % u # y % u
<1> SUFFICES ASSUME x % u = y % u PROVE FALSE
  OBVIOUS
<1> DEFINE m == x \div u
           n == y \div u
           r == x % u
<1>1. x = u * m + r /\ y = u * n + r /\ m \in Nat /\ n \in Nat /\ r \in 0..u - 1
  BY Division
<1> HIDE DEF m, n, r
<1>2. u * m \in Nat /\ u * n \in Nat
  BY <1>1
<1>3. u * m < u * n
  BY <1>1, <1>2
<1>4. u * m + u <= u * n
  BY <1>1, <1>3, NextMultiple
<1> QED
  BY <1>1, <1>2, <1>4

-----------------------------------------------------------------------------
(* The counters.                                                           *)

\* The pipe never holds more bytes than the ring has room for.
RingOK == Used <= PIPESIZE

Advance(k) == IF k + 1 = UINTS THEN 0 ELSE k + 1

LEMMA Advances == \A k \in 0..UINTS - 1 : (k + 1) % UINTS = Advance(k)
<1> SUFFICES ASSUME NEW k \in 0..UINTS - 1 PROVE (k + 1) % UINTS = Advance(k)
  OBVIOUS
<1>1. CASE k + 1 = UINTS
  BY <1>1, ModOnce, PipeAssumption DEF Advance
<1>2. CASE k + 1 # UINTS
  BY <1>2, ModSmall, PipeAssumption DEF Advance
<1> QED
  BY <1>1, <1>2

\* How many bytes lie between the counters.
Between(r, w) == IF w >= r THEN w - r ELSE w + UINTS - r

LEMMA CountIs ==
  \A r, w \in 0..UINTS - 1 :
    (w + UINTS - r) % UINTS = Between(r, w) /\ Between(r, w) \in 0..UINTS - 1
<1> SUFFICES ASSUME NEW r \in 0..UINTS - 1, NEW w \in 0..UINTS - 1
             PROVE  (w + UINTS - r) % UINTS = Between(r, w) /\ Between(r, w) \in 0..UINTS - 1
  OBVIOUS
<1> USE PipeAssumption DEF Between
<1>1. CASE w >= r
  <2>1. w + UINTS - r \in UINTS..2 * UINTS - 1
    BY <1>1
  <2>2. (w + UINTS - r) % UINTS = w + UINTS - r - UINTS
    BY <2>1, ModOnce
  <2> QED
    BY <1>1, <2>2
<1>2. CASE w < r
  <2>1. w + UINTS - r \in 0..UINTS - 1
    BY <1>2
  <2>2. (w + UINTS - r) % UINTS = w + UINTS - r
    BY <2>1, ModSmall
  <2> QED
    BY <1>2, <2>1, <2>2
<1> QED
  BY <1>1, <1>2

LEMMA UsedIs == CountersOK => Used = Between(nread, nwrite) /\ Used \in 0..UINTS - 1
  BY CountIs DEF CountersOK, Used

LEMMA FullIs ==
  ASSUME CountersOK, RingOK
  PROVE  ~Full => Used < PIPESIZE
<1> USE PipeAssumption DEF CountersOK
<1> SUFFICES ASSUME Used = PIPESIZE PROVE Full
  BY UsedIs DEF RingOK
<1>1. Between(nread, nwrite) = PIPESIZE
  BY UsedIs
<1>2. CASE nread + PIPESIZE < UINTS
  BY <1>1, <1>2, ModSmall DEF Full, Between
<1>3. CASE nread + PIPESIZE >= UINTS
  BY <1>1, <1>3, ModOnce DEF Full, Between
<1> QED
  BY <1>2, <1>3

LEMMA EmptyIs == CountersOK => (Empty <=> Used = 0)
  BY UsedIs, PipeAssumption DEF CountersOK, Empty, Between

-----------------------------------------------------------------------------
(* The queue.                                                              *)

Contents == Byte \union {NoByte}

\* The place of the k-th byte.
Index(k) == (nread + k - 1) % PIPESIZE

LEMMA RingIs ==
  ASSUME NEW n \in Nat, NEW r \in Nat, NEW d \in [0..PIPESIZE - 1 -> Contents]
  PROVE  LET q == [k \in 1..n |-> d[(r + k - 1) % PIPESIZE]]
         IN  /\ q \in Seq(Contents) /\ Len(q) = n
             /\ \A k \in 1..n : q[k] = d[(r + k - 1) % PIPESIZE]
<1> DEFINE q == [k \in 1..n |-> d[(r + k - 1) % PIPESIZE]]
<1>1. \A k \in 1..n : (r + k - 1) % PIPESIZE \in 0..PIPESIZE - 1
  BY Division, PipeAssumption
<1>2. q \in [1..n -> Contents]
  BY <1>1
<1>3. \A k \in 1..n : q[k] = d[(r + k - 1) % PIPESIZE]
  OBVIOUS
<1> HIDE DEF q
<1>4. q \in Seq(Contents) /\ Len(q) = n
  BY <1>2
<1> QED
  BY <1>3, <1>4 DEF q

LEMMA QueueIs ==
  ASSUME CountersOK, DataOK
  PROVE  /\ Queue \in Seq(Contents) /\ Len(Queue) = Used
         /\ \A k \in 1..Used : Queue[k] = data[Index(k)]
<1>1. Used \in Nat /\ nread \in Nat /\ data \in [0..PIPESIZE - 1 -> Contents]
  BY UsedIs, PipeAssumption DEF CountersOK, DataOK, Contents
<1> QED
  BY <1>1, RingIs DEF Queue, Index

\* The same for the next state.
LEMMA NextQueueIs ==
  ASSUME CountersOK', DataOK'
  PROVE  /\ Queue' \in Seq(Contents) /\ Len(Queue') = Used'
         /\ \A k \in 1..Used' : Queue'[k] = data'[(nread' + k - 1) % PIPESIZE]
<1>1. Used' \in 0..UINTS - 1
  BY CountIs DEF CountersOK, Used
<1>2. Used' \in Nat /\ nread' \in Nat
  BY <1>1, PipeAssumption DEF CountersOK
<1>3. data' \in [0..PIPESIZE - 1 -> Contents]
  BY DEF DataOK, Contents
<1> QED
  BY <1>2, <1>3, RingIs DEF Queue

\* The place behind the last byte is where the next one goes, and is none of
\* those in use.
LEMMA FreePlace ==
  ASSUME CountersOK, Used < PIPESIZE
  PROVE  Index(Used + 1) = nwrite % PIPESIZE /\ \A k \in 1..Used : Index(k) # nwrite % PIPESIZE
<1> USE PipeAssumption DEF CountersOK
<1>1. Used = Between(nread, nwrite) /\ Used \in Nat
  BY UsedIs
<1>2. Index(Used + 1) = nwrite % PIPESIZE
  <2>1. CASE nwrite >= nread
    BY <1>1, <2>1 DEF Index, Between
  <2>2. CASE nwrite < nread
    <3>1. nread + (Used + 1) - 1 = UINTS + nwrite
      BY <1>1, <2>2 DEF Between
    <3>2. (UINTS + nwrite) % PIPESIZE = nwrite % PIPESIZE
      <4>1. nwrite \in Nat
        OBVIOUS
      <4> QED
        BY <4>1, Wrap, Zenon
    <3> QED
      BY <3>1, <3>2 DEF Index
  <2> QED
    BY <2>1, <2>2
<1>3. ASSUME NEW k \in 1..Used PROVE Index(k) # Index(Used + 1)
  <2>1. nread + k - 1 \in Nat /\ nread + (Used + 1) - 1 \in Nat
    BY <1>1
  <2>2. nread + k - 1 < nread + (Used + 1) - 1 /\ nread + (Used + 1) - 1 < nread + k - 1 + PIPESIZE
    BY <1>1
  <2> QED
    BY <2>1, <2>2, ModApart DEF Index
<1> QED
  BY <1>2, <1>3

\* One byte in.
LEMMA SendMaps ==
  ASSUME CountersOK, CountersOK', DataOK, DataOK', RingOK, NEW p \in Proc, NEW b \in Byte,
         WriteByte(p, b)
  PROVE  Abstract!Send(b) /\ RingOK'
<1>1. ~Full /\ nread' = nread /\ nwrite' = Advance(nwrite) /\ got' = got
      /\ data' = [data EXCEPT ![nwrite % PIPESIZE] = b]
  BY Advances DEF WriteByte, CountersOK
<1>2. Used < PIPESIZE /\ Used \in Nat
  BY <1>1, FullIs, UsedIs, PipeAssumption
<1>3. Used' = Used + 1
  <2>1. Used' = Between(nread', nwrite')
    BY CountIs DEF CountersOK, Used
  <2> QED
    BY <1>1, <1>2, <2>1, UsedIs, PipeAssumption DEF Between, CountersOK, Advance
<1>4. /\ Queue' \in Seq(Contents) /\ Len(Queue') = Used + 1
      /\ \A k \in 1..Used + 1 : Queue'[k] = data'[Index(k)]
  <2>1. /\ Queue' \in Seq(Contents) /\ Len(Queue') = Used'
        /\ \A k \in 1..Used' : Queue'[k] = data'[(nread' + k - 1) % PIPESIZE]
    BY NextQueueIs
  <2> QED
    BY <1>1, <1>3, <2>1 DEF Index
<1>5. \A k \in 1..Used : Queue'[k] = Queue[k]
  BY <1>1, <1>2, <1>4, FreePlace, QueueIs DEF DataOK
<1>6. Queue'[Used + 1] = b
  <2>1. nwrite % PIPESIZE \in 0..PIPESIZE - 1
    BY Division, PipeAssumption DEF CountersOK
  <2> QED
    BY <1>1, <1>2, <1>4, <2>1, FreePlace DEF DataOK
<1>7. Queue' = Append(Queue, b)
  BY <1>2, <1>4, <1>5, <1>6, QueueIs, AppendProperties, SeqEqual DEF Contents
<1>8. Abstract!Send(b)
  BY <1>1, <1>2, <1>7, QueueIs DEF Abstract!Send
<1> QED
  BY <1>2, <1>3, <1>8, PipeAssumption DEF RingOK

\* One byte out.
LEMMA ReceiveMaps ==
  ASSUME CountersOK, CountersOK', DataOK, DataOK', RingOK, ~Empty,
         nread' = (nread + 1) % UINTS, UNCHANGED <<data, nwrite>>
  PROVE  /\ Queue # <<>> /\ Queue' = Tail(Queue) /\ RingOK'
         /\ Head(Queue) = data[nread % PIPESIZE]
<1> USE PipeAssumption
<1>1. nread' = Advance(nread)
  BY Advances DEF CountersOK
<1>2. Used \in Nat /\ Used # 0
  BY UsedIs, EmptyIs
<1>3. Used' = Used - 1
  <2>1. Used' = Between(nread', nwrite')
    BY CountIs DEF CountersOK, Used
  <2> QED
    BY <1>1, <1>2, <2>1, UsedIs DEF Between, CountersOK, Advance
<1>4. \A k \in 1..Used - 1 : (nread' + k - 1) % PIPESIZE = Index(k + 1)
  <2> SUFFICES ASSUME NEW k \in 1..Used - 1 PROVE (nread' + k - 1) % PIPESIZE = (nread + (k + 1) - 1) % PIPESIZE
    BY DEF Index
  <2>1. CASE nread + 1 # UINTS
    BY <1>1, <2>1 DEF Advance, CountersOK
  <2>2. CASE nread + 1 = UINTS
    <3>1. nread + (k + 1) - 1 = UINTS + (k - 1) /\ nread' + k - 1 = k - 1
      BY <1>1, <2>2 DEF Advance, CountersOK
    <3>2. (UINTS + (k - 1)) % PIPESIZE = (k - 1) % PIPESIZE
      <4>1. k - 1 \in Nat
        BY <1>2
      <4> QED
        BY <4>1, Wrap, Zenon
    <3> QED
      BY <3>1, <3>2
  <2> QED
    BY <2>1, <2>2
<1>5. /\ Queue' \in Seq(Contents) /\ Len(Queue') = Used - 1
      /\ \A k \in 1..Used - 1 : Queue'[k] = data[Index(k + 1)]
  <2>1. /\ Queue' \in Seq(Contents) /\ Len(Queue') = Used'
        /\ \A k \in 1..Used' : Queue'[k] = data'[(nread' + k - 1) % PIPESIZE]
    BY NextQueueIs
  <2> QED
    BY <1>3, <1>4, <2>1
<1>6. Queue # <<>>
  BY <1>2, QueueIs, EmptySeq
<1>7. /\ Tail(Queue) \in Seq(Contents) /\ Len(Tail(Queue)) = Used - 1
      /\ \A k \in 1..Used - 1 : Tail(Queue)[k] = Queue[k + 1]
  BY <1>6, QueueIs, HeadTailProperties
<1>8. Queue' = Tail(Queue)
  <2>1. \A k \in 1..Used - 1 : Queue'[k] = Tail(Queue)[k]
    BY <1>2, <1>5, <1>7, QueueIs, SMTT(30)
  <2> QED
    BY <1>5, <1>7, <2>1, SeqEqual
<1>9. Head(Queue) = data[nread % PIPESIZE]
  <2>1. Head(Queue) = Queue[1]
    BY <1>6, QueueIs
  <2> QED
    BY <1>2, <2>1, QueueIs DEF Index, CountersOK
<1> QED
  BY <1>2, <1>3, <1>6, <1>8, <1>9 DEF RingOK

\* Every other step leaves the bytes alone.
LEMMA QuietMaps ==
  ASSUME RingOK, UNCHANGED <<data, nread, nwrite, got>>
  PROVE  [Abstract!AbsNext]_(Abstract!absVars) /\ RingOK'
  BY DEF Queue, Used, RingOK, Abstract!absVars

LEMMA StepMaps ==
  ASSUME IInv, IInv', RingOK, [Next]_vars
  PROVE  [Abstract!AbsNext]_(Abstract!absVars) /\ RingOK'
<1> USE DEF IInv
<1>1. ASSUME NEW p \in Proc, Proceed(p)
      PROVE  [Abstract!AbsNext]_(Abstract!absVars) /\ RingOK'
  <2>1. ASSUME NEW b \in Byte, WriteByte(p, b)
        PROVE  [Abstract!AbsNext]_(Abstract!absVars) /\ RingOK'
    BY <2>1, SendMaps DEF Abstract!AbsNext
  <2>2. CASE ReadByte(p)
    BY <2>2, ReceiveMaps DEF ReadByte, Abstract!AbsNext, Abstract!Receive
  <2>3. CASE ReadFault(p)
    BY <2>3, ReceiveMaps DEF ReadFault, Abstract!AbsNext, Abstract!Lose
  <2>4. ASSUME ~ReadByte(p), ~ReadFault(p), \A b \in Byte : ~WriteByte(p, b)
        PROVE  [Abstract!AbsNext]_(Abstract!absVars) /\ RingOK'
    <3>1. UNCHANGED <<data, nread, nwrite, got>>
      BY <1>1, <2>4 DEF Proceed, WriteLoop, WriteGivesUp, WriteDone, WriteSleep, WriteFault,
         ReadReady, ReadKilled, ReadWait, ReadSleep, ReadDone, bufVars
    <3> QED
      BY <3>1, QuietMaps
  <2> QED
    BY <2>1, <2>2, <2>3, <2>4
<1>2. ASSUME NEW p \in Proc, Enter(p) \/ Call(p) \/ Kill(p)
      PROVE  [Abstract!AbsNext]_(Abstract!absVars) /\ RingOK'
  <2>1. UNCHANGED <<data, nread, nwrite, got>>
    BY <1>2 DEF Enter, Acquire, PipeCloseW, PipeCloseR, Call, Write, Read, CloseW, CloseR, Kill,
       bufVars
  <2> QED
    BY <2>1, QuietMaps
<1>3. CASE UNCHANGED vars
  BY <1>3, QuietMaps DEF vars, bufVars
<1> QED
  BY <1>1, <1>2, <1>3 DEF Next

LEMMA InitMaps == Init => Abstract!AbsInit /\ RingOK
<1> SUFFICES ASSUME Init PROVE Abstract!AbsInit /\ RingOK
  OBVIOUS
<1>1. CountersOK /\ DataOK
  BY InitIInv DEF IInv
<1>2. Used = 0
  BY <1>1, EmptyIs DEF Init, Empty
<1>3. Queue = <<>>
  BY <1>1, <1>2, QueueIs, EmptySeq
<1> QED
  BY <1>2, <1>3, PipeAssumption DEF Abstract!AbsInit, RingOK

\* A pipe is a queue of at most PIPESIZE bytes: none is overwritten, repeated
\* or read out of its turn, wherever the counters wrap (pipewrite(), piperead()).
THEOREM PipeIsFifo == Spec => ImplementsFifo
<1>1. Init => Abstract!AbsInit /\ RingOK
  BY InitMaps
<1>2. IInv /\ IInv' /\ RingOK /\ [Next]_vars => [Abstract!AbsNext]_(Abstract!absVars) /\ RingOK'
  BY StepMaps
<1> QED
  BY <1>1, <1>2, IInvHolds, PTL DEF Spec, ImplementsFifo, Abstract!AbsSpec

-----------------------------------------------------------------------------
(* Two consequences for the users of a pipe.                               *)

LEMMA NotFullEmpty == CountersOK => ~(Full /\ Empty)
<1> SUFFICES ASSUME CountersOK, nwrite = (nread + PIPESIZE) % UINTS, nread = nwrite PROVE FALSE
  BY DEF Full, Empty
<1> USE PipeAssumption DEF CountersOK
<1>1. CASE nread + PIPESIZE < UINTS
  BY <1>1, ModSmall
<1>2. CASE nread + PIPESIZE >= UINTS
  BY <1>2, ModOnce
<1> QED
  BY <1>1, <1>2

\* Readers and writers never wait for each other: pipewrite() wakes the readers
\* before it sleeps, and piperead() sleeps on an empty pipe only, with pi->lock held
\* since it looked; kills do not change that.
NeverBothAsleep == \A p, q \in Proc : ~(pc[p] = "w_asleep" /\ pc[q] = "r_asleep")

THEOREM SomebodyCanMove == Spec => []NeverBothAsleep
<1>1. Init => NeverBothAsleep
  BY DEF Init, NeverBothAsleep
<1>2. ASSUME IInv, NeverBothAsleep, NEW p \in Proc, Step(p) PROVE NeverBothAsleep'
  <2> USE DEF NeverBothAsleep
  <2>0. pc \in [Proc -> PC]
    BY <1>2 DEF IInv, ControlOK
  <2>1. CASE WriteSleep(p)
    BY <2>0, <2>1 DEF WriteSleep, WakeReaders
  <2>2. CASE ReadSleep(p)
    <3>1. pc[p] = "r_go" /\ Empty /\ CountersOK
      BY <1>2, <2>2 DEF ReadSleep, IInv, Tested
    <3>2. \A q \in Proc : pc[q] # "r_copy"
      BY <1>2, <3>1 DEF IInv, ControlOK, InLock
    <3>3. \A q \in Proc : pc[q] # "w_asleep"
      BY <1>2, <3>1, <3>2, NotFullEmpty DEF IInv, SleepersHaveReason, WritersWaitForRoom
    <3> QED
      BY <2>0, <2>2, <3>3 DEF ReadSleep, Goto
  <2>3. CASE ~WriteSleep(p) /\ ~ReadSleep(p)
    <3>1. \A q \in Proc : pc'[q] \in {"w_asleep", "r_asleep"} => pc'[q] = pc[q]
      BY <1>2, <2>0, <2>3 DEF Step, Proceed, WriteLoop, WriteGivesUp, WriteDone, WriteFault, WriteByte,
         ReadReady, ReadKilled, ReadWait, ReadByte, ReadFault, ReadDone, Enter, Acquire,
         PipeCloseW, PipeCloseR, Call, Write, Read, CloseW, CloseR, Kill, Goto, Return,
         WakeReaders, WakeWriters
    <3> QED
      BY <1>2, <3>1
  <2> QED
    BY <2>1, <2>2, <2>3
<1>3. IInv /\ NeverBothAsleep /\ [Next]_vars => NeverBothAsleep'
  <2>1. CASE UNCHANGED vars
    BY <2>1 DEF vars, NeverBothAsleep
  <2> QED
    BY <1>2, <2>1 DEF Next, Step
<1> QED
  BY <1>1, <1>3, IInvHolds, PTL DEF Spec

\* The end of file is the end, and so is a broken pipe: an end stays closed, no byte
\* follows the end of file and none is taken from a pipe without readers
\* (fileclose() calls pipeclose() when nobody has the end any more).
ClosedForGood ==
  /\ writeopen = 0 => writeopen' = 0 /\ UNCHANGED <<nwrite, data>>
  /\ readopen = 0 => readopen' = 0 /\ UNCHANGED <<nread, got>>

THEOREM EndsAreFinal == Spec => [][ClosedForGood]_vars
<1>1. ASSUME IInv, NEW p \in Proc, Step(p) PROVE ClosedForGood
  <2>1. /\ writeopen = 0 => pc[p] \notin Writing
        /\ readopen = 0 => pc[p] \notin Reading
    BY <1>1 DEF IInv, EndsOK
  <2>2. writeopen = 0 => writeopen' = 0 /\ UNCHANGED <<nwrite, data>>
    BY <1>1, <2>1 DEF Step, Proceed, WriteLoop, WriteGivesUp, WriteDone, WriteSleep, WriteFault,
       WriteByte, ReadReady, ReadKilled, ReadWait, ReadSleep, ReadByte, ReadFault, ReadDone, Enter,
       Acquire, PipeCloseW, PipeCloseR, Call, Write, Read, CloseW, CloseR, Kill, Writing, bufVars,
       endVars
  <2>3. readopen = 0 => readopen' = 0 /\ UNCHANGED <<nread, got>>
    BY <1>1, <2>1 DEF Step, Proceed, WriteLoop, WriteGivesUp, WriteDone, WriteSleep, WriteFault,
       WriteByte, ReadReady, ReadKilled, ReadWait, ReadSleep, ReadByte, ReadFault, ReadDone, Enter,
       Acquire, PipeCloseW, PipeCloseR, Call, Write, Read, CloseW, CloseR, Kill, Reading, bufVars,
       endVars
  <2> QED
    BY <2>2, <2>3 DEF ClosedForGood
<1>2. IInv /\ [Next]_vars => [ClosedForGood]_vars
  BY <1>1 DEF Next, Step
<1> QED
  BY <1>2, IInvHolds, PTL DEF Spec
=============================================================================
