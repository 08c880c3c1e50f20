----------------------------- MODULE VirtioDisk -----------------------------
(***************************************************************************)
(* The disk driver, kernel/virtio_disk.c (the same file in all four trees) *)
(* and the device behind it: descriptors, the requests handed over and     *)
(* those the device has finished, the interrupt.                           *)
(*                                                                         *)
(* A section under vdisk_lock is one step, except the interrupt handler,   *)
(* which the device overtakes.  The rings are sets: they have room for     *)
(* every descriptor, and the device may serve and finish in any order.     *)
(* sleep() and wakeup() are those of AtomicSleep.                          *)
(***************************************************************************)
EXTENDS Naturals, FiniteSets

CONSTANTS
  Proc, Block, Val,
  NBUF, NUM,      \* param.h:11, virtio.h:45
  Nobody          \* neither a process nor the interrupt handler

Buf == 1..NBUF
Desc == 0..NUM - 1

ASSUME DiskAssumption ==
  /\ NBUF \in Nat \ {0}
  /\ NUM \in Nat \ {0}
  /\ Nobody \notin Proc

VARIABLES
  data, blockno,    \* struct buf: data and blockno
  platter,          \* the blocks on the disk
  free,             \* disk.free: the set of free descriptors
  idx, head,        \* per process: the descriptors of its request, the first
  req,              \* per first descriptor: buffer and command of its chain
  avail, used,      \* first descriptors on the available and the used ring
  bdisk,            \* b->disk of each buffer
  irq,              \* 1: the interrupt is raised
  vlock,            \* "intr" while virtio_disk_intr() has the lock
  io, iob, iow      \* per process: where it is in virtio_disk_rw(b, write)

ringVars == <<free, idx, head, req, avail, used, bdisk>>
callVars == <<iob, iow>>
diskVars == <<platter, ringVars, irq, vlock, io, callVars>>

NoReq == [buf |-> 1, write |-> 0]

DiskInit ==
  /\ platter \in [Block -> Val]
  /\ free = Desc
  /\ idx = [p \in Proc |-> {}]
  /\ head = [p \in Proc |-> 0]
  /\ req = [d \in Desc |-> NoReq]
  /\ avail = {} /\ used = {}
  /\ bdisk = [b \in Buf |-> 0]
  /\ irq = 0
  /\ vlock = "open"
  /\ io = [p \in Proc |-> "none"]
  /\ iob = [p \in Proc |-> 1]
  /\ iow = [p \in Proc |-> 0]

\* What alloc_desc() finds in three calls: the lowest free descriptors.
Lowest(a, b, c) ==
  /\ {a, b, c} \subseteq free /\ a < b /\ b < c
  /\ \A d \in free : d < c => d \in {a, b}
Three == \E a, b, c \in free : a # b /\ a # c /\ b # c

\* wakeup(&disk.free[0]), and where p itself goes.
WakeAllocators(p, l) ==
  [q \in Proc |-> IF q = p THEN l ELSE IF io[q] = "full" THEN "alloc" ELSE io[q]]

-----------------------------------------------------------------------------
(* virtio_disk_rw().                                                       *)

Rw(p, b, write) ==
  /\ io' = [io EXCEPT ![p] = "alloc"]
  /\ iob' = [iob EXCEPT ![p] = b]
  /\ iow' = [iow EXCEPT ![p] = write]
  /\ UNCHANGED <<platter, ringVars, irq, vlock>>

\* alloc3_desc() fails: what it got goes back one by one, each with a wakeup.
AllocFails(p) ==
  /\ io[p] = "alloc" /\ vlock = "open"
  /\ ~Three
  /\ io' = IF free = {} THEN [io EXCEPT ![p] = "full"] ELSE WakeAllocators(p, "full")
  /\ UNCHANGED <<platter, ringVars, irq, vlock, callVars>>

\* The request is complete before the device is told of it.
Submit(p) ==
  /\ io[p] = "alloc" /\ vlock = "open"
  /\ \E a, b, c \in free :
       /\ Lowest(a, b, c)
       /\ free' = free \ {a, b, c}
       /\ idx' = [idx EXCEPT ![p] = {a, b, c}]
       /\ head' = [head EXCEPT ![p] = a]
       /\ req' = [req EXCEPT ![a] = [buf |-> iob[p], write |-> iow[p]]]
       /\ avail' = avail \union {a}
  /\ bdisk' = [bdisk EXCEPT ![iob[p]] = 1]
  /\ io' = [io EXCEPT ![p] = "wait"]
  /\ UNCHANGED <<platter, used, irq, vlock, callVars>>

\* A bug: whoever is woken goes on.
DoneAlways(p) == TRUE
Done(p) == bdisk[iob[p]] = 0

\* Woken for another reason, the process sleeps again.
StillBusy(p) ==
  /\ io[p] = "test" /\ vlock = "open"
  /\ ~Done(p)
  /\ io' = [io EXCEPT ![p] = "wait"]
  /\ UNCHANGED <<platter, ringVars, irq, vlock, callVars>>

\* A bug: free_desc() without its wakeup().
FreeChainSilent(p) == io' = [io EXCEPT ![p] = "done"]
FreeChain(p) == io' = WakeAllocators(p, "done")

Finish(p) ==
  /\ io[p] = "test" /\ vlock = "open"
  /\ Done(p)
  /\ free' = free \union idx[p]
  /\ idx' = [idx EXCEPT ![p] = {}]
  /\ head' = [head EXCEPT ![p] = 0]
  /\ req' = [req EXCEPT ![head[p]] = NoReq]
  /\ FreeChain(p)
  /\ UNCHANGED <<platter, avail, used, bdisk, irq, vlock, callVars>>

\* kill() wakes a sleeper, whatever it waits for.
Disturb(p) ==
  /\ io[p] \in {"wait", "full"}
  /\ io' = [io EXCEPT ![p] = IF io[p] = "wait" THEN "test" ELSE "alloc"]
  /\ UNCHANGED <<platter, ringVars, irq, vlock, callVars>>

\* The return to the caller.
RwDone(p) ==
  /\ io[p] = "done"
  /\ io' = [io EXCEPT ![p] = "none"]
  /\ iob' = [iob EXCEPT ![p] = 1]
  /\ iow' = [iow EXCEPT ![p] = 0]
  /\ UNCHANGED <<platter, ringVars, irq, vlock>>

-----------------------------------------------------------------------------
(* The device: outside the source, modelled from how the driver uses it.   *)

Serve(d) ==
  LET r == req[d] IN
  /\ d \in avail
  /\ IF r.write = 1
     THEN platter' = [platter EXCEPT ![blockno[r.buf]] = data[r.buf]] /\ UNCHANGED data
     ELSE data' = [data EXCEPT ![r.buf] = platter[blockno[r.buf]]] /\ UNCHANGED platter
  /\ avail' = avail \ {d}
  /\ used' = used \union {d}
  /\ irq' = 1
  /\ UNCHANGED <<free, idx, head, req, bdisk, vlock, io, callVars>>

-----------------------------------------------------------------------------
(* virtio_disk_intr().                                                     *)

IntrAck ==
  /\ irq = 1 /\ vlock = "open"
  /\ irq' = 0
  /\ vlock' = "intr"
  /\ UNCHANGED <<platter, ringVars, io, callVars>>

IntrEntry(d) ==
  /\ vlock = "intr" /\ d \in used
  /\ used' = used \ {d}
  /\ bdisk' = [bdisk EXCEPT ![req[d].buf] = 0]
  /\ io' = [q \in Proc |->
       IF io[q] = "wait" /\ iob[q] = req[d].buf THEN "test" ELSE io[q]]
  /\ UNCHANGED <<platter, free, idx, head, req, avail, irq, vlock, callVars>>

IntrEnd ==
  /\ vlock = "intr" /\ used = {}
  /\ vlock' = "open"
  /\ UNCHANGED <<platter, ringVars, irq, io, callVars>>

-----------------------------------------------------------------------------
\* The steps of the driver on behalf of p.
Driver(p) == AllocFails(p) \/ Submit(p) \/ StillBusy(p) \/ Finish(p)
Interrupt == IntrAck \/ IntrEnd \/ \E d \in Desc : IntrEntry(d)
Device == \E d \in Desc : Serve(d)

-----------------------------------------------------------------------------
DiskTypeOK ==
  /\ platter \in [Block -> Val]
  /\ free \subseteq Desc
  /\ idx \in [Proc -> SUBSET Desc]
  /\ head \in [Proc -> Desc]
  /\ req \in [Desc -> [buf : Buf, write : {0, 1}]]
  /\ avail \subseteq Desc /\ used \subseteq Desc
  /\ bdisk \in [Buf -> {0, 1}]
  /\ irq \in {0, 1}
  /\ vlock \in {"open", "intr"}
  /\ io \in [Proc -> {"none", "alloc", "full", "wait", "test", "done"}]
  /\ iob \in [Proc -> Buf]
  /\ iow \in [Proc -> {0, 1}]

\* No descriptor is in two requests or free and in one, none is lost, and the
\* device holds no request whose owner has gone on: its buffer and its
\* descriptors are still the request's.
Requests ==
  /\ \A p \in Proc : idx[p] \intersect free = {}
  /\ \A p, q \in Proc : p # q => idx[p] \intersect idx[q] = {}
  /\ \A d \in Desc : d \notin free => \E p \in Proc : d \in idx[p]
  /\ \A d \in avail \union used :
       \E p \in Proc :
         /\ io[p] \in {"wait", "test"} /\ d = head[p]
         /\ req[d] = [buf |-> iob[p], write |-> iow[p]] /\ bdisk[iob[p]] = 1

\* Nobody waits for descriptors while three are free, and nobody for a buffer
\* that is done, once the interrupt handler has finished.
NoLostCompletion ==
  \A p \in Proc :
    /\ io[p] = "full" => ~Three
    /\ io[p] = "wait" =>
         bdisk[iob[p]] = 1 /\ (head[p] \in avail \/ irq = 1 \/ vlock = "intr")
=============================================================================
