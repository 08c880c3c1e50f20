-------------------------- MODULE BufferCacheProofs --------------------------
(* Theorems about BufferCache and the disk driver under it, for every      *)
(* number of processes, blocks, buffers and descriptors.                   *)
EXTENDS BufferCache, FiniteSetTheorems, TLAPS

Pending == {"wait", "test"}
InIO == {"fill", "write"}

-----------------------------------------------------------------------------
(* The driver.                                                             *)

\* A process has descriptors while its request is under way, and the chain
\* starts with one of them.
Owned ==
  \A p \in Proc :
    /\ io[p] \in Pending => head[p] \in idx[p] /\ req[head[p]] = [buf |-> iob[p], write |-> iow[p]]
    /\ io[p] \notin Pending => idx[p] = {}

\* Descriptors are neither shared nor lost.
Disjoint ==
  /\ \A p \in Proc : idx[p] \intersect free = {}
  /\ \A p, q \in Proc : p # q => idx[p] \intersect idx[q] = {}
  /\ \A d \in Desc : d \notin free => \E p \in Proc : d \in idx[p]

\* What is in the rings.
Rings ==
  /\ avail \intersect used = {}
  /\ \A d \in avail \union used : \E p \in Proc : io[p] \in Pending /\ d = head[p]
  /\ \A p \in Proc : io[p] \in Pending =>
       (bdisk[iob[p]] = 1 <=> head[p] \in avail \union used)

\* Who sleeps, and who will wake him.
Sleepers ==
  /\ \A p \in Proc : io[p] = "wait" => bdisk[iob[p]] = 1
  /\ used # {} => irq = 1 \/ vlock = "intr"
  /\ \A p \in Proc : io[p] = "full" => ~Three

\* Two requests are never about one buffer.
Exclusive == \A p, q \in Proc : p # q /\ io[p] # "none" /\ io[q] # "none" => iob[p] # iob[q]

DriverInv == DiskTypeOK /\ Owned /\ Disjoint /\ Rings /\ Sleepers

LEMMA DriverSafe == DriverInv => Requests /\ NoLostCompletion
  BY DEF DriverInv, DiskTypeOK, Owned, Disjoint, Rings, Sleepers, Requests, NoLostCompletion, Pending

LEMMA InitDriver == DiskInit => DriverInv
  BY DiskAssumption DEF DiskInit, DriverInv, DiskTypeOK, Owned, Disjoint, Rings, Sleepers, Pending,
     NoReq, Buf, Desc

LEMMA SubmitStep ==
  ASSUME DriverInv, Exclusive, NEW p \in Proc, Submit(p)
  PROVE  DriverInv'
<1> USE DEF DriverInv, Pending
<1>1a. PICK a, b, c \in free :
        /\ Lowest(a, b, c)
        /\ free' = free \ {a, b, c}
        /\ idx' = [idx EXCEPT ![p] = {a, b, c}]
        /\ head' = [head EXCEPT ![p] = a]
        /\ req' = [req EXCEPT ![a] = [buf |-> iob[p], write |-> iow[p]]]
        /\ avail' = avail \union {a}
  BY DEF Submit
<1>1b. a \in Nat /\ b \in Nat /\ c \in Nat
  BY DEF DiskTypeOK, Desc
<1>1. /\ a # b /\ a # c /\ b # c
      /\ free' = free \ {a, b, c}
      /\ idx' = [idx EXCEPT ![p] = {a, b, c}]
      /\ head' = [head EXCEPT ![p] = a]
      /\ req' = [req EXCEPT ![a] = [buf |-> iob[p], write |-> iow[p]]]
      /\ avail' = avail \union {a}
  BY <1>1a, <1>1b DEF Lowest
<1>2. /\ bdisk' = [bdisk EXCEPT ![iob[p]] = 1] /\ io' = [io EXCEPT ![p] = "wait"]
      /\ UNCHANGED <<platter, used, irq, vlock, iob, iow>> /\ io[p] = "alloc"
  BY DEF Submit, callVars
<1>3. a \notin avail \union used
  <2> SUFFICES ASSUME a \in avail \union used PROVE FALSE
    OBVIOUS
  <2>1. PICK q \in Proc : io[q] \in Pending /\ a = head[q]
    BY DEF Rings
  <2>2. a \in idx[q] /\ a \in free
    BY <2>1 DEF Owned
  <2> QED
    BY <2>2 DEF Disjoint
<1>3a. ASSUME NEW q \in Proc \ {p}, io[q] \in Pending PROVE head[q] # a
  <2>1. head[q] \in idx[q]
    BY <1>3a DEF Owned
  <2> QED
    BY <2>1 DEF Disjoint
<1>4. DiskTypeOK'
  BY <1>1, <1>2 DEF DiskTypeOK
<1>5. Owned'
  BY <1>1, <1>2 DEF DiskTypeOK, Owned, Disjoint
<1>6. Disjoint'
  BY <1>1, <1>2 DEF DiskTypeOK, Owned, Disjoint
<1>7. Rings'
  <2>1. (avail \intersect used)' = {}
    BY <1>1, <1>2, <1>3 DEF Rings
  <2>2. \A q \in Proc \ {p} : io'[q] = io[q] /\ head'[q] = head[q] /\ iob'[q] = iob[q]
    BY <1>1, <1>2
  <2>3. io'[p] = "wait" /\ head'[p] = a /\ iob'[p] = iob[p] /\ iob[p] \in Buf /\ bdisk'[iob[p]] = 1
    BY <1>1, <1>2 DEF DiskTypeOK
  <2>4. \A q \in Proc \ {p} : io[q] \in Pending => bdisk'[iob[q]] = bdisk[iob[q]]
    BY <1>2 DEF DiskTypeOK, Exclusive
  <2>5. \A d \in avail' \union used' : \E q \in Proc : io'[q] \in Pending /\ d = head'[q]
    BY <1>1, <1>2, <2>2, <2>3 DEF Rings
  <2>6. \A q \in Proc : io'[q] \in Pending =>
          (bdisk'[iob'[q]] = 1 <=> head'[q] \in avail' \union used')
    BY <1>1, <1>2, <1>3a, <2>2, <2>3, <2>4 DEF Rings
  <2> QED
    BY <2>1, <2>5, <2>6 DEF Rings
<1>8. Sleepers'
  BY <1>1, <1>2 DEF DiskTypeOK, Sleepers, Exclusive, Three
<1> QED
  BY <1>4, <1>5, <1>6, <1>7, <1>8

LEMMA FinishStep ==
  ASSUME DriverInv, Exclusive, NEW p \in Proc, Finish(p)
  PROVE  DriverInv'
<1> USE DEF DriverInv, Pending
<1>1. /\ io[p] = "test" /\ bdisk[iob[p]] = 0
      /\ free' = free \union idx[p]
      /\ idx' = [idx EXCEPT ![p] = {}]
      /\ head' = [head EXCEPT ![p] = 0]
      /\ req' = [req EXCEPT ![head[p]] = NoReq]
      /\ io' = WakeAllocators(p, "done")
      /\ UNCHANGED <<platter, avail, used, bdisk, irq, vlock, iob, iow>>
  BY DEF Finish, Done, FreeChain, callVars
<1>2. 0 \in Desc /\ NoReq \in [buf : Buf, write : {0, 1}]
  BY DiskAssumption DEF Desc, Buf, NoReq
<1>4. DiskTypeOK'
  BY <1>1, <1>2 DEF DiskTypeOK, WakeAllocators
<1>3. \A q \in Proc \ {p} : io[q] \in Pending => head[q] # head[p]
  BY <1>1 DEF Owned, Disjoint
<1>3a. \A q \in Proc \ {p} : io'[q] \in Pending <=> io[q] \in Pending
  BY <1>1 DEF WakeAllocators
<1>3b. io'[p] \notin Pending
  BY <1>1 DEF WakeAllocators
<1>5. Owned'
  BY <1>1, <1>3, <1>3a, <1>3b DEF DiskTypeOK, Owned
<1>6. Disjoint'
  <2>1. \A d \in Desc : d \notin free' => \E q \in Proc : d \in idx'[q]
    BY <1>1 DEF DiskTypeOK, Disjoint
  <2>2. \A q \in Proc : idx'[q] \intersect free' = {}
    BY <1>1 DEF DiskTypeOK, Disjoint
  <2> QED
    BY <1>1, <2>1, <2>2 DEF DiskTypeOK, Disjoint
<1>7. Rings'
  <2>1. head[p] \notin avail \union used
    BY <1>1 DEF Rings
  <2>2. \A q \in Proc \ {p} : head'[q] = head[q]
    BY <1>1 DEF DiskTypeOK
  <2>3. \A d \in avail' \union used' : \E q \in Proc : io'[q] \in Pending /\ d = head'[q]
    <3> SUFFICES ASSUME NEW d \in avail \union used
                 PROVE  \E q \in Proc : io'[q] \in Pending /\ d = head'[q]
      BY <1>1
    <3>1. PICK q \in Proc : io[q] \in Pending /\ d = head[q]
      BY DEF Rings
    <3>2. q # p
      BY <2>1, <3>1
    <3> QED
      BY <1>3a, <2>2, <3>1, <3>2
  <2>4. \A q \in Proc : io'[q] \in Pending =>
          (bdisk'[iob'[q]] = 1 <=> head'[q] \in avail' \union used')
    BY <1>1, <1>3a, <1>3b, <2>2 DEF Rings
  <2> QED
    BY <1>1, <2>3, <2>4 DEF Rings
<1>8. Sleepers'
  BY <1>1 DEF DiskTypeOK, Sleepers, WakeAllocators
<1> QED
  BY <1>4, <1>5, <1>6, <1>7, <1>8

\* The other steps on behalf of a process.
LEMMA CallStep ==
  ASSUME DriverInv, NEW p \in Proc, NEW b \in Buf, NEW w \in {0, 1},
         (io[p] = "none" /\ Rw(p, b, w)) \/ AllocFails(p) \/ StillBusy(p) \/ Disturb(p) \/ RwDone(p)
  PROVE  DriverInv'
<1> USE DEF DriverInv, Pending, ringVars, callVars
<1>0. 1 \in Buf
  BY DiskAssumption DEF Buf
<1>1. CASE io[p] = "none" /\ Rw(p, b, w)
  BY <1>1 DEF Rw, DiskTypeOK, Owned, Disjoint, Rings, Sleepers, Three
<1>2. CASE AllocFails(p)
  BY <1>2, SMTT(30) DEF AllocFails, WakeAllocators, DiskTypeOK, Owned, Disjoint, Rings, Sleepers, Three
<1>3. CASE StillBusy(p)
  BY <1>3 DEF StillBusy, Done, DiskTypeOK, Owned, Disjoint, Rings, Sleepers, Three
<1>4. CASE Disturb(p)
  BY <1>4 DEF Disturb, DiskTypeOK, Owned, Disjoint, Rings, Sleepers, Three
<1>5. CASE RwDone(p)
  BY <1>0, <1>5 DEF RwDone, DiskTypeOK, Owned, Disjoint, Rings, Sleepers, Three
<1> QED
  BY <1>1, <1>2, <1>3, <1>4, <1>5

\* The device and the interrupt handler.
LEMMA InterruptSteps ==
  ASSUME DriverInv, Exclusive, Interrupt
  PROVE  DriverInv'
<1> USE DEF DriverInv, Pending, ringVars, callVars
<1>1. CASE IntrAck
  BY <1>1 DEF IntrAck, DiskTypeOK, Owned, Disjoint, Rings, Sleepers, Three
<1>2. CASE IntrEnd
  BY <1>2 DEF IntrEnd, DiskTypeOK, Owned, Disjoint, Rings, Sleepers, Three
<1>3. ASSUME NEW d \in Desc, IntrEntry(d)
      PROVE  DriverInv'
  <2>1. PICK p \in Proc : io[p] \in Pending /\ d = head[p]
    BY <1>3 DEF IntrEntry, Rings
  <2>2. /\ req[d].buf = iob[p] /\ used' = used \ {d} /\ bdisk' = [bdisk EXCEPT ![iob[p]] = 0]
        /\ io' = [q \in Proc |-> IF io[q] = "wait" /\ iob[q] = iob[p] THEN "test" ELSE io[q]]
        /\ UNCHANGED <<platter, free, idx, head, req, avail, irq, vlock, iob, iow>>
        /\ vlock = "intr" /\ d \in used
    <3>0. req[d] = [buf |-> iob[p], write |-> iow[p]]
      BY <2>1 DEF Owned
    <3>1. req[d].buf = iob[p]
      BY <3>0
    <3> QED
      BY <1>3, <3>1 DEF IntrEntry
  <2>3. DiskTypeOK'
    BY <2>1, <2>2 DEF DiskTypeOK
  <2>4. Owned' /\ Disjoint'
    BY <2>1, <2>2 DEF DiskTypeOK, Owned, Disjoint
  <2>5. Rings'
    <3>1. \A q \in Proc \ {p} : io[q] \in Pending => head[q] # d /\ iob[q] # iob[p]
      BY <2>1 DEF Owned, Disjoint, Exclusive
    <3>2. \A q \in Proc : io'[q] \in Pending <=> io[q] \in Pending
      BY <2>2
    <3>3. d \notin avail
      BY <2>2 DEF Rings
    <3>4. \A e \in avail' \union used' : \E q \in Proc : io'[q] \in Pending /\ e = head'[q]
      BY <2>2, <3>2 DEF Rings
    <3>5. \A q \in Proc : io'[q] \in Pending =>
            (bdisk'[iob'[q]] = 1 <=> head'[q] \in avail' \union used')
      BY <2>1, <2>2, <3>1, <3>2, <3>3 DEF DiskTypeOK, Rings
    <3> QED
      BY <2>2, <3>4, <3>5 DEF Rings
  <2>6. Sleepers'
    BY <2>1, <2>2 DEF DiskTypeOK, Sleepers, Three
  <2> QED
    BY <2>3, <2>4, <2>5, <2>6
<1> QED
  BY <1>1, <1>2, <1>3 DEF Interrupt

LEMMA ServeStep ==
  ASSUME DriverInv, NEW d \in Desc, Serve(d),
         data \in [Buf -> Val], blockno[req[d].buf] \in Block
  PROVE  DriverInv' /\ data' \in [Buf -> Val]
<1> USE DEF DriverInv, Pending, ringVars, callVars
<1>1. /\ d \in avail /\ avail' = avail \ {d} /\ used' = used \union {d} /\ irq' = 1
      /\ UNCHANGED <<free, idx, head, req, bdisk, vlock, io, iob, iow>>
  BY DEF Serve
<1>2. platter' \in [Block -> Val] /\ data' \in [Buf -> Val]
  <2>1. platter \in [Block -> Val] /\ req[d].buf \in Buf
    BY DEF DiskTypeOK
  <2>2. CASE req[d].write = 1
    BY <2>1, <2>2 DEF Serve
  <2>3. CASE req[d].write # 1
    BY <2>1, <2>3 DEF Serve
  <2> QED
    BY <2>2, <2>3
<1>3. DiskTypeOK'
  BY <1>1, <1>2 DEF DiskTypeOK
<1>4. Owned' /\ Disjoint' /\ Sleepers'
  BY <1>1 DEF Owned, Disjoint, Sleepers, Three
<1>5. Rings'
  BY <1>1 DEF Rings
<1> QED
  BY <1>2, <1>3, <1>4, <1>5

-----------------------------------------------------------------------------
(* The cache: the parts of the invariant.                                  *)

CacheTypes ==
  /\ data \in [Buf -> Val]
  /\ blockno \in [Buf -> Block \union {NoBlock}]
  /\ valid \in [Buf -> {0, 1}]
  /\ owner \in [Buf -> Proc \union {Nobody}]
  /\ lru \in [Buf -> Buf]
  /\ pc \in [Proc -> PC]
  /\ buf \in [Proc -> Buf]
  /\ job \in [Proc -> Job]
  /\ pinned \subseteq Block
  /\ panicked \in {0, 1}

\* Where a caller holds the sleep lock of its buffer.
Locks == \A p \in Proc, b \in Buf : owner[b] = p <=> pc[p] \in Locked /\ buf[p] = b

\* Where a caller is in the driver, and with what.
InDriver ==
  \A p \in Proc :
    /\ io[p] # "none" <=> pc[p] \in InIO
    /\ io[p] # "none" => iob[p] = buf[p]
    /\ pc[p] = "fill" => iow[p] = 0
    /\ pc[p] = "write" => iow[p] = 1

\* A buffer in use or pinned has a block.
InUse == \A p \in Proc : pc[p] # "idle" => blockno[buf[p]] \in Block
PinsCached == \A k \in pinned : Cached(k)

\* One installation at a time, of a block that stays pinned to its end.
Installing(p) == pc[p] # "idle" /\ job[p] = "install"
Installs ==
  /\ \A p \in Proc : pc[p] = "bunpin" => job[p] = "install"
  /\ \A p, q \in Proc : Installing(p) /\ Installing(q) => p = q
  /\ \A p \in Proc : Installing(p) /\ pc[p] \notin {"brelse", "put"} => blockno[buf[p]] \in pinned

Counts == refcnt \in [Buf -> Nat] /\ RefcountsExact

CountInv == CacheTypes /\ Locks /\ InDriver /\ InUse /\ PinsCached /\ Installs /\ Counts /\ OneCopy

\* Steps of the driver, the device and the interrupt handler.
DriverSteps ==
  \/ InterruptStep \/ DeviceStep
  \/ \E p \in Proc : DriverStep(p) \/ DisturbStep(p)

\* A reference more or less.
LEMMA UsersFinite ==
  \A b \in Buf : /\ IsFiniteSet(Users(b)) /\ Cardinality(Users(b)) \in Nat
                 /\ Cardinality(Users(b)) = 0 <=> Users(b) = {}
<1> SUFFICES ASSUME NEW b \in Buf
             PROVE  /\ IsFiniteSet(Users(b)) /\ Cardinality(Users(b)) \in Nat
                    /\ Cardinality(Users(b)) = 0 <=> Users(b) = {}
  OBVIOUS
<1>1. Users(b) \in SUBSET Proc
  BY DEF Users
<1>2. IsFiniteSet(Users(b))
  BY <1>1, FS_Subset, CacheAssumption
<1> QED
  BY <1>2, FS_CardinalityType, FS_EmptySet

LEMMA InitCount == Init => CountInv
<1> SUFFICES ASSUME Init PROVE CountInv
  OBVIOUS
<1> USE DiskAssumption, CacheAssumption
<1>1. CacheTypes
  BY DEF Init, CacheTypes, PC, Job, Buf
<1>2. Locks /\ InDriver /\ InUse /\ PinsCached /\ Installs
  BY DEF Init, DiskInit, Locks, InDriver, InIO, InUse, PinsCached, Installs, Installing, Locked, PC, Buf
<1>3. Counts
  <2>1. \A b \in Buf : Users(b) = {}
    BY DEF Init, Users
  <2> QED
    BY <2>1, FS_EmptySet DEF Init, Counts, RefcountsExact
<1>4. OneCopy
  <2>1. \A b \in Buf : NBUF + 1 - b \in Buf /\ NBUF + 1 - (NBUF + 1 - b) = b
    BY DEF Buf
  <2> QED
    BY <2>1 DEF Init, OneCopy
<1> QED
  BY <1>1, <1>2, <1>3, <1>4 DEF CountInv

\* The steps that leave reference counts, blocks and pins alone: p goes from
\* one place in its call to another.
Moves(p) ==
  AcquireSleep(p) \/ Hit(p) \/ Fill(p) \/ Filled(p) \/ Read(p) \/ (\E v \in Val : Modify(p, v))
  \/ Install(p) \/ Bwrite(p) \/ Written(p) \/ ReleaseSleep(p)

\* What bget() does on a hit and on a miss.
Takes(p, k, j, b) ==
  /\ pc[p] = "idle" /\ Allowed(p, k, j) /\ k \in Block /\ j \in Job /\ b \in Buf
  /\ pc' = [pc EXCEPT ![p] = "lock"] /\ buf' = [buf EXCEPT ![p] = b] /\ job' = [job EXCEPT ![p] = j]
  /\ UNCHANGED <<data, diskVars, owner, lru, pinned, panicked>>
Found(p, k, j, b) ==
  /\ Takes(p, k, j, b) /\ blockno[b] = k
  /\ refcnt' = [refcnt EXCEPT ![b] = @ + 1] /\ UNCHANGED <<blockno, valid>>
Recycled(p, k, j, b) ==
  /\ Takes(p, k, j, b) /\ ~Cached(k) /\ Unused(b)
  /\ blockno' = [blockno EXCEPT ![b] = k] /\ valid' = [valid EXCEPT ![b] = 0]
  /\ refcnt' = [refcnt EXCEPT ![b] = 1]

LEMMA StartIs ==
  ASSUME NEW p \in Proc, NEW k \in Block, NEW j \in Job, Start(p, k, j)
  PROVE  \E b \in Buf : Found(p, k, j, b) \/ Recycled(p, k, j, b)
  BY DEF Start, Found, Recycled, Takes, Victim, Goto

-----------------------------------------------------------------------------
(* The cache: reference counts.                                            *)

LEMMA MoveCount ==
  ASSUME CountInv, DiskTypeOK, NEW p \in Proc, Moves(p)
  PROVE  CountInv'
<1> USE DEF CountInv
<1>1. /\ UNCHANGED <<blockno, refcnt, lru, buf, job, pinned, panicked>>
      /\ \E l \in PC \ {"idle"} : pc' = [pc EXCEPT ![p] = l] /\ pc[p] # "idle"
  BY DEF Moves, AcquireSleep, Hit, Fill, Filled, Read, Modify, Install, Bwrite, Written,
     ReleaseSleep, Goto, bufVars, PC
<1>2. CacheTypes'
  <2>1. data' \in [Buf -> Val]
    BY DEF Moves, AcquireSleep, Hit, Fill, Filled, Read, Modify, Install, Bwrite, Written,
       ReleaseSleep, CacheTypes
  <2>2. valid' \in [Buf -> {0, 1}] /\ owner' \in [Buf -> Proc \union {Nobody}]
    BY DEF Moves, AcquireSleep, Hit, Fill, Filled, Read, Modify, Install, Bwrite, Written,
       ReleaseSleep, CacheTypes, bufVars
  <2> QED
    BY <1>1, <2>1, <2>2 DEF CacheTypes
<1>3. Locks'
  BY DiskAssumption DEF Moves, AcquireSleep, Hit, Fill, Filled, Read, Modify, Install, Bwrite,
     Written, ReleaseSleep, Goto, bufVars, Locks, Locked, PC, CacheTypes
<1>4. InDriver'
  <2> USE DEF DiskTypeOK, InDriver, InIO, CacheTypes
  <2>1. CASE Fill(p)
    BY <1>1, <2>1 DEF Fill, Rw, Goto
  <2>2. CASE Bwrite(p)
    BY <1>1, <2>2 DEF Bwrite, Rw, Goto
  <2>3. CASE Filled(p) \/ Written(p)
    BY <1>1, <2>3 DEF Filled, Written, RwDone, Goto
  <2>4. CASE ~Fill(p) /\ ~Bwrite(p) /\ ~Filled(p) /\ ~Written(p)
    <3>1. UNCHANGED <<io, iob, iow, buf>>
      BY <2>4 DEF Moves, AcquireSleep, Hit, Read, Modify, Install, ReleaseSleep, diskVars, callVars
    <3>2. pc[p] \notin InIO /\ \E l \in PC \ InIO : pc' = [pc EXCEPT ![p] = l]
      BY <2>4 DEF Moves, AcquireSleep, Hit, Read, Modify, Install, ReleaseSleep, Goto, PC
    <3> QED
      BY <3>1, <3>2
  <2> QED
    BY <2>1, <2>2, <2>3, <2>4
<1>5. InUse' /\ PinsCached' /\ OneCopy'
  BY <1>1 DEF InUse, PinsCached, Cached, OneCopy, CacheTypes
<1>6. Installs'
  BY DEF Moves, AcquireSleep, Hit, Fill, Filled, Read, Modify, Install, Bwrite, Written,
     ReleaseSleep, Goto, bufVars, Installs, Installing, CacheTypes
<1>7. Counts'
  <2>1. \A b \in Buf : Users(b)' = Users(b)
    BY <1>1 DEF Users, CacheTypes
  <2> QED
    BY <1>1, <2>1 DEF Counts, RefcountsExact
<1> QED
  BY <1>2, <1>3, <1>4, <1>5, <1>6, <1>7

LEMMA DriverCount ==
  ASSUME CountInv, data' \in [Buf -> Val], DriverSteps
  PROVE  CountInv'
<1> USE DEF CountInv
<1>1. UNCHANGED <<bufVars, procVars, pinned, panicked, callVars>>
  BY DEF DriverSteps, InterruptStep, DeviceStep, DriverStep, DisturbStep, Interrupt, IntrAck,
     IntrEnd, IntrEntry, Device, Serve, Driver, AllocFails, Submit, StillBusy, Finish, Disturb
<1>2. \A q \in Proc : io'[q] # "none" <=> io[q] # "none"
  <2>1. CASE InterruptStep \/ DeviceStep
    BY <2>1 DEF InterruptStep, DeviceStep, Interrupt, IntrAck, IntrEnd, IntrEntry, Device, Serve
  <2>2. ASSUME NEW p \in Proc, DriverStep(p) \/ DisturbStep(p)
        PROVE  \A q \in Proc : io'[q] # "none" <=> io[q] # "none"
    <3>1. CASE AllocFails(p)
      BY <3>1 DEF AllocFails, WakeAllocators
    <3>2. CASE Submit(p)
      BY <3>2 DEF Submit
    <3>3. CASE StillBusy(p)
      BY <3>3 DEF StillBusy
    <3>4. CASE Finish(p)
      BY <3>4 DEF Finish, FreeChain, WakeAllocators
    <3>5. CASE Disturb(p)
      BY <3>5 DEF Disturb
    <3> QED
      BY <2>2, <3>1, <3>2, <3>3, <3>4, <3>5 DEF DriverStep, DisturbStep, Driver
  <2> QED
    BY <2>1, <2>2 DEF DriverSteps
<1>3. \A b \in Buf : Users(b)' = Users(b)
  BY <1>1 DEF Users, procVars
<1> QED
  BY <1>1, <1>2, <1>3 DEF CacheTypes, Locks, InDriver, InUse, PinsCached, Cached, Installs,
     Installing, Counts, RefcountsExact, OneCopy, bufVars, procVars, callVars

LEMMA TakeUsers ==
  ASSUME CountInv, NEW p \in Proc, NEW k, NEW j, NEW b, Takes(p, k, j, b)
  PROVE  /\ Users(b)' = Users(b) \union {p} /\ p \notin Users(b)
         /\ \A c \in Buf \ {b} : Users(c)' = Users(c)
  BY DEF CountInv, Takes, Users, CacheTypes

LEMMA FoundCount ==
  ASSUME CountInv, NEW p \in Proc, NEW k, NEW j, NEW b, Found(p, k, j, b)
  PROVE  CountInv'
<1> USE DEF CountInv
<1>1. Takes(p, k, j, b) /\ b \in Buf /\ blockno[b] = k /\ k \in Block
      /\ refcnt' = [refcnt EXCEPT ![b] = @ + 1] /\ UNCHANGED <<blockno, valid>>
  BY DEF Found, Takes
<1>2. CacheTypes'
  BY <1>1 DEF Takes, CacheTypes, PC
<1>3. Locks' /\ InDriver'
  BY <1>1 DEF Takes, Locks, Locked, InDriver, InIO, CacheTypes, diskVars, callVars, PC
<1>4. InUse' /\ PinsCached' /\ OneCopy'
  BY <1>1 DEF Takes, InUse, PinsCached, Cached, OneCopy, CacheTypes
<1>5. Installs'
  BY <1>1 DEF Takes, Allowed, Installs, Installing, CacheTypes
<1>6. Counts'
  <2>1. Cardinality(Users(b))' = Cardinality(Users(b)) + 1 /\ Cardinality(Users(b)) \in Nat
    BY <1>1, TakeUsers, UsersFinite, FS_AddElement
  <2>2. \A c \in Buf \ {b} : Cardinality(Users(c))' = Cardinality(Users(c))
    BY <1>1, TakeUsers
  <2>3. pinned' = pinned
    BY <1>1 DEF Takes
  <2> QED
    BY <1>1, <2>1, <2>2, <2>3 DEF Counts, RefcountsExact
<1> QED
  BY <1>2, <1>3, <1>4, <1>5, <1>6

LEMMA UnusedIs ==
  ASSUME CountInv, NEW b \in Buf, Unused(b)
  PROVE  Users(b) = {} /\ blockno[b] \notin pinned
<1>1. refcnt[b] = 0 /\ Cardinality(Users(b)) \in Nat
  BY UsersFinite DEF Unused
<1>2. Cardinality(Users(b)) = 0 /\ blockno[b] \notin pinned
  BY <1>1 DEF CountInv, Counts, RefcountsExact
<1> QED
  BY <1>2, UsersFinite

LEMMA RecycledCount ==
  ASSUME CountInv, NEW p \in Proc, NEW k, NEW j, NEW b, Recycled(p, k, j, b)
  PROVE  CountInv'
<1> USE DEF CountInv
<1>1. /\ Takes(p, k, j, b) /\ b \in Buf /\ k \in Block /\ ~Cached(k)
      /\ refcnt' = [refcnt EXCEPT ![b] = 1] /\ blockno' = [blockno EXCEPT ![b] = k]
      /\ valid' = [valid EXCEPT ![b] = 0]
  BY DEF Recycled, Takes
<1>2. Users(b) = {} /\ blockno[b] \notin pinned
  BY <1>1, UnusedIs DEF Recycled
<1>3. \A q \in Proc : pc[q] # "idle" => buf[q] # b
  BY <1>2 DEF Users
<1>4. k \notin pinned /\ pinned' = pinned
  BY <1>1 DEF PinsCached, Takes
<1>5. CacheTypes'
  BY <1>1 DEF Takes, CacheTypes, PC
<1>6. Locks' /\ InDriver'
  BY <1>1 DEF Takes, Locks, Locked, InDriver, InIO, CacheTypes, diskVars, callVars, PC
<1>7. InUse' /\ PinsCached'
  BY <1>1, <1>2, <1>3, <1>4 DEF Takes, InUse, PinsCached, Cached, CacheTypes
<1>8. OneCopy'
  BY <1>1 DEF Takes, Cached, OneCopy, CacheTypes
<1>9. Installs'
  <2>1. j # "install"
    BY <1>1, <1>4 DEF Takes, Allowed
  <2> QED
    BY <1>1, <1>3, <2>1 DEF Takes, Installs, Installing, CacheTypes
<1>10. Counts'
  <2>1. Cardinality(Users(b))' = 1
    <3>1. Users(b)' = {} \union {p}
      BY <1>1, <1>2, TakeUsers
    <3>2. Cardinality({} \union {p}) = 1
      BY FS_EmptySet, FS_AddElement
    <3> QED
      BY <3>1, <3>2
  <2>2. \A c \in Buf \ {b} : Cardinality(Users(c))' = Cardinality(Users(c))
    BY <1>1, TakeUsers
  <2> QED
    BY <1>1, <1>4, <2>1, <2>2 DEF Counts, RefcountsExact, CacheTypes
<1> QED
  BY <1>5, <1>6, <1>7, <1>8, <1>9, <1>10

LEMMA PinCount ==
  ASSUME CountInv, NEW p \in Proc, Pin(p) \/ Unpin(p)
  PROVE  CountInv'
<1> USE DEF CountInv
<1>0. /\ pc[p] \in {"bpin", "bunpin"} /\ pc' = [pc EXCEPT ![p] = "brelse"] /\ buf[p] \in Buf
      /\ UNCHANGED <<data, diskVars, blockno, valid, owner, lru, buf, job, panicked>>
  BY DEF Pin, Unpin, Goto, CacheTypes
<1>1. blockno[buf[p]] \in Block
  BY <1>0 DEF InUse
<1>2. \A b \in Buf : Users(b)' = Users(b)
  BY <1>0 DEF Users, CacheTypes
<1>3. pc[p] = "bunpin" => blockno[buf[p]] \in pinned
  BY DEF Installs, Installing
<1>4. \A b \in Buf \ {buf[p]} : blockno[b] # blockno[buf[p]]
  BY <1>0, <1>1, CacheAssumption DEF OneCopy
<1>5. CacheTypes'
  BY <1>0, <1>1 DEF Pin, Unpin, CacheTypes, PC
<1>6. Locks' /\ InDriver' /\ InUse' /\ OneCopy'
  BY <1>0 DEF Locks, Locked, InDriver, InIO, InUse, OneCopy, CacheTypes, diskVars, callVars, PC
<1>7. PinsCached'
  BY <1>0 DEF Pin, Unpin, PinsCached, Cached
<1>8. Installs'
  <2>1. \A q \in Proc \ {p} : Installing(q) /\ pc[p] = "bunpin" => FALSE
    BY DEF Installs, Installing
  <2> QED
    BY <1>0, <2>1 DEF Pin, Unpin, Installs, Installing, CacheTypes
<1>9. Counts'
  <2>1. \A b \in Buf : Cardinality(Users(b))' = Cardinality(Users(b)) /\ Cardinality(Users(b)) \in Nat
    BY <1>2, UsersFinite
  <2>2. CASE Pin(p)
    BY <1>0, <1>4, <2>1, <2>2 DEF Pin, Counts, RefcountsExact
  <2>3. CASE Unpin(p)
    BY <1>0, <1>3, <1>4, <2>1, <2>3 DEF Unpin, Counts, RefcountsExact
  <2> QED
    BY <2>2, <2>3
<1> QED
  BY <1>5, <1>6, <1>7, <1>8, <1>9

\* Moving a buffer to the head of the list loses none.
LEMMA FrontKeeps ==
  ASSUME NEW b \in Buf, lru \in [Buf -> Buf], \A c \in Buf : \E i \in Buf : lru[i] = c
  PROVE  Front(b) \in [Buf -> Buf] /\ \A c \in Buf : \E i \in Buf : Front(b)[i] = c
<1> USE DiskAssumption DEF Buf
<1> DEFINE i == CHOOSE i \in Buf : lru[i] = b
<1>1. i \in Buf /\ lru[i] = b
  OBVIOUS
<1> HIDE DEF i
<1>2. Front(b) = [j \in Buf |-> IF j = 1 THEN b ELSE IF j <= i THEN lru[j - 1] ELSE lru[j]]
  BY DEF Front, i
<1>3. Front(b) \in [Buf -> Buf]
  <2>1. \A j \in Buf : (IF j = 1 THEN b ELSE IF j <= i THEN lru[j - 1] ELSE lru[j]) \in Buf
    <3> TAKE j \in Buf
    <3>1. j # 1 => j - 1 \in Buf
      OBVIOUS
    <3>2. lru[j] \in Buf /\ (j # 1 => lru[j - 1] \in Buf)
      BY <3>1
    <3> QED
      BY <3>2
  <2> QED
    BY <1>2, <2>1
<1>4. ASSUME NEW c \in Buf PROVE \E m \in Buf : Front(b)[m] = c
  <2>1. PICK m \in Buf : lru[m] = c
    OBVIOUS
  <2>2. CASE c = b
    <3>1. 1 \in Buf /\ Front(b)[1] = b
      BY <1>2
    <3> QED
      BY <2>2, <3>1
  <2>3. CASE c # b /\ m < i
    <3>1. m + 1 \in Buf /\ Front(b)[m + 1] = lru[m]
      BY <1>1, <1>2, <2>3
    <3> QED
      BY <2>1, <3>1
  <2>4. CASE c # b /\ m > i
    <3>1. Front(b)[m] = lru[m]
      BY <1>1, <1>2, <2>4
    <3> QED
      BY <2>1, <3>1
  <2> QED
    BY <1>1, <2>1, <2>2, <2>3, <2>4
<1> QED
  BY <1>3, <1>4

LEMMA PutCount ==
  ASSUME CountInv, NEW p \in Proc, Put(p)
  PROVE  CountInv'
<1> USE DEF CountInv
<1>0. /\ pc[p] = "put" /\ buf[p] \in Buf /\ pc' = [pc EXCEPT ![p] = "idle"]
      /\ buf' = [buf EXCEPT ![p] = 1] /\ job' = [job EXCEPT ![p] = "read"]
      /\ refcnt' = [refcnt EXCEPT ![buf[p]] = @ - 1]
      /\ UNCHANGED <<data, diskVars, blockno, valid, owner, pinned, panicked>>
  BY DEF Put, Goto, CacheTypes
<1>1. 1 \in Buf
  BY DiskAssumption DEF Buf
<1>2. lru' \in [Buf -> Buf] /\ \A c \in Buf : \E i \in Buf : lru'[i] = c
  <2>1. lru' = Front(buf[p]) \/ lru' = lru
    BY DEF Put
  <2>2. lru \in [Buf -> Buf] /\ \A c \in Buf : \E i \in Buf : lru[i] = c
    BY DEF CacheTypes, OneCopy
  <2>3. /\ Front(buf[p]) \in [Buf -> Buf]
        /\ \A c \in Buf : \E i \in Buf : Front(buf[p])[i] = c
    BY <1>0, <2>2, FrontKeeps
  <2> HIDE DEF CountInv
  <2> QED
    BY <2>1, <2>2, <2>3
<1>3. CacheTypes'
  BY <1>0, <1>1, <1>2 DEF CacheTypes, PC, Job
<1>4. Locks' /\ InDriver' /\ InUse' /\ PinsCached' /\ Installs'
  BY <1>0 DEF Locks, Locked, InDriver, InIO, InUse, PinsCached, Cached, Installs, Installing,
     CacheTypes, diskVars, callVars, PC
<1>5. OneCopy'
  BY <1>0, <1>2 DEF OneCopy
<1>6. Counts'
  <2> SUFFICES ASSUME NEW b \in Buf, b = buf[p] PROVE Counts'
    BY <1>0
  <2>1. Users(b)' = Users(b) \ {p} /\ p \in Users(b)
    BY <1>0 DEF Users, CacheTypes
  <2>2. \A c \in Buf \ {b} : Cardinality(Users(c))' = Cardinality(Users(c))
    <3>1. \A c \in Buf \ {b} : Users(c)' = Users(c)
      BY <1>0 DEF Users, CacheTypes
    <3> QED
      BY <3>1
  <2>3. /\ Cardinality(Users(b))' = Cardinality(Users(b)) - 1
        /\ Cardinality(Users(b)) \in Nat \ {0}
    BY <1>0, <2>1, UsersFinite, FS_RemoveElement, ZenonT(40)
  <2>4. refcnt' = [refcnt EXCEPT ![b] = @ - 1] /\ UNCHANGED <<blockno, pinned>>
    BY <1>0
  <2> QED
    BY <2>2, <2>3, <2>4 DEF Counts, RefcountsExact
<1> QED
  BY <1>3, <1>4, <1>5, <1>6
-----------------------------------------------------------------------------
(* The two together.                                                       *)

IInv == DriverInv /\ CountInv

\* A buffer is locked by the process whose request it is in.
LEMMA OneRequest == IInv => Exclusive
<1> SUFFICES ASSUME IInv, NEW p \in Proc, NEW q \in Proc, p # q, io[p] # "none", io[q] # "none"
             PROVE  iob[p] # iob[q]
  BY DEF Exclusive
<1>1. /\ pc[p] \in Locked /\ iob[p] = buf[p] /\ buf[p] \in Buf
      /\ pc[q] \in Locked /\ iob[q] = buf[q] /\ buf[q] \in Buf
  BY DEF IInv, CountInv, InDriver, InIO, Locked, PC, CacheTypes
<1>2. owner[buf[p]] = p /\ owner[buf[q]] = q
  BY <1>1 DEF IInv, CountInv, Locks
<1> QED
  BY <1>1, <1>2

LEMMA DriverKept == DriverInv /\ UNCHANGED diskVars => DriverInv'
  BY DEF DriverInv, DiskTypeOK, Owned, Disjoint, Rings, Sleepers, Three, Pending, diskVars, ringVars,
     callVars

LEMMA MoveDriver ==
  ASSUME IInv, NEW p \in Proc, Moves(p)
  PROVE  DriverInv'
<1>1. DriverInv /\ buf[p] \in Buf
  BY DEF IInv, CountInv, CacheTypes
<1>2. CASE Fill(p)
  <2>1. io[p] = "none" /\ Rw(p, buf[p], 0)
    BY <1>2 DEF Fill, IInv, CountInv, InDriver, InIO
  <2> QED
    BY <1>1, <2>1, CallStep
<1>3. CASE Bwrite(p)
  <2>1. io[p] = "none" /\ Rw(p, buf[p], 1)
    BY <1>3 DEF Bwrite, IInv, CountInv, InDriver, InIO
  <2> QED
    BY <1>1, <2>1, CallStep
<1>4. CASE Filled(p) \/ Written(p)
  <2>1. RwDone(p)
    BY <1>4 DEF Filled, Written
  <2>2. 0 \in {0, 1}
    OBVIOUS
  <2> QED
    BY <1>1, <2>1, <2>2, CallStep
<1>5. CASE ~Fill(p) /\ ~Bwrite(p) /\ ~Filled(p) /\ ~Written(p)
  <2>1. UNCHANGED diskVars
    BY <1>5 DEF Moves, AcquireSleep, Hit, Read, Modify, Install, ReleaseSleep
  <2> QED
    BY <1>1, <2>1, DriverKept
<1> QED
  BY <1>2, <1>3, <1>4, <1>5

LEMMA DriverStepsKeep ==
  ASSUME IInv, DriverSteps
  PROVE  DriverInv' /\ data' \in [Buf -> Val]
<1>1. DriverInv /\ Exclusive /\ data \in [Buf -> Val] /\ 1 \in Buf /\ 0 \in {0, 1}
  BY OneRequest, DiskAssumption DEF IInv, CountInv, CacheTypes, Buf
<1>2. CASE InterruptStep
  BY <1>1, <1>2, InterruptSteps DEF InterruptStep
<1>3. ASSUME NEW p \in Proc, DriverStep(p) \/ DisturbStep(p)
      PROVE  DriverInv' /\ data' \in [Buf -> Val]
  <2>1. UNCHANGED data /\ (Submit(p) \/ Finish(p) \/ AllocFails(p) \/ StillBusy(p) \/ Disturb(p))
    BY <1>3 DEF DriverStep, DisturbStep, Driver
  <2>2. CASE Submit(p)
    BY <1>1, <2>1, <2>2, SubmitStep
  <2>3. CASE Finish(p)
    BY <1>1, <2>1, <2>3, FinishStep
  <2>4. CASE AllocFails(p) \/ StillBusy(p) \/ Disturb(p)
    BY <1>1, <2>1, <2>4, CallStep
  <2> QED
    BY <2>1, <2>2, <2>3, <2>4
<1>4. ASSUME NEW d \in Desc, Serve(d)
      PROVE  DriverInv' /\ data' \in [Buf -> Val]
  <2>1. d \in avail
    BY <1>4 DEF Serve
  <2>2. PICK p \in Proc : io[p] \in Pending /\ d = head[p]
    BY <1>1, <2>1 DEF DriverInv, Rings
  <2>3. req[d] = [buf |-> iob[p], write |-> iow[p]]
    BY <1>1, <2>2 DEF DriverInv, Owned
  <2>4. req[d].buf = buf[p] /\ pc[p] # "idle"
    BY <2>2, <2>3 DEF IInv, CountInv, InDriver, InIO, Pending
  <2>5. blockno[req[d].buf] \in Block
    BY <2>4 DEF IInv, CountInv, InUse
  <2> QED
    BY <1>1, <1>4, <2>5, ServeStep
<1>5. CASE DeviceStep
  BY <1>4, <1>5 DEF DeviceStep, Device
<1> QED
  BY <1>2, <1>3, <1>5 DEF DriverSteps

\* The steps, sorted.
LEMMA NextIs ==
  ASSUME Next
  PROVE  \/ DriverSteps
         \/ \E p \in Proc : Moves(p) \/ Pin(p) \/ Unpin(p) \/ Put(p)
         \/ \E p \in Proc, k \in Block : NoBuffers(p, k)
         \/ \E p \in Proc, k \in Block, j \in Job, b \in Buf : Found(p, k, j, b) \/ Recycled(p, k, j, b)
<1>1. Running
  BY DEF Next
<1>2. CASE InterruptStep \/ DeviceStep
  BY <1>2 DEF DriverSteps
<1>3. ASSUME NEW p \in Proc, NEW k \in Block, NEW j \in Job, Start(p, k, j)
      PROVE  \E b \in Buf : Found(p, k, j, b) \/ Recycled(p, k, j, b)
  BY <1>3, StartIs
<1>4. ASSUME NEW p \in Proc, Cache(p)
      PROVE  Moves(p) \/ Pin(p) \/ Unpin(p) \/ Put(p)
  BY <1>4 DEF Cache, Moves
<1>5. ASSUME NEW p \in Proc, DriverStep(p) \/ DisturbStep(p)
      PROVE  DriverSteps
  BY <1>5 DEF DriverSteps
<1> QED
  BY <1>1, <1>2, <1>3, <1>4, <1>5 DEF Running

LEMMA InitInv == Init => IInv
  BY InitDriver, InitCount DEF Init, IInv

LEMMA NextInv == IInv /\ [Next]_vars => IInv'
<1> SUFFICES ASSUME IInv, [Next]_vars PROVE IInv'
  OBVIOUS
<1>0. DriverInv /\ CountInv /\ DiskTypeOK
  BY DEF IInv, DriverInv
<1>1. CASE DriverSteps
  BY <1>0, <1>1, DriverStepsKeep, DriverCount DEF IInv
<1>2. ASSUME NEW p \in Proc, Moves(p) PROVE IInv'
  BY <1>0, <1>2, MoveDriver, MoveCount DEF IInv
<1>3. ASSUME NEW p \in Proc, Pin(p) \/ Unpin(p) PROVE IInv'
  <2>1. UNCHANGED diskVars
    BY <1>3 DEF Pin, Unpin
  <2> QED
    BY <1>0, <1>3, <2>1, PinCount, DriverKept DEF IInv
<1>4. ASSUME NEW p \in Proc, Put(p) PROVE IInv'
  <2>1. UNCHANGED diskVars
    BY <1>4 DEF Put
  <2> QED
    BY <1>0, <1>4, <2>1, PutCount, DriverKept DEF IInv
<1>5. ASSUME NEW p \in Proc, NEW k \in Block, NoBuffers(p, k) PROVE IInv'
  <2>1. UNCHANGED <<data, diskVars, bufVars, procVars, pinned>> /\ panicked' = 1
    BY <1>5 DEF NoBuffers
  <2>2. \A b \in Buf : Users(b)' = Users(b)
    BY <2>1 DEF Users, procVars
  <2>3. CountInv'
    BY <1>0, <2>1, <2>2 DEF CountInv, CacheTypes, Locks, InDriver, InUse, PinsCached, Cached,
       Installs, Installing, Counts, RefcountsExact, OneCopy, bufVars, procVars, diskVars, callVars
  <2> QED
    BY <1>0, <2>1, <2>3, DriverKept DEF IInv
<1>6. ASSUME NEW p \in Proc, NEW k \in Block, NEW j \in Job, NEW b \in Buf,
             Found(p, k, j, b) \/ Recycled(p, k, j, b)
      PROVE  IInv'
  <2>1. UNCHANGED diskVars
    BY <1>6 DEF Found, Recycled, Takes
  <2> QED
    BY <1>0, <1>6, <2>1, FoundCount, RecycledCount, DriverKept DEF IInv
<1>7. CASE UNCHANGED vars
  <2>1. UNCHANGED <<data, diskVars, bufVars, procVars, pinned, panicked>>
    BY <1>7 DEF vars
  <2>2. \A b \in Buf : Users(b)' = Users(b)
    BY <2>1 DEF Users, procVars
  <2>3. CountInv'
    BY <1>0, <2>1, <2>2 DEF CountInv, CacheTypes, Locks, InDriver, InUse, PinsCached, Cached,
       Installs, Installing, Counts, RefcountsExact, OneCopy, bufVars, procVars, diskVars, callVars
  <2> QED
    BY <1>0, <2>1, <2>3, DriverKept DEF IInv
<1> QED
  BY <1>1, <1>2, <1>3, <1>4, <1>5, <1>6, <1>7, NextIs

THEOREM Invariant == Spec => []IInv
  BY InitInv, NextInv, PTL DEF Spec

-----------------------------------------------------------------------------
(* The theorems.                                                           *)

\* Every variable of bio.c and virtio_disk.c keeps its type: among others, no
\* reference count goes below zero in bunpin() or brelse().
THEOREM TypeCorrect == Spec => []TypeOK
<1>1. IInv => TypeOK
  BY DEF IInv, DriverInv, CountInv, CacheTypes, Counts, TypeOK
<1> QED
  BY <1>1, Invariant, PTL

\* Descriptors are neither shared, nor freed twice, nor lost, and what the
\* device holds is the request of a process that still waits for it, however
\* many processes share the descriptors of virtio_disk_rw().
THEOREM RequestsAreKept == Spec => []Requests
<1>1. IInv => Requests
  BY DriverSafe DEF IInv
<1> QED
  BY <1>1, Invariant, PTL

\* virtio_disk_intr() loses no completion, and free_desc() no wakeup.
THEOREM CompletionsAreKept == Spec => []NoLostCompletion
<1>1. IInv => NoLostCompletion
  BY DriverSafe DEF IInv
<1> QED
  BY <1>1, Invariant, PTL

\* The reference counts of bget(), bpin(), bunpin() and brelse() are exact and
\* a block is in at most one buffer, for any number of callers and buffers.
THEOREM BuffersAreExact == Spec => []BuffersExact
<1>1. IInv => BuffersExact
  BY DEF IInv, CountInv, Counts, BuffersExact
<1> QED
  BY <1>1, Invariant, PTL
-----------------------------------------------------------------------------
(* The cache implements the block store: what the invariant lacks.         *)

Single(bn) == \A b, c \in Buf : bn[b] = bn[c] /\ bn[b] \in Block => b = c

\* The driver is done with the data of p's request, served by the device.
Answered(p) == io[p] = "done" \/ (io[p] \in Pending /\ head[p] \notin avail)
Agrees(b) == data[b] = platter[blockno[b]]

\* A caller has valid data, and one that fills a buffer does not.
Valid ==
  \A p \in Proc : /\ pc[p] \in Having => valid[buf[p]] = 1
                  /\ pc[p] = "fill" => valid[buf[p]] = 0

\* The buffer and the disk agree when a request has been served, and until an
\* installed block is unpinned.
Served ==
  \A p \in Proc : (pc[p] \in InIO /\ Answered(p)) \/ pc[p] = "bunpin" => Agrees(buf[p])

\* They also agree when nobody has the change still to write.
Writing(b) == \E p \in Proc : pc[p] \in {"bpin", "bwrite", "write"} /\ buf[p] = b
Clean ==
  \A b \in Buf :
    valid[b] = 1 /\ blockno[b] \in Block \ pinned /\ ~Writing(b) => Agrees(b)

StoreInv == Valid /\ Served /\ Clean

\* Two callers inside the sleep lock have two buffers, and two blocks.
LEMMA Apart ==
  ASSUME CountInv, NEW p \in Proc, NEW q \in Proc, p # q, pc[p] \in Locked, pc[q] \in Locked
  PROVE  buf[p] # buf[q] /\ blockno[buf[p]] # blockno[buf[q]] /\ blockno[buf[p]] \in Block
<1>1. buf[p] \in Buf /\ buf[q] \in Buf /\ pc[p] # "idle" /\ pc[q] # "idle"
  BY DEF CountInv, CacheTypes, Locked, PC
<1>2. owner[buf[p]] = p /\ owner[buf[q]] = q
  BY <1>1 DEF CountInv, Locks
<1>3. blockno[buf[p]] \in Block /\ blockno[buf[q]] \in Block
  BY <1>1 DEF CountInv, InUse
<1> QED
  BY <1>1, <1>2, <1>3, CacheAssumption DEF CountInv, OneCopy

LEMMA InitStoreInv == Init => StoreInv
  BY DEF Init, DiskInit, StoreInv, Valid, Served, Clean, InIO, Having, Locked, PC, Buf

\* Steps that leave buffers and disk alone and let nobody get past a point
\* where they must agree.
LEMMA QuietKeeps ==
  ASSUME StoreInv, CountInv, UNCHANGED <<data, platter, blockno, valid, pinned>>,
         \A q \in Proc : pc'[q] \in Having =>
           buf'[q] = buf[q] /\ (pc[q] \in Having \/ valid[buf[q]] = 1),
         \A q \in Proc : pc'[q] = "fill" =>
           buf'[q] = buf[q] /\ (pc[q] = "fill" \/ valid[buf[q]] = 0),
         \A q \in Proc : (pc'[q] \in InIO /\ Answered(q)') \/ pc'[q] = "bunpin" =>
           buf'[q] = buf[q] /\ ((pc[q] \in InIO /\ Answered(q)) \/ pc[q] = "bunpin"),
         \A q \in Proc : pc[q] \in {"bpin", "bwrite", "write"} =>
           buf'[q] = buf[q] /\ (pc'[q] \in {"bpin", "bwrite", "write"} \/ Agrees(buf[q])
                                \/ blockno[buf[q]] \in pinned)
  PROVE  StoreInv'
<1>1. Valid'
  BY DEF StoreInv, Valid
<1>2. \A b : Agrees(b)' <=> Agrees(b)
  BY DEF Agrees
<1>3. Served'
  BY <1>2 DEF StoreInv, Served
<1>4. Clean'
  <2> SUFFICES ASSUME NEW b \in Buf, valid[b] = 1, blockno[b] \in Block \ pinned, ~Writing(b)'
               PROVE  Agrees(b)
    BY <1>2 DEF Clean
  <2>1. CASE Writing(b)
    <3>1. PICK q \in Proc : pc[q] \in {"bpin", "bwrite", "write"} /\ buf[q] = b
      BY <2>1 DEF Writing
    <3>2. pc'[q] \notin {"bpin", "bwrite", "write"}
      BY <3>1 DEF Writing
    <3> QED
      BY <3>1, <3>2
  <2>2. CASE ~Writing(b)
    BY <2>2 DEF StoreInv, Clean
  <2> QED
    BY <2>1, <2>2
<1> QED
  BY <1>1, <1>3, <1>4 DEF StoreInv
-----------------------------------------------------------------------------
(* What a caller sees.                                                     *)

StoreOf(d, bn, v, pl) == [k \in Block |->
  IF \E b \in Buf : bn[b] = k /\ v[b] = 1
  THEN d[CHOOSE b \in Buf : bn[b] = k /\ v[b] = 1]
  ELSE pl[k]]
HolderOf(c, h, bn) == [k \in Block |->
  IF \E p \in Proc : c[p] \in Having /\ bn[h[p]] = k
  THEN CHOOSE p \in Proc : c[p] \in Having /\ bn[h[p]] = k
  ELSE Nobody]

LEMMA StoreAt ==
  \A d, bn, v, pl : \A k \in Block :
    /\ (\A b \in Buf : ~(bn[b] = k /\ v[b] = 1)) => StoreOf(d, bn, v, pl)[k] = pl[k]
    /\ \A b \in Buf :
         /\ bn[b] = k /\ v[b] = 1
         /\ \A c \in Buf : bn[c] = k /\ v[c] = 1 => c = b
         => StoreOf(d, bn, v, pl)[k] = d[b]
  BY DEF StoreOf

LEMMA HolderAt ==
  \A c, h, bn : \A k \in Block :
    /\ (\A p \in Proc : ~(c[p] \in Having /\ bn[h[p]] = k)) => HolderOf(c, h, bn)[k] = Nobody
    /\ \A p \in Proc :
         /\ c[p] \in Having /\ bn[h[p]] = k
         /\ \A q \in Proc : c[q] \in Having /\ bn[h[q]] = k => q = p
         => HolderOf(c, h, bn)[k] = p
  BY DEF HolderOf

LEMMA ViewIs ==
  /\ Store = StoreOf(data, blockno, valid, platter)
  /\ Holder = HolderOf(pc, buf, blockno)
  BY DEF Store, Holder, StoreOf, HolderOf

LEMMA ViewNext ==
  /\ Store' = StoreOf(data', blockno', valid', platter')
  /\ Holder' = HolderOf(pc', buf', blockno')
  BY DEF Store, Holder, StoreOf, HolderOf

LEMMA SoleHolder ==
  ASSUME CountInv, NEW p \in Proc, pc[p] \in Having
  PROVE  /\ blockno[buf[p]] \in Block /\ Holder[blockno[buf[p]]] = p
         /\ \A q \in Proc : pc[q] \in Having /\ blockno[buf[q]] = blockno[buf[p]] => q = p
<1>1. \A q \in Proc : pc[q] \in Having /\ blockno[buf[q]] = blockno[buf[p]] => q = p
  BY Apart DEF Having
<1>2. blockno[buf[p]] \in Block
  BY DEF CountInv, InUse, Having, Locked, PC
<1> HIDE DEF CountInv
<1> QED
  BY <1>1, <1>2, HolderAt, ViewIs

LEMMA SoleBuffer ==
  ASSUME CountInv, NEW b \in Buf, blockno[b] \in Block
  PROVE  /\ \A c \in Buf : blockno[c] = blockno[b] => c = b
         /\ valid[b] = 1 => Store[blockno[b]] = data[b]
         /\ valid[b] # 1 => Store[blockno[b]] = platter[blockno[b]]
<1>1. \A c \in Buf : blockno[c] = blockno[b] => c = b
  BY CacheAssumption DEF CountInv, OneCopy
<1> QED
  BY <1>1, StoreAt, ViewIs

\* Who holds which block changes only with the set of callers past bread().
LEMMA SameHolder ==
  ASSUME CountInv,
         \A q \in Proc : pc'[q] \in Having <=> pc[q] \in Having,
         \A q \in Proc : pc[q] \in Having => buf'[q] = buf[q] /\ blockno'[buf[q]] = blockno[buf[q]]
  PROVE  Holder' = Holder
<1>1. ASSUME NEW k \in Block PROVE Holder'[k] = Holder[k]
  <2>1. CASE \E p \in Proc : pc[p] \in Having /\ blockno[buf[p]] = k
    <3>1. PICK p \in Proc : pc[p] \in Having /\ blockno[buf[p]] = k
      BY <2>1
    <3>2. \A q \in Proc : pc[q] \in Having /\ blockno[buf[q]] = k => q = p
      BY <3>1, SoleHolder
    <3>3. Holder[k] = p
      BY <3>1, SoleHolder
    <3>4. /\ pc'[p] \in Having /\ blockno'[buf'[p]] = k
          /\ \A q \in Proc : pc'[q] \in Having /\ blockno'[buf'[q]] = k => q = p
      BY <3>1, <3>2
    <3> QED
      BY <3>3, <3>4, HolderAt, ViewNext
  <2>2. CASE \A p \in Proc : ~(pc[p] \in Having /\ blockno[buf[p]] = k)
    <3>1. \A p \in Proc : ~(pc'[p] \in Having /\ blockno'[buf'[p]] = k)
      BY <2>2
    <3> QED
      BY <2>2, <3>1, HolderAt, ViewIs, ViewNext
  <2> QED
    BY <2>1, <2>2
<1> QED
  BY <1>1 DEF Holder

LEMMA SameStore == UNCHANGED <<data, platter, blockno, valid>> => Store' = Store
  BY DEF Store

Mapped == [Abstract!StoreNext]_<<Store, Holder>>

\* bread() returns: p becomes the holder.
LEMMA TakeMaps ==
  ASSUME CountInv, NEW p \in Proc, Store' = Store, pc[p] \in Locked \ Having,
         \A q \in Proc : pc'[q] \in Having <=> pc[q] \in Having \/ q = p,
         \A q \in Proc : buf'[q] = buf[q] /\ blockno'[buf[q]] = blockno[buf[q]]
  PROVE  Mapped
<1> SUFFICES ASSUME NEW k, k = blockno[buf[p]] PROVE Mapped
  OBVIOUS
<1>1. k \in Block /\ \A q \in Proc \ {p} : pc[q] \in Having => blockno[buf[q]] # k
  <2>1. pc[p] # "idle"
    BY DEF Locked
  <2> QED
    BY <2>1, Apart DEF CountInv, InUse, Having
<1>3. Holder[k] = Nobody
  BY <1>1, HolderAt, ViewIs
<1>4. Holder'[k] = p
  <2>1. pc'[p] \in Having /\ blockno'[buf'[p]] = k
    OBVIOUS
  <2>2. \A q \in Proc : pc'[q] \in Having /\ blockno'[buf'[q]] = k => q = p
    BY <1>1
  <2> QED
    BY <1>1, <2>1, <2>2, HolderAt, ViewNext
<1>5. ASSUME NEW m \in Block \ {k} PROVE Holder'[m] = Holder[m]
  <2>1. CASE \E q \in Proc : pc[q] \in Having /\ blockno[buf[q]] = m
    <3>1. PICK q \in Proc : pc[q] \in Having /\ blockno[buf[q]] = m
      BY <2>1
    <3>2. \A r \in Proc : pc[r] \in Having /\ blockno[buf[r]] = m => r = q
      BY <3>1, SoleHolder
    <3>3. \A r \in Proc : pc'[r] \in Having /\ blockno'[buf'[r]] = m => r = q
      BY <3>2
    <3>4. pc'[q] \in Having /\ blockno'[buf'[q]] = m
      BY <3>1
    <3> QED
      BY <3>1, <3>2, <3>3, <3>4, HolderAt, ViewIs, ViewNext
  <2>2. CASE \A q \in Proc : ~(pc[q] \in Having /\ blockno[buf[q]] = m)
    <3>1. \A q \in Proc : ~(pc'[q] \in Having /\ blockno'[buf'[q]] = m)
      BY <2>2
    <3> QED
      BY <2>2, <3>1, HolderAt, ViewIs, ViewNext
  <2> QED
    BY <2>1, <2>2
<1>6. Holder' = [Holder EXCEPT ![k] = p]
  <2>1. Holder = [m \in Block |-> Holder[m]] /\ Holder' = [m \in Block |-> Holder'[m]]
    BY ViewIs, ViewNext DEF HolderOf
  <2> QED
    BY <1>4, <1>5, <2>1
<1>7. Abstract!Take(p, k)
  BY <1>3, <1>6 DEF Abstract!Take
<1> QED
  BY <1>1, <1>7 DEF Mapped, Abstract!StoreNext

\* releasesleep() in brelse().
LEMMA ReleaseMaps ==
  ASSUME CountInv, NEW p \in Proc, Store' = Store, pc[p] \in Having,
         \A q \in Proc : pc'[q] \in Having <=> pc[q] \in Having /\ q # p,
         \A q \in Proc : buf'[q] = buf[q] /\ blockno'[buf[q]] = blockno[buf[q]]
  PROVE  Mapped
<1> SUFFICES ASSUME NEW k, k = blockno[buf[p]] PROVE Mapped
  OBVIOUS
<1>1. /\ k \in Block /\ Holder[k] = p
      /\ \A q \in Proc : pc[q] \in Having /\ blockno[buf[q]] = k => q = p
  BY SoleHolder
<1>3. Holder'[k] = Nobody
  <2>1. \A q \in Proc : ~(pc'[q] \in Having /\ blockno'[buf'[q]] = k)
    BY <1>1
  <2> QED
    BY <1>1, <2>1, HolderAt, ViewNext
<1>4. ASSUME NEW m \in Block \ {k} PROVE Holder'[m] = Holder[m]
  <2>1. CASE \E q \in Proc : pc[q] \in Having /\ blockno[buf[q]] = m
    <3>1. PICK q \in Proc : pc[q] \in Having /\ blockno[buf[q]] = m
      BY <2>1
    <3>2. \A r \in Proc : pc[r] \in Having /\ blockno[buf[r]] = m => r = q
      BY <3>1, SoleHolder
    <3>3. \A r \in Proc : pc'[r] \in Having /\ blockno'[buf'[r]] = m => r = q
      BY <3>2
    <3>4. pc'[q] \in Having /\ blockno'[buf'[q]] = m
      BY <3>1
    <3> QED
      BY <3>1, <3>2, <3>3, <3>4, HolderAt, ViewIs, ViewNext
  <2>2. CASE \A q \in Proc : ~(pc[q] \in Having /\ blockno[buf[q]] = m)
    <3>1. \A q \in Proc : ~(pc'[q] \in Having /\ blockno'[buf'[q]] = m)
      BY <2>2
    <3> QED
      BY <2>2, <3>1, HolderAt, ViewIs, ViewNext
  <2> QED
    BY <2>1, <2>2
<1>5. Holder' = [Holder EXCEPT ![k] = Nobody]
  <2>1. Holder = [m \in Block |-> Holder[m]] /\ Holder' = [m \in Block |-> Holder'[m]]
    BY ViewIs, ViewNext DEF HolderOf
  <2> QED
    BY <1>3, <1>4, <2>1
<1>6. Abstract!Release(p, k)
  BY <1>1, <1>5 DEF Abstract!Release
<1> QED
  BY <1>1, <1>6 DEF Mapped, Abstract!StoreNext
-----------------------------------------------------------------------------
(* The cache implements the block store: the steps.                        *)

LEMMA StoreExt ==
  /\ (\A k \in Block : Store'[k] = Store[k]) => Store' = Store
  /\ \A v : \A k \in Block : Store'[k] = v /\ (\A m \in Block \ {k} : Store'[m] = Store[m])
       => Store' = [Store EXCEPT ![k] = v]
<1>1. Store = [k \in Block |-> Store[k]] /\ Store' = [k \in Block |-> Store'[k]]
  BY ViewIs, ViewNext DEF StoreOf
<1> QED
  BY <1>1

LEMMA StoreNextAt ==
  ASSUME NEW k \in Block, NEW b \in Buf, blockno'[b] = k, valid'[b] = 1,
         \A c \in Buf : blockno'[c] = k => c = b
  PROVE  Store'[k] = data'[b]
  BY StoreAt, ViewNext

LEMMA StoreKeptAt ==
  ASSUME CountInv, NEW k \in Block,
         \A c \in Buf : blockno'[c] = k /\ valid'[c] = 1 <=> blockno[c] = k /\ valid[c] = 1,
         \A c \in Buf : blockno[c] = k /\ valid[c] = 1 => data'[c] = data[c],
         platter'[k] = platter[k] \/ \E c \in Buf : blockno[c] = k /\ valid[c] = 1
  PROVE  Store'[k] = Store[k]
<1>1. CASE \E b \in Buf : blockno[b] = k /\ valid[b] = 1
  <2>1. PICK b \in Buf : blockno[b] = k /\ valid[b] = 1
    BY <1>1
  <2>2. Store[k] = data[b] /\ \A c \in Buf : blockno[c] = k => c = b
    BY <2>1, SoleBuffer
  <2>3. /\ blockno'[b] = k /\ valid'[b] = 1
        /\ \A c \in Buf : blockno'[c] = k /\ valid'[c] = 1 => c = b
    BY <2>1, <2>2
  <2>4. Store'[k] = data'[b]
    BY <2>3, StoreAt, ViewNext
  <2> QED
    BY <2>1, <2>2, <2>4
<1>2. CASE \A b \in Buf : ~(blockno[b] = k /\ valid[b] = 1)
  <2>1. \A b \in Buf : ~(blockno'[b] = k /\ valid'[b] = 1)
    BY <1>2
  <2>2. Store'[k] = platter'[k] /\ Store[k] = platter[k]
    BY <1>2, <2>1, StoreAt, ViewIs, ViewNext
  <2> QED
    BY <1>2, <2>2
<1> QED
  BY <1>1, <1>2

\* A step of p that leaves buffers and disk alone, inside its call.
LEMMA QuietMove ==
  ASSUME IInv, StoreInv, NEW p \in Proc, NEW l \in PC, pc[p] # "idle",
         UNCHANGED <<data, platter, blockno, valid, buf, pinned, head, avail>>,
         pc' = [pc EXCEPT ![p] = l],
         \A q \in Proc \ {p} : io'[q] = io[q],
         l \in Having => valid[buf[p]] = 1,
         l = "fill" => valid[buf[p]] = 0,
         l \in InIO => io'[p] = "alloc",
         l = "bunpin" => Agrees(buf[p]),
         pc[p] \in {"bpin", "bwrite", "write"} =>
           l \in {"bpin", "bwrite", "write"} \/ Agrees(buf[p]) \/ blockno[buf[p]] \in pinned
  PROVE  StoreInv'
<1>1. pc'[p] = l /\ \A q \in Proc \ {p} : pc'[q] = pc[q]
  BY DEF IInv, CountInv, CacheTypes
<1>2. Valid'
  BY <1>1 DEF StoreInv, Valid
<1>3. \A b : Agrees(b)' <=> Agrees(b)
  BY DEF Agrees
<1>4. \A q \in Proc \ {p} : Answered(q)' <=> Answered(q)
  BY DEF Answered
<1>5. l \in InIO => ~Answered(p)'
  BY DEF Answered, Pending
<1>6. Served'
  BY <1>1, <1>3, <1>4, <1>5 DEF StoreInv, Served
<1>7. Clean'
  <2> SUFFICES ASSUME NEW b \in Buf, valid[b] = 1, blockno[b] \in Block \ pinned, ~Writing(b)'
               PROVE  Agrees(b)
    BY <1>3 DEF Clean
  <2>1. CASE Writing(b)
    <3>1. PICK q \in Proc : pc[q] \in {"bpin", "bwrite", "write"} /\ buf[q] = b
      BY <2>1 DEF Writing
    <3>2. pc'[q] \notin {"bpin", "bwrite", "write"}
      BY <3>1 DEF Writing
    <3> QED
      BY <1>1, <3>1, <3>2
  <2>2. CASE ~Writing(b)
    BY <2>2 DEF StoreInv, Clean
  <2> QED
    BY <2>1, <2>2
<1> QED
  BY <1>2, <1>6, <1>7 DEF StoreInv

LEMMA QuietMapped ==
  ASSUME CountInv, UNCHANGED <<data, platter, blockno, valid>>,
         \A q \in Proc : pc'[q] \in Having <=> pc[q] \in Having,
         \A q \in Proc : pc[q] \in Having => buf'[q] = buf[q]
  PROVE  Mapped
<1>1. Store' = Store
  BY SameStore
<1>2. Holder' = Holder
  BY SameHolder
<1> QED
  BY <1>1, <1>2 DEF Mapped

LEMMA FilledMaps ==
  ASSUME IInv, StoreInv, NEW p \in Proc, Filled(p)
  PROVE  StoreInv' /\ Mapped
<1> SUFFICES ASSUME NEW b, b = buf[p] PROVE StoreInv' /\ Mapped
  OBVIOUS
<1>1. /\ CountInv /\ pc[p] = "fill" /\ pc' = [pc EXCEPT ![p] = "have"]
      /\ valid' = [valid EXCEPT ![b] = 1] /\ io[p] = "done" /\ io' = [io EXCEPT ![p] = "none"]
      /\ UNCHANGED <<data, platter, blockno, buf, pinned, head, avail>>
      /\ b \in Buf
  BY DEF Filled, RwDone, Goto, ringVars, IInv, CountInv, CacheTypes
<1>2. /\ pc'[p] = "have" /\ valid'[b] = 1
      /\ \A q \in Proc \ {p} : pc'[q] = pc[q]
      /\ \A c \in Buf \ {b} : valid'[c] = valid[c]
  BY <1>1 DEF IInv, CountInv, CacheTypes
<1>3. Agrees(b) /\ valid[b] = 0
  BY <1>1 DEF StoreInv, Served, Valid, Answered, InIO
<1>4. blockno[b] \in Block
  BY <1>1 DEF CountInv, InUse
<1>5. \A q \in Proc \ {p} : pc[q] \in Locked => buf[q] # b /\ buf[q] \in Buf
  BY <1>1, Apart DEF CountInv, CacheTypes, Locked, PC
<1>6. Valid'
  BY <1>1, <1>2, <1>5 DEF StoreInv, Valid, Having, Locked, PC
<1>7. \A c : Agrees(c)' <=> Agrees(c)
  BY <1>1 DEF Agrees
<1>8. Served'
  <2>1. \A q \in Proc \ {p} : Answered(q)' <=> Answered(q)
    BY <1>1 DEF Answered
  <2> QED
    BY <1>1, <1>2, <1>7, <2>1 DEF StoreInv, Served, InIO
<1>9. Clean'
  <2>1. \A c \in Buf : Writing(c) => Writing(c)'
    BY <1>1, <1>2 DEF Writing
  <2> QED
    BY <1>1, <1>2, <1>3, <1>7, <2>1 DEF StoreInv, Clean
<1>10. Store' = Store
  <2>1. ASSUME NEW k \in Block, k # blockno[b] PROVE Store'[k] = Store[k]
    BY <1>1, <1>2, <2>1, StoreKeptAt
  <2>2. Store[blockno[b]] = platter[blockno[b]]
    BY <1>1, <1>3, <1>4, SoleBuffer
  <2>3. \A c \in Buf : blockno'[c] = blockno[b] => c = b
    BY <1>1, <1>4, SoleBuffer
  <2>4. Store'[blockno[b]] = data[b]
    <3>1. Store'[blockno[b]] = data'[b]
      <4>1. blockno'[b] = blockno[b] /\ valid'[b] = 1
        BY <1>1, <1>2
      <4> QED
        BY <1>1, <1>4, <2>3, <4>1, StoreNextAt
    <3> QED
      BY <1>1, <3>1
  <2> QED
    BY <1>3, <2>1, <2>2, <2>4, StoreExt DEF Agrees
<1>11. Mapped
  <2>1. pc[p] \in Locked \ Having
    BY <1>1 DEF Locked, Having, PC
  <2>2. \A q \in Proc : pc'[q] \in Having <=> pc[q] \in Having \/ q = p
    BY <1>2 DEF Having, Locked, PC
  <2>3. \A q \in Proc : buf'[q] = buf[q] /\ blockno'[buf[q]] = blockno[buf[q]]
    BY <1>1
  <2> QED
    BY <1>1, <1>10, <2>1, <2>2, <2>3, TakeMaps
<1> QED
  BY <1>6, <1>8, <1>9, <1>11 DEF StoreInv

LEMMA ModifyMaps ==
  ASSUME IInv, StoreInv, NEW p \in Proc, NEW v \in Val, Modify(p, v)
  PROVE  StoreInv' /\ Mapped
<1> SUFFICES ASSUME NEW b, b = buf[p] PROVE StoreInv' /\ Mapped
  OBVIOUS
<1>1. /\ CountInv /\ pc[p] = "have" /\ data' = [data EXCEPT ![b] = v]
      /\ \E l \in {"bwrite", "bpin"} : pc' = [pc EXCEPT ![p] = l]
      /\ UNCHANGED <<platter, blockno, valid, buf, pinned, head, avail, io>>
      /\ b \in Buf
  BY DEF Modify, Goto, diskVars, ringVars, bufVars, IInv, CountInv, CacheTypes
<1>2. /\ pc'[p] \in {"bwrite", "bpin"} /\ data'[b] = v
      /\ \A q \in Proc \ {p} : pc'[q] = pc[q]
      /\ \A c \in Buf \ {b} : data'[c] = data[c]
  BY <1>1 DEF IInv, CountInv, CacheTypes
<1>3. valid[b] = 1
  BY <1>1 DEF StoreInv, Valid, Having, Locked, PC
<1>4. blockno[b] \in Block
  BY <1>1 DEF CountInv, InUse
<1>5. \A q \in Proc \ {p} : pc[q] \in Locked => buf[q] # b /\ buf[q] \in Buf
  BY <1>1, Apart DEF CountInv, CacheTypes, Locked, PC
<1>6. Valid'
  BY <1>1, <1>2, <1>3 DEF StoreInv, Valid
<1>7. \A c \in Buf \ {b} : Agrees(c)' <=> Agrees(c)
  BY <1>1, <1>2 DEF Agrees
<1>8. Served'
  <2>1. \A q \in Proc \ {p} : Answered(q)' <=> Answered(q)
    BY <1>1 DEF Answered
  <2>2. pc'[p] \notin InIO /\ pc'[p] # "bunpin"
    BY <1>2 DEF InIO
  <2>3. \A q \in Proc : pc[q] \in InIO \/ pc[q] = "bunpin" => pc[q] \in Locked
    BY DEF InIO, Locked, PC
  <2> QED
    BY <1>1, <1>2, <1>5, <1>7, <2>1, <2>2, <2>3 DEF StoreInv, Served
<1>9. Clean'
  <2>1. Writing(b)' /\ \A c \in Buf : Writing(c) => Writing(c)'
    BY <1>1, <1>2 DEF Writing
  <2> QED
    BY <1>1, <1>2, <1>7, <2>1 DEF StoreInv, Clean
<1>10. Store' = [Store EXCEPT ![blockno[b]] = v]
  <2>1. ASSUME NEW k \in Block \ {blockno[b]} PROVE Store'[k] = Store[k]
    BY <1>1, <1>2, <2>1, StoreKeptAt
  <2>2. \A c \in Buf : blockno'[c] = blockno[b] => c = b
    BY <1>1, <1>4, SoleBuffer
  <2>3. Store'[blockno[b]] = v
    <3>1. blockno'[b] = blockno[b] /\ valid'[b] = 1
      BY <1>1, <1>3
    <3> QED
      BY <1>1, <1>2, <1>4, <2>2, <3>1, StoreNextAt
  <2> QED
    BY <1>4, <2>1, <2>3, StoreExt
<1>11. Mapped
  <2>1. \A q \in Proc : pc'[q] \in Having <=> pc[q] \in Having
    BY <1>1, <1>2 DEF Having, Locked, PC
  <2>2. Holder' = Holder
    BY <1>1, <2>1, SameHolder
  <2>3. Holder[blockno[b]] = p
    BY <1>1, SoleHolder DEF Having, Locked, PC
  <2>4. Abstract!Write(p, blockno[b], v)
    BY <1>10, <2>2, <2>3 DEF Abstract!Write
  <2> QED
    BY <1>4, <2>4 DEF Mapped, Abstract!StoreNext
<1> QED
  BY <1>6, <1>8, <1>9, <1>11 DEF StoreInv
LEMMA MoveMaps ==
  ASSUME IInv, StoreInv, NEW p \in Proc, Moves(p)
  PROVE  StoreInv' /\ Mapped
<1>0. CountInv /\ pc \in [Proc -> PC] /\ io \in [Proc -> {"none", "alloc", "full", "wait", "test", "done"}]
  BY DEF IInv, DriverInv, DiskTypeOK, CountInv, CacheTypes
<1>1. CASE Filled(p)
  BY <1>1, FilledMaps
<1>2. CASE \E v \in Val : Modify(p, v)
  BY <1>2, ModifyMaps
<1>3. CASE AcquireSleep(p) \/ Fill(p) \/ Read(p) \/ Install(p) \/ Bwrite(p) \/ Written(p)
  <2>1. /\ UNCHANGED <<data, platter, blockno, valid, buf, pinned, head, avail>>
        /\ \A q \in Proc \ {p} : io'[q] = io[q]
    <3>1. CASE AcquireSleep(p) \/ Read(p) \/ Install(p)
      BY <3>1 DEF AcquireSleep, Read, Install, diskVars, ringVars, bufVars
    <3>2. CASE Fill(p) \/ Bwrite(p) \/ Written(p)
      BY <1>0, <3>2 DEF Fill, Bwrite, Written, Rw, RwDone, ringVars, bufVars
    <3> QED
      BY <1>3, <3>1, <3>2
  <2>2. CASE AcquireSleep(p)
    <3>1. pc[p] = "lock" /\ pc' = [pc EXCEPT ![p] = "bread"]
      BY <2>2 DEF AcquireSleep, Goto
    <3>2. StoreInv'
      BY <2>1, <3>1, QuietMove DEF Having, Locked, PC, InIO
    <3>3. \A q \in Proc : pc'[q] \in Having <=> pc[q] \in Having
      BY <1>0, <3>1 DEF Having, Locked, PC
    <3> QED
      BY <1>0, <2>1, <3>2, <3>3, QuietMapped
  <2>3. CASE Fill(p)
    <3>1. pc[p] = "bread" /\ pc' = [pc EXCEPT ![p] = "fill"] /\ valid[buf[p]] = 0 /\ io'[p] = "alloc"
      BY <1>0, <2>3 DEF Fill, Goto, Rw
    <3>2. StoreInv'
      BY <2>1, <3>1, QuietMove DEF Having, Locked, PC, InIO
    <3>3. \A q \in Proc : pc'[q] \in Having <=> pc[q] \in Having
      BY <1>0, <3>1 DEF Having, Locked, PC
    <3> QED
      BY <1>0, <2>1, <3>2, <3>3, QuietMapped
  <2>4. CASE Read(p) \/ Install(p) \/ Bwrite(p)
    <3>1. PICK l \in {"brelse", "bwrite", "write"} :
            /\ pc[p] \in {"have", "bwrite"} /\ pc' = [pc EXCEPT ![p] = l]
            /\ l = "write" => io'[p] = "alloc"
            /\ pc[p] = "bwrite" => l = "write"
      BY <1>0, <2>4 DEF Read, Install, Bwrite, Goto, Rw
    <3>2. valid[buf[p]] = 1
      BY <3>1 DEF StoreInv, Valid, Having, Locked, PC
    <3>3. l \in PC /\ l # "fill" /\ l # "bunpin" /\ pc[p] # "idle" /\ pc[p] # "bpin" /\ pc[p] # "write"
      BY <3>1 DEF PC
    <3>4. (l \in InIO => io'[p] = "alloc")
          /\ (pc[p] \in {"bpin", "bwrite", "write"} => l \in {"bpin", "bwrite", "write"})
      BY <3>1, <3>3 DEF InIO
    <3>5. StoreInv'
      BY <2>1, <3>1, <3>2, <3>3, <3>4, QuietMove
    <3>6. \A q \in Proc : pc'[q] \in Having <=> pc[q] \in Having
      BY <1>0, <3>1 DEF Having, Locked, PC
    <3> QED
      BY <1>0, <2>1, <3>5, <3>6, QuietMapped
  <2>5. CASE Written(p)
    <3>1. PICK l \in {"brelse", "bunpin"} :
            pc[p] = "write" /\ io[p] = "done" /\ pc' = [pc EXCEPT ![p] = l]
      BY <2>5 DEF Written, RwDone, Goto
    <3>2. valid[buf[p]] = 1 /\ Agrees(buf[p])
      BY <3>1 DEF StoreInv, Valid, Served, Answered, InIO, Having, Locked, PC
    <3>3. l \in PC /\ l # "fill" /\ l \notin InIO /\ pc[p] # "idle"
      BY <3>1 DEF PC, InIO
    <3>5. StoreInv'
      BY <2>1, <3>1, <3>2, <3>3, QuietMove
    <3>6. \A q \in Proc : pc'[q] \in Having <=> pc[q] \in Having
      BY <1>0, <3>1 DEF Having, Locked, PC
    <3> QED
      BY <1>0, <2>1, <3>5, <3>6, QuietMapped
  <2> QED
    BY <1>3, <2>2, <2>3, <2>4, <2>5
<1>4. CASE Hit(p)
  <2>1. /\ UNCHANGED <<data, platter, blockno, valid, buf, pinned, head, avail, io>>
        /\ pc[p] = "bread" /\ pc' = [pc EXCEPT ![p] = "have"] /\ valid[buf[p]] = 1
    BY <1>4 DEF Hit, Goto, diskVars, ringVars, bufVars
  <2>2. StoreInv'
    BY <2>1, QuietMove DEF PC, InIO
  <2>3. \A q \in Proc : pc'[q] \in Having <=> pc[q] \in Having \/ q = p
    BY <1>0, <2>1 DEF Having, Locked, PC
  <2>4. pc[p] \in Locked \ Having
    BY <2>1 DEF Having, Locked, PC
  <2>5. \A q \in Proc : buf'[q] = buf[q] /\ blockno'[buf[q]] = blockno[buf[q]]
    BY <2>1
  <2>6. Store' = Store
    BY <2>1, SameStore
  <2> QED
    BY <1>0, <2>2, <2>3, <2>4, <2>5, <2>6, TakeMaps
<1>5. CASE ReleaseSleep(p)
  <2>1. /\ UNCHANGED <<data, platter, blockno, valid, buf, pinned, head, avail, io>>
        /\ pc[p] = "brelse" /\ pc' = [pc EXCEPT ![p] = "put"]
    BY <1>5 DEF ReleaseSleep, Goto, diskVars, ringVars
  <2>2. StoreInv'
    BY <2>1, QuietMove DEF Having, Locked, PC, InIO
  <2>3. \A q \in Proc : pc'[q] \in Having <=> pc[q] \in Having /\ q # p
    BY <1>0, <2>1 DEF Having, Locked, PC
  <2>4. pc[p] \in Having
    BY <2>1 DEF Having, Locked, PC
  <2>5. \A q \in Proc : buf'[q] = buf[q] /\ blockno'[buf[q]] = blockno[buf[q]]
    BY <2>1
  <2>6. Store' = Store
    BY <2>1, SameStore
  <2> QED
    BY <1>0, <2>2, <2>3, <2>4, <2>5, <2>6, ReleaseMaps
<1> QED
  BY <1>1, <1>2, <1>3, <1>4, <1>5 DEF Moves

LEMMA PinMaps ==
  ASSUME IInv, StoreInv, NEW p \in Proc, Pin(p) \/ Unpin(p)
  PROVE  StoreInv' /\ Mapped
<1> SUFFICES ASSUME NEW b, b = buf[p] PROVE StoreInv' /\ Mapped
  OBVIOUS
<1>1. /\ CountInv /\ pc[p] \in {"bpin", "bunpin"} /\ pc' = [pc EXCEPT ![p] = "brelse"]
      /\ UNCHANGED <<data, platter, blockno, valid, buf, head, avail, io>>
      /\ b \in Buf /\ pc \in [Proc -> PC]
  BY DEF Pin, Unpin, Goto, diskVars, ringVars, IInv, CountInv, CacheTypes
<1>2. blockno[b] \in Block /\ \A c \in Buf \ {b} : blockno[c] # blockno[b]
  BY <1>1, SoleBuffer DEF CountInv, InUse
<1>3. \A c \in Buf \ {b} : blockno[c] \in pinned' <=> blockno[c] \in pinned
  BY <1>2 DEF Pin, Unpin
<1>4. pc[p] = "bpin" => blockno[b] \in pinned'
  BY DEF Pin, Unpin
<1>5. pc[p] = "bunpin" => Agrees(b)
  BY DEF StoreInv, Served
<1>6. \A c : Agrees(c)' <=> Agrees(c)
  BY <1>1 DEF Agrees
<1>7. Valid'
  BY <1>1 DEF StoreInv, Valid, Having, Locked, PC
<1>8. Served'
  <2>1. \A q \in Proc : Answered(q)' <=> Answered(q)
    BY <1>1 DEF Answered
  <2> QED
    BY <1>1, <1>6, <2>1 DEF StoreInv, Served, InIO
<1>9. Clean'
  <2>1. \A c \in Buf \ {b} : Writing(c) => Writing(c)'
    BY <1>1 DEF Writing
  <2>2. ASSUME valid[b] = 1, blockno[b] \notin pinned', ~Writing(b)' PROVE Agrees(b)
    BY <1>1, <1>4, <1>5, <2>2
  <2> QED
    BY <1>1, <1>3, <1>6, <2>1, <2>2 DEF StoreInv, Clean
<1>10. Mapped
  <2>1. \A q \in Proc : pc'[q] \in Having <=> pc[q] \in Having
    BY <1>1 DEF Having, Locked, PC
  <2> QED
    BY <1>1, <2>1, QuietMapped
<1> QED
  BY <1>7, <1>8, <1>9, <1>10 DEF StoreInv

\* The ends of a call: bget() on a hit, and the end of brelse().
LEMMA EndMaps ==
  ASSUME CountInv, StoreInv, NEW p \in Proc, NEW l \in {"idle", "lock"}, pc[p] \in {"idle", "put"},
         pc' = [pc EXCEPT ![p] = l], \A q \in Proc \ {p} : buf'[q] = buf[q],
         UNCHANGED <<data, diskVars, blockno, valid, pinned>>
  PROVE  StoreInv' /\ Mapped
<1>1. pc'[p] = l /\ \A q \in Proc \ {p} : pc'[q] = pc[q]
  BY DEF CountInv, CacheTypes
<1>2. \A q \in Proc : Answered(q)' <=> Answered(q)
  BY DEF Answered, diskVars, ringVars
<1>3. /\ l \notin Having /\ l # "fill" /\ l \notin InIO /\ l # "bunpin"
      /\ pc[p] \notin Having /\ pc[p] \notin {"bpin", "bwrite", "write"}
  BY DEF Having, Locked, PC, InIO
<1>4. platter' = platter
  BY DEF diskVars
<1>5. StoreInv'
  BY <1>1, <1>2, <1>3, <1>4, QuietKeeps
<1>6. Mapped
  BY <1>1, <1>3, <1>4, QuietMapped
<1> QED
  BY <1>5, <1>6

LEMMA RecycledMaps ==
  ASSUME IInv, StoreInv, NEW p \in Proc, NEW k \in Block, NEW j \in Job, NEW b \in Buf,
         Recycled(p, k, j, b)
  PROVE  StoreInv' /\ Mapped
<1>1. /\ CountInv /\ pc[p] = "idle" /\ pc' = [pc EXCEPT ![p] = "lock"] /\ buf' = [buf EXCEPT ![p] = b]
      /\ blockno' = [blockno EXCEPT ![b] = k] /\ valid' = [valid EXCEPT ![b] = 0]
      /\ UNCHANGED <<data, platter, pinned, head, avail, io>>
      /\ \A c \in Buf : blockno[c] # k
  BY DEF Recycled, Takes, Cached, diskVars, ringVars, IInv
<1>2. /\ pc'[p] = "lock" /\ \A q \in Proc \ {p} : pc'[q] = pc[q] /\ buf'[q] = buf[q]
      /\ blockno'[b] = k /\ valid'[b] = 0
      /\ \A c \in Buf \ {b} : blockno'[c] = blockno[c] /\ valid'[c] = valid[c]
  BY <1>1 DEF CountInv, CacheTypes
<1>3. Users(b) = {} /\ blockno[b] \notin pinned
  BY <1>1, UnusedIs DEF Recycled
<1>4. \A q \in Proc : pc[q] # "idle" => buf[q] # b /\ buf[q] \in Buf
  BY <1>1, <1>3 DEF Users, CountInv, CacheTypes
<1>5. \A c \in Buf \ {b} : Agrees(c)' <=> Agrees(c)
  BY <1>1, <1>2 DEF Agrees
<1>6. Valid'
  BY <1>2, <1>4 DEF StoreInv, Valid, Having, Locked, PC
<1>7. Served'
  <2>1. \A q \in Proc : Answered(q)' <=> Answered(q)
    BY <1>1 DEF Answered
  <2> QED
    BY <1>2, <1>4, <1>5, <2>1 DEF StoreInv, Served, InIO
<1>8. Clean'
  <2>1. \A c \in Buf \ {b} : Writing(c) => Writing(c)'
    BY <1>1, <1>2 DEF Writing
  <2> QED
    BY <1>1, <1>2, <1>5, <2>1 DEF StoreInv, Clean
<1>9. Store' = Store
  <2>1. ASSUME NEW m \in Block, ~(blockno[b] = m /\ valid[b] = 1) PROVE Store'[m] = Store[m]
    <3>1. \A c \in Buf : blockno'[c] = m /\ valid'[c] = 1 <=> blockno[c] = m /\ valid[c] = 1
      BY <1>2, <2>1
    <3> QED
      BY <1>1, <3>1, StoreKeptAt
  <2>2. ASSUME NEW m \in Block, blockno[b] = m, valid[b] = 1 PROVE Store'[m] = Store[m]
    <3>1. ~Writing(b)
      BY <1>4 DEF Writing
    <3>2. Agrees(b)
      BY <1>3, <2>2, <3>1 DEF StoreInv, Clean
    <3>3. Store[m] = data[b] /\ \A c \in Buf : blockno[c] = m => c = b
      BY <1>1, <2>2, SoleBuffer
    <3>4. \A c \in Buf : ~(blockno'[c] = m /\ valid'[c] = 1)
      BY <1>2, <3>3
    <3>5. Store'[m] = platter'[m]
      BY <3>4, StoreAt, ViewNext
    <3> QED
      BY <1>1, <2>2, <3>2, <3>3, <3>5 DEF Agrees
  <2> QED
    BY <2>1, <2>2, StoreExt
<1>10. Holder' = Holder
  <2>1. \A q \in Proc : pc'[q] \in Having <=> pc[q] \in Having
    BY <1>1, <1>2 DEF Having, Locked, PC
  <2>2. \A q \in Proc : pc[q] \in Having => buf'[q] = buf[q] /\ blockno'[buf[q]] = blockno[buf[q]]
    <3>1. \A q \in Proc : pc[q] \in Having => pc[q] # "idle"
      BY DEF Having, Locked
    <3> QED
      BY <1>1, <1>2, <1>4, <3>1
  <2> QED
    BY <1>1, <2>1, <2>2, SameHolder
<1> QED
  BY <1>6, <1>7, <1>8, <1>9, <1>10 DEF StoreInv, Mapped

\* The device serves a request.
LEMMA ServeMaps ==
  ASSUME IInv, StoreInv, NEW d \in Desc, Serve(d), UNCHANGED <<bufVars, procVars, pinned, panicked>>
  PROVE  StoreInv' /\ Mapped
<1>1. /\ CountInv /\ d \in avail /\ avail' = avail \ {d} /\ UNCHANGED <<head, io>>
      /\ UNCHANGED <<blockno, valid, pc, buf, pinned>>
  BY DEF IInv, Serve, bufVars, procVars
<1>2. PICK p \in Proc : io[p] \in Pending /\ d = head[p]
  BY <1>1 DEF IInv, DriverInv, Rings
<1>3. req[d] = [buf |-> iob[p], write |-> iow[p]]
  BY <1>2 DEF IInv, DriverInv, Owned
<1>4. iob[p] = buf[p] /\ pc[p] \in InIO /\ (pc[p] = "fill" => iow[p] = 0) /\ (pc[p] = "write" => iow[p] = 1)
  BY <1>2 DEF IInv, CountInv, InDriver, Pending
<1> SUFFICES ASSUME NEW b, b = buf[p] PROVE StoreInv' /\ Mapped
  OBVIOUS
<1>5. b \in Buf /\ blockno[b] \in Block
  BY <1>1, <1>4 DEF CountInv, CacheTypes, InUse, InIO
<1>6. \A c \in Buf \ {b} : blockno[c] # blockno[b]
  BY <1>1, <1>5, SoleBuffer
<1>7. \/ /\ pc[p] = "write" /\ data' = data /\ valid[b] = 1
         /\ platter' = [platter EXCEPT ![blockno[b]] = data[b]]
      \/ /\ pc[p] = "fill" /\ platter' = platter /\ valid[b] = 0
         /\ data' = [data EXCEPT ![b] = platter[blockno[b]]]
  <2>1. req[d].buf = b /\ req[d].write = iow[p]
    BY <1>3, <1>4
  <2>2. CASE pc[p] = "write"
    BY <1>4, <2>1, <2>2 DEF Serve, StoreInv, Valid, Having, Locked, PC
  <2>3. CASE pc[p] = "fill"
    BY <1>4, <2>1, <2>3 DEF Serve, StoreInv, Valid
  <2> QED
    BY <1>4, <2>2, <2>3 DEF InIO
<1>8. data \in [Buf -> Val] /\ platter \in [Block -> Val]
  BY DEF IInv, CountInv, CacheTypes, DriverInv, DiskTypeOK
<1>9. Agrees(b)' /\ \A c \in Buf \ {b} : blockno[c] \in Block => (Agrees(c)' <=> Agrees(c))
  BY <1>1, <1>5, <1>6, <1>7, <1>8 DEF Agrees
<1>10. \A q \in Proc \ {p} : pc[q] \in Locked => buf[q] \in Buf \ {b} /\ blockno[buf[q]] \in Block
  <2>1. pc[p] \in Locked
    BY <1>4 DEF InIO, Locked, PC
  <2> QED
    BY <1>1, <2>1, Apart DEF CountInv, CacheTypes
<1>11. Valid'
  BY <1>1 DEF StoreInv, Valid
<1>12. Served'
  <2>1. \A q \in Proc \ {p} : io[q] \in Pending => head[q] # d
    BY <1>2 DEF IInv, DriverInv, Owned, Disjoint
  <2>2. \A q \in Proc \ {p} : Answered(q)' <=> Answered(q)
    BY <1>1, <2>1 DEF Answered
  <2>3. \A q \in Proc : pc[q] \in InIO \/ pc[q] = "bunpin" => pc[q] \in Locked
    BY DEF InIO, Locked, PC
  <2>4. ASSUME NEW q \in Proc \ {p}, (pc[q] \in InIO /\ Answered(q)) \/ pc[q] = "bunpin"
        PROVE  Agrees(buf[q])'
    <3>1. Agrees(buf[q])
      BY <2>4 DEF StoreInv, Served
    <3>2. buf[q] \in Buf \ {b} /\ blockno[buf[q]] \in Block
      BY <1>10, <2>3, <2>4
    <3>3. \A c \in Buf \ {b} : c = buf[q] => Agrees(c)'
      BY <1>9, <3>1, <3>2
    <3> QED
      BY <1>1, <3>2, <3>3 DEF Agrees
  <2>5. Agrees(buf[p])'
    BY <1>1, <1>9 DEF Agrees
  <2> QED
    BY <1>1, <2>2, <2>4, <2>5 DEF Served
<1>13. Clean'
  <2>1. \A c \in Buf : Writing(c)' <=> Writing(c)
    BY <1>1 DEF Writing
  <2> QED
    BY <1>1, <1>9, <2>1 DEF StoreInv, Clean
<1>14. Store' = Store
  <2>1. ASSUME NEW m \in Block PROVE Store'[m] = Store[m]
    <3>1. \A c \in Buf : blockno[c] = m /\ valid[c] = 1 => data'[c] = data[c]
      BY <1>7, <1>8
    <3>2. platter'[m] = platter[m] \/ \E c \in Buf : blockno[c] = m /\ valid[c] = 1
      BY <1>5, <1>7, <1>8
    <3> QED
      BY <1>1, <3>1, <3>2, StoreKeptAt
  <2> QED
    BY <2>1, StoreExt
<1>15. Holder' = Holder
  BY <1>1, SameHolder
<1> QED
  BY <1>11, <1>12, <1>13, <1>14, <1>15 DEF StoreInv, Mapped

\* The driver and the interrupt handler change nothing a caller sees.
LEMMA DriverMaps ==
  ASSUME IInv, StoreInv, DriverSteps
  PROVE  StoreInv' /\ Mapped
<1>1. CASE DeviceStep
  <2>1. PICK d \in Desc : Serve(d)
    BY <1>1 DEF DeviceStep, Device
  <2> QED
    BY <1>1, <2>1, ServeMaps DEF DeviceStep
<1>2. CASE ~DeviceStep
  <2>1. UNCHANGED <<data, platter, bufVars, procVars, pinned, panicked>>
    BY <1>2 DEF DriverSteps, InterruptStep, DriverStep, DisturbStep, Interrupt, IntrAck, IntrEnd,
       IntrEntry, Driver, AllocFails, Submit, StillBusy, Finish, Disturb
  <2>2. \A q \in Proc : Answered(q)' => Answered(q)
    <3>1. CASE InterruptStep
      BY <3>1 DEF InterruptStep, Interrupt, IntrAck, IntrEnd, IntrEntry, Answered, Pending, ringVars
    <3>2. ASSUME NEW p \in Proc, AllocFails(p) \/ StillBusy(p) \/ Disturb(p)
          PROVE  \A q \in Proc : Answered(q)' => Answered(q)
      BY <3>2 DEF IInv, DriverInv, DiskTypeOK, AllocFails, StillBusy, Disturb, WakeAllocators,
         Answered, Pending, ringVars
    <3>3. ASSUME NEW p \in Proc, Submit(p)
          PROVE  \A q \in Proc : Answered(q)' => Answered(q)
      <4>1. PICK a \in free : avail' = avail \union {a} /\ head' = [head EXCEPT ![p] = a]
        BY <3>3 DEF Submit
      <4>2. io' = [io EXCEPT ![p] = "wait"]
        BY <3>3 DEF Submit
      <4> QED
        BY <4>1, <4>2 DEF IInv, DriverInv, DiskTypeOK, Answered, Pending
    <3>4. ASSUME NEW p \in Proc, Finish(p)
          PROVE  \A q \in Proc : Answered(q)' => Answered(q)
      <4>1. /\ io[p] = "test" /\ bdisk[iob[p]] = 0 /\ io' = WakeAllocators(p, "done")
            /\ head' = [head EXCEPT ![p] = 0] /\ avail' = avail
        BY <3>4 DEF Finish, Done, FreeChain
      <4>2. Answered(p)
        BY <4>1 DEF IInv, DriverInv, Rings, Answered, Pending
      <4> QED
        BY <4>1, <4>2 DEF WakeAllocators, Answered, Pending
    <3> QED
      BY <1>2, <3>1, <3>2, <3>3, <3>4 DEF DriverSteps, DriverStep, DisturbStep, Driver
  <2>3. CountInv /\ UNCHANGED <<blockno, valid, pc, buf>>
    BY <2>1 DEF IInv, bufVars, procVars
  <2>4. StoreInv'
    BY <2>1, <2>2, <2>3, QuietKeeps
  <2>5. Mapped
    BY <2>1, <2>3, QuietMapped
  <2> QED
    BY <2>4, <2>5
<1> QED
  BY <1>1, <1>2

LEMMA StepMaps ==
  ASSUME IInv, StoreInv, [Next]_vars
  PROVE  StoreInv' /\ Mapped
<1>0. CountInv
  BY DEF IInv
<1>1. CASE DriverSteps
  BY <1>1, DriverMaps
<1>2. ASSUME NEW p \in Proc, Moves(p) \/ Pin(p) \/ Unpin(p) PROVE StoreInv' /\ Mapped
  BY <1>2, MoveMaps, PinMaps
<1>3. ASSUME NEW p \in Proc, Put(p) PROVE StoreInv' /\ Mapped
  <2>1. /\ pc[p] = "put" /\ pc' = [pc EXCEPT ![p] = "idle"] /\ \A q \in Proc \ {p} : buf'[q] = buf[q]
        /\ UNCHANGED <<data, diskVars, blockno, valid, pinned>>
    BY <1>3 DEF Put, Goto, IInv, CountInv, CacheTypes
  <2> QED
    BY <1>0, <2>1, EndMaps
<1>4. ASSUME NEW p \in Proc, NEW k \in Block, NEW j \in Job, NEW b \in Buf, Found(p, k, j, b)
      PROVE  StoreInv' /\ Mapped
  <2>1. /\ pc[p] = "idle" /\ pc' = [pc EXCEPT ![p] = "lock"] /\ \A q \in Proc \ {p} : buf'[q] = buf[q]
        /\ UNCHANGED <<data, diskVars, blockno, valid, pinned>>
    BY <1>4 DEF Found, Takes, IInv, CountInv, CacheTypes
  <2> QED
    BY <1>0, <2>1, EndMaps
<1>5. ASSUME NEW p \in Proc, NEW k \in Block, NEW j \in Job, NEW b \in Buf, Recycled(p, k, j, b)
      PROVE  StoreInv' /\ Mapped
  BY <1>5, RecycledMaps
<1>6. CASE UNCHANGED vars \/ \E p \in Proc, k \in Block : NoBuffers(p, k)
  <2>1. UNCHANGED <<data, platter, blockno, valid, pinned, pc, buf, io, head, avail>>
    BY <1>6 DEF vars, NoBuffers, diskVars, ringVars, bufVars, procVars
  <2>2. \A q \in Proc : Answered(q)' <=> Answered(q)
    BY <2>1 DEF Answered
  <2>3. StoreInv'
    BY <1>0, <2>1, <2>2, QuietKeeps
  <2>4. Mapped
    BY <1>0, <2>1, QuietMapped
  <2> QED
    BY <2>3, <2>4
<1> QED
  BY <1>1, <1>2, <1>3, <1>4, <1>5, <1>6, NextIs

LEMMA InitMaps == Init => Abstract!StoreInit
<1> SUFFICES ASSUME Init PROVE Abstract!StoreInit
  OBVIOUS
<1>1. /\ \A b \in Buf : valid[b] # 1
      /\ \A p \in Proc : pc[p] \notin Having
      /\ platter \in [Block -> Val]
  BY DEF Init, DiskInit, Having, Locked
<1>2. Store = platter
  BY <1>1 DEF Store
<1>3. Holder = [k \in Block |-> Nobody]
  BY <1>1 DEF Holder
<1> QED
  BY <1>1, <1>2, <1>3 DEF Abstract!StoreInit

\* bio.c over virtio_disk.c implements the block store, for any number of
\* processes, blocks, buffers and descriptors: recycling, filling, pinning and
\* writing buffers, and the order in which the device answers, are invisible.
THEOREM CacheIsAStore == Spec => ImplementsStore
<1>1. IInv /\ StoreInv /\ [Next]_vars => StoreInv' /\ Mapped
  BY StepMaps
<1> QED
  BY <1>1, InitMaps, InitStoreInv, Invariant, PTL
     DEF Spec, ImplementsStore, Abstract!StoreSpec, Mapped

-----------------------------------------------------------------------------
(***************************************************************************)
(* The cache and the disk: what a caller sees is on the disk once it has   *)
(* been written, and a block that goes through the log is written nowhere  *)
(* else.                                                                   *)
(***************************************************************************)

\* Outside a write under way the disk holds every block as the cache shows it,
\* except those that log_write() has pinned.
WrittenThrough ==
  \A k \in Block \ pinned :
    (\A p \in Proc : pc[p] \in {"bpin", "bwrite", "write"} => blockno[buf[p]] # k)
      => Store[k] = platter[k]

\* bwrite() is write-through: after it, whatever is evicted or refilled, the disk
\* and the cache agree.
THEOREM WritesReachTheDisk == Spec => []WrittenThrough
<1>1. IInv /\ StoreInv => WrittenThrough
  <2> SUFFICES ASSUME IInv, StoreInv, NEW k \in Block \ pinned,
                      \A p \in Proc : pc[p] \in {"bpin", "bwrite", "write"} => blockno[buf[p]] # k
               PROVE  Store[k] = platter[k]
    BY DEF WrittenThrough
  <2>1. CASE \E b \in Buf : blockno[b] = k /\ valid[b] = 1
    <3>1. PICK b \in Buf : blockno[b] = k /\ valid[b] = 1
      BY <2>1
    <3>2. Agrees(b)
      BY <3>1 DEF StoreInv, Clean, Writing
    <3>3. CountInv
      BY DEF IInv
    <3> QED
      BY <3>1, <3>2, <3>3, SoleBuffer DEF Agrees
  <2>2. CASE \A b \in Buf : ~(blockno[b] = k /\ valid[b] = 1)
    BY <2>2, StoreAt, ViewIs
  <2> QED
    BY <2>1, <2>2
<1>2. IInv /\ StoreInv /\ [Next]_vars => StoreInv'
  BY StepMaps
<1> QED
  BY <1>1, <1>2, InitStoreInv, Invariant, PTL DEF Spec

\* What a call is up to: it writes the disk for a block of the log, or to install one.
JobInv ==
  \A p \in Proc :
    /\ pc[p] # "idle" /\ job[p] = "write" => blockno[buf[p]] \in LogBlock
    /\ pc[p] \in {"bwrite", "write"} => job[p] \in {"write", "install"}

LEMMA JobStep ==
  ASSUME IInv, JobInv, [Next]_vars
  PROVE  JobInv'
<1>0. CountInv /\ CacheTypes
  BY DEF IInv, CountInv
<1>1. ASSUME UNCHANGED <<blockno, pc, buf, job>> PROVE JobInv'
  BY <1>1 DEF JobInv
<1>2. CASE DriverSteps
  BY <1>1, <1>2 DEF DriverSteps, InterruptStep, DeviceStep, DriverStep, DisturbStep, bufVars, procVars
<1>3. ASSUME NEW p \in Proc, Moves(p) \/ Pin(p) \/ Unpin(p) PROVE JobInv'
  <2>1. /\ UNCHANGED <<blockno, buf, job>> /\ pc[p] # "idle"
        /\ \E l : pc' = [pc EXCEPT ![p] = l]
        /\ pc'[p] \in {"bwrite", "write"} => pc[p] = "bwrite" \/ job[p] \in {"write", "install"}
    BY <1>0, <1>3 DEF Moves, AcquireSleep, Hit, Fill, Filled, Read, Modify, Install, Bwrite, Written,
       ReleaseSleep, Pin, Unpin, Goto, bufVars, CacheTypes
  <2> QED
    BY <1>0, <2>1 DEF JobInv, CacheTypes
<1>4. ASSUME NEW p \in Proc, Put(p) PROVE JobInv'
  <2>1. /\ UNCHANGED blockno /\ pc' = [pc EXCEPT ![p] = "idle"]
        /\ \A q \in Proc \ {p} : buf'[q] = buf[q] /\ job'[q] = job[q]
    BY <1>0, <1>4 DEF Put, Goto, CacheTypes
  <2> QED
    BY <1>0, <2>1 DEF JobInv, CacheTypes
<1>5. ASSUME NEW p \in Proc, NEW k \in Block, NEW j \in Job, NEW b \in Buf,
             Found(p, k, j, b) \/ Recycled(p, k, j, b)
      PROVE  JobInv'
  <2>1. /\ pc' = [pc EXCEPT ![p] = "lock"] /\ buf' = [buf EXCEPT ![p] = b]
        /\ job' = [job EXCEPT ![p] = j] /\ (j = "write" => k \in LogBlock)
    BY <1>5 DEF Found, Recycled, Takes, Allowed
  <2>2. blockno'[b] = k
    BY <1>0, <1>5 DEF Found, Recycled, CacheTypes
  <2>3. ASSUME NEW q \in Proc \ {p}, pc[q] # "idle" PROVE blockno'[buf[q]] = blockno[buf[q]]
    <3>1. CASE Found(p, k, j, b)
      BY <3>1 DEF Found
    <3>2. CASE Recycled(p, k, j, b)
      <4>1. q \notin Users(b)
        BY <1>0, <3>2, UnusedIs DEF Recycled
      <4> QED
        BY <1>0, <2>3, <3>2, <4>1 DEF Recycled, Users, CacheTypes
    <3> QED
      BY <1>5, <3>1, <3>2
  <2> QED
    BY <1>0, <2>1, <2>2, <2>3 DEF JobInv, CacheTypes
<1>6. CASE UNCHANGED vars \/ \E p \in Proc, k \in Block : NoBuffers(p, k)
  BY <1>1, <1>6 DEF vars, NoBuffers, bufVars, procVars
<1> QED
  BY <1>2, <1>3, <1>4, <1>5, <1>6, NextIs

\* A block outside the log area changes on the disk only when install_trans()
\* writes it, pinned, and then to what the cache shows.
LogFirst ==
  \A k \in Block \ LogBlock : platter'[k] # platter[k] =>
    /\ k \in pinned /\ platter'[k] = Store[k]
    /\ \E p \in Proc : pc[p] = "write" /\ job[p] = "install" /\ blockno[buf[p]] = k

\* The write-ahead rule of log.c:10-16 as the cache keeps it: no recycling and no
\* late or reordered request of the driver puts a block on the disk early.
THEOREM LogGoesFirst == Spec => [][LogFirst]_vars
<1>1. Init => JobInv
  BY DEF Init, JobInv
<1>2. IInv /\ StoreInv /\ JobInv /\ [Next]_vars => [LogFirst]_vars
  <2> SUFFICES ASSUME IInv, StoreInv, JobInv, Next PROVE LogFirst
    OBVIOUS
  <2>0. CountInv /\ CacheTypes
    BY DEF IInv, CountInv
  <2>1. ASSUME UNCHANGED platter PROVE LogFirst
    BY <2>1 DEF LogFirst
  <2>2. ASSUME NEW d \in Desc, Serve(d) PROVE LogFirst
    <3>1. PICK p \in Proc : io[p] \in Pending /\ d = head[p]
      BY <2>2 DEF IInv, DriverInv, Rings, Serve
    <3>2. req[d] = [buf |-> iob[p], write |-> iow[p]]
      BY <3>1 DEF IInv, DriverInv, Owned
    <3>3. iob[p] = buf[p] /\ pc[p] \in InIO /\ (pc[p] = "fill" => iow[p] = 0)
      BY <2>0, <3>1 DEF CountInv, InDriver, Pending
    <3>4. CASE iow[p] = 1
      <4>1. pc[p] = "write" /\ job[p] \in {"write", "install"} /\ valid[buf[p]] = 1
        BY <3>3, <3>4 DEF InIO, JobInv, StoreInv, Valid, Having, Locked, PC
      <4>2. buf[p] \in Buf /\ blockno[buf[p]] \in Block
        BY <2>0, <4>1 DEF CacheTypes, CountInv, InUse
      <4>3. platter' = [platter EXCEPT ![blockno[buf[p]]] = data[buf[p]]]
        BY <2>2, <3>2, <3>3, <3>4 DEF Serve
      <4>4. data[buf[p]] = Store[blockno[buf[p]]]
        BY <2>0, <4>1, <4>2, SoleBuffer
      <4>5. platter \in [Block -> Val]
        BY DEF IInv, DriverInv, DiskTypeOK
      <4>6. CASE job[p] = "write"
        BY <4>1, <4>3, <4>5, <4>6 DEF LogFirst, JobInv
      <4>7. CASE job[p] = "install"
        <5>1. blockno[buf[p]] \in pinned
          BY <2>0, <4>1, <4>7 DEF CountInv, Installs, Installing
        <5> QED
          BY <4>1, <4>3, <4>4, <4>5, <4>7, <5>1 DEF LogFirst
      <4> QED
        BY <4>1, <4>6, <4>7
    <3>5. CASE iow[p] # 1
      BY <2>1, <2>2, <3>2, <3>5 DEF Serve
    <3> QED
      BY <3>4, <3>5
  <2>3. CASE DriverSteps
    <3>1. CASE DeviceStep
      BY <2>2, <3>1 DEF DeviceStep, Device
    <3>2. CASE ~DeviceStep
      BY <2>1, <2>3, <3>2 DEF DriverSteps, InterruptStep, DriverStep, DisturbStep, Interrupt, IntrAck,
         IntrEnd, IntrEntry, Driver, AllocFails, Submit, StillBusy, Finish, Disturb
    <3> QED
      BY <3>1, <3>2
  <2>4. ASSUME NEW p \in Proc, Moves(p) \/ Pin(p) \/ Unpin(p) \/ Put(p) PROVE LogFirst
    BY <2>1, <2>4 DEF Moves, AcquireSleep, Hit, Fill, Filled, Read, Modify, Install, Bwrite, Written,
       ReleaseSleep, Pin, Unpin, Put, Rw, RwDone, diskVars
  <2>5. ASSUME NEW p \in Proc, NEW k \in Block, NEW j \in Job, NEW b \in Buf,
               Found(p, k, j, b) \/ Recycled(p, k, j, b)
        PROVE  LogFirst
    BY <2>1, <2>5 DEF Found, Recycled, Takes, diskVars
  <2> QED
    <3>1. \/ DriverSteps
          \/ \E p \in Proc : Moves(p) \/ Pin(p) \/ Unpin(p) \/ Put(p)
          \/ \E p \in Proc, k \in Block : NoBuffers(p, k)
          \/ \E p \in Proc, k \in Block, j \in Job, b \in Buf : Found(p, k, j, b) \/ Recycled(p, k, j, b)
      BY NextIs
    <3>2. CASE \E p \in Proc, k \in Block : NoBuffers(p, k)
      BY <2>1, <3>2 DEF NoBuffers, diskVars
    <3> QED
      BY <2>3, <2>4, <2>5, <3>1, <3>2
<1>3. IInv /\ StoreInv /\ [Next]_vars => StoreInv'
  BY StepMaps
<1>4. IInv /\ JobInv /\ [Next]_vars => JobInv'
  BY JobStep
<1> QED
  BY <1>1, <1>2, <1>3, <1>4, InitStoreInv, Invariant, PTL DEF Spec
=============================================================================
