---------------------------- MODULE BufferCache ----------------------------
(***************************************************************************)
(* The buffer cache, kernel/bio.c (the same file in all four trees), on    *)
(* top of the disk driver, and its callers: whoever reads a block; the     *)
(* commit, which writes the blocks of the log area; log_write(), which     *)
(* pins a block of the file system instead of writing it; and              *)
(* install_trans(), which writes it at last and unpins it.  A caller holds *)
(* one buffer; the second one of write_log() and install_trans() is left   *)
(* out.                                                                    *)
(*                                                                         *)
(* A section under bcache.lock is one step.  The sleep lock of a buffer is *)
(* the process that holds it, which SleepLock shows acquiresleep() makes   *)
(* it.                                                                     *)
(***************************************************************************)
EXTENDS VirtioDisk

CONSTANTS
  LogBlock,      \* the blocks of the log area
  NoBlock,
  NPIN           \* blocks the log has room for

ASSUME CacheAssumption ==
  /\ IsFiniteSet(Proc)
  /\ LogBlock \subseteq Block /\ NoBlock \notin Block
  /\ NPIN \in Nat

VARIABLES
  valid, refcnt,     \* struct buf
  owner,             \* holder of the buffer's sleep lock
  lru,               \* bcache.head's list, most recently used first
  pc, buf, job,      \* per process: where it is, b, and what it is up to
  pinned,            \* the log's: the blocks it has pinned
  panicked

bufVars == <<blockno, valid, refcnt, owner, lru>>
procVars == <<pc, buf, job>>
vars == <<data, diskVars, bufVars, procVars, pinned, panicked>>

Job == {"read", "write", "log", "install"}

Init ==
  /\ DiskInit
  /\ data \in [Buf -> Val]
  /\ blockno = [b \in Buf |-> NoBlock]
  /\ valid = [b \in Buf |-> 0]
  /\ refcnt = [b \in Buf |-> 0]
  /\ owner = [b \in Buf |-> Nobody]
  /\ lru = [i \in Buf |-> NBUF + 1 - i]
  /\ pc = [p \in Proc |-> "idle"]
  /\ buf = [p \in Proc |-> 1]
  /\ job = [p \in Proc |-> "read"]
  /\ pinned = {}
  /\ panicked = 0

Goto(p, l) == pc' = [pc EXCEPT ![p] = l]

\* A bug: a buffer somebody has locked is not looked at.
CachedUnlocked(k) == \E b \in Buf : blockno[b] = k /\ owner[b] = Nobody
Cached(k) == \E b \in Buf : blockno[b] = k

-----------------------------------------------------------------------------
(* bget() and bread().                                                     *)

\* A bug: any buffer nobody has locked is recycled, pinned or not.
UnusedUnlocked(b) == owner[b] = Nobody
Unused(b) == refcnt[b] = 0

\* The buffer bget() recycles: unused, and least recently so.
Victim(b) == \E i \in Buf : lru[i] = b /\ Unused(b) /\ \A j \in Buf : j > i => ~Unused(lru[j])

\* Who asks for which block: there is one commit at a time.
Allowed(p, k, j) ==
  \/ j = "read"
  \/ j = "write" /\ k \in LogBlock
  \/ j = "log" /\ k \notin LogBlock /\ Cardinality(pinned \union {k}) <= NPIN
  \/ j = "install" /\ k \in pinned /\ \A q \in Proc : pc[q] = "idle" \/ job[q] # "install"

Start(p, k, j) ==
  /\ pc[p] = "idle"
  /\ Allowed(p, k, j)
  /\ job' = [job EXCEPT ![p] = j]
  /\ \/ \E b \in Buf :
          /\ blockno[b] = k
          /\ refcnt' = [refcnt EXCEPT ![b] = @ + 1]
          /\ buf' = [buf EXCEPT ![p] = b]
          /\ UNCHANGED <<blockno, valid>>
     \/ \E b \in Buf :
          /\ ~Cached(k) /\ Victim(b)
          /\ blockno' = [blockno EXCEPT ![b] = k]
          /\ valid' = [valid EXCEPT ![b] = 0]
          /\ refcnt' = [refcnt EXCEPT ![b] = 1]
          /\ buf' = [buf EXCEPT ![p] = b]
  /\ Goto(p, "lock")
  /\ UNCHANGED <<data, diskVars, owner, lru, pinned, panicked>>

NoBuffers(p, k) ==
  /\ pc[p] = "idle"
  /\ ~Cached(k) /\ \A b \in Buf : ~Unused(b)
  /\ panicked' = 1
  /\ UNCHANGED <<data, diskVars, bufVars, procVars, pinned>>

AcquireSleep(p) ==
  /\ pc[p] = "lock" /\ owner[buf[p]] = Nobody
  /\ owner' = [owner EXCEPT ![buf[p]] = p]
  /\ Goto(p, "bread")
  /\ UNCHANGED <<data, diskVars, blockno, valid, refcnt, lru, buf, job, pinned, panicked>>

Hit(p) ==
  /\ pc[p] = "bread" /\ valid[buf[p]] = 1
  /\ Goto(p, "have")
  /\ UNCHANGED <<data, diskVars, bufVars, buf, job, pinned, panicked>>

Fill(p) ==
  /\ pc[p] = "bread" /\ valid[buf[p]] = 0
  /\ Rw(p, buf[p], 0)
  /\ Goto(p, "fill")
  /\ UNCHANGED <<data, bufVars, buf, job, pinned, panicked>>

Filled(p) ==
  /\ pc[p] = "fill" /\ RwDone(p)
  /\ valid' = [valid EXCEPT ![buf[p]] = 1]
  /\ Goto(p, "have")
  /\ UNCHANGED <<data, blockno, refcnt, owner, lru, buf, job, pinned, panicked>>

-----------------------------------------------------------------------------
(* What a caller does with the block it holds.                             *)

Read(p) ==
  /\ pc[p] = "have" /\ job[p] = "read"
  /\ Goto(p, "brelse")
  /\ UNCHANGED <<data, diskVars, bufVars, buf, job, pinned, panicked>>

Modify(p, v) ==
  /\ pc[p] = "have" /\ job[p] \in {"write", "log"}
  /\ data' = [data EXCEPT ![buf[p]] = v]
  /\ Goto(p, IF job[p] = "write" THEN "bwrite" ELSE "bpin")
  /\ UNCHANGED <<diskVars, bufVars, buf, job, pinned, panicked>>

\* log_write(): bpin() unless the block is in the log already.
Pin(p) ==
  LET b == buf[p] IN
  /\ pc[p] = "bpin"
  /\ IF blockno[b] \in pinned
     THEN UNCHANGED <<refcnt, pinned>>
     ELSE /\ refcnt' = [refcnt EXCEPT ![b] = @ + 1]
          /\ pinned' = pinned \union {blockno[b]}
  /\ Goto(p, "brelse")
  /\ UNCHANGED <<data, diskVars, blockno, valid, owner, lru, buf, job, panicked>>

Install(p) ==
  /\ pc[p] = "have" /\ job[p] = "install"
  /\ Goto(p, "bwrite")
  /\ UNCHANGED <<data, diskVars, bufVars, buf, job, pinned, panicked>>

Bwrite(p) ==
  /\ pc[p] = "bwrite"
  /\ Rw(p, buf[p], 1)
  /\ Goto(p, "write")
  /\ UNCHANGED <<data, bufVars, buf, job, pinned, panicked>>

Written(p) ==
  /\ pc[p] = "write" /\ RwDone(p)
  /\ Goto(p, IF job[p] = "install" THEN "bunpin" ELSE "brelse")
  /\ UNCHANGED <<data, bufVars, buf, job, pinned, panicked>>

Unpin(p) ==
  LET b == buf[p] IN
  /\ pc[p] = "bunpin"
  /\ refcnt' = [refcnt EXCEPT ![b] = @ - 1]
  /\ pinned' = pinned \ {blockno[b]}
  /\ Goto(p, "brelse")
  /\ UNCHANGED <<data, diskVars, blockno, valid, owner, lru, buf, job, panicked>>

-----------------------------------------------------------------------------
(* brelse().                                                               *)

ReleaseSleep(p) ==
  /\ pc[p] = "brelse"
  /\ owner' = [owner EXCEPT ![buf[p]] = Nobody]
  /\ Goto(p, "put")
  /\ UNCHANGED <<data, diskVars, blockno, valid, refcnt, lru, buf, job, pinned, panicked>>

\* To the head of the list.
Front(b) ==
  LET i == CHOOSE i \in Buf : lru[i] = b IN
  [j \in Buf |-> IF j = 1 THEN b ELSE IF j <= i THEN lru[j - 1] ELSE lru[j]]

Put(p) ==
  LET b == buf[p] IN
  /\ pc[p] = "put"
  /\ refcnt' = [refcnt EXCEPT ![b] = @ - 1]
  /\ lru' = IF refcnt[b] = 1 THEN Front(b) ELSE lru
  /\ Goto(p, "idle")
  /\ buf' = [buf EXCEPT ![p] = 1]
  /\ job' = [job EXCEPT ![p] = "read"]
  /\ UNCHANGED <<data, diskVars, blockno, valid, owner, pinned, panicked>>

-----------------------------------------------------------------------------
Cache(p) ==
  \/ AcquireSleep(p) \/ Hit(p) \/ Fill(p) \/ Filled(p)
  \/ Read(p) \/ (\E v \in Val : Modify(p, v)) \/ Pin(p)
  \/ Install(p) \/ Bwrite(p) \/ Written(p) \/ Unpin(p)
  \/ ReleaseSleep(p) \/ Put(p)

DriverStep(p) == Driver(p) /\ UNCHANGED <<data, bufVars, procVars, pinned, panicked>>
InterruptStep == Interrupt /\ UNCHANGED <<data, bufVars, procVars, pinned, panicked>>
DeviceStep == Device /\ UNCHANGED <<bufVars, procVars, pinned, panicked>>
DisturbStep(p) == Disturb(p) /\ UNCHANGED <<data, bufVars, procVars, pinned, panicked>>

Running ==
  \/ \E p \in Proc :
       \/ \E k \in Block : NoBuffers(p, k) \/ \E j \in Job : Start(p, k, j)
       \/ Cache(p) \/ DriverStep(p) \/ DisturbStep(p)
  \/ InterruptStep \/ DeviceStep

Next == panicked = 0 /\ Running

Spec == Init /\ [][Next]_vars
-----------------------------------------------------------------------------
(* Properties.                                                             *)

PC == {"idle", "lock", "bread", "fill", "have", "bpin", "bwrite", "write", "bunpin",
       "brelse", "put"}
Locked == PC \ {"idle", "lock", "put"}
Having == Locked \ {"bread", "fill"}

TypeOK ==
  /\ DiskTypeOK
  /\ data \in [Buf -> Val]
  /\ blockno \in [Buf -> Block \union {NoBlock}]
  /\ valid \in [Buf -> {0, 1}]
  /\ refcnt \in [Buf -> Nat]
  /\ owner \in [Buf -> Proc \union {Nobody}]
  /\ lru \in [Buf -> Buf]
  /\ pc \in [Proc -> PC]
  /\ buf \in [Proc -> Buf]
  /\ job \in [Proc -> Job]
  /\ pinned \subseteq Block
  /\ panicked \in {0, 1}

\* A reference count is exactly the callers between bget() and the end of
\* brelse() plus the log's pin: none is lost, so bget() panics only when
\* every buffer really is in use, and none is recycled in use.
Users(b) == {p \in Proc : pc[p] # "idle" /\ buf[p] = b}
RefcountsExact ==
  \A b \in Buf : refcnt[b] = Cardinality(Users(b)) + (IF blockno[b] \in pinned THEN 1 ELSE 0)

\* A block is in one buffer, and the list still has every buffer.
OneCopy ==
  /\ \A b, c \in Buf : blockno[b] = blockno[c] /\ blockno[b] # NoBlock => b = c
  /\ \A b \in Buf : \E i \in Buf : lru[i] = b

\* The two together: however bget(), brelse() and the log's pins interleave, a
\* buffer in use is neither recycled nor doubled, and none is lost.
BuffersExact == RefcountsExact /\ OneCopy

\* What a reader would find: the cached copy if there is one.
Store == [k \in Block |->
  IF \E b \in Buf : blockno[b] = k /\ valid[b] = 1
  THEN data[CHOOSE b \in Buf : blockno[b] = k /\ valid[b] = 1]
  ELSE platter[k]]
Holder == [k \in Block |->
  IF \E p \in Proc : pc[p] \in Having /\ blockno[buf[p]] = k
  THEN CHOOSE p \in Proc : pc[p] \in Having /\ blockno[buf[p]] = k
  ELSE Nobody]

Abstract == INSTANCE BlockStore WITH store <- Store, holder <- Holder

\* Filling, recycling, pinning and writing buffers, the disk driver and the
\* order in which the device serves it change nothing that a caller can see:
\* a block has one holder, and only its holder changes it.
ImplementsStore == Abstract!StoreSpec
=============================================================================
