-------------------------------- MODULE Log --------------------------------
(***************************************************************************)
(* The write-ahead log of kernel/log.c (the same file in all four trees),  *)
(* with the part of the buffer cache it relies on: which blocks are cached *)
(* and which are pinned.  One action per section that holds log.lock and   *)
(* one per disk write of commit() and recover_from_log().  The machine may *)
(* crash between any two of them, and the block device keeps home, logblk  *)
(* and hdr.                                                                *)
(***************************************************************************)
EXTENDS Naturals, FiniteSets

CONSTANTS
  Proc,          \* processes that make file-system calls
  Block,         \* home blocks (data, bitmap, inode blocks alike)
  Val,           \* contents of a block
  NoBlock,       \* "holds no buffer"
  NoData,        \* "not in the buffer cache"
  LOGSIZE,       \* param.h:10, the room begin_op() reserves from
  MAXOPBLOCKS,   \* param.h:9, the room begin_op() reserves for one call
  OpBlocks,      \* different blocks a call writes at most (the callers' side)
  NLOG           \* sb->nlog, the blocks mkfs set aside for header and log

ASSUME LogAssumption ==
  /\ NoBlock \notin Block
  /\ NoData \notin Val
  /\ IsFiniteSet(Proc)
  /\ LOGSIZE \in Nat
  /\ MAXOPBLOCKS \in Nat \ {0}
  /\ OpBlocks \in Nat
  /\ NLOG \in Nat

VARIABLES
  home, logblk, hdr,             \* on disk: home blocks, log data blocks, header
  buf, pin,                      \* cache: contents, references taken by bpin()
  lh, outstanding, committing,   \* struct log
  pc, tail, bp, wset,            \* per process: control, commit's loop index,
                                 \* locked buffer, blocks logged by this call
  boot, rtail,                   \* recovery: phase and loop index
  panicked                       \* the message of panic(), or "no"

diskVars == <<home, logblk, hdr>>
cacheVars == <<buf, pin>>
logVars == <<lh, outstanding, committing>>
procVars == <<pc, tail, bp, wset>>
bootVars == <<boot, rtail>>
vars == <<diskVars, cacheVars, logVars, procVars, bootVars, panicked>>

\* struct logheader; the entries at and beyond n are never read.
Header == [n : 0..LOGSIZE, block : [1..LOGSIZE -> Block \union {NoBlock}]]
EmptyHeader == [n |-> 0, block |-> [i \in 1..LOGSIZE |-> NoBlock]]
AddBlock(h, b) == [n |-> h.n + 1, block |-> [h.block EXCEPT ![h.n + 1] = b]]
Entries(h) == {h.block[i] : i \in 1..h.n}

InOp == {"op", "modified"}
InCommit == {"write_log", "write_head", "install", "clear", "finish"}
PC == {"idle", "begin", "asleep"} \union InOp \union InCommit

\* The disk mkfs wrote: any home blocks, an empty log.
Init ==
  /\ home \in [Block -> Val]
  /\ logblk \in [1..LOGSIZE -> Val]
  /\ hdr = EmptyHeader
  /\ buf = [b \in Block |-> NoData]
  /\ pin = [b \in Block |-> 0]
  /\ lh = EmptyHeader
  /\ outstanding = 0
  /\ committing = 0
  /\ pc = [p \in Proc |-> "idle"]
  /\ tail = [p \in Proc |-> 0]
  /\ bp = [p \in Proc |-> NoBlock]
  /\ wset = [p \in Proc |-> {}]
  /\ boot = "read_head"
  /\ rtail = 0
  /\ panicked = "no"

-----------------------------------------------------------------------------
(* The buffer cache as the log sees it.                                    *)

BufferFree(b) == \A q \in Proc : bp[q] # b

\* bget() may give an unreferenced buffer to another block at any moment.
Recycle(b) ==
  /\ buf[b] # NoData
  /\ pin[b] = 0
  /\ BufferFree(b)
  /\ buf' = [buf EXCEPT ![b] = NoData]
  /\ UNCHANGED <<diskVars, pin, logVars, procVars, bootVars, panicked>>

\* What bread(b) returns: the cached contents, or those on the disk.
Contents(b) == IF buf[b] = NoData THEN home[b] ELSE buf[b]

-----------------------------------------------------------------------------
(* begin_op, log_write, end_op.                                            *)

Call(p) ==
  /\ boot = "up"
  /\ pc[p] = "idle"
  /\ pc' = [pc EXCEPT ![p] = "begin"]
  /\ UNCHANGED <<diskVars, cacheVars, logVars, tail, bp, wset, bootVars, panicked>>

\* Bugs begin_op() could have: not looking at log.committing, and not
\* counting what finished operations of the group have logged.
MustWaitForRoomOnly == lh.n + (outstanding + 1) * MAXOPBLOCKS > LOGSIZE
MustWaitForgetsLogged == committing = 1 \/ (outstanding + 1) * MAXOPBLOCKS > LOGSIZE

\* The test of begin_op(): wait for a commit in progress, or for room.
MustWait == committing = 1 \/ lh.n + (outstanding + 1) * MAXOPBLOCKS > LOGSIZE

BeginOp(p) ==
  /\ pc[p] = "begin"
  /\ \/ /\ MustWait
        /\ pc' = [pc EXCEPT ![p] = "asleep"]
        /\ UNCHANGED <<outstanding, wset>>
     \/ /\ ~MustWait
        /\ outstanding' = outstanding + 1
        /\ wset' = [wset EXCEPT ![p] = {}]
        /\ pc' = [pc EXCEPT ![p] = "op"]
  /\ UNCHANGED <<diskVars, cacheVars, lh, committing, tail, bp, bootVars, panicked>>

\* The caller's half of a write: bread() a block and change its contents,
\* the buffer staying locked.  The same block may be written again and again.
Modify(p, b, v) ==
  /\ pc[p] = "op"
  /\ BufferFree(b)
  /\ Cardinality(wset[p] \union {b}) <= OpBlocks
  /\ buf' = [buf EXCEPT ![b] = v]
  /\ bp' = [bp EXCEPT ![p] = b]
  /\ pc' = [pc EXCEPT ![p] = "modified"]
  /\ UNCHANGED <<diskVars, pin, logVars, tail, wset, bootVars, panicked>>

TooBig == lh.n >= LOGSIZE \/ lh.n + 1 >= NLOG

LogWritePanics(p) ==
  /\ pc[p] = "modified"
  /\ \/ TooBig /\ panicked' = "too big a transaction"
     \/ ~TooBig /\ outstanding < 1 /\ panicked' = "log_write outside of trans"
  /\ UNCHANGED <<diskVars, cacheVars, logVars, procVars, bootVars>>

\* A bug log_write() could have: no absorption.
AbsorbNever(b) == FALSE

Absorb(b) == b \in Entries(lh)

\* log_write() and the brelse() that follows it.
LogWrite(p) ==
  /\ pc[p] = "modified"
  /\ ~TooBig
  /\ outstanding >= 1
  /\ \/ Absorb(bp[p]) /\ UNCHANGED <<lh, pin>>
     \/ /\ ~Absorb(bp[p])
        /\ lh' = AddBlock(lh, bp[p])
        /\ pin' = [pin EXCEPT ![bp[p]] = @ + 1]
  /\ wset' = [wset EXCEPT ![p] = @ \union {bp[p]}]
  /\ bp' = [bp EXCEPT ![p] = NoBlock]
  /\ pc' = [pc EXCEPT ![p] = "op"]
  /\ UNCHANGED <<diskVars, buf, outstanding, committing, tail, bootVars, panicked>>

EndOpPanics(p) ==
  /\ pc[p] = "op"
  /\ committing = 1
  /\ panicked' = "log.committing"
  /\ UNCHANGED <<diskVars, cacheVars, logVars, procVars, bootVars>>

\* A bug: the process leaves without wakeup(&log).
WakeNobody(p, next) == [pc EXCEPT ![p] = next]

\* wakeup(&log), with what process p does itself.
WakeAll(p, next) ==
  [q \in Proc |-> CASE q = p -> next
                    [] q # p /\ pc[q] = "asleep" -> "begin"
                    [] OTHER -> pc[q]]

\* The locked section at the head of end_op(): the last operation out
\* becomes the committer, any other one wakes the waiters.
EndOp(p) ==
  /\ pc[p] = "op"
  /\ committing = 0
  /\ outstanding' = outstanding - 1
  /\ wset' = [wset EXCEPT ![p] = {}]
  /\ \/ /\ outstanding = 1
        /\ committing' = 1
        /\ tail' = [tail EXCEPT ![p] = 0]
        /\ pc' = [pc EXCEPT ![p] = "write_log"]
     \/ /\ outstanding # 1
        /\ pc' = WakeAll(p, "idle")
        /\ UNCHANGED <<committing, tail>>
  /\ UNCHANGED <<diskVars, cacheVars, lh, bp, bootVars, panicked>>

-----------------------------------------------------------------------------
(* commit() and its three phases, run by the committer p without log.lock. *)

\* One turn of write_log()'s loop: the cached block goes to its log block.
WriteLog(p) ==
  LET i == tail[p] + 1 IN
  /\ pc[p] = "write_log"
  /\ tail[p] < lh.n
  /\ BufferFree(lh.block[i])
  /\ logblk' = [logblk EXCEPT ![i] = Contents(lh.block[i])]
  /\ buf' = [buf EXCEPT ![lh.block[i]] = Contents(lh.block[i])]
  /\ tail' = [tail EXCEPT ![p] = i]
  /\ UNCHANGED <<home, hdr, pin, logVars, pc, bp, wset, bootVars, panicked>>

\* A bug commit() could have: install before the header is written.
WriteLogDoneNoHead(p) ==
  /\ pc[p] = "write_log"
  /\ tail[p] >= lh.n
  /\ pc' = [pc EXCEPT ![p] = IF lh.n > 0 THEN "install" ELSE "finish"]
  /\ tail' = [tail EXCEPT ![p] = 0]
  /\ UNCHANGED <<diskVars, cacheVars, logVars, bp, wset, bootVars, panicked>>

\* The end of that loop; with nothing logged commit() does nothing.
WriteLogDone(p) ==
  /\ pc[p] = "write_log"
  /\ tail[p] >= lh.n
  /\ pc' = [pc EXCEPT ![p] = IF lh.n > 0 THEN "write_head" ELSE "finish"]
  /\ UNCHANGED <<diskVars, cacheVars, logVars, tail, bp, wset, bootVars, panicked>>

\* A bug: install_trans() goes on with write_log()'s index and installs nothing.
WriteHeadKeepsTail(p) ==
  /\ pc[p] = "write_head"
  /\ hdr' = lh
  /\ pc' = [pc EXCEPT ![p] = "install"]
  /\ UNCHANGED <<home, logblk, cacheVars, logVars, tail, bp, wset, bootVars, panicked>>

\* write_head(): the commit point.
WriteHead(p) ==
  /\ pc[p] = "write_head"
  /\ hdr' = lh
  /\ tail' = [tail EXCEPT ![p] = 0]
  /\ pc' = [pc EXCEPT ![p] = "install"]
  /\ UNCHANGED <<home, logblk, cacheVars, logVars, bp, wset, bootVars, panicked>>

\* install_trans(0), one turn of its loop: log block i goes home and the
\* reference log_write() took is dropped.
Install(p) ==
  LET i == tail[p] + 1 IN
  /\ pc[p] = "install"
  /\ tail[p] < lh.n
  /\ BufferFree(lh.block[i])
  /\ home' = [home EXCEPT ![lh.block[i]] = logblk[i]]
  /\ buf' = [buf EXCEPT ![lh.block[i]] = logblk[i]]
  /\ pin' = [pin EXCEPT ![lh.block[i]] = @ - 1]
  /\ tail' = [tail EXCEPT ![p] = i]
  /\ UNCHANGED <<logblk, hdr, logVars, pc, bp, wset, bootVars, panicked>>

InstallDone(p) ==
  /\ pc[p] = "install"
  /\ tail[p] >= lh.n
  /\ pc' = [pc EXCEPT ![p] = "clear"]
  /\ UNCHANGED <<diskVars, cacheVars, logVars, tail, bp, wset, bootVars, panicked>>

\* The last two statements of commit(): erase the transaction.
Clear(p) ==
  /\ pc[p] = "clear"
  /\ lh' = EmptyHeader
  /\ hdr' = EmptyHeader
  /\ pc' = [pc EXCEPT ![p] = "finish"]
  /\ UNCHANGED <<home, logblk, cacheVars, outstanding, committing, tail, bp, wset,
                 bootVars, panicked>>

\* The locked section at the end of end_op().
Finish(p) ==
  /\ pc[p] = "finish"
  /\ committing' = 0
  /\ pc' = WakeAll(p, "idle")
  /\ UNCHANGED <<diskVars, cacheVars, lh, outstanding, tail, bp, wset, bootVars, panicked>>

-----------------------------------------------------------------------------
(* initlog() and recover_from_log(), before any process makes a call.      *)

ReadHead ==
  /\ boot = "read_head"
  /\ lh' = hdr
  /\ rtail' = 0
  /\ boot' = "install"
  /\ UNCHANGED <<diskVars, cacheVars, outstanding, committing, procVars, panicked>>

\* install_trans(1): as Install, but nothing was pinned.
RecoverInstall ==
  LET i == rtail + 1 IN
  /\ boot = "install"
  /\ rtail < lh.n
  /\ home' = [home EXCEPT ![lh.block[i]] = logblk[i]]
  /\ buf' = [buf EXCEPT ![lh.block[i]] = logblk[i]]
  /\ rtail' = i
  /\ UNCHANGED <<logblk, hdr, pin, logVars, procVars, boot, panicked>>

RecoverClear ==
  /\ boot = "install"
  /\ rtail >= lh.n
  /\ lh' = EmptyHeader
  /\ hdr' = EmptyHeader
  /\ boot' = "up"
  /\ UNCHANGED <<home, logblk, cacheVars, outstanding, committing, procVars, rtail, panicked>>

\* Power is lost: the disk stays, everything else starts again.
Crash ==
  /\ buf' = [b \in Block |-> NoData]
  /\ pin' = [b \in Block |-> 0]
  /\ lh' = EmptyHeader
  /\ outstanding' = 0
  /\ committing' = 0
  /\ pc' = [p \in Proc |-> "idle"]
  /\ tail' = [p \in Proc |-> 0]
  /\ bp' = [p \in Proc |-> NoBlock]
  /\ wset' = [p \in Proc |-> {}]
  /\ boot' = "read_head"
  /\ rtail' = 0
  /\ UNCHANGED <<diskVars, panicked>>

-----------------------------------------------------------------------------
Commit(p) == \/ WriteLog(p) \/ WriteLogDone(p) \/ WriteHead(p)
             \/ Install(p) \/ InstallDone(p) \/ Clear(p) \/ Finish(p)

Recover == ReadHead \/ RecoverInstall \/ RecoverClear

Next ==
  /\ panicked = "no"
  /\ \/ \E p \in Proc : \/ Call(p) \/ BeginOp(p)
                        \/ \E b \in Block, v \in Val : Modify(p, b, v)
                        \/ LogWrite(p) \/ LogWritePanics(p)
                        \/ EndOp(p) \/ EndOpPanics(p)
                        \/ Commit(p)
     \/ \E b \in Block : Recycle(b)
     \/ Recover
     \/ Crash

Spec == Init /\ [][Next]_vars

(* A process that has entered the log code keeps running until it sleeps;  *)
(* a system call makes finitely many writes and then calls end_op(), hence *)
(* the strong fairness of EndOp.  Nothing forces a call or a crash.        *)
LiveSpec ==
  /\ Spec
  /\ \A p \in Proc : /\ WF_vars(BeginOp(p))
                     /\ WF_vars(LogWrite(p))
                     /\ SF_vars(EndOp(p))
                     /\ WF_vars(Commit(p))
  /\ WF_vars(Recover)

-----------------------------------------------------------------------------
(* Properties.                                                             *)

TypeOK ==
  /\ home \in [Block -> Val]
  /\ logblk \in [1..LOGSIZE -> Val]
  /\ hdr \in Header
  /\ buf \in [Block -> Val \union {NoData}]
  /\ pin \in [Block -> Nat]
  /\ lh \in Header
  /\ outstanding \in Nat
  /\ committing \in {0, 1}
  /\ pc \in [Proc -> PC]
  /\ tail \in [Proc -> Nat]
  /\ bp \in [Proc -> Block \union {NoBlock}]
  /\ wset \in [Proc -> SUBSET Block]
  /\ boot \in {"read_head", "install", "up"}
  /\ rtail \in Nat
  /\ panicked \in {"no", "too big a transaction", "log_write outside of trans",
                   "log.committing"}

Active == {p \in Proc : pc[p] \in InOp}
Committers == {p \in Proc : pc[p] \in InCommit}

\* The commit runs alone although it holds no lock (log.c:167): while some
\* process is inside commit(), committing is set, nobody else commits and no
\* operation is between begin_op() and end_op(), so no block changes under it.
CommitAlone ==
  \A p \in Committers : committing = 1 /\ Committers = {p} /\ Active = {}

\* The disk as recovery would leave it if the power failed now.
Durable ==
  [b \in Block |->
     IF \E i \in 1..hdr.n : hdr.block[i] = b
     THEN logblk[CHOOSE i \in 1..hdr.n : hdr.block[i] = b]
     ELSE home[b]]

\* What an operation reads now.
Current == IF boot = "up" THEN [b \in Block |-> Contents(b)] ELSE Durable

Store == INSTANCE AtomicStore WITH durable <- Durable, current <- Current, active <- Active

\* Through any interleaving of operations, commits, evictions, crashes and
\* crashes during recovery, the disk changes only as AtomicStore allows: whole
\* groups of finished operations, never a part of one (log.c:10-16).
ImplementsStore == Store!AbsSpec

\* A block's cached contents are the only copy of a write until write_log()
\* has saved them, so exactly the logged and not yet installed blocks are
\* pinned, once each, and a cached block nobody changed equals the disk.
Waiting(b) ==
  \E i \in 1..lh.n :
    /\ lh.block[i] = b
    /\ \A p \in Proc : pc[p] \in {"install", "clear"} => i > tail[p]

PinnedExactly ==
  boot = "up" =>
    \A b \in Block :
      /\ pin[b] = IF Waiting(b) THEN 1 ELSE 0
      /\ Waiting(b) => buf[b] # NoData
      /\ ~Waiting(b) /\ BufferFree(b) => Contents(b) = home[b]

\* The reservation of begin_op() is enough for calls that leave a block of it
\* unused: no sequence of operations that each write at most OpBlocks blocks
\* reaches one of the log's panics.
NeverPanics == panicked = "no"

\* When end_op() of the last operation returns, everything written so far is
\* on the disk for good.
DurableOnReturn == \A p \in Proc : pc[p] = "finish" => Durable = Current

\* A process asleep in begin_op() is woken: either by an end_op() that gave
\* room back or by the end of the commit it waits for.
Woken == \A p \in Proc : pc[p] = "asleep" ~> pc[p] # "asleep"
=============================================================================
