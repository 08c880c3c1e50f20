----------------------------- MODULE LogProofs -----------------------------
(***************************************************************************)
(* Proofs about Log: the inductive invariant IInv, the safety properties   *)
(* that follow from it, and that the log implements AtomicStore.  The      *)
(* invariant says, for each phase of a commit and of recovery, which of    *)
(* the three copies of a block (cache, log block, home block) agree.       *)
(***************************************************************************)
EXTENDS Log, FiniteSetTheorems, TLAPS

-----------------------------------------------------------------------------
(* The inductive invariant.                                                *)

\* committing is set exactly while one process is inside commit(), and then
\* no operation runs.
CommitInv ==
  /\ committing = 1 <=> \E p \in Proc : pc[p] \in InCommit
  /\ \A p, q \in Proc : pc[p] \in InCommit /\ pc[q] \in InCommit => p = q
  /\ \A p, q \in Proc : pc[p] \in InCommit => pc[q] \notin InOp

\* log.outstanding counts the operations that run.
CountInv == outstanding = Cardinality(Active)

\* A process holds a buffer exactly between its bread() and its brelse(), the
\* buffer is cached, and no two processes hold the same one.
BufInv ==
  /\ \A p \in Proc : pc[p] = "modified" => bp[p] \in Block /\ buf[bp[p]] # NoData
  /\ \A p \in Proc : pc[p] # "modified" => bp[p] = NoBlock
  /\ \A p, q \in Proc : bp[p] = bp[q] /\ bp[p] # NoBlock => p = q

\* Absorption: a header names each block once.
WellFormed(h) ==
  /\ \A i \in 1..h.n : h.block[i] \in Block
  /\ \A i, j \in 1..h.n : h.block[i] = h.block[j] => i = j

\* The header on the disk is the one in memory during the installation of a
\* commit, and empty at every other time after boot.
HeaderInv ==
  /\ WellFormed(lh)
  /\ WellFormed(hdr)
  /\ \A p \in Proc : pc[p] \in {"install", "clear"} => hdr = lh
  /\ boot = "up" /\ (\A p \in Proc : pc[p] \notin {"install", "clear"}) => hdr.n = 0

\* Until recovery is over nobody runs and the cache agrees with the disk.
BootInv ==
  /\ boot # "up" => /\ \A p \in Proc : pc[p] = "idle"
                    /\ \A b \in Block : pin[b] = 0 /\ buf[b] \in {NoData, home[b]}
  /\ boot = "install" => /\ lh = hdr
                         /\ rtail <= lh.n
                         /\ \A i \in 1..rtail : home[hdr.block[i]] = logblk[i]

\* How far the committer has come: what it has copied to the log and what it
\* has installed.
CommitDataInv ==
  \A p \in Proc :
    /\ pc[p] \in {"write_log", "install"} => tail[p] <= lh.n
    /\ pc[p] = "write_log" =>
         \A i \in 1..tail[p] : logblk[i] = Contents(lh.block[i])
    /\ pc[p] \in {"write_head", "install", "clear"} =>
         \A i \in 1..lh.n : logblk[i] = Contents(lh.block[i])
    /\ pc[p] = "install" =>
         \A i \in 1..tail[p] : logblk[i] = home[lh.block[i]]
    /\ pc[p] = "clear" =>
         /\ tail[p] = lh.n
         /\ \A i \in 1..lh.n : logblk[i] = home[lh.block[i]]
    /\ pc[p] = "finish" => lh.n = 0

IInv == /\ TypeOK /\ CommitInv /\ CountInv /\ BufInv /\ HeaderInv /\ BootInv
        /\ CommitDataInv /\ PinnedExactly

-----------------------------------------------------------------------------
(* Facts about the data structures.                                        *)

\* What AddBlock() does to a header that has room.
LEMMA HeaderFacts ==
  /\ EmptyHeader \in Header
  /\ EmptyHeader.n = 0
  /\ \A h \in Header : /\ h.n \in Nat /\ h.n <= LOGSIZE
                       /\ \A i \in 1..LOGSIZE : h.block[i] \in Block \union {NoBlock}
  /\ \A h \in Header, b \in Block : h.n < LOGSIZE =>
       /\ AddBlock(h, b) \in Header
       /\ AddBlock(h, b).n = h.n + 1
       /\ AddBlock(h, b).block[h.n + 1] = b
       /\ \A i \in 1..h.n : AddBlock(h, b).block[i] = h.block[i]
<1> USE LogAssumption DEF LogAssumption, Header, EmptyHeader, AddBlock
<1>1. EmptyHeader \in Header /\ EmptyHeader.n = 0
  OBVIOUS
<1>2. ASSUME NEW h \in Header
      PROVE  /\ h.n \in Nat /\ h.n <= LOGSIZE
             /\ \A i \in 1..LOGSIZE : h.block[i] \in Block \union {NoBlock}
  OBVIOUS
<1>3. ASSUME NEW h \in Header, NEW b \in Block, h.n < LOGSIZE
      PROVE  /\ AddBlock(h, b) \in Header
             /\ AddBlock(h, b).n = h.n + 1
             /\ AddBlock(h, b).block[h.n + 1] = b
             /\ \A i \in 1..h.n : AddBlock(h, b).block[i] = h.block[i]
  BY <1>3
<1>4. QED
  BY <1>1, <1>2, <1>3

\* The numbers of a well-typed state, in the form the other proofs use them.
LEMMA Numbers ==
  ASSUME TypeOK
  PROVE  /\ lh.n \in Nat /\ lh.n <= LOGSIZE /\ hdr.n \in Nat /\ hdr.n <= LOGSIZE
         /\ LOGSIZE \in Nat /\ rtail \in Nat /\ outstanding \in Nat
         /\ tail \in [Proc -> Nat] /\ pc \in [Proc -> PC]
         /\ bp \in [Proc -> Block \union {NoBlock}]
         /\ pin \in [Block -> Nat]
         /\ home \in [Block -> Val] /\ logblk \in [1..LOGSIZE -> Val]
         /\ buf \in [Block -> Val \union {NoData}] /\ NoData \notin Val
         /\ NoBlock \notin Block /\ EmptyHeader.n = 0
  BY HeaderFacts, LogAssumption DEF TypeOK, LogAssumption

\* log_write() keeps the header's entries distinct.
LEMMA AddBlockWellFormed ==
  ASSUME NEW h \in Header, NEW b \in Block, WellFormed(h), h.n < LOGSIZE,
         b \notin Entries(h)
  PROVE  WellFormed(AddBlock(h, b))
<1> DEFINE g == AddBlock(h, b)
<1>1. h.n \in Nat /\ g.n = h.n + 1 /\ g.block[h.n + 1] = b
  BY HeaderFacts
<1>2. \A i \in 1..h.n : g.block[i] = h.block[i]
  BY HeaderFacts
<1>3. \A i \in 1..h.n : h.block[i] # b
  BY DEF Entries
<1> HIDE DEF g
<1>4. WellFormed(g)
  BY <1>1, <1>2, <1>3 DEF WellFormed
<1> QED
  BY <1>4 DEF g

-----------------------------------------------------------------------------
(* The initial state.                                                      *)

LEMMA InitInv == Init => IInv
<1> SUFFICES ASSUME Init PROVE IInv
  OBVIOUS
<1>1. TypeOK
  BY HeaderFacts, LogAssumption
     DEF LogAssumption, Init, TypeOK, PC, InCommit, InOp
<1>2. Active = {}
  BY DEF Init, Active, InOp
<1>3. CountInv
  BY <1>2, FS_EmptySet DEF CountInv, Init
<1>4. CommitInv /\ BufInv /\ BootInv /\ CommitDataInv /\ PinnedExactly
  BY DEF Init, CommitInv, BufInv, BootInv, CommitDataInv, PinnedExactly, InCommit, InOp
<1>5. HeaderInv
  BY HeaderFacts DEF Init, HeaderInv, WellFormed
<1> QED
  BY <1>1, <1>3, <1>4, <1>5 DEF IInv

-----------------------------------------------------------------------------
(* Each part of the invariant is preserved by every step.                  *)

LEMMA TypeStep == ASSUME IInv, Next PROVE TypeOK'
<1> USE DEF PC, InOp, InCommit, vars, diskVars, cacheVars, logVars, procVars, bootVars
<1>n. /\ lh.n \in Nat /\ lh.n <= LOGSIZE /\ LOGSIZE \in Nat /\ rtail \in Nat
      /\ outstanding \in Nat /\ tail \in [Proc -> Nat] /\ pin \in [Block -> Nat]
  BY Numbers DEF IInv
<1>h. EmptyHeader \in Header
  BY HeaderFacts
<1>i. TypeOK
  BY DEF IInv
<1>w. \A i \in 1..lh.n : lh.block[i] \in Block
  BY DEF IInv, HeaderInv, WellFormed
<1>1. ASSUME NEW p \in Proc, BeginOp(p) PROVE TypeOK'
  <2>1. outstanding' \in Nat
    BY <1>1, <1>n DEF BeginOp
  <2>2. wset' \in [Proc -> SUBSET Block]
    BY <1>1, <1>i DEF BeginOp, TypeOK
  <2>3. pc' \in [Proc -> PC]
    BY <1>1, <1>i DEF BeginOp, TypeOK
  <2> QED
    BY <1>1, <1>i, <2>1, <2>2, <2>3 DEF BeginOp, TypeOK
<1>2. ASSUME NEW p \in Proc, LogWrite(p) PROVE TypeOK'
  <2>1. bp[p] \in Block
    BY <1>2 DEF LogWrite, IInv, BufInv
  <2>2. lh.n < LOGSIZE
    BY <1>2, <1>n DEF LogWrite, TooBig
  <2>3. AddBlock(lh, bp[p]) \in Header
    BY <1>i, <2>1, <2>2, HeaderFacts DEF TypeOK
  <2>4. lh' \in Header
    BY <1>2, <1>i, <2>3 DEF LogWrite, TypeOK
  <2>5. pin[bp[p]] + 1 \in Nat
    BY <1>n, <2>1
  <2>6. pin' \in [Block -> Nat]
    <3>1. CASE UNCHANGED <<lh, pin>>
      BY <1>i, <3>1 DEF TypeOK
    <3>2. CASE pin' = [pin EXCEPT ![bp[p]] = @ + 1]
      BY <1>i, <2>1, <2>5, <3>2 DEF TypeOK
    <3> QED
      BY <1>2, <3>1, <3>2 DEF LogWrite
  <2>7. wset' \in [Proc -> SUBSET Block]
    BY <1>2, <1>i, <2>1 DEF LogWrite, TypeOK
  <2> QED
    BY <1>2, <1>i, <2>4, <2>6, <2>7 DEF LogWrite, TypeOK
<1>3. ASSUME NEW p \in Proc, EndOp(p) PROVE TypeOK'
  <2>1. outstanding \in Nat \ {0}
    <3>1. p \in Active /\ IsFiniteSet(Active)
      BY <1>3, LogAssumption, FS_Subset DEF EndOp, Active, LogAssumption
    <3> QED
      BY <1>n, <3>1, FS_EmptySet DEF IInv, CountInv
  <2>2. outstanding' \in Nat
    BY <1>3, <2>1 DEF EndOp
  <2>3. pc' \in [Proc -> PC]
    BY <1>3, <1>i DEF EndOp, WakeAll, TypeOK
  <2>4. tail' \in [Proc -> Nat]
    BY <1>3, <1>n DEF EndOp
  <2>5. wset' \in [Proc -> SUBSET Block]
    BY <1>3, <1>i DEF EndOp, TypeOK
  <2> QED
    BY <1>3, <1>i, <2>2, <2>3, <2>4, <2>5 DEF EndOp, TypeOK
<1>4. ASSUME NEW p \in Proc, WriteLog(p) PROVE TypeOK'
  <2>1. tail[p] + 1 \in 1..lh.n /\ tail[p] + 1 \in 1..LOGSIZE /\ tail[p] + 1 \in Nat
    BY <1>4, <1>n DEF WriteLog
  <2>2. Contents(lh.block[tail[p] + 1]) \in Val
    BY <1>i, <1>w, <2>1 DEF Contents, TypeOK
  <2>3. logblk' \in [1..LOGSIZE -> Val]
    BY <1>4, <1>i, <2>1, <2>2 DEF WriteLog, TypeOK
  <2>4. buf' \in [Block -> Val \union {NoData}]
    BY <1>4, <1>i, <1>w, <2>1, <2>2 DEF WriteLog, TypeOK
  <2>5. tail' \in [Proc -> Nat]
    BY <1>4, <1>n, <2>1 DEF WriteLog
  <2> QED
    BY <1>4, <1>i, <2>3, <2>4, <2>5 DEF WriteLog, TypeOK
<1>5. ASSUME NEW p \in Proc, Install(p) PROVE TypeOK'
  <2>1. tail[p] + 1 \in 1..lh.n /\ tail[p] + 1 \in 1..LOGSIZE /\ tail[p] + 1 \in Nat
    BY <1>5, <1>n DEF Install
  <2>2. logblk[tail[p] + 1] \in Val /\ lh.block[tail[p] + 1] \in Block
    BY <1>i, <1>w, <2>1 DEF TypeOK
  <2>3. home' \in [Block -> Val] /\ buf' \in [Block -> Val \union {NoData}]
    BY <1>5, <1>i, <2>2 DEF Install, TypeOK
  <2>4. tail' \in [Proc -> Nat]
    BY <1>5, <1>n, <2>1 DEF Install
  <2>5. pin' \in [Block -> Nat]
    <3>1. boot = "up"
      BY <1>5 DEF Install, IInv, BootInv
    <3>2. \A q \in Proc : pc[q] \in {"install", "clear"} => q = p
      BY <1>5 DEF Install, IInv, CommitInv
    <3>3. Waiting(lh.block[tail[p] + 1])
      BY <1>n, <2>1, <3>2 DEF Waiting
    <3>4. pin[lh.block[tail[p] + 1]] = 1
      BY <2>2, <3>1, <3>3 DEF IInv, PinnedExactly
    <3>5. pin[lh.block[tail[p] + 1]] - 1 \in Nat
      BY <3>4
    <3> QED
      BY <1>5, <1>i, <2>2, <3>5 DEF Install, TypeOK
  <2> QED
    BY <1>5, <1>i, <2>3, <2>4, <2>5 DEF Install, TypeOK
<1>6. ASSUME RecoverInstall PROVE TypeOK'
  <2>1. rtail + 1 \in 1..lh.n /\ rtail + 1 \in 1..LOGSIZE /\ rtail + 1 \in Nat
    BY <1>6, <1>n DEF RecoverInstall
  <2>2. logblk[rtail + 1] \in Val /\ lh.block[rtail + 1] \in Block
    BY <1>i, <1>w, <2>1 DEF TypeOK
  <2>3. home' \in [Block -> Val] /\ buf' \in [Block -> Val \union {NoData}]
    BY <1>6, <1>i, <2>2 DEF RecoverInstall, TypeOK
  <2>4. rtail' \in Nat
    BY <1>6, <2>1 DEF RecoverInstall
  <2> QED
    BY <1>6, <1>i, <2>3, <2>4 DEF RecoverInstall, TypeOK
<1>7. ASSUME NEW p \in Proc, Call(p) \/ LogWritePanics(p) \/ EndOpPanics(p) PROVE TypeOK'
  BY <1>7, <1>i DEF Call, LogWritePanics, EndOpPanics, TypeOK
<1>8. ASSUME NEW p \in Proc, NEW b \in Block, NEW v \in Val, Modify(p, b, v) PROVE TypeOK'
  BY <1>8, <1>i DEF Modify, TypeOK
<1>9. ASSUME NEW p \in Proc, WriteLogDone(p) \/ InstallDone(p) \/ Finish(p) PROVE TypeOK'
  BY <1>9, <1>i DEF WriteLogDone, InstallDone, Finish, WakeAll, TypeOK
<1>10. ASSUME NEW p \in Proc, WriteHead(p) \/ Clear(p) PROVE TypeOK'
  <2>1. lh' \in Header /\ hdr' \in Header
    BY <1>10, <1>i, <1>h DEF WriteHead, Clear, TypeOK
  <2>2. tail' \in [Proc -> Nat]
    BY <1>10, <1>n DEF WriteHead, Clear
  <2>3. pc' \in [Proc -> PC]
    BY <1>10, <1>i DEF WriteHead, Clear, TypeOK
  <2> QED
    BY <1>10, <1>i, <2>1, <2>2, <2>3 DEF WriteHead, Clear, TypeOK
<1>11. ASSUME NEW b \in Block, Recycle(b) PROVE TypeOK'
  BY <1>11, <1>i DEF Recycle, TypeOK
<1>12. ASSUME ReadHead \/ RecoverClear PROVE TypeOK'
  <2>1. lh' \in Header /\ hdr' \in Header
    BY <1>12, <1>i, <1>h DEF ReadHead, RecoverClear, TypeOK
  <2>2. rtail' \in Nat /\ boot' \in {"read_head", "install", "up"}
    BY <1>12, <1>n DEF ReadHead, RecoverClear
  <2> QED
    BY <1>12, <1>i, <2>1, <2>2 DEF ReadHead, RecoverClear, TypeOK
<1>13. ASSUME Crash PROVE TypeOK'
  BY <1>13, <1>i, <1>h DEF Crash, TypeOK
<1> QED
  BY <1>1, <1>2, <1>3, <1>4, <1>5, <1>6, <1>7, <1>8, <1>9, <1>10, <1>11, <1>12, <1>13
     DEF Next, Commit, Recover

LEMMA CommitStep == ASSUME IInv, Next PROVE CommitInv'
<1> USE DEF PC, InOp, InCommit, vars, diskVars, cacheVars, logVars, procVars, bootVars
<1>i. CommitInv /\ pc \in [Proc -> PC]
  BY Numbers DEF IInv
<1>1. ASSUME NEW p \in Proc, Call(p) \/ BeginOp(p) \/ LogWrite(p) PROVE CommitInv'
  BY <1>1, <1>i DEF CommitInv, Call, BeginOp, MustWait, LogWrite
<1>2. ASSUME NEW p \in Proc, NEW b \in Block, NEW v \in Val, Modify(p, b, v) PROVE CommitInv'
  BY <1>2, <1>i DEF CommitInv, Modify
<1>3. ASSUME NEW p \in Proc, EndOp(p) PROVE CommitInv'
  <2>1. \A q \in Proc : outstanding = 1 /\ pc[q] \in InOp => q = p
    <3> SUFFICES ASSUME outstanding = 1, NEW q \in Proc, pc[q] \in InOp PROVE q = p
      OBVIOUS
    <3>1. IsFiniteSet(Active) /\ Cardinality(Active) = 1
      BY LogAssumption, FS_Subset DEF Active, LogAssumption, IInv, CountInv
    <3>2. PICK x : Active = {x}
      BY <3>1, FS_Singleton
    <3> QED
      BY <1>3, <3>2 DEF Active, EndOp
  <2> QED
    BY <1>3, <1>i, <2>1 DEF CommitInv, EndOp, WakeAll
<1>4. ASSUME NEW p \in Proc, Commit(p) PROVE CommitInv'
  BY <1>4, <1>i DEF CommitInv, Commit, WriteLog, WriteLogDone, WriteHead, Install,
                    InstallDone, Clear, Finish, WakeAll
<1>5. ASSUME NEW p \in Proc, LogWritePanics(p) \/ EndOpPanics(p) PROVE CommitInv'
  BY <1>5, <1>i DEF CommitInv, LogWritePanics, EndOpPanics
<1>6. ASSUME NEW b \in Block, Recycle(b) PROVE CommitInv'
  BY <1>6, <1>i DEF CommitInv, Recycle
<1>7. ASSUME Recover PROVE CommitInv'
  BY <1>7, <1>i DEF CommitInv, Recover, ReadHead, RecoverInstall, RecoverClear
<1>8. ASSUME Crash PROVE CommitInv'
  BY <1>8, <1>i DEF CommitInv, Crash
<1> QED
  BY <1>1, <1>2, <1>3, <1>4, <1>5, <1>6, <1>7, <1>8 DEF Next

LEMMA CountStep == ASSUME IInv, Next PROVE CountInv'
<1> USE DEF PC, InOp, InCommit, vars, diskVars, cacheVars, logVars, procVars, bootVars
<1>i. CountInv /\ outstanding \in Nat /\ pc \in [Proc -> PC] /\ IsFiniteSet(Active)
  BY Numbers, LogAssumption, FS_Subset DEF IInv, Active, LogAssumption
<1>1. ASSUME NEW p \in Proc, BeginOp(p) PROVE CountInv'
  <2>1. CASE MustWait
    <3>1. Active' = Active /\ outstanding' = outstanding
      BY <1>1, <1>i, <2>1 DEF BeginOp, Active
    <3> QED
      BY <1>i, <3>1 DEF CountInv
  <2>2. CASE ~MustWait
    <3>1. Active' = Active \union {p} /\ p \notin Active /\ outstanding' = outstanding + 1
      BY <1>1, <1>i, <2>2 DEF BeginOp, Active
    <3> QED
      BY <1>i, <3>1, FS_AddElement DEF CountInv
  <2> QED
    BY <2>1, <2>2
<1>2. ASSUME NEW p \in Proc, EndOp(p) PROVE CountInv'
  <2>1. Active' = Active \ {p} /\ p \in Active /\ outstanding' = outstanding - 1
    BY <1>2, <1>i DEF EndOp, WakeAll, Active
  <2> QED
    BY <1>i, <2>1, FS_RemoveElement DEF CountInv
<1>3. ASSUME NEW p \in Proc, Call(p) \/ LogWrite(p) \/ Commit(p) PROVE CountInv'
  <2>1. Active' = Active /\ outstanding' = outstanding
    BY <1>3, <1>i DEF Active, Call, LogWrite, Commit, WriteLog, WriteLogDone, WriteHead,
                      Install, InstallDone, Clear, Finish, WakeAll
  <2> QED
    BY <1>i, <2>1 DEF CountInv
<1>4. ASSUME NEW p \in Proc, NEW b \in Block, NEW v \in Val, Modify(p, b, v) PROVE CountInv'
  <2>1. Active' = Active /\ outstanding' = outstanding
    BY <1>4, <1>i DEF Active, Modify
  <2> QED
    BY <1>i, <2>1 DEF CountInv
<1>5. ASSUME NEW p \in Proc, LogWritePanics(p) \/ EndOpPanics(p) PROVE CountInv'
  BY <1>5, <1>i DEF CountInv, Active, LogWritePanics, EndOpPanics
<1>6. ASSUME NEW b \in Block, Recycle(b) PROVE CountInv'
  BY <1>6, <1>i DEF CountInv, Active, Recycle
<1>7. ASSUME Recover PROVE CountInv'
  BY <1>7, <1>i DEF CountInv, Active, Recover, ReadHead, RecoverInstall, RecoverClear
<1>8. ASSUME Crash PROVE CountInv'
  <2>1. Active' = {} /\ outstanding' = 0
    BY <1>8 DEF Active, Crash
  <2> QED
    BY <2>1, FS_EmptySet DEF CountInv
<1> QED
  BY <1>1, <1>2, <1>3, <1>4, <1>5, <1>6, <1>7, <1>8 DEF Next

LEMMA BufStep == ASSUME IInv, Next PROVE BufInv'
<1> USE DEF PC, InOp, InCommit, vars, diskVars, cacheVars, logVars, procVars, bootVars
<1>i. /\ BufInv /\ pc \in [Proc -> PC] /\ bp \in [Proc -> Block \union {NoBlock}]
      /\ buf \in [Block -> Val \union {NoData}] /\ NoData \notin Val
      /\ logblk \in [1..LOGSIZE -> Val] /\ home \in [Block -> Val]
  BY Numbers DEF IInv
<1>n. \A i \in Nat : i < lh.n => i + 1 \in 1..lh.n /\ i + 1 \in 1..LOGSIZE
  BY Numbers DEF IInv
<1>w. \A i \in 1..lh.n : lh.block[i] \in Block
  BY DEF IInv, HeaderInv, WellFormed
<1>t. rtail \in Nat /\ tail \in [Proc -> Nat]
  BY Numbers DEF IInv
<1>1. ASSUME NEW p \in Proc, Call(p) \/ BeginOp(p) \/ LogWrite(p) \/ EndOp(p) PROVE BufInv'
  BY <1>1, <1>i DEF BufInv, Call, BeginOp, LogWrite, EndOp, WakeAll
<1>2. ASSUME NEW p \in Proc, NEW b \in Block, NEW v \in Val, Modify(p, b, v) PROVE BufInv'
  BY <1>2, <1>i DEF BufInv, Modify, BufferFree
<1>3. ASSUME NEW p \in Proc, WriteLog(p) PROVE BufInv'
  <2> DEFINE c == lh.block[tail[p] + 1]
  <2>1. c \in Block
    BY <1>3, <1>n, <1>w, <1>t DEF WriteLog
  <2>2. Contents(c) # NoData
    BY <1>i, <2>1 DEF Contents
  <2>3. buf' = [buf EXCEPT ![c] = Contents(c)] /\ UNCHANGED <<pc, bp>>
    BY <1>3 DEF WriteLog
  <2> HIDE DEF c
  <2> QED
    BY <1>i, <2>1, <2>2, <2>3 DEF BufInv
<1>4. ASSUME NEW p \in Proc, Install(p) PROVE BufInv'
  <2> DEFINE c == lh.block[tail[p] + 1]
             d == logblk[tail[p] + 1]
  <2>1. c \in Block /\ d # NoData
    BY <1>4, <1>n, <1>w, <1>t, <1>i DEF Install
  <2>2. buf' = [buf EXCEPT ![c] = d] /\ UNCHANGED <<pc, bp>>
    BY <1>4 DEF Install
  <2> HIDE DEF c, d
  <2> QED
    BY <1>i, <2>1, <2>2 DEF BufInv
<1>5. ASSUME NEW p \in Proc, WriteLogDone(p) \/ WriteHead(p) \/ InstallDone(p)
                             \/ Clear(p) \/ Finish(p)
      PROVE BufInv'
  BY <1>5, <1>i DEF BufInv, WriteLogDone, WriteHead, InstallDone, Clear, Finish, WakeAll
<1>6. ASSUME NEW p \in Proc, LogWritePanics(p) \/ EndOpPanics(p) PROVE BufInv'
  BY <1>6, <1>i DEF BufInv, LogWritePanics, EndOpPanics
<1>7. ASSUME NEW b \in Block, Recycle(b) PROVE BufInv'
  BY <1>7, <1>i DEF BufInv, Recycle, BufferFree
<1>8. ASSUME ReadHead \/ RecoverClear PROVE BufInv'
  BY <1>8, <1>i DEF BufInv, ReadHead, RecoverClear
<1>9. ASSUME RecoverInstall PROVE BufInv'
  BY <1>9, <1>i DEF BufInv, RecoverInstall, IInv, BootInv
<1>10. ASSUME Crash PROVE BufInv'
  BY <1>10, <1>i DEF BufInv, Crash
<1> QED
  BY <1>1, <1>2, <1>3, <1>4, <1>5, <1>6, <1>7, <1>8, <1>9, <1>10 DEF Next, Commit, Recover

LEMMA HeaderStep == ASSUME IInv, Next PROVE HeaderInv'
<1> USE DEF PC, InOp, InCommit, vars, diskVars, cacheVars, logVars, procVars, bootVars
<1>i. HeaderInv /\ pc \in [Proc -> PC] /\ EmptyHeader.n = 0
  BY Numbers DEF IInv
<1>e. WellFormed(EmptyHeader)
  BY HeaderFacts DEF WellFormed
<1>1. ASSUME NEW p \in Proc, Call(p) \/ BeginOp(p) \/ EndOp(p) \/ LogWritePanics(p)
                             \/ EndOpPanics(p)
      PROVE HeaderInv'
  <2>1. CASE Call(p)
    BY <1>i, <2>1 DEF HeaderInv, WellFormed, Call
  <2>4. CASE LogWritePanics(p) \/ EndOpPanics(p)
    <3>1. UNCHANGED <<lh, hdr, pc, boot>>
      BY <2>4 DEF LogWritePanics, EndOpPanics
    <3> QED
      BY <1>i, <3>1 DEF HeaderInv, WellFormed
  <2>2. CASE BeginOp(p)
    BY <1>i, <2>2 DEF HeaderInv, WellFormed, BeginOp
  <2>3. CASE EndOp(p)
    BY <1>i, <2>3 DEF HeaderInv, WellFormed, EndOp, WakeAll
  <2> QED
    BY <1>1, <2>1, <2>2, <2>3, <2>4
<1>2. ASSUME NEW p \in Proc, NEW b \in Block, NEW v \in Val, Modify(p, b, v) PROVE HeaderInv'
  BY <1>2, <1>i DEF HeaderInv, WellFormed, Modify
<1>3. ASSUME NEW p \in Proc, LogWrite(p) PROVE HeaderInv'
  <2>1. bp[p] \in Block
    BY <1>3 DEF LogWrite, IInv, BufInv
  <2>n. lh.n \in Nat /\ LOGSIZE \in Nat /\ lh \in Header
    BY Numbers DEF IInv, TypeOK
  <2>2. lh.n < LOGSIZE
    BY <1>3, <2>n DEF LogWrite, TooBig
  <2>3. WellFormed(lh')
    <3>1. CASE UNCHANGED lh
      BY <1>i, <3>1 DEF HeaderInv, WellFormed
    <3>2. CASE ~Absorb(bp[p]) /\ lh' = AddBlock(lh, bp[p])
      BY <1>i, <2>n, <2>1, <2>2, <3>2, AddBlockWellFormed DEF HeaderInv, Absorb
    <3> QED
      BY <1>3, <3>1, <3>2 DEF LogWrite
  <2>4. \A q \in Proc : pc[q] \notin InCommit
    BY <1>3 DEF LogWrite, IInv, CommitInv
  <2>5. WellFormed(hdr') /\ \A q \in Proc : pc'[q] \notin {"install", "clear"}
    BY <1>3, <1>i, <2>4 DEF HeaderInv, WellFormed, LogWrite
  <2>6. boot' = "up" => hdr'.n = 0
    BY <1>3, <1>i, <2>4 DEF HeaderInv, LogWrite
  <2> QED
    BY <2>3, <2>5, <2>6 DEF HeaderInv, WellFormed
<1>4. ASSUME NEW p \in Proc, Commit(p) PROVE HeaderInv'
  <2>1. \A q \in Proc : pc[q] \in InCommit => q = p
    BY <1>4 DEF Commit, WriteLog, WriteLogDone, WriteHead, Install, InstallDone, Clear,
                Finish, IInv, CommitInv
  <2>2. CASE WriteLog(p) \/ WriteLogDone(p) \/ Install(p) \/ InstallDone(p)
    BY <1>i, <2>1, <2>2 DEF HeaderInv, WellFormed, WriteLog, WriteLogDone, Install, InstallDone
  <2>3. CASE WriteHead(p)
    BY <1>i, <2>1, <2>3 DEF HeaderInv, WellFormed, WriteHead
  <2>4. CASE Clear(p)
    BY <1>i, <1>e, <2>1, <2>4 DEF HeaderInv, Clear
  <2>5. CASE Finish(p)
    BY <1>i, <2>1, <2>5 DEF HeaderInv, WellFormed, Finish, WakeAll
  <2> QED
    BY <1>4, <2>2, <2>3, <2>4, <2>5 DEF Commit
<1>5. ASSUME NEW b \in Block, Recycle(b) PROVE HeaderInv'
  BY <1>5, <1>i DEF HeaderInv, WellFormed, Recycle
<1>6. ASSUME ReadHead \/ RecoverInstall PROVE HeaderInv'
  <2>1. boot' # "up" /\ \A q \in Proc : pc'[q] = "idle"
    BY <1>6 DEF ReadHead, RecoverInstall, IInv, BootInv
  <2> QED
    BY <1>6, <1>i, <2>1 DEF HeaderInv, WellFormed, ReadHead, RecoverInstall
<1>7. ASSUME RecoverClear PROVE HeaderInv'
  <2>1. \A q \in Proc : pc'[q] = "idle"
    BY <1>7 DEF RecoverClear, IInv, BootInv
  <2> QED
    BY <1>7, <1>i, <1>e, <2>1 DEF HeaderInv, RecoverClear
<1>8. ASSUME Crash PROVE HeaderInv'
  <2>1. lh' = EmptyHeader /\ hdr' = hdr /\ boot' # "up" /\ \A q \in Proc : pc'[q] = "idle"
    BY <1>8 DEF Crash
  <2> QED
    BY <1>i, <1>e, <2>1 DEF HeaderInv
<1> QED
  BY <1>1, <1>2, <1>3, <1>4, <1>5, <1>6, <1>7, <1>8 DEF Next, Recover

LEMMA BootStep == ASSUME IInv, Next PROVE BootInv'
<1> USE DEF PC, InOp, InCommit, vars, diskVars, cacheVars, logVars, procVars, bootVars
<1>i. BootInv
  BY DEF IInv
<1>1. ASSUME NEW p \in Proc,
             Call(p) \/ BeginOp(p) \/ LogWrite(p) \/ LogWritePanics(p) \/ EndOp(p)
             \/ EndOpPanics(p) \/ Commit(p)
      PROVE BootInv'
  <2>1. boot = "up" /\ boot' = "up"
    BY <1>1, <1>i DEF BootInv, Call, BeginOp, LogWrite, LogWritePanics, EndOp, EndOpPanics,
       Commit, WriteLog, WriteLogDone, WriteHead, Install, InstallDone, Clear, Finish
  <2> QED
    BY <2>1 DEF BootInv
<1>2. ASSUME NEW p \in Proc, NEW b \in Block, NEW v \in Val, Modify(p, b, v) PROVE BootInv'
  BY <1>2, <1>i DEF BootInv, Modify
<1>3. ASSUME NEW b \in Block, Recycle(b) PROVE BootInv'
  <2>1. buf \in [Block -> Val \union {NoData}]
    BY Numbers DEF IInv
  <2> QED
    BY <1>3, <1>i, <2>1 DEF BootInv, Recycle
<1>4. ASSUME ReadHead PROVE BootInv'
  <2>1. hdr.n \in Nat
    BY Numbers DEF IInv
  <2> QED
    BY <1>4, <1>i, <2>1 DEF BootInv, ReadHead
<1>5. ASSUME RecoverInstall PROVE BootInv'
  <2>n. /\ lh.n \in Nat /\ rtail \in Nat /\ WellFormed(hdr) /\ LOGSIZE \in Nat
        /\ lh.n <= LOGSIZE /\ home \in [Block -> Val]
        /\ buf \in [Block -> Val \union {NoData}]
    BY Numbers DEF IInv, HeaderInv
  <2>b. lh = hdr /\ boot = "install"
    BY <1>5, <1>i DEF BootInv, RecoverInstall
  <2> DEFINE i == rtail + 1
             c == hdr.block[i]
  <2>1. i \in 1..hdr.n /\ i \in Nat /\ c \in Block
    BY <1>5, <2>n, <2>b DEF RecoverInstall, WellFormed
  <2>2. /\ home' = [home EXCEPT ![c] = logblk[i]]
        /\ buf' = [buf EXCEPT ![c] = logblk[i]]
        /\ rtail' = i
        /\ UNCHANGED <<lh, hdr, logblk, pin, pc, boot>>
    BY <1>5, <2>b DEF RecoverInstall
  <2>3. \A b \in Block : pin'[b] = 0 /\ buf'[b] \in {NoData, home'[b]}
    BY <1>i, <2>n, <2>b, <2>1, <2>2 DEF BootInv
  <2>4. ASSUME NEW j \in 1..i PROVE home'[hdr.block[j]] = logblk[j]
    <3>1. CASE j = i
      BY <2>n, <2>1, <2>2, <3>1
    <3>2. CASE j # i
      <4>n. rtail \in Nat /\ hdr.n \in Nat /\ rtail + 1 <= hdr.n
        BY <2>n, <2>b, <2>1
      <4>1. j \in 1..rtail /\ j \in 1..hdr.n
        BY <3>2, <4>n
      <4>2. hdr.block[j] \in Block /\ hdr.block[j] # c
        BY <2>n, <2>1, <3>2, <4>1 DEF WellFormed
      <4>3. home[hdr.block[j]] = logblk[j]
        BY <1>i, <2>b, <4>1 DEF BootInv
      <4> QED
        BY <2>n, <2>2, <4>2, <4>3
    <3> QED
      BY <3>1, <3>2
  <2>5. i <= lh.n
    BY <2>n, <2>1, <2>b
  <2> HIDE DEF i, c
  <2> QED
    BY <1>i, <2>b, <2>2, <2>3, <2>4, <2>5 DEF BootInv
<1>6. ASSUME RecoverClear PROVE BootInv'
  BY <1>6, <1>i DEF BootInv, RecoverClear
<1>7. ASSUME Crash PROVE BootInv'
  BY <1>7 DEF BootInv, Crash
<1> QED
  BY <1>1, <1>2, <1>3, <1>4, <1>5, <1>6, <1>7 DEF Next, Recover

LEMMA CommitDataStep == ASSUME IInv, Next PROVE CommitDataInv'
<1> USE DEF PC, InOp, InCommit, vars, diskVars, cacheVars, logVars, procVars, bootVars
<1>i. /\ CommitDataInv /\ CommitInv /\ WellFormed(lh)
      /\ \A p \in Proc : boot # "up" => pc[p] = "idle"
  BY DEF IInv, HeaderInv, BootInv
<1>t. /\ home \in [Block -> Val] /\ logblk \in [1..LOGSIZE -> Val]
      /\ tail \in [Proc -> Nat] /\ lh.n \in Nat /\ lh.n <= LOGSIZE /\ LOGSIZE \in Nat
      /\ buf \in [Block -> Val \union {NoData}] /\ NoData \notin Val
      /\ pc \in [Proc -> PC] /\ EmptyHeader.n = 0
  BY Numbers DEF IInv
<1>1. ASSUME NEW p \in Proc, Call(p) \/ BeginOp(p) PROVE CommitDataInv'
  BY <1>1, <1>i, <1>t, SMTT(30) DEF CommitDataInv, Contents, Call, BeginOp
<1>2. ASSUME NEW p \in Proc, LogWrite(p) PROVE CommitDataInv'
  BY <1>2, <1>i, <1>t DEF CommitDataInv, CommitInv, Contents, LogWrite
<1>3. ASSUME NEW p \in Proc, NEW b \in Block, NEW v \in Val, Modify(p, b, v)
      PROVE CommitDataInv'
  BY <1>3, <1>i, <1>t DEF CommitDataInv, CommitInv, Contents, Modify
<1>4. ASSUME NEW p \in Proc, EndOp(p) PROVE CommitDataInv'
  BY <1>4, <1>i, <1>t DEF CommitDataInv, CommitInv, Contents, EndOp, WakeAll
<1>5. ASSUME NEW p \in Proc, LogWritePanics(p) \/ EndOpPanics(p) PROVE CommitDataInv'
  <2>1. UNCHANGED <<home, logblk, buf, lh, pc, tail>>
    BY <1>5 DEF LogWritePanics, EndOpPanics
  <2> QED
    BY <1>i, <2>1 DEF CommitDataInv, Contents
<1>6. ASSUME NEW p \in Proc, WriteLog(p) PROVE CommitDataInv'
  <2> DEFINE i == tail[p] + 1
             c == lh.block[i]
  <2>1. /\ pc[p] = "write_log" /\ tail[p] < lh.n
        /\ logblk' = [logblk EXCEPT ![i] = Contents(c)] /\ buf' = [buf EXCEPT ![c] = Contents(c)]
        /\ tail' = [tail EXCEPT ![p] = i]
        /\ UNCHANGED <<home, lh, pc>>
    BY <1>6 DEF WriteLog
  <2>2. i \in 1..lh.n /\ i \in 1..LOGSIZE /\ c \in Block
    BY <1>i, <1>t, <2>1 DEF WellFormed
  <2>3. \A b \in Block : Contents(b)' = Contents(b)
    BY <1>t, <2>1, <2>2 DEF Contents
  <2>4. \A q \in Proc \ {p} : pc[q] \notin InCommit
    BY <1>i, <2>1 DEF CommitInv
  <2>5. \A j \in 1..lh.n : lh.block[j] \in Block
    BY <1>i DEF WellFormed
  <2>6. /\ tail'[p] = i /\ logblk'[i] = Contents(c)
        /\ \A j \in 1..tail[p] : logblk'[j] = logblk[j] /\ j \in 1..lh.n
    BY <1>t, <2>1, <2>2
  <2>7. ASSUME NEW j \in 1..i PROVE logblk'[j] = Contents(lh.block[j])'
    <3>1. CASE j = i
      BY <2>1, <2>2, <2>3, <2>6, <3>1
    <3>2. CASE j # i
      <4>1. j \in 1..tail[p]
        BY <1>t, <3>2
      <4> QED
        BY <1>i, <2>1, <2>3, <2>5, <2>6, <4>1 DEF CommitDataInv
    <3> QED
      BY <3>1, <3>2
  <2> HIDE DEF i, c
  <2> QED
    BY <1>t, <2>1, <2>2, <2>4, <2>6, <2>7 DEF CommitDataInv
<1>7. ASSUME NEW p \in Proc, Install(p) PROVE CommitDataInv'
  BY <1>7, <1>i, <1>t DEF CommitDataInv, CommitInv, WellFormed, Contents, Install
<1>8. ASSUME NEW p \in Proc, WriteLogDone(p) \/ WriteHead(p) PROVE CommitDataInv'
  <2>1. CASE WriteLogDone(p)
    BY <1>i, <1>t, <2>1 DEF CommitDataInv, CommitInv, Contents, WriteLogDone
  <2>2. CASE WriteHead(p)
    BY <1>i, <1>t, <2>2 DEF CommitDataInv, CommitInv, Contents, WriteHead
  <2> QED
    BY <1>8, <2>1, <2>2
<1>9. ASSUME NEW p \in Proc, InstallDone(p) \/ Clear(p) PROVE CommitDataInv'
  BY <1>9, <1>i, <1>t DEF CommitDataInv, CommitInv, WellFormed, Contents, InstallDone, Clear
<1>10. ASSUME NEW p \in Proc, Finish(p) PROVE CommitDataInv'
  BY <1>10, <1>i, <1>t DEF CommitDataInv, CommitInv, WellFormed, Contents, Finish, WakeAll
<1>11. ASSUME NEW b \in Block, Recycle(b) PROVE CommitDataInv'
  <2>1. boot = "up" => Contents(b) = home[b]
    BY <1>11 DEF Recycle, IInv, PinnedExactly
  <2>2. \A q \in Proc : pc[q] \in InCommit => boot = "up"
    BY <1>i
  <2>3. ASSUME boot = "up", NEW c \in Block PROVE Contents(c)' = Contents(c)
    BY <1>11, <1>t, <2>1, <2>3 DEF Recycle, Contents
  <2>4. UNCHANGED <<home, logblk, lh, pc, tail>>
    BY <1>11 DEF Recycle
  <2>5. CASE boot = "up"
    <3>1. \A i \in 1..lh.n : Contents(lh.block[i])' = Contents(lh.block[i])
      BY <1>i, <2>3, <2>4, <2>5 DEF WellFormed
    <3>2. \A q \in Proc : pc[q] = "write_log" => 1..tail[q] \subseteq 1..lh.n
      BY <1>i, <1>t DEF CommitDataInv
    <3> HIDE DEF Contents
    <3> QED
      BY <1>i, <2>4, <3>1, <3>2 DEF CommitDataInv
  <2>6. CASE boot # "up"
    BY <1>i, <2>4, <2>6 DEF CommitDataInv
  <2> QED
    BY <2>5, <2>6
<1>12. ASSUME Recover PROVE CommitDataInv'
  <2>1. \A q \in Proc : pc'[q] = "idle"
    BY <1>12, <1>i DEF Recover, ReadHead, RecoverInstall, RecoverClear
  <2> QED
    BY <2>1 DEF CommitDataInv
<1>13. ASSUME Crash PROVE CommitDataInv'
  BY <1>13 DEF CommitDataInv, Crash
<1> QED
  BY <1>1, <1>2, <1>3, <1>4, <1>5, <1>6, <1>7, <1>8, <1>9, <1>10, <1>11, <1>12, <1>13
     DEF Next, Commit

LEMMA PinnedStep == ASSUME IInv, Next PROVE PinnedExactly'
<1> USE DEF PC, InOp, InCommit, vars, diskVars, cacheVars, logVars, procVars, bootVars
<1>i. /\ PinnedExactly /\ CommitDataInv /\ CommitInv /\ WellFormed(lh) /\ BootInv /\ BufInv
  BY DEF IInv, HeaderInv
<1>t. /\ home \in [Block -> Val] /\ logblk \in [1..LOGSIZE -> Val]
      /\ tail \in [Proc -> Nat] /\ lh.n \in Nat /\ lh.n <= LOGSIZE /\ LOGSIZE \in Nat
      /\ buf \in [Block -> Val \union {NoData}] /\ NoData \notin Val
      /\ pc \in [Proc -> PC] /\ EmptyHeader.n = 0 /\ pin \in [Block -> Nat]
      /\ bp \in [Proc -> Block \union {NoBlock}] /\ NoBlock \notin Block
  BY Numbers DEF IInv
<1>same. ASSUME UNCHANGED <<home, buf, pin, lh, tail, bp, boot>>,
                \A q \in Proc : pc'[q] \in {"install", "clear"} <=> pc[q] \in {"install", "clear"}
         PROVE PinnedExactly'
  <2>1. \A b \in Block : Waiting(b)' <=> Waiting(b)
    BY <1>same DEF Waiting
  <2>2. \A b \in Block : BufferFree(b)' <=> BufferFree(b)
    BY <1>same DEF BufferFree
  <2> QED
    BY <1>i, <1>same, <2>1, <2>2 DEF PinnedExactly, Contents
<1>1. ASSUME NEW p \in Proc, Call(p) \/ BeginOp(p) \/ LogWritePanics(p) \/ EndOpPanics(p)
      PROVE PinnedExactly'
  <2>1. UNCHANGED <<home, buf, pin, lh, tail, bp, boot>>
    BY <1>1 DEF Call, BeginOp, LogWritePanics, EndOpPanics
  <2>2. \A q \in Proc : pc'[q] \in {"install", "clear"} <=> pc[q] \in {"install", "clear"}
    BY <1>1, <1>t DEF Call, BeginOp, LogWritePanics, EndOpPanics
  <2> QED
    BY <2>1, <2>2, <1>same
<1>2. ASSUME NEW p \in Proc, EndOp(p) PROVE PinnedExactly'
  <2>1. \A q \in Proc : /\ pc[q] \notin {"install", "clear"}
                        /\ pc'[q] \notin {"install", "clear"}
    <3>1. \A q \in Proc : pc[q] \notin {"install", "clear"}
      BY <1>2, <1>i DEF EndOp, CommitInv
    <3>2. pc' = [pc EXCEPT ![p] = "write_log"] \/ pc' = WakeAll(p, "idle")
      BY <1>2 DEF EndOp
    <3>3. \A q \in Proc : pc'[q] = pc[q] \/ pc'[q] \in {"write_log", "idle", "begin"}
      BY <1>t, <3>2 DEF WakeAll
    <3> QED
      BY <3>1, <3>3
  <2>2. UNCHANGED <<home, buf, pin, lh, bp, boot>>
    BY <1>2 DEF EndOp
  <2>3. \A b \in Block : Waiting(b)' <=> Waiting(b)
    BY <2>1, <2>2 DEF Waiting
  <2>4. \A b \in Block : BufferFree(b)' <=> BufferFree(b)
    BY <2>2 DEF BufferFree
  <2> QED
    BY <1>i, <2>2, <2>3, <2>4 DEF PinnedExactly, Contents
<1>3. ASSUME NEW p \in Proc, NEW b \in Block, NEW v \in Val, Modify(p, b, v)
      PROVE PinnedExactly'
  <2>1. UNCHANGED <<home, pin, lh, tail, boot>> /\ buf' = [buf EXCEPT ![b] = v]
        /\ bp' = [bp EXCEPT ![p] = b]
    BY <1>3 DEF Modify
  <2>2. \A q \in Proc : pc'[q] \in {"install", "clear"} <=> pc[q] \in {"install", "clear"}
    BY <1>3, <1>t DEF Modify
  <2>3. \A c \in Block : Waiting(c)' <=> Waiting(c)
    BY <2>1, <2>2 DEF Waiting
  <2>4. ~BufferFree(b)'
    BY <1>t, <2>1 DEF BufferFree
  <2>5. \A c \in Block : BufferFree(c)' => BufferFree(c)
    <3>1. bp[p] = NoBlock
      BY <1>3, <1>i DEF Modify, BufInv
    <3> QED
      BY <1>t, <2>1, <3>1 DEF BufferFree
  <2> QED
    BY <1>i, <1>t, <2>1, <2>3, <2>4, <2>5 DEF PinnedExactly, Contents
<1>4. ASSUME NEW p \in Proc, LogWrite(p) PROVE PinnedExactly'
  <2> DEFINE c == bp[p]
  <2>1. c \in Block /\ buf[c] # NoData /\ boot = "up"
    BY <1>4, <1>i DEF LogWrite, BufInv, BootInv
  <2>2. UNCHANGED <<home, buf, tail, boot>> /\ bp' = [bp EXCEPT ![p] = NoBlock]
    BY <1>4 DEF LogWrite
  <2>3. \A q \in Proc : /\ pc[q] \notin {"install", "clear"}
                        /\ pc'[q] \notin {"install", "clear"}
    BY <1>4, <1>i, <1>t DEF LogWrite, CommitInv
  <2>4. \A b \in Block : Waiting(b) <=> b \in Entries(lh)
    BY <2>3 DEF Waiting, Entries
  <2>5. \A b \in Block : Waiting(b)' <=> b \in Entries(lh')
    BY <2>3 DEF Waiting, Entries
  <2>6. \A b \in Block : b # c => (BufferFree(b)' <=> BufferFree(b))
    BY <1>t, <2>1, <2>2 DEF BufferFree
  <2>7. \A b \in Block : /\ b \in Entries(lh') <=> (b \in Entries(lh) \/ b = c)
                         /\ pin'[b] = IF b = c /\ b \notin Entries(lh) THEN pin[b] + 1 ELSE pin[b]
    <3>1. CASE c \in Entries(lh)
      BY <1>4, <1>t, <3>1 DEF LogWrite, Absorb
    <3>2. CASE c \notin Entries(lh)
      <4>1. lh.n < LOGSIZE
        BY <1>4, <1>t DEF LogWrite, TooBig
      <4>2. lh' = AddBlock(lh, c) /\ pin' = [pin EXCEPT ![c] = @ + 1]
        BY <1>4, <3>2 DEF LogWrite, Absorb
      <4>3. lh \in Header
        BY DEF IInv, TypeOK
      <4>4. /\ lh'.n = lh.n + 1 /\ lh'.block[lh.n + 1] = c
            /\ \A i \in 1..lh.n : lh'.block[i] = lh.block[i]
        BY <2>1, <4>1, <4>2, <4>3, HeaderFacts
      <4>5. \A b \in Block : b \in Entries(lh') <=> (b \in Entries(lh) \/ b = c)
        <5>1. 1..lh'.n = 1..lh.n \union {lh.n + 1}
          BY <1>t, <4>4, SMTT(30)
        <5> QED
          BY <4>4, <5>1 DEF Entries
      <4> QED
        BY <1>t, <2>1, <3>2, <4>2, <4>5
    <3> QED
      BY <3>1, <3>2
  <2> HIDE DEF c
  <2> QED
    BY <1>i, <1>t, <2>1, <2>2, <2>4, <2>5, <2>6, <2>7 DEF PinnedExactly, Contents
<1>5. ASSUME NEW p \in Proc, WriteLog(p) PROVE PinnedExactly'
  BY <1>5, <1>i, <1>t DEF PinnedExactly, CommitDataInv, CommitInv, WellFormed, Waiting,
                          Contents, BufferFree, WriteLog
<1>6. ASSUME NEW p \in Proc, Install(p) PROVE PinnedExactly'
  <2>0. PICK i \in Nat : i = tail[p] + 1
    BY <1>t
  <2>c. PICK c : c = lh.block[i]
    OBVIOUS
  <2>1. i \in 1..lh.n /\ i \in 1..LOGSIZE /\ i \in Nat /\ c \in Block /\ boot = "up"
    BY <1>6, <1>i, <1>t, <2>0, <2>c DEF Install, WellFormed, BootInv
  <2>2. /\ home' = [home EXCEPT ![c] = logblk[i]]
        /\ buf' = [buf EXCEPT ![c] = logblk[i]]
        /\ pin' = [pin EXCEPT ![c] = @ - 1]
        /\ tail' = [tail EXCEPT ![p] = i]
        /\ UNCHANGED <<lh, pc, bp, boot>>
    BY <1>6, <2>0, <2>c DEF Install
  <2>3. pc[p] = "install" /\ \A q \in Proc : pc[q] \in {"install", "clear"} => q = p
    BY <1>6, <1>i DEF Install, CommitInv
  <2>4. \A b \in Block : Waiting(b) <=> \E j \in 1..lh.n : lh.block[j] = b /\ j > tail[p]
    BY <2>3 DEF Waiting
  <2>5. \A b \in Block : Waiting(b)' <=> \E j \in 1..lh.n : lh.block[j] = b /\ j > i
    BY <1>t, <2>2, <2>3 DEF Waiting
  <2>6. Waiting(c) /\ ~Waiting(c)'
    <3>1. i > tail[p]
      BY <1>t, <2>0
    <3>2. \A j \in 1..lh.n : lh.block[j] = c => j = i
      BY <1>i, <2>1, <2>c DEF WellFormed
    <3>3. ~(i > i)
      BY <2>1
    <3> QED
      BY <2>1, <2>4, <2>5, <3>1, <3>2, <3>3, <2>c
  <2>7. \A b \in Block : b # c => (Waiting(b)' <=> Waiting(b))
    <3>1. \A j \in 1..lh.n : j > tail[p] <=> j = i \/ j > i
      BY <1>t, <2>0
    <3> QED
      BY <2>4, <2>5, <2>c, <3>1
  <2>8. \A b \in Block : BufferFree(b)' <=> BufferFree(b)
    BY <2>2 DEF BufferFree
  <2>9. logblk[i] \in Val /\ pin[c] = 1
    BY <1>i, <1>t, <2>1, <2>6 DEF PinnedExactly
  <2>10. pin'[c] = 0 /\ Contents(c)' = home'[c]
    BY <1>t, <2>1, <2>2, <2>9 DEF Contents
  <2>11. \A b \in Block : b # c => /\ pin'[b] = pin[b] /\ buf'[b] = buf[b]
                                   /\ home'[b] = home[b] /\ Contents(b)' = Contents(b)
    BY <1>t, <2>1, <2>2 DEF Contents
  <2> HIDE DEF Contents, Waiting, BufferFree
  <2> QED
    BY <1>i, <2>1, <2>6, <2>7, <2>8, <2>10, <2>11 DEF PinnedExactly
<1>7. ASSUME NEW p \in Proc, WriteLogDone(p) \/ WriteHead(p) PROVE PinnedExactly'
  <2>1. CASE WriteLogDone(p)
    <3>1. UNCHANGED <<home, buf, pin, lh, tail, bp, boot>>
      BY <2>1 DEF WriteLogDone
    <3>2. \A q \in Proc : pc'[q] \in {"install", "clear"} <=> pc[q] \in {"install", "clear"}
      BY <1>t, <2>1 DEF WriteLogDone
    <3> QED
      BY <1>same, <3>1, <3>2
  <2>2. CASE WriteHead(p)
    <3>1. UNCHANGED <<home, buf, pin, lh, bp, boot>> /\ tail'[p] = 0
      BY <1>t, <2>2 DEF WriteHead
    <3>2. \A q \in Proc : /\ pc[q] \notin {"install", "clear"}
                          /\ pc'[q] \in {"install", "clear"} => q = p
      BY <1>i, <1>t, <2>2 DEF WriteHead, CommitInv
    <3>3. \A j \in 1..lh.n : j > 0
      BY <1>t
    <3>4. \A b \in Block : Waiting(b)' <=> Waiting(b)
      BY <3>1, <3>2, <3>3 DEF Waiting
    <3>5. \A b \in Block : BufferFree(b)' <=> BufferFree(b)
      BY <3>1 DEF BufferFree
    <3> QED
      BY <1>i, <3>1, <3>4, <3>5 DEF PinnedExactly, Contents
  <2> QED
    BY <1>7, <2>1, <2>2
<1>8. ASSUME NEW p \in Proc, InstallDone(p) \/ Clear(p) PROVE PinnedExactly'
  BY <1>8, <1>i, <1>t DEF PinnedExactly, CommitDataInv, CommitInv, WellFormed, Waiting,
                          Contents, BufferFree, InstallDone, Clear
<1>9. ASSUME NEW p \in Proc, Finish(p) PROVE PinnedExactly'
  BY <1>9, <1>i, <1>t DEF PinnedExactly, CommitDataInv, CommitInv, WellFormed, Waiting,
                          Contents, BufferFree, Finish, WakeAll
<1>10. ASSUME NEW b \in Block, Recycle(b) PROVE PinnedExactly'
  BY <1>10, <1>i, <1>t DEF PinnedExactly, Waiting, Contents, BufferFree, Recycle
<1>11. ASSUME ReadHead \/ RecoverInstall \/ Crash PROVE PinnedExactly'
  BY <1>11 DEF PinnedExactly, ReadHead, RecoverInstall, Crash
<1>12. ASSUME RecoverClear PROVE PinnedExactly'
  BY <1>12, <1>i, <1>t DEF PinnedExactly, BootInv, Waiting, Contents, RecoverClear
<1> QED
  BY <1>1, <1>2, <1>3, <1>4, <1>5, <1>6, <1>7, <1>8, <1>9, <1>10, <1>11, <1>12
     DEF Next, Commit, Recover

-----------------------------------------------------------------------------
(* The theorems.                                                           *)

\* IInv is an invariant of the log, for any number of processes and blocks
\* and any log size.
THEOREM Invariance == Spec => []IInv
<1>1. Init => IInv
  BY InitInv
<1>2. IInv /\ [Next]_vars => IInv'
  <2>1. ASSUME IInv, Next PROVE IInv'
    BY <2>1, TypeStep, CommitStep, CountStep, BufStep, HeaderStep, BootStep,
       CommitDataStep, PinnedStep DEF IInv
  <2>2. ASSUME IInv, UNCHANGED vars PROVE IInv'
    <3> USE DEF vars, diskVars, cacheVars, logVars, procVars, bootVars
    <3>1. TypeOK'
      BY <2>2 DEF IInv, TypeOK
    <3>2. CommitInv' /\ CountInv'
      BY <2>2 DEF IInv, CommitInv, CountInv, Active
    <3>3. BufInv' /\ HeaderInv' /\ BootInv'
      BY <2>2 DEF IInv, BufInv, HeaderInv, WellFormed, BootInv
    <3>4. CommitDataInv' /\ PinnedExactly'
      BY <2>2 DEF IInv, CommitDataInv, PinnedExactly, Contents, Waiting, BufferFree
    <3> QED
      BY <3>1, <3>2, <3>3, <3>4 DEF IInv
  <2> QED
    BY <2>1, <2>2
<1> QED
  BY <1>1, <1>2, PTL DEF Spec

\* Every state of the log is well typed (struct log, the buffer cache, the disk).
THEOREM TypeCorrect == Spec => []TypeOK
<1>1. IInv => TypeOK
  BY DEF IInv
<1> QED
  BY <1>1, Invariance, PTL

\* commit() runs alone although it holds no lock (log.c:167).
THEOREM CommitRunsAlone == Spec => []CommitAlone
<1>1. IInv => CommitAlone
  BY DEF IInv, CommitInv, CommitAlone, Committers, Active
<1> QED
  BY <1>1, Invariance, PTL

\* Exactly the logged, not yet installed blocks are pinned (log.c:231, 79), so
\* no write is lost to bget()'s recycling before it is on the disk.
THEOREM LoggedBlocksPinned == Spec => []PinnedExactly
<1>1. IInv => PinnedExactly
  BY DEF IInv
<1> QED
  BY <1>1, Invariance, PTL

\* The disk that recovery would rebuild, when the log on it is empty.
LEMMA DurableEmpty == ASSUME hdr.n = 0, TypeOK PROVE Durable = home
<1>1. home \in [Block -> Val]
  BY DEF TypeOK
<1>2. 1..hdr.n = {}
  OBVIOUS
<1> QED
  BY <1>1, <1>2 DEF Durable

\* After the last end_op() nothing that was written is only in memory.
THEOREM DurableAfterCommit == Spec => []DurableOnReturn
<1>1. IInv => DurableOnReturn
  <2> SUFFICES ASSUME IInv, NEW p \in Proc, pc[p] = "finish" PROVE Durable = Current
    BY DEF DurableOnReturn
  <2>1. boot = "up" /\ lh.n = 0
    BY DEF IInv, BootInv, CommitDataInv
  <2>2. \A q \in Proc : pc[q] \notin {"install", "clear"} /\ pc[q] # "modified"
    BY DEF IInv, CommitInv, InCommit, InOp
  <2>3. Durable = home
    BY <2>1, <2>2, DurableEmpty DEF IInv, HeaderInv
  <2>4. \A b \in Block : BufferFree(b) /\ ~Waiting(b)
    <3>1. NoBlock \notin Block /\ \A q \in Proc : bp[q] = NoBlock
      BY <2>2, Numbers DEF IInv, BufInv
    <3> QED
      BY <2>1, <3>1 DEF BufferFree, Waiting
  <2>5. \A b \in Block : Contents(b) = home[b]
    BY <2>1, <2>4 DEF IInv, PinnedExactly
  <2>6. home \in [Block -> Val]
    BY DEF IInv, TypeOK
  <2> QED
    BY <2>1, <2>3, <2>5, <2>6 DEF Current
<1> QED
  BY <1>1, Invariance, PTL
-----------------------------------------------------------------------------
(* The reservation of begin_op() is enough.                                *)

\* What the running calls have reserved and not used, one pair per block.
Left == {r \in Active \X (1..MAXOPBLOCKS) : r[2] > Cardinality(wset[r[1]])}

\* Each call has logged what it wrote and stays below its reservation, and the
\* log has room for what is left of all of them.
CallInv ==
  \A p \in Proc :
    /\ pc[p] \in InOp =>
         /\ wset[p] \subseteq Entries(lh) /\ IsFiniteSet(wset[p])
         /\ Cardinality(wset[p]) <= OpBlocks
    /\ pc[p] = "modified" => Cardinality(wset[p] \union {bp[p]}) <= OpBlocks
RoomInv == Active # {} => lh.n + Cardinality(Left) <= LOGSIZE
Reserved == CallInv /\ RoomInv /\ NeverPanics

LEMMA LeftFinite ==
  ASSUME TypeOK
  PROVE  /\ IsFiniteSet(Left) /\ Cardinality(Left) \in Nat
         /\ IsFiniteSet(Active \X (1..MAXOPBLOCKS))
         /\ Cardinality(Active \X (1..MAXOPBLOCKS)) = Cardinality(Active) * MAXOPBLOCKS
<1>1. IsFiniteSet(Active)
  BY LogAssumption, FS_Subset DEF Active
<1>2. IsFiniteSet(1..MAXOPBLOCKS) /\ Cardinality(1..MAXOPBLOCKS) = MAXOPBLOCKS
  BY LogAssumption, FS_Interval
<1>3. /\ IsFiniteSet(Active \X (1..MAXOPBLOCKS))
      /\ Cardinality(Active \X (1..MAXOPBLOCKS)) = Cardinality(Active) * MAXOPBLOCKS
  BY <1>1, <1>2, FS_Product
<1>4. Left \in SUBSET (Active \X (1..MAXOPBLOCKS))
  BY DEF Left
<1> QED
  BY <1>3, <1>4, FS_Subset, FS_CardinalityType

\* Steps that use nothing of the reservations but may give some back.
LEMMA RoomKept ==
  ASSUME IInv, Reserved, lh' = lh, Active' \subseteq Active,
         \A q \in Proc : pc'[q] \in InOp => wset'[q] = wset[q],
         \A q \in Proc : pc'[q] = "modified" => Cardinality(wset'[q] \union {bp'[q]}) <= OpBlocks,
         panicked' = "no"
  PROVE  Reserved'
<1>1. \A q \in Proc : pc'[q] \in InOp => pc[q] \in InOp
  BY DEF Active
<1>2. CallInv'
  BY <1>1 DEF Reserved, CallInv, Entries
<1>3. Left' \in SUBSET Left
  BY DEF Left, Active
<1>4. lh.n \in Nat /\ LOGSIZE \in Nat /\ IsFiniteSet(Left) /\ Cardinality(Left) \in Nat
  BY LeftFinite, Numbers DEF IInv
<1>5. Cardinality(Left') <= Cardinality(Left) /\ Cardinality(Left') \in Nat
  BY <1>3, <1>4, FS_Subset, FS_CardinalityType
<1>6. RoomInv'
  <2>1. Cardinality(Left)' = Cardinality(Left')
    OBVIOUS
  <2>2. Active' # {} => Active # {}
    OBVIOUS
  <2> QED
    BY <1>4, <1>5, <2>1, <2>2 DEF Reserved, RoomInv
<1> QED
  BY <1>2, <1>6 DEF Reserved, NeverPanics

LEMMA RoomBegin ==
  ASSUME IInv, Reserved, NEW p \in Proc, BeginOp(p), panicked = "no"
  PROVE  Reserved'
<1>0. TypeOK /\ pc \in [Proc -> PC] /\ wset \in [Proc -> SUBSET Block] /\ lh.n \in Nat
      /\ LOGSIZE \in Nat /\ MAXOPBLOCKS \in Nat /\ OpBlocks \in Nat
  BY Numbers, LogAssumption DEF IInv, TypeOK
<1>1. CASE MustWait
  <2>1. pc' = [pc EXCEPT ![p] = "asleep"] /\ UNCHANGED <<outstanding, wset, lh, bp, panicked>>
    BY <1>1 DEF BeginOp
  <2>2. Active' \subseteq Active
    BY <1>0, <2>1 DEF Active, InOp
  <2> QED
    BY <1>0, <2>1, <2>2, RoomKept DEF InOp, Reserved, CallInv
<1>2. CASE ~MustWait
  <2>1. /\ outstanding' = outstanding + 1 /\ pc' = [pc EXCEPT ![p] = "op"] /\ pc[p] = "begin"
        /\ wset' = [wset EXCEPT ![p] = {}] /\ UNCHANGED <<lh, bp, panicked>>
    BY <1>2 DEF BeginOp
  <2>2. lh.n + (outstanding + 1) * MAXOPBLOCKS <= LOGSIZE
    BY <1>0, <1>2, Numbers, LogAssumption DEF MustWait
  <2>3. CallInv'
    <3>1. \A q \in Proc \ {p} : pc'[q] = pc[q] /\ wset'[q] = wset[q] /\ bp'[q] = bp[q]
      BY <2>1
    <3>2. pc'[p] = "op" /\ wset'[p] = {}
      BY <1>0, <2>1
    <3>3. IsFiniteSet({}) /\ Cardinality({}) = 0
      BY FS_EmptySet
    <3>4. Entries(lh)' = Entries(lh)
      BY <2>1 DEF Entries
    <3> QED
      BY <1>0, <3>1, <3>2, <3>3, <3>4 DEF Reserved, CallInv
  <2>4. Active' = Active \union {p} /\ p \notin Active
    BY <1>0, <2>1 DEF Active, InOp
  <2>5. IsFiniteSet(Active') /\ Cardinality(Active') = outstanding + 1 /\ outstanding \in Nat
    <3>1. IsFiniteSet(Active) /\ Cardinality(Active) = outstanding
      BY LogAssumption, FS_Subset DEF Active, IInv, CountInv
    <3> QED
      BY <1>0, <2>4, <3>1, FS_AddElement DEF TypeOK
  <2>6. Left' \in SUBSET (Active' \X (1..MAXOPBLOCKS))
    BY DEF Left
  <2>7. IsFiniteSet(1..MAXOPBLOCKS) /\ Cardinality(1..MAXOPBLOCKS) = MAXOPBLOCKS
    BY LogAssumption, FS_Interval
  <2>8. /\ IsFiniteSet(Active' \X (1..MAXOPBLOCKS))
        /\ Cardinality(Active' \X (1..MAXOPBLOCKS)) = (outstanding + 1) * MAXOPBLOCKS
    BY <2>5, <2>7, FS_Product, ZenonT(40)
  <2>9. Cardinality(Left') <= (outstanding + 1) * MAXOPBLOCKS /\ Cardinality(Left') \in Nat
    BY <2>6, <2>8, FS_Subset, FS_CardinalityType
  <2>10. (outstanding + 1) * MAXOPBLOCKS \in Nat
    BY <1>0, <2>5
  <2>11. lh'.n + Cardinality(Left') <= LOGSIZE
    BY <1>0, <2>1, <2>2, <2>9, <2>10
  <2> QED
    BY <2>1, <2>3, <2>11 DEF Reserved, RoomInv, NeverPanics
<1> QED
  BY <1>1, <1>2

LEMMA RoomWrite ==
  ASSUME IInv, Reserved, NEW p \in Proc, LogWrite(p), OpBlocks < MAXOPBLOCKS, panicked = "no"
  PROVE  Reserved'
<1> SUFFICES ASSUME NEW b, b = bp[p], NEW c, c = Cardinality(wset[p]) PROVE Reserved'
  OBVIOUS
<1>0. /\ TypeOK /\ pc \in [Proc -> PC] /\ wset \in [Proc -> SUBSET Block] /\ lh \in Header
      /\ lh.n \in Nat /\ LOGSIZE \in Nat /\ MAXOPBLOCKS \in Nat /\ OpBlocks \in Nat
      /\ bp \in [Proc -> Block \union {NoBlock}]
  BY Numbers, LogAssumption DEF IInv, TypeOK
<1>1. /\ pc[p] = "modified" /\ ~TooBig /\ pc' = [pc EXCEPT ![p] = "op"]
      /\ wset' = [wset EXCEPT ![p] = @ \union {b}] /\ bp' = [bp EXCEPT ![p] = NoBlock]
      /\ UNCHANGED panicked
  BY DEF LogWrite
<1>2. b \in Block /\ lh.n < LOGSIZE
  BY <1>0, <1>1 DEF IInv, BufInv, TooBig
<1>3. /\ wset[p] \subseteq Entries(lh) /\ IsFiniteSet(wset[p]) /\ c <= OpBlocks /\ c \in Nat
      /\ Cardinality(wset[p] \union {b}) <= OpBlocks
  BY <1>1, FS_CardinalityType DEF Reserved, CallInv, InOp
<1>4. /\ IsFiniteSet(wset[p] \union {b})
      /\ Cardinality(wset[p] \union {b}) = IF b \in wset[p] THEN c ELSE c + 1
  BY <1>3, FS_AddElement
<1>5. /\ pc'[p] = "op" /\ wset'[p] = wset[p] \union {b}
      /\ \A q \in Proc \ {p} : pc'[q] = pc[q] /\ wset'[q] = wset[q] /\ bp'[q] = bp[q]
  BY <1>0, <1>1
<1>6. Entries(lh) \union {b} \subseteq Entries(lh)'
  <2>1. CASE Absorb(b) /\ lh' = lh
    BY <2>1 DEF Absorb, Entries
  <2>2. CASE lh' = AddBlock(lh, b)
    <3>1. /\ lh'.n = lh.n + 1 /\ lh'.block[lh.n + 1] = b
          /\ \A i \in 1..lh.n : lh'.block[i] = lh.block[i]
      BY <1>0, <1>2, <2>2, HeaderFacts
    <3>2. \A i \in 1..lh.n : i \in 1..lh'.n
      BY <1>0, <3>1
    <3>3. lh.n + 1 \in 1..lh'.n
      BY <1>0, <3>1
    <3> QED
      BY <3>1, <3>2, <3>3 DEF Entries
  <2> QED
    BY <2>1, <2>2 DEF LogWrite
<1>7. CallInv'
  BY <1>0, <1>3, <1>4, <1>5, <1>6 DEF Reserved, CallInv
<1>8. Active' = Active /\ p \in Active
  BY <1>0, <1>1, <1>5 DEF Active, InOp
<1>9. lh.n + Cardinality(Left) <= LOGSIZE /\ IsFiniteSet(Left) /\ Cardinality(Left) \in Nat
  BY <1>0, <1>8, LeftFinite DEF Reserved, RoomInv
<1>10. Cardinality(wset'[p]) \in Nat /\ Cardinality(wset'[p]) >= c
  BY <1>3, <1>4, <1>5
<1>11. Left' \in SUBSET Left
  <2>1. ASSUME NEW q \in Active, NEW i \in 1..MAXOPBLOCKS, i > Cardinality(wset'[q])
        PROVE  i > Cardinality(wset[q])
    <3>1. q \in Proc
      BY DEF Active
    <3>2. CASE q = p
      BY <1>0, <1>3, <1>10, <2>1, <3>2
    <3>3. CASE q # p
      BY <1>5, <2>1, <3>1, <3>3
    <3> QED
      BY <3>2, <3>3
  <2> QED
    BY <1>8, <2>1 DEF Left
<1>12. CASE Absorb(b) /\ lh' = lh
  <2>1. Cardinality(Left') <= Cardinality(Left) /\ Cardinality(Left') \in Nat
    BY <1>9, <1>11, FS_Subset, FS_CardinalityType
  <2>2. lh'.n + Cardinality(Left') <= LOGSIZE
    BY <1>0, <1>9, <1>12, <2>1
  <2> QED
    BY <1>1, <1>7, <2>2 DEF Reserved, RoomInv, NeverPanics
<1>13. CASE ~Absorb(b) /\ lh' = AddBlock(lh, b)
  <2>1. b \notin wset[p]
    BY <1>3, <1>13 DEF Absorb
  <2>2. Cardinality(wset'[p]) = c + 1 /\ c + 1 <= OpBlocks
    BY <1>3, <1>4, <1>5, <2>1
  <2> DEFINE r == <<p, c + 1>>
  <2>3. r \in Left
    <3>1. c + 1 \in 1..MAXOPBLOCKS /\ c + 1 > c
      BY <1>0, <1>3, <2>2
    <3> QED
      BY <1>8, <3>1 DEF Left
  <2>4. r \notin Left'
    <3>1. ~(c + 1 > Cardinality(wset'[p]))
      BY <1>3, <2>2
    <3> QED
      BY <3>1 DEF Left
  <2>5. Left' \in SUBSET (Left \ {r})
    BY <1>11, <2>4
  <2> HIDE DEF r
  <2>6. IsFiniteSet(Left \ {r}) /\ Cardinality(Left \ {r}) = Cardinality(Left) - 1
    BY <1>9, <2>3, FS_RemoveElement
  <2>7. Cardinality(Left') <= Cardinality(Left) - 1 /\ Cardinality(Left') \in Nat
    BY <2>5, <2>6, FS_Subset, FS_CardinalityType
  <2>8. lh'.n = lh.n + 1
    BY <1>0, <1>2, <1>13, HeaderFacts
  <2>9. lh'.n + Cardinality(Left') <= LOGSIZE
    BY <1>0, <1>9, <2>7, <2>8
  <2> QED
    BY <1>1, <1>7, <2>9 DEF Reserved, RoomInv, NeverPanics
<1> QED
  BY <1>12, <1>13 DEF LogWrite

\* A call inside its reservation finds the log with room.
LEMMA NoPanic ==
  ASSUME IInv, Reserved, NEW p \in Proc, OpBlocks < MAXOPBLOCKS, LOGSIZE < NLOG
  PROVE  ~LogWritePanics(p) /\ ~EndOpPanics(p)
<1>0. /\ TypeOK /\ lh.n \in Nat /\ LOGSIZE \in Nat /\ MAXOPBLOCKS \in Nat \ {0}
      /\ OpBlocks \in Nat /\ NLOG \in Nat
  BY Numbers, LogAssumption DEF IInv
<1>1. ~EndOpPanics(p)
  BY DEF EndOpPanics, IInv, CommitInv, InOp
<1>2. ASSUME pc[p] = "modified" PROVE ~TooBig /\ ~(outstanding < 1)
  <2>1. p \in Active
    BY <1>2 DEF Active, InOp
  <2>2. outstanding \in Nat \ {0}
    <3>1. IsFiniteSet(Active)
      BY LogAssumption, FS_Subset DEF Active
    <3> QED
      BY <1>0, <2>1, <3>1, FS_EmptySet, Numbers DEF IInv, CountInv
  <2>3. IsFiniteSet(wset[p]) /\ Cardinality(wset[p]) \in Nat /\ Cardinality(wset[p]) <= OpBlocks
    BY <1>2, FS_CardinalityType DEF Reserved, CallInv, InOp
  <2>4. MAXOPBLOCKS \in 1..MAXOPBLOCKS /\ MAXOPBLOCKS > Cardinality(wset[p])
    BY <1>0, <2>3
  <2>5. <<p, MAXOPBLOCKS>> \in Left
    BY <2>1, <2>4 DEF Left
  <2>6. Cardinality(Left) \in Nat \ {0}
    BY <1>0, <2>5, LeftFinite, FS_EmptySet
  <2>7. lh.n + Cardinality(Left) <= LOGSIZE
    BY <2>1 DEF Reserved, RoomInv
  <2> QED
    BY <1>0, <2>2, <2>6, <2>7 DEF TooBig
<1> QED
  BY <1>1, <1>2 DEF LogWritePanics

LEMMA ReservedStep ==
  ASSUME IInv, Reserved, [Next]_vars, OpBlocks < MAXOPBLOCKS, LOGSIZE < NLOG
  PROVE  Reserved'
<1> USE DEF diskVars, cacheVars, logVars, procVars, bootVars
<1>i. pc \in [Proc -> PC] /\ panicked = "no" /\ wset \in [Proc -> SUBSET Block]
      /\ bp \in [Proc -> Block \union {NoBlock}]
  BY Numbers DEF IInv, TypeOK, Reserved, NeverPanics
<1>c. \A q \in Proc : pc[q] = "modified" => Cardinality(wset[q] \union {bp[q]}) <= OpBlocks
  BY DEF Reserved, CallInv
<1>1. ASSUME NEW p \in Proc, Call(p) PROVE Reserved'
  <2>1. Active' \subseteq Active
    BY <1>1, <1>i DEF Call, Active, InOp
  <2> QED
    BY <1>1, <1>i, <1>c, <2>1, RoomKept DEF Call
<1>2. ASSUME NEW p \in Proc, BeginOp(p) PROVE Reserved'
  BY <1>2, <1>i, RoomBegin
<1>3. ASSUME NEW p \in Proc, NEW b \in Block, NEW v \in Val, Modify(p, b, v) PROVE Reserved'
  <2>1. Active' \subseteq Active
    BY <1>3, <1>i DEF Modify, Active, InOp
  <2>2. \A q \in Proc : pc'[q] = "modified" => Cardinality(wset'[q] \union {bp'[q]}) <= OpBlocks
    BY <1>3, <1>i, <1>c DEF Modify
  <2> QED
    BY <1>3, <1>i, <2>1, <2>2, RoomKept DEF Modify
<1>4. ASSUME NEW p \in Proc, LogWrite(p) PROVE Reserved'
  BY <1>4, <1>i, RoomWrite
<1>5. ASSUME NEW p \in Proc, EndOp(p) PROVE Reserved'
  <2>1. Active' \subseteq Active /\ pc'[p] \notin InOp
    BY <1>5, <1>i DEF EndOp, WakeAll, Active, InOp
  <2>2. \A q \in Proc \ {p} : wset'[q] = wset[q] /\ bp'[q] = bp[q]
    BY <1>5 DEF EndOp
  <2>3. \A q \in Proc \ {p} : pc'[q] = "modified" => pc[q] = "modified"
    BY <1>5, <1>i DEF EndOp, WakeAll
  <2>4. \A q \in Proc : pc'[q] = "modified" => Cardinality(wset'[q] \union {bp'[q]}) <= OpBlocks
    BY <1>c, <2>1, <2>2, <2>3 DEF InOp
  <2> QED
    BY <1>5, <1>i, <2>1, <2>2, <2>4, RoomKept DEF EndOp
<1>6. ASSUME Active' = {}, panicked' = "no" PROVE Reserved'
  <2>1. \A q \in Proc : pc'[q] \notin InOp
    BY <1>6 DEF Active
  <2> QED
    BY <1>6, <2>1 DEF Reserved, CallInv, RoomInv, NeverPanics, InOp
<1>7. ASSUME NEW p \in Proc, Commit(p) PROVE Reserved'
  <2>1. \A q \in Proc : pc[q] \notin InOp
    BY <1>7 DEF Commit, WriteLog, WriteLogDone, WriteHead, Install, InstallDone, Clear, Finish,
       IInv, CommitInv, InCommit
  <2>2. Active' = {}
    BY <1>7, <1>i, <2>1 DEF Commit, WriteLog, WriteLogDone, WriteHead, Install, InstallDone, Clear,
       Finish, WakeAll, Active, InOp
  <2>3. panicked' = "no"
    BY <1>7, <1>i DEF Commit, WriteLog, WriteLogDone, WriteHead, Install, InstallDone, Clear, Finish
  <2> QED
    BY <1>6, <2>2, <2>3
<1>8. ASSUME Recover PROVE Reserved'
  <2>1. \A q \in Proc : pc[q] \notin InOp
    BY <1>8 DEF Recover, ReadHead, RecoverInstall, RecoverClear, IInv, BootInv, InOp
  <2>2. Active' = {} /\ panicked' = "no"
    BY <1>8, <1>i, <2>1 DEF Recover, ReadHead, RecoverInstall, RecoverClear, Active
  <2> QED
    BY <1>6, <2>2
<1>9. ASSUME Crash PROVE Reserved'
  BY <1>6, <1>9, <1>i DEF Crash, Active, InOp
<1>10. ASSUME (\E b \in Block : Recycle(b)) \/ UNCHANGED vars PROVE Reserved'
  <2>1. UNCHANGED <<lh, pc, wset, bp, panicked>>
    BY <1>10 DEF Recycle, vars
  <2>2. Active' \subseteq Active
    BY <2>1 DEF Active
  <2> QED
    BY <1>c, <1>i, <2>1, <2>2, RoomKept
<1> QED
  BY <1>1, <1>2, <1>3, <1>4, <1>5, <1>7, <1>8, <1>9, <1>10, NoPanic DEF Next

\* No call that leaves a block of its reservation unused reaches a panic of the
\* log: for any number of calls together, and however they share blocks, the
\* test of begin_op() keeps room for each (log.c:133, 220).
THEOREM ReservationIsEnough ==
  ASSUME OpBlocks < MAXOPBLOCKS, LOGSIZE < NLOG
  PROVE  Spec => []NeverPanics
<1>1. Init => Reserved
  BY DEF Init, Reserved, CallInv, RoomInv, NeverPanics, Active, InOp
<1>2. IInv /\ Reserved /\ [Next]_vars => Reserved'
  BY ReservedStep
<1>3. Reserved => NeverPanics
  BY DEF Reserved
<1> QED
  BY <1>1, <1>2, <1>3, Invariance, PTL DEF Spec

-----------------------------------------------------------------------------
(* Nobody is left asleep in begin_op().                                    *)

\* Between two groups the log is empty, so that begin_op() has the whole of it.
EmptyInv == boot = "up" /\ outstanding = 0 /\ committing = 0 => lh.n = 0

\* Who sleeps in begin_op() would still have to wait if he looked now, and
\* another process is inside an operation or a commit, at the end of which it
\* wakes him.
SleepersWaitForSomebody ==
  \A p \in Proc : pc[p] = "asleep" => MustWait /\ Active \union Committers # {}

AsleepInv == \A p \in Proc : pc[p] = "asleep" => MustWait

LEMMA EmptyStep == ASSUME IInv, EmptyInv, [Next]_vars PROVE EmptyInv'
<1> USE DEF diskVars, cacheVars, logVars, procVars, bootVars, EmptyInv
<1>i. outstanding \in Nat /\ EmptyHeader.n = 0
  BY Numbers DEF IInv
<1>1. ASSUME NEW p \in Proc, Call(p) \/ LogWritePanics(p) \/ EndOpPanics(p) \/ BeginOp(p)
      PROVE  EmptyInv'
  <2>1. CASE Call(p) \/ LogWritePanics(p) \/ EndOpPanics(p)
    BY <2>1 DEF Call, LogWritePanics, EndOpPanics
  <2>2. CASE BeginOp(p)
    <3>1. /\ outstanding' = outstanding \/ outstanding' = outstanding + 1
          /\ lh' = lh /\ committing' = committing /\ boot' = boot
      BY <2>2 DEF BeginOp
    <3> QED
      BY <1>i, <3>1
  <2> QED
    BY <1>1, <2>1, <2>2
<1>2. ASSUME NEW p \in Proc, NEW b \in Block, NEW v \in Val, Modify(p, b, v) PROVE EmptyInv'
  BY <1>2 DEF Modify
<1>3. ASSUME NEW p \in Proc, LogWrite(p) PROVE EmptyInv'
  BY <1>3, <1>i DEF LogWrite
<1>4. ASSUME NEW p \in Proc, EndOp(p) PROVE EmptyInv'
  BY <1>4, <1>i DEF EndOp
<1>5. ASSUME NEW p \in Proc, Commit(p), ~Finish(p) PROVE EmptyInv'
  BY <1>5, <1>i DEF Commit, WriteLog, WriteLogDone, WriteHead, Install, InstallDone, Clear
<1>6. ASSUME NEW p \in Proc, Finish(p) PROVE EmptyInv'
  BY <1>6 DEF Finish, IInv, CommitDataInv
<1>7. ASSUME Recover \/ Crash PROVE EmptyInv'
  BY <1>7, <1>i DEF Recover, ReadHead, RecoverInstall, RecoverClear, Crash
<1>8. ASSUME (\E b \in Block : Recycle(b)) \/ UNCHANGED vars PROVE EmptyInv'
  BY <1>8 DEF Recycle, vars
<1> QED
  BY <1>1, <1>2, <1>3, <1>4, <1>5, <1>6, <1>7, <1>8 DEF Next

\* No step ends the reason for which somebody sleeps without waking him.
LEMMA AsleepStep == ASSUME IInv, AsleepInv, [Next]_vars PROVE AsleepInv'
<1> USE DEF diskVars, cacheVars, logVars, procVars, bootVars, AsleepInv, MustWait
<1>i. /\ outstanding \in Nat /\ lh.n \in Nat /\ lh \in Header /\ pc \in [Proc -> PC]
      /\ LOGSIZE \in Nat /\ MAXOPBLOCKS \in Nat
  BY Numbers, LogAssumption DEF IInv, TypeOK
<1>1. ASSUME NEW p \in Proc, Call(p) \/ LogWritePanics(p) \/ EndOpPanics(p) \/ BeginOp(p)
      PROVE  AsleepInv'
  BY <1>1, <1>i DEF Call, LogWritePanics, EndOpPanics, BeginOp
<1>2. ASSUME NEW p \in Proc, NEW b \in Block, NEW v \in Val, Modify(p, b, v) PROVE AsleepInv'
  BY <1>2, <1>i DEF Modify
<1>3. ASSUME NEW p \in Proc, LogWrite(p) PROVE AsleepInv'
  <2>1. lh'.n \in {lh.n, lh.n + 1} /\ outstanding' = outstanding /\ committing' = committing
    BY <1>3 DEF LogWrite, AddBlock
  <2>2. \A q \in Proc : pc'[q] = "asleep" => pc[q] = "asleep"
    BY <1>3, <1>i DEF LogWrite
  <2>3. (outstanding + 1) * MAXOPBLOCKS \in Nat
    BY <1>i
  <2> QED
    BY <1>i, <2>1, <2>2, <2>3
<1>4. ASSUME NEW p \in Proc, EndOp(p) \/ Finish(p) PROVE AsleepInv'
  <2>1. committing' = 1 \/ pc' = WakeAll(p, "idle")
    BY <1>4 DEF EndOp, Finish
  <2>2. pc' = WakeAll(p, "idle") => \A q \in Proc : pc'[q] # "asleep"
    BY <1>i DEF WakeAll
  <2> QED
    BY <2>1, <2>2
<1>5. ASSUME NEW p \in Proc, Commit(p), ~Finish(p) PROVE AsleepInv'
  <2>1. committing = 1 /\ committing' = committing
    BY <1>5 DEF Commit, WriteLog, WriteLogDone, WriteHead, Install, InstallDone, Clear,
                IInv, CommitInv, InCommit
  <2> QED
    BY <2>1
<1>6. ASSUME Recover \/ Crash PROVE AsleepInv'
  BY <1>6, <1>i DEF Recover, ReadHead, RecoverInstall, RecoverClear, Crash, IInv, BootInv
<1>7. ASSUME (\E b \in Block : Recycle(b)) \/ UNCHANGED vars PROVE AsleepInv'
  BY <1>7 DEF Recycle, vars
<1> QED
  BY <1>1, <1>2, <1>3, <1>4, <1>5, <1>6, <1>7 DEF Next

\* begin_op() never sleeps beside room for it, and never without a process that
\* ends its wait: an empty log has room for one operation, since param.h makes
\* LOGSIZE a multiple of MAXOPBLOCKS (log.c:130-137, 149-162).
THEOREM BeginOpMissesNothing ==
  ASSUME MAXOPBLOCKS <= LOGSIZE
  PROVE  Spec => []SleepersWaitForSomebody
<1>1. Init => EmptyInv /\ AsleepInv
  BY DEF Init, EmptyInv, AsleepInv
<1>2. IInv /\ EmptyInv /\ AsleepInv /\ [Next]_vars => EmptyInv' /\ AsleepInv'
  BY EmptyStep, AsleepStep
<1>3. IInv /\ EmptyInv /\ AsleepInv => SleepersWaitForSomebody
  <2> SUFFICES ASSUME IInv, EmptyInv, AsleepInv, NEW p \in Proc, pc[p] = "asleep"
               PROVE  MustWait /\ Active \union Committers # {}
    BY DEF SleepersWaitForSomebody
  <2>1. MustWait
    BY DEF AsleepInv
  <2>2. CASE committing = 1
    BY <2>1, <2>2 DEF IInv, CommitInv, Committers
  <2>3. CASE committing # 1
    <3>1. committing = 0 /\ boot = "up" /\ outstanding \in Nat
      BY <2>3 DEF IInv, TypeOK, BootInv
    <3>2. outstanding # 0
      BY <2>1, <3>1, LogAssumption DEF EmptyInv, MustWait
    <3>3. Active # {}
      BY <3>2, FS_EmptySet DEF IInv, CountInv
    <3> QED
      BY <2>1, <3>3
  <2> QED
    BY <2>2, <2>3
<1> QED
  BY <1>1, <1>2, <1>3, Invariance, PTL DEF Spec

-----------------------------------------------------------------------------
(***************************************************************************)
(* The log implements AtomicStore: under the mapping of Log (durable is    *)
(* what recovery would rebuild, current what an operation reads, active    *)
(* the processes between begin_op() and end_op()) every initial state is   *)
(* an initial state of the store and every step one of its steps, or none. *)
(***************************************************************************)

\* What recovery would write home, block by block.
LEMMA DurableIs ==
  ASSUME WellFormed(hdr), NEW b \in Block
  PROVE  /\ \A i \in 1..hdr.n : hdr.block[i] = b => Durable[b] = logblk[i]
         /\ (\A i \in 1..hdr.n : hdr.block[i] # b) => Durable[b] = home[b]
<1>1. ASSUME NEW i \in 1..hdr.n, hdr.block[i] = b PROVE Durable[b] = logblk[i]
  <2>1. (CHOOSE j \in 1..hdr.n : hdr.block[j] = b) = i
    BY <1>1 DEF WellFormed
  <2> QED
    BY <1>1, <2>1 DEF Durable
<1>2. ASSUME \A i \in 1..hdr.n : hdr.block[i] # b PROVE Durable[b] = home[b]
  BY <1>2 DEF Durable
<1> QED
  BY <1>1, <1>2

\* The same in the next state.
LEMMA DurableIsNext ==
  ASSUME WellFormed(hdr'), NEW b \in Block
  PROVE  /\ \A i \in 1..hdr'.n : hdr'.block[i] = b => Durable'[b] = logblk'[i]
         /\ (\A i \in 1..hdr'.n : hdr'.block[i] # b) => Durable'[b] = home'[b]
<1>1. ASSUME NEW i \in 1..hdr'.n, hdr'.block[i] = b PROVE Durable'[b] = logblk'[i]
  <2>1. (CHOOSE j \in 1..hdr'.n : hdr'.block[j] = b) = i
    BY <1>1 DEF WellFormed
  <2> QED
    BY <1>1, <2>1 DEF Durable
<1>2. ASSUME \A i \in 1..hdr'.n : hdr'.block[i] # b PROVE Durable'[b] = home'[b]
  BY <1>2 DEF Durable
<1> QED
  BY <1>1, <1>2

\* Two views of the disk are equal when they agree on every block.
LEMMA SameDurable ==
  ASSUME \A b \in Block : Durable'[b] = Durable[b] PROVE Durable' = Durable
<1>1. Durable = [b \in Block |-> Durable[b]]
  BY DEF Durable
<1>2. Durable' = [b \in Block |-> Durable'[b]]
  BY DEF Durable
<1> QED
  BY <1>1, <1>2

LEMMA InitMaps == Init => Store!AbsInit
<1> SUFFICES ASSUME Init PROVE Store!AbsInit
  OBVIOUS
<1>1. TypeOK /\ hdr.n = 0
  BY InitInv, HeaderFacts DEF IInv, Init
<1>2. Durable = home /\ home \in [Block -> Val]
  BY <1>1, DurableEmpty DEF TypeOK
<1>3. Current = Durable /\ Active = {}
  BY DEF Init, Current, Active, InOp
<1> QED
  BY <1>2, <1>3 DEF Store!AbsInit

LEMMA StepMaps == ASSUME IInv, IInv', Next PROVE [Store!AbsNext]_(Store!absVars)
<1> USE DEF PC, InOp, InCommit, vars, diskVars, cacheVars, logVars, procVars, bootVars
<1>i. /\ CommitInv /\ WellFormed(hdr) /\ WellFormed(hdr') /\ WellFormed(lh)
      /\ BufInv /\ HeaderInv /\ BootInv /\ CommitDataInv /\ PinnedExactly
  BY DEF IInv, HeaderInv
<1>t. /\ home \in [Block -> Val] /\ logblk \in [1..LOGSIZE -> Val]
      /\ tail \in [Proc -> Nat] /\ lh.n \in Nat /\ lh.n <= LOGSIZE /\ LOGSIZE \in Nat
      /\ buf \in [Block -> Val \union {NoData}] /\ NoData \notin Val
      /\ pc \in [Proc -> PC] /\ EmptyHeader.n = 0 /\ hdr.n \in Nat
      /\ rtail \in Nat /\ NoBlock \notin Block
  BY Numbers DEF IInv
<1>d. \A b \in Block :
        /\ \A i \in 1..hdr.n : hdr.block[i] = b => Durable[b] = logblk[i]
        /\ (\A i \in 1..hdr.n : hdr.block[i] # b) => Durable[b] = home[b]
        /\ \A i \in 1..hdr'.n : hdr'.block[i] = b => Durable'[b] = logblk'[i]
        /\ (\A i \in 1..hdr'.n : hdr'.block[i] # b) => Durable'[b] = home'[b]
  BY <1>i, DurableIs, DurableIsNext
<1>u. ASSUME UNCHANGED <<home, logblk, hdr>> PROVE Durable' = Durable
  BY <1>u DEF Durable
<1>c. ASSUME UNCHANGED <<home, logblk, hdr, buf, boot>> PROVE Current' = Current
  BY <1>c DEF Current, Contents, Durable
<1>s. ASSUME Durable' = Durable, Current' = Current, Active' = Active
      PROVE [Store!AbsNext]_(Store!absVars)
  BY <1>s DEF Store!absVars
<1>1. ASSUME NEW p \in Proc, Call(p) \/ LogWritePanics(p) \/ EndOpPanics(p) \/ LogWrite(p)
                             \/ WriteLogDone(p) \/ InstallDone(p) \/ Finish(p)
      PROVE [Store!AbsNext]_(Store!absVars)
  <2>1. UNCHANGED <<home, logblk, hdr, buf, boot>>
    BY <1>1 DEF Call, LogWritePanics, EndOpPanics, LogWrite, WriteLogDone, InstallDone, Finish
  <2>2. Active' = Active
    BY <1>1, <1>t DEF Call, LogWritePanics, EndOpPanics, LogWrite, WriteLogDone,
                      InstallDone, Finish, WakeAll, Active
  <2> QED
    BY <2>1, <2>2, <1>u, <1>c, <1>s
<1>2. ASSUME NEW p \in Proc, BeginOp(p) PROVE [Store!AbsNext]_(Store!absVars)
  <2>1. UNCHANGED <<home, logblk, hdr, buf, boot>>
    BY <1>2 DEF BeginOp
  <2>2. Durable' = Durable /\ Current' = Current
    BY <2>1, <1>u, <1>c
  <2>3. CASE MustWait
    <3>1. Active' = Active
      BY <1>2, <1>t, <2>3 DEF BeginOp, Active
    <3> QED
      BY <2>2, <3>1, <1>s
  <2>4. CASE ~MustWait
    <3>1. p \notin Active /\ Active' = Active \union {p}
      BY <1>2, <1>t, <2>4 DEF BeginOp, Active
    <3>2. Store!AbsBegin(p)
      BY <2>2, <3>1 DEF Store!AbsBegin
    <3> QED
      BY <3>2 DEF Store!AbsNext
  <2> QED
    BY <2>3, <2>4
<1>3. ASSUME NEW p \in Proc, NEW b \in Block, NEW v \in Val, Modify(p, b, v)
      PROVE [Store!AbsNext]_(Store!absVars)
  <2>1. UNCHANGED <<home, logblk, hdr, boot>> /\ buf' = [buf EXCEPT ![b] = v] /\ boot = "up"
    BY <1>3, <1>i DEF Modify, BootInv
  <2>2. Durable' = Durable
    BY <2>1, <1>u
  <2>3. Active' = Active /\ p \in Active
    BY <1>3, <1>t DEF Modify, Active
  <2>4. \A c \in Block : Contents(c)' = IF c = b THEN v ELSE Contents(c)
    BY <1>t, <2>1 DEF Contents
  <2>5. Current' = [Current EXCEPT ![b] = v]
    BY <2>1, <2>4 DEF Current
  <2>6. Store!AbsWrite(p, b, v)
    BY <2>2, <2>3, <2>5 DEF Store!AbsWrite
  <2> QED
    BY <2>6 DEF Store!AbsNext
<1>4. ASSUME NEW p \in Proc, EndOp(p) PROVE [Store!AbsNext]_(Store!absVars)
  <2>1. UNCHANGED <<home, logblk, hdr, buf, boot>>
    BY <1>4 DEF EndOp
  <2>2. Durable' = Durable /\ Current' = Current
    BY <2>1, <1>u, <1>c
  <2>3. p \in Active /\ Active' = Active \ {p}
    BY <1>4, <1>t DEF EndOp, WakeAll, Active
  <2>4. Store!AbsEnd(p)
    BY <2>2, <2>3 DEF Store!AbsEnd
  <2> QED
    BY <2>4 DEF Store!AbsNext
<1>5. ASSUME NEW p \in Proc, WriteLog(p) PROVE [Store!AbsNext]_(Store!absVars)
  <2>1. PICK i \in Nat, c \in Block :
          /\ i = tail[p] + 1 /\ i \in 1..lh.n /\ c = lh.block[i]
    BY <1>5, <1>i, <1>t DEF WriteLog, WellFormed
  <2>2. /\ UNCHANGED <<home, hdr, pc, boot>>
        /\ buf' = [buf EXCEPT ![c] = Contents(c)]
    BY <1>5, <2>1 DEF WriteLog
  <2>3. boot = "up" /\ hdr.n = 0
    BY <1>5, <1>i DEF WriteLog, BootInv, CommitInv, HeaderInv
  <2>4. \A b \in Block : Durable'[b] = Durable[b]
    BY <1>d, <2>2, <2>3
  <2>5. Contents(c) # NoData
    BY <1>t DEF Contents
  <2>6. \A b \in Block : Contents(b)' = Contents(b)
    BY <1>t, <2>2, <2>5 DEF Contents
  <2>7. Current' = Current
    BY <2>2, <2>3, <2>6 DEF Current
  <2>8. Active' = Active
    BY <2>2 DEF Active
  <2> QED
    BY <2>4, <2>7, <2>8, <1>s, SameDurable
<1>6. ASSUME NEW p \in Proc, WriteHead(p) PROVE [Store!AbsNext]_(Store!absVars)
  <2>1. boot = "up" /\ UNCHANGED <<home, logblk, buf, lh, boot>> /\ hdr' = lh
    BY <1>6, <1>i DEF WriteHead, BootInv
  <2>2. \A q \in Proc : pc[q] \notin {"install", "clear"} /\ pc[q] \notin InOp
                        /\ pc'[q] \notin InOp
    BY <1>6, <1>i, <1>t DEF WriteHead, CommitInv
  <2>3. Active = {} /\ Active' = {}
    BY <2>2 DEF Active
  <2>4. \A b \in Block : Contents(b)' = Contents(b)
    BY <2>1 DEF Contents
  <2>5. Current' = Current
    BY <2>1, <2>4 DEF Current
  <2>6. ASSUME NEW b \in Block PROVE Durable'[b] = Contents(b)
    <3>1. CASE \E i \in 1..lh.n : lh.block[i] = b
      BY <1>6, <1>i, <1>d, <2>1, <3>1 DEF WriteHead, CommitDataInv
    <3>2. CASE \A i \in 1..lh.n : lh.block[i] # b
      <4>1. Durable'[b] = home[b]
        BY <1>d, <2>1, <3>2
      <4>2. BufferFree(b) /\ ~Waiting(b)
        BY <1>i, <1>t, <2>2, <3>2 DEF BufferFree, Waiting, BufInv
      <4> QED
        BY <1>i, <2>1, <4>1, <4>2 DEF PinnedExactly
    <3> QED
      BY <3>1, <3>2
  <2>7. Durable' = Current
    <3>1. Durable' = [b \in Block |-> Durable'[b]]
      BY DEF Durable
    <3>2. Current = [b \in Block |-> Contents(b)]
      BY <2>1 DEF Current
    <3> QED
      BY <2>6, <3>1, <3>2
  <2>8. Store!AbsCommit
    BY <2>3, <2>5, <2>7 DEF Store!AbsCommit
  <2> QED
    BY <2>8 DEF Store!AbsNext
<1>7. ASSUME NEW p \in Proc, Install(p) PROVE [Store!AbsNext]_(Store!absVars)
  <2>1. PICK i \in Nat, c \in Block :
          /\ i = tail[p] + 1 /\ i \in 1..lh.n /\ i \in 1..LOGSIZE /\ c = lh.block[i]
    BY <1>7, <1>i, <1>t DEF Install, WellFormed
  <2>2. /\ UNCHANGED <<logblk, hdr, lh, pc, boot>>
        /\ home' = [home EXCEPT ![c] = logblk[i]]
        /\ buf' = [buf EXCEPT ![c] = logblk[i]]
    BY <1>7, <2>1 DEF Install
  <2>3. boot = "up" /\ hdr = lh /\ logblk[i] = Contents(c) /\ logblk[i] \in Val
    BY <1>7, <1>i, <1>t, <2>1 DEF Install, BootInv, HeaderInv, CommitDataInv
  <2>4. ASSUME NEW b \in Block PROVE Durable'[b] = Durable[b]
    <3>1. CASE \E j \in 1..hdr.n : hdr.block[j] = b
      BY <1>d, <2>2, <3>1
    <3>2. CASE \A j \in 1..hdr.n : hdr.block[j] # b
      <4>1. b # c
        BY <2>1, <2>3, <3>2
      <4> QED
        BY <1>d, <1>t, <2>2, <3>2, <4>1
    <3> QED
      BY <3>1, <3>2
  <2>5. \A b \in Block : Contents(b)' = Contents(b)
    BY <1>t, <2>2, <2>3 DEF Contents
  <2>6. Current' = Current
    BY <2>2, <2>3, <2>5 DEF Current
  <2>7. Active' = Active
    BY <2>2 DEF Active
  <2> QED
    BY <2>4, <2>6, <2>7, <1>s, SameDurable
<1>8. ASSUME NEW p \in Proc, Clear(p) PROVE [Store!AbsNext]_(Store!absVars)
  <2>1. UNCHANGED <<home, logblk, buf, boot>> /\ hdr' = EmptyHeader
    BY <1>8 DEF Clear
  <2>2. /\ boot = "up" /\ hdr = lh
        /\ \A i \in 1..hdr.n : logblk[i] = home[hdr.block[i]]
    BY <1>8, <1>i DEF Clear, BootInv, HeaderInv, CommitDataInv
  <2>3. \A b \in Block : Durable'[b] = home[b] /\ Durable[b] = home[b]
    BY <1>d, <1>t, <2>1, <2>2
  <2>4. \A b \in Block : Contents(b)' = Contents(b)
    BY <2>1 DEF Contents
  <2>5. Current' = Current
    BY <2>1, <2>2, <2>4 DEF Current
  <2>6. Active' = Active
    BY <1>8, <1>t DEF Clear, Active
  <2> QED
    BY <2>3, <2>5, <2>6, <1>s, SameDurable
<1>9. ASSUME NEW b \in Block, Recycle(b) PROVE [Store!AbsNext]_(Store!absVars)
  <2>1. UNCHANGED <<home, logblk, hdr, pc, boot>> /\ buf' = [buf EXCEPT ![b] = NoData]
    BY <1>9 DEF Recycle
  <2>2. Durable' = Durable /\ Active' = Active
    BY <2>1, <1>u DEF Active
  <2>3. CASE boot = "up"
    <3>1. Contents(b) = home[b]
      BY <1>9, <1>i, <2>3 DEF Recycle, PinnedExactly
    <3>2. \A c \in Block : Contents(c)' = Contents(c)
      BY <1>t, <2>1, <3>1 DEF Contents
    <3>3. Current' = Current
      BY <2>1, <2>3, <3>2 DEF Current
    <3> QED
      BY <2>2, <3>3, <1>s
  <2>4. CASE boot # "up"
    <3>1. Current' = Current
      BY <2>1, <2>2, <2>4 DEF Current
    <3> QED
      BY <2>2, <3>1, <1>s
  <2> QED
    BY <2>3, <2>4
<1>10. ASSUME ReadHead PROVE [Store!AbsNext]_(Store!absVars)
  <2>1. UNCHANGED <<home, logblk, hdr, pc>> /\ boot # "up" /\ boot' # "up"
    BY <1>10 DEF ReadHead
  <2> QED
    BY <2>1, <1>u, <1>s DEF Current, Active
<1>11. ASSUME RecoverInstall PROVE [Store!AbsNext]_(Store!absVars)
  <2>1. PICK i \in Nat, c \in Block :
          /\ i = rtail + 1 /\ i \in 1..lh.n /\ i \in 1..LOGSIZE /\ c = lh.block[i]
    BY <1>11, <1>i, <1>t DEF RecoverInstall, WellFormed
  <2>2. /\ UNCHANGED <<logblk, hdr, lh, pc, boot>> /\ boot = "install"
        /\ home' = [home EXCEPT ![c] = logblk[i]]
    BY <1>11, <2>1 DEF RecoverInstall
  <2>3. hdr = lh
    BY <1>i, <2>2 DEF BootInv
  <2>4. ASSUME NEW b \in Block PROVE Durable'[b] = Durable[b]
    <3>1. CASE \E j \in 1..hdr.n : hdr.block[j] = b
      BY <1>d, <2>2, <3>1
    <3>2. CASE \A j \in 1..hdr.n : hdr.block[j] # b
      <4>1. b # c
        BY <2>1, <2>3, <3>2
      <4> QED
        BY <1>d, <1>t, <2>2, <3>2, <4>1
    <3> QED
      BY <3>1, <3>2
  <2>5. Durable' = Durable
    BY <2>4, SameDurable
  <2> QED
    BY <2>2, <2>5, <1>s DEF Current, Active
<1>12. ASSUME RecoverClear PROVE [Store!AbsNext]_(Store!absVars)
  <2>1. /\ UNCHANGED <<home, logblk, buf, pc>> /\ hdr' = EmptyHeader
        /\ boot = "install" /\ boot' = "up"
    BY <1>12 DEF RecoverClear
  <2>2. rtail = hdr.n
    BY <1>12, <1>i, <1>t, <2>1 DEF RecoverClear, BootInv
  <2>3. \A i \in 1..hdr.n : logblk[i] = home[hdr.block[i]]
    BY <1>i, <2>1, <2>2 DEF BootInv
  <2>4. ASSUME NEW b \in Block PROVE Durable'[b] = home[b] /\ Durable[b] = home[b]
    <3>1. Durable'[b] = home[b]
      BY <1>d, <1>t, <2>1
    <3>2. Durable[b] = home[b]
      BY <1>d, <2>3
    <3> QED
      BY <3>1, <3>2
  <2>5. \A b \in Block : Contents(b)' = home[b]
    BY <1>i, <2>1 DEF BootInv, Contents
  <2>6. Current' = [b \in Block |-> home[b]]
    BY <2>1, <2>5 DEF Current
  <2>7. Durable = [b \in Block |-> home[b]]
    <3>1. Durable = [b \in Block |-> Durable[b]]
      BY DEF Durable
    <3> QED
      BY <2>4, <3>1
  <2>8. Current' = Current
    BY <2>1, <2>6, <2>7 DEF Current
  <2>9. Active' = Active
    BY <2>1 DEF Active
  <2> QED
    BY <2>4, <2>8, <2>9, <1>s, SameDurable
<1>13. ASSUME Crash PROVE [Store!AbsNext]_(Store!absVars)
  <2>1. UNCHANGED <<home, logblk, hdr>> /\ boot' # "up" /\ Active' = {}
    BY <1>13 DEF Crash, Active
  <2>2. Durable' = Durable /\ Current' = Durable
    BY <2>1, <1>u DEF Current
  <2>3. Store!AbsCrash
    BY <2>1, <2>2 DEF Store!AbsCrash
  <2> QED
    BY <2>3 DEF Store!AbsNext
<1> QED
  BY <1>1, <1>2, <1>3, <1>4, <1>5, <1>6, <1>7, <1>8, <1>9, <1>10, <1>11, <1>12, <1>13
     DEF Next, Commit, Recover

\* Atomicity of file-system operations over crashes: the log implements
\* AtomicStore (log.c:10-16, the promise of begin_op() and end_op()).
THEOREM LogIsAtomic == Spec => ImplementsStore
<1>1. Init => Store!AbsInit
  BY InitMaps
<1>2. IInv /\ IInv' /\ [Next]_vars => [Store!AbsNext]_(Store!absVars)
  <2>1. ASSUME IInv, IInv', UNCHANGED vars PROVE [Store!AbsNext]_(Store!absVars)
    BY <2>1 DEF vars, diskVars, cacheVars, logVars, procVars, bootVars, Store!absVars,
                Durable, Current, Contents, Active
  <2> QED
    BY <2>1, StepMaps
<1> QED
  BY <1>1, <1>2, Invariance, PTL DEF Spec, ImplementsStore, Store!AbsSpec

\* What a power failure would leave changes in one step, when no operation runs, and
\* then to everything that has been written; a crash itself changes nothing of it.
AllOrNothing ==
  /\ Durable' = Durable \/ (Active = {} /\ Durable' = Current)
  /\ Crash => Durable' = Durable

\* The promise of log.c:10-16 said of the disk alone, a consequence of LogIsAtomic:
\* no crash, not even one during recovery, shows a part of an operation.
THEOREM GroupsAtOnce == Spec => [][AllOrNothing]_vars
<1>1. [Store!AbsNext]_(Store!absVars) => Durable' = Durable \/ (Active = {} /\ Durable' = Current)
  BY DEF Store!AbsNext, Store!absVars, Store!AbsBegin, Store!AbsEnd, Store!AbsWrite,
         Store!AbsCommit, Store!AbsCrash
<1>2. Crash => Durable' = Durable
  BY DEF Crash, diskVars, Durable
<1>3. [Store!AbsNext]_(Store!absVars) => [AllOrNothing]_vars
  BY <1>1, <1>2 DEF AllOrNothing
<1> QED
  BY LogIsAtomic, <1>3, PTL DEF ImplementsStore, Store!AbsSpec
=============================================================================
