------------------------------- MODULE Inodes -------------------------------
(***************************************************************************)
(* Names and inodes (tree 4, kernel/fs.c and the calls of sysfile.c on     *)
(* names): open with and without O_CREATE, link, unlink and close by       *)
(* several processes on one directory of files, over the inodes of the     *)
(* disk and the inode table that caches them.                              *)
(*                                                                         *)
(* A step ends where a lock is given back or another process can see what  *)
(* was done.  The contents of files are left out.  Log makes the changes   *)
(* of concurrent calls durable together, when the last one ends; here that *)
(* is committed, what a crash goes back to.                                *)
(***************************************************************************)
EXTENDS Integers, FiniteSets

CONSTANTS
  Proc, NoProc,
  Name, NoName,
  Calls,          \* Calls[p][l]: the names for which p makes system call l
  NINODES,        \* inodes on the disk: sb.ninodes - 1
  NINODE,         \* entries of itable
  NFILE           \* entries of ftable

Inum == 1..NINODES
Slot == 1..NINODE
T_FILE == 2
Syscall == {"open", "create", "unlink", "link"}

ASSUME InodesAssumption ==
  /\ IsFiniteSet(Proc) /\ NoProc \notin Proc
  /\ IsFiniteSet(Name) /\ NoName \notin Name
  /\ Calls \in [Proc -> [Syscall -> SUBSET Name]]
  /\ NINODES \in Nat \ {0} /\ NINODE \in Nat \ {0} /\ NFILE \in Nat

VARIABLES
  dir,              \* the directory: Name -> inode number, or 0
  din,              \* the inodes on the disk: struct dinode
  committed,        \* dir and din as the last commit left them
  inode,            \* itable: struct inode without its lock
  lock,             \* lock[s]: who holds the sleep lock of inode[s]
  dlock,            \* who holds the lock of the directory's inode
  ofile,            \* ofile[p]: the slot of the file p has open, or 0
  pc, name, new,    \* per process: where it is and the names it was given
  ip,               \* the slot it works on, or 0
  inum,             \* where ialloc() is
  lost,             \* history: inodes that nothing will free any more
  panicked          \* has iget() stopped the machine?

diskVars == <<dir, din>>
tableVars == <<inode, lock, ofile>>
procVars == <<pc, name, new, ip, inum>>
vars == <<diskVars, committed, tableVars, dlock, procVars, lost, panicked>>

FreeDinode == [type |-> 0, nlink |-> 0]
EmptyInode == [inum |-> 0, ref |-> 0, valid |-> 0, type |-> 0, nlink |-> 0]

Init ==
  /\ dir = [n \in Name |-> 0]
  /\ din = [i \in Inum |-> FreeDinode]
  /\ committed = [dir |-> dir, din |-> din]
  /\ inode = [s \in Slot |-> EmptyInode]
  /\ lock = [s \in Slot |-> NoProc]
  /\ dlock = NoProc
  /\ ofile = [p \in Proc |-> 0]
  /\ pc = [p \in Proc |-> "idle"]
  /\ name = [p \in Proc |-> NoName]
  /\ new = [p \in Proc |-> NoName]
  /\ ip = [p \in Proc |-> 0]
  /\ inum = [p \in Proc |-> 0]
  /\ lost = {}
  /\ panicked = FALSE

\* The process goes on at l; arguments that it does not need there are
\* forgotten.
Goto(p, l) ==
  /\ pc' = [pc EXCEPT ![p] = l]
  /\ name' = IF l \in {"ialloc", "iget", "init", "dirlink", "erase"} THEN name
             ELSE [name EXCEPT ![p] = NoName]
  /\ new' = IF l \in {"count", "link_dir"} THEN new ELSE [new EXCEPT ![p] = NoName]

-----------------------------------------------------------------------------
(* The inode table.                                                        *)

Cached(i) == {s \in Slot : inode[s].ref > 0 /\ inode[s].inum = i}
Unused == {s \in Slot : inode[s].ref = 0}
First(S) == CHOOSE s \in S : \A t \in S : s <= t

\* A bug: only valid entries are found.
IgetValid(p, i) ==
  LET found == {s \in Cached(i) : inode[s].valid = 1}
      s == First(IF found # {} THEN found ELSE Unused) IN
  /\ found \union Unused # {}
  /\ inode' = [inode EXCEPT ![s].inum = i, ![s].ref = @ + 1,
                            ![s].valid = IF found # {} THEN 1 ELSE 0]
  /\ ip' = [ip EXCEPT ![p] = s]

HasRoom(i) == Cached(i) \union Unused # {}

\* iget(), when it finds an entry.
Iget(p, i) ==
  LET s == First(IF Cached(i) # {} THEN Cached(i) ELSE Unused) IN
  /\ HasRoom(i)
  /\ inode' = [inode EXCEPT ![s].inum = i, ![s].ref = @ + 1,
                            ![s].valid = IF Cached(i) # {} THEN @ ELSE 0]
  /\ ip' = [ip EXCEPT ![p] = s]

\* panic("iget: no inodes"), and the machine stops.  The caller keeps
\* itable.lock and its operation of the log never ends, so nothing that the
\* other CPUs may still do becomes durable.
IgetPanics(p) ==
  /\ \/ pc[p] = "iget" /\ ~HasRoom(inum[p])
     \/ /\ pc[p] \in {"open", "create", "unlink", "link"}
        /\ dlock = NoProc /\ dir[name[p]] # 0 /\ ~HasRoom(dir[name[p]])
  /\ panicked' = TRUE
  /\ UNCHANGED <<diskVars, committed, tableVars, dlock, procVars, lost>>

\* inode[s] once ilock() has read it from the disk if it must.
Loaded(s) ==
  IF inode[s].valid = 1 THEN inode[s]
  ELSE LET d == din[inode[s].inum] IN
       [inode[s] EXCEPT !.valid = 1, !.type = d.type, !.nlink = d.nlink]

\* The rest of ilock(), and iunlock().
Acquire(p, s) == lock[s] = NoProc /\ lock' = [lock EXCEPT ![s] = p]
Release(s) == lock' = [lock EXCEPT ![s] = NoProc]

\* The in-memory inode becomes r, and iupdate() writes it.
Update(s, r) ==
  /\ inode' = [inode EXCEPT ![s] = r]
  /\ din' = [din EXCEPT ![r.inum] = [type |-> r.type, nlink |-> r.nlink]]

AddLinks(r, k) == [r EXCEPT !.nlink = @ + k]

-----------------------------------------------------------------------------
(* System calls: each is an operation of the log from its call to EndOp.   *)

Call(p) ==
  /\ pc[p] = "idle"
  /\ \E l \in Syscall : \E n \in Calls[p][l] :
       pc' = [pc EXCEPT ![p] = l] /\ name' = [name EXCEPT ![p] = n]
  /\ \E m \in Name : new' = [new EXCEPT ![p] = IF pc'[p] = "link" THEN m ELSE NoName]
  /\ UNCHANGED <<diskVars, committed, tableVars, dlock, ip, inum, lost>>

\* namei(): the lock of the directory is held for the search only.
Namei(p) ==
  /\ pc[p] \in {"open", "link"}
  /\ dlock = NoProc
  /\ IF dir[name[p]] = 0
     THEN Goto(p, "end") /\ UNCHANGED <<inode, ip>>
     ELSE Iget(p, dir[name[p]]) /\ Goto(p, IF pc[p] = "open" THEN "ilock" ELSE "count")
  /\ UNCHANGED <<diskVars, committed, lock, ofile, dlock, inum, lost>>

\* The rest of sys_open(), from ilock(ip) on.
OpenLock(p) ==
  /\ pc[p] = "ilock"
  /\ Acquire(p, ip[p])
  /\ inode' = [inode EXCEPT ![ip[p]] = Loaded(ip[p])]
  /\ Goto(p, "locked")
  /\ UNCHANGED <<diskVars, committed, ofile, dlock, ip, inum, lost>>

CanAlloc(p) == ofile[p] = 0 /\ Cardinality({q \in Proc : ofile[q] # 0}) < NFILE

Opened(p) ==
  /\ pc[p] = "locked"
  /\ CanAlloc(p)
  /\ ofile' = [ofile EXCEPT ![p] = ip[p]]
  /\ ip' = [ip EXCEPT ![p] = 0]
  /\ Release(ip[p])
  /\ Goto(p, "end")
  /\ UNCHANGED <<diskVars, committed, inode, dlock, inum, lost>>

\* filealloc() or fdalloc() fails.
OpenFails(p) ==
  /\ pc[p] = "locked"
  /\ ~CanAlloc(p)
  /\ Release(ip[p])
  /\ Goto(p, "put")
  /\ UNCHANGED <<diskVars, committed, inode, ofile, dlock, ip, inum, lost>>

\* fileclose() of the only reference to the file.
Close(p) ==
  /\ pc[p] = "idle"
  /\ ofile[p] # 0
  /\ ofile' = [ofile EXCEPT ![p] = 0]
  /\ ip' = [ip EXCEPT ![p] = ofile[p]]
  /\ Goto(p, "put")
  /\ UNCHANGED <<diskVars, committed, inode, lock, dlock, inum, lost>>

-----------------------------------------------------------------------------
(* create().                                                               *)

Create(p) ==
  /\ pc[p] = "create"
  /\ dlock = NoProc
  /\ IF dir[name[p]] # 0
     THEN /\ Iget(p, dir[name[p]])
          /\ Goto(p, "ilock")
          /\ UNCHANGED <<dlock, inum>>
     ELSE /\ dlock' = p
          /\ inum' = [inum EXCEPT ![p] = 1]
          /\ Goto(p, "ialloc")
          /\ UNCHANGED <<inode, ip>>
  /\ UNCHANGED <<diskVars, committed, lock, ofile, lost>>

\* ialloc(): one inode under the lock of its block.
Ialloc(p) ==
  /\ pc[p] = "ialloc"
  /\ inum[p] \in Inum
  /\ IF din[inum[p]].type = 0
     THEN /\ din' = [din EXCEPT ![inum[p]] = [type |-> T_FILE, nlink |-> 0]]
          /\ Goto(p, "iget")
          /\ UNCHANGED inum
     ELSE /\ inum' = [inum EXCEPT ![p] = @ + 1]
          /\ UNCHANGED <<din, pc, name, new>>
  /\ UNCHANGED <<dir, committed, tableVars, dlock, ip, lost>>

NoInodes(p) ==
  /\ pc[p] = "ialloc"
  /\ inum[p] \notin Inum
  /\ inum' = [inum EXCEPT ![p] = 0]
  /\ dlock' = NoProc
  /\ Goto(p, "end")
  /\ UNCHANGED <<diskVars, committed, tableVars, ip, lost>>

IallocGet(p) ==
  /\ pc[p] = "iget"
  /\ Iget(p, inum[p])
  /\ inum' = [inum EXCEPT ![p] = 0]
  /\ Goto(p, "init")
  /\ UNCHANGED <<diskVars, committed, lock, ofile, dlock, lost>>

CreateInit(p) ==
  /\ pc[p] = "init"
  /\ Acquire(p, ip[p])
  /\ Update(ip[p], [Loaded(ip[p]) EXCEPT !.nlink = 1])
  /\ Goto(p, "dirlink")
  /\ UNCHANGED <<dir, committed, ofile, dlock, ip, inum, lost>>

CreateLink(p) ==
  /\ pc[p] = "dirlink"
  /\ dir' = [dir EXCEPT ![name[p]] = inode[ip[p]].inum]
  /\ dlock' = NoProc
  /\ Goto(p, "locked")
  /\ UNCHANGED <<din, committed, tableVars, ip, inum, lost>>

\* A bug: no iupdate() on the way out.
CreateFailsUncounted(p) ==
  /\ pc[p] = "dirlink"
  /\ Release(ip[p])
  /\ Goto(p, "put")
  /\ UNCHANGED <<diskVars, inode, committed, ofile, dlock, ip, inum, lost>>

\* A bug: iput() where iunlockput() belongs, so that the inode stays locked.
CreateFailsLocked(p) ==
  /\ pc[p] = "dirlink"
  /\ Update(ip[p], [inode[ip[p]] EXCEPT !.nlink = 0])
  /\ Goto(p, "put")
  /\ UNCHANGED <<dir, committed, lock, ofile, dlock, ip, inum, lost>>

\* No room for the name; iput() frees the inode before the directory is
\* unlocked.
CreateFails(p) ==
  /\ pc[p] = "dirlink"
  /\ Update(ip[p], [inode[ip[p]] EXCEPT !.nlink = 0])
  /\ Release(ip[p])
  /\ Goto(p, "put")
  /\ UNCHANGED <<dir, committed, ofile, dlock, ip, inum, lost>>

-----------------------------------------------------------------------------
(* sys_unlink() and sys_link().                                            *)

UnlinkLookup(p) ==
  /\ pc[p] = "unlink"
  /\ dlock = NoProc
  /\ IF dir[name[p]] = 0
     THEN Goto(p, "end") /\ UNCHANGED <<dlock, inode, ip>>
     ELSE dlock' = p /\ Iget(p, dir[name[p]]) /\ Goto(p, "erase")
  /\ UNCHANGED <<diskVars, committed, lock, ofile, inum, lost>>

UnlinkErase(p) ==
  /\ pc[p] = "erase"
  /\ Acquire(p, ip[p])
  /\ inode' = [inode EXCEPT ![ip[p]] = Loaded(ip[p])]
  /\ dir' = [dir EXCEPT ![name[p]] = 0]
  /\ dlock' = NoProc
  /\ Goto(p, "uncount")
  /\ UNCHANGED <<din, committed, ofile, ip, inum, lost>>

UnlinkCount(p) ==
  /\ pc[p] = "uncount"
  /\ Update(ip[p], AddLinks(inode[ip[p]], -1))
  /\ Release(ip[p])
  /\ Goto(p, "put")
  /\ UNCHANGED <<dir, committed, ofile, dlock, ip, inum, lost>>

\* A bug: the inode stays locked while the directory is searched.
LinkCountLocks(p) ==
  /\ pc[p] = "count"
  /\ Acquire(p, ip[p])
  /\ Update(ip[p], AddLinks(Loaded(ip[p]), 1))
  /\ Goto(p, "link_dir")
  /\ UNCHANGED <<dir, committed, ofile, dlock, ip, inum, lost>>

\* The count goes up before the name is there, so that the inode cannot go.
LinkCount(p) ==
  /\ pc[p] = "count"
  /\ lock[ip[p]] = NoProc
  /\ Update(ip[p], AddLinks(Loaded(ip[p]), 1))
  /\ Goto(p, "link_dir")
  /\ UNCHANGED <<dir, committed, lock, ofile, dlock, ip, inum, lost>>

LinkDir(p) ==
  /\ pc[p] = "link_dir"
  /\ dlock = NoProc
  /\ dir[new[p]] = 0
  /\ dir' = [dir EXCEPT ![new[p]] = inode[ip[p]].inum]
  /\ Goto(p, "put")
  /\ UNCHANGED <<din, committed, tableVars, dlock, ip, inum, lost>>

\* The name exists, or there is no room for it.
LinkFails(p) ==
  /\ pc[p] = "link_dir"
  /\ dlock = NoProc
  /\ Goto(p, "undo")
  /\ UNCHANGED <<diskVars, committed, tableVars, dlock, ip, inum, lost>>

LinkUndo(p) ==
  /\ pc[p] = "undo"
  /\ lock[ip[p]] = NoProc
  /\ Update(ip[p], AddLinks(Loaded(ip[p]), -1))
  /\ Goto(p, "put")
  /\ UNCHANGED <<dir, committed, lock, ofile, dlock, ip, inum, lost>>

-----------------------------------------------------------------------------
(* iput().                                                                 *)

\* A bug: iput() not looking at the links.
MustFreeLinked(s) == inode[s].ref = 1 /\ inode[s].valid = 1

MustFree(s) == inode[s].ref = 1 /\ inode[s].valid = 1 /\ inode[s].nlink = 0

\* ref-- and, after create() has failed, the unlocking of the directory; what
\* an unused entry holds is not read again.
Unref(p) ==
  /\ LET r == inode[ip[p]] IN
     inode' = [inode EXCEPT ![ip[p]] =
       IF r.ref = 1 THEN EmptyInode ELSE [r EXCEPT !.ref = r.ref - 1]]
  /\ ip' = [ip EXCEPT ![p] = 0]
  /\ dlock' = IF dlock = p THEN NoProc ELSE dlock
  /\ Goto(p, "end")

Put(p) ==
  /\ pc[p] = "put"
  /\ ~MustFree(ip[p])
  /\ Unref(p)
  /\ UNCHANGED <<diskVars, committed, lock, ofile, inum, lost>>

\* The last reference to an inode without a name: it is locked before
\* itable.lock is released.
PutLast(p) ==
  /\ pc[p] = "put"
  /\ MustFree(ip[p])
  /\ Acquire(p, ip[p])
  /\ Goto(p, "free")
  /\ UNCHANGED <<diskVars, committed, inode, ofile, dlock, ip, inum, lost>>

\* itrunc(), and iupdate() of type 0: ialloc() may take the inode now.
Free(p) ==
  /\ pc[p] = "free"
  /\ Update(ip[p], [inode[ip[p]] EXCEPT !.type = 0])
  /\ Goto(p, "freed")
  /\ UNCHANGED <<dir, committed, lock, ofile, dlock, ip, inum, lost>>

Freed(p) ==
  /\ pc[p] = "freed"
  /\ inode' = [inode EXCEPT ![ip[p]].valid = 0]
  /\ Release(ip[p])
  /\ Goto(p, "unref")
  /\ UNCHANGED <<diskVars, committed, ofile, dlock, ip, inum, lost>>

\* The test is not made again, although the inode may have been given away
\* and lost its name while itable.lock was free.
PutFreed(p) ==
  /\ pc[p] = "unref"
  /\ Unref(p)
  /\ lost' = IF MustFree(ip[p]) THEN lost \union {inode[ip[p]].inum} ELSE lost
  /\ UNCHANGED <<diskVars, committed, lock, ofile, inum>>

-----------------------------------------------------------------------------
(* The log.                                                                *)

\* end_op(): the last of the concurrent operations commits them all.
EndOp(p) ==
  /\ pc[p] = "end"
  /\ Goto(p, "idle")
  /\ committed' = IF \A q \in Proc : pc'[q] = "idle" THEN [dir |-> dir, din |-> din]
                  ELSE committed
  /\ UNCHANGED <<diskVars, tableVars, dlock, ip, inum, lost>>

Unnamed(d) == {i \in Inum : d.din[i].type # 0 /\ \A n \in Name : d.dir[n] # i}

\* The machine stops and boots, and recovery installs the last commit.
Crash ==
  /\ dir' = committed.dir
  /\ din' = committed.din
  /\ inode' = [s \in Slot |-> EmptyInode]
  /\ lock' = [s \in Slot |-> NoProc]
  /\ dlock' = NoProc
  /\ ofile' = [p \in Proc |-> 0]
  /\ pc' = [p \in Proc |-> "idle"]
  /\ name' = [p \in Proc |-> NoName]
  /\ new' = [p \in Proc |-> NoName]
  /\ ip' = [p \in Proc |-> 0]
  /\ inum' = [p \in Proc |-> 0]
  /\ lost' = Unnamed(committed)
  /\ UNCHANGED committed

-----------------------------------------------------------------------------
OpenStep(p) == Namei(p) \/ OpenLock(p) \/ Opened(p) \/ OpenFails(p)
CreateStep(p) ==
  \/ Create(p) \/ Ialloc(p) \/ NoInodes(p) \/ IallocGet(p)
  \/ CreateInit(p) \/ CreateLink(p) \/ CreateFails(p)
UnlinkStep(p) == UnlinkLookup(p) \/ UnlinkErase(p) \/ UnlinkCount(p)
LinkStep(p) == LinkCount(p) \/ LinkDir(p) \/ LinkFails(p) \/ LinkUndo(p)
PutStep(p) == Put(p) \/ PutLast(p) \/ Free(p) \/ Freed(p) \/ PutFreed(p)
Step(p) ==
  OpenStep(p) \/ CreateStep(p) \/ UnlinkStep(p) \/ LinkStep(p) \/ PutStep(p) \/ EndOp(p)

Next ==
  \/ Crash /\ panicked' = FALSE
  \/ /\ ~panicked
     /\ \E p \in Proc : \/ (Call(p) \/ Close(p) \/ Step(p)) /\ UNCHANGED panicked
                       \/ IgetPanics(p)

Spec == Init /\ [][Next]_vars

-----------------------------------------------------------------------------
(* Properties.                                                             *)

PC == {"idle", "open", "create", "unlink", "link", "ilock", "locked", "ialloc", "iget",
       "init", "dirlink", "erase", "uncount", "count", "link_dir", "undo", "put", "free",
       "freed", "unref", "end"}

\* Every variable keeps its type, and the counts never get negative.
TypeOK ==
  /\ dir \in [Name -> 0..NINODES]
  /\ din \in [Inum -> [type : {0, T_FILE}, nlink : Nat]]
  /\ committed \in [dir : [Name -> 0..NINODES],
                    din : [Inum -> [type : {0, T_FILE}, nlink : Nat]]]
  /\ inode \in [Slot -> [inum : 0..NINODES, ref : Nat, valid : {0, 1},
                         type : {0, T_FILE}, nlink : Nat]]
  /\ lock \in [Slot -> Proc \union {NoProc}]
  /\ dlock \in Proc \union {NoProc}
  /\ ofile \in [Proc -> 0..NINODE]
  /\ pc \in [Proc -> PC]
  /\ name \in [Proc -> Name \union {NoName}]
  /\ new \in [Proc -> Name \union {NoName}]
  /\ ip \in [Proc -> 0..NINODE]
  /\ inum \in [Proc -> 0..NINODES + 1]
  /\ lost \subseteq Inum
  /\ panicked \in BOOLEAN

Users(s) == Cardinality({p \in Proc : ip[p] = s}) + Cardinality({p \in Proc : ofile[p] = s})

\* The reference count of a table entry is the number of open files and of
\* calls that use it, and no inode is in two entries - although iput() gives
\* up itable.lock in the middle, with the count at 1 and the inode free.
RefsExact ==
  /\ \A s \in Slot : inode[s].ref = Users(s)
  /\ \A s, t \in Slot :
       inode[s].ref > 0 /\ inode[t].ref > 0 /\ inode[s].inum = inode[t].inum => s = t

\* Link counts that do not have their name yet, or have lost it already.
Unsettled(i) ==
  Cardinality({p \in Proc : ip[p] # 0 /\ inode[ip[p]].inum = i
                            /\ pc[p] \in {"dirlink", "link_dir", "undo", "uncount"}})

\* nlink on the disk is the number of names, up to the calls in the middle of
\* changing both; what is committed is exact, so a crash between the steps of
\* a call leaves no name without an inode and no count too high.
LinksExact ==
  /\ \A i \in Inum : din[i].nlink = Cardinality({n \in Name : dir[n] = i}) + Unsettled(i)
  /\ \A i \in Inum : committed.din[i].nlink = Cardinality({n \in Name : committed.dir[n] = i})
  /\ \A n \in Name : committed.dir[n] # 0 => committed.din[committed.dir[n]].type # 0

\* An entry of the table that is in use and valid is what the disk has, except
\* while an inode that its last user is freeing has been given away again.
CacheTrue ==
  \A s \in Slot : inode[s].ref > 0 /\ inode[s].valid = 1 =>
    \/ din[inode[s].inum] = [type |-> inode[s].type, nlink |-> inode[s].nlink]
    \/ \E p \in Proc : pc[p] = "freed" /\ ip[p] = s

\* The two together: the inode table is exact, although iput() gives up its
\* lock in the middle.
TableExact == RefsExact /\ CacheTrue

\* The panics of ilock() and sys_unlink() are out of reach; iget() panics only
\* when the open files and the calls under way use all NINODE entries; and
\* acquiresleep() in iput(), called with a spin lock held, never has to sleep.
Assertions ==
  /\ \A p \in Proc :
       /\ pc[p] \in {"ilock", "init", "erase", "count", "undo"} /\ lock[ip[p]] = NoProc
            => Loaded(ip[p]).type # 0
       /\ pc[p] = "erase" /\ lock[ip[p]] = NoProc => Loaded(ip[p]).nlink > 0
       /\ pc[p] = "put" /\ MustFree(ip[p]) => lock[ip[p]] = NoProc
  /\ panicked => \A s \in Slot : Users(s) > 0

\* When no call is under way, an inode that is allocated has a name or is
\* open.  There are two exceptions: a crash while it was open without a name,
\* and iput(), which does not look again at an inode that it has just freed
\* and that was given away and unlinked before it takes itable.lock back.
NothingLeaks ==
  (\A p \in Proc : pc[p] = "idle") =>
    \A i \in Inum : din[i].type # 0 =>
      \/ i \in lost
      \/ \E n \in Name : dir[n] = i
      \/ \E p \in Proc : ofile[p] # 0 /\ inode[ofile[p]].inum = i

\* Where a call has to wait: for the directory, or for an inode.
Waits(p) ==
  \/ pc[p] \in {"open", "link", "create", "unlink", "link_dir"} /\ dlock # NoProc
  \/ pc[p] \in {"ilock", "init", "erase", "count", "undo"} /\ lock[ip[p]] # NoProc

\* The calls never wait for each other in a circle: while some are under way,
\* one has nothing to wait for.  sys_unlink() and create() lock an inode while
\* they hold the directory, so nobody may ask for the directory with an inode
\* locked.
NoCircle ==
  (\E p \in Proc : pc[p] # "idle") => \E p \in Proc : pc[p] # "idle" /\ ~Waits(p)

\* A call goes on as soon as it has nothing to wait for, if only into the panic
\* of iget(): no lock that a failed call forgot to release keeps it where it is.
WaitsForLocksOnly ==
  \A p \in Proc :
    pc[p] # "idle" => (ENABLED (Step(p) \/ IgetPanics(p)) <=> ~Waits(p))

\* The two together: no order of the calls ends in a panic, but that of iget()
\* with the table full of inodes in use, or, as they wait for locks only, stands
\* still.
NeverStuck == Assertions /\ NoCircle

Life == INSTANCE FileLife WITH
  Inode <- Inum, NoInode <- 0, names <- dir,
  alive <- {i \in Inum : din[i].type # 0},
  open <- {inode[ofile[p]].inum : p \in {q \in Proc : ofile[q] # 0}}

\* Whatever the calls do at the same time, an inode is freed and given away
\* again only when it has neither a name nor an open file.
ImplementsLife == Life!Spec
=============================================================================
