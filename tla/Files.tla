------------------------------- MODULE Files -------------------------------
(***************************************************************************)
(* Open files (tree 4, kernel/file.c and the calls of sysfile.c on         *)
(* descriptors): open, dup, close, fork, read, write and seek by several   *)
(* processes on one regular file, which they can open more than once, and  *)
(* on the random device of RandomDev.                                      *)
(*                                                                         *)
(* Descriptors of one process for the same struct file are alike, so a     *)
(* descriptor table only counts them.  The file is its length: readi() and *)
(* writei() are one step under the sleep lock of the inode.                *)
(***************************************************************************)
EXTENDS RandomDev, FiniteSets

CONSTANTS
  NoProc,
  NFILE,          \* entries of ftable
  NOFILE,         \* descriptors of a process
  MAXSIZE,        \* MAXFILE * BSIZE
  Chunk,          \* bytes of one transaction of filewrite()
  Counts,         \* byte counts of read() and write()
  Offsets         \* offsets of seek()

File == 1..NFILE
FD_NONE == 0
FD_INODE == 2
FD_DEVICE == 3

ASSUME FilesAssumption ==
  /\ IsFiniteSet(Proc) /\ NoProc \notin Proc
  /\ NFILE \in Nat /\ NOFILE \in Nat /\ MAXSIZE \in Nat /\ Chunk \in Nat \ {0}
  /\ Counts \subseteq Nat \ {0}
  /\ Offsets \subseteq Int

VARIABLES
  file,             \* ftable: struct file
  ofile,            \* ofile[p][g]: how many descriptors of p mean file[g]
  size,             \* ip->size
  lock,             \* who holds ip->lock
  pc,               \* per process: where it is,
  cur,              \* the struct file of its call, or 0,
  todo,             \* the bytes it still has to transfer,
  moved,            \* the bytes just transferred,
  reg,              \* and an offset or a size in a register
  end,              \* history: the last seek's target plus what has been
                    \* transferred through the file since
  raced             \* history: 1 if the last seek ran into a transfer

callVars == <<pc, cur, todo, moved, reg>>
fileVars == <<file, ofile, size, lock, callVars, end, raced>>
vars == <<fileVars, randomVars>>

FreeFile == [ref |-> 0, type |-> FD_NONE, off |-> 0]

Init ==
  /\ file = [g \in File |-> FreeFile]
  /\ ofile = [p \in Proc |-> [g \in File |-> 0]]
  /\ size = 0
  /\ lock = NoProc
  /\ pc = [p \in Proc |-> "idle"]
  /\ cur = [p \in Proc |-> 0]
  /\ todo = [p \in Proc |-> 0]
  /\ moved = [p \in Proc |-> 0]
  /\ reg = [p \in Proc |-> 0]
  /\ end = [g \in File |-> 0]
  /\ raced = [g \in File |-> 0]
  /\ RandomInit

Idle(p) == pc[p] = "idle" /\ rpc[p] = "idle"
Goto(p, l) == pc' = [pc EXCEPT ![p] = l]

-----------------------------------------------------------------------------
(* Descriptors.                                                            *)

\* The sum of the counts f[d], each NOFILE at most: the pairs of d and one that it
\* counts.
Total(D, f) == Cardinality({x \in D \X (1..NOFILE) : x[2] <= f[x[1]]})

HasRoom(p) == Total(File, ofile[p]) < NOFILE

\* sys_open() of the file or the device, without O_TRUNC.
Open(p, type) ==
  /\ Idle(p)
  /\ HasRoom(p)
  /\ \E g \in File :
       /\ file[g].ref = 0
       /\ \A h \in File : h < g => file[h].ref # 0
       /\ file' = [file EXCEPT ![g] = [ref |-> 1, type |-> type, off |-> 0]]
       /\ ofile' = [ofile EXCEPT ![p][g] = 1]
  /\ UNCHANGED <<size, lock, callVars, end, raced, randomVars>>

\* A bug: no filedup().
DupSilent(p, g) ==
  /\ Idle(p)
  /\ ofile[p][g] > 0
  /\ HasRoom(p)
  /\ ofile' = [ofile EXCEPT ![p][g] = @ + 1]
  /\ UNCHANGED <<file, size, lock, callVars, end, raced, randomVars>>

\* sys_dup().
Dup(p, g) ==
  /\ Idle(p)
  /\ ofile[p][g] > 0
  /\ HasRoom(p)
  /\ ofile' = [ofile EXCEPT ![p][g] = @ + 1]
  /\ file' = [file EXCEPT ![g].ref = @ + 1]
  /\ UNCHANGED <<size, lock, callVars, end, raced, randomVars>>

\* sys_close(); what a free entry holds is not read again.
Close(p, g) ==
  /\ Idle(p)
  /\ ofile[p][g] > 0
  /\ ofile' = [ofile EXCEPT ![p][g] = @ - 1]
  /\ IF file[g].ref = 1
     THEN /\ file' = [file EXCEPT ![g] = FreeFile]
          /\ end' = [end EXCEPT ![g] = 0]
          /\ raced' = [raced EXCEPT ![g] = 0]
     ELSE file' = [file EXCEPT ![g].ref = @ - 1] /\ UNCHANGED <<end, raced>>
  /\ UNCHANGED <<size, lock, callVars, randomVars>>

\* fork(): the child, who had no descriptor before, gets those of the parent.
Fork(p, np) ==
  /\ Idle(p) /\ Idle(np)
  /\ \A g \in File : ofile[np][g] = 0
  /\ ofile' = [ofile EXCEPT ![np] = ofile[p]]
  /\ file' = [g \in File |-> [file[g] EXCEPT !.ref = @ + ofile[p][g]]]
  /\ UNCHANGED <<size, lock, callVars, end, raced, randomVars>>

-----------------------------------------------------------------------------
(* fileread() and filewrite() of a regular file.                           *)

Call(p, g, l, k) ==
  /\ Idle(p)
  /\ ofile[p][g] > 0
  /\ file[g].type = FD_INODE
  /\ Goto(p, l)
  /\ cur' = [cur EXCEPT ![p] = g]
  /\ todo' = [todo EXCEPT ![p] = k]
  /\ UNCHANGED <<file, ofile, size, lock, moved, reg, end, raced, randomVars>>

Return(p) ==
  /\ Goto(p, "idle")
  /\ cur' = [cur EXCEPT ![p] = 0]
  /\ todo' = [todo EXCEPT ![p] = 0]
  /\ moved' = [moved EXCEPT ![p] = 0]
  /\ reg' = [reg EXCEPT ![p] = 0]

\* A bug: the inode is unlocked before the offset has moved.
TransferUnlocked(p, k, rest) ==
  /\ lock = NoProc
  /\ IF k = 0 THEN Return(p) /\ UNCHANGED <<lock, end>>
     ELSE /\ UNCHANGED <<lock, cur, reg>>
          /\ moved' = [moved EXCEPT ![p] = k]
          /\ todo' = [todo EXCEPT ![p] = rest]
          /\ end' = [end EXCEPT ![cur[p]] = @ + k]
          /\ Goto(p, "load")

\* Under ip->lock, k bytes are transferred and rest are left for later; a call
\* that transfers nothing unlocks and returns.
Transfer(p, k, rest) ==
  /\ lock = NoProc
  /\ IF k = 0 THEN Return(p) /\ UNCHANGED <<lock, end>>
     ELSE /\ lock' = p
          /\ moved' = [moved EXCEPT ![p] = k]
          /\ todo' = [todo EXCEPT ![p] = rest]
          /\ end' = [end EXCEPT ![cur[p]] = @ + k]
          /\ Goto(p, "load")
          /\ UNCHANGED <<cur, reg>>

Min2(a, b) == IF a < b THEN a ELSE b

\* fileread() up to readi().
Read(p) ==
  LET off == file[cur[p]].off IN
  /\ pc[p] = "read"
  /\ Transfer(p, IF off > size THEN 0 ELSE Min2(todo[p], size - off), 0)
  /\ UNCHANGED <<file, ofile, size, raced, randomVars>>

\* filewrite() up to writei() of at most Chunk bytes; a full disk makes them
\* fewer, and then the rest is not written.
Write(p) ==
  LET off == file[cur[p]].off
      n1 == Min2(todo[p], Chunk) IN
  /\ pc[p] = "write"
  /\ \E k \in IF off > size \/ off + n1 > MAXSIZE THEN {0} ELSE 0..n1 :
       /\ Transfer(p, k, IF k = n1 THEN todo[p] - n1 ELSE 0)
       /\ size' = IF k > 0 /\ off + k > size THEN off + k ELSE size
  /\ UNCHANGED <<file, ofile, raced, randomVars>>

\* f->off += r: the load,
LoadOff(p) ==
  /\ pc[p] = "load"
  /\ reg' = [reg EXCEPT ![p] = file[cur[p]].off]
  /\ Goto(p, "store")
  /\ UNCHANGED <<file, ofile, size, lock, cur, todo, moved, end, raced, randomVars>>

\* and the store; then iunlock().
StoreOff(p) ==
  /\ pc[p] = "store"
  /\ file' = [file EXCEPT ![cur[p]].off = reg[p] + moved[p]]
  /\ lock' = NoProc
  /\ IF todo[p] = 0 THEN Return(p)
     ELSE /\ Goto(p, "write")
          /\ moved' = [moved EXCEPT ![p] = 0]
          /\ reg' = [reg EXCEPT ![p] = 0]
          /\ UNCHANGED <<cur, todo>>
  /\ UNCHANGED <<ofile, size, end, raced, randomVars>>

-----------------------------------------------------------------------------
(* fileseek(): ip->lock is held for stati() only.                          *)

Clamp(o, s) == IF o < 0 THEN 0 ELSE IF o > s THEN s ELSE o

SeekSet(p, g, offset) ==
  /\ Idle(p)
  /\ ofile[p][g] > 0
  /\ file[g].type = FD_INODE
  /\ lock = NoProc
  /\ cur' = [cur EXCEPT ![p] = g]
  /\ reg' = [reg EXCEPT ![p] = Clamp(offset, size)]
  /\ Goto(p, "seek")
  /\ UNCHANGED <<file, ofile, size, lock, todo, moved, end, raced, randomVars>>

\* todo keeps the offset until f->off is loaded.
SeekCur(p, g, offset) ==
  /\ Idle(p)
  /\ ofile[p][g] > 0
  /\ file[g].type = FD_INODE
  /\ lock = NoProc
  /\ cur' = [cur EXCEPT ![p] = g]
  /\ reg' = [reg EXCEPT ![p] = size]
  /\ todo' = [todo EXCEPT ![p] = offset]
  /\ Goto(p, "add")
  /\ UNCHANGED <<file, ofile, size, lock, moved, end, raced, randomVars>>

SeekAdd(p) ==
  /\ pc[p] = "add"
  /\ reg' = [reg EXCEPT ![p] = Clamp(file[cur[p]].off + todo[p], @)]
  /\ todo' = [todo EXCEPT ![p] = 0]
  /\ Goto(p, "seek")
  /\ UNCHANGED <<file, ofile, size, lock, cur, moved, end, raced, randomVars>>

Moving(g) == \E q \in Proc : cur[q] = g /\ pc[q] \in {"load", "store"}

SeekStore(p) ==
  /\ pc[p] = "seek"
  /\ file' = [file EXCEPT ![cur[p]].off = reg[p]]
  /\ end' = [end EXCEPT ![cur[p]] = reg[p]]
  /\ raced' = [raced EXCEPT ![cur[p]] = IF Moving(cur[p]) THEN 1 ELSE 0]
  /\ Return(p)
  /\ UNCHANGED <<ofile, size, lock, randomVars>>

-----------------------------------------------------------------------------
(* fileread() and filewrite() of the device.                               *)

Device(p, g) ==
  /\ Idle(p)
  /\ ofile[p][g] > 0
  /\ file[g].type = FD_DEVICE
  /\ RandomCall(p)
  /\ UNCHANGED fileVars

DeviceStep(p) == RandomStep(p) /\ UNCHANGED fileVars

Descriptors(p) ==
  \/ \E type \in {FD_INODE, FD_DEVICE} : Open(p, type)
  \/ \E g \in File : Dup(p, g) \/ Close(p, g)
  \/ \E np \in Proc \ {p} : Fork(p, np)
Calls(p, g) ==
  \/ \E k \in Counts : Call(p, g, "read", k) \/ Call(p, g, "write", k)
  \/ \E o \in Offsets : SeekSet(p, g, o) \/ SeekCur(p, g, o)
  \/ Device(p, g)
Step(p) ==
  \/ Read(p) \/ Write(p) \/ LoadOff(p) \/ StoreOff(p)
  \/ SeekAdd(p) \/ SeekStore(p) \/ DeviceStep(p)

Next == \E p \in Proc : Descriptors(p) \/ Step(p) \/ \E g \in File : Calls(p, g)

Spec == Init /\ [][Next]_vars

-----------------------------------------------------------------------------
(* Properties.                                                             *)

PC == {"idle", "read", "write", "load", "store", "add", "seek"}
FileType == [ref : Nat, type : {FD_NONE, FD_INODE, FD_DEVICE}, off : Nat]

\* Every variable keeps its type; no offset and no count gets negative.
TypeOK ==
  /\ file \in [File -> FileType]
  /\ ofile \in [Proc -> [File -> 0..NOFILE]]
  /\ size \in 0..MAXSIZE
  /\ lock \in Proc \union {NoProc}
  /\ pc \in [Proc -> PC]
  /\ cur \in [Proc -> 0..NFILE]
  /\ todo \in [Proc -> Int]
  /\ moved \in [Proc -> Nat]
  /\ reg \in [Proc -> Nat]
  /\ end \in [File -> Nat]
  /\ raced \in [File -> {0, 1}]

\* The descriptors that processes have for g.
Holders(g) == [p \in Proc |-> ofile[p][g]]

\* The reference count of a struct file is the number of its descriptors, those
\* that dup() and fork() made included, and exactly the files without one are
\* free for filealloc().
RefsExact ==
  \A g \in File : /\ file[g].ref = Total(Proc, Holders(g))
                  /\ file[g].ref = 0 <=> file[g].type = FD_NONE

\* Reads and writes of several processes through one struct file follow each
\* other without a gap and without an overlap: when none is under way, the
\* offset is where the last seek went plus all that has been transferred
\* since.  Only a seek that stored its offset between a transfer and its
\* f->off += r can break this, because fileseek() does not hold the lock.
Consecutive ==
  \A g \in File : raced[g] = 0 /\ ~Moving(g) => file[g].off = end[g]

\* The offset never lies behind the end of the file - where a read would find
\* nothing and a write would fail - again unless the last seek ran into a
\* transfer.
OffsetInside ==
  \A g \in File : raced[g] = 0 => file[g].off <= size

\* The two together: what several processes do to one offset.
OffsetExact == Consecutive /\ OffsetInside
=============================================================================
