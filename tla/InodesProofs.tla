---------------------------- MODULE InodesProofs ----------------------------
(***************************************************************************)
(* Theorems about Inodes, for any number of processes, names, inodes and   *)
(* table entries: the reference counts and link counts are exact, nothing  *)
(* leaks but what is said to, no panic is reached but that of iget() with  *)
(* the table full, and an inode lives as FileLife says.                    *)
(***************************************************************************)
EXTENDS Inodes, FiniteSetTheorems, TLAPS

-----------------------------------------------------------------------------
(* The inductive invariant.                                                *)

\* Where a call has an entry of the table, holds its sleep lock, holds the
\* lock of the directory, and has the entry loaded.
WithIp == {"ilock", "locked", "init", "dirlink", "erase", "uncount", "count", "link_dir",
           "undo", "put", "free", "freed", "unref"}
WithLock == {"locked", "dirlink", "uncount", "free", "freed"}
WithDir == {"ialloc", "iget", "init", "dirlink", "erase"}
WithName == {"open", "create", "unlink", "link"} \union WithDir
WithValid == {"locked", "dirlink", "uncount", "link_dir", "undo", "put", "free", "freed"}

ControlInv ==
  \A p \in Proc :
    /\ ip[p] # 0 <=> pc[p] \in WithIp
    /\ pc[p] = "ialloc" => inum[p] # 0
    /\ pc[p] = "iget" => inum[p] \in Inum
    /\ pc[p] \in WithName => name[p] \in Name
    /\ pc[p] \in {"link", "count", "link_dir"} => new[p] \in Name

\* What the holder of the directory's lock has found there.
DirInv ==
  \A p \in Proc :
    /\ pc[p] \in WithDir => dlock = p
    /\ pc[p] \in {"ialloc", "iget", "init", "dirlink"} => dir[name[p]] = 0
    /\ pc[p] = "erase" => dir[name[p]] = inode[ip[p]].inum

\* The directory is locked by one who uses it, or by create() on its way out.
DirHeld ==
  dlock # NoProc => pc[dlock] \in WithDir \union {"put", "free", "freed", "unref"}

LockInv ==
  /\ \A s \in Slot : lock[s] # NoProc => ip[lock[s]] = s /\ pc[lock[s]] \in WithLock
  /\ \A p \in Proc : pc[p] \in WithLock => lock[ip[p]] = p

\* An entry in use is about an inode of the disk.
InumInv == \A s \in Slot : inode[s].ref > 0 => inode[s].inum \in Inum

\* A free inode has no links.
Unlinked(d) == \A i \in Inum : d[i].type = 0 => d[i].nlink = 0

\* An entry in use and valid is what the disk has, an allocated inode, except
\* while somebody frees it.
CacheInv ==
  \A s \in Slot : inode[s].ref > 0 /\ inode[s].valid = 1 =>
    \/ /\ din[inode[s].inum] = [type |-> inode[s].type, nlink |-> inode[s].nlink]
       /\ inode[s].type # 0
    \/ \E p \in Proc : pc[p] = "freed" /\ ip[p] = s

\* Whoever uses an entry uses an allocated inode, except the one who freed it.
UseInv ==
  /\ \A p \in Proc :
       /\ pc[p] \in WithIp \ {"freed", "unref"} => din[inode[ip[p]].inum].type # 0
       /\ pc[p] \in WithValid => inode[ip[p]].valid = 1
  /\ \A p \in Proc : ofile[p] # 0 =>
       din[inode[ofile[p]].inum].type # 0 /\ inode[ofile[p]].valid = 1

\* Who frees an inode is alone with it, until ialloc() gives it to another.
FreeInv ==
  \A p \in Proc :
    /\ pc[p] = "free" => MustFree(ip[p])
    /\ pc[p] = "freed" =>
         /\ inode[ip[p]].type = 0 /\ inode[ip[p]].nlink = 0
         /\ \A n \in Name : dir[n] # inode[ip[p]].inum
         /\ \A q \in Proc : /\ ofile[q] # ip[p]
                            /\ ip[q] = ip[p] /\ q # p => pc[q] = "init"

\* Nobody knows an inode i that p has just allocated, except those who freed it.
Fresh(p, i) ==
  /\ \A n \in Name : dir[n] # i
  /\ \A q \in Proc :
       /\ ofile[q] # 0 => inode[ofile[q]].inum # i
       /\ q # p /\ ip[q] # 0 /\ inode[ip[q]].inum = i => pc[q] \in {"freed", "unref"}
FreshInv ==
  \A p \in Proc :
    /\ pc[p] = "iget" => din[inum[p]].type # 0 /\ Fresh(p, inum[p])
    /\ pc[p] \in {"init", "dirlink"} => Fresh(p, inode[ip[p]].inum)

\* Why an allocated inode will not be forgotten.
Kept(i) ==
  \/ i \in lost
  \/ \E n \in Name : dir[n] = i
  \/ \E p \in Proc :
       \/ pc[p] = "iget" /\ inum[p] = i
       \/ ofile[p] # 0 /\ inode[ofile[p]].inum = i
       \/ /\ ip[p] # 0 /\ inode[ip[p]].inum = i
          /\ pc[p] # "freed" /\ (pc[p] = "unref" => inode[ip[p]].valid = 1)
KeptInv == \A i \in Inum : din[i].type # 0 => Kept(i)

\* iget() has stopped the machine with the table full.
FullInv == panicked => \A s \in Slot : inode[s].ref > 0

IInv ==
  /\ TypeOK /\ ControlInv /\ DirInv /\ DirHeld /\ LockInv /\ RefsExact /\ InumInv
  /\ LinksExact /\ Unlinked(din) /\ Unlinked(committed.din)
  /\ CacheInv /\ UseInv /\ FreeInv /\ FreshInv /\ KeptInv /\ FullInv

\* A step of the machine that goes on.
Act(p) == Call(p) \/ Close(p) \/ Step(p)
Work == (Crash \/ \E p \in Proc : Act(p)) /\ panicked' = FALSE

\* The names that calls are made for are names.
LEMMA CallNames == \A p \in Proc : \A l \in Syscall : Calls[p][l] \subseteq Name
BY InodesAssumption

-----------------------------------------------------------------------------
(* Finite sets and least elements.                                         *)

\* A set of numbers that is not empty has a least element.
LEMMA LeastNat ==
  ASSUME NEW T \in SUBSET Nat, T # {}
  PROVE  \E n \in T : \A m \in T : n <= m
<1> DEFINE Down(n) == 0..n - 1
           B == {Down(n) : n \in T}
           R == StrictSubsetOrdering(Nat)
<1>1. B \subseteq FiniteSubsetsOf(Nat) /\ B # {}
  <2>1. ASSUME NEW n \in T PROVE Down(n) \in SUBSET Nat /\ IsFiniteSet(Down(n))
    <3>1. n \in Nat /\ 0 \in Int /\ n - 1 \in Int
      OBVIOUS
    <3> QED
      BY <3>1, FS_Interval
  <2> QED
    BY <2>1 DEF FiniteSubsetsOf
<1>2. \E x \in B : \A y \in B : ~(<<y, x>> \in R)
  <2>1. IsWellFoundedOn(R, FiniteSubsetsOf(Nat))
    BY FS_StrictSubsetOrderingWellFounded
  <2> HIDE DEF B, R
  <2> QED
    BY <1>1, <2>1, WFMin
<1>3. PICK n \in T : \A y \in B : ~(<<y, Down(n)>> \in R)
  BY <1>2
<1>4. ASSUME NEW m \in T PROVE n <= m
  <2>1. Down(m) \in B /\ Down(m) \in SUBSET Nat /\ Down(n) \in SUBSET Nat
    OBVIOUS
  <2>2. ~(Down(m) \subseteq Down(n) /\ Down(m) # Down(n))
    BY <1>3, <2>1 DEF StrictSubsetOrdering
  <2>3. m < n => m \in Down(n) /\ m \notin Down(m)
    OBVIOUS
  <2>4. m < n => Down(m) \subseteq Down(n)
    OBVIOUS
  <2> QED
    BY <2>2, <2>3, <2>4
<1> QED
  BY <1>4

LEMMA FirstIn ==
  ASSUME NEW S \in SUBSET Slot, S # {}
  PROVE  First(S) \in S
<1>1. \E s \in S : \A t \in S : s <= t
  BY LeastNat, InodesAssumption DEF Slot
<1> QED
  BY <1>1 DEF First

\* How many elements of D the function f maps to s, and how that changes when
\* f changes at p.
At(D, f, s) == Cardinality({q \in D : f[q] = s})

LEMMA AtNat ==
  ASSUME NEW D, IsFiniteSet(D), NEW f, NEW s
  PROVE  /\ At(D, f, s) \in Nat
         /\ At(D, f, s) = 0 <=> \A q \in D : f[q] # s
<1> DEFINE F == {q \in D : f[q] = s}
<1>1. IsFiniteSet(F)
  BY FS_Subset
<1>2. Cardinality(F) \in Nat /\ (Cardinality(F) = 0 <=> F = {})
  BY <1>1, FS_CardinalityType, FS_EmptySet
<1> QED
  BY <1>2 DEF At

LEMMA AtSame ==
  ASSUME NEW D, NEW f, NEW g, NEW p \in D, NEW s,
         \A q \in D \ {p} : g[q] = f[q], f[p] = s <=> g[p] = s
  PROVE  At(D, g, s) = At(D, f, s)
<1>1. {q \in D : g[q] = s} = {q \in D : f[q] = s}
  OBVIOUS
<1> QED
  BY <1>1 DEF At

LEMMA AtMore ==
  ASSUME NEW D, IsFiniteSet(D), NEW f, NEW g, NEW p \in D, NEW s,
         \A q \in D \ {p} : g[q] = f[q], f[p] # s, g[p] = s
  PROVE  At(D, g, s) = At(D, f, s) + 1
<1> DEFINE F == {q \in D : f[q] = s}
           G == {q \in D : g[q] = s}
<1>1. IsFiniteSet(F)
  BY FS_Subset
<1>2. G = F \union {p} /\ p \notin F
  OBVIOUS
<1> HIDE DEF F, G
<1>3. Cardinality(G) = Cardinality(F) + 1
  BY <1>1, <1>2, FS_AddElement
<1> QED
  BY <1>3 DEF F, G, At

LEMMA AtLess ==
  ASSUME NEW D, IsFiniteSet(D), NEW f, NEW g, NEW p \in D, NEW s,
         \A q \in D \ {p} : g[q] = f[q], f[p] = s, g[p] # s
  PROVE  At(D, g, s) = At(D, f, s) - 1
<1>1. At(D, f, s) = At(D, g, s) + 1
  BY AtMore
<1> QED
  BY <1>1, AtNat

\* The same for processes and for names.
LEMMA ProcSame ==
  ASSUME NEW f, NEW g, NEW p \in Proc, NEW s,
         \A q \in Proc \ {p} : g[q] = f[q], f[p] = s <=> g[p] = s
  PROVE  At(Proc, g, s) = At(Proc, f, s)
BY AtSame

LEMMA ProcMore ==
  ASSUME NEW f, NEW g, NEW p \in Proc, NEW s,
         \A q \in Proc \ {p} : g[q] = f[q], f[p] # s, g[p] = s
  PROVE  At(Proc, g, s) = At(Proc, f, s) + 1
<1>1. IsFiniteSet(Proc)
  BY InodesAssumption
<1> QED
  BY <1>1, AtMore

LEMMA ProcLess ==
  ASSUME NEW f, NEW g, NEW p \in Proc, NEW s,
         \A q \in Proc \ {p} : g[q] = f[q], f[p] = s, g[p] # s
  PROVE  At(Proc, g, s) = At(Proc, f, s) - 1
<1>1. IsFiniteSet(Proc)
  BY InodesAssumption
<1> QED
  BY <1>1, AtLess

LEMMA NameSame ==
  ASSUME NEW f, NEW g, NEW n \in Name, NEW s,
         \A q \in Name \ {n} : g[q] = f[q], f[n] = s <=> g[n] = s
  PROVE  At(Name, g, s) = At(Name, f, s)
BY AtSame

LEMMA NameMore ==
  ASSUME NEW f, NEW g, NEW n \in Name, NEW s,
         \A q \in Name \ {n} : g[q] = f[q], f[n] # s, g[n] = s
  PROVE  At(Name, g, s) = At(Name, f, s) + 1
<1>1. IsFiniteSet(Name)
  BY InodesAssumption
<1> QED
  BY <1>1, AtMore

LEMMA NameLess ==
  ASSUME NEW f, NEW g, NEW n \in Name, NEW s,
         \A q \in Name \ {n} : g[q] = f[q], f[n] = s, g[n] # s
  PROVE  At(Name, g, s) = At(Name, f, s) - 1
<1>1. IsFiniteSet(Name)
  BY InodesAssumption
<1> QED
  BY <1>1, AtLess

\* What the exact reference counts say of the users of an entry.
LEMMA UsersFacts ==
  ASSUME TypeOK, RefsExact, NEW s \in Slot
  PROVE  /\ \A p \in Proc : ip[p] = s \/ ofile[p] = s => inode[s].ref >= 1
         /\ inode[s].ref <= 1 =>
              /\ \A p, q \in Proc : ~(ip[p] = s /\ ofile[q] = s)
              /\ \A p, q \in Proc : ip[p] = s /\ ip[q] = s => p = q
<1> DEFINE I == {p \in Proc : ip[p] = s}
           O == {p \in Proc : ofile[p] = s}
<1>1. IsFiniteSet(I) /\ IsFiniteSet(O)
  BY InodesAssumption, FS_Subset
<1>2. Cardinality(I) \in Nat /\ Cardinality(O) \in Nat
  BY <1>1, FS_CardinalityType
<1>3. inode[s].ref = Cardinality(I) + Cardinality(O)
  BY DEF RefsExact, Users
<1>4. (Cardinality(I) = 0 <=> I = {}) /\ (Cardinality(O) = 0 <=> O = {})
  BY <1>1, FS_EmptySet
<1>5. Cardinality(I) = 1 => \A p, q \in I : p = q
  BY <1>1, FS_Singleton
<1>6. I # {} \/ O # {} => inode[s].ref >= 1
  BY <1>2, <1>3, <1>4
<1>7. inode[s].ref <= 1 => I = {} \/ (O = {} /\ Cardinality(I) = 1)
  BY <1>2, <1>3, <1>4
<1> QED
  BY <1>5, <1>6, <1>7

\* What the exact link counts say of the names of an inode.
LEMMA LinkFacts ==
  ASSUME IInv, NEW i \in Inum
  PROVE  /\ din[i].nlink \in Nat
         /\ \A n \in Name : dir[n] = i => din[i].nlink >= 1 /\ din[i].type # 0
         /\ \A p \in Proc : ip[p] # 0 /\ inode[ip[p]].inum = i
                            /\ pc[p] \in {"dirlink", "link_dir", "undo", "uncount"}
              => din[i].nlink >= 1
<1> DEFINE N == {n \in Name : dir[n] = i}
           U == {p \in Proc : ip[p] # 0 /\ inode[ip[p]].inum = i
                              /\ pc[p] \in {"dirlink", "link_dir", "undo", "uncount"}}
<1>1. IsFiniteSet(N) /\ IsFiniteSet(U)
  BY InodesAssumption, FS_Subset
<1>2. Cardinality(N) \in Nat /\ Cardinality(U) \in Nat
  BY <1>1, FS_CardinalityType
<1>3. din[i].nlink = Cardinality(N) + Cardinality(U)
  BY DEF IInv, LinksExact, Unsettled
<1>4. (Cardinality(N) = 0 <=> N = {}) /\ (Cardinality(U) = 0 <=> U = {})
  BY <1>1, FS_EmptySet
<1>5. N # {} \/ U # {} => din[i].nlink >= 1
  BY <1>2, <1>3, <1>4
<1>6. din[i].nlink >= 1 => din[i].type # 0
  BY DEF IInv, Unlinked
<1>7. din[i].nlink \in Nat
  BY <1>2, <1>3
<1>8. \A n \in Name : dir[n] = i => din[i].nlink >= 1
  BY <1>5
<1>9. \A p \in Proc : ip[p] # 0 /\ inode[ip[p]].inum = i
                      /\ pc[p] \in {"dirlink", "link_dir", "undo", "uncount"}
        => din[i].nlink >= 1
  BY <1>5
<1> QED
  BY <1>6, <1>7, <1>8, <1>9

\* What iget() does: the entry s is the one of i, or an unused one if there is none.
IgetAt(p, i, s) ==
  /\ ip' = [ip EXCEPT ![p] = s]
  /\ \A t \in Slot \ {s} : inode'[t] = inode[t]
  /\ inode'[s] = [inum |-> i, ref |-> inode[s].ref + 1,
                  valid |-> IF inode[s].ref > 0 THEN inode[s].valid ELSE 0,
                  type |-> inode[s].type, nlink |-> inode[s].nlink]
  /\ inode' \in [Slot -> [inum : 0..NINODES, ref : Nat, valid : {0, 1},
                          type : {0, T_FILE}, nlink : Nat]]
  /\ inode[s].ref > 0 => inode[s].inum = i
  /\ inode[s].ref = 0 => \A t \in Slot : inode[t].ref > 0 => inode[t].inum # i

LEMMA IgetFacts ==
  ASSUME TypeOK, RefsExact, InumInv, NEW p \in Proc, NEW i \in Inum, Iget(p, i)
  PROVE  \E s \in Slot : IgetAt(p, i, s)
<1> DEFINE s == First(IF Cached(i) # {} THEN Cached(i) ELSE Unused)
<1>0. Cached(i) \in SUBSET Slot /\ Unused \in SUBSET Slot
  BY DEF Cached, Unused
<1>1. IF Cached(i) # {} THEN s \in Cached(i) ELSE s \in Unused
  BY <1>0, FirstIn DEF Iget, HasRoom
<1>2. s \in Slot /\ i \in 0..NINODES
  BY <1>0, <1>1 DEF Inum
<1>3. Cached(i) # {} <=> inode[s].ref > 0
  BY <1>1 DEF Cached, Unused
<1>4. /\ inode' = [inode EXCEPT ![s].inum = i, ![s].ref = @ + 1,
                                ![s].valid = IF Cached(i) # {} THEN @ ELSE 0]
      /\ ip' = [ip EXCEPT ![p] = s]
  BY DEF Iget
<1>5. inode[s].ref > 0 => inode[s].inum = i
  BY <1>1, <1>3 DEF Cached
<1>6. inode[s].ref = 0 => \A t \in Slot : inode[t].ref > 0 => inode[t].inum # i
  BY <1>1, <1>2, <1>3 DEF Cached, TypeOK
<1> HIDE DEF s
<1>7. inode'[s] = [inum |-> i, ref |-> inode[s].ref + 1,
                   valid |-> IF inode[s].ref > 0 THEN inode[s].valid ELSE 0,
                   type |-> inode[s].type, nlink |-> inode[s].nlink]
  BY <1>2, <1>3, <1>4 DEF TypeOK
<1>8. inode' \in [Slot -> [inum : 0..NINODES, ref : Nat, valid : {0, 1},
                           type : {0, T_FILE}, nlink : Nat]]
  BY <1>2, <1>4, <1>7 DEF TypeOK
<1>9. \A t \in Slot \ {s} : inode'[t] = inode[t]
  BY <1>2, <1>4 DEF TypeOK
<1> QED
  BY <1>2, <1>4, <1>5, <1>6, <1>7, <1>8, <1>9 DEF IgetAt

\* An entry that p uses, and its contents as ilock() finds or makes them.
Entry(s) ==
  [inum |-> inode[s].inum, ref |-> inode[s].ref, valid |-> 1,
   type |-> din[inode[s].inum].type, nlink |-> din[inode[s].inum].nlink]

LEMMA Here ==
  ASSUME IInv, NEW p \in Proc, pc[p] \in WithIp
  PROVE  ip[p] \in Slot /\ inode[ip[p]].ref >= 1 /\ inode[ip[p]].inum \in Inum
<1>1. ip[p] \in Slot
  BY DEF IInv, ControlInv, TypeOK, Slot
<1>2. inode[ip[p]].ref >= 1 /\ inode[ip[p]].ref \in Nat
  BY <1>1, UsersFacts DEF IInv, TypeOK
<1> QED
  BY <1>1, <1>2 DEF IInv, InumInv

LEMMA Open ==
  ASSUME IInv, NEW p \in Proc, ofile[p] # 0
  PROVE  ofile[p] \in Slot /\ inode[ofile[p]].ref >= 1 /\ inode[ofile[p]].inum \in Inum
<1>1. ofile[p] \in Slot
  BY DEF IInv, TypeOK, Slot
<1>2. inode[ofile[p]].ref >= 1 /\ inode[ofile[p]].ref \in Nat
  BY <1>1, UsersFacts DEF IInv, TypeOK
<1> QED
  BY <1>1, <1>2 DEF IInv, InumInv

LEMMA LoadedFacts ==
  ASSUME IInv, NEW p \in Proc, pc[p] \in WithIp \ {"freed", "unref"},
         pc[p] = "init" => lock[ip[p]] = NoProc
  PROVE  /\ Loaded(ip[p]) = Entry(ip[p])
         /\ inode[ip[p]].valid = 1 => inode[ip[p]] = Entry(ip[p])
         /\ Entry(ip[p]).type = T_FILE
         /\ \A q \in Proc : pc[q] = "freed" => ip[q] # ip[p]
<1> DEFINE s == ip[p]
<1>1. s \in Slot /\ inode[s].ref >= 1 /\ inode[s].inum \in Inum
  BY Here
<1>2. \A q \in Proc : pc[q] = "freed" => ip[q] # s
  <2> SUFFICES ASSUME NEW q \in Proc, pc[q] = "freed", ip[q] = s PROVE FALSE
    OBVIOUS
  <2>1. pc[p] = "init"
    BY DEF IInv, FreeInv
  <2>2. lock[s] = q
    BY DEF IInv, LockInv, WithLock
  <2> QED
    BY <2>1, <2>2, InodesAssumption
<1>3. /\ inode[s] \in [inum : 0..NINODES, ref : Nat, valid : {0, 1}, type : {0, T_FILE}, nlink : Nat]
      /\ din[inode[s].inum] \in [type : {0, T_FILE}, nlink : Nat]
  BY <1>1 DEF IInv, TypeOK
<1>4. din[inode[s].inum].type = T_FILE
  BY <1>3 DEF IInv, UseInv
<1>5. inode[s].valid = 1 =>
        /\ din[inode[s].inum].type = inode[s].type
        /\ din[inode[s].inum].nlink = inode[s].nlink
  <2>1. CacheInv /\ inode[s].ref > 0
    BY <1>1, <1>3 DEF IInv
  <2>2. inode[s].valid = 1 =>
          din[inode[s].inum] = [type |-> inode[s].type, nlink |-> inode[s].nlink]
    BY <1>1, <1>2, <2>1 DEF CacheInv
  <2> QED
    BY <2>2
<1> HIDE DEF s
<1>6. inode[s].valid = 1 => inode[s] = Entry(s)
  BY <1>3, <1>5 DEF Entry
<1>7. Loaded(s) = Entry(s)
  BY <1>3, <1>6 DEF Entry, Loaded
<1> QED
  BY <1>2, <1>4, <1>6, <1>7 DEF s, Entry

-----------------------------------------------------------------------------
(* The invariant is kept, conjunct by conjunct.                            *)

LEMMA ControlStep == ASSUME IInv, Work PROVE ControlInv'
<1>f. /\ pc \in [Proc -> PC] /\ ip \in [Proc -> 0..NINODE] /\ inum \in [Proc -> 0..NINODES + 1]
      /\ name \in [Proc -> Name \union {NoName}] /\ new \in [Proc -> Name \union {NoName}]
      /\ ofile \in [Proc -> 0..NINODE]
      /\ TypeOK /\ RefsExact /\ InumInv /\ ControlInv
      /\ NINODE \in Nat /\ NINODES \in Nat
  BY InodesAssumption DEF IInv, TypeOK
<1>g. ASSUME NEW p \in Proc, NEW i \in Inum, Iget(p, i)
      PROVE  ip' = [ip EXCEPT ![p] = ip'[p]] /\ ip'[p] # 0
  <2>1. PICK s \in Slot : IgetAt(p, i, s)
    BY <1>f, <1>g, IgetFacts
  <2> QED
    BY <1>f, <2>1 DEF IgetAt, Slot
<1>h. \A n \in Name : dir[n] # 0 => dir[n] \in Inum
  BY <1>f DEF TypeOK, Inum
<1> USE <1>f DEF ControlInv, Goto, procVars, WithIp, WithName, WithDir
<1>1. ASSUME NEW p \in Proc, Call(p)
      PROVE  ControlInv'
  <2>1. PICK l \in Syscall : pc' = [pc EXCEPT ![p] = l]
    BY <1>1 DEF Call
  <2>2. PICK n \in Name : name' = [name EXCEPT ![p] = n]
    BY <1>1, CallNames DEF Call
  <2>3. PICK m \in Name : new' = [new EXCEPT ![p] = IF pc'[p] = "link" THEN m ELSE NoName]
    BY <1>1 DEF Call
  <2>4. l \in {"open", "create", "unlink", "link"}
    BY DEF Syscall
  <2> QED
    BY <1>1, <2>1, <2>2, <2>3, <2>4 DEF Call
<1>2. ASSUME NEW p \in Proc, Close(p) \/ Opened(p) \/ OpenFails(p) \/ OpenLock(p)
      PROVE  ControlInv'
  BY <1>2 DEF Close, Opened, OpenFails, OpenLock
<1>3. ASSUME NEW p \in Proc, Namei(p)
      PROVE  ControlInv'
  BY <1>3, <1>g, <1>h DEF Namei
<1>4. ASSUME NEW p \in Proc, Create(p)
      PROVE  ControlInv'
  BY <1>4, <1>g, <1>h DEF Create
<1>5. ASSUME NEW p \in Proc, UnlinkLookup(p)
      PROVE  ControlInv'
  BY <1>5, <1>g, <1>h DEF UnlinkLookup
<1>6. ASSUME NEW p \in Proc, IallocGet(p)
      PROVE  ControlInv'
  BY <1>6, <1>g DEF IallocGet
<1>7. ASSUME NEW p \in Proc, Ialloc(p) \/ NoInodes(p)
      PROVE  ControlInv'
  BY <1>7 DEF Ialloc, NoInodes, Inum
<1>8. ASSUME NEW p \in Proc, CreateInit(p) \/ CreateLink(p) \/ CreateFails(p)
      PROVE  ControlInv'
  BY <1>8 DEF CreateInit, CreateLink, CreateFails
<1>9. ASSUME NEW p \in Proc, UnlinkErase(p) \/ UnlinkCount(p)
      PROVE  ControlInv'
  BY <1>9 DEF UnlinkErase, UnlinkCount
<1>10. ASSUME NEW p \in Proc, LinkStep(p)
      PROVE  ControlInv'
  BY <1>10 DEF LinkStep, LinkCount, LinkDir, LinkFails, LinkUndo
<1>11. ASSUME NEW p \in Proc, PutStep(p)
      PROVE  ControlInv'
  BY <1>11 DEF PutStep, Put, PutLast, Free, Freed, PutFreed, Unref
<1>12. ASSUME NEW p \in Proc, EndOp(p)
      PROVE  ControlInv'
  BY <1>12 DEF EndOp
<1>13. ASSUME Crash
      PROVE  ControlInv'
  BY <1>13 DEF Crash
<1> QED
  BY <1>1, <1>2, <1>3, <1>4, <1>5, <1>6, <1>7, <1>8, <1>9, <1>10, <1>11, <1>12, <1>13
  DEF Work, Act, Step, OpenStep, CreateStep, UnlinkStep

\* The types of IInv, for the provers.
LEMMA Types ==
  ASSUME IInv
  PROVE  /\ dir \in [Name -> 0..NINODES]
         /\ din \in [Inum -> [type : {0, T_FILE}, nlink : Nat]]
         /\ inode \in [Slot -> [inum : 0..NINODES, ref : Nat, valid : {0, 1},
                                type : {0, T_FILE}, nlink : Nat]]
         /\ lock \in [Slot -> Proc \union {NoProc}]
         /\ pc \in [Proc -> PC]
         /\ ip \in [Proc -> 0..NINODE]
         /\ ofile \in [Proc -> 0..NINODE]
         /\ inum \in [Proc -> 0..NINODES + 1]
         /\ name \in [Proc -> Name \union {NoName}]
         /\ new \in [Proc -> Name \union {NoName}]
         /\ \A p \in Proc : ip[p] # 0 <=> pc[p] \in WithIp
         /\ \A p \in Proc : ip[p] # 0 => ip[p] \in Slot
         /\ \A p \in Proc : ofile[p] # 0 => ofile[p] \in Slot
         /\ NoProc \notin Proc /\ NINODE \in Nat /\ NINODES \in Nat
<1>1. TypeOK /\ ControlInv /\ NoProc \notin Proc /\ NINODE \in Nat /\ NINODES \in Nat
  BY InodesAssumption DEF IInv
<1>2. \A p \in Proc : ip[p] # 0 <=> pc[p] \in WithIp
  BY <1>1 DEF ControlInv
<1>3. \A p \in Proc : (ip[p] # 0 => ip[p] \in Slot) /\ (ofile[p] # 0 => ofile[p] \in Slot)
  BY <1>1 DEF TypeOK, Slot
<1> QED
  BY <1>1, <1>2, <1>3 DEF TypeOK

LEMMA LockStep == ASSUME IInv, Work PROVE LockInv'
<1>f. /\ pc \in [Proc -> PC] /\ ip \in [Proc -> 0..NINODE] /\ lock \in [Slot -> Proc \union {NoProc}]
      /\ \A p \in Proc : ip[p] # 0 <=> pc[p] \in WithIp
      /\ \A p \in Proc : ip[p] # 0 => ip[p] \in Slot
      /\ LockInv /\ NoProc \notin Proc
  BY Types DEF IInv
<1>g. ASSUME NEW p \in Proc, NEW i
      PROVE  Iget(p, i) => \A q \in Proc \ {p} : ip'[q] = ip[q]
  BY <1>f DEF Iget
<1> USE <1>f DEF LockInv, Goto, Acquire, Release, procVars, tableVars, WithIp, WithLock
<1>1. ASSUME NEW p \in Proc, Call(p)
      PROVE  LockInv'
  <2>1. PICK l \in Syscall : pc' = [pc EXCEPT ![p] = l]
    BY <1>1 DEF Call
  <2>2. l \in {"open", "create", "unlink", "link"}
    BY DEF Syscall
  <2> QED
    BY <1>1, <2>1, <2>2 DEF Call
<1>2. ASSUME NEW p \in Proc, Close(p) \/ Opened(p) \/ OpenFails(p) \/ OpenLock(p)
      PROVE  LockInv'
  BY <1>2 DEF Close, Opened, OpenFails, OpenLock
<1>3. ASSUME NEW p \in Proc, Namei(p) \/ Create(p) \/ UnlinkLookup(p) \/ IallocGet(p)
      PROVE  LockInv'
  BY <1>3, <1>g DEF Namei, Create, UnlinkLookup, IallocGet
<1>7. ASSUME NEW p \in Proc, Ialloc(p) \/ NoInodes(p)
      PROVE  LockInv'
  BY <1>7 DEF Ialloc, NoInodes
<1>8. ASSUME NEW p \in Proc, CreateInit(p) \/ CreateLink(p) \/ CreateFails(p)
      PROVE  LockInv'
  BY <1>8 DEF CreateInit, CreateLink, CreateFails
<1>9. ASSUME NEW p \in Proc, UnlinkErase(p) \/ UnlinkCount(p)
      PROVE  LockInv'
  BY <1>9 DEF UnlinkErase, UnlinkCount
<1>10. ASSUME NEW p \in Proc, LinkStep(p)
      PROVE  LockInv'
  BY <1>10 DEF LinkStep, LinkCount, LinkDir, LinkFails, LinkUndo
<1>11. ASSUME NEW p \in Proc, PutStep(p)
      PROVE  LockInv'
  BY <1>11 DEF PutStep, Put, PutLast, Free, Freed, PutFreed, Unref
<1>12. ASSUME NEW p \in Proc, EndOp(p)
      PROVE  LockInv'
  BY <1>12 DEF EndOp
<1>13. ASSUME Crash
      PROVE  LockInv'
  BY <1>13 DEF Crash
<1> QED
  BY <1>1, <1>2, <1>3, <1>7, <1>8, <1>9, <1>10, <1>11, <1>12, <1>13
  DEF Work, Act, Step, OpenStep, CreateStep, UnlinkStep

-----------------------------------------------------------------------------
(* What a step does to the table of inodes and to who uses its entries.    *)

\* The inode of p is now in memory and on the disk, with k links and type t.
Wrote(p, k, t) ==
  LET s == ip[p] IN
  /\ inode' = [inode EXCEPT ![s] = [inum |-> inode[s].inum, ref |-> inode[s].ref, valid |-> 1,
                                    type |-> t, nlink |-> k]]
  /\ din' = [din EXCEPT ![inode[s].inum] = [type |-> t, nlink |-> k]]

Links(p) == din[inode[ip[p]].inum].nlink

\* What ilock() and iupdate() come to: an inode is found to have the links that
\* the disk says, and these are changed, never below 0.
LEMMA WriteSteps ==
  ASSUME IInv, NEW p \in Proc
  PROVE  /\ OpenLock(p) \/ UnlinkErase(p) => Wrote(p, Links(p), T_FILE) /\ din' = din
         /\ CreateInit(p) => Wrote(p, 1, T_FILE)
         /\ CreateFails(p) => Wrote(p, 0, T_FILE)
         /\ LinkCount(p) => Wrote(p, Links(p) + 1, T_FILE)
         /\ UnlinkCount(p) \/ LinkUndo(p) =>
              Links(p) - 1 \in Nat /\ Wrote(p, Links(p) - 1, T_FILE)
         /\ Free(p) => Wrote(p, 0, 0)
<1> DEFINE s == ip[p]
           i == inode[s].inum
<1>1. ASSUME pc[p] \in {"ilock", "init", "erase", "count", "undo"}, lock[s] = NoProc
      PROVE  /\ s \in Slot /\ i \in Inum
             /\ Loaded(s) = [inum |-> i, ref |-> inode[s].ref, valid |-> 1,
                             type |-> T_FILE, nlink |-> Links(p)]
             /\ din[i] = [type |-> T_FILE, nlink |-> Links(p)]
  <2>1. pc[p] \in WithIp \ {"freed", "unref"}
    BY <1>1 DEF WithIp
  <2>2. s \in Slot /\ i \in Inum
    BY <2>1, Here
  <2>3. Loaded(s) = Entry(s) /\ Entry(s).type = T_FILE
    BY <1>1, <2>1, LoadedFacts
  <2>4. din[i] \in [type : {0, T_FILE}, nlink : Nat]
    BY <2>2, Types
  <2> QED
    BY <2>2, <2>3, <2>4 DEF Entry, Links
<1>2. ASSUME pc[p] \in {"locked", "dirlink", "uncount", "put", "free"}
      PROVE  /\ s \in Slot /\ i \in Inum
             /\ inode[s] = [inum |-> i, ref |-> inode[s].ref, valid |-> 1,
                            type |-> T_FILE, nlink |-> Links(p)]
  <2>1. pc[p] \in WithIp \ {"freed", "unref"}
    BY <1>2 DEF WithIp
  <2>2. s \in Slot /\ i \in Inum
    BY <2>1, Here
  <2>3. inode[s].valid = 1
    BY <1>2 DEF IInv, UseInv, WithValid
  <2>4. inode[s] = Entry(s) /\ Entry(s).type = T_FILE
    BY <1>2, <2>1, <2>3, LoadedFacts
  <2> QED
    BY <2>2, <2>4 DEF Entry, Links
<1>3. Links(p) \in Nat \/ i \notin Inum
  BY Types DEF Links
<1>4. pc[p] \in {"undo", "uncount"} => Links(p) >= 1
  <2>1. pc[p] \in {"undo", "uncount"} => i \in Inum /\ ip[p] # 0
    BY Here, Types DEF WithIp
  <2> QED
    BY <2>1, LinkFacts DEF Links
<1> DEFINE R(k, t) == [inum |-> i, ref |-> inode[s].ref, valid |-> 1, type |-> t, nlink |-> k]
<1>u. ASSUME NEW k, NEW t, Update(s, R(k, t)) PROVE Wrote(p, k, t)
  BY <1>u DEF Update, Wrote
<1>r. ASSUME NEW k, NEW t, NEW l
      PROVE  /\ [R(k, t) EXCEPT !.nlink = l] = R(l, t)
             /\ [R(k, t) EXCEPT !.type = l] = R(k, l)
             /\ AddLinks(R(k, t), l) = R(k + l, t)
  BY DEF AddLinks
<1>v. /\ pc[p] \in {"ilock", "init", "erase", "count", "undo"} /\ lock[s] = NoProc
           => Loaded(s) = R(Links(p), T_FILE)
      /\ pc[p] \in {"locked", "dirlink", "uncount", "put", "free"}
           => inode[s] = R(Links(p), T_FILE)
  BY <1>1, <1>2
<1> HIDE DEF s, i, R
<1>5. OpenLock(p) \/ UnlinkErase(p) => Wrote(p, Links(p), T_FILE) /\ din' = din
  <2> SUFFICES ASSUME OpenLock(p) \/ UnlinkErase(p)
               PROVE  Wrote(p, Links(p), T_FILE) /\ din' = din
    OBVIOUS
  <2>1. inode' = [inode EXCEPT ![s] = Loaded(s)] /\ din' = din
    BY DEF OpenLock, UnlinkErase, diskVars, s
  <2>2. pc[p] \in {"ilock", "erase"} /\ lock[s] = NoProc
    BY DEF OpenLock, UnlinkErase, Acquire, s
  <2>3. /\ i \in Inum /\ din[i] = [type |-> T_FILE, nlink |-> Links(p)]
        /\ Loaded(s) = R(Links(p), T_FILE)
    BY <1>1, <2>2 DEF R
  <2>4. [din EXCEPT ![i] = [type |-> T_FILE, nlink |-> Links(p)]] = din
    BY <2>3, Types
  <2> QED
    BY <2>1, <2>3, <2>4 DEF Wrote, s, i, R
<1>6. CreateInit(p) => Wrote(p, 1, T_FILE)
  <2> SUFFICES ASSUME CreateInit(p) PROVE Wrote(p, 1, T_FILE)
    OBVIOUS
  <2>1. Update(s, [Loaded(s) EXCEPT !.nlink = 1]) /\ pc[p] = "init" /\ lock[s] = NoProc
    BY DEF CreateInit, Acquire, s
  <2>2. Loaded(s) = R(Links(p), T_FILE)
    BY <1>v, <2>1
  <2>3. [Loaded(s) EXCEPT !.nlink = 1] = R(1, T_FILE)
    BY <2>2 DEF R
  <2> QED
    BY <1>u, <2>1, <2>3
<1>7. LinkCount(p) => Wrote(p, Links(p) + 1, T_FILE)
  <2> SUFFICES ASSUME LinkCount(p) PROVE Wrote(p, Links(p) + 1, T_FILE)
    OBVIOUS
  <2>1. Update(s, AddLinks(Loaded(s), 1)) /\ pc[p] = "count" /\ lock[s] = NoProc
    BY DEF LinkCount, s
  <2> QED
    BY <1>u, <1>r, <1>v, <2>1
<1>8. LinkUndo(p) => Links(p) - 1 \in Nat /\ Wrote(p, Links(p) - 1, T_FILE)
  <2> SUFFICES ASSUME LinkUndo(p) PROVE Links(p) - 1 \in Nat /\ Wrote(p, Links(p) - 1, T_FILE)
    OBVIOUS
  <2>1. Update(s, AddLinks(Loaded(s), -1)) /\ pc[p] = "undo" /\ lock[s] = NoProc
    BY DEF LinkUndo, s
  <2>2. Links(p) \in Nat /\ Links(p) >= 1
    BY <1>1, <1>3, <1>4, <2>1
  <2>3. Loaded(s) = R(Links(p), T_FILE)
    BY <1>v, <2>1
  <2>4. AddLinks(Loaded(s), -1) = R(Links(p) - 1, T_FILE)
    BY <1>r, <2>2, <2>3, SMTT(30) DEF R, AddLinks
  <2> QED
    BY <1>u, <2>1, <2>2, <2>4
<1>9. UnlinkCount(p) => Links(p) - 1 \in Nat /\ Wrote(p, Links(p) - 1, T_FILE)
  <2> SUFFICES ASSUME UnlinkCount(p)
               PROVE  Links(p) - 1 \in Nat /\ Wrote(p, Links(p) - 1, T_FILE)
    OBVIOUS
  <2>1. Update(s, AddLinks(inode[s], -1)) /\ pc[p] = "uncount"
    BY DEF UnlinkCount, s
  <2>2. Links(p) \in Nat /\ Links(p) >= 1
    BY <1>2, <1>3, <1>4, <2>1
  <2>3. inode[s] = R(Links(p), T_FILE)
    BY <1>v, <2>1
  <2>4. AddLinks(inode[s], -1) = R(Links(p) - 1, T_FILE)
    BY <1>r, <2>2, <2>3 DEF R, AddLinks
  <2> QED
    BY <1>u, <2>1, <2>2, <2>4
<1>10. CreateFails(p) => Wrote(p, 0, T_FILE)
  <2> SUFFICES ASSUME CreateFails(p) PROVE Wrote(p, 0, T_FILE)
    OBVIOUS
  <2>1. Update(s, [inode[s] EXCEPT !.nlink = 0]) /\ pc[p] = "dirlink"
    BY DEF CreateFails, s
  <2> QED
    BY <1>u, <1>r, <1>v, <2>1
<1>11. Free(p) => Wrote(p, 0, 0)
  <2> SUFFICES ASSUME Free(p) PROVE Wrote(p, 0, 0)
    OBVIOUS
  <2>1. Update(s, [inode[s] EXCEPT !.type = 0]) /\ pc[p] = "free"
    BY DEF Free, s
  <2>2. inode[s].nlink = 0
    BY <2>1 DEF IInv, FreeInv, MustFree, s
  <2>3. inode[s] = R(Links(p), T_FILE)
    BY <1>v, <2>1
  <2>4. [inode[s] EXCEPT !.type = 0] = R(0, 0)
    BY <1>r, <2>2, <2>3 DEF R
  <2> QED
    BY <1>u, <2>1, <2>4
<1> QED
  BY <1>5, <1>6, <1>7, <1>8, <1>9, <1>10, <1>11

\* Inode numbers and reference counts stay, and so do the users.
SameUsers ==
  /\ ip' = ip /\ ofile' = ofile
  /\ \A s \in Slot : inode'[s].ref = inode[s].ref /\ inode'[s].inum = inode[s].inum

\* p gets the entry s of inode i, which has a name or was just allocated by p.
Get(p, i, s) ==
  /\ IgetAt(p, i, s)
  /\ pc[p] \notin WithIp /\ ofile' = ofile
  /\ \/ \E n \in Name : dir[n] = i
     \/ pc[p] = "iget" /\ inum[p] = i /\ pc'[p] = "init"

\* The entry becomes that of an open file, or the other way round.
ToFile(p) ==
  /\ inode' = inode
  /\ ofile[p] = 0 /\ ip[p] # 0
  /\ ip' = [ip EXCEPT ![p] = 0] /\ ofile' = [ofile EXCEPT ![p] = ip[p]]
FromFile(p) ==
  /\ inode' = inode
  /\ ip[p] = 0 /\ ofile[p] # 0
  /\ ip' = [ip EXCEPT ![p] = ofile[p]] /\ ofile' = [ofile EXCEPT ![p] = 0]

\* p gives its entry up.
Leave(p) ==
  /\ pc[p] \in {"put", "unref"}
  /\ LET r == inode[ip[p]] IN
     inode' = [inode EXCEPT ![ip[p]] =
       IF r.ref = 1 THEN EmptyInode ELSE [r EXCEPT !.ref = r.ref - 1]]
  /\ ip' = [ip EXCEPT ![p] = 0]
  /\ ofile' = ofile

\* Steps that load or change an inode in use.
Writes(p) ==
  \/ OpenLock(p) \/ UnlinkErase(p) \/ CreateInit(p) \/ CreateFails(p)
  \/ LinkCount(p) \/ LinkUndo(p) \/ UnlinkCount(p)

LEMMA TableSteps ==
  ASSUME IInv, NEW p \in Proc, Act(p)
  PROVE  \/ SameUsers /\ (Writes(p) \/ Free(p) \/ Freed(p) \/ inode' = inode)
         \/ \E i \in Inum, s \in Slot : Get(p, i, s)
         \/ ToFile(p) \/ FromFile(p) \/ Leave(p)
<1> USE Types DEF procVars, tableVars, WithIp
<1>1. ASSUME Call(p) \/ OpenFails(p) \/ Ialloc(p) \/ NoInodes(p)
      PROVE  SameUsers /\ inode' = inode
  BY <1>1 DEF Call, OpenFails, Ialloc, NoInodes, SameUsers
<1>2. ASSUME Close(p)
      PROVE  FromFile(p)
  BY <1>2 DEF Close, FromFile
<1>3. ASSUME Opened(p)
      PROVE  ToFile(p)
  BY <1>3 DEF Opened, CanAlloc, ToFile
<1>4. ASSUME NEW i \in Inum, Iget(p, i), ofile' = ofile,
             pc[p] \in {"open", "link", "create", "unlink", "iget"},
             \/ \E n \in Name : dir[n] = i
             \/ pc[p] = "iget" /\ inum[p] = i /\ pc'[p] = "init"
      PROVE  \E s \in Slot : Get(p, i, s)
  <2>1. PICK s \in Slot : IgetAt(p, i, s)
    BY <1>4, IgetFacts DEF IInv
  <2>2. Get(p, i, s)
    BY <1>4, <2>1 DEF Get
  <2> QED
    BY <2>2
<1>5. \A n \in Name : dir[n] # 0 => dir[n] \in Inum
  BY DEF Inum
<1>6. ASSUME Namei(p) \/ Create(p) \/ UnlinkLookup(p) \/ IallocGet(p)
      PROVE  (SameUsers /\ inode' = inode) \/ \E i \in Inum, s \in Slot : Get(p, i, s)
  <2>1. /\ pc[p] \in {"open", "link", "create", "unlink"} => name[p] \in Name
        /\ pc[p] = "iget" => inum[p] \in Inum
    BY DEF IInv, ControlInv, WithName
  <2>2. CASE UNCHANGED <<inode, ip, ofile>>
    BY <2>2 DEF SameUsers
  <2>3. CASE ~UNCHANGED <<inode, ip, ofile>>
    <3>1. /\ pc[p] \in {"open", "link", "create", "unlink", "iget"}
          /\ ofile' = ofile
          /\ \E i \in Inum : /\ Iget(p, i)
                            /\ \/ \E n \in Name : dir[n] = i
                               \/ pc[p] = "iget" /\ inum[p] = i /\ pc'[p] = "init"
      BY <1>5, <1>6, <2>1, <2>3 DEF Goto, Namei, Create, UnlinkLookup, IallocGet
    <3> QED
      BY <1>4, <3>1
  <2> QED
    BY <2>2, <2>3
<1>7. ASSUME \/ OpenLock(p) \/ UnlinkErase(p) \/ CreateInit(p) \/ CreateFails(p)
             \/ LinkCount(p) \/ LinkUndo(p) \/ UnlinkCount(p) \/ Free(p)
      PROVE  SameUsers
  <2>1. ip[p] \in Slot
    BY <1>7 DEF OpenLock, UnlinkErase, CreateInit, CreateFails, LinkCount, LinkUndo,
                UnlinkCount, Free
  <2>2. ip' = ip /\ ofile' = ofile
    BY <1>7 DEF OpenLock, UnlinkErase, CreateInit, CreateFails, LinkCount, LinkUndo,
                UnlinkCount, Free
  <2>3. \E k, t : Wrote(p, k, t)
    BY <1>7, WriteSteps
  <2> QED
    BY <2>1, <2>2, <2>3 DEF SameUsers, Wrote
<1>8. ASSUME CreateLink(p) \/ LinkDir(p) \/ LinkFails(p) \/ PutLast(p) \/ Freed(p) \/ EndOp(p)
      PROVE  SameUsers /\ (Freed(p) \/ inode' = inode)
  BY <1>8 DEF CreateLink, LinkDir, LinkFails, PutLast, Freed, EndOp, SameUsers
<1>9. ASSUME Put(p) \/ PutFreed(p)
      PROVE  Leave(p)
  BY <1>9 DEF Put, PutFreed, Unref, Leave
<1> QED
  BY <1>1, <1>2, <1>3, <1>6, <1>7, <1>8, <1>9
  DEF Act, Step, Writes, OpenStep, CreateStep, UnlinkStep, LinkStep, PutStep

LEMMA RefsStep == ASSUME IInv, Work PROVE RefsExact'
<1>f. /\ inode \in [Slot -> [inum : 0..NINODES, ref : Nat, valid : {0, 1},
                             type : {0, T_FILE}, nlink : Nat]]
      /\ ip \in [Proc -> 0..NINODE] /\ ofile \in [Proc -> 0..NINODE]
      /\ \A p \in Proc : ip[p] # 0 <=> pc[p] \in WithIp
      /\ \A p \in Proc : ip[p] # 0 => ip[p] \in Slot
      /\ \A p \in Proc : ofile[p] # 0 => ofile[p] \in Slot
      /\ RefsExact
  BY Types DEF IInv
<1>u. \A s \in Slot : Users(s) = At(Proc, ip, s) + At(Proc, ofile, s)
  BY DEF Users, At
<1>v. \A s \in Slot : Users(s)' = At(Proc, ip', s) + At(Proc, ofile', s)
  BY DEF Users, At
<1>n. 0 \notin Slot
  BY DEF Slot
<1>a. \A s \in Slot : At(Proc, ip, s) \in Nat /\ At(Proc, ofile, s) \in Nat
  BY AtNat, InodesAssumption
<1>1. CASE SameUsers
  <2>1. \A s \in Slot : Users(s)' = Users(s)
    BY <1>1, <1>u, <1>v DEF SameUsers
  <2> QED
    BY <1>1, <1>f, <2>1 DEF SameUsers, RefsExact
<1>2. ASSUME NEW p \in Proc, NEW i \in Inum, NEW s \in Slot, Get(p, i, s)
      PROVE  RefsExact'
  <2>1. ip[p] = 0 /\ ip'[p] = s /\ (\A q \in Proc \ {p} : ip'[q] = ip[q]) /\ ofile' = ofile
    BY <1>2, <1>f DEF Get, IgetAt
  <2>2. \A t \in Slot \ {s} : inode'[t] = inode[t]
    BY <1>2 DEF Get, IgetAt
  <2>3. /\ inode'[s].inum = i /\ inode'[s].ref = inode[s].ref + 1
        /\ inode[s].ref > 0 => inode[s].inum = i
        /\ inode[s].ref = 0 => \A t \in Slot : inode[t].ref > 0 => inode[t].inum # i
    BY <1>2 DEF Get, IgetAt
  <2>4. At(Proc, ip', s) = At(Proc, ip, s) + 1
    BY <1>n, <2>1, ProcMore
  <2>5. ASSUME NEW t \in Slot \ {s} PROVE At(Proc, ip', t) = At(Proc, ip, t)
    BY <1>n, <2>1, ProcSame
  <2>6. \A t \in Slot : inode'[t].ref = Users(t)'
    BY <1>a, <1>f, <1>u, <1>v, <2>1, <2>2, <2>3, <2>4, <2>5 DEF RefsExact
  <2>7. \A t \in Slot : inode[t].ref \in Nat
    BY <1>f
  <2>8. \A t, u \in Slot : inode'[t].ref > 0 /\ inode'[u].ref > 0 /\ inode'[t].inum = inode'[u].inum
          => t = u
    BY <1>f, <2>2, <2>3, <2>7 DEF RefsExact
  <2> QED
    BY <2>6, <2>8 DEF RefsExact
<1>3. ASSUME NEW p \in Proc, ToFile(p) \/ FromFile(p)
      PROVE  RefsExact'
  <2>0. \A q \in Proc \ {p} : ip'[q] = ip[q]
    BY <1>3, <1>f DEF ToFile, FromFile
  <2>1. \A q \in Proc \ {p} : ofile'[q] = ofile[q]
    BY <1>3, <1>f DEF ToFile, FromFile
  <2>2. ip'[p] = ofile[p] /\ ofile'[p] = ip[p] /\ (ip[p] = 0 \/ ofile[p] = 0) /\ inode' = inode
    BY <1>3, <1>f DEF ToFile, FromFile
  <2>3. ASSUME NEW s \in Slot PROVE Users(s)' = Users(s)
    <3>1. /\ At(Proc, ip, s) \in Nat /\ At(Proc, ofile, s) \in Nat
          /\ Users(s) = At(Proc, ip, s) + At(Proc, ofile, s) /\ Users(s)' = At(Proc, ip', s) + At(Proc, ofile', s)
      BY <1>a, <1>u, <1>v
    <3>2. CASE ip[p] = s
      <4>1. ip'[p] # s /\ ofile[p] # s /\ ofile'[p] = s
        BY <1>n, <2>2, <3>2
      <4>2. At(Proc, ip', s) = At(Proc, ip, s) - 1
        BY <2>0, <3>2, <4>1, ProcLess
      <4>3. At(Proc, ofile', s) = At(Proc, ofile, s) + 1
        BY <2>1, <4>1, ProcMore
      <4> QED
        BY <3>1, <4>2, <4>3
    <3>3. CASE ofile[p] = s
      <4>1. ip[p] # s /\ ip'[p] = s /\ ofile'[p] # s
        BY <1>n, <2>2, <3>3
      <4>2. At(Proc, ip', s) = At(Proc, ip, s) + 1
        BY <2>0, <4>1, ProcMore
      <4>3. At(Proc, ofile', s) = At(Proc, ofile, s) - 1
        BY <2>1, <3>3, <4>1, ProcLess
      <4> QED
        BY <3>1, <4>2, <4>3
    <3>4. CASE ip[p] # s /\ ofile[p] # s
      <4>0. ip'[p] # s /\ ofile'[p] # s
        BY <2>2, <3>4
      <4>1. At(Proc, ip', s) = At(Proc, ip, s)
        BY <2>0, <3>4, <4>0, ProcSame
      <4>2. At(Proc, ofile', s) = At(Proc, ofile, s)
        BY <2>1, <3>4, <4>0, ProcSame
      <4> QED
        BY <3>1, <4>1, <4>2
    <3> QED
      BY <3>2, <3>3, <3>4
  <2> QED
    BY <1>f, <2>2, <2>3 DEF RefsExact
<1>4. ASSUME NEW p \in Proc, Leave(p)
      PROVE  RefsExact'
  <2> DEFINE s == ip[p]
  <2>1. s \in Slot /\ s # 0 /\ ip'[p] = 0 /\ (\A q \in Proc \ {p} : ip'[q] = ip[q]) /\ ofile' = ofile
    BY <1>4, <1>f, <1>n DEF Leave, WithIp
  <2>2. (\A t \in Slot \ {s} : inode'[t] = inode[t]) /\ inode[s].ref \in Nat
    BY <1>4, <1>f, <2>1 DEF Leave
  <2>3. inode[s].ref >= 1
    BY <2>1, UsersFacts DEF IInv
  <2>4. /\ inode'[s].ref = inode[s].ref - 1
        /\ inode[s].ref > 1 => inode'[s].inum = inode[s].inum
    <3>1. inode'[s] = IF inode[s].ref = 1 THEN EmptyInode ELSE [inode[s] EXCEPT !.ref = inode[s].ref - 1]
      BY <1>4, <1>f, <2>1 DEF Leave
    <3>2. inode[s] \in [inum : 0..NINODES, ref : Nat, valid : {0, 1},
                        type : {0, T_FILE}, nlink : Nat]
      BY <1>f, <2>1
    <3> HIDE DEF s
    <3> QED
      BY <2>2, <2>3, <3>1, <3>2 DEF EmptyInode
  <2> HIDE DEF s
  <2>6. At(Proc, ip', s) = At(Proc, ip, s) - 1
    BY <1>n, <2>1, ProcLess DEF s
  <2>7. \A t \in Slot \ {s} : At(Proc, ip', t) = At(Proc, ip, t)
    BY <1>n, <2>1, ProcSame DEF s
  <2>8. \A t \in Slot : inode'[t].ref = Users(t)'
    BY <1>a, <1>f, <1>u, <1>v, <2>1, <2>2, <2>4, <2>6, <2>7 DEF RefsExact
  <2>9. \A t, u \in Slot : inode'[t].ref > 0 /\ inode'[u].ref > 0 /\ inode'[t].inum = inode'[u].inum
          => t = u
    BY <1>f, <2>2, <2>3, <2>4 DEF RefsExact
  <2> QED
    BY <2>8, <2>9 DEF RefsExact
<1>5. CASE Crash
  <2>1. \A s \in Slot : {p \in Proc : ip'[p] = s} = {} /\ {p \in Proc : ofile'[p] = s} = {}
    BY <1>5, <1>n DEF Crash
  <2>2. \A s \in Slot : Users(s)' = 0
    BY <2>1, FS_EmptySet DEF Users
  <2> QED
    BY <1>5, <2>2 DEF Crash, RefsExact, EmptyInode
<1> QED
  BY <1>1, <1>2, <1>3, <1>4, <1>5, TableSteps DEF Work, Act

LEMMA InumStep == ASSUME IInv, Work PROVE InumInv'
<1>f. /\ inode \in [Slot -> [inum : 0..NINODES, ref : Nat, valid : {0, 1},
                             type : {0, T_FILE}, nlink : Nat]]
      /\ \A p \in Proc : pc[p] \in WithIp => ip[p] \in Slot
      /\ InumInv
  BY Types DEF IInv
<1>1. CASE SameUsers
  BY <1>1, <1>f DEF SameUsers, InumInv
<1>2. ASSUME NEW p \in Proc, NEW i \in Inum, NEW s \in Slot, Get(p, i, s)
      PROVE  InumInv'
  BY <1>2, <1>f DEF Get, IgetAt, InumInv
<1>3. ASSUME NEW p \in Proc, ToFile(p) \/ FromFile(p)
      PROVE  InumInv'
  BY <1>3, <1>f DEF ToFile, FromFile, InumInv
<1>4. ASSUME NEW p \in Proc, Leave(p)
      PROVE  InumInv'
  <2>1. ip[p] \in Slot
    BY <1>4, <1>f DEF Leave, WithIp
  <2>2. \A t \in Slot \ {ip[p]} : inode'[t] = inode[t]
    BY <1>4, <1>f, <2>1 DEF Leave
  <2>3. inode'[ip[p]].ref > 0 => inode'[ip[p]].inum = inode[ip[p]].inum /\ inode[ip[p]].ref > 0
    <3> DEFINE s == ip[p]
    <3>1. inode'[s] = IF inode[s].ref = 1 THEN EmptyInode ELSE [inode[s] EXCEPT !.ref = inode[s].ref - 1]
      BY <1>4, <1>f, <2>1 DEF Leave
    <3>2. inode[s] \in [inum : 0..NINODES, ref : Nat, valid : {0, 1},
                        type : {0, T_FILE}, nlink : Nat]
      BY <1>f, <2>1
    <3>3. inode[s].ref >= 1
      BY <1>4, <2>1, UsersFacts DEF IInv
    <3> HIDE DEF s
    <3>4. inode'[s].ref > 0 => inode'[s].inum = inode[s].inum /\ inode[s].ref > 0
      BY <3>1, <3>2, <3>3 DEF EmptyInode
    <3> QED
      BY <3>4 DEF s
  <2> QED
    BY <1>f, <2>1, <2>2, <2>3 DEF InumInv
<1>5. CASE Crash
  BY <1>5 DEF Crash, InumInv, EmptyInode
<1> QED
  BY <1>1, <1>2, <1>3, <1>4, <1>5, TableSteps DEF Work, Act

\* What a step of p leaves to the others.
LEMMA Others ==
  ASSUME IInv, NEW p \in Proc, Act(p), NEW q \in Proc, q # p
  PROVE  /\ pc'[q] = pc[q] /\ name'[q] = name[q] /\ new'[q] = new[q]
         /\ ip'[q] = ip[q] /\ inum'[q] = inum[q] /\ ofile'[q] = ofile[q]
<1>g. ASSUME NEW i PROVE Iget(p, i) => ip'[q] = ip[q]
  BY Types DEF Iget
<1> USE Types DEF Goto, procVars, tableVars
<1>1. CASE Call(p)
  <2>1. PICK l \in Syscall : pc' = [pc EXCEPT ![p] = l]
    BY <1>1 DEF Call
  <2>2. PICK n \in Name : name' = [name EXCEPT ![p] = n]
    BY <1>1, CallNames DEF Call
  <2>3. PICK m \in Name : new' = [new EXCEPT ![p] = IF pc'[p] = "link" THEN m ELSE NoName]
    BY <1>1 DEF Call
  <2> QED
    BY <1>1, <2>1, <2>2, <2>3 DEF Call
<1>2. CASE Close(p)
  BY <1>2 DEF Close
<1>3. CASE OpenStep(p)
  BY <1>3, <1>g DEF OpenStep, Namei, OpenLock, Opened, OpenFails
<1>4. CASE CreateStep(p)
  BY <1>4, <1>g
  DEF CreateStep, Create, Ialloc, NoInodes, IallocGet, CreateInit, CreateLink, CreateFails
<1>5. CASE UnlinkStep(p)
  BY <1>5, <1>g DEF UnlinkStep, UnlinkLookup, UnlinkErase, UnlinkCount
<1>6. CASE LinkStep(p)
  BY <1>6 DEF LinkStep, LinkCount, LinkDir, LinkFails, LinkUndo
<1>7. CASE PutStep(p) \/ EndOp(p)
  BY <1>7 DEF PutStep, Put, PutLast, Free, Freed, PutFreed, Unref, EndOp
<1> QED
  BY <1>1, <1>2, <1>3, <1>4, <1>5, <1>6, <1>7 DEF Act, Step

\* An entry that stays in use is about the same inode.
LEMMA SameInode ==
  ASSUME IInv, NEW a \in Proc, Act(a), NEW q \in Proc
  PROVE  /\ ip[q] # 0 /\ ip'[q] = ip[q] => inode'[ip[q]].inum = inode[ip[q]].inum
         /\ ofile[q] # 0 /\ ofile'[q] = ofile[q] => inode'[ofile[q]].inum = inode[ofile[q]].inum
<1>f. /\ inode \in [Slot -> [inum : 0..NINODES, ref : Nat, valid : {0, 1},
                             type : {0, T_FILE}, nlink : Nat]]
      /\ ip \in [Proc -> 0..NINODE] /\ ofile \in [Proc -> 0..NINODE]
      /\ \A p \in Proc : ip[p] # 0 <=> pc[p] \in WithIp
      /\ \A p \in Proc : ip[p] # 0 => ip[p] \in Slot
      /\ \A p \in Proc : ofile[p] # 0 => ofile[p] \in Slot
  BY Types DEF IInv
<1>g. /\ ip[q] # 0 => inode[ip[q]].ref >= 1 /\ inode[ip[q]].ref \in Nat
      /\ ofile[q] # 0 => inode[ofile[q]].ref >= 1 /\ inode[ofile[q]].ref \in Nat
  BY <1>f, UsersFacts DEF IInv
<1>1. CASE SameUsers
  BY <1>1, <1>f DEF SameUsers
<1>2. ASSUME NEW p \in Proc, NEW i \in Inum, NEW s \in Slot, Get(p, i, s)
      PROVE  \A t \in Slot : inode[t].ref >= 1 => inode'[t].inum = inode[t].inum
  BY <1>2, <1>f DEF Get, IgetAt
<1>3. ASSUME NEW p \in Proc, ToFile(p) \/ FromFile(p)
      PROVE  inode' = inode
  BY <1>3 DEF ToFile, FromFile
<1>4. ASSUME NEW p \in Proc, Leave(p)
      PROVE  /\ ip[q] # 0 /\ ip'[q] = ip[q] => inode'[ip[q]].inum = inode[ip[q]].inum
             /\ ofile[q] # 0 /\ ofile'[q] = ofile[q]
                  => inode'[ofile[q]].inum = inode[ofile[q]].inum
  <2> DEFINE s == ip[p]
  <2>1. s \in Slot /\ s # 0 /\ inode[s].ref \in Nat
    BY <1>4, <1>f DEF Leave, WithIp, Slot
  <2>2. inode[s].ref <= 1 => /\ \A r \in Proc : ofile[r] # s
                             /\ \A r \in Proc \ {p} : ip[r] # s
    BY <2>1, UsersFacts DEF IInv
  <2>3. ip' = [ip EXCEPT ![p] = 0]
    BY <1>4 DEF Leave
  <2>4. /\ \A t \in Slot \ {s} : inode'[t] = inode[t]
        /\ inode[s].ref > 1 => inode'[s].inum = inode[s].inum
    <3>1. inode'[s] = IF inode[s].ref = 1 THEN EmptyInode
                      ELSE [inode[s] EXCEPT !.ref = inode[s].ref - 1]
      BY <1>4, <1>f, <2>1 DEF Leave
    <3>2. inode[s] \in [inum : 0..NINODES, ref : Nat, valid : {0, 1},
                        type : {0, T_FILE}, nlink : Nat]
      BY <1>f, <2>1
    <3>3. \A t \in Slot \ {s} : inode'[t] = inode[t]
      BY <1>4, <1>f, <2>1 DEF Leave
    <3> HIDE DEF s
    <3> QED
      BY <3>1, <3>2, <3>3
  <2>5. ip'[p] = 0
    BY <1>f, <2>3
  <2> HIDE DEF s
  <2>6. ip[q] # 0 /\ ip'[q] = ip[q] => inode'[ip[q]].inum = inode[ip[q]].inum
    <3>1. ip[q] # 0 /\ ip'[q] = ip[q] => q # p
      BY <2>5
    <3> QED
      BY <1>f, <2>1, <2>2, <2>4, <3>1
  <2>7. ofile[q] # 0 => inode'[ofile[q]].inum = inode[ofile[q]].inum
    BY <1>f, <2>1, <2>2, <2>4
  <2> QED
    BY <2>6, <2>7
<1>5. SameUsers \/ (\E p \in Proc, i \in Inum, s \in Slot : Get(p, i, s))
      \/ (\E p \in Proc : ToFile(p) \/ FromFile(p) \/ Leave(p))
  BY TableSteps
<1>6. ASSUME NEW p \in Proc, NEW i \in Inum, NEW s \in Slot, Get(p, i, s)
      PROVE  /\ ip[q] # 0 => inode'[ip[q]].inum = inode[ip[q]].inum
             /\ ofile[q] # 0 => inode'[ofile[q]].inum = inode[ofile[q]].inum
  BY <1>2, <1>6, <1>f, <1>g
<1> QED
  BY <1>1, <1>3, <1>4, <1>5, <1>6

\* The same for another process, and for its entries.
LEMMA OthersInode ==
  ASSUME IInv, NEW p \in Proc, Act(p), NEW q \in Proc, q # p
  PROVE  /\ ip[q] # 0 => inode'[ip'[q]].inum = inode[ip[q]].inum
         /\ ofile[q] # 0 => inode'[ofile'[q]].inum = inode[ofile[q]].inum
BY Others, SameInode

LEMMA DirStep == ASSUME IInv, Work PROVE DirInv'
<1>f. /\ pc \in [Proc -> PC] /\ name \in [Proc -> Name \union {NoName}]
      /\ dir \in [Name -> 0..NINODES]
      /\ DirInv /\ NoProc \notin Proc
  BY Types DEF IInv
<1>g. \A p \in Proc : pc[p] \in WithName => name[p] \in Name
  BY DEF IInv, ControlInv
<1>h. \A n \in Name : dir[n] # 0 => dir[n] \in Inum
  BY Types DEF Inum
<1>i. ASSUME NEW p \in Proc, NEW i \in Inum, Iget(p, i)
      PROVE  inode'[ip'[p]].inum = i
  <2>1. PICK s \in Slot : IgetAt(p, i, s)
    BY <1>i, IgetFacts DEF IInv
  <2> QED
    BY <2>1, Types DEF IgetAt
<1> USE <1>f DEF DirInv, WithDir
<1> DEFINE Rest(p) ==
      \A q \in Proc \ {p} : /\ pc'[q] = pc[q] /\ name'[q] = name[q]
                            /\ pc[q] = "erase" => inode'[ip'[q]].inum = inode[ip[q]].inum
<1>o. ASSUME NEW p \in Proc, Act(p) PROVE Rest(p)
  <2>1. \A q \in Proc : pc[q] = "erase" => ip[q] # 0
    BY Types DEF WithIp
  <2> QED
    BY <1>o, <2>1, Others, OthersInode
<1> USE DEF Goto
<1>1. ASSUME NEW p \in Proc, Call(p), Rest(p)
      PROVE  DirInv'
  <2>1. PICK l \in Syscall : pc' = [pc EXCEPT ![p] = l]
    BY <1>1 DEF Call
  <2>2. l \in {"open", "create", "unlink", "link"}
    BY DEF Syscall
  <2> QED
    BY <1>1, <2>1, <2>2 DEF Call, diskVars
<1>2. ASSUME NEW p \in Proc, Close(p) \/ OpenStep(p) \/ EndOp(p), Rest(p)
      PROVE  DirInv'
  BY <1>2 DEF Close, OpenStep, Namei, OpenLock, Opened, OpenFails, EndOp, diskVars
<1>3. ASSUME NEW p \in Proc, Create(p) \/ NoInodes(p) \/ IallocGet(p), Rest(p)
      PROVE  DirInv'
  BY <1>3, <1>g DEF Create, NoInodes, IallocGet, diskVars, WithName
<1>4. ASSUME NEW p \in Proc, Ialloc(p), Rest(p)
      PROVE  DirInv'
  BY <1>4 DEF Ialloc
<1>5. ASSUME NEW p \in Proc, CreateInit(p), Rest(p)
      PROVE  DirInv'
  BY <1>5 DEF CreateInit
<1>6. ASSUME NEW p \in Proc, CreateLink(p) \/ CreateFails(p), Rest(p)
      PROVE  DirInv'
  BY <1>6 DEF CreateLink, CreateFails
<1>7. ASSUME NEW p \in Proc, UnlinkLookup(p), Rest(p)
      PROVE  DirInv'
  BY <1>7, <1>g, <1>h, <1>i DEF UnlinkLookup, diskVars, WithName
<1>8. ASSUME NEW p \in Proc, UnlinkErase(p) \/ UnlinkCount(p), Rest(p)
      PROVE  DirInv'
  BY <1>8 DEF UnlinkErase, UnlinkCount
<1>9. ASSUME NEW p \in Proc, LinkStep(p), Rest(p)
      PROVE  DirInv'
  BY <1>9 DEF LinkStep, LinkCount, LinkDir, LinkFails, LinkUndo, diskVars
<1>10. ASSUME NEW p \in Proc, PutStep(p), Rest(p)
      PROVE  DirInv'
  BY <1>10 DEF PutStep, Put, PutLast, Free, Freed, PutFreed, Unref, diskVars
<1>11. ASSUME Crash
      PROVE  DirInv'
  BY <1>11 DEF Crash
<1> HIDE DEF Rest, DirInv
<1>12. ASSUME NEW p \in Proc, Act(p) PROVE DirInv'
  BY <1>12, <1>o, <1>1, <1>2, <1>3, <1>4, <1>5, <1>6, <1>7, <1>8, <1>9, <1>10
  DEF Act, Step, CreateStep, UnlinkStep
<1> QED
  BY <1>11, <1>12 DEF Work, Act

LEMMA DirHeldStep == ASSUME IInv, Work PROVE DirHeld'
<1>f. /\ pc \in [Proc -> PC] /\ dlock \in Proc \union {NoProc} /\ DirHeld /\ NoProc \notin Proc
  BY Types DEF IInv, TypeOK
<1>1. ASSUME NEW p \in Proc, Act(p)
      PROVE  DirHeld'
  <2>1. \A q \in Proc \ {p} : pc'[q] = pc[q]
    BY <1>1, Others
  <2>2. dlock = p => pc[p] \in WithDir \union {"put", "free", "freed", "unref"}
    BY <1>f DEF DirHeld
  <2>3. \/ dlock' = NoProc
        \/ dlock' = p /\ pc'[p] \in WithDir \union {"put", "free", "freed", "unref"}
        \/ dlock' = dlock /\ dlock # p
    <3> USE <1>f, <2>2 DEF Goto, procVars, tableVars, WithDir
    <3>1. CASE Call(p) \/ EndOp(p) \/ Close(p)
      BY <3>1 DEF Call, EndOp, Close
    <3>2. CASE OpenStep(p)
      BY <3>2 DEF OpenStep, Namei, OpenLock, OpenFails, Opened
    <3>3. CASE Create(p) \/ Ialloc(p) \/ NoInodes(p) \/ IallocGet(p)
      BY <3>3 DEF Create, Ialloc, NoInodes, IallocGet
    <3>4. CASE CreateInit(p) \/ CreateLink(p) \/ CreateFails(p)
      BY <3>4 DEF CreateInit, CreateLink, CreateFails
    <3>5. CASE UnlinkStep(p)
      BY <3>5 DEF UnlinkStep, UnlinkLookup, UnlinkErase, UnlinkCount
    <3>6. CASE LinkStep(p)
      BY <3>6 DEF LinkStep, LinkCount, LinkDir, LinkFails, LinkUndo
    <3>7. CASE PutStep(p)
      BY <3>7 DEF PutStep, Put, PutLast, Free, Freed, PutFreed, Unref
    <3> QED
      BY <1>1, <3>1, <3>2, <3>3, <3>4, <3>5, <3>6, <3>7 DEF Act, Step, CreateStep
  <2> QED
    BY <1>f, <2>1, <2>3 DEF DirHeld
<1>2. ASSUME Crash
      PROVE  DirHeld'
  BY <1>2 DEF Crash, DirHeld
<1> QED
  BY <1>1, <1>2 DEF Work, Act

LEMMA LinksNat ==
  ASSUME IInv, NEW p \in Proc, pc[p] \in WithIp
  PROVE  Links(p) \in Nat
BY Here, Types DEF Links

LEMMA WroteTypes ==
  ASSUME IInv, NEW p \in Proc, pc[p] \in WithIp,
         NEW k \in Nat, NEW t \in {0, T_FILE}, Wrote(p, k, t)
  PROVE  /\ inode' \in [Slot -> [inum : 0..NINODES, ref : Nat, valid : {0, 1},
                                 type : {0, T_FILE}, nlink : Nat]]
         /\ din' \in [Inum -> [type : {0, T_FILE}, nlink : Nat]]
<1> DEFINE s == ip[p]
           r == [inum |-> inode[s].inum, ref |-> inode[s].ref, valid |-> 1,
                 type |-> t, nlink |-> k]
<1>1. s \in Slot /\ inode[s].inum \in Inum
  BY Here
<1>2. r \in [inum : 0..NINODES, ref : Nat, valid : {0, 1}, type : {0, T_FILE}, nlink : Nat]
  <2>1. inode[s].inum \in 0..NINODES /\ inode[s].ref \in Nat
    BY <1>1, Types
  <2> QED
    BY <2>1
<1>3. inode' = [inode EXCEPT ![s] = r]
      /\ din' = [din EXCEPT ![inode[s].inum] = [type |-> t, nlink |-> k]]
  BY DEF Wrote
<1> HIDE DEF s, r
<1>4. inode' \in [Slot -> [inum : 0..NINODES, ref : Nat, valid : {0, 1},
                           type : {0, T_FILE}, nlink : Nat]]
  BY <1>1, <1>2, <1>3, Types
<1>5. [type |-> t, nlink |-> k] \in [type : {0, T_FILE}, nlink : Nat]
  OBVIOUS
<1>6. din' \in [Inum -> [type : {0, T_FILE}, nlink : Nat]]
  BY <1>1, <1>3, <1>5, Types
<1> QED
  BY <1>4, <1>6

LEMMA TypeStep == ASSUME IInv, Work PROVE TypeOK'
<1> DEFINE Inodes == [inum : 0..NINODES, ref : Nat, valid : {0, 1},
                      type : {0, T_FILE}, nlink : Nat]
           Dinodes == [type : {0, T_FILE}, nlink : Nat]
\* The inodes.
<1>1. ASSUME NEW p \in Proc,
             \/ OpenLock(p) \/ UnlinkErase(p) \/ CreateInit(p) \/ CreateFails(p)
             \/ LinkCount(p) \/ LinkUndo(p) \/ UnlinkCount(p) \/ Free(p)
      PROVE  inode' \in [Slot -> Inodes] /\ din' \in [Inum -> Dinodes]
  <2>1. pc[p] \in WithIp
    BY <1>1 DEF OpenLock, UnlinkErase, CreateInit, CreateFails, LinkCount, LinkUndo,
                UnlinkCount, Free, WithIp
  <2>2. Links(p) \in Nat
    BY <2>1, LinksNat
  <2>3. \E k \in Nat, t \in {0, T_FILE} : Wrote(p, k, t)
    <3>1. Links(p) + 1 \in Nat /\ 1 \in Nat /\ 0 \in Nat
      BY <2>2
    <3> QED
      BY <1>1, <2>2, <3>1, WriteSteps
  <2> QED
    BY <2>1, <2>3, WroteTypes
<1>2. ASSUME NEW p \in Proc, NEW i \in Inum, Iget(p, i)
      PROVE  inode' \in [Slot -> Inodes] /\ ip' \in [Proc -> 0..NINODE]
  <2>1. PICK s \in Slot : IgetAt(p, i, s)
    BY <1>2, IgetFacts DEF IInv
  <2>2. s \in 0..NINODE
    BY DEF Slot
  <2> QED
    BY <2>1, <2>2, Types DEF IgetAt
<1>3. ASSUME NEW p \in Proc, pc[p] \in {"put", "unref"}, Unref(p)
      PROVE  inode' \in [Slot -> Inodes]
  <2> DEFINE s == ip[p]
             r == IF inode[s].ref = 1 THEN EmptyInode
                  ELSE [inode[s] EXCEPT !.ref = inode[s].ref - 1]
  <2>1. s \in Slot /\ inode[s].ref >= 1
    BY <1>3, Here DEF WithIp
  <2>2. inode[s] \in Inodes
    BY <2>1, Types
  <2>3. inode' = [inode EXCEPT ![s] = r]
    BY <1>3 DEF Unref
  <2>4. EmptyInode \in Inodes
    BY InodesAssumption DEF EmptyInode
  <2>5. inode[s].ref - 1 \in Nat
    BY <2>1, <2>2
  <2> HIDE DEF s
  <2>6. r \in Inodes
    BY <2>2, <2>4, <2>5
  <2> HIDE DEF r
  <2> QED
    BY <2>1, <2>3, <2>6, Types
\* The rest, action by action.
<1>f. /\ TypeOK
      /\ NoProc \notin Proc /\ NINODE \in Nat /\ NINODES \in Nat
  BY Types DEF IInv
<1>g. \A p \in Proc : pc[p] \in WithIp => ip[p] \in Slot /\ inode[ip[p]].inum \in Inum
  BY Here
<1>h. \A n \in Name : dir[n] # 0 => dir[n] \in Inum
  BY Types DEF Inum
<1>i. \A p \in Proc : /\ pc[p] \in WithName => name[p] \in Name
                      /\ pc[p] = "iget" => inum[p] \in Inum
  BY DEF IInv, ControlInv
<1> HIDE DEF Inodes, Dinodes
<1>p. panicked' \in BOOLEAN
  BY DEF Work
<1>j. TypeOK' <=> /\ dir' \in [Name -> 0..NINODES]
                  /\ din' \in [Inum -> Dinodes]
                  /\ committed' \in [dir : [Name -> 0..NINODES], din : [Inum -> Dinodes]]
                  /\ inode' \in [Slot -> Inodes]
                  /\ lock' \in [Slot -> Proc \union {NoProc}]
                  /\ dlock' \in Proc \union {NoProc}
                  /\ ofile' \in [Proc -> 0..NINODE]
                  /\ pc' \in [Proc -> PC]
                  /\ name' \in [Proc -> Name \union {NoName}]
                  /\ new' \in [Proc -> Name \union {NoName}]
                  /\ ip' \in [Proc -> 0..NINODE]
                  /\ inum' \in [Proc -> 0..NINODES + 1]
                  /\ lost' \subseteq Inum
  BY <1>p DEF TypeOK, Inodes, Dinodes
<1>k. /\ dir \in [Name -> 0..NINODES]
      /\ din \in [Inum -> Dinodes]
      /\ committed \in [dir : [Name -> 0..NINODES], din : [Inum -> Dinodes]]
      /\ inode \in [Slot -> Inodes]
      /\ lock \in [Slot -> Proc \union {NoProc}]
      /\ dlock \in Proc \union {NoProc}
      /\ ofile \in [Proc -> 0..NINODE]
      /\ pc \in [Proc -> PC]
      /\ name \in [Proc -> Name \union {NoName}]
      /\ new \in [Proc -> Name \union {NoName}]
      /\ ip \in [Proc -> 0..NINODE]
      /\ inum \in [Proc -> 0..NINODES + 1]
      /\ lost \subseteq Inum
  BY <1>f DEF TypeOK, Inodes, Dinodes
<1>c. ASSUME NEW p \in Proc, NEW l \in PC, Goto(p, l)
      PROVE  /\ pc' \in [Proc -> PC]
             /\ name' \in [Proc -> Name \union {NoName}]
             /\ new' \in [Proc -> Name \union {NoName}]
  BY <1>c, <1>k DEF Goto
<1>d. {"idle", "open", "create", "unlink", "link", "ilock", "locked", "ialloc", "iget",
       "init", "dirlink", "erase", "uncount", "count", "link_dir", "undo", "put", "free",
       "freed", "unref", "end"} \subseteq PC
  BY DEF PC
<1>e. ASSUME NEW s, s \in Slot, NEW p \in Proc
      PROVE  /\ Acquire(p, s) => lock' \in [Slot -> Proc \union {NoProc}]
             /\ Release(s) => lock' \in [Slot -> Proc \union {NoProc}]
  BY <1>k DEF Acquire, Release
<1>n. 0 \in 0..NINODE /\ 0 \in 0..NINODES + 1 /\ (\A i \in Inum : i \in 0..NINODES)
      /\ (\A s \in Slot : s \in 0..NINODE)
  BY <1>f DEF Inum, Slot
<1> USE <1>j, <1>k, <1>c, <1>d DEF diskVars, tableVars, procVars
<1>4. ASSUME NEW p \in Proc, Call(p) PROVE TypeOK'
  <2>1. PICK l \in Syscall : pc' = [pc EXCEPT ![p] = l]
    BY <1>4 DEF Call
  <2>2. PICK n \in Name : name' = [name EXCEPT ![p] = n]
    BY <1>4, CallNames DEF Call
  <2>3. PICK m \in Name : new' = [new EXCEPT ![p] = IF pc'[p] = "link" THEN m ELSE NoName]
    BY <1>4 DEF Call
  <2>4. l \in {"open", "create", "unlink", "link"}
    BY DEF Syscall
  <2> QED
    BY <1>4, <2>1, <2>2, <2>3, <2>4 DEF Call
<1>5. ASSUME NEW p \in Proc, Namei(p) PROVE TypeOK'
  BY <1>2, <1>5, <1>h, <1>i DEF Namei, WithName
<1>6. ASSUME NEW p \in Proc, Create(p) PROVE TypeOK'
  <2>1. 1 \in 0..NINODES + 1
    BY <1>f
  <2> QED
    BY <1>2, <1>6, <1>h, <1>i, <2>1 DEF Create, WithName
<1>7. ASSUME NEW p \in Proc, UnlinkLookup(p) PROVE TypeOK'
  BY <1>2, <1>7, <1>h, <1>i DEF UnlinkLookup, WithName
<1>8. ASSUME NEW p \in Proc, IallocGet(p) PROVE TypeOK'
  BY <1>2, <1>8, <1>i, <1>n DEF IallocGet
<1>9. ASSUME NEW p \in Proc, OpenLock(p) PROVE TypeOK'
  <2>1. ip[p] \in Slot
    BY <1>9, <1>g DEF OpenLock, WithIp
  <2> QED
    BY <1>1, <1>9, <1>e, <2>1 DEF OpenLock
<1>10. ASSUME NEW p \in Proc, Opened(p) \/ OpenFails(p) PROVE TypeOK'
  <2>1. ip[p] \in Slot
    BY <1>10, <1>g DEF Opened, OpenFails, WithIp
  <2> QED
    BY <1>10, <1>e, <1>n, <2>1 DEF Opened, OpenFails
<1>11. ASSUME NEW p \in Proc, Close(p) PROVE TypeOK'
  BY <1>11, <1>n DEF Close
<1>12. ASSUME NEW p \in Proc, Ialloc(p) PROVE TypeOK'
  <2>1. inum[p] + 1 \in 0..NINODES + 1
    <3>1. inum[p] \in 1..NINODES
      BY <1>12 DEF Ialloc, Inum
    <3> QED
      BY ONLY <1>f, <3>1
  <2>2. [type |-> T_FILE, nlink |-> 0] \in Dinodes
    BY DEF Dinodes
  <2> QED
    BY <1>12, <2>1, <2>2 DEF Ialloc
<1>13. ASSUME NEW p \in Proc, NoInodes(p) PROVE TypeOK'
  BY <1>13, <1>n DEF NoInodes
<1>14. ASSUME NEW p \in Proc, CreateInit(p) PROVE TypeOK'
  <2>1. ip[p] \in Slot
    BY <1>14, <1>g DEF CreateInit, WithIp
  <2> QED
    BY <1>1, <1>14, <1>e, <2>1 DEF CreateInit
<1>15. ASSUME NEW p \in Proc, CreateLink(p) PROVE TypeOK'
  BY <1>15, <1>g, <1>n DEF CreateLink, WithIp
<1>16. ASSUME NEW p \in Proc, CreateFails(p) PROVE TypeOK'
  <2>1. ip[p] \in Slot
    BY <1>16, <1>g DEF CreateFails, WithIp
  <2> QED
    BY <1>1, <1>16, <1>e, <2>1 DEF CreateFails
<1>17. ASSUME NEW p \in Proc, UnlinkErase(p) PROVE TypeOK'
  <2>1. ip[p] \in Slot /\ 0 \in 0..NINODES
    BY <1>17, <1>f, <1>g DEF UnlinkErase, WithIp
  <2> QED
    BY <1>1, <1>17, <1>e, <2>1 DEF UnlinkErase
<1>18. ASSUME NEW p \in Proc, UnlinkCount(p) PROVE TypeOK'
  <2>1. ip[p] \in Slot
    BY <1>18, <1>g DEF UnlinkCount, WithIp
  <2> QED
    BY <1>1, <1>18, <1>e, <2>1 DEF UnlinkCount
<1>19. ASSUME NEW p \in Proc, LinkCount(p) \/ LinkUndo(p) PROVE TypeOK'
  BY <1>1, <1>19 DEF LinkCount, LinkUndo
<1>20. ASSUME NEW p \in Proc, LinkDir(p) \/ LinkFails(p) PROVE TypeOK'
  BY <1>20, <1>g, <1>n DEF LinkDir, LinkFails, WithIp
<1>21. ASSUME NEW p \in Proc, Put(p) \/ PutFreed(p) PROVE TypeOK'
  <2>1. /\ pc[p] \in {"put", "unref"} /\ Unref(p)
        /\ UNCHANGED <<dir, din, committed, lock, ofile, inum>>
        /\ lost' = lost \/ lost' = lost \union {inode[ip[p]].inum}
    BY <1>21 DEF Put, PutFreed
  <2>2. inode' \in [Slot -> Inodes] /\ inode[ip[p]].inum \in Inum
    BY <1>3, <1>g, <2>1 DEF WithIp
  <2>3. Goto(p, "end") /\ ip' = [ip EXCEPT ![p] = 0] /\ dlock' \in Proc \union {NoProc}
    BY <2>1 DEF Unref
  <2> QED
    BY <1>n, <2>1, <2>2, <2>3
<1>22. ASSUME NEW p \in Proc, PutLast(p) PROVE TypeOK'
  <2>1. ip[p] \in Slot
    BY <1>22, <1>g DEF PutLast, WithIp
  <2> QED
    BY <1>22, <1>e, <2>1 DEF PutLast
<1>23. ASSUME NEW p \in Proc, Free(p) PROVE TypeOK'
  BY <1>1, <1>23 DEF Free
<1>24. ASSUME NEW p \in Proc, Freed(p) PROVE TypeOK'
  <2>1. ip[p] \in Slot
    BY <1>24, <1>g DEF Freed, WithIp
  <2> DEFINE s == ip[p]
             r == [inode[s] EXCEPT !.valid = 0]
  <2>2. inode' \in [Slot -> Inodes]
    <3>1. inode' = [inode EXCEPT ![s] = r]
      BY <1>24 DEF Freed
    <3>2. r \in Inodes
      BY <2>1 DEF Inodes
    <3> HIDE DEF r
    <3> QED
      BY <2>1, <3>1, <3>2
  <2> QED
    BY <1>24, <1>e, <2>1, <2>2 DEF Freed
<1>25. ASSUME NEW p \in Proc, EndOp(p) PROVE TypeOK'
  BY <1>25 DEF EndOp
<1>26. ASSUME Crash PROVE TypeOK'
  <2>1. EmptyInode \in Inodes
    BY InodesAssumption DEF EmptyInode, Inodes
  <2>2. Unnamed(committed) \subseteq Inum
    BY DEF Unnamed
  <2> QED
    BY <1>26, <1>n, <2>1, <2>2 DEF Crash
<1> QED
  BY <1>4, <1>5, <1>6, <1>7, <1>8, <1>9, <1>10, <1>11, <1>12, <1>13, <1>14, <1>15, <1>16,
     <1>17, <1>18, <1>19, <1>20, <1>21, <1>22, <1>23, <1>24, <1>25, <1>26
  DEF Work, Act, Step, OpenStep, CreateStep, UnlinkStep, LinkStep, PutStep

-----------------------------------------------------------------------------
(* Links.                                                                  *)

\* The inode whose count does not have its name, or has lost it, because of p.
Changing == {"dirlink", "link_dir", "undo", "uncount"}
Pending == [p \in Proc |-> IF pc[p] \in Changing THEN inode[ip[p]].inum ELSE 0]

\* nlink in the same terms as the names and calls that make it up.
LinksNow == \A i \in Inum : din[i].nlink = At(Name, dir, i) + At(Proc, Pending, i)

LEMMA PendingStep ==
  ASSUME IInv, NEW p \in Proc, Act(p)
  PROVE  /\ Pending \in [Proc -> 0..NINODES]
         /\ \A q \in Proc \ {p} : Pending'[q] = Pending[q]
         /\ Pending'[p] = IF pc'[p] \in Changing THEN inode'[ip'[p]].inum ELSE 0
<1>1. \A q \in Proc : pc[q] \in Changing => ip[q] # 0 /\ ip[q] \in Slot
  BY Types DEF Changing, WithIp
<1>2. \A q \in Proc \ {p} : pc'[q] = pc[q] /\ (ip[q] # 0 => inode'[ip'[q]].inum = inode[ip[q]].inum)
  BY Others, OthersInode
<1>3. \A q \in Proc \ {p} : Pending'[q] = Pending[q]
  BY <1>1, <1>2 DEF Pending
<1>4. Pending \in [Proc -> 0..NINODES]
  BY <1>1, Types DEF Pending
<1> QED
  BY <1>3, <1>4 DEF Pending

\* A step that changes neither names nor counts nor the pending ones.
LEMMA LinksStay ==
  ASSUME IInv, LinksNow, NEW p \in Proc, Act(p), dir' = dir, Pending'[p] = Pending[p],
         \A i \in Inum : din'[i].nlink = din[i].nlink
  PROVE  LinksNow'
<1>1. ASSUME NEW i \in Inum PROVE At(Proc, Pending', i) = At(Proc, Pending, i)
  BY PendingStep, ProcSame
<1> QED
  BY <1>1 DEF LinksNow

\* One in which the count of i, the names of it or the pending ones change: each
\* by one at most, and so that the sum stays right.
LEMMA LinksMove ==
  ASSUME IInv, LinksNow, NEW p \in Proc, Act(p), NEW i \in Inum,
         NEW n, \/ dir' = dir
                \/ /\ n \in Name /\ \A m \in Name \ {n} : dir'[m] = dir[m]
                   /\ {dir[n], dir'[n]} \subseteq {0, i},
         {Pending[p], Pending'[p]} \subseteq {0, i},
         \A j \in Inum \ {i} : din'[j].nlink = din[j].nlink,
         LET One(v) == IF v = i THEN 1 ELSE 0 IN
         din'[i].nlink =
           din[i].nlink + One(dir'[n]) - One(dir[n]) + One(Pending'[p]) - One(Pending[p])
  PROVE  LinksNow'
<1>0. 0 \notin Inum
  BY DEF Inum
<1>1. ASSUME NEW j \in Inum \ {i}
      PROVE  At(Proc, Pending', j) = At(Proc, Pending, j) /\ At(Name, dir', j) = At(Name, dir, j)
  <2>0. /\ p \in Proc /\ \A q \in Proc \ {p} : Pending'[q] = Pending[q]
        /\ Pending[p] # j /\ Pending'[p] # j
    BY <1>0, PendingStep
  <2>1. At(Proc, Pending', j) = At(Proc, Pending, j)
    BY ONLY <2>0, ProcSame
  <2>2. CASE n \in Name /\ (\A m \in Name \ {n} : dir'[m] = dir[m]) /\ {dir[n], dir'[n]} \subseteq {0, i}
    <3>1. At(Name, dir', j) = At(Name, dir, j)
      BY <1>0, <2>2, NameSame, ZenonT(40)
    <3> QED
      BY <2>1, <3>1
  <2> QED
    BY <2>1, <2>2
<1>2. LET One(v) == IF v = i THEN 1 ELSE 0 IN
      At(Proc, Pending', i) = At(Proc, Pending, i) + One(Pending'[p]) - One(Pending[p])
  <2>0. p \in Proc /\ \A q \in Proc \ {p} : Pending'[q] = Pending[q]
    BY PendingStep
  <2>1. At(Proc, Pending, i) \in Nat
    BY AtNat, InodesAssumption
  <2>2. CASE (Pending[p] = i) <=> (Pending'[p] = i)
    <3>1. At(Proc, Pending', i) = At(Proc, Pending, i)
      BY ONLY <2>0, <2>2, ProcSame
    <3> QED
      BY <2>1, <2>2, <3>1
  <2>3. CASE Pending[p] # i /\ Pending'[p] = i
    <3>1. At(Proc, Pending', i) = At(Proc, Pending, i) + 1
      BY ONLY <2>0, <2>3, ProcMore
    <3> QED
      BY <2>1, <2>3, <3>1
  <2>4. CASE Pending[p] = i /\ Pending'[p] # i
    <3>1. At(Proc, Pending', i) = At(Proc, Pending, i) - 1
      BY ONLY <2>0, <2>4, ProcLess
    <3> QED
      BY <2>1, <2>4, <3>1
  <2> QED
    BY <2>2, <2>3, <2>4
<1>3. LET One(v) == IF v = i THEN 1 ELSE 0 IN
      At(Name, dir', i) = At(Name, dir, i) + One(dir'[n]) - One(dir[n])
  <2>1. At(Name, dir, i) \in Nat
    BY AtNat, InodesAssumption
  <2> SUFFICES ASSUME dir' # dir
               PROVE  LET One(v) == IF v = i THEN 1 ELSE 0 IN
                      At(Name, dir', i) = At(Name, dir, i) + One(dir'[n]) - One(dir[n])
    BY <2>1
  <2>0. n \in Name /\ \A m \in Name \ {n} : dir'[m] = dir[m]
    OBVIOUS
  <2>2. CASE (dir[n] = i) <=> (dir'[n] = i)
    <3>1. At(Name, dir', i) = At(Name, dir, i)
      BY ONLY <2>0, <2>2, NameSame
    <3> QED
      BY <2>1, <2>2, <3>1
  <2>3. CASE dir[n] # i /\ dir'[n] = i
    <3>1. At(Name, dir', i) = At(Name, dir, i) + 1
      BY ONLY <2>0, <2>3, NameMore
    <3> QED
      BY <2>1, <2>3, <3>1
  <2>4. CASE dir[n] = i /\ dir'[n] # i
    <3>1. At(Name, dir', i) = At(Name, dir, i) - 1
      BY ONLY <2>0, <2>4, NameLess
    <3> QED
      BY <2>1, <2>4, <3>1
  <2> QED
    BY <2>2, <2>3, <2>4
<1>4. din'[i].nlink = At(Name, dir', i) + At(Proc, Pending', i)
  <2>1. At(Proc, Pending, i) \in Nat /\ At(Name, dir, i) \in Nat
    BY AtNat, InodesAssumption
  <2>2. At(Proc, Pending', i) \in Nat /\ At(Name, dir', i) \in Nat
    BY AtNat, InodesAssumption
  <2> QED
    BY <1>2, <1>3, <2>1, <2>2 DEF LinksNow
<1> QED
  BY <1>1, <1>4 DEF LinksNow

LEMMA LinksStep == ASSUME IInv, Work PROVE LinksExact'
<1>f. /\ LinksExact /\ Unlinked(din) /\ ControlInv /\ DirInv /\ FreshInv /\ FreeInv /\ TypeOK
      /\ IsFiniteSet(Proc) /\ IsFiniteSet(Name)
  BY InodesAssumption DEF IInv
<1>a. \A i \in Inum : Unsettled(i) = At(Proc, Pending, i)
  <2>1. ASSUME NEW i \in Inum
        PROVE  {p \in Proc : ip[p] # 0 /\ inode[ip[p]].inum = i
                             /\ pc[p] \in {"dirlink", "link_dir", "undo", "uncount"}}
               = {p \in Proc : Pending[p] = i}
    BY <1>f DEF ControlInv, WithIp, Pending, Changing, Inum
  <2> QED
    BY <2>1 DEF Unsettled, At
<1>b. \A i \in Inum : Unsettled(i)' = At(Proc, Pending', i)
  <2>0. ControlInv'
    BY ControlStep
  <2>1. ASSUME NEW i \in Inum
        PROVE  {p \in Proc : ip'[p] # 0 /\ inode'[ip'[p]].inum = i
                             /\ pc'[p] \in {"dirlink", "link_dir", "undo", "uncount"}}
               = {p \in Proc : Pending'[p] = i}
    BY <2>0 DEF ControlInv, WithIp, Pending, Changing, Inum
  <2> QED
    BY <2>1 DEF Unsettled, At
<1>c. LinksNow
  BY <1>a, <1>f DEF LinksExact, LinksNow, At
<1>d. LinksNow' => \A i \in Inum : din'[i].nlink = Cardinality({n \in Name : dir'[n] = i}) + Unsettled(i)'
  BY <1>b DEF LinksNow, At
<1> DEFINE Committed == /\ \A i \in Inum : committed.din[i].nlink = Cardinality({n \in Name : committed.dir[n] = i})
                        /\ \A n \in Name : committed.dir[n] # 0 => committed.din[committed.dir[n]].type # 0
<1>e. Committed /\ (LinksNow' /\ Committed' => LinksExact')
  BY <1>d, <1>f DEF LinksExact
\* The count of the inode that p is creating is that of its own call.
<1>g. ASSUME NEW p \in Proc, Act(p), pc[p] \in {"init", "dirlink"}
      PROVE  LET i == inode[ip[p]].inum IN
             /\ i \in Inum /\ dir[name[p]] = 0
             /\ pc[p] = "init" => din[i].nlink = 0
             /\ pc[p] = "dirlink" => din[i].nlink = 1
  <2> DEFINE i == inode[ip[p]].inum
  <2>1. i \in Inum /\ dir[name[p]] = 0
    BY <1>f, <1>g, Here DEF DirInv, WithIp
  <2>2. Fresh(p, i)
    BY <1>f, <1>g DEF FreshInv
  <2>3. At(Name, dir, i) = 0
    BY <1>f, <2>2, AtNat DEF Fresh
  <2> DEFINE Rest == [Pending EXCEPT ![p] = 0]
  <2>4. \A q \in Proc : Rest[q] # i
    <3>1. \A q \in Proc : pc[q] \in Changing => ip[q] # 0
      BY Types DEF Changing, WithIp
    <3> QED
      BY <2>1, <2>2, <3>1 DEF Pending, Changing, Fresh, Inum
  <2>5. At(Proc, Rest, i) = 0
    BY <1>f, <2>4, AtNat
  <2>6. Rest[p] # i /\ \A q \in Proc \ {p} : Rest[q] = Pending[q]
    BY <2>4 DEF Pending
  <2>7. Pending[p] = IF pc[p] = "init" THEN 0 ELSE i
    BY <1>g DEF Pending, Changing
  <2>8. 0 # i
    BY <2>1 DEF Inum
  <2>9. At(Proc, Pending, i) \in Nat
    BY <1>f, AtNat
  <2> HIDE DEF Rest
  <2>10. ASSUME pc[p] = "init" PROVE At(Proc, Rest, i) = At(Proc, Pending, i)
    <3>1. Pending[p] # i
      BY <2>7, <2>8, <2>10
    <3> QED
      BY <2>6, <3>1, ProcSame
  <2>11. ASSUME pc[p] = "dirlink" PROVE At(Proc, Rest, i) = At(Proc, Pending, i) - 1
    <3>1. Pending[p] = i
      BY <2>7, <2>11
    <3> QED
      BY <2>6, <3>1, ProcLess, ZenonT(40)
  <2>12. din[i].nlink = At(Name, dir, i) + At(Proc, Pending, i)
    BY <1>c, <2>1 DEF LinksNow
  <2> QED
    BY <2>1, <2>3, <2>5, <2>9, <2>10, <2>11, <2>12
<1> USE DEF Goto, diskVars
\* Steps that leave names and counts alone.
<1>1. ASSUME NEW p \in Proc, Call(p)
      PROVE  LinksNow'
  <2>1. PICK l \in Syscall : pc' = [pc EXCEPT ![p] = l]
    BY <1>1 DEF Call
  <2>2. l \in {"open", "create", "unlink", "link"}
    BY DEF Syscall
  <2>3. Pending'[p] = Pending[p]
    BY <1>1, <2>1, <2>2, PendingStep, Types DEF Call, Changing, Pending, Act
  <2> QED
    BY <1>1, <1>c, <2>3, LinksStay DEF Call, Act
<1>2. ASSUME NEW p \in Proc,
             \/ Close(p) \/ OpenStep(p) \/ Create(p) \/ NoInodes(p) \/ IallocGet(p)
             \/ UnlinkLookup(p) \/ Put(p) \/ PutLast(p) \/ Freed(p) \/ PutFreed(p) \/ EndOp(p)
      PROVE  LinksNow'
  <2>0. Act(p)
    BY <1>2 DEF Act, Step, CreateStep, UnlinkStep, PutStep
  <2>1. dir' = dir /\ din' = din
    BY <1>2 DEF Close, OpenStep, Namei, OpenLock, Opened, OpenFails, Create, NoInodes,
                IallocGet, UnlinkLookup, Put, PutLast, Freed, PutFreed, EndOp
  <2>2. pc[p] \notin Changing /\ pc'[p] \notin Changing
    BY <1>2, Types DEF Close, OpenStep, Namei, OpenLock, Opened, OpenFails, Create, NoInodes,
                IallocGet, UnlinkLookup, Put, PutLast, Freed, PutFreed, EndOp, Unref, Changing
  <2>3. Pending'[p] = Pending[p]
    BY <2>0, <2>2, PendingStep DEF Pending
  <2> QED
    BY <1>c, <2>0, <2>1, <2>3, LinksStay
<1>3. ASSUME NEW p \in Proc, Ialloc(p) \/ Free(p)
      PROVE  LinksNow'
  <2>0. Act(p)
    BY <1>3 DEF Act, Step, CreateStep, PutStep
  <2>1. dir' = dir /\ pc[p] \notin Changing /\ pc'[p] \notin Changing
    BY <1>3, Types DEF Ialloc, Free, Changing
  <2>2. \A i \in Inum : din'[i].nlink = din[i].nlink
    <3>1. CASE Ialloc(p)
      <4>1. \A i \in Inum : din[i].type = 0 => din[i].nlink = 0
        BY <1>f DEF Unlinked
      <4> QED
        BY <3>1, <4>1, Types DEF Ialloc
    <3>2. CASE Free(p)
      <4>1. Wrote(p, 0, 0) /\ pc[p] = "free"
        BY <3>2, WriteSteps DEF Free
      <4>2. inode[ip[p]].inum \in Inum /\ inode[ip[p]] = Entry(ip[p])
        BY <4>1, Here, LoadedFacts DEF WithIp, IInv, UseInv, WithValid
      <4>3. inode[ip[p]].nlink = 0
        BY <1>f, <4>1 DEF FreeInv, MustFree
      <4>4. din[inode[ip[p]].inum].nlink = 0
        BY <4>2, <4>3 DEF Entry
      <4> QED
        BY <4>1, <4>2, <4>4, Types DEF Wrote
    <3> QED
      BY <1>3, <3>1, <3>2
  <2>3. Pending'[p] = Pending[p]
    BY <2>0, <2>1, PendingStep DEF Pending
  <2> QED
    BY <1>c, <2>0, <2>1, <2>2, <2>3, LinksStay
<1>4. ASSUME NEW p \in Proc, LinkFails(p)
      PROVE  LinksNow'
  <2>0. Act(p)
    BY <1>4 DEF Act, Step, LinkStep
  <2>1. /\ dir' = dir /\ din' = din /\ inode' = inode /\ ip' = ip
        /\ pc[p] \in Changing /\ pc'[p] \in Changing
    BY <1>4, Types DEF LinkFails, Changing, tableVars
  <2>2. Pending'[p] = Pending[p]
    BY <2>0, <2>1, PendingStep DEF Pending
  <2> QED
    BY <1>c, <2>0, <2>1, <2>2, LinksStay
\* Steps that change them.
<1>5. ASSUME NEW p \in Proc,
             \/ CreateInit(p) \/ CreateLink(p) \/ CreateFails(p) \/ UnlinkErase(p)
             \/ UnlinkCount(p) \/ LinkCount(p) \/ LinkDir(p) \/ LinkUndo(p)
      PROVE  LinksNow'
  <2> DEFINE i == inode[ip[p]].inum
  <2>0. Act(p)
    BY <1>5 DEF Act, Step, CreateStep, UnlinkStep, LinkStep
  <2>1. pc[p] \in WithIp /\ ip[p] # 0 /\ ip' = ip
    BY <1>5, Types DEF CreateInit, CreateLink, CreateFails, UnlinkErase, UnlinkCount,
                       LinkCount, LinkDir, LinkUndo, WithIp, tableVars
  <2>2. i \in Inum /\ inode'[ip'[p]].inum = i
    BY <2>0, <2>1, Here, SameInode
  <2>3. Links(p) \in Nat /\ Links(p) = din[i].nlink
    BY <2>1, LinksNat DEF Links
  <2>p. /\ Pending[p] = IF pc[p] \in Changing THEN i ELSE 0
        /\ Pending'[p] = IF pc'[p] \in Changing THEN i ELSE 0
    BY <2>0, <2>2, PendingStep DEF Pending
  <2>w. ASSUME NEW k, NEW t, Wrote(p, k, t)
        PROVE  din'[i].nlink = k /\ \A j \in Inum \ {i} : din'[j].nlink = din[j].nlink
    BY <2>2, <2>w, Types DEF Wrote
  <2>n. 0 # i
    BY <2>2 DEF Inum
  <2> HIDE DEF i
  <2>4. CASE CreateInit(p)
    <3>1. din[i].nlink = 0
      BY <1>g, <2>0, <2>4 DEF CreateInit, i
    <3>2. dir' = dir /\ Pending[p] = 0 /\ Pending'[p] = i
      BY <2>4, <2>p, Types DEF CreateInit, Changing
    <3>3. Wrote(p, 1, T_FILE)
      BY <2>4, WriteSteps
    <3> QED
      BY <1>c, <2>0, <2>2, <2>n, <2>w, <3>1, <3>2, <3>3, LinksMove
  <2>5. CASE CreateFails(p)
    <3>1. din[i].nlink = 1
      BY <1>g, <2>0, <2>5 DEF CreateFails, i
    <3>2. dir' = dir /\ Pending[p] = i /\ Pending'[p] = 0
      BY <2>5, <2>p, Types DEF CreateFails, Changing
    <3>3. Wrote(p, 0, T_FILE)
      BY <2>5, WriteSteps
    <3> QED
      BY <1>c, <2>0, <2>2, <2>n, <2>w, <3>1, <3>2, <3>3, LinksMove
  <2>6. CASE CreateLink(p)
    <3>1. Pending[p] = i /\ Pending'[p] = 0 /\ din' = din
      BY <2>6, <2>p, Types DEF CreateLink, Changing
    <3>2. name[p] \in Name /\ dir[name[p]] = 0
      BY <1>f, <2>6 DEF CreateLink, ControlInv, WithName, WithDir, DirInv
    <3>3. dir'[name[p]] = i /\ \A m \in Name \ {name[p]} : dir'[m] = dir[m]
      BY <2>6, <3>2, Types DEF CreateLink, i
    <3> QED
      BY <1>c, <2>0, <2>2, <2>3, <2>n, <3>1, <3>2, <3>3, LinksMove
  <2>7. CASE UnlinkErase(p)
    <3>1. Pending[p] = 0 /\ Pending'[p] = i /\ din' = din
      BY <2>7, <2>p, Types DEF UnlinkErase, Changing
    <3>2. name[p] \in Name /\ dir[name[p]] = i
      BY <1>f, <2>7 DEF UnlinkErase, ControlInv, WithName, WithDir, DirInv, i
    <3>3. dir'[name[p]] = 0 /\ \A m \in Name \ {name[p]} : dir'[m] = dir[m]
      BY <2>7, <3>2, Types DEF UnlinkErase
    <3> QED
      BY <1>c, <2>0, <2>2, <2>3, <2>n, <3>1, <3>2, <3>3, LinksMove
  <2>8. CASE UnlinkCount(p) \/ LinkUndo(p)
    <3>1. Pending[p] = i /\ Pending'[p] = 0 /\ dir' = dir
      BY <2>8, <2>p, Types DEF UnlinkCount, LinkUndo, Changing
    <3>2. Wrote(p, Links(p) - 1, T_FILE)
      BY <2>8, WriteSteps
    <3> QED
      BY <1>c, <2>0, <2>2, <2>3, <2>n, <2>w, <3>1, <3>2, LinksMove
  <2>9. CASE LinkCount(p)
    <3>1. Pending[p] = 0 /\ Pending'[p] = i /\ dir' = dir
      BY <2>9, <2>p, Types DEF LinkCount, Changing
    <3>2. Wrote(p, Links(p) + 1, T_FILE)
      BY <2>9, WriteSteps
    <3> QED
      BY <1>c, <2>0, <2>2, <2>3, <2>n, <2>w, <3>1, <3>2, LinksMove
  <2>10. CASE LinkDir(p)
    <3>1. Pending[p] = i /\ Pending'[p] = 0 /\ din' = din
      BY <2>10, <2>p, Types DEF LinkDir, Changing
    <3>2. new[p] \in Name /\ dir[new[p]] = 0
      BY <1>f, <2>10 DEF LinkDir, ControlInv
    <3>3. dir'[new[p]] = i /\ \A m \in Name \ {new[p]} : dir'[m] = dir[m]
      BY <2>10, <3>2, Types DEF LinkDir, i
    <3> QED
      BY <1>c, <2>0, <2>2, <2>3, <2>n, <3>1, <3>2, <3>3, LinksMove
  <2> QED
    BY <1>5, <2>4, <2>5, <2>6, <2>7, <2>8, <2>9, <2>10
<1>6. ASSUME NEW p \in Proc, Act(p) PROVE LinksNow'
  BY <1>1, <1>2, <1>3, <1>4, <1>5, <1>6
  DEF Act, Step, CreateStep, UnlinkStep, LinkStep, PutStep
\* A commit when nothing is pending, and a crash, which returns to it.
<1>7. ASSUME NEW p \in Proc, EndOp(p), committed' # committed PROVE Committed'
  <2>1. \A q \in Proc : pc'[q] = "idle"
    BY <1>7 DEF EndOp
  <2>2. \A q \in Proc : Pending[q] = 0
    <3>1. \A q \in Proc : pc[q] \notin Changing
      BY <1>7, <2>1, Others DEF Act, Step, EndOp, Changing
    <3> QED
      BY <3>1 DEF Pending
  <2>3. \A i \in Inum : At(Proc, Pending, i) = 0
    BY <1>f, <2>2, AtNat DEF Inum
  <2>4. \A i \in Inum : At(Name, dir, i) \in Nat
    BY <1>f, AtNat
  <2>5. \A i \in Inum : din[i].nlink = Cardinality({n \in Name : dir[n] = i})
    <3>1. \A i \in Inum : din[i].nlink = At(Name, dir, i)
      BY <1>c, <2>3, <2>4 DEF LinksNow
    <3> QED
      BY <3>1 DEF At
  <2>6. \A n \in Name : dir[n] # 0 => din[dir[n]].type # 0
    BY LinkFacts, Types DEF Inum
  <2>7. committed'.dir = dir /\ committed'.din = din
    BY <1>7 DEF EndOp
  <2> QED
    BY <2>5, <2>6, <2>7
<1>8. ASSUME NEW p \in Proc, Act(p), ~EndOp(p) PROVE committed' = committed
  BY <1>8
  DEF Act, Step, Call, Close, OpenStep, CreateStep, UnlinkStep, LinkStep, PutStep,
      Namei, OpenLock, Opened, OpenFails, Create, Ialloc, NoInodes, IallocGet, CreateInit,
      CreateLink, CreateFails, UnlinkLookup, UnlinkErase, UnlinkCount, LinkCount, LinkDir,
      LinkFails, LinkUndo, Put, PutLast, Free, Freed, PutFreed
<1>9. ASSUME Crash PROVE LinksNow' /\ Committed'
  <2>1. committed' = committed /\ dir' = committed.dir /\ din' = committed.din
    BY <1>9 DEF Crash
  <2>2. \A q \in Proc : Pending'[q] = 0
    BY <1>9 DEF Crash, Pending, Changing
  <2>3. \A i \in Inum : At(Proc, Pending', i) = 0
    BY <1>f, <2>2, AtNat DEF Inum
  <2>4. \A i \in Inum : At(Name, dir', i) \in Nat
    BY <1>f, AtNat
  <2>5. \A i \in Inum : din'[i].nlink = At(Name, dir', i)
    BY <1>e, <2>1 DEF At
  <2> QED
    BY <1>e, <2>1, <2>3, <2>4, <2>5 DEF LinksNow
<1> HIDE DEF Committed
<1>10. Committed'
  <2>1. committed' = committed => Committed'
    BY <1>e DEF Committed
  <2> QED
    BY <1>7, <1>8, <1>9, <2>1 DEF Work, Act
<1> QED
  BY <1>6, <1>9, <1>10, <1>e DEF Work, Act

-----------------------------------------------------------------------------
(* The table and the disk.                                                 *)

LEMMA Committing ==
  ASSUME NEW p \in Proc, Act(p)
  PROVE  committed' = committed \/ (committed' = [dir |-> dir, din |-> din] /\ EndOp(p))
<1>1. EndOp(p) => committed' = committed \/ committed' = [dir |-> dir, din |-> din]
  BY DEF EndOp
<1>2. ~EndOp(p) => committed' = committed
  BY DEF diskVars, tableVars, Act, Step, Call, Close, OpenStep, CreateStep, UnlinkStep, LinkStep, PutStep,
      Namei, OpenLock, Opened, OpenFails, Create, Ialloc, NoInodes, IallocGet, CreateInit,
      CreateLink, CreateFails, UnlinkLookup, UnlinkErase, UnlinkCount, LinkCount, LinkDir,
      LinkFails, LinkUndo, Put, PutLast, Free, Freed, PutFreed
<1> QED
  BY <1>1, <1>2

LEMMA DiskSteps ==
  ASSUME IInv, NEW p \in Proc, Act(p)
  PROVE  /\ Writes(p) => /\ pc[p] \in WithIp \ {"freed", "unref"}
                          /\ \E k \in Nat : Wrote(p, k, T_FILE)
         /\ Free(p) => Wrote(p, 0, 0)
         /\ Writes(p) \/ Free(p) \/ Ialloc(p) \/ din' = din
<1>1. ASSUME Writes(p)
      PROVE  pc[p] \in WithIp \ {"freed", "unref"} /\ \E k \in Nat : Wrote(p, k, T_FILE)
  <2>1. pc[p] \in WithIp \ {"freed", "unref"}
    BY <1>1 DEF Writes, OpenLock, UnlinkErase, CreateInit, CreateFails, LinkCount, LinkUndo,
                UnlinkCount, WithIp
  <2>2. Links(p) \in Nat /\ Links(p) + 1 \in Nat /\ 0 \in Nat /\ 1 \in Nat
    BY <2>1, LinksNat
  <2>3. \E k \in Nat : Wrote(p, k, T_FILE)
    BY <1>1, <2>2, WriteSteps DEF Writes
  <2> QED
    BY <2>1, <2>3
<1>2. Free(p) => Wrote(p, 0, 0)
  BY WriteSteps
<1>3. Writes(p) \/ Free(p) \/ Ialloc(p) \/ din' = din
  BY
    DEF Act, Step, Call, Close, OpenStep, CreateStep, UnlinkStep, LinkStep, PutStep, Writes,
        Namei, Opened, OpenFails, Create, NoInodes, IallocGet, CreateLink, UnlinkLookup,
        LinkDir, LinkFails, Put, PutLast, Freed, PutFreed, EndOp, diskVars
<1> QED
  BY <1>1, <1>2, <1>3

LEMMA UnlinkedStep == ASSUME IInv, Work PROVE Unlinked(din') /\ Unlinked(committed'.din)
<1>f. Unlinked(din) /\ Unlinked(committed.din)
  BY DEF IInv
<1>1. ASSUME NEW p \in Proc, Act(p)
      PROVE  Unlinked(din')
  <2>1. ASSUME NEW k, NEW t, Wrote(p, k, t), pc[p] \in WithIp, t # 0 \/ k = 0
        PROVE  Unlinked(din')
    <3>1. inode[ip[p]].inum \in Inum
      BY <2>1, Here
    <3> QED
      BY <1>f, <2>1, <3>1, Types DEF Wrote, Unlinked
  <2>2. T_FILE # 0
    BY DEF T_FILE
  <2>3. CASE Ialloc(p)
    BY <1>f, <2>2, <2>3, Types DEF Ialloc, Unlinked
  <2>4. CASE Free(p) /\ Wrote(p, 0, 0)
    BY <2>1, <2>4 DEF Free, WithIp
  <2>5. CASE pc[p] \in WithIp /\ \E k \in Nat : Wrote(p, k, T_FILE)
    BY <2>1, <2>2, <2>5
  <2>6. CASE din' = din
    BY <1>f, <2>6
  <2> QED
    BY <1>1, <2>3, <2>4, <2>5, <2>6, DiskSteps
<1>2. ASSUME NEW p \in Proc, Act(p)
      PROVE  Unlinked(committed'.din)
  BY <1>2, <1>f, Committing
<1>3. ASSUME Crash
      PROVE  Unlinked(din') /\ Unlinked(committed'.din)
  BY <1>3, <1>f DEF Crash
<1> QED
  BY <1>1, <1>2, <1>3 DEF Work, Act

\* The entries of a table in use are about different inodes.
LEMMA Apart ==
  ASSUME IInv, NEW s \in Slot, NEW t \in Slot, inode[s].ref > 0, inode[t].ref > 0,
         inode[s].inum = inode[t].inum
  PROVE  s = t
BY DEF IInv, RefsExact

LEMMA CacheStep == ASSUME IInv, Work PROVE CacheInv'
<1>f. CacheInv /\ FreeInv
  BY DEF IInv
<1>t. inode \in [Slot -> [inum : 0..NINODES, ref : Nat, valid : {0, 1},
                          type : {0, T_FILE}, nlink : Nat]]
  BY Types
<1>n. T_FILE # 0
  BY DEF T_FILE
<1> DEFINE True(s) ==
      \/ /\ din[inode[s].inum] = [type |-> inode[s].type, nlink |-> inode[s].nlink]
         /\ inode[s].type # 0
      \/ \E p \in Proc : pc[p] = "freed" /\ ip[p] = s
<1>c. CacheInv <=> \A s \in Slot : inode[s].ref > 0 /\ inode[s].valid = 1 => True(s)
  BY DEF CacheInv
<1>d. CacheInv' <=> \A s \in Slot : inode'[s].ref > 0 /\ inode'[s].valid = 1 => True(s)'
  BY DEF CacheInv
\* A process that frees an inode goes on freeing it.
<1>g. ASSUME NEW p \in Proc, Act(p), pc[p] # "freed", NEW s,
             \E q \in Proc : pc[q] = "freed" /\ ip[q] = s
      PROVE  \E q \in Proc : pc'[q] = "freed" /\ ip'[q] = s
  BY <1>g, Others
\* An entry that stays as it is, on a disk that does.
<1>h. ASSUME NEW p \in Proc, Act(p), pc[p] # "freed", NEW s \in Slot, True(s),
             inode'[s].inum = inode[s].inum, inode'[s].type = inode[s].type,
             inode'[s].nlink = inode[s].nlink,
             din'[inode[s].inum] = din[inode[s].inum]
      PROVE  True(s)'
  BY <1>g, <1>h
<1>1. ASSUME NEW p \in Proc, Writes(p), Act(p), pc[p] \in WithIp \ {"freed", "unref"},
             NEW k \in Nat, Wrote(p, k, T_FILE)
      PROVE  CacheInv'
  <2>1. ip[p] \in Slot /\ inode[ip[p]].ref > 0 /\ inode[ip[p]].inum \in Inum
    BY <1>1, <1>t, Here
  <2>2. ASSUME NEW s \in Slot, s = ip[p]
        PROVE  True(s)'
    BY <1>1, <1>t, <1>n, <2>1, <2>2, Types DEF Wrote
  <2>3. ASSUME NEW s \in Slot \ {ip[p]}, inode'[s].ref > 0, inode'[s].valid = 1
        PROVE  True(s)'
    <3>1. inode'[s] = inode[s]
      BY <1>1, <1>t, <2>1 DEF Wrote
    <3>2. inode[s].inum # inode[ip[p]].inum
      BY <2>1, <2>3, <3>1, Apart
    <3>3. din'[inode[s].inum] = din[inode[s].inum]
      BY <1>1, <2>1, <3>2, Types DEF Wrote
    <3>4. True(s)
      BY <1>c, <1>f, <2>3, <3>1
    <3> HIDE DEF True
    <3> QED
      BY <1>1, <1>h, <3>1, <3>3, <3>4
  <2> HIDE DEF True
  <2> QED
    BY <1>d, <2>2, <2>3
\* An inode that is being freed: nobody else has it.
<1>2. ASSUME NEW p \in Proc, Free(p), Act(p), Wrote(p, 0, 0)
      PROVE  CacheInv'
  <2>0. pc[p] = "free" /\ pc'[p] = "freed" /\ ip' = ip
    BY <1>2, Types DEF Free, Goto
  <2>1. ip[p] \in Slot /\ inode[ip[p]].ref > 0 /\ inode[ip[p]].inum \in Inum
    BY <1>t, <2>0, Here DEF WithIp
  <2>2. ASSUME NEW s \in Slot, s = ip[p]
        PROVE  True(s)'
    BY <2>0, <2>2
  <2>3. ASSUME NEW s \in Slot \ {ip[p]}, inode'[s].ref > 0, inode'[s].valid = 1
        PROVE  True(s)'
    <3>1. inode'[s] = inode[s]
      BY <1>2, <1>t, <2>1 DEF Wrote
    <3>2. inode[s].inum # inode[ip[p]].inum
      BY <2>1, <2>3, <3>1, Apart
    <3>3. din'[inode[s].inum] = din[inode[s].inum]
      BY <1>2, <2>1, <3>2, Types DEF Wrote
    <3>4. True(s)
      BY <1>c, <1>f, <2>3, <3>1
    <3> HIDE DEF True
    <3> QED
      BY <1>2, <1>h, <2>0, <3>1, <3>3, <3>4
  <2> HIDE DEF True
  <2> QED
    BY <1>d, <2>2, <2>3
\* A free inode that is allocated: if it is still in the table, somebody is
\* freeing it.
<1>3. ASSUME NEW p \in Proc, Ialloc(p), Act(p)
      PROVE  CacheInv'
  <2>0. pc[p] = "ialloc" /\ inode' = inode /\ (din' = din \/ din[inum[p]].type = 0)
        /\ inum[p] \in Inum /\ \A i \in Inum \ {inum[p]} : din'[i] = din[i]
    BY <1>3, Types DEF Ialloc, tableVars
  <2>1. ASSUME NEW s \in Slot, inode[s].ref > 0, inode[s].valid = 1
        PROVE  True(s)'
    <3>1. True(s) /\ inode[s].inum \in Inum
      BY <1>c, <1>f, <2>1 DEF IInv, InumInv
    <3>2. CASE \E q \in Proc : pc[q] = "freed" /\ ip[q] = s
      BY <1>3, <1>g, <2>0, <3>2
    <3>3. CASE din[inode[s].inum] = [type |-> inode[s].type, nlink |-> inode[s].nlink]
               /\ inode[s].type # 0
      <4>1. din'[inode[s].inum] = din[inode[s].inum]
        BY <2>0, <3>1, <3>3
      <4> QED
        BY <2>0, <3>3, <4>1
    <3> QED
      BY <3>1, <3>2, <3>3
  <2> HIDE DEF True
  <2> QED
    BY <1>d, <2>0, <2>1
\* What was freed is not valid any more.
<1>4. ASSUME NEW p \in Proc, Freed(p), Act(p)
      PROVE  CacheInv'
  <2>0. pc[p] = "freed" /\ ip' = ip /\ din' = din
        /\ inode' = [inode EXCEPT ![ip[p]].valid = 0]
    BY <1>4 DEF Freed, diskVars
  <2>1. ip[p] \in Slot
    BY <2>0, Here DEF WithIp
  <2>2. inode'[ip[p]].valid = 0 /\ \A s \in Slot \ {ip[p]} : inode'[s] = inode[s]
    BY <1>t, <2>0, <2>1
  <2>3. ASSUME NEW s \in Slot, s # ip[p], inode[s].ref > 0, inode[s].valid = 1
        PROVE  True(s)'
    <3>1. True(s)
      BY <1>c, <1>f, <2>3
    <3>2. ASSUME NEW q \in Proc, pc[q] = "freed", ip[q] = s
          PROVE  pc'[q] = "freed" /\ ip'[q] = s
      BY <1>4, <2>3, <3>2, Others
    <3> QED
      BY <2>0, <2>2, <2>3, <3>1, <3>2
  <2> HIDE DEF True
  <2> QED
    BY <1>d, <2>2, <2>3
\* The other steps change reference counts at most, or begin to use an entry.
<1>5. ASSUME NEW p \in Proc, Act(p), pc[p] # "freed", din' = din,
             NEW s \in Slot, inode[s].ref > 0, inode[s].valid = 1,
             inode'[s].inum = inode[s].inum, inode'[s].type = inode[s].type,
             inode'[s].nlink = inode[s].nlink
      PROVE  True(s)'
  <2>1. True(s)
    BY <1>c, <1>f, <1>5
  <2> HIDE DEF True
  <2> QED
    BY <1>5, <1>h, <2>1
<1>6. ASSUME NEW p \in Proc, Act(p), ~Writes(p), ~Free(p), ~Freed(p), ~Ialloc(p), din' = din
      PROVE  CacheInv'
  <2>1. pc[p] # "freed"
    BY <1>6 DEF Act, Step, Call, Close, OpenStep, CreateStep, UnlinkStep, LinkStep, PutStep, Writes,
        Namei, Opened, OpenFails, Create, NoInodes, IallocGet, CreateLink, UnlinkLookup,
        LinkDir, LinkFails, Put, PutLast, PutFreed, EndOp
  <2>2. CASE inode' = inode
    <3> HIDE DEF True
    <3> QED
      BY <1>5, <1>6, <1>d, <2>1, <2>2
  <2>3. ASSUME NEW i \in Inum, NEW s \in Slot, Get(p, i, s)
        PROVE  CacheInv'
    <3>1. /\ \A t \in Slot \ {s} : inode'[t] = inode[t]
          /\ inode'[s] = [inum |-> i, ref |-> inode[s].ref + 1,
                          valid |-> IF inode[s].ref > 0 THEN inode[s].valid ELSE 0,
                          type |-> inode[s].type, nlink |-> inode[s].nlink]
          /\ inode[s].ref > 0 => inode[s].inum = i
      BY <2>3 DEF Get, IgetAt
    <3>2. ASSUME NEW t \in Slot, inode'[t].ref > 0, inode'[t].valid = 1
          PROVE  /\ inode[t].ref > 0 /\ inode[t].valid = 1
                 /\ inode'[t].inum = inode[t].inum /\ inode'[t].type = inode[t].type
                 /\ inode'[t].nlink = inode[t].nlink
      BY <3>1, <3>2
    <3> HIDE DEF True
    <3> QED
      BY <1>5, <1>6, <1>d, <2>1, <3>2
  <2>4. ASSUME Leave(p)
        PROVE  CacheInv'
    <3>0. ip[p] \in Slot /\ inode[ip[p]].ref >= 1
      BY <2>4, Here DEF Leave, WithIp
    <3>1. /\ \A t \in Slot \ {ip[p]} : inode'[t] = inode[t]
          /\ inode'[ip[p]] = IF inode[ip[p]].ref = 1 THEN EmptyInode
                             ELSE [inode[ip[p]] EXCEPT !.ref = inode[ip[p]].ref - 1]
      BY <1>t, <2>4, <3>0 DEF Leave
    <3>2. ASSUME NEW t \in Slot, inode'[t].ref > 0, inode'[t].valid = 1
          PROVE  /\ inode[t].ref > 0 /\ inode[t].valid = 1
                 /\ inode'[t].inum = inode[t].inum /\ inode'[t].type = inode[t].type
                 /\ inode'[t].nlink = inode[t].nlink
      <4>1. inode[t] \in [inum : 0..NINODES, ref : Nat, valid : {0, 1},
                          type : {0, T_FILE}, nlink : Nat]
        BY <1>t
      <4>2. CASE t # ip[p]
        BY <3>1, <3>2, <4>2
      <4>3. CASE t = ip[p]
        <5>1. inode'[t] = IF inode[t].ref = 1 THEN EmptyInode
                          ELSE [inode[t] EXCEPT !.ref = inode[t].ref - 1]
          BY <3>1, <4>3
        <5>2. inode[t].ref >= 1
          BY <3>0, <4>3
        <5> QED
          BY <3>2, <4>1, <5>1, <5>2 DEF EmptyInode
      <4> QED
        BY <4>2, <4>3
    <3> HIDE DEF True
    <3> QED
      BY <1>5, <1>6, <1>d, <2>1, <3>2
  <2> QED
    BY <1>6, <2>2, <2>3, <2>4, TableSteps DEF ToFile, FromFile
<1>7. ASSUME Crash
      PROVE  CacheInv'
  BY <1>7 DEF Crash, CacheInv, EmptyInode
<1> HIDE DEF True
<1> QED
  BY <1>1, <1>2, <1>3, <1>4, <1>6, <1>7, DiskSteps DEF Work, Act

\* What p leaves of an entry that q uses as well, or keeps open.
LEMMA Stays ==
  ASSUME IInv, NEW p \in Proc, Act(p), NEW q \in Proc, NEW s \in Slot,
         (q # p /\ ip[q] = s) \/ (ofile[q] = s /\ ofile'[q] = s)
  PROVE  /\ inode'[s].inum = inode[s].inum /\ inode[s].inum \in Inum
         /\ din[inode[s].inum].type # 0 => din'[inode[s].inum].type # 0
         /\ inode[s].valid = 1 /\ (ofile[q] = s \/ pc[q] # "init") => inode'[s].valid = 1
<1>f. inode \in [Slot -> [inum : 0..NINODES, ref : Nat, valid : {0, 1},
                          type : {0, T_FILE}, nlink : Nat]]
  BY Types
<1>n. T_FILE # 0 /\ 0 \notin Slot
  BY DEF T_FILE, Slot
<1>1. inode'[s].inum = inode[s].inum
  BY <1>n, Others, SameInode
<1>2. inode[s].inum \in Inum /\ inode[s].ref > 0
  <2>1. CASE ip[q] = s
    BY <1>f, <1>n, <2>1, Here, Types
  <2>2. CASE ofile[q] = s
    BY <1>f, <1>n, <2>2, Open
  <2> QED
    BY <2>1, <2>2
\* p is not alone with s.
<1>3. ASSUME ip[p] = s, inode[s].ref = 1
      PROVE  FALSE
  BY <1>3, <1>f, UsersFacts DEF IInv
<1>4. ASSUME NEW k, NEW t, Wrote(p, k, t), pc[p] \in WithIp
      PROVE  /\ inode[s].valid = 1 => inode'[s].valid = 1
             /\ t # 0 /\ din[inode[s].inum].type # 0 => din'[inode[s].inum].type # 0
  <2>1. ip[p] \in Slot /\ inode[ip[p]].inum \in Inum
    BY <1>4, Here
  <2> QED
    BY <1>4, <1>f, <1>2, <2>1, Types DEF Wrote
<1>5. din[inode[s].inum].type # 0 => din'[inode[s].inum].type # 0
  <2>1. CASE Ialloc(p)
    BY <1>2, <1>n, <2>1, Types DEF Ialloc
  <2>2. CASE Free(p) /\ Wrote(p, 0, 0)
    <3>1. pc[p] = "free" /\ pc[p] \in WithIp
      BY <2>2 DEF Free, WithIp
    <3>2. inode[ip[p]].ref = 1 /\ ip[p] \in Slot /\ inode[ip[p]].inum \in Inum
      BY <3>1, Here DEF IInv, FreeInv, MustFree
    <3>3. inode[ip[p]].inum # inode[s].inum
      BY <1>2, <1>3, <3>2, Apart
    <3> QED
      BY <1>2, <2>2, <3>2, <3>3, Types DEF Wrote
  <2>3. CASE pc[p] \in WithIp /\ \E k \in Nat : Wrote(p, k, T_FILE)
    BY <1>4, <1>n, <2>3
  <2>4. CASE din' = din
    BY <2>4
  <2> QED
    BY <2>1, <2>2, <2>3, <2>4, DiskSteps
<1>6. ASSUME inode[s].valid = 1, ofile[q] = s \/ pc[q] # "init"
      PROVE  inode'[s].valid = 1
  <2>1. CASE Writes(p) \/ Free(p)
    <3>1. pc[p] \in WithIp /\ \E k, t : Wrote(p, k, t)
      BY <2>1, DiskSteps DEF Free, WithIp
    <3> QED
      BY <1>4, <1>6, <3>1
  <2>2. CASE Freed(p)
    <3>1. pc[p] = "freed" /\ ip[p] \in Slot
      BY <2>2, Here DEF Freed, WithIp
    <3>2. ip[p] # s
      BY <1>6, <3>1 DEF IInv, FreeInv
    <3> QED
      BY <1>f, <1>6, <2>2, <3>1, <3>2 DEF Freed
  <2>3. ASSUME NEW i \in Inum, NEW t \in Slot, Get(p, i, t)
        PROVE  inode'[s].valid = 1
    BY <1>2, <1>6, <2>3 DEF Get, IgetAt
  <2>4. CASE Leave(p)
    <3>1. ip[p] \in Slot
      BY <2>4, Here DEF Leave, WithIp
    <3> DEFINE r == IF inode[ip[p]].ref = 1 THEN EmptyInode
                    ELSE [inode[ip[p]] EXCEPT !.ref = inode[ip[p]].ref - 1]
    <3>2. inode' = [inode EXCEPT ![ip[p]] = r]
      BY <2>4 DEF Leave
    <3>3. ip[p] = s => r.valid = 1
      BY <1>3, <1>6, <1>f
    <3> HIDE DEF r
    <3> QED
      BY <1>6, <1>f, <3>1, <3>2, <3>3
  <2>5. CASE inode' = inode
    BY <1>6, <2>5
  <2> QED
    BY <2>1, <2>2, <2>3, <2>4, <2>5, TableSteps DEF ToFile, FromFile
<1> QED
  BY <1>1, <1>2, <1>5, <1>6

LEMMA UseStep == ASSUME IInv, Work PROVE UseInv'
<1>f. UseInv /\ NoProc \notin Proc
  BY Types DEF IInv
<1>n. T_FILE # 0
  BY DEF T_FILE
<1>u. \A q \in Proc : pc[q] \in WithIp => ip[q] \in Slot /\ ip[q] # 0
  BY Types
<1> DEFINE UseIp(q) ==
             /\ pc[q] \in WithIp \ {"freed", "unref"} => din[inode[ip[q]].inum].type # 0
             /\ pc[q] \in WithValid => inode[ip[q]].valid = 1
           UseFile(q) ==
             ofile[q] # 0 => din[inode[ofile[q]].inum].type # 0 /\ inode[ofile[q]].valid = 1
<1>c. UseInv' <=> \A q \in Proc : UseIp(q)' /\ UseFile(q)'
  BY DEF UseInv
<1>0. \A q \in Proc : UseIp(q) /\ UseFile(q)
  BY <1>f DEF UseInv
<1>v. \A q \in Proc : (pc[q] \in WithValid => pc[q] \in WithIp /\ pc[q] # "init") /\ "init" \in WithIp
  BY DEF WithValid, WithIp
\* The other processes, and the file that p has open.
<1>1. ASSUME NEW p \in Proc, Act(p), NEW q \in Proc, q # p
      PROVE  UseIp(q)' /\ UseFile(q)'
  <2>1. pc'[q] = pc[q] /\ ip'[q] = ip[q] /\ ofile'[q] = ofile[q]
    BY <1>1, Others
  <2>2. UseIp(q)'
    BY <1>0, <1>1, <1>u, <1>v, <2>1, Stays
  <2>3. ofile[q] # 0 => ofile[q] \in Slot
    BY Types
  <2>4. UseFile(q)'
    BY <1>0, <1>1, <2>1, <2>3, Stays
  <2> QED
    BY <2>2, <2>4
<1>2. ASSUME NEW p \in Proc, Act(p), ofile'[p] = ofile[p]
      PROVE  UseFile(p)'
  <2>1. ofile[p] # 0 => ofile[p] \in Slot
    BY Types
  <2> QED
    BY <1>0, <1>2, <2>1, Stays
<1>3. ASSUME NEW p \in Proc, Act(p), UseIp(p)', UseFile(p)'
      PROVE  UseInv'
  <2> HIDE DEF UseIp, UseFile
  <2> QED
    BY <1>1, <1>3, <1>c
\* The entry that p works on.
<1>4. ASSUME NEW p \in Proc, Act(p), Writes(p)
      PROVE  UseIp(p)'
  <2>1. PICK k \in Nat : Wrote(p, k, T_FILE)
    BY <1>4, DiskSteps
  <2>2. pc[p] \in WithIp
    BY <1>4, DiskSteps
  <2>3. ip[p] \in Slot /\ inode[ip[p]].inum \in Inum
    BY <2>2, Here
  <2>4. ip' = ip
    BY <1>4 DEF Writes, OpenLock, UnlinkErase, CreateInit, CreateFails, LinkCount, LinkUndo,
                UnlinkCount
  <2> QED
    BY <1>n, <2>1, <2>3, <2>4, Types DEF Wrote
<1>5. ASSUME NEW p \in Proc, Act(p), NEW i \in Inum, Iget(p, i), din' = din,
             din[i].type # 0, pc'[p] \notin WithValid
      PROVE  UseIp(p)'
  <2>1. PICK s \in Slot : IgetAt(p, i, s)
    BY <1>5, IgetFacts DEF IInv
  <2>2. inode'[ip'[p]].inum = i
    BY <2>1, Types DEF IgetAt
  <2> QED
    BY <1>5, <2>2
<1>6. ASSUME NEW p \in Proc, pc'[p] \notin WithIp
      PROVE  UseIp(p)'
  BY <1>6 DEF WithIp, WithValid
<1>d. \A n \in Name : dir[n] # 0 => dir[n] \in Inum /\ din[dir[n]].type # 0
  BY LinkFacts, Types DEF Inum
<1>e. \A p \in Proc : /\ pc[p] \in WithName => name[p] \in Name
                      /\ pc[p] = "iget" => inum[p] \in Inum /\ din[inum[p]].type # 0
  BY DEF IInv, ControlInv, FreshInv
<1> USE DEF Goto, diskVars, tableVars
<1>7. ASSUME NEW p \in Proc, Act(p), Namei(p) \/ Create(p) \/ UnlinkLookup(p) \/ IallocGet(p)
      PROVE  UseIp(p)' /\ ofile'[p] = ofile[p]
  <2>1. /\ ofile' = ofile /\ din' = din /\ pc'[p] \notin WithValid
        /\ \/ pc'[p] \notin WithIp
           \/ \E i \in Inum : Iget(p, i) /\ din[i].type # 0
    BY <1>7, <1>d, <1>e, Types
    DEF Namei, Create, UnlinkLookup, IallocGet, WithIp, WithValid, WithName
  <2> HIDE DEF UseIp
  <2> QED
    BY <1>5, <1>6, <1>7, <2>1
<1>8. ASSUME NEW p \in Proc, Opened(p)
      PROVE  UseIp(p)' /\ UseFile(p)'
  <2>1. pc[p] = "locked" /\ pc'[p] = "end" /\ ofile'[p] = ip[p] /\ inode' = inode /\ din' = din
    BY <1>8, Types DEF Opened
  <2> QED
    BY <1>0, <2>1 DEF WithIp, WithValid
<1>9. ASSUME NEW p \in Proc, Close(p)
      PROVE  UseIp(p)' /\ UseFile(p)'
  <2>1. /\ pc'[p] = "put" /\ ip'[p] = ofile[p] /\ ofile[p] # 0 /\ ofile'[p] = 0
        /\ inode' = inode /\ din' = din
    BY <1>9, Types DEF Close
  <2> QED
    BY <1>0, <2>1 DEF WithIp, WithValid
<1>10. ASSUME NEW p \in Proc,
              OpenFails(p) \/ CreateLink(p) \/ LinkDir(p) \/ LinkFails(p) \/ PutLast(p)
       PROVE  UseIp(p)' /\ ofile'[p] = ofile[p]
  <2>1. /\ pc[p] \in WithIp \ {"freed", "unref"} /\ pc[p] \in WithValid
        /\ ip' = ip /\ ofile' = ofile /\ inode' = inode /\ din' = din
    BY <1>10 DEF OpenFails, CreateLink, LinkDir, LinkFails, PutLast, WithIp, WithValid
  <2> QED
    BY <1>0, <2>1
<1>11. ASSUME NEW p \in Proc, Act(p), Free(p)
       PROVE  UseIp(p)' /\ ofile'[p] = ofile[p]
  <2>1. pc[p] = "free" /\ pc'[p] = "freed" /\ ip' = ip /\ ofile' = ofile
    BY <1>11, Types DEF Free
  <2>2. ip[p] \in Slot
    BY <2>1, <1>u DEF WithIp
  <2>3. inode'[ip[p]].valid = 1
    BY <1>11, <2>2, DiskSteps, Types DEF Wrote
  <2> QED
    BY <2>1, <2>3 DEF WithIp, WithValid
<1>12. ASSUME NEW p \in Proc, Freed(p)
       PROVE  UseIp(p)' /\ ofile'[p] = ofile[p]
  BY <1>12, Types DEF Freed, WithIp, WithValid
<1>13. ASSUME NEW p \in Proc, Call(p)
       PROVE  UseIp(p)' /\ ofile'[p] = ofile[p]
  <2>1. PICK l \in Syscall : pc' = [pc EXCEPT ![p] = l]
    BY <1>13 DEF Call
  <2>2. l \in {"open", "create", "unlink", "link"}
    BY DEF Syscall
  <2>3. pc'[p] \notin WithIp /\ ofile' = ofile
    BY <1>13, <2>1, <2>2, Types DEF Call, WithIp
  <2> QED
    BY <1>6, <2>3
<1>14. ASSUME NEW p \in Proc, Ialloc(p) \/ NoInodes(p) \/ EndOp(p) \/ Put(p) \/ PutFreed(p)
       PROVE  UseIp(p)' /\ ofile'[p] = ofile[p]
  <2>1. pc'[p] \notin WithIp /\ ofile' = ofile
    BY <1>14, Types DEF Ialloc, NoInodes, EndOp, Put, PutFreed, Unref, WithIp
  <2> QED
    BY <1>6, <2>1
<1>15. ASSUME NEW p \in Proc, Writes(p)
       PROVE  ofile'[p] = ofile[p]
  BY <1>15 DEF Writes, OpenLock, UnlinkErase, CreateInit, CreateFails, LinkCount, LinkUndo,
               UnlinkCount
<1>16. ASSUME Crash
       PROVE  UseInv'
  BY <1>16 DEF Crash, UseInv, WithIp, WithValid
<1> HIDE DEF UseIp, UseFile
<1>17. ASSUME NEW p \in Proc, Act(p)
       PROVE  UseIp(p)' /\ UseFile(p)'
  BY <1>17, <1>2, <1>4, <1>7, <1>8, <1>9, <1>10, <1>11, <1>12, <1>13, <1>14, <1>15
  DEF Act, Step, OpenStep, CreateStep, UnlinkStep, LinkStep, PutStep, Writes
<1> QED
  BY <1>3, <1>16, <1>17 DEF Work, Act

-----------------------------------------------------------------------------
(* Inodes that are freed, and given away again.                            *)

\* An entry with one reference, which q has, is as it was after a step of p,
\* unless p begins to use it.
LEMMA Alone ==
  ASSUME IInv, NEW p \in Proc, Act(p), NEW q \in Proc, q # p,
         ip[q] # 0, inode[ip[q]].ref = 1,
         \A i \in Inum : ~Get(p, i, ip[q])
  PROVE  inode'[ip[q]] = inode[ip[q]]
<1> DEFINE s == ip[q]
<1>f. inode \in [Slot -> [inum : 0..NINODES, ref : Nat, valid : {0, 1},
                          type : {0, T_FILE}, nlink : Nat]] /\ s \in Slot
  BY Types
<1>1. ip[p] # s
  BY <1>f, UsersFacts DEF IInv
<1>2. CASE Writes(p) \/ Free(p)
  <2>1. pc[p] \in WithIp /\ \E k, t : Wrote(p, k, t)
    BY <1>2, DiskSteps DEF Free, WithIp
  <2> QED
    BY <1>f, <1>1, <2>1, Here DEF Wrote
<1>3. CASE Freed(p)
  BY <1>f, <1>1, <1>3, Here DEF Freed, WithIp
<1>4. CASE Leave(p)
  BY <1>f, <1>1, <1>4, Here DEF Leave, WithIp
<1>5. ASSUME NEW i \in Inum, NEW t \in Slot, Get(p, i, t)
      PROVE  inode'[s] = inode[s]
  BY <1>f, <1>5 DEF Get, IgetAt
<1> QED
  BY <1>2, <1>3, <1>4, <1>5, TableSteps DEF ToFile, FromFile

\* An inode that somebody is freeing has no names, and its entry no other users
\* than those that have just allocated it again.
LEMMA Freeing ==
  ASSUME IInv, NEW q \in Proc, pc[q] \in {"free", "freed"}
  PROVE  /\ \A n \in Name : dir[n] # inode[ip[q]].inum
         /\ \A r \in Proc : ofile[r] # ip[q]
         /\ \A r \in Proc : ip[r] = ip[q] /\ r # q => pc[q] = "freed" /\ pc[r] = "init"
         /\ lock[ip[q]] = q
         /\ pc[q] = "free" => inode[ip[q]].ref = 1
<1>1. ip[q] \in Slot /\ inode[ip[q]].inum \in Inum /\ lock[ip[q]] = q
  BY Here DEF IInv, LockInv, WithIp, WithLock
<1>2. CASE pc[q] = "free"
  <2>1. inode[ip[q]].ref = 1 /\ inode[ip[q]].valid = 1 /\ inode[ip[q]].nlink = 0
    BY <1>2 DEF IInv, FreeInv, MustFree
  <2>2. inode[ip[q]] = Entry(ip[q])
    BY <1>2, <2>1, LoadedFacts DEF WithIp
  <2>3. din[inode[ip[q]].inum].nlink = 0
    BY <2>1, <2>2 DEF Entry
  <2>4. \A n \in Name : dir[n] # inode[ip[q]].inum
    BY <1>1, <2>3, LinkFacts
  <2>5. \A r \in Proc : ofile[r] # ip[q] /\ (r # q => ip[r] # ip[q])
    BY <1>1, <2>1, UsersFacts DEF IInv
  <2> QED
    BY <1>1, <2>1, <2>4, <2>5
<1>3. CASE pc[q] = "freed"
  BY <1>1, <1>3 DEF IInv, FreeInv
<1> QED
  BY <1>2, <1>3

\* Whoever has the inode of another in a table is at the same entry.
LEMMA SameEntry ==
  ASSUME IInv, NEW p \in Proc, NEW q \in Proc, ip[q] # 0
  PROVE  /\ ip[p] # 0 /\ inode[ip[p]].inum = inode[ip[q]].inum => ip[p] = ip[q]
         /\ ofile[p] # 0 /\ inode[ofile[p]].inum = inode[ip[q]].inum => ofile[p] = ip[q]
<1>0. inode \in [Slot -> [inum : 0..NINODES, ref : Nat, valid : {0, 1},
                          type : {0, T_FILE}, nlink : Nat]]
  BY Types
<1>1. ip[q] \in Slot /\ inode[ip[q]].ref > 0
  BY <1>0, Here, Types
<1>2. ip[p] # 0 => ip[p] \in Slot /\ inode[ip[p]].ref > 0
  BY <1>0, Here, Types
<1>3. ofile[p] # 0 => ofile[p] \in Slot /\ inode[ofile[p]].ref > 0
  BY <1>0, Open
<1> QED
  BY <1>1, <1>2, <1>3, Apart

LEMMA FreeStep == ASSUME IInv, Work PROVE FreeInv'
<1>t. inode \in [Slot -> [inum : 0..NINODES, ref : Nat, valid : {0, 1},
                          type : {0, T_FILE}, nlink : Nat]]
  BY Types
<1>u. \A q \in Proc : pc[q] \in WithIp => ip[q] \in Slot /\ ip[q] # 0
  BY Types
<1> DEFINE Free1(q) == pc[q] = "free" => MustFree(ip[q])
           Free2(q) ==
             pc[q] = "freed" =>
               /\ inode[ip[q]].type = 0 /\ inode[ip[q]].nlink = 0
               /\ \A n \in Name : dir[n] # inode[ip[q]].inum
               /\ \A r \in Proc : /\ ofile[r] # ip[q]
                                  /\ ip[r] = ip[q] /\ r # q => pc[r] = "init"
<1>c. FreeInv' <=> \A q \in Proc : Free1(q)' /\ Free2(q)'
  BY DEF FreeInv
<1>0. \A q \in Proc : Free1(q) /\ Free2(q)
  BY DEF IInv, FreeInv
\* Nobody else gets the entry of an inode that is being freed, but by ialloc().
<1>g. ASSUME NEW p \in Proc, Act(p), NEW q \in Proc, pc[q] \in {"free", "freed"},
             NEW i \in Inum, Get(p, i, ip[q])
      PROVE  pc[q] = "freed" /\ pc'[p] = "init"
  <2>1. ip[q] \in Slot /\ inode[ip[q]].ref > 0
    BY <1>g, <1>t, Here DEF WithIp
  <2>2. inode[ip[q]].inum = i
    BY <1>g, <2>1 DEF Get, IgetAt
  <2>3. ~\E n \in Name : dir[n] = i
    BY <1>g, <2>2, Freeing
  <2>4. pc[p] = "iget" /\ inum[p] = i /\ pc'[p] = "init"
    BY <1>g, <2>3 DEF Get
  <2>5. pc[q] # "free"
    <3>1. Fresh(p, i)
      BY <2>4 DEF IInv, FreshInv
    <3> QED
      BY <1>g, <1>u, <2>2, <2>4, <3>1 DEF Fresh, WithIp
  <2> QED
    BY <1>g, <2>4, <2>5
<1>1. ASSUME NEW p \in Proc, Act(p), NEW q \in Proc, q # p
      PROVE  Free1(q)'
  <2>0. pc'[q] = pc[q] /\ ip'[q] = ip[q]
    BY <1>1, Others
  <2>1. ASSUME pc[q] = "free"
        PROVE  inode'[ip[q]] = inode[ip[q]]
    <3>1. ip[q] \in Slot /\ ip[q] # 0 /\ inode[ip[q]].ref = 1
      BY <2>1, <1>u, Freeing DEF WithIp
    <3>2. \A i \in Inum : ~Get(p, i, ip[q])
      BY <1>1, <1>g, <2>1
    <3> QED
      BY <1>1, <3>1, <3>2, Alone
  <2>2. pc[q] = "free" => MustFree(ip[q])
    BY DEF IInv, FreeInv
  <2> QED
    BY <2>0, <2>1, <2>2 DEF MustFree
<1>2. ASSUME NEW p \in Proc, Act(p), NEW q \in Proc, q # p
      PROVE  Free2(q)'
  <2>0. pc'[q] = pc[q] /\ ip'[q] = ip[q]
    BY <1>2, Others
  <2> SUFFICES ASSUME pc[q] = "freed"
               PROVE  /\ inode'[ip[q]].type = 0 /\ inode'[ip[q]].nlink = 0
                      /\ \A n \in Name : dir'[n] # inode'[ip[q]].inum
                      /\ \A r \in Proc : /\ ofile'[r] # ip[q]
                                         /\ ip'[r] = ip[q] /\ r # q => pc'[r] = "init"
    BY <2>0
  <2> DEFINE s == ip[q]
             i == inode[s].inum
  <2>1. /\ s \in Slot /\ s # 0 /\ i \in Inum /\ inode'[s].inum = i
        /\ lock[s] = q
        /\ \A n \in Name : dir[n] # i
        /\ \A r \in Proc : ofile[r] # s
        /\ \A r \in Proc : ip[r] = s /\ r # q => pc[r] = "init"
    BY <1>2, <1>u, Freeing, OthersInode, <2>0, Here DEF WithIp
  \* p cannot go on if it has the same entry.
  <2>2. ip[p] # s
    <3> SUFFICES ASSUME ip[p] = s PROVE FALSE
      OBVIOUS
    <3>1. pc[p] = "init"
      BY <1>2, <2>1
    <3>2. CreateInit(p)
      BY <1>2, <3>1, InodesAssumption
      DEF Act, Step, Call, Close, OpenStep, CreateStep, UnlinkStep, LinkStep, PutStep,
          Namei, OpenLock, Opened, OpenFails, Create, Ialloc, NoInodes, IallocGet, CreateLink,
          CreateFails, UnlinkLookup, UnlinkErase, UnlinkCount, LinkCount, LinkDir,
          LinkFails, LinkUndo, Put, PutLast, Free, Freed, PutFreed, EndOp
    <3> QED
      BY <2>1, <3>2, InodesAssumption DEF CreateInit, Acquire
  <2>3. pc[p] \in WithIp => inode[ip[p]].inum # i
    BY <1>u, <2>1, <2>2, SameEntry
  <2>4. \A n \in Name : dir'[n] # i
    <3>1. dir' = dir \/ (pc[p] \in WithIp /\ \E n : dir' = [dir EXCEPT ![n] = inode[ip[p]].inum])
                     \/ \E n : dir' = [dir EXCEPT ![n] = 0]
      BY <1>2
      DEF Act, Step, Call, Close, OpenStep, CreateStep, UnlinkStep, LinkStep, PutStep,
          Namei, OpenLock, Opened, OpenFails, Create, Ialloc, NoInodes, IallocGet, CreateInit,
          CreateLink, CreateFails, UnlinkLookup, UnlinkErase, UnlinkCount, LinkCount, LinkDir,
          LinkFails, LinkUndo, Put, PutLast, Free, Freed, PutFreed, EndOp, diskVars, WithIp
    <3>2. 0 # i
      BY <2>1 DEF Inum
    <3> HIDE DEF i
    <3> QED
      BY <2>1, <2>3, <3>1, <3>2, Types
  <2> HIDE DEF s, i
  <2>5. inode'[s].type = inode[s].type /\ inode'[s].nlink = inode[s].nlink
    <3>1. CASE Writes(p) \/ Free(p)
      <4>1. pc[p] \in WithIp /\ \E k, t : Wrote(p, k, t)
        BY <3>1, DiskSteps, <1>2 DEF Free, WithIp
      <4> QED
        BY <1>t, <2>1, <2>2, <4>1, Here DEF Wrote
    <3>2. CASE Freed(p)
      BY <1>t, <2>1, <2>2, <3>2, Here DEF Freed, WithIp
    <3>3. CASE Leave(p)
      BY <1>t, <2>1, <2>2, <3>3, Here DEF Leave, WithIp
    <3>4. ASSUME NEW j \in Inum, NEW t \in Slot, Get(p, j, t)
          PROVE  inode'[s].type = inode[s].type /\ inode'[s].nlink = inode[s].nlink
      BY <1>t, <2>1, <3>4 DEF Get, IgetAt
    <3> QED
      BY <1>2, <3>1, <3>2, <3>3, <3>4, TableSteps DEF ToFile, FromFile
  <2>6. \A r \in Proc : ofile'[r] # s
    BY <1>2, <2>1, <2>2, Others, Types, TableSteps DEF SameUsers, Get, ToFile, FromFile, Leave
  <2>7. ip'[p] = s => pc'[p] = "init"
    <3>1. ASSUME NEW j \in Inum, NEW t \in Slot, Get(p, j, t), ip'[p] = s
          PROVE  pc'[p] = "init"
      <4>1. t = s
        BY <3>1, Types DEF Get, IgetAt
      <4> QED
        BY <1>2, <1>g, <3>1, <4>1 DEF s
    <3> QED
      BY <1>2, <2>1, <2>2, <3>1, Types, TableSteps DEF SameUsers, ToFile, FromFile, Leave
  <2>8. \A r \in Proc : ip'[r] = s /\ r # q => pc'[r] = "init"
    BY <1>2, <2>1, <2>7, Others
  <2> QED
    BY <1>0, <2>1, <2>4, <2>5, <2>6, <2>8 DEF s, i
\* The process that goes on.
<1>3. ASSUME NEW p \in Proc, pc'[p] \notin {"free", "freed"}
      PROVE  Free1(p)' /\ Free2(p)'
  BY <1>3
<1>4. ASSUME NEW p \in Proc, PutLast(p)
      PROVE  Free1(p)' /\ Free2(p)'
  <2>1. pc'[p] = "free" /\ ip' = ip /\ inode' = inode /\ MustFree(ip[p])
    BY <1>4, Types DEF PutLast, Goto
  <2> QED
    BY <2>1 DEF MustFree
<1>5. ASSUME NEW p \in Proc, Act(p), Free(p)
      PROVE  Free1(p)' /\ Free2(p)'
  <2>1. /\ pc[p] = "free" /\ pc'[p] = "freed"
        /\ ip' = ip /\ ofile' = ofile /\ dir' = dir
    BY <1>5, Types DEF Free, Goto
  <2>2. ip[p] \in Slot
    BY <1>u, <2>1 DEF WithIp
  <2>3. inode'[ip[p]].type = 0 /\ inode'[ip[p]].nlink = 0 /\ inode'[ip[p]].inum = inode[ip[p]].inum
    <3>1. Wrote(p, 0, 0)
      BY <1>5, DiskSteps
    <3> QED
      BY <1>t, <2>2, <3>1 DEF Wrote
  <2> QED
    BY <2>1, <2>3, Freeing
<1>6. ASSUME NEW p \in Proc, Act(p), ~PutLast(p), ~Free(p)
      PROVE  pc'[p] \notin {"free", "freed"}
  <2>1. CASE Call(p)
    <3>1. PICK l \in Syscall : pc' = [pc EXCEPT ![p] = l]
      BY <2>1 DEF Call
    <3>2. l \in {"open", "create", "unlink", "link"}
      BY DEF Syscall
    <3> QED
      BY <3>1, <3>2, Types
  <2>2. CASE ~Call(p)
    BY <1>6, <2>2, Types
    DEF Act, Step, Close, OpenStep, CreateStep, UnlinkStep, LinkStep, PutStep, Goto,
        Namei, OpenLock, Opened, OpenFails, Create, Ialloc, NoInodes, IallocGet, CreateInit,
        CreateLink, CreateFails, UnlinkLookup, UnlinkErase, UnlinkCount, LinkCount, LinkDir,
        LinkFails, LinkUndo, Put, Freed, PutFreed, Unref, EndOp
  <2> QED
    BY <2>1, <2>2
<1>7. ASSUME Crash
      PROVE  FreeInv'
  BY <1>7 DEF Crash, FreeInv
<1> HIDE DEF Free1, Free2
<1>8. ASSUME NEW p \in Proc, Act(p)
      PROVE  Free1(p)' /\ Free2(p)'
  BY <1>3, <1>4, <1>5, <1>6, <1>8
<1> QED
  BY <1>1, <1>2, <1>7, <1>8, <1>c DEF Work, Act

LEMMA FreshStep == ASSUME IInv, Work PROVE FreshInv'
<1>f. FreshInv /\ DirInv /\ NoProc \notin Proc
  BY Types DEF IInv
<1>t. inode \in [Slot -> [inum : 0..NINODES, ref : Nat, valid : {0, 1},
                          type : {0, T_FILE}, nlink : Nat]]
  BY Types
<1>u. \A q \in Proc : pc[q] \in WithIp <=> ip[q] # 0
  BY Types
<1> DEFINE Fresh1(q) == pc[q] = "iget" => din[inum[q]].type # 0 /\ Fresh(q, inum[q])
           Fresh2(q) == pc[q] \in {"init", "dirlink"} => Fresh(q, inode[ip[q]].inum)
<1>c. FreshInv' <=> \A q \in Proc : Fresh1(q)' /\ Fresh2(q)'
  BY DEF FreshInv
\* A new inode stays unknown to the others.
<1>1. ASSUME NEW p \in Proc, Act(p), NEW q \in Proc, q # p, NEW i \in Inum, Fresh(q, i),
             pc[q] \in {"iget", "init", "dirlink"}
      PROVE  Fresh(q, i)'
  <2>0. /\ pc'[q] = pc[q] /\ ip'[q] = ip[q] /\ ofile'[q] = ofile[q]
        /\ ip[q] # 0 => inode'[ip[q]].inum = inode[ip[q]].inum
        /\ ofile[q] # 0 => inode'[ofile[q]].inum = inode[ofile[q]].inum
    BY <1>1, Others, OthersInode
  <2>1. dlock = q
    BY <1>1, <1>f DEF DirInv, WithDir
  \* What p has is another inode, or p has freed it.
  <2>2. /\ ip[p] # 0 /\ inode[ip[p]].inum = i => pc[p] \in {"freed", "unref"}
        /\ ofile[p] # 0 => inode[ofile[p]].inum # i
        /\ \A n \in Name : dir[n] # i
    BY <1>1 DEF Fresh
  <2>3. \A n \in Name : dir'[n] # i
    <3>1. \/ dir' = dir
          \/ /\ pc[p] \in WithIp \ {"freed", "unref"}
             /\ \E n : dir' = [dir EXCEPT ![n] = inode[ip[p]].inum]
          \/ \E n : dir' = [dir EXCEPT ![n] = 0]
      BY <1>1
      DEF Act, Step, Call, Close, OpenStep, CreateStep, UnlinkStep, LinkStep, PutStep,
          Namei, OpenLock, Opened, OpenFails, Create, Ialloc, NoInodes, IallocGet, CreateInit,
          CreateLink, CreateFails, UnlinkLookup, UnlinkErase, UnlinkCount, LinkCount, LinkDir,
          LinkFails, LinkUndo, Put, PutLast, Free, Freed, PutFreed, EndOp, diskVars, WithIp
    <3>2. 0 # i
      BY DEF Inum
    <3> QED
      BY <1>u, <2>2, <3>1, <3>2, Types
  <2>4. /\ ip'[p] # 0 /\ inode'[ip'[p]].inum = i => pc'[p] \in {"freed", "unref"}
        /\ ofile'[p] # 0 => inode'[ofile'[p]].inum # i
    <3>1. CASE SameUsers
      <4>1. /\ ip' = ip /\ ofile' = ofile
            /\ ip[p] # 0 => inode'[ip[p]].inum = inode[ip[p]].inum
            /\ ofile[p] # 0 => inode'[ofile[p]].inum = inode[ofile[p]].inum
        BY <3>1, Types DEF SameUsers
      <4>2. pc[p] \in {"freed", "unref"} /\ ip' = ip => pc'[p] \in {"freed", "unref"}
        BY <1>1, Types
        DEF Act, Step, Call, Close, OpenStep, CreateStep, UnlinkStep, LinkStep, PutStep, Goto,
            Namei, OpenLock, Opened, OpenFails, Create, Ialloc, NoInodes, IallocGet, CreateInit,
            CreateLink, CreateFails, UnlinkLookup, UnlinkErase, UnlinkCount, LinkCount, LinkDir,
            LinkFails, LinkUndo, Put, PutLast, Free, Freed, PutFreed, Unref, EndOp, WithIp
      <4> QED
        BY <2>2, <4>1, <4>2
    <3>2. ASSUME NEW j \in Inum, NEW s \in Slot, Get(p, j, s)
          PROVE  /\ inode'[ip'[p]].inum # i
                 /\ ofile'[p] # 0 => inode'[ofile'[p]].inum # i
      <4>1. ip'[p] = s /\ ofile' = ofile /\ inode'[s].inum = j
        BY <3>2, Types DEF Get, IgetAt
      <4>2. j # i
        <5>1. pc[p] # "iget"
          BY <1>1, <1>f, <2>1 DEF DirInv, WithDir
        <5> QED
          BY <2>2, <3>2, <5>1 DEF Get
      <4>3. ofile[p] # 0 => inode'[ofile[p]].inum # i
        BY <1>1, <2>2, <4>1, SameInode
      <4> QED
        BY <4>1, <4>2, <4>3
    <3>3. CASE ToFile(p)
      <4>1. /\ ip'[p] = 0 /\ ofile'[p] = ip[p] /\ inode' = inode /\ ip[p] # 0
        BY <3>3, Types DEF ToFile
      <4>2. pc[p] \notin {"freed", "unref"}
        <5>1. ofile' # ofile
          BY <3>3, Types DEF ToFile
        <5> QED
          BY <1>1, <5>1
          DEF Act, Step, Call, Close, OpenStep, CreateStep, UnlinkStep, LinkStep, PutStep,
              Namei, OpenLock, Opened, OpenFails, Create, Ialloc, NoInodes, IallocGet, CreateInit,
              CreateLink, CreateFails, UnlinkLookup, UnlinkErase, UnlinkCount, LinkCount, LinkDir,
              LinkFails, LinkUndo, Put, PutLast, Free, Freed, PutFreed, EndOp, tableVars
      <4> QED
        BY <2>2, <4>1, <4>2
    <3>4. CASE FromFile(p)
      BY <2>2, <3>4, Types DEF FromFile
    <3>5. CASE Leave(p)
      <4>1. ip'[p] = 0 /\ ofile' = ofile
        BY <3>5, Types DEF Leave
      <4> QED
        BY <1>1, <2>2, <4>1, SameInode
    <3> QED
      BY <1>1, <3>1, <3>2, <3>3, <3>4, <3>5, TableSteps
  <2>5. ASSUME NEW r \in Proc, r # p
        PROVE  /\ ofile'[r] # 0 => inode'[ofile'[r]].inum # i
               /\ r # q /\ ip'[r] # 0 /\ inode'[ip'[r]].inum = i => pc'[r] \in {"freed", "unref"}
    <3>1. /\ pc'[r] = pc[r] /\ ip'[r] = ip[r] /\ ofile'[r] = ofile[r]
          /\ ip[r] # 0 => inode'[ip[r]].inum = inode[ip[r]].inum
          /\ ofile[r] # 0 => inode'[ofile[r]].inum = inode[ofile[r]].inum
      BY <1>1, <2>5, Others, OthersInode
    <3> QED
      BY <1>1, <3>1 DEF Fresh
  <2> QED
    BY <2>3, <2>4, <2>5 DEF Fresh
<1>2. ASSUME NEW p \in Proc, Act(p), NEW q \in Proc, q # p
      PROVE  Fresh1(q)' /\ Fresh2(q)'
  <2>0. /\ pc'[q] = pc[q] /\ ip'[q] = ip[q] /\ inum'[q] = inum[q]
        /\ ip[q] # 0 => inode'[ip[q]].inum = inode[ip[q]].inum
    BY <1>2, Others, OthersInode
  <2>1. ASSUME pc[q] = "iget"
        PROVE  din'[inum[q]].type # 0 /\ Fresh(q, inum[q])'
    <3>1. inum[q] \in Inum /\ din[inum[q]].type # 0 /\ Fresh(q, inum[q])
      BY <2>1, <1>f DEF FreshInv, IInv, ControlInv
    <3>2. ASSUME NEW i \in Inum, i = inum[q] PROVE Fresh(q, i)'
      BY <1>1, <1>2, <2>1, <3>1, <3>2
    <3>3. Fresh(q, inum[q])'
      BY <2>0, <3>1, <3>2 DEF Fresh
    <3>4. CASE Writes(p)
      <4>1. PICK k \in Nat : Wrote(p, k, T_FILE)
        BY <1>2, <3>4, DiskSteps
      <4>2. T_FILE # 0
        BY DEF T_FILE
      <4>3. pc[p] \in WithIp
        BY <1>2, <3>4, DiskSteps
      <4> QED
        BY <3>1, <3>3, <4>1, <4>2, <4>3, Here, Types DEF Wrote
    <3>5. CASE Free(p)
      <4>1. Wrote(p, 0, 0) /\ pc[p] = "free"
        BY <1>2, <3>5, DiskSteps DEF Free
      <4>2. inode[ip[p]].inum # inum[q] /\ inode[ip[p]].inum \in Inum
        BY <1>2, <1>u, <3>1, <4>1, Here DEF Fresh, WithIp
      <4> QED
        BY <3>1, <3>3, <4>1, <4>2, Types DEF Wrote
    <3>6. CASE Ialloc(p)
      <4>1. T_FILE # 0
        BY DEF T_FILE
      <4> QED
        BY <3>1, <3>3, <3>6, <4>1, Types DEF Ialloc
    <3>7. CASE din' = din
      BY <3>1, <3>3, <3>7
    <3> QED
      BY <1>2, <3>4, <3>5, <3>6, <3>7, DiskSteps
  <2>2. ASSUME pc[q] \in {"init", "dirlink"}
        PROVE  Fresh2(q)'
    <3>1. inode[ip[q]].inum \in Inum /\ Fresh(q, inode[ip[q]].inum) /\ ip[q] # 0
      BY <2>2, <1>f, <1>u, Here DEF FreshInv, WithIp
    <3>2. ASSUME NEW i \in Inum, i = inode[ip[q]].inum PROVE Fresh(q, i)'
      BY <1>1, <1>2, <2>2, <3>1, <3>2
    <3>3. Fresh(q, inode[ip[q]].inum)'
      BY <2>0, <3>1, <3>2 DEF Fresh
    <3> QED
      BY <3>3
  <2> QED
    BY <2>0, <2>1, <2>2
\* The process that goes on.
<1>3. ASSUME NEW p \in Proc, Act(p), Ialloc(p)
      PROVE  Fresh1(p)' /\ Fresh2(p)'
  <2>0. /\ pc[p] = "ialloc" /\ inum[p] \in Inum /\ dir' = dir
        /\ inode' = inode /\ ip' = ip /\ ofile' = ofile
    BY <1>3 DEF Ialloc, tableVars
  <2>1. CASE din[inum[p]].type # 0
    BY <1>3, <2>0, <2>1 DEF Ialloc
  <2>2. CASE din[inum[p]].type = 0
    <3>1. /\ din' = [din EXCEPT ![inum[p]] = [type |-> T_FILE, nlink |-> 0]]
          /\ pc' = [pc EXCEPT ![p] = "iget"] /\ inum' = inum
      BY <1>3, <2>2 DEF Ialloc, Goto
    <3>2. din'[inum'[p]].type # 0
      <4>1. T_FILE # 0
        BY DEF T_FILE
      <4> QED
        BY <2>0, <3>1, <4>1, Types
    <3>3. \A n \in Name : dir'[n] # inum[p]
      BY <2>0, <2>2, LinkFacts
    <3>4. \A r \in Proc : ofile[r] # 0 => inode[ofile[r]].inum # inum[p]
      BY <2>2 DEF IInv, UseInv
    <3>5. \A r \in Proc : r # p /\ ip[r] # 0 /\ inode[ip[r]].inum = inum[p]
                           => pc[r] \in {"freed", "unref"}
      BY <2>2, <1>u DEF IInv, UseInv
    <3>6. Fresh(p, inum[p])'
      BY <2>0, <3>1, <3>3, <3>4, <3>5, Types DEF Fresh
    <3> QED
      BY <3>1, <3>2, <3>6, Types
  <2> QED
    BY <2>1, <2>2
<1>4. ASSUME NEW p \in Proc, Act(p), NEW i \in Inum, Fresh(p, i), dir' = dir, ofile' = ofile,
             pc'[p] \in {"init", "dirlink"}, inode'[ip'[p]].inum = i
      PROVE  Fresh1(p)' /\ Fresh2(p)'
  <2>1. \A n \in Name : dir'[n] # i
    BY <1>4 DEF Fresh
  <2>2. \A r \in Proc : ofile'[r] # 0 => inode'[ofile'[r]].inum # i
    BY <1>4, SameInode DEF Fresh
  <2>3. ASSUME NEW r \in Proc, r # p, ip'[r] # 0, inode'[ip'[r]].inum = i
        PROVE  pc'[r] \in {"freed", "unref"}
    <3>1. pc'[r] = pc[r] /\ ip'[r] = ip[r] /\ inode'[ip[r]].inum = inode[ip[r]].inum
      BY <1>4, <2>3, Others, OthersInode
    <3> QED
      BY <1>4, <2>3, <3>1 DEF Fresh
  <2>4. Fresh(p, inode[ip[p]].inum)'
    BY <1>4, <2>1, <2>2, <2>3 DEF Fresh
  <2> QED
    BY <1>4, <2>4
<1>5. ASSUME NEW p \in Proc, Act(p), IallocGet(p)
      PROVE  Fresh1(p)' /\ Fresh2(p)'
  <2>1. inum[p] \in Inum /\ Fresh(p, inum[p])
    BY <1>5, <1>f DEF IallocGet, FreshInv, IInv, ControlInv
  <2>2. PICK s \in Slot : IgetAt(p, inum[p], s)
    BY <1>5, <2>1, IgetFacts DEF IallocGet, IInv
  <2>3. inode'[ip'[p]].inum = inum[p]
    BY <2>2, Types DEF IgetAt
  <2> QED
    BY <1>4, <1>5, <2>1, <2>3, Types DEF IallocGet, Goto, diskVars
<1>6. ASSUME NEW p \in Proc, Act(p), CreateInit(p)
      PROVE  Fresh1(p)' /\ Fresh2(p)'
  <2>1. pc[p] = "init" /\ pc'[p] = "dirlink" /\ ip' = ip /\ ofile' = ofile /\ dir' = dir
    BY <1>6, Types DEF CreateInit, Goto
  <2>2. ip[p] # 0 /\ inode[ip[p]].inum \in Inum /\ Fresh(p, inode[ip[p]].inum)
    BY <1>f, <1>u, <2>1, Here DEF FreshInv, WithIp
  <2>3. inode'[ip'[p]].inum = inode[ip[p]].inum
    BY <1>6, <2>1, <2>2, SameInode
  <2> QED
    BY <1>4, <1>6, <2>1, <2>2, <2>3
<1>7. ASSUME NEW p \in Proc, Act(p), ~Ialloc(p), ~IallocGet(p), ~CreateInit(p)
      PROVE  Fresh1(p)' /\ Fresh2(p)'
  <2>1. CASE Call(p)
    <3>1. PICK l \in Syscall : pc' = [pc EXCEPT ![p] = l]
      BY <2>1 DEF Call
    <3>2. l \in {"open", "create", "unlink", "link"}
      BY DEF Syscall
    <3> QED
      BY <3>1, <3>2, Types
  <2>2. CASE ~Call(p)
    <3>1. pc'[p] \notin {"iget", "init", "dirlink"}
      BY <1>7, <2>2, Types
      DEF Act, Step, Close, OpenStep, CreateStep, UnlinkStep, LinkStep, PutStep, Goto,
          Namei, OpenLock, Opened, OpenFails, Create, NoInodes,
          CreateLink, CreateFails, UnlinkLookup, UnlinkErase, UnlinkCount, LinkCount, LinkDir,
          LinkFails, LinkUndo, Put, PutLast, Free, Freed, PutFreed, Unref, EndOp
    <3> QED
      BY <3>1
  <2> QED
    BY <2>1, <2>2
<1>8. ASSUME Crash
      PROVE  FreshInv'
  BY <1>8 DEF Crash, FreshInv
<1> HIDE DEF Fresh1, Fresh2
<1>9. ASSUME NEW p \in Proc, Act(p)
      PROVE  Fresh1(p)' /\ Fresh2(p)'
  BY <1>3, <1>5, <1>6, <1>7, <1>9
<1> QED
  BY <1>2, <1>8, <1>9, <1>c DEF Work, Act

\* Somebody else keeps the inode when p gives up an entry that it must not free.
LEMMA OthersKeep ==
  ASSUME IInv, NEW p \in Proc, pc[p] \in {"put", "unref"}, inode[ip[p]].valid = 1, ~MustFree(ip[p])
  PROVE  LET i == inode[ip[p]].inum IN
         \/ \E n \in Name : dir[n] = i
         \/ \E q \in Proc : ofile[q] # 0 /\ inode[ofile[q]].inum = i
         \/ \E q \in Proc : /\ q # p /\ ip[q] # 0 /\ inode[ip[q]].inum = i
                            /\ pc[q] # "freed" /\ (pc[q] = "unref" => inode[ip[q]].valid = 1)
<1> DEFINE s == ip[p]
           i == inode[s].inum
<1>1. s \in Slot /\ s # 0 /\ i \in Inum /\ inode[s].ref >= 1
  BY Here, Types DEF WithIp, Slot
<1>2. inode[s] \in [inum : 0..NINODES, ref : Nat, valid : {0, 1}, type : {0, T_FILE}, nlink : Nat]
  BY <1>1, Types
<1>3. \A q \in Proc : pc[q] = "freed" => ip[q] # s
  BY DEF IInv, FreeInv
<1>4. CASE inode[s].ref > 1
  <2>1. Users(s) > 1 /\ Users(s) = At(Proc, ip, s) + At(Proc, ofile, s)
    BY <1>1, <1>4 DEF IInv, RefsExact, Users, At
  <2>2. CASE \E q \in Proc : ofile[q] = s
    BY <1>1, <2>2
  <2>3. CASE \A q \in Proc : ofile[q] # s
    <3>1. At(Proc, ofile, s) = 0
      BY <2>3, AtNat, InodesAssumption
    <3>2. \E q \in Proc : q # p /\ ip[q] = s
      <4> SUFFICES ASSUME \A q \in Proc : q # p => ip[q] # s PROVE FALSE
        OBVIOUS
      <4>1. {q \in Proc : ip[q] = s} = {p}
        OBVIOUS
      <4>2. At(Proc, ip, s) = 1
        BY <4>1, FS_Singleton DEF At
      <4> HIDE DEF s
      <4> QED
        BY <2>1, <3>1, <4>2
    <3>3. PICK q \in Proc : q # p /\ ip[q] = s
      BY <3>2
    <3> QED
      BY <1>1, <1>3, <3>3
  <2> QED
    BY <2>2, <2>3
<1>5. CASE inode[s].nlink # 0
  <2>1. CacheInv /\ inode[s].ref > 0
    BY <1>1, <1>2 DEF IInv
  <2>2. din[i].nlink = inode[s].nlink
    <3>1. din[i] = [type |-> inode[s].type, nlink |-> inode[s].nlink]
      BY <1>1, <1>3, <2>1 DEF CacheInv
    <3> QED
      BY <3>1
  <2>3. At(Name, dir, i) # 0 \/ Unsettled(i) # 0
    <3>1. din[i].nlink = At(Name, dir, i) + Unsettled(i)
      BY <1>1 DEF IInv, LinksExact, At
    <3> HIDE DEF i, s
    <3> QED
      BY <1>5, <2>2, <3>1
  <2>4. CASE At(Name, dir, i) # 0
    <3>1. \E n \in Name : dir[n] = i
      BY <2>4, AtNat, InodesAssumption
    <3> QED
      BY <3>1
  <2>5. CASE Unsettled(i) # 0
    <3> DEFINE U == {q \in Proc : ip[q] # 0 /\ inode[ip[q]].inum = i
                                  /\ pc[q] \in {"dirlink", "link_dir", "undo", "uncount"}}
    <3>1. U # {}
      BY <2>5, FS_EmptySet DEF Unsettled
    <3>2. PICK q \in U : TRUE
      BY <3>1
    <3> QED
      BY <3>2
  <2> QED
    BY <2>3, <2>4, <2>5
<1> QED
  BY <1>1, <1>2, <1>4, <1>5 DEF MustFree

LEMMA KeptStep == ASSUME IInv, Work PROVE KeptInv'
<1>t. inode \in [Slot -> [inum : 0..NINODES, ref : Nat, valid : {0, 1},
                          type : {0, T_FILE}, nlink : Nat]]
  BY Types
<1>u. \A q \in Proc : /\ pc[q] \in WithIp <=> ip[q] # 0
                      /\ ip[q] # 0 => ip[q] \in Slot
                      /\ ofile[q] # 0 => ofile[q] \in Slot
  BY Types
<1>1. ASSUME Crash
      PROVE  KeptInv'
  <2>1. /\ dir' = committed.dir /\ din' = committed.din /\ lost' = Unnamed(committed)
    BY <1>1 DEF Crash
  <2> QED
    BY <2>1 DEF KeptInv, Kept, Unnamed
<1> DEFINE KeptBy(q, i) ==
             \/ pc[q] = "iget" /\ inum[q] = i
             \/ ofile[q] # 0 /\ inode[ofile[q]].inum = i
             \/ /\ ip[q] # 0 /\ inode[ip[q]].inum = i
                /\ pc[q] # "freed" /\ (pc[q] = "unref" => inode[ip[q]].valid = 1)
<1>k. ASSUME NEW i \in Inum
      PROVE  Kept(i) <=> \/ i \in lost
                         \/ \E n \in Name : dir[n] = i
                         \/ \E q \in Proc : KeptBy(q, i)
  BY DEF Kept
<1>l. ASSUME NEW i \in Inum
      PROVE  Kept(i)' <=> \/ i \in lost'
                          \/ \E n \in Name : dir'[n] = i
                          \/ \E q \in Proc : KeptBy(q, i)'
  BY DEF Kept
\* Another process goes on keeping what it keeps.
<1>2. ASSUME NEW p \in Proc, Act(p), NEW q \in Proc, q # p, NEW i \in Inum, KeptBy(q, i)
      PROVE  KeptBy(q, i)'
  <2>1. /\ pc'[q] = pc[q] /\ ip'[q] = ip[q] /\ ofile'[q] = ofile[q] /\ inum'[q] = inum[q]
        /\ ip[q] # 0 => inode'[ip[q]].inum = inode[ip[q]].inum
        /\ ofile[q] # 0 => inode'[ofile[q]].inum = inode[ofile[q]].inum
    BY <1>2, Others, OthersInode
  <2>2. ip[q] # 0 /\ pc[q] = "unref" /\ inode[ip[q]].valid = 1 => inode'[ip[q]].valid = 1
    BY <1>2, <1>u, Stays
  <2> QED
    BY <1>2, <2>1, <2>2
\* So does an open file that is not closed.
<1>3. ASSUME NEW p \in Proc, Act(p), ofile'[p] = ofile[p], NEW i \in Inum,
             ofile[p] # 0, inode[ofile[p]].inum = i
      PROVE  KeptBy(p, i)'
  BY <1>3, SameInode
\* What p keeps.
<1>4. ASSUME NEW p \in Proc, Act(p), NEW i \in Inum, pc[p] = "iget", inum[p] = i
      PROVE  KeptBy(p, i)'
  <2>1. IallocGet(p)
    BY <1>4
    DEF Act, Step, Call, Close, OpenStep, CreateStep, UnlinkStep, LinkStep, PutStep,
        Namei, OpenLock, Opened, OpenFails, Create, Ialloc, NoInodes, CreateInit, CreateLink,
        CreateFails, UnlinkLookup, UnlinkErase, UnlinkCount, LinkCount, LinkDir,
        LinkFails, LinkUndo, Put, PutLast, Free, Freed, PutFreed, EndOp
  <2>2. PICK s \in Slot : IgetAt(p, i, s)
    BY <1>4, <2>1, IgetFacts DEF IallocGet, IInv
  <2>3. ip'[p] = s /\ inode'[s].inum = i /\ pc'[p] = "init" /\ s # 0
    BY <2>1, <2>2, Types DEF IallocGet, Goto, IgetAt, Slot
  <2> QED
    BY <2>3
<1>5. ASSUME NEW p \in Proc, Act(p), NEW i \in Inum, ofile[p] # 0, inode[ofile[p]].inum = i
      PROVE  KeptBy(p, i)'
  <2>1. CASE ofile'[p] = ofile[p]
    BY <1>3, <1>5, <2>1
  <2>2. CASE ofile'[p] # ofile[p]
    <3>1. Close(p)
      BY <1>5, <2>2
      DEF Act, Step, Call, OpenStep, CreateStep, UnlinkStep, LinkStep, PutStep, CanAlloc,
          Namei, OpenLock, Opened, OpenFails, Create, Ialloc, NoInodes, IallocGet, CreateInit,
          CreateLink, CreateFails, UnlinkLookup, UnlinkErase, UnlinkCount, LinkCount, LinkDir,
          LinkFails, LinkUndo, Put, PutLast, Free, Freed, PutFreed, EndOp, tableVars
    <3>2. ip'[p] = ofile[p] /\ inode' = inode /\ pc'[p] = "put"
      BY <3>1, Types DEF Close, Goto
    <3> QED
      BY <1>5, <3>2
  <2> QED
    BY <2>1, <2>2
<1>6. ASSUME NEW p \in Proc, Act(p), NEW i \in Inum, Put(p) \/ PutFreed(p),
             ip[p] # 0, inode[ip[p]].inum = i, pc[p] = "unref" => inode[ip[p]].valid = 1
      PROVE  Kept(i)'
  <2>1. pc[p] \in {"put", "unref"} /\ dir' = dir /\ ofile' = ofile
    BY <1>6 DEF Put, PutFreed, diskVars
  <2>2. inode[ip[p]].valid = 1
    BY <1>6, <2>1 DEF IInv, UseInv, WithValid
  <2>3. CASE MustFree(ip[p])
    <3>1. i \in lost'
      BY <1>6, <2>3 DEF Put, PutFreed
    <3> QED
      BY <1>l, <3>1
  <2>4. CASE ~MustFree(ip[p])
    <3>1. \/ \E n \in Name : dir[n] = i
          \/ \E q \in Proc : ofile[q] # 0 /\ inode[ofile[q]].inum = i
          \/ \E q \in Proc : q # p /\ KeptBy(q, i)
      BY <1>6, <2>1, <2>2, <2>4, OthersKeep
    <3>2. ASSUME NEW q \in Proc, ofile[q] # 0, inode[ofile[q]].inum = i
          PROVE  KeptBy(q, i)'
      BY <1>2, <1>3, <1>6, <2>1, <3>2
    <3>3. ASSUME NEW q \in Proc, q # p, KeptBy(q, i)
          PROVE  KeptBy(q, i)'
      BY <1>2, <1>6, <3>3
    <3> HIDE DEF KeptBy
    <3> QED
      BY <1>l, <2>1, <3>1, <3>2, <3>3
  <2> QED
    BY <2>3, <2>4
<1>7. ASSUME NEW p \in Proc, Act(p), NEW i \in Inum, din'[i].type # 0,
             ip[p] # 0, inode[ip[p]].inum = i,
             pc[p] # "freed" /\ (pc[p] = "unref" => inode[ip[p]].valid = 1)
      PROVE  Kept(i)'
  <2>1. CASE Put(p) \/ PutFreed(p)
    BY <1>6, <1>7, <2>1
  <2>2. CASE Opened(p)
    <3>1. ofile'[p] = ip[p] /\ inode' = inode
      BY <2>2, Types DEF Opened
    <3>2. KeptBy(p, i)'
      BY <1>7, <3>1
    <3> HIDE DEF KeptBy
    <3> QED
      BY <1>l, <3>2
  <2>3. ~Free(p)
    <3> SUFFICES ASSUME Free(p) PROVE FALSE
      OBVIOUS
    <3>1. Wrote(p, 0, 0)
      BY <1>7, DiskSteps
    <3> QED
      BY <1>7, <3>1, Types DEF Wrote
  <2>4. CASE ~Put(p) /\ ~PutFreed(p) /\ ~Opened(p)
    <3>0. pc[p] \in WithIp \ {"freed"}
      BY <1>7, <1>u
    <3>1. ip'[p] = ip[p] /\ pc'[p] \notin {"freed", "unref"}
      BY <1>7, <2>3, <2>4, <3>0, Types
      DEF Act, Step, Call, Close, OpenStep, CreateStep, UnlinkStep, LinkStep, PutStep, Goto, WithIp,
          Namei, OpenLock, OpenFails, Create, Ialloc, NoInodes, IallocGet, CreateInit,
          CreateLink, CreateFails, UnlinkLookup, UnlinkErase, UnlinkCount, LinkCount, LinkDir,
          LinkFails, LinkUndo, PutLast, Freed, EndOp, tableVars
    <3>2. inode'[ip'[p]].inum = i
      BY <1>7, <3>1, SameInode
    <3>3. KeptBy(p, i)'
      BY <1>7, <3>1, <3>2
    <3> HIDE DEF KeptBy
    <3> QED
      BY <1>l, <3>3
  <2> QED
    BY <2>1, <2>2, <2>4
\* A name, which only unlink() takes away.
<1>8. ASSUME NEW p \in Proc, Act(p), NEW i \in Inum, NEW n \in Name, dir[n] = i
      PROVE  Kept(i)'
  <2>1. CASE dir'[n] = i
    BY <1>l, <2>1
  <2>2. CASE dir'[n] # i
    <3>1. dir[n] # 0
      BY <1>8 DEF Inum
    <3>2. pc[p] = "dirlink" => dir[name[p]] = 0
      BY DEF IInv, DirInv
    <3>3. UnlinkErase(p) /\ name[p] = n
      BY <1>8, <2>2, <3>1, <3>2, Types
      DEF Act, Step, Call, Close, OpenStep, CreateStep, UnlinkStep, LinkStep, PutStep, diskVars,
          Namei, OpenLock, Opened, OpenFails, Create, Ialloc, NoInodes, IallocGet, CreateInit,
          CreateLink, CreateFails, UnlinkLookup, UnlinkErase, UnlinkCount, LinkCount, LinkDir,
          LinkFails, LinkUndo, Put, PutLast, Free, Freed, PutFreed, EndOp
    <3>4. /\ pc[p] = "erase" /\ pc'[p] = "uncount" /\ ip' = ip
          /\ inode[ip[p]].inum = i
      BY <1>8, <3>3, Types DEF UnlinkErase, Goto, IInv, DirInv
    <3>5. ip[p] # 0 /\ inode'[ip'[p]].inum = i
      BY <1>8, <1>u, <3>4, SameInode DEF WithIp
    <3>6. KeptBy(p, i)'
      BY <3>4, <3>5
    <3> HIDE DEF KeptBy
    <3> QED
      BY <1>l, <3>6
  <2> QED
    BY <2>1, <2>2
\* An inode that is allocated in this step, or was before.
<1>9. ASSUME NEW p \in Proc, Act(p), NEW i \in Inum, din'[i].type # 0, din[i].type = 0
      PROVE  Kept(i)'
  <2>1. CASE Writes(p)
    <3>1. pc[p] \in WithIp \ {"freed", "unref"} /\ \E k : Wrote(p, k, T_FILE)
      BY <1>9, <2>1, DiskSteps
    <3>2. inode[ip[p]].inum # i /\ inode[ip[p]].inum \in Inum
      BY <1>9, <3>1, Here DEF IInv, UseInv
    <3> QED
      BY <1>9, <3>1, <3>2, Types DEF Wrote
  <2>2. CASE Free(p)
    <3>1. Wrote(p, 0, 0)
      BY <1>9, <2>2, DiskSteps
    <3> QED
      BY <1>9, <3>1, Types DEF Wrote
  <2>3. CASE Ialloc(p)
    <3>1. inum[p] = i /\ pc'[p] = "iget" /\ inum' = inum
      BY <1>9, <2>3, Types DEF Ialloc, Goto
    <3>2. KeptBy(p, i)'
      BY <3>1
    <3> HIDE DEF KeptBy
    <3> QED
      BY <1>l, <3>2
  <2>4. CASE din' = din
    BY <1>9, <2>4
  <2> QED
    BY <1>9, <2>1, <2>2, <2>3, <2>4, DiskSteps
<1>10. ASSUME NEW p \in Proc, Act(p)
       PROVE  lost \subseteq lost'
  BY <1>10
  DEF Act, Step, Call, Close, OpenStep, CreateStep, UnlinkStep, LinkStep, PutStep,
      Namei, OpenLock, Opened, OpenFails, Create, Ialloc, NoInodes, IallocGet, CreateInit,
      CreateLink, CreateFails, UnlinkLookup, UnlinkErase, UnlinkCount, LinkCount, LinkDir,
      LinkFails, LinkUndo, Put, PutLast, Free, Freed, PutFreed, EndOp
<1>11. ASSUME NEW p \in Proc, Act(p), NEW i \in Inum, din'[i].type # 0, NEW q \in Proc, KeptBy(q, i)
       PROVE  Kept(i)'
  <2>1. CASE q # p
    <3>1. KeptBy(q, i)'
      BY <1>2, <1>11, <2>1
    <3> HIDE DEF KeptBy
    <3> QED
      BY <1>l, <3>1
  <2>2. CASE q = p
    <3>1. ASSUME KeptBy(p, i)' PROVE Kept(i)'
      <4> HIDE DEF KeptBy
      <4> QED
        BY <1>l, <3>1
    <3> QED
      BY <1>4, <1>5, <1>7, <1>11, <2>2, <3>1
  <2> QED
    BY <2>1, <2>2
<1>12. ASSUME NEW p \in Proc, Act(p), NEW i \in Inum, din'[i].type # 0
       PROVE  Kept(i)'
  <2>1. CASE din[i].type = 0
    BY <1>9, <1>12, <2>1
  <2>2. CASE din[i].type # 0
    <3>1. Kept(i)
      BY <2>2 DEF IInv, KeptInv
    <3>2. i \in lost => Kept(i)'
      BY <1>10, <1>12, <1>l
    <3> HIDE DEF KeptBy
    <3> QED
      BY <1>8, <1>11, <1>12, <1>k, <3>1, <3>2
  <2> QED
    BY <2>1, <2>2
<1> QED
  BY <1>1, <1>12 DEF Work, Act, KeptInv

LEMMA InitInv == ASSUME Init PROVE IInv
<1> USE DEF Init
<1>n. /\ NINODES \in Nat /\ NINODE \in Nat /\ IsFiniteSet(Proc) /\ IsFiniteSet(Name)
      /\ 0 \notin Inum /\ 0 \notin Slot
  BY InodesAssumption DEF Inum, Slot
<1>1. TypeOK
  <2>1. EmptyInode \in [inum : 0..NINODES, ref : Nat, valid : {0, 1}, type : {0, T_FILE}, nlink : Nat]
    BY <1>n DEF EmptyInode
  <2>2. FreeDinode \in [type : {0, T_FILE}, nlink : Nat]
    BY DEF FreeDinode
  <2>3. 0 \in 0..NINODES /\ 0 \in 0..NINODE /\ 0 \in 0..NINODES + 1 /\ "idle" \in PC
    BY <1>n DEF PC
  <2> QED
    BY <2>1, <2>2, <2>3 DEF TypeOK
<1>2. /\ ControlInv /\ DirInv /\ DirHeld /\ LockInv /\ InumInv
      /\ CacheInv /\ UseInv /\ FreeInv /\ FreshInv
  BY DEF ControlInv, DirInv, DirHeld, LockInv, InumInv, CacheInv, UseInv, FreeInv, FreshInv,
         WithIp, WithLock, WithDir, WithName, WithValid, EmptyInode
<1>3. Unlinked(din) /\ Unlinked(committed.din) /\ KeptInv /\ FullInv
  BY DEF Unlinked, KeptInv, FreeDinode, FullInv
<1>4. RefsExact
  <2>1. \A s \in Slot : {p \in Proc : ip[p] = s} = {} /\ {p \in Proc : ofile[p] = s} = {}
    BY <1>n
  <2>2. ASSUME NEW s \in Slot PROVE Users(s) = 0
    <3>1. {p \in Proc : ip[p] = s} = {} /\ {p \in Proc : ofile[p] = s} = {}
      BY <2>1
    <3> HIDE DEF Init
    <3>2. Cardinality({p \in Proc : ip[p] = s}) = 0 /\ Cardinality({p \in Proc : ofile[p] = s}) = 0
      BY <3>1, FS_EmptySet
    <3> QED
      BY <3>2 DEF Users
  <2> QED
    BY <2>2 DEF RefsExact, EmptyInode
<1>5. LinksExact
  <2>1. \A i \in Inum : {n \in Name : dir[n] = i} = {}
    BY <1>n
  <2>2. \A i \in Inum : Cardinality({n \in Name : dir[n] = i}) = 0
    BY <2>1, FS_EmptySet
  <2>3. \A i \in Inum : Unsettled(i) = 0
    BY FS_EmptySet DEF Unsettled
  <2> QED
    BY <2>2, <2>3 DEF LinksExact, FreeDinode
<1> QED
  BY <1>1, <1>2, <1>3, <1>4, <1>5 DEF IInv

\* Nothing but panicked changes when iget() panics.
Frozen ==
  UNCHANGED <<dir, din, committed, inode, lock, ofile, dlock, pc, name, new, ip, inum, lost>>

LEMMA NextSteps ==
  ASSUME [Next]_vars, TypeOK
  PROVE  Work \/ (Frozen /\ (UNCHANGED panicked \/ \E p \in Proc : IgetPanics(p)))
<1>1. CASE UNCHANGED vars
  BY <1>1 DEF vars, diskVars, tableVars, procVars, Frozen
<1>2. CASE \E p \in Proc : IgetPanics(p)
  BY <1>2 DEF IgetPanics, diskVars, tableVars, procVars, Frozen
<1>3. CASE ~panicked /\ UNCHANGED panicked /\ \E p \in Proc : Call(p) \/ Close(p) \/ Step(p)
  <2>1. panicked' = FALSE
    BY <1>3 DEF TypeOK
  <2> QED
    BY <1>3, <2>1 DEF Work, Act
<1>4. CASE Crash /\ panicked' = FALSE
  BY <1>4 DEF Work
<1> QED
  BY <1>1, <1>2, <1>3, <1>4 DEF Next

LEMMA IInvSpec == Spec => []IInv
<1>1. IInv /\ [Next]_vars => IInv'
  <2> SUFFICES ASSUME IInv, [Next]_vars PROVE IInv'
    OBVIOUS
  <2>1. CASE Work
    <3>1. Unlinked(din') /\ Unlinked(committed'.din)
      BY <2>1, UnlinkedStep
    <3>2. Unlinked(din)' /\ Unlinked(committed.din)' /\ FullInv'
      BY <2>1, <3>1 DEF Unlinked, FullInv, Work
    <3> QED
      BY <2>1, <3>2, TypeStep, ControlStep, DirStep, DirHeldStep, LockStep, RefsStep, InumStep, LinksStep,
         CacheStep, UseStep, FreeStep, FreshStep, KeptStep DEF IInv
  <2>2. CASE Frozen /\ (UNCHANGED panicked \/ \E p \in Proc : IgetPanics(p))
    <3>1. /\ dir' = dir /\ din' = din /\ committed' = committed /\ inode' = inode
          /\ lock' = lock /\ ofile' = ofile /\ dlock' = dlock /\ pc' = pc
          /\ name' = name /\ new' = new /\ ip' = ip /\ inum' = inum /\ lost' = lost
      BY <2>2 DEF Frozen
    <3>p. panicked' \in BOOLEAN
      BY <2>2 DEF IInv, TypeOK, IgetPanics
    <3>f. FullInv'
      <4>1. CASE UNCHANGED panicked
        BY <3>1, <4>1 DEF IInv, FullInv
      <4>2. CASE \E p \in Proc : IgetPanics(p)
        <5>1. Unused = {}
          BY <4>2 DEF IgetPanics, HasRoom
        <5>2. \A s \in Slot : inode[s].ref \in Nat /\ inode[s].ref # 0
          BY <5>1 DEF IInv, TypeOK, Unused
        <5> QED
          BY <3>1, <5>2 DEF FullInv
      <4> QED
        BY <2>2, <4>1, <4>2
    <3>2. TypeOK' /\ ControlInv' /\ DirInv' /\ DirHeld' /\ LockInv' /\ InumInv'
      BY <3>1, <3>p DEF IInv, TypeOK, ControlInv, DirInv, DirHeld, LockInv, InumInv
    <3>3. RefsExact'
      BY <3>1 DEF IInv, RefsExact, Users
    <3>4. LinksExact'
      BY <3>1 DEF IInv, LinksExact, Unsettled
    <3>5. Unlinked(din)' /\ Unlinked(committed.din)'
      BY <3>1 DEF IInv, Unlinked
    <3>6. CacheInv'
      BY <3>1 DEF IInv, CacheInv
    <3>7. UseInv'
      BY <3>1 DEF IInv, UseInv
    <3>8. FreeInv'
      BY <3>1 DEF IInv, FreeInv, MustFree
    <3>9. FreshInv'
      BY <3>1 DEF IInv, FreshInv, Fresh
    <3>10. KeptInv'
      BY <3>1 DEF IInv, KeptInv, Kept
    <3> QED
      BY <3>f, <3>2, <3>3, <3>4, <3>5, <3>6, <3>7, <3>8, <3>9, <3>10 DEF IInv
  <2> QED
    BY <2>1, <2>2, NextSteps DEF IInv
<1> QED
  BY InitInv, <1>1, PTL DEF Spec

-----------------------------------------------------------------------------
(* Theorems.                                                               *)

\* Every variable keeps its type; no count gets negative.
THEOREM TypeCorrect == Spec => []TypeOK
<1>1. IInv => TypeOK
  BY DEF IInv
<1> QED
  BY IInvSpec, <1>1, PTL

\* The inode table is exact: what every reference count says, that no inode has
\* two entries, and that a valid entry is what the disk has.
THEOREM TableCorrect == Spec => []TableExact
<1>1. IInv => TableExact
  BY DEF IInv, TableExact, CacheInv, CacheTrue
<1> QED
  BY IInvSpec, <1>1, PTL

\* The link count on the disk is the number of names, up to the calls in the
\* middle of changing both, and exactly so in what a crash returns to.
THEOREM LinksCorrect == Spec => []LinksExact
<1>1. IInv => LinksExact
  BY DEF IInv
<1> QED
  BY IInvSpec, <1>1, PTL

\* An allocated inode is named, open, or one of those said to be lost, whenever no
\* call is under way.
THEOREM LeaksKnown == Spec => []NothingLeaks
<1>1. ASSUME IInv PROVE NothingLeaks
  <2> SUFFICES ASSUME \A p \in Proc : pc[p] = "idle", NEW i \in Inum, din[i].type # 0
               PROVE  \/ i \in lost
                      \/ \E n \in Name : dir[n] = i
                      \/ \E p \in Proc : ofile[p] # 0 /\ inode[ofile[p]].inum = i
    BY DEF NothingLeaks
  <2>1. \A p \in Proc : ip[p] = 0
    BY <1>1, Types DEF WithIp
  <2> QED
    BY <1>1, <2>1 DEF IInv, KeptInv, Kept
<1> QED
  BY IInvSpec, <1>1, PTL

\* No panic of ilock() or sys_unlink() is reached, iput() never sleeps with a
\* spin lock held, and iget() finds no entry only when every one is in use by an
\* open file or a call under way: none has been lost to a forgotten iput().
THEOREM PanicsOnlyWhenFull == Spec => []Assertions
<1>1. ASSUME IInv PROVE Assertions
  <2>0. panicked => \A s \in Slot : Users(s) > 0
    BY <1>1 DEF IInv, FullInv, RefsExact
  <2> SUFFICES ASSUME NEW p \in Proc
               PROVE  /\ pc[p] \in {"ilock", "init", "erase", "count", "undo"} /\ lock[ip[p]] = NoProc
                           => Loaded(ip[p]).type # 0
                      /\ pc[p] = "erase" /\ lock[ip[p]] = NoProc => Loaded(ip[p]).nlink > 0
                      /\ pc[p] = "put" /\ MustFree(ip[p]) => lock[ip[p]] = NoProc
    BY <2>0 DEF Assertions
  <2>1. ASSUME pc[p] \in {"ilock", "init", "erase", "count", "undo"}, lock[ip[p]] = NoProc
        PROVE  Loaded(ip[p]).type # 0 /\ (pc[p] = "erase" => Loaded(ip[p]).nlink > 0)
    <3>1. Loaded(ip[p]) = Entry(ip[p]) /\ Entry(ip[p]).type = T_FILE
      BY <1>1, <2>1, LoadedFacts DEF WithIp
    <3>2. inode[ip[p]].inum \in Inum
      BY <1>1, <2>1, Here DEF WithIp
    <3>3. pc[p] = "erase" => /\ din[inode[ip[p]].inum].nlink \in Nat
                             /\ din[inode[ip[p]].inum].nlink >= 1
      <4>1. pc[p] = "erase" => name[p] \in Name /\ dir[name[p]] = inode[ip[p]].inum
        BY <1>1 DEF IInv, DirInv, ControlInv, WithName, WithDir
      <4> QED
        BY <1>1, <3>2, <4>1, LinkFacts
    <3> QED
      BY <3>1, <3>3 DEF Entry, T_FILE
  <2>2. ASSUME pc[p] = "put", MustFree(ip[p]), lock[ip[p]] # NoProc
        PROVE  FALSE
    <3>1. ip[p] \in Slot /\ inode[ip[p]].ref = 1
      BY <1>1, <2>2, Here DEF WithIp, MustFree
    <3>2. lock[ip[p]] \in Proc /\ ip[lock[ip[p]]] = ip[p] /\ pc[lock[ip[p]]] \in WithLock
      BY <1>1, <2>2, <3>1, Types DEF IInv, LockInv
    <3>3. lock[ip[p]] = p
      BY <1>1, <3>1, <3>2, UsersFacts DEF IInv
    <3> QED
      BY <2>2, <3>2, <3>3 DEF WithLock
  <2> QED
    BY <2>1, <2>2
<1> QED
  BY IInvSpec, <1>1, PTL

\* The calls never wait in a circle: whoever holds an inode goes on, and whoever
\* holds the directory waits for an inode at most.
THEOREM NoDeadlock == Spec => []NoCircle
<1>1. ASSUME IInv PROVE NoCircle
  <2> SUFFICES ASSUME NEW p \in Proc, pc[p] # "idle",
                      \A q \in Proc : pc[q] # "idle" => Waits(q)
               PROVE  FALSE
    BY DEF NoCircle
  <2>1. ASSUME NEW s \in Slot PROVE lock[s] = NoProc
    <3>1. lock[s] # NoProc => lock[s] \in Proc /\ pc[lock[s]] \in WithLock
      BY <1>1, Types DEF IInv, LockInv
    <3> QED
      BY <3>1 DEF Waits, WithLock
  <2>2. ASSUME NEW q \in Proc, pc[q] \in {"ilock", "init", "erase", "count", "undo"}
        PROVE  lock[ip[q]] = NoProc
    BY <1>1, <2>1, <2>2, Here DEF WithIp
  <2>3. \A q \in Proc : Waits(q) =>
          /\ pc[q] \in {"open", "link", "create", "unlink", "link_dir"}
          /\ dlock # NoProc
    BY <2>2 DEF Waits
  <2>4. dlock \in Proc /\ pc[dlock] \in WithDir \union {"put", "free", "freed", "unref"}
    BY <1>1, <2>3 DEF IInv, DirHeld, TypeOK
  <2> QED
    BY <2>3, <2>4 DEF WithDir
<1> QED
  BY IInvSpec, <1>1, PTL

\* Both at once: no order of the calls ends in a circle, or in a panic but that
\* of iget() with a table full of inodes in use.
THEOREM CallsAreNeverStuck == Spec => []NeverStuck
<1>1. Assertions /\ NoCircle => NeverStuck
  BY DEF NeverStuck
<1> QED
  BY PanicsOnlyWhenFull, NoDeadlock, <1>1, PTL

\* A name means an inode that is allocated, in the directory as it is and as a
\* crash would leave it, and so does an open file, whose entry ilock() has loaded.
NothingDangles ==
  /\ \A n \in Name : dir[n] # 0 => din[dir[n]].type # 0
  /\ \A n \in Name : committed.dir[n] # 0 => committed.din[committed.dir[n]].type # 0
  /\ \A p \in Proc : ofile[p] # 0 =>
       inode[ofile[p]].valid = 1 /\ din[inode[ofile[p]].inum].type # 0

\* No inode is freed under a name or under an open file, wherever the calls and a
\* crash meet: sys_link() counts a name before it writes it and sys_unlink()
\* afterwards, and iput() frees for the last user only.
THEOREM NamesMeanInodes == Spec => []NothingDangles
<1>1. ASSUME IInv PROVE NothingDangles
  <2>1. \A n \in Name : dir[n] # 0 => dir[n] \in Inum
    BY <1>1, Types DEF Inum
  <2>2. \A n \in Name : dir[n] # 0 => din[dir[n]].type # 0
    BY <1>1, <2>1, LinkFacts
  <2>3. \A n \in Name : committed.dir[n] # 0 => committed.din[committed.dir[n]].type # 0
    BY <1>1 DEF IInv, LinksExact
  <2>4. \A p \in Proc : ofile[p] # 0 =>
          inode[ofile[p]].valid = 1 /\ din[inode[ofile[p]].inum].type # 0
    BY <1>1 DEF IInv, UseInv
  <2> QED
    BY <2>2, <2>3, <2>4 DEF NothingDangles
<1> QED
  BY IInvSpec, <1>1, PTL

\* Who keeps an entry of the table, an open file or a call under way, keeps the
\* inode that it stands for.
SameInodeKept ==
  \A p \in Proc :
    /\ ip[p] # 0 /\ ip'[p] = ip[p] => inode'[ip[p]].inum = inode[ip[p]].inum
    /\ ofile[p] # 0 /\ ofile'[p] = ofile[p] => inode'[ofile[p]].inum = inode[ofile[p]].inum

\* iget() never gives an entry in use to another inode: from open() to close()
\* a file is one inode, whoever unlinks, links or frees others meanwhile.
THEOREM HandlesStay == Spec => [][SameInodeKept]_vars
<1>1. ASSUME IInv, [Next]_vars PROVE [SameInodeKept]_vars
  <2>1. CASE Crash
    BY <2>1 DEF Crash, SameInodeKept
  <2>2. CASE \E a \in Proc : Act(a)
    <3>1. PICK a \in Proc : Act(a)
      BY <2>2
    <3>2. SameInodeKept
      BY <1>1, <3>1, SameInode DEF SameInodeKept
    <3> QED
      BY <3>2
  <2>3. CASE Frozen
    BY <2>3 DEF Frozen, SameInodeKept
  <2> QED
    BY <1>1, <2>1, <2>2, <2>3, NextSteps DEF IInv, Work
<1> QED
  BY IInvSpec, <1>1, PTL DEF Spec

-----------------------------------------------------------------------------
(* Inodes implements FileLife.                                             *)

Alive == {i \in Inum : din[i].type # 0}
Opens == {inode[ofile[p]].inum : p \in {q \in Proc : ofile[q] # 0}}

\* Only ialloc() and the freeing of an inode change what is allocated.
LEMMA SameAlive ==
  ASSUME IInv, NEW p \in Proc, Act(p), ~Free(p), ~Ialloc(p)
  PROVE  Alive' = Alive
<1>1. CASE din' = din
  BY <1>1 DEF Alive
<1>2. CASE Writes(p)
  <2>1. pc[p] \in WithIp \ {"freed", "unref"}
    BY <1>2, DiskSteps
  <2>2. PICK k \in Nat : Wrote(p, k, T_FILE)
    BY <1>2, DiskSteps
  <2>3. inode[ip[p]].inum \in Inum /\ din[inode[ip[p]].inum].type # 0
    BY <2>1, Here DEF IInv, UseInv
  <2> QED
    BY <2>2, <2>3, Types DEF Wrote, Alive, T_FILE
<1> QED
  BY <1>1, <1>2, DiskSteps

\* Only open() and close() change what is open.
LEMMA SameOpens ==
  ASSUME IInv, NEW p \in Proc, Act(p), ofile' = ofile
  PROVE  Opens' = Opens
<1>1. \A q \in Proc : ofile[q] # 0 => inode'[ofile'[q]].inum = inode[ofile[q]].inum
  BY SameInode
<1> QED
  BY <1>1 DEF Opens

\* Which steps change a name or an open file.
LEMMA Quiet ==
  ASSUME NEW p \in Proc, Act(p)
  PROVE  /\ dir' = dir \/ CreateLink(p) \/ UnlinkErase(p) \/ LinkDir(p)
         /\ ofile' = ofile \/ Opened(p) \/ Close(p)
<1> USE DEF diskVars, tableVars
<1>1. CASE Call(p) \/ EndOp(p) \/ Close(p)
  BY <1>1 DEF Call, EndOp, Close
<1>2. CASE OpenStep(p)
  BY <1>2 DEF OpenStep, Namei, OpenLock, OpenFails, Opened
<1>3. CASE CreateStep(p)
  BY <1>3 DEF CreateStep, Create, Ialloc, NoInodes, IallocGet, CreateInit, CreateLink, CreateFails
<1>4. CASE UnlinkStep(p)
  BY <1>4 DEF UnlinkStep, UnlinkLookup, UnlinkErase, UnlinkCount
<1>5. CASE LinkStep(p)
  BY <1>5 DEF LinkStep, LinkCount, LinkDir, LinkFails, LinkUndo
<1>6. CASE PutStep(p)
  BY <1>6 DEF PutStep, Put, PutLast, Free, Freed, PutFreed
<1> QED
  BY <1>1, <1>2, <1>3, <1>4, <1>5, <1>6 DEF Act, Step

LEMMA LifeInit == Init => Life!Init
<1> SUFFICES ASSUME Init PROVE Life!Init
  OBVIOUS
<1>1. {i \in Inum : din[i].type # 0} = {}
  BY DEF Init, FreeDinode
<1>2. {q \in Proc : ofile[q] # 0} = {}
  BY DEF Init
<1> QED
  BY <1>1, <1>2 DEF Init, Life!Init

\* A name is set to an inode that is allocated, where there was none.
LEMMA LifeName ==
  ASSUME IInv, NEW p \in Proc, CreateLink(p) \/ LinkDir(p) \/ UnlinkErase(p)
  PROVE  \E n \in Name, i \in Inum :
           /\ \/ dir[n] = 0 /\ i \in Alive /\ dir' = [dir EXCEPT ![n] = i]
              \/ dir[n] # 0 /\ dir' = [dir EXCEPT ![n] = 0]
           /\ Alive' = Alive /\ Opens' = Opens
<1> DEFINE i == inode[ip[p]].inum
<1>1. pc[p] \in WithIp \ {"freed", "unref"} /\ ofile' = ofile
  BY DEF CreateLink, LinkDir, UnlinkErase, tableVars, WithIp
<1>2. i \in Inum /\ i \in Alive
  BY <1>1, Here DEF IInv, UseInv, Alive
<1>3. Act(p) /\ ~Free(p) /\ ~Ialloc(p)
  BY DEF Act, Step, CreateStep, LinkStep, UnlinkStep, CreateLink, LinkDir, UnlinkErase,
         Free, Ialloc
<1>4. Alive' = Alive /\ Opens' = Opens
  BY <1>1, <1>3, SameAlive, SameOpens
<1>5. i # 0
  BY <1>2 DEF Inum
<1>6. CASE CreateLink(p)
  <2>1. name[p] \in Name /\ dir[name[p]] = 0 /\ dir' = [dir EXCEPT ![name[p]] = i]
    BY <1>6 DEF CreateLink, IInv, ControlInv, DirInv, WithName, WithDir
  <2> QED
    BY <1>2, <1>4, <2>1
<1>7. CASE LinkDir(p)
  <2>1. new[p] \in Name /\ dir[new[p]] = 0 /\ dir' = [dir EXCEPT ![new[p]] = i]
    BY <1>7 DEF LinkDir, IInv, ControlInv
  <2> QED
    BY <1>2, <1>4, <2>1
<1>8. CASE UnlinkErase(p)
  <2>1. name[p] \in Name /\ dir[name[p]] = i /\ dir' = [dir EXCEPT ![name[p]] = 0]
    BY <1>8 DEF UnlinkErase, IInv, ControlInv, DirInv, WithName, WithDir
  <2> QED
    BY <1>2, <1>4, <1>5, <2>1
<1> QED
  BY <1>6, <1>7, <1>8

\* An inode is freed that has no names and that nobody has open.
LEMMA LifeFree ==
  ASSUME IInv, NEW p \in Proc, Free(p)
  PROVE  \E i \in Alive : /\ \A n \in Name : dir[n] # i
                          /\ i \notin Opens
                          /\ Alive' = Alive \ {i} /\ dir' = dir /\ Opens' = Opens
<1> DEFINE i == inode[ip[p]].inum
<1>1. pc[p] = "free" /\ pc[p] \in WithIp \ {"freed", "unref"} /\ ip[p] # 0
      /\ dir' = dir /\ ofile' = ofile /\ Act(p)
  BY Types DEF Free, WithIp, Act, Step, PutStep
<1>2. i \in Inum /\ i \in Alive
  BY <1>1, Here DEF IInv, UseInv, Alive
<1>3. Alive' = Alive \ {i}
  <2>1. Wrote(p, 0, 0)
    BY WriteSteps
  <2> QED
    BY <1>2, <2>1, Types DEF Wrote, Alive
<1>4. \A n \in Name : dir[n] # i
  BY <1>1, Freeing
<1>5. \A q \in Proc : ofile[q] # 0 => inode[ofile[q]].inum # i
  BY <1>1, Freeing, SameEntry
<1>6. i \notin Opens
  BY <1>5 DEF Opens
<1> QED
  BY <1>1, <1>2, <1>3, <1>4, <1>6, SameOpens

LEMMA LifeOpened ==
  ASSUME IInv, NEW p \in Proc, Opened(p)
  PROVE  \E i \in Alive : Opens' = Opens \union {i} /\ dir' = dir /\ Alive' = Alive
<1> DEFINE i == inode[ip[p]].inum
<1>1. pc[p] \in WithIp \ {"freed", "unref"} /\ ip[p] # 0 /\ ofile[p] = 0
  BY Types DEF Opened, CanAlloc, WithIp
<1>2. dir' = dir /\ inode' = inode /\ ofile' = [ofile EXCEPT ![p] = ip[p]] /\ din' = din
  BY DEF Opened, diskVars
<1>3. i \in Alive
  BY <1>1, Here DEF IInv, UseInv, Alive
<1>4. Opens' = Opens \union {i}
  BY <1>1, <1>2, Types DEF Opens
<1>5. Alive' = Alive
  BY <1>2 DEF Alive
<1> QED
  BY <1>2, <1>3, <1>4, <1>5

\* The last close of an inode that several processes have open ends it.
LEMMA LifeClose ==
  ASSUME IInv, NEW p \in Proc, Close(p)
  PROVE  \E i \in Inum : Opens' \in {Opens, Opens \ {i}} /\ dir' = dir /\ Alive' = Alive
<1> DEFINE i == inode[ofile[p]].inum
<1>1. ofile[p] # 0 /\ i \in Inum
  BY Open DEF Close
<1>2. dir' = dir /\ inode' = inode /\ ofile' = [ofile EXCEPT ![p] = 0] /\ din' = din
  BY DEF Close, diskVars
<1>3. Alive' = Alive
  BY <1>2 DEF Alive
<1>4. CASE \E q \in Proc \ {p} : ofile[q] # 0 /\ inode[ofile[q]].inum = i
  <2>1. Opens' = Opens
    BY <1>1, <1>2, <1>4, Types DEF Opens
  <2> QED
    BY <1>1, <1>2, <1>3, <2>1
<1>5. CASE \A q \in Proc \ {p} : ofile[q] # 0 => inode[ofile[q]].inum # i
  <2>1. Opens' = Opens \ {i}
    BY <1>1, <1>2, <1>5, Types DEF Opens
  <2> QED
    BY <1>1, <1>2, <1>3, <2>1
<1> QED
  BY <1>4, <1>5

LEMMA LifeStep == ASSUME IInv, Work PROVE Life!Next \/ UNCHANGED Life!vars
<1>v. UNCHANGED Life!vars <=> (Alive' = Alive /\ dir' = dir /\ Opens' = Opens)
  BY DEF Life!vars, Alive, Opens
<1>1. CASE Crash
  <2>1. {q \in Proc : ofile'[q] # 0} = {}
    BY <1>1 DEF Crash
  <2>2. dir' \in [Name -> Alive' \union {0}]
    <3>1. dir' = committed.dir /\ din' = committed.din
      BY <1>1 DEF Crash
    <3>2. /\ committed.dir \in [Name -> 0..NINODES]
          /\ \A n \in Name : committed.dir[n] # 0 => committed.din[committed.dir[n]].type # 0
      BY DEF IInv, TypeOK, LinksExact
    <3> QED
      BY <3>1, <3>2, InodesAssumption DEF Alive, Inum
  <2>3. Life!Crash
    BY <2>1, <2>2 DEF Life!Crash, Alive
  <2> QED
    BY <2>3 DEF Life!Next
<1>2. ASSUME NEW p \in Proc, Act(p)
      PROVE  Life!Next \/ UNCHANGED Life!vars
  <2>1. CASE CreateLink(p) \/ LinkDir(p) \/ UnlinkErase(p)
    <3>1. PICK n \in Name, i \in Inum :
            /\ \/ dir[n] = 0 /\ i \in Alive /\ dir' = [dir EXCEPT ![n] = i]
               \/ dir[n] # 0 /\ dir' = [dir EXCEPT ![n] = 0]
            /\ Alive' = Alive /\ Opens' = Opens
      BY <2>1, LifeName
    <3>2. Life!SetName(n, i) \/ Life!Unlink(n)
      BY <3>1 DEF Life!SetName, Life!Unlink, Alive, Opens
    <3> QED
      BY <3>2 DEF Life!Next
  <2>2. CASE Free(p)
    <3>1. PICK i \in Alive : /\ \A n \in Name : dir[n] # i
                             /\ i \notin Opens
                             /\ Alive' = Alive \ {i} /\ dir' = dir /\ Opens' = Opens
      BY <2>2, LifeFree
    <3>2. i \in Inum
      BY DEF Alive
    <3>3. Life!Free(i)
      BY <3>1 DEF Life!Free, Life!Named, Alive, Opens
    <3> QED
      BY <3>2, <3>3 DEF Life!Next
  <2>3. CASE Ialloc(p)
    <3>1. inum[p] \in Inum /\ dir' = dir /\ ofile' = ofile
      BY <2>3 DEF Ialloc, tableVars
    <3>2. Opens' = Opens
      BY <1>2, <3>1, SameOpens
    <3>3. CASE din[inum[p]].type = 0
      <4>1. din' = [din EXCEPT ![inum[p]] = [type |-> T_FILE, nlink |-> 0]]
        BY <2>3, <3>3 DEF Ialloc
      <4>2. inum[p] \notin Alive /\ Alive' = Alive \union {inum[p]}
        BY <3>1, <3>3, <4>1, Types DEF Alive, T_FILE
      <4>3. PICK i \in Inum : i \notin Alive /\ Alive' = Alive \union {i}
        BY <3>1, <4>2
      <4>4. Life!Allocate(i)
        BY <3>1, <3>2, <4>3 DEF Life!Allocate, Alive, Opens
      <4> QED
        BY <4>4 DEF Life!Next
    <3>4. CASE din[inum[p]].type # 0
      <4>1. Alive' = Alive
        BY <2>3, <3>4 DEF Ialloc, Alive
      <4> QED
        BY <1>v, <3>1, <3>2, <4>1
    <3> QED
      BY <3>3, <3>4
  <2>4. CASE Opened(p)
    <3>1. PICK i \in Alive : Opens' = Opens \union {i} /\ dir' = dir /\ Alive' = Alive
      BY <2>4, LifeOpened
    <3>2. i \in Inum /\ Life!Open(i)
      BY <3>1 DEF Life!Open, Alive, Opens
    <3> QED
      BY <3>2 DEF Life!Next
  <2>5. CASE Close(p)
    <3>1. PICK i \in Inum : Opens' \in {Opens, Opens \ {i}} /\ dir' = dir /\ Alive' = Alive
      BY <2>5, LifeClose
    <3>2. CASE Opens' = Opens
      BY <1>v, <3>1, <3>2
    <3>3. CASE Opens' = Opens \ {i}
      <4>1. Life!Close(i)
        BY <3>1, <3>3 DEF Life!Close, Alive, Opens
      <4> QED
        BY <4>1 DEF Life!Next
    <3> QED
      BY <3>1, <3>2, <3>3
  <2>6. CASE ~(\/ CreateLink(p) \/ LinkDir(p) \/ UnlinkErase(p) \/ Free(p) \/ Ialloc(p)
               \/ Opened(p) \/ Close(p))
    BY <1>2, <1>v, <2>6, Quiet, SameAlive, SameOpens
  <2> QED
    BY <2>1, <2>2, <2>3, <2>4, <2>5, <2>6
<1> QED
  BY <1>1, <1>2 DEF Work, Act

\* An inode lives from ialloc() until it has neither a name nor an open file,
\* whatever the calls and a crash do at the same time.
THEOREM InodesLive == Spec => ImplementsLife
<1>1. IInv /\ [Next]_vars => [Life!Next]_(Life!vars)
  <2> SUFFICES ASSUME IInv, [Next]_vars PROVE [Life!Next]_(Life!vars)
    OBVIOUS
  <2>1. CASE Frozen
    BY <2>1 DEF Frozen, Life!vars
  <2> QED
    BY <2>1, LifeStep, NextSteps DEF IInv
<1> QED
  BY <1>1, LifeInit, IInvSpec, PTL DEF Spec, ImplementsLife, Life!Spec
=============================================================================
