----------------------------- MODULE FilesProofs -----------------------------
(***************************************************************************)
(* Theorems about Files, for any number of processes, files, descriptors   *)
(* and any sizes: the reference count of a struct file is the number of    *)
(* its descriptors, and its offset is where the transfers left it.  And    *)
(* about the random device: no race stops it.                              *)
(***************************************************************************)
EXTENDS Files, FiniteSetTheorems, TLAPS

-----------------------------------------------------------------------------
(* The inductive invariant.                                                *)

InTransfer(p) == pc[p] \in {"load", "store"}

\* A call has a descriptor; only a process in the middle of a transfer holds the
\* lock of the inode; and what the registers of a call hold.
CallOK(p) ==
  /\ pc[p] # "idle" => cur[p] \in File /\ ofile[p][cur[p]] > 0
  /\ InTransfer(p) => lock = p
  /\ pc[p] \in {"read", "write", "load", "store"} => todo[p] \in Nat
  /\ pc[p] \in {"add", "seek"} => reg[p] <= size
CallInv == \A p \in Proc : CallOK(p)

\* A transfer whose offset no seek has overwritten: the offset lacks exactly what
\* was moved.
MoveOK(p) ==
  InTransfer(p) /\ raced[cur[p]] = 0 =>
    /\ file[cur[p]].off + moved[p] = end[cur[p]]
    /\ end[cur[p]] <= size
    /\ pc[p] = "store" => reg[p] = file[cur[p]].off
MoveInv == \A p \in Proc : MoveOK(p)

\* A free entry has no history.
FreeInv == \A g \in File : file[g].ref = 0 => end[g] = 0 /\ raced[g] = 0

\* The descriptor tables: types, and the counts they need.
TableOK == TypeOK /\ RefsExact

IInv == TableOK /\ CallInv /\ MoveInv /\ FreeInv /\ OffsetExact

-----------------------------------------------------------------------------
(* Sums of descriptors.                                                    *)

Pairs(D, f) == {x \in D \X (1..NOFILE) : x[2] <= f[x[1]]}

LEMMA PairsFinite ==
  ASSUME NEW D, IsFiniteSet(D), NEW f
  PROVE  /\ IsFiniteSet(Pairs(D, f)) /\ Cardinality(Pairs(D, f)) \in Nat
         /\ Total(D, f) = Cardinality(Pairs(D, f))
<1>1. IsFiniteSet(1..NOFILE)
  BY FS_Interval, FilesAssumption
<1>2. IsFiniteSet(D \X (1..NOFILE))
  BY <1>1, FS_Product
<1>3. IsFiniteSet(Pairs(D, f))
  BY <1>2, FS_Subset DEF Pairs
<1> QED
  BY <1>3, FS_CardinalityType DEF Total, Pairs

\* The pairs of one element are as many as it counts.
LEMMA Column ==
  ASSUME NEW d, NEW k \in 0..NOFILE
  PROVE  IsFiniteSet({d} \X (1..k)) /\ Cardinality({d} \X (1..k)) = k
<1>1. IsFiniteSet(1..k) /\ Cardinality(1..k) = k
  BY FS_Interval, FilesAssumption
<1>2. IsFiniteSet({d}) /\ Cardinality({d}) = 1
  BY FS_Singleton
<1> QED
  BY <1>1, <1>2, FS_Product

\* No count is above the sum; if the sum is 0, all are; if it is 1, one is.
LEMMA TotalBounds ==
  ASSUME NEW D, IsFiniteSet(D), NEW f \in [D -> 0..NOFILE]
  PROVE  /\ Total(D, f) \in Nat
         /\ \A d \in D : f[d] <= Total(D, f)
         /\ \A d, e \in D : d # e => f[d] + f[e] <= Total(D, f)
<1>1. ASSUME NEW d \in D PROVE {d} \X (1..f[d]) \subseteq Pairs(D, f)
  BY FilesAssumption DEF Pairs
<1>2. ASSUME NEW d \in D PROVE f[d] <= Total(D, f)
  <2>1. {d} \X (1..f[d]) \in SUBSET Pairs(D, f) /\ Cardinality({d} \X (1..f[d])) = f[d]
    BY <1>1, Column
  <2>2. IsFiniteSet(Pairs(D, f)) /\ Total(D, f) = Cardinality(Pairs(D, f))
    BY PairsFinite
  <2> QED
    BY <2>1, <2>2, FS_Subset
<1>3. ASSUME NEW d \in D, NEW e \in D, d # e PROVE f[d] + f[e] <= Total(D, f)
  <2> DEFINE S == {d} \X (1..f[d])
             T == {e} \X (1..f[e])
  <2>1. IsFiniteSet(S) /\ IsFiniteSet(T) /\ Cardinality(S) = f[d] /\ Cardinality(T) = f[e]
    BY Column
  <2>2. S \cap T = {}
    BY <1>3
  <2>3. S \union T \subseteq Pairs(D, f)
    BY <1>1
  <2> HIDE DEF S, T
  <2>4. Cardinality(S \union T) = f[d] + f[e]
    <3>1. Cardinality(S \union T) = Cardinality(S) + Cardinality(T) - Cardinality({})
      BY <2>1, <2>2, FS_Union
    <3>2. Cardinality({}) = 0 /\ f[d] \in Nat /\ f[e] \in Nat
      BY FS_EmptySet, FilesAssumption
    <3> QED
      BY <2>1, <3>1, <3>2
  <2>5. IsFiniteSet(Pairs(D, f)) /\ Total(D, f) = Cardinality(Pairs(D, f))
    BY PairsFinite
  <2>6. Cardinality(S \union T) <= Cardinality(Pairs(D, f))
    BY <2>3, <2>5, FS_Subset
  <2> QED
    BY <2>4, <2>5, <2>6
<1> QED
  BY <1>2, <1>3, PairsFinite

\* One count grows from 0 by k, and the sum with it.
LEMMA TotalGrow ==
  ASSUME NEW D, IsFiniteSet(D), NEW f \in [D -> 0..NOFILE], NEW g \in [D -> 0..NOFILE],
         NEW d \in D, f[d] = 0, \A e \in D \ {d} : g[e] = f[e]
  PROVE  Total(D, g) = Total(D, f) + g[d]
<1> DEFINE S == {d} \X (1..g[d])
<1>1. IsFiniteSet(S) /\ Cardinality(S) = g[d]
  BY Column
<1>2. Pairs(D, g) = Pairs(D, f) \union S
  BY FilesAssumption DEF Pairs
<1>3. Pairs(D, f) \cap S = {}
  BY FilesAssumption DEF Pairs
<1> HIDE DEF S
<1>4. Cardinality(Pairs(D, g)) = Cardinality(Pairs(D, f)) + g[d]
  <2>1. IsFiniteSet(Pairs(D, f)) /\ Cardinality(Pairs(D, f)) \in Nat
    BY PairsFinite
  <2>2. Cardinality(Pairs(D, g)) = Cardinality(Pairs(D, f)) + Cardinality(S) - Cardinality({})
    BY <1>1, <1>2, <1>3, <2>1, FS_Union
  <2>3. Cardinality({}) = 0 /\ g[d] \in Nat
    BY FS_EmptySet, FilesAssumption
  <2> QED
    BY <1>1, <2>1, <2>2, <2>3
<1> QED
  BY <1>4, PairsFinite

\* One count grows by 1, and the sum with it.
LEMMA TotalMore ==
  ASSUME NEW D, IsFiniteSet(D), NEW f \in [D -> 0..NOFILE], NEW g \in [D -> 0..NOFILE],
         NEW d \in D, g[d] = f[d] + 1, \A e \in D \ {d} : g[e] = f[e]
  PROVE  Total(D, g) = Total(D, f) + 1
<1>1. Pairs(D, g) = Pairs(D, f) \union {<<d, g[d]>>}
  BY FilesAssumption DEF Pairs
<1>2. <<d, g[d]>> \notin Pairs(D, f)
  BY DEF Pairs
<1>3. Cardinality(Pairs(D, g)) = Cardinality(Pairs(D, f)) + 1
  <2> DEFINE F == Pairs(D, f)
             x == <<d, g[d]>>
  <2>1. IsFiniteSet(F)
    BY PairsFinite
  <2>2. Pairs(D, g) = F \union {x} /\ x \notin F
    BY <1>1, <1>2
  <2> HIDE DEF F, x
  <2>3. Cardinality(F \union {x}) = Cardinality(F) + 1
    BY <2>1, <2>2, FS_AddElement
  <2> QED
    BY <2>2, <2>3 DEF F
<1> QED
  BY <1>3, PairsFinite

LEMMA HolderFacts ==
  ASSUME TableOK, NEW g \in File
  PROVE  /\ Holders(g) \in [Proc -> 0..NOFILE]
         /\ file[g].ref = Total(Proc, Holders(g)) /\ file[g].ref \in Nat
         /\ \A p \in Proc : ofile[p][g] <= file[g].ref
         /\ \A p, q \in Proc : p # q => ofile[p][g] + ofile[q][g] <= file[g].ref
<1>1. Holders(g) \in [Proc -> 0..NOFILE] /\ file[g].ref = Total(Proc, Holders(g))
  <2>1. ofile \in [Proc -> [File -> 0..NOFILE]]
    BY DEF TableOK, TypeOK
  <2>2. file[g].ref = Total(Proc, Holders(g))
    BY DEF TableOK, RefsExact
  <2> QED
    BY <2>1, <2>2 DEF Holders
<1>2. IsFiniteSet(Proc)
  BY FilesAssumption
<1>3. /\ Total(Proc, Holders(g)) \in Nat
      /\ \A p \in Proc : Holders(g)[p] <= Total(Proc, Holders(g))
      /\ \A p, q \in Proc : p # q => Holders(g)[p] + Holders(g)[q] <= Total(Proc, Holders(g))
  BY <1>1, <1>2, TotalBounds
<1> QED
  BY <1>1, <1>3 DEF Holders

\* A process with a free descriptor can have one more for any file.
LEMMA RoomFacts ==
  ASSUME TableOK, NEW p \in Proc, HasRoom(p), NEW g \in File
  PROVE  ofile[p][g] + 1 \in 0..NOFILE
<1>1. ofile[p] \in [File -> 0..NOFILE] /\ NOFILE \in Nat
  BY FilesAssumption DEF TableOK, TypeOK
<1>2. IsFiniteSet(File)
  BY FS_Interval, FilesAssumption DEF File
<1>3. ofile[p][g] <= Total(File, ofile[p]) /\ Total(File, ofile[p]) \in Nat
  BY <1>1, <1>2, TotalBounds
<1> QED
  BY <1>1, <1>3 DEF HasRoom

-----------------------------------------------------------------------------
(* The invariant is kept.                                                  *)

LEMMA TypedRefs == TableOK <=> TypeOK /\ RefsExact
BY DEF TableOK

LEMMA Numbers ==
  /\ NFILE \in Nat /\ NOFILE \in Nat /\ MAXSIZE \in Nat /\ Chunk \in Nat \ {0}
  /\ Counts \subseteq Nat \ {0} /\ Offsets \subseteq Int /\ NoProc \notin Proc
  /\ IsFiniteSet(Proc) /\ 0 \notin File
BY FilesAssumption DEF File

\* What opening, duplicating, closing and inheriting descriptors leave alone: the
\* calls, and the offset of every file that is not opened or closed by it.
Kept(g) == file'[g].off = file[g].off /\ end'[g] = end[g] /\ raced'[g] = raced[g]
Renewed(g) ==
  /\ file'[g].off = 0 /\ end'[g] = 0 /\ raced'[g] = 0
  /\ \A q \in Proc : pc[q] # "idle" => cur[q] # g
DescriptorStep ==
  /\ UNCHANGED <<size, lock, callVars>>
  /\ file' \in [File -> FileType] /\ ofile' \in [Proc -> [File -> 0..NOFILE]]
  /\ end' \in [File -> Nat] /\ raced' \in [File -> {0, 1}]
  /\ RefsExact'
  /\ \A q \in Proc : pc[q] # "idle" => \A g \in File : ofile'[q][g] >= ofile[q][g]
  /\ \A g \in File : Kept(g) \/ Renewed(g)
  /\ \A g \in File : file'[g].ref = 0 => Renewed(g) \/ (Kept(g) /\ file[g].ref = 0)

\* A file that a call is about has a descriptor.
LEMMA InUse ==
  ASSUME IInv, NEW q \in Proc, pc[q] # "idle"
  PROVE  cur[q] \in File /\ ofile[q][cur[q]] \in Nat /\ ofile[q][cur[q]] > 0
         /\ file[cur[q]].ref >= 1 /\ file[cur[q]].ref \in Nat
<1>1. cur[q] \in File /\ ofile[q][cur[q]] > 0 /\ TableOK
  BY DEF IInv, CallInv, CallOK
<1>2. ofile[q][cur[q]] \in Nat
  <2>1. ofile \in [Proc -> [File -> 0..NOFILE]]
    BY <1>1 DEF TableOK, TypeOK
  <2> QED
    BY <1>1, <2>1, Numbers
<1> QED
  BY <1>1, <1>2, HolderFacts

\* How the holders of a file change.
LEMMA HoldersMore ==
  ASSUME TableOK, NEW g \in File, NEW p \in Proc, ofile' \in [Proc -> [File -> 0..NOFILE]],
         ofile'[p][g] = ofile[p][g] + 1, \A q \in Proc \ {p} : ofile'[q][g] = ofile[q][g]
  PROVE  Total(Proc, Holders(g)') = Total(Proc, Holders(g)) + 1
<1> DEFINE h == Holders(g)'
<1>1. /\ Holders(g) \in [Proc -> 0..NOFILE] /\ h \in [Proc -> 0..NOFILE]
      /\ h[p] = Holders(g)[p] + 1
      /\ \A q \in Proc \ {p} : h[q] = Holders(g)[q]
  BY DEF Holders, TableOK, TypeOK
<1>f. IsFiniteSet(Proc)
  BY Numbers
<1> HIDE DEF h
<1>2. Total(Proc, h) = Total(Proc, Holders(g)) + 1
  BY <1>1, <1>f, TotalMore
<1> QED
  BY <1>2 DEF h

LEMMA HoldersLess ==
  ASSUME TableOK, NEW g \in File, NEW p \in Proc, ofile' \in [Proc -> [File -> 0..NOFILE]],
         ofile[p][g] = ofile'[p][g] + 1, \A q \in Proc \ {p} : ofile'[q][g] = ofile[q][g]
  PROVE  Total(Proc, Holders(g)') + 1 = Total(Proc, Holders(g))
<1> DEFINE h == Holders(g)'
<1>1. /\ Holders(g) \in [Proc -> 0..NOFILE] /\ h \in [Proc -> 0..NOFILE]
      /\ Holders(g)[p] = h[p] + 1
      /\ \A q \in Proc \ {p} : Holders(g)[q] = h[q]
  BY DEF Holders, TableOK, TypeOK
<1>f. IsFiniteSet(Proc)
  BY Numbers
<1> HIDE DEF h
<1>2. Total(Proc, Holders(g)) = Total(Proc, h) + 1
  BY <1>1, <1>f, TotalMore
<1> QED
  BY <1>2 DEF h

LEMMA HoldersGrow ==
  ASSUME TableOK, NEW g \in File, NEW p \in Proc, ofile' \in [Proc -> [File -> 0..NOFILE]],
         ofile[p][g] = 0, \A q \in Proc \ {p} : ofile'[q][g] = ofile[q][g]
  PROVE  Total(Proc, Holders(g)') = Total(Proc, Holders(g)) + ofile'[p][g]
<1> DEFINE h == Holders(g)'
<1>1. /\ Holders(g) \in [Proc -> 0..NOFILE] /\ h \in [Proc -> 0..NOFILE]
      /\ Holders(g)[p] = 0 /\ h[p] = ofile'[p][g]
      /\ \A q \in Proc \ {p} : h[q] = Holders(g)[q]
  BY DEF Holders, TableOK, TypeOK
<1>f. IsFiniteSet(Proc)
  BY Numbers
<1> DEFINE f == Holders(g)
<1> HIDE DEF h, f
<1>2. Total(Proc, h) = Total(Proc, f) + h[p]
  <2>1. f \in [Proc -> 0..NOFILE] /\ f[p] = 0 /\ \A q \in Proc \ {p} : h[q] = f[q]
    BY <1>1 DEF f
  <2> QED
    BY <1>1, <1>f, <2>1, TotalGrow
<1> QED
  BY <1>1, <1>2 DEF h, f

LEMMA HoldersStay ==
  ASSUME NEW g \in File, \A q \in Proc : ofile'[q][g] = ofile[q][g]
  PROVE  Total(Proc, Holders(g)') = Total(Proc, Holders(g))
<1>1. Holders(g)' = Holders(g)
  BY DEF Holders
<1> QED
  BY <1>1

LEMMA OpenStep ==
  ASSUME IInv, NEW p \in Proc, NEW type \in {FD_INODE, FD_DEVICE}, Open(p, type)
  PROVE  DescriptorStep
<1>t. TableOK /\ TypeOK /\ RefsExact
  BY TypedRefs DEF IInv
<1>1. PICK g \in File :
        /\ file[g].ref = 0
        /\ file' = [file EXCEPT ![g] = [ref |-> 1, type |-> type, off |-> 0]]
        /\ ofile' = [ofile EXCEPT ![p][g] = 1]
  BY DEF Open
<1>2. \A q \in Proc : ofile[q][g] = 0
  BY <1>1, <1>t, HolderFacts, Numbers DEF TypeOK
<1>3. UNCHANGED <<size, lock, callVars, end, raced>> /\ HasRoom(p)
  BY DEF Open
<1>4. 1 \in 0..NOFILE
  BY <1>2, <1>3, <1>t, RoomFacts
<1>5. ofile' \in [Proc -> [File -> 0..NOFILE]]
  BY <1>1, <1>4, <1>t DEF TypeOK
<1>6. file' \in [File -> FileType]
  BY <1>1, <1>t DEF TypeOK, FileType
<1>7. /\ ofile'[p][g] = 1 /\ \A h \in File \ {g} : ofile'[p][h] = ofile[p][h]
      /\ \A q \in Proc \ {p} : ofile'[q] = ofile[q]
      /\ file'[g] = [ref |-> 1, type |-> type, off |-> 0]
      /\ \A h \in File \ {g} : file'[h] = file[h]
  BY <1>1, <1>t DEF TypeOK
<1>8. RefsExact'
  <2>1. file'[g].ref = Total(Proc, Holders(g)')
    BY <1>1, <1>2, <1>5, <1>7, <1>t, HoldersMore DEF RefsExact
  <2>2. ASSUME NEW h \in File \ {g} PROVE file'[h].ref = Total(Proc, Holders(h)')
    BY <1>7, <1>t, HoldersStay DEF RefsExact
  <2>3. \A h \in File : file'[h].ref = 0 <=> file'[h].type = FD_NONE
    BY <1>7, <1>t DEF RefsExact, FD_NONE, FD_INODE, FD_DEVICE
  <2> QED
    BY <2>1, <2>2, <2>3 DEF RefsExact
<1>9. Renewed(g)
  <2>1. \A q \in Proc : pc[q] # "idle" => cur[q] # g
    BY <1>2, InUse
  <2> QED
    BY <1>1, <1>3, <1>7, <2>1 DEF Renewed, IInv, FreeInv
<1>10. \A h \in File \ {g} : Kept(h)
  BY <1>3, <1>7 DEF Kept
<1>11. \A q \in Proc : \A h \in File : ofile'[q][h] >= ofile[q][h]
  BY <1>2, <1>7, <1>t, Numbers DEF TypeOK
<1> QED
  BY <1>3, <1>5, <1>6, <1>7, <1>8, <1>9, <1>10, <1>11, <1>t DEF DescriptorStep, TypeOK

LEMMA DupStep ==
  ASSUME IInv, NEW p \in Proc, NEW g \in File, Dup(p, g)
  PROVE  DescriptorStep
<1>t. TableOK /\ TypeOK /\ RefsExact
  BY TypedRefs DEF IInv
<1>1. /\ ofile[p][g] > 0 /\ HasRoom(p)
      /\ ofile' = [ofile EXCEPT ![p][g] = @ + 1]
      /\ file' = [file EXCEPT ![g].ref = @ + 1]
      /\ UNCHANGED <<size, lock, callVars, end, raced>>
  BY DEF Dup
<1>2. ofile[p][g] + 1 \in 0..NOFILE
  BY <1>1, <1>t, RoomFacts
<1>3. /\ ofile' \in [Proc -> [File -> 0..NOFILE]]
      /\ ofile'[p][g] = ofile[p][g] + 1 /\ \A h \in File \ {g} : ofile'[p][h] = ofile[p][h]
      /\ \A q \in Proc \ {p} : ofile'[q] = ofile[q]
  BY <1>1, <1>2, <1>t DEF TypeOK
<1>4. /\ file' \in [File -> FileType]
      /\ file'[g].ref = file[g].ref + 1
      /\ file'[g].type = file[g].type /\ file'[g].off = file[g].off
      /\ \A h \in File \ {g} : file'[h] = file[h]
  <2>1. file \in [File -> FileType] /\ file' = [file EXCEPT ![g].ref = @ + 1]
    BY <1>1, <1>t DEF TypeOK
  <2> QED
    BY <2>1 DEF FileType
<1>5. file[g].ref \in Nat /\ ofile[p][g] <= file[g].ref /\ ofile[p][g] \in Nat
  BY <1>t, HolderFacts, Numbers DEF TypeOK
<1>6. RefsExact'
  <2>1. file'[g].ref = Total(Proc, Holders(g)')
    BY <1>3, <1>4, <1>t, HoldersMore DEF RefsExact
  <2>2. ASSUME NEW h \in File \ {g} PROVE file'[h].ref = Total(Proc, Holders(h)')
    BY <1>3, <1>4, <1>t, HoldersStay DEF RefsExact
  <2>3. file'[g].ref # 0 /\ file[g].ref # 0
    BY <1>1, <1>4, <1>5
  <2>4. \A h \in File : file'[h].ref = 0 <=> file'[h].type = FD_NONE
    BY <1>4, <1>t, <2>3 DEF RefsExact
  <2> QED
    BY <2>1, <2>2, <2>4 DEF RefsExact
<1>7. \A h \in File : Kept(h) /\ (file'[h].ref = 0 => file[h].ref = 0)
  BY <1>1, <1>4, <1>5 DEF Kept
<1>8. \A q \in Proc : \A h \in File : ofile'[q][h] >= ofile[q][h]
  <2>1. ofile \in [Proc -> [File -> 0..NOFILE]]
    BY <1>t DEF TypeOK
  <2> QED
    BY <1>3, <2>1, Numbers
<1> QED
  BY <1>1, <1>3, <1>4, <1>6, <1>7, <1>8, <1>t DEF DescriptorStep, TypeOK

LEMMA CloseStep ==
  ASSUME IInv, NEW p \in Proc, NEW g \in File, Close(p, g)
  PROVE  DescriptorStep
<1>t. TableOK /\ TypeOK /\ RefsExact
  BY TypedRefs DEF IInv
<1>1. /\ ofile[p][g] > 0 /\ pc[p] = "idle"
      /\ ofile' = [ofile EXCEPT ![p][g] = @ - 1]
      /\ UNCHANGED <<size, lock, callVars>>
  BY DEF Close, Idle
<1>2. ofile[p][g] \in Nat /\ ofile[p][g] - 1 \in 0..NOFILE
  BY <1>1, <1>t, Numbers DEF TypeOK
<1>3. /\ ofile' \in [Proc -> [File -> 0..NOFILE]]
      /\ ofile'[p][g] = ofile[p][g] - 1 /\ \A h \in File \ {g} : ofile'[p][h] = ofile[p][h]
      /\ \A q \in Proc \ {p} : ofile'[q] = ofile[q]
  BY <1>1, <1>2, <1>t DEF TypeOK
<1>4. file[g].ref \in Nat /\ ofile[p][g] <= file[g].ref /\ file[g] \in FileType
  BY <1>t, HolderFacts, Numbers DEF TypeOK
<1>5. Total(Proc, Holders(g)') + 1 = file[g].ref
  BY <1>2, <1>3, <1>t, HoldersLess DEF RefsExact
<1>6. \A h \in File \ {g} : Total(Proc, Holders(h)') = file[h].ref
  BY <1>3, <1>t, HoldersStay DEF RefsExact
<1>7. Total(Proc, Holders(g)') \in Nat
  <2>1. Holders(g)' \in [Proc -> 0..NOFILE]
    BY <1>3 DEF Holders
  <2> QED
    BY <2>1, Numbers, TotalBounds
<1>8. CASE file[g].ref = 1
  <2>1. /\ file' = [file EXCEPT ![g] = FreeFile]
        /\ end' = [end EXCEPT ![g] = 0] /\ raced' = [raced EXCEPT ![g] = 0]
    BY <1>8 DEF Close
  <2>2. /\ file' \in [File -> FileType] /\ end' \in [File -> Nat] /\ raced' \in [File -> {0, 1}]
        /\ file'[g] = FreeFile /\ end'[g] = 0 /\ raced'[g] = 0
        /\ \A h \in File \ {g} : file'[h] = file[h] /\ end'[h] = end[h] /\ raced'[h] = raced[h]
    BY <2>1, <1>t DEF TypeOK, FileType, FreeFile
  <2>3. \A q \in Proc : pc[q] # "idle" => cur[q] # g
    <3> SUFFICES ASSUME NEW q \in Proc, pc[q] # "idle", cur[q] = g PROVE FALSE
      OBVIOUS
    <3>1. q # p /\ ofile[q][g] > 0 /\ ofile[q][g] \in Nat
      BY <1>1, InUse
    <3>2. ofile[p][g] + ofile[q][g] <= 1
      BY <1>8, <1>t, <3>1, HolderFacts
    <3> QED
      BY <1>1, <1>2, <3>1, <3>2
  <2>4. Renewed(g) /\ \A h \in File \ {g} : Kept(h)
    BY <2>2, <2>3 DEF Renewed, Kept, FreeFile
  <2>5. RefsExact'
    <3>1. file'[g].ref = Total(Proc, Holders(g)')
      BY <1>5, <1>7, <1>8, <2>2 DEF FreeFile
    <3>2. \A h \in File : file'[h].ref = 0 <=> file'[h].type = FD_NONE
      BY <1>t, <2>2 DEF RefsExact, FreeFile
    <3> QED
      BY <1>6, <2>2, <3>1, <3>2 DEF RefsExact
  <2>6. \A q \in Proc : pc[q] # "idle" => \A h \in File : ofile'[q][h] >= ofile[q][h]
    BY <1>1, <1>3, <1>t, Numbers DEF TypeOK
  <2> QED
    BY <1>1, <1>3, <2>2, <2>4, <2>5, <2>6 DEF DescriptorStep
<1>9. CASE file[g].ref # 1
  <2>1. file' = [file EXCEPT ![g].ref = @ - 1] /\ UNCHANGED <<end, raced>>
    BY <1>9 DEF Close
  <2>2. file[g].ref - 1 \in Nat /\ file[g].ref - 1 # 0 /\ file[g].ref # 0
    BY <1>1, <1>2, <1>4, <1>9
  <2>3. /\ file' \in [File -> FileType]
        /\ file'[g].ref = file[g].ref - 1
        /\ file'[g].type = file[g].type /\ file'[g].off = file[g].off
        /\ \A h \in File \ {g} : file'[h] = file[h]
    BY <2>1, <2>2, <1>t DEF TypeOK, FileType
  <2>4. RefsExact'
    <3>1. file'[g].ref = Total(Proc, Holders(g)')
      BY <1>4, <1>5, <1>7, <2>3
    <3>2. \A h \in File : file'[h].ref = 0 <=> file'[h].type = FD_NONE
      BY <1>t, <2>2, <2>3 DEF RefsExact
    <3> QED
      BY <1>6, <2>3, <3>1, <3>2 DEF RefsExact
  <2>5. \A h \in File : Kept(h) /\ (file'[h].ref = 0 => file[h].ref = 0)
    BY <2>1, <2>2, <2>3 DEF Kept
  <2>6. \A q \in Proc : pc[q] # "idle" => \A h \in File : ofile'[q][h] >= ofile[q][h]
    BY <1>1, <1>3, <1>t, Numbers DEF TypeOK
  <2> QED
    BY <1>1, <1>3, <1>t, <2>1, <2>3, <2>4, <2>5, <2>6 DEF DescriptorStep, TypeOK
<1> QED
  BY <1>8, <1>9

LEMMA ForkStep ==
  ASSUME IInv, NEW p \in Proc, NEW np \in Proc \ {p}, Fork(p, np)
  PROVE  DescriptorStep
<1>t. TableOK /\ TypeOK /\ RefsExact
  BY TypedRefs DEF IInv
<1>1. /\ \A g \in File : ofile[np][g] = 0
      /\ ofile' = [ofile EXCEPT ![np] = ofile[p]]
      /\ file' = [g \in File |-> [file[g] EXCEPT !.ref = @ + ofile[p][g]]]
      /\ UNCHANGED <<size, lock, callVars, end, raced>>
  BY DEF Fork
<1>2. /\ ofile' \in [Proc -> [File -> 0..NOFILE]]
      /\ ofile'[np] = ofile[p] /\ \A q \in Proc \ {np} : ofile'[q] = ofile[q]
  BY <1>1, <1>t DEF TypeOK
<1>3. \A g \in File : ofile[p][g] \in Nat /\ ofile[p][g] <= file[g].ref /\ file[g].ref \in Nat
  BY <1>t, HolderFacts, Numbers DEF TypeOK
<1>4. /\ file' \in [File -> FileType]
      /\ \A g \in File : /\ file'[g].ref = file[g].ref + ofile[p][g]
                         /\ file'[g].type = file[g].type /\ file'[g].off = file[g].off
  <2>1. file \in [File -> FileType]
    BY <1>t DEF TypeOK
  <2>2. file' = [g \in File |-> [file[g] EXCEPT !.ref = @ + ofile[p][g]]]
    BY <1>1
  <2>3. ASSUME NEW g \in File
        PROVE  file'[g] = [ref |-> file[g].ref + ofile[p][g], type |-> file[g].type, off |-> file[g].off]
    BY <2>1, <2>2 DEF FileType
  <2> QED
    BY <1>3, <2>1, <2>2, <2>3 DEF FileType
<1>5. RefsExact'
  <2>1. ASSUME NEW g \in File PROVE file'[g].ref = Total(Proc, Holders(g)')
    BY <1>1, <1>2, <1>4, <1>t, HoldersGrow DEF RefsExact
  <2>2. ASSUME NEW g \in File PROVE file'[g].ref = 0 <=> file'[g].type = FD_NONE
    BY <1>3, <1>4, <1>t DEF RefsExact
  <2> QED
    BY <2>1, <2>2 DEF RefsExact
<1>6. \A g \in File : Kept(g) /\ (file'[g].ref = 0 => file[g].ref = 0)
  BY <1>1, <1>3, <1>4 DEF Kept
<1>7. \A q \in Proc : \A g \in File : ofile'[q][g] >= ofile[q][g]
  BY <1>1, <1>2, <1>3, <1>t, Numbers DEF TypeOK
<1> QED
  BY <1>1, <1>2, <1>4, <1>5, <1>6, <1>7, <1>t DEF DescriptorStep, TypeOK

LEMMA DescriptorInv == ASSUME IInv, DescriptorStep PROVE IInv'
<1>t. /\ TypeOK /\ CallInv /\ MoveInv /\ FreeInv /\ OffsetExact
      /\ size' = size /\ lock' = lock /\ pc' = pc /\ cur' = cur /\ todo' = todo
      /\ moved' = moved /\ reg' = reg
  BY TypedRefs DEF IInv, DescriptorStep, callVars
<1>1. TableOK'
  <2>1. TypeOK' /\ RefsExact'
    BY <1>t DEF DescriptorStep, TypeOK
  <2>2. (TypeOK /\ RefsExact)' => TableOK'
    BY TypedRefs, PTL
  <2> QED
    BY <2>1, <2>2
<1>2. CallInv'
  <2> SUFFICES ASSUME NEW p \in Proc PROVE CallOK(p)'
    BY DEF CallInv
  <2>1. pc[p] # "idle" =>
          cur[p] \in File /\ ofile[p][cur[p]] \in Nat /\ ofile[p][cur[p]] > 0
    BY InUse
  <2>2. pc[p] # "idle" => ofile'[p][cur[p]] >= ofile[p][cur[p]] /\ ofile'[p][cur[p]] \in Nat
    BY <2>1, Numbers DEF DescriptorStep
  <2> QED
    BY <1>t, <2>1, <2>2 DEF CallInv, CallOK, InTransfer
<1>3. MoveInv'
  <2> SUFFICES ASSUME NEW p \in Proc PROVE MoveOK(p)'
    BY DEF MoveInv
  <2>1. InTransfer(p) => cur[p] \in File /\ Kept(cur[p])
    BY InUse DEF DescriptorStep, Renewed, InTransfer
  <2> QED
    BY <1>t, <2>1 DEF MoveInv, MoveOK, InTransfer, Kept
<1>4. FreeInv'
  BY <1>t DEF DescriptorStep, FreeInv, Kept, Renewed
<1>5. OffsetExact'
  <2>1. \A g \in File : Moving(g)' <=> Moving(g)
    BY <1>t DEF Moving
  <2>2. ASSUME NEW g \in File, Kept(g)
        PROVE  /\ raced'[g] = 0 /\ ~Moving(g)' => file'[g].off = end'[g]
               /\ raced'[g] = 0 => file'[g].off <= size'
    BY <1>t, <2>1, <2>2 DEF Kept, OffsetExact, Consecutive, OffsetInside
  <2>3. ASSUME NEW g \in File, Renewed(g)
        PROVE  /\ raced'[g] = 0 /\ ~Moving(g)' => file'[g].off = end'[g]
               /\ raced'[g] = 0 => file'[g].off <= size'
    BY <1>t, <2>3, Numbers DEF Renewed, TypeOK
  <2> QED
    BY <2>2, <2>3 DEF DescriptorStep, OffsetExact, Consecutive, OffsetInside
<1> QED
  BY <1>1, <1>2, <1>3, <1>4, <1>5 DEF IInv

\* What a step of p in a call leaves to the others.
Elsewhere(p) ==
  \A q \in Proc \ {p} :
    pc'[q] = pc[q] /\ cur'[q] = cur[q] /\ todo'[q] = todo[q] /\ moved'[q] = moved[q] /\ reg'[q] = reg[q]

\* A step that does not touch what the processes share.
LEMMA QuietInv ==
  ASSUME IInv, NEW p \in Proc, UNCHANGED <<file, ofile, size, lock, end, raced>>,
         TypeOK', Elsewhere(p), InTransfer(p)' <=> InTransfer(p),
         InTransfer(p) => cur'[p] = cur[p], CallOK(p)', MoveOK(p)'
  PROVE  IInv'
<1>t. TypeOK /\ RefsExact /\ CallInv /\ MoveInv /\ FreeInv /\ OffsetExact
  BY TypedRefs DEF IInv
<1>1. TableOK'
  <2>1. RefsExact'
    BY <1>t DEF RefsExact, Holders
  <2>2. (TypeOK /\ RefsExact)' => TableOK'
    BY TypedRefs, PTL
  <2> QED
    BY <2>1, <2>2
<1>2. ASSUME NEW q \in Proc \ {p} PROVE CallOK(q)' /\ MoveOK(q)'
  BY <1>t DEF CallInv, MoveInv, CallOK, MoveOK, InTransfer, Elsewhere
<1>3. CallInv' /\ MoveInv'
  BY <1>2 DEF CallInv, MoveInv
<1>4. FreeInv'
  BY <1>t DEF FreeInv
<1>5. OffsetExact'
  <2>1. \A g \in File : Moving(g)' <=> Moving(g)
    BY DEF Moving, InTransfer, Elsewhere
  <2> QED
    BY <1>t, <2>1 DEF OffsetExact, Consecutive, OffsetInside
<1> QED
  BY <1>1, <1>3, <1>4, <1>5 DEF IInv

\* The holder of the lock is the only one in a transfer.
LEMMA OneTransfer ==
  ASSUME IInv, NEW q \in Proc, InTransfer(q)
  PROVE  lock = q
BY DEF IInv, CallInv, CallOK

\* The transfer of k bytes under the lock.
LEMMA TransferInv ==
  ASSUME IInv, NEW p \in Proc, pc[p] \in {"read", "write"}, lock = NoProc,
         NEW k \in Nat \ {0}, NEW rest \in Nat,
         UNCHANGED <<file, ofile, cur, reg, raced>>,
         lock' = p, pc' = [pc EXCEPT ![p] = "load"],
         moved' = [moved EXCEPT ![p] = k], todo' = [todo EXCEPT ![p] = rest],
         end' = [end EXCEPT ![cur[p]] = @ + k],
         size' \in 0..MAXSIZE, size' >= size,
         raced[cur[p]] = 0 => file[cur[p]].off + k <= size'
  PROVE  IInv'
<1>t. TypeOK /\ RefsExact /\ CallInv /\ MoveInv /\ FreeInv /\ OffsetExact
  BY TypedRefs DEF IInv
<1> DEFINE g == cur[p]
<1>g. g \in File /\ end[g] \in Nat /\ file[g].ref >= 1 /\ file[g].ref \in Nat
  BY <1>t, InUse DEF TypeOK
<1>n. \A q \in Proc : ~InTransfer(q)
  BY OneTransfer, Numbers
<1>m. ~Moving(g) /\ \A h \in File : ~Moving(h)
  BY <1>n, <1>g DEF Moving, InTransfer
<1>1. TableOK'
  <2>1. RefsExact'
    BY <1>t DEF RefsExact, Holders
  <2>2. TypeOK'
    BY <1>t, <1>g DEF TypeOK, PC
  <2>3. (TypeOK /\ RefsExact)' => TableOK'
    BY TypedRefs, PTL
  <2> QED
    BY <2>1, <2>2, <2>3
<1>2. CallInv'
  <2>1. CallOK(p)'
    BY <1>t, <1>g DEF CallInv, CallOK, InTransfer, TypeOK
  <2>2. ASSUME NEW q \in Proc \ {p} PROVE CallOK(q)'
    <3>1. size \in Int /\ size' \in Int /\ reg[q] \in Int
      BY <1>t, Numbers DEF TypeOK
    <3>2. pc'[q] = pc[q] /\ todo'[q] = todo[q] /\ CallOK(q)
      BY <1>t DEF TypeOK, CallInv
    <3> QED
      BY <1>n, <3>1, <3>2 DEF CallOK, InTransfer
  <2> QED
    BY <2>1, <2>2 DEF CallInv
<1>3. MoveInv'
  <2>1. MoveOK(p)'
    <3>1. raced[g] = 0 => file[g].off = end[g]
      BY <1>t, <1>g, <1>m DEF OffsetExact, Consecutive
    <3>2. end'[g] = end[g] + k /\ moved'[p] = k /\ pc'[p] = "load" /\ file'[g] = file[g]
      BY <1>t, <1>g DEF TypeOK
    <3> QED
      BY <3>1, <3>2 DEF MoveOK, InTransfer
  <2>2. ASSUME NEW q \in Proc \ {p} PROVE MoveOK(q)'
    BY <1>t, <1>n DEF MoveOK, InTransfer, TypeOK
  <2> QED
    BY <2>1, <2>2 DEF MoveInv
<1>4. FreeInv'
  BY <1>t, <1>g DEF FreeInv, TypeOK
<1>5. OffsetExact'
  <2>1. Moving(g)'
    BY <1>t DEF Moving, TypeOK
  <2>2. \A h \in File \ {g} : end'[h] = end[h]
    BY <1>t, <1>g DEF TypeOK
  <2>3. Consecutive'
    BY <1>t, <1>m, <2>1, <2>2 DEF OffsetExact, Consecutive
  <2>4. \A h \in File : file[h].off \in Int
    BY <1>t DEF TypeOK, FileType
  <2>5. size \in Int /\ size' \in Int
    BY <1>t, Numbers DEF TypeOK
  <2>6. OffsetInside'
    BY <1>t, <2>4, <2>5 DEF OffsetExact, OffsetInside
  <2> QED
    BY <2>3, <2>6 DEF OffsetExact
<1> QED
  BY <1>1, <1>2, <1>3, <1>4, <1>5 DEF IInv

\* The steps of a call on its own registers.
LEMMA CallStep ==
  ASSUME IInv, NEW p \in Proc, NEW g \in File, NEW l \in {"read", "write"}, NEW k \in Counts,
         Call(p, g, l, k)
  PROVE  IInv'
<1>t. TypeOK /\ CallInv
  BY TypedRefs DEF IInv
<1>1. /\ pc[p] = "idle" /\ ofile[p][g] > 0
      /\ pc' = [pc EXCEPT ![p] = l] /\ cur' = [cur EXCEPT ![p] = g]
      /\ todo' = [todo EXCEPT ![p] = k]
      /\ UNCHANGED <<file, ofile, size, lock, moved, reg, end, raced>>
  BY DEF Call, Idle, Goto
<1>2. k \in Nat /\ g \in 0..NFILE
  BY Numbers DEF File
<1>3. TypeOK'
  BY <1>t, <1>1, <1>2 DEF TypeOK, PC
<1>4. Elsewhere(p)
  BY <1>t, <1>1 DEF Elsewhere, TypeOK
<1>5. pc'[p] = l /\ cur'[p] = g /\ todo'[p] = k
  BY <1>t, <1>1 DEF TypeOK
<1>6. CallOK(p)' /\ MoveOK(p)'
  BY <1>1, <1>2, <1>5 DEF CallOK, MoveOK, InTransfer
<1>7. ~InTransfer(p) /\ ~InTransfer(p)'
  BY <1>1, <1>5 DEF InTransfer
<1> QED
  BY <1>1, <1>3, <1>4, <1>6, <1>7, QuietInv

LEMMA ReturnStep ==
  ASSUME IInv, NEW p \in Proc, pc[p] \in {"read", "write"}, Return(p),
         UNCHANGED <<file, ofile, size, lock, end, raced>>
  PROVE  IInv'
<1>t. TypeOK /\ CallInv
  BY TypedRefs DEF IInv
<1>1. TypeOK'
  BY <1>t, Numbers DEF TypeOK, PC, Return, Goto
<1>2. Elsewhere(p)
  BY <1>t DEF Elsewhere, TypeOK, Return, Goto
<1>3. pc'[p] = "idle"
  BY <1>t DEF TypeOK, Return, Goto
<1>4. CallOK(p)' /\ MoveOK(p)' /\ ~InTransfer(p) /\ ~InTransfer(p)'
  BY <1>3 DEF CallOK, MoveOK, InTransfer
<1> QED
  BY <1>1, <1>2, <1>4, QuietInv

LEMMA LoadOffStep ==
  ASSUME IInv, NEW p \in Proc, LoadOff(p)
  PROVE  IInv'
<1>t. TypeOK /\ CallInv /\ MoveInv
  BY TypedRefs DEF IInv
<1>1. /\ pc[p] = "load"
      /\ reg' = [reg EXCEPT ![p] = file[cur[p]].off] /\ pc' = [pc EXCEPT ![p] = "store"]
      /\ UNCHANGED <<file, ofile, size, lock, cur, todo, moved, end, raced>>
  BY DEF LoadOff, Goto
<1>2. cur[p] \in File /\ ofile[p][cur[p]] > 0 /\ file[cur[p]].off \in Nat
  BY <1>1, <1>t, InUse DEF TypeOK, FileType
<1>3. TypeOK'
  BY <1>t, <1>1, <1>2 DEF TypeOK, PC
<1>4. Elsewhere(p)
  BY <1>t, <1>1 DEF Elsewhere, TypeOK
<1>5. pc'[p] = "store" /\ reg'[p] = file[cur[p]].off
  BY <1>t, <1>1 DEF TypeOK
<1>6. CallOK(p)'
  BY <1>t, <1>1, <1>2, <1>5 DEF CallInv, CallOK, InTransfer
<1>7. MoveOK(p)'
  BY <1>t, <1>1, <1>5 DEF MoveInv, MoveOK, InTransfer
<1>8. InTransfer(p) /\ InTransfer(p)'
  BY <1>1, <1>5 DEF InTransfer
<1> QED
  BY <1>1, <1>3, <1>4, <1>6, <1>7, <1>8, QuietInv

LEMMA ClampIn ==
  ASSUME NEW o \in Int, NEW s \in Nat
  PROVE  Clamp(o, s) \in Nat /\ Clamp(o, s) <= s
BY DEF Clamp

LEMMA SeekSetStep ==
  ASSUME IInv, NEW p \in Proc, NEW g \in File, NEW o \in Offsets, SeekSet(p, g, o)
  PROVE  IInv'
<1>t. TypeOK /\ CallInv
  BY TypedRefs DEF IInv
<1>1. /\ pc[p] = "idle" /\ ofile[p][g] > 0
      /\ cur' = [cur EXCEPT ![p] = g] /\ reg' = [reg EXCEPT ![p] = Clamp(o, size)]
      /\ pc' = [pc EXCEPT ![p] = "seek"]
      /\ UNCHANGED <<file, ofile, size, lock, todo, moved, end, raced>>
  BY DEF SeekSet, Idle, Goto
<1>2. Clamp(o, size) \in Nat /\ Clamp(o, size) <= size /\ g \in 0..NFILE
  <2>1. o \in Int /\ size \in Nat /\ g \in 0..NFILE
    BY <1>t, Numbers DEF TypeOK, File
  <2> QED
    BY <2>1, ClampIn
<1>3. TypeOK'
  BY <1>t, <1>1, <1>2 DEF TypeOK, PC
<1>4. Elsewhere(p)
  BY <1>t, <1>1 DEF Elsewhere, TypeOK
<1>5. pc'[p] = "seek" /\ cur'[p] = g /\ reg'[p] = Clamp(o, size)
  BY <1>t, <1>1 DEF TypeOK
<1>6. CallOK(p)' /\ MoveOK(p)' /\ ~InTransfer(p) /\ ~InTransfer(p)'
  BY <1>1, <1>2, <1>5 DEF CallOK, MoveOK, InTransfer
<1> QED
  BY <1>1, <1>3, <1>4, <1>6, QuietInv

LEMMA SeekCurStep ==
  ASSUME IInv, NEW p \in Proc, NEW g \in File, NEW o \in Offsets, SeekCur(p, g, o)
  PROVE  IInv'
<1>t. TypeOK /\ CallInv
  BY TypedRefs DEF IInv
<1>1. /\ pc[p] = "idle" /\ ofile[p][g] > 0
      /\ cur' = [cur EXCEPT ![p] = g] /\ reg' = [reg EXCEPT ![p] = size]
      /\ todo' = [todo EXCEPT ![p] = o] /\ pc' = [pc EXCEPT ![p] = "add"]
      /\ UNCHANGED <<file, ofile, size, lock, moved, end, raced>>
  BY DEF SeekCur, Idle, Goto
<1>2. size \in Nat /\ o \in Int /\ g \in 0..NFILE
  BY <1>t, Numbers DEF TypeOK, File
<1>3. TypeOK'
  BY <1>t, <1>1, <1>2 DEF TypeOK, PC
<1>4. Elsewhere(p)
  BY <1>t, <1>1 DEF Elsewhere, TypeOK
<1>5. pc'[p] = "add" /\ cur'[p] = g /\ reg'[p] = size
  BY <1>t, <1>1 DEF TypeOK
<1>6. CallOK(p)' /\ MoveOK(p)' /\ ~InTransfer(p) /\ ~InTransfer(p)'
  BY <1>1, <1>2, <1>5 DEF CallOK, MoveOK, InTransfer
<1> QED
  BY <1>1, <1>3, <1>4, <1>6, QuietInv

LEMMA SeekAddStep ==
  ASSUME IInv, NEW p \in Proc, SeekAdd(p)
  PROVE  IInv'
<1>t. TypeOK /\ CallInv
  BY TypedRefs DEF IInv
<1> DEFINE c == Clamp(file[cur[p]].off + todo[p], reg[p])
<1>1. /\ pc[p] = "add"
      /\ reg' = [reg EXCEPT ![p] = c]
      /\ todo' = [todo EXCEPT ![p] = 0] /\ pc' = [pc EXCEPT ![p] = "seek"]
      /\ UNCHANGED <<file, ofile, size, lock, cur, moved, end, raced>>
  BY <1>t DEF SeekAdd, Goto, TypeOK
<1>2. cur[p] \in File /\ ofile[p][cur[p]] > 0 /\ reg[p] <= size
  BY <1>1, <1>t DEF CallInv, CallOK
<1>3. c \in Nat /\ c <= size
  <2>1. file[cur[p]].off + todo[p] \in Int /\ reg[p] \in Nat /\ size \in Nat
    BY <1>t, <1>2, Numbers DEF TypeOK, FileType
  <2>2. c \in Nat /\ c <= reg[p]
    BY <2>1, ClampIn
  <2> QED
    BY <1>2, <2>1, <2>2
<1> HIDE DEF c
<1>4. TypeOK'
  BY <1>t, <1>1, <1>3 DEF TypeOK, PC
<1>5. Elsewhere(p)
  BY <1>t, <1>1 DEF Elsewhere, TypeOK
<1>6. pc'[p] = "seek" /\ reg'[p] = c
  BY <1>t, <1>1 DEF TypeOK
<1>7. CallOK(p)' /\ MoveOK(p)' /\ ~InTransfer(p) /\ ~InTransfer(p)'
  BY <1>1, <1>2, <1>3, <1>6 DEF CallOK, MoveOK, InTransfer
<1> QED
  BY <1>1, <1>4, <1>5, <1>7, QuietInv

LEMMA ReadStep ==
  ASSUME IInv, NEW p \in Proc, Read(p)
  PROVE  IInv'
<1>t. TypeOK /\ CallInv /\ OffsetExact
  BY TypedRefs DEF IInv
<1> DEFINE g == cur[p]
           off == file[g].off
           k == IF off > size THEN 0 ELSE Min2(todo[p], size - off)
<1>1. /\ pc[p] = "read" /\ lock = NoProc /\ Transfer(p, k, 0)
      /\ UNCHANGED <<file, ofile, size, raced>>
  BY DEF Read, Transfer
<1>2. g \in File /\ todo[p] \in Nat
  BY <1>1, <1>t DEF CallInv, CallOK
<1>3. off \in Nat /\ size \in Nat /\ size \in 0..MAXSIZE
  BY <1>2, <1>t, Numbers DEF TypeOK, FileType
<1>4. k \in Nat /\ (k # 0 => off + k <= size)
  BY <1>2, <1>3 DEF Min2
<1> HIDE DEF k
<1>5. CASE k = 0
  BY <1>1, <1>5, ReturnStep DEF Transfer
<1>6. CASE k # 0
  <2>1. /\ lock' = p /\ moved' = [moved EXCEPT ![p] = k] /\ todo' = [todo EXCEPT ![p] = 0]
        /\ end' = [end EXCEPT ![cur[p]] = @ + k] /\ pc' = [pc EXCEPT ![p] = "load"]
        /\ UNCHANGED <<cur, reg>>
    BY <1>1, <1>6 DEF Transfer, Goto
  <2>2. k \in Nat \ {0} /\ 0 \in Nat /\ size' \in 0..MAXSIZE /\ size' >= size /\ off + k <= size'
    BY <1>1, <1>3, <1>4, <1>6
  <2> QED
    BY <1>1, <2>1, <2>2, TransferInv
<1> QED
  BY <1>5, <1>6

LEMMA WriteStep ==
  ASSUME IInv, NEW p \in Proc, Write(p)
  PROVE  IInv'
<1>t. TypeOK /\ CallInv /\ OffsetExact
  BY TypedRefs DEF IInv
<1> DEFINE g == cur[p]
           off == file[g].off
           n1 == Min2(todo[p], Chunk)
<1>1. PICK k \in IF off > size \/ off + n1 > MAXSIZE THEN {0} ELSE 0..n1 :
        /\ Transfer(p, k, IF k = n1 THEN todo[p] - n1 ELSE 0)
        /\ size' = IF k > 0 /\ off + k > size THEN off + k ELSE size
  BY DEF Write
<1>2. pc[p] = "write" /\ lock = NoProc /\ UNCHANGED <<file, ofile, raced>>
  BY <1>1 DEF Write, Transfer
<1>3. g \in File /\ todo[p] \in Nat
  BY <1>2, <1>t DEF CallInv, CallOK
<1>4. off \in Nat /\ size \in Nat /\ size <= MAXSIZE /\ MAXSIZE \in Nat
  BY <1>3, <1>t, Numbers DEF TypeOK, FileType
<1>5. n1 \in Nat /\ n1 <= todo[p]
  BY <1>3, Numbers DEF Min2
<1> DEFINE rest == IF k = n1 THEN todo[p] - n1 ELSE 0
<1> HIDE DEF off, n1
<1>6. rest \in Nat
  BY <1>3, <1>5
<1>7. k \in Nat /\ (k # 0 => off + k <= MAXSIZE)
  BY <1>1, <1>4, <1>5
<1>8. CASE k = 0
  <2>1. Return(p) /\ UNCHANGED <<lock, end>> /\ size' = size
    BY <1>1, <1>8 DEF Transfer
  <2> QED
    BY <1>2, <2>1, ReturnStep
<1>9. CASE k # 0
  <2>1. /\ lock' = p /\ moved' = [moved EXCEPT ![p] = k] /\ todo' = [todo EXCEPT ![p] = rest]
        /\ end' = [end EXCEPT ![cur[p]] = @ + k] /\ pc' = [pc EXCEPT ![p] = "load"]
        /\ UNCHANGED <<cur, reg>>
    BY <1>1, <1>9 DEF Transfer, Goto
  <2>2. k \in Nat \ {0} /\ size' \in 0..MAXSIZE /\ size' >= size /\ off + k <= size'
    BY <1>1, <1>4, <1>7, <1>9
  <2>3. file[cur[p]].off + k <= size'
    BY <2>2 DEF off
  <2> HIDE DEF rest
  <2> QED
    BY <1>2, <1>6, <2>1, <2>2, <2>3, TransferInv
<1> QED
  BY <1>8, <1>9

\* A step that stores an offset.
LEMMA RefsKept ==
  ASSUME IInv, NEW g \in File, NEW o, ofile' = ofile, file' = [file EXCEPT ![g].off = o]
  PROVE  RefsExact'
<1>1. RefsExact /\ file \in [File -> FileType]
  BY TypedRefs DEF IInv, TypeOK
<1>2. \A h \in File : file'[h].ref = file[h].ref /\ file'[h].type = file[h].type
  BY <1>1 DEF FileType
<1> QED
  BY <1>1, <1>2 DEF RefsExact, Holders

LEMMA StoreOffStep ==
  ASSUME IInv, NEW p \in Proc, StoreOff(p)
  PROVE  IInv'
<1>t. TypeOK /\ RefsExact /\ CallInv /\ MoveInv /\ FreeInv /\ OffsetExact
  BY TypedRefs DEF IInv
<1> DEFINE g == cur[p]
           o == reg[p] + moved[p]
<1>1. /\ pc[p] = "store" /\ file' = [file EXCEPT ![g].off = o] /\ lock' = NoProc
      /\ UNCHANGED <<ofile, size, end, raced>>
  BY DEF StoreOff
<1>2. /\ g \in File /\ ofile[p][g] > 0 /\ file[g].ref \in Nat /\ file[g].ref >= 1
      /\ lock = p /\ todo[p] \in Nat
  BY <1>1, <1>t, InUse DEF CallInv, CallOK, InTransfer
<1>3. o \in Nat
  BY <1>t DEF TypeOK
<1>4. /\ file' \in [File -> FileType]
      /\ file'[g].off = o /\ file'[g].ref = file[g].ref
      /\ \A h \in File \ {g} : file'[h] = file[h]
  BY <1>1, <1>2, <1>3, <1>t DEF TypeOK, FileType
<1>5. /\ pc' \in [Proc -> PC] /\ pc'[p] \in {"idle", "write"}
      /\ cur' \in [Proc -> 0..NFILE] /\ todo' \in [Proc -> Int]
      /\ moved' \in [Proc -> Nat] /\ reg' \in [Proc -> Nat]
      /\ pc'[p] = "write" => cur'[p] = cur[p] /\ todo'[p] = todo[p]
      /\ Elsewhere(p)
  <2>1. CASE todo[p] = 0
    <3>1. Return(p)
      BY <2>1 DEF StoreOff
    <3> QED
      BY <3>1, <1>t, Numbers DEF Return, Goto, TypeOK, PC, Elsewhere
  <2>2. CASE todo[p] # 0
    <3>1. /\ pc' = [pc EXCEPT ![p] = "write"]
          /\ moved' = [moved EXCEPT ![p] = 0] /\ reg' = [reg EXCEPT ![p] = 0]
          /\ UNCHANGED <<cur, todo>>
      BY <2>2 DEF StoreOff, Goto
    <3> QED
      BY <3>1, <1>t, Numbers DEF TypeOK, PC, Elsewhere
  <2> QED
    BY <2>1, <2>2
<1>6. \A q \in Proc : ~InTransfer(q)'
  <2>1. \A q \in Proc \ {p} : ~InTransfer(q)
    BY <1>2, OneTransfer
  <2> QED
    BY <1>5, <2>1 DEF InTransfer, Elsewhere
<1>7. raced[g] = 0 => o = end[g] /\ o <= size
  BY <1>1, <1>t DEF MoveInv, MoveOK, InTransfer
<1>8. \A h \in File \ {g} : ~Moving(h)
  <2>1. \A q \in Proc \ {p} : ~InTransfer(q)
    BY <1>2, OneTransfer
  <2> QED
    BY <2>1 DEF Moving, InTransfer
<1>9. TableOK'
  <2>1. TypeOK'
    BY <1>t, <1>1, <1>4, <1>5 DEF TypeOK
  <2>2. RefsExact'
    BY <1>1, <1>2, RefsKept
  <2>3. (TypeOK /\ RefsExact)' => TableOK'
    BY TypedRefs, PTL
  <2> QED
    BY <2>1, <2>2, <2>3
<1>10. CallInv'
  <2>1. CallOK(p)'
    BY <1>1, <1>2, <1>5, <1>6 DEF CallOK
  <2>2. ASSUME NEW q \in Proc \ {p} PROVE CallOK(q)'
    BY <1>1, <1>5, <1>6, <1>t DEF CallInv, CallOK, Elsewhere
  <2> QED
    BY <2>1, <2>2 DEF CallInv
<1>11. MoveInv'
  BY <1>6 DEF MoveInv, MoveOK
<1>12. FreeInv'
  BY <1>1, <1>2, <1>4, <1>t DEF FreeInv
<1>13. OffsetExact'
  <2>1. ASSUME NEW h \in File, raced'[h] = 0
        PROVE  file'[h].off = end'[h] /\ file'[h].off <= size'
    <3>1. CASE h = g
      BY <1>1, <1>4, <1>7, <2>1, <3>1
    <3>2. CASE h # g
      BY <1>1, <1>4, <1>8, <1>t, <2>1, <3>2 DEF OffsetExact, Consecutive, OffsetInside
    <3> QED
      BY <3>1, <3>2
  <2> QED
    BY <2>1 DEF OffsetExact, Consecutive, OffsetInside
<1> QED
  BY <1>9, <1>10, <1>11, <1>12, <1>13 DEF IInv

\* A seek into a transfer makes the offset of the file unknown until the next one.
LEMMA SeekStoreStep ==
  ASSUME IInv, NEW p \in Proc, SeekStore(p)
  PROVE  IInv'
<1>t. TypeOK /\ RefsExact /\ CallInv /\ MoveInv /\ FreeInv /\ OffsetExact
  BY TypedRefs DEF IInv
<1> DEFINE g == cur[p]
           r == IF Moving(g) THEN 1 ELSE 0
<1>1. /\ pc[p] = "seek" /\ file' = [file EXCEPT ![g].off = reg[p]]
      /\ end' = [end EXCEPT ![g] = reg[p]] /\ raced' = [raced EXCEPT ![g] = r]
      /\ Return(p) /\ UNCHANGED <<ofile, size, lock>>
  BY DEF SeekStore
<1>2. /\ g \in File /\ file[g].ref \in Nat /\ file[g].ref >= 1
      /\ reg[p] \in Nat /\ reg[p] <= size
  BY <1>1, <1>t, InUse DEF CallInv, CallOK, TypeOK
<1>r. r \in {0, 1} /\ (r = 0 <=> ~Moving(g))
  OBVIOUS
<1> HIDE DEF r
<1>3. /\ file' \in [File -> FileType] /\ end' \in [File -> Nat] /\ raced' \in [File -> {0, 1}]
      /\ file'[g].off = reg[p] /\ file'[g].ref = file[g].ref
      /\ end'[g] = reg[p] /\ raced'[g] = r
      /\ \A h \in File \ {g} : file'[h] = file[h] /\ end'[h] = end[h] /\ raced'[h] = raced[h]
  BY <1>1, <1>2, <1>r, <1>t DEF TypeOK, FileType
<1>4. /\ pc' \in [Proc -> PC] /\ pc'[p] = "idle"
      /\ cur' \in [Proc -> 0..NFILE] /\ todo' \in [Proc -> Int]
      /\ moved' \in [Proc -> Nat] /\ reg' \in [Proc -> Nat]
      /\ Elsewhere(p)
  BY <1>1, <1>t, Numbers DEF Return, Goto, TypeOK, PC, Elsewhere
<1>5. \A h \in File : Moving(h)' <=> Moving(h)
  BY <1>1, <1>4 DEF Moving, Elsewhere
<1>6. TableOK'
  <2>1. TypeOK'
    BY <1>t, <1>1, <1>3, <1>4 DEF TypeOK
  <2>2. RefsExact'
    BY <1>1, <1>2, RefsKept
  <2>3. (TypeOK /\ RefsExact)' => TableOK'
    BY TypedRefs, PTL
  <2> QED
    BY <2>1, <2>2, <2>3
<1>7. CallInv'
  <2>1. CallOK(p)'
    BY <1>4 DEF CallOK, InTransfer
  <2>2. ASSUME NEW q \in Proc \ {p} PROVE CallOK(q)'
    BY <1>1, <1>4, <1>t DEF CallInv, CallOK, InTransfer, Elsewhere
  <2> QED
    BY <2>1, <2>2 DEF CallInv
<1>8. MoveInv'
  <2> SUFFICES ASSUME NEW q \in Proc, InTransfer(q)', raced'[cur'[q]] = 0
               PROVE  MoveOK(q)'
    BY DEF MoveInv, MoveOK
  <2>1. q # p /\ InTransfer(q) /\ cur'[q] = cur[q]
    BY <1>4 DEF InTransfer, Elsewhere
  <2>2. cur[q] \in File
    BY <1>t, <2>1 DEF CallInv, CallOK, InTransfer
  <2>3. cur[q] # g
    BY <1>3, <1>r, <2>1 DEF Moving, InTransfer
  <2> QED
    BY <1>1, <1>3, <1>4, <1>t, <2>1, <2>2, <2>3 DEF MoveInv, MoveOK, InTransfer, Elsewhere
<1>9. FreeInv'
  BY <1>2, <1>3, <1>t DEF FreeInv
<1>10. OffsetExact'
  <2>1. ASSUME NEW h \in File, raced'[h] = 0
        PROVE  (~Moving(h)' => file'[h].off = end'[h]) /\ file'[h].off <= size'
    <3>1. CASE h = g
      BY <1>1, <1>2, <1>3, <3>1
    <3>2. CASE h # g
      BY <1>1, <1>3, <1>5, <1>t, <2>1, <3>2 DEF OffsetExact, Consecutive, OffsetInside
    <3> QED
      BY <3>1, <3>2
  <2> QED
    BY <2>1 DEF OffsetExact, Consecutive, OffsetInside
<1> QED
  BY <1>6, <1>7, <1>8, <1>9, <1>10 DEF IInv

-----------------------------------------------------------------------------
(* Theorems.                                                               *)

LEMMA InitInv == Init => IInv
<1> SUFFICES ASSUME Init PROVE IInv
  OBVIOUS
<1>1. TypeOK
  BY Numbers DEF Init, TypeOK, FileType, FreeFile, PC, FD_NONE
<1>2. RefsExact
  <2> SUFFICES ASSUME NEW g \in File PROVE Total(Proc, Holders(g)) = 0
    BY DEF RefsExact, Init, FreeFile
  <2>1. \A q \in Proc : Holders(g)[q] = 0
    BY DEF Holders, Init
  <2>2. Pairs(Proc, Holders(g)) = {}
    BY <2>1, Numbers DEF Pairs
  <2> QED
    BY <2>2, Numbers, PairsFinite, FS_EmptySet
<1>3. CallInv /\ MoveInv
  BY DEF Init, CallInv, CallOK, MoveInv, MoveOK, InTransfer
<1>4. FreeInv /\ OffsetExact
  BY Numbers DEF Init, FreeInv, OffsetExact, Consecutive, OffsetInside, FreeFile
<1> QED
  BY <1>1, <1>2, <1>3, <1>4, TypedRefs DEF IInv

\* The random device shares no variable with the files.
LEMMA StutterInv == ASSUME IInv, UNCHANGED fileVars PROVE IInv'
<1>1. UNCHANGED <<file, ofile, size, lock, pc, cur, todo, moved, reg, end, raced>>
  BY DEF fileVars, callVars
<1>2. TableOK'
  BY <1>1 DEF IInv, TableOK, TypeOK, RefsExact, Holders
<1>3. CallInv' /\ MoveInv'
  BY <1>1 DEF IInv, CallInv, CallOK, MoveInv, MoveOK, InTransfer
<1>4. FreeInv' /\ OffsetExact'
  BY <1>1 DEF IInv, FreeInv, OffsetExact, Consecutive, OffsetInside, Moving
<1> QED
  BY <1>2, <1>3, <1>4 DEF IInv

LEMMA NextInv == ASSUME IInv, [Next]_vars PROVE IInv'
<1>1. ASSUME UNCHANGED vars PROVE IInv'
  BY <1>1, StutterInv DEF vars
<1>2. ASSUME NEW p \in Proc, Descriptors(p) PROVE IInv'
  BY <1>2, OpenStep, DupStep, CloseStep, ForkStep, DescriptorInv DEF Descriptors
<1>3. ASSUME NEW p \in Proc, Step(p) PROVE IInv'
  BY <1>3, ReadStep, WriteStep, LoadOffStep, StoreOffStep, SeekAddStep, SeekStoreStep, StutterInv
     DEF Step, DeviceStep
<1>4. ASSUME NEW p \in Proc, NEW g \in File, Calls(p, g) PROVE IInv'
  BY <1>4, CallStep, SeekSetStep, SeekCurStep, StutterInv DEF Calls, Device
<1> QED
  BY <1>1, <1>2, <1>3, <1>4 DEF Next

LEMMA SpecInv == Spec => []IInv
<1>1. IInv /\ [Next]_vars => IInv'
  BY NextInv
<1> QED
  BY InitInv, <1>1, PTL DEF Spec

\* Every variable keeps its type; no offset and no count gets negative.
THEOREM TypeCorrect == Spec => []TypeOK
<1>1. IInv => TypeOK
  BY DEF IInv, TableOK
<1> QED
  BY SpecInv, <1>1, PTL

\* However open(), dup(), close(), fork() and the calls on files interleave, the
\* reference count of a struct file (f->ref of filealloc(), filedup() and
\* fileclose()) is the number of descriptors that mean it.
THEOREM RefsAreExact == Spec => []RefsExact
<1>1. IInv => RefsExact
  BY DEF IInv, TableOK
<1> QED
  BY SpecInv, <1>1, PTL

\* The unlocked f->off of fileread(), filewrite() and fileseek() is still exact: no
\* gap, no overlap and never behind the end of the file, unless the last seek
\* stored its offset in the middle of a transfer.
THEOREM OffsetIsExact == Spec => []OffsetExact
<1>1. IInv => OffsetExact
  BY DEF IInv
<1> QED
  BY SpecInv, <1>1, PTL

-----------------------------------------------------------------------------
(* The random device.                                                      *)

\* A process that has loaded the seed will not store 0 either.
SeedInv ==
  /\ rpc \in [Proc -> {"idle", "load", "store", "copy"}] /\ value \in [Proc -> 0..255]
  /\ random_seed \in 0..255
  /\ 0 \notin Seeds =>
       random_seed # 0 /\ \A p \in Proc : rpc[p] = "store" => value[p] # 0

\* Only 0 is followed by 0.
LEMMA LfsrByte ==
  ASSUME NEW x \in 0..255
  PROVE  Lfsr(x) \in 0..255 /\ (x # 0 => Lfsr(x) # 0)
BY DEF Lfsr

LEMMA RandomNextInv == ASSUME SeedInv, [Next]_vars PROVE SeedInv'
<1>1. ASSUME UNCHANGED randomVars PROVE SeedInv'
  BY <1>1 DEF SeedInv, randomVars
<1>2. ASSUME NEW p \in Proc, RandomCall(p) PROVE SeedInv'
  <2>1. ASSUME NEW n \in 1..MaxRead, RandomRead(p, n) PROVE SeedInv'
    BY <2>1 DEF SeedInv, RandomRead
  <2>2. ASSUME NEW seed \in Seeds, RandomWrite(p, seed) PROVE SeedInv'
    BY <2>2, RandomAssumption DEF SeedInv, RandomWrite
  <2> QED
    BY <1>2, <2>1, <2>2 DEF RandomCall
<1>3. ASSUME NEW p \in Proc, RandomStep(p) PROVE SeedInv'
  <2>1. CASE Load(p)
    BY <2>1 DEF SeedInv, Load
  <2>2. CASE Store(p)
    <3>1. Lfsr(value[p]) \in 0..255 /\ (value[p] # 0 => Lfsr(value[p]) # 0)
      BY LfsrByte DEF SeedInv
    <3> QED
      BY <2>2, <3>1 DEF SeedInv, Store
  <2>3. CASE CopyOut(p)
    BY <2>3 DEF SeedInv, CopyOut
  <2> QED
    BY <1>3, <2>1, <2>2, <2>3 DEF RandomStep
<1>4. ASSUME NEW p \in Proc, Descriptors(p) PROVE UNCHANGED randomVars
  BY <1>4 DEF Descriptors, Open, Dup, Close, Fork
<1>5. ASSUME NEW p \in Proc, Step(p) PROVE UNCHANGED randomVars \/ RandomStep(p)
  BY <1>5 DEF Step, Read, Write, LoadOff, StoreOff, SeekAdd, SeekStore, DeviceStep
<1>6. ASSUME NEW p \in Proc, NEW g \in File, Calls(p, g)
      PROVE  UNCHANGED randomVars \/ RandomCall(p)
  BY <1>6 DEF Calls, Call, SeekSet, SeekCur, Device
<1>7. UNCHANGED vars => UNCHANGED randomVars
  BY DEF vars
<1> QED
  BY <1>1, <1>2, <1>3, <1>4, <1>5, <1>6, <1>7 DEF Next

\* Induction, with a set for the property.
LEMMA SetInduction ==
  ASSUME NEW S, 0 \in S, \A n \in Nat : n \in S => n + 1 \in S
  PROVE  Nat \subseteq S
<1> DEFINE Down(n) == 0..n - 1
           T == Nat \ S
           B == {Down(n) : n \in T}
           R == StrictSubsetOrdering(Nat)
<1> SUFFICES ASSUME T # {} PROVE FALSE
  OBVIOUS
<1>1. B \subseteq FiniteSubsetsOf(Nat) /\ B # {}
  <2>1. ASSUME NEW n \in T PROVE Down(n) \in SUBSET Nat /\ IsFiniteSet(Down(n))
    <3>1. n \in Nat /\ 0 \in Int /\ n - 1 \in Int
      OBVIOUS
    <3> QED
      BY <3>1, FS_Interval
  <2> QED
    BY <2>1 DEF FiniteSubsetsOf
<1>2. \E x \in B : \A y \in B : ~(<<y, x>> \in R)
  <2>1. IsWellFoundedOn(R, FiniteSubsetsOf(Nat))
    BY FS_StrictSubsetOrderingWellFounded
  <2> HIDE DEF B, R
  <2> QED
    BY <1>1, <2>1, WFMin
<1>3. PICK n \in T : \A y \in B : ~(<<y, Down(n)>> \in R)
  BY <1>2
<1>4. n # 0 /\ n - 1 \in T
  <2>1. n \in Nat /\ n # 0
    OBVIOUS
  <2>2. n - 1 \in Nat /\ (n - 1) + 1 = n
    BY <2>1
  <2> QED
    BY <2>1, <2>2
<1>5. Down(n - 1) \in B
  BY <1>4
<1>6. Down(n - 1) \subseteq Down(n) /\ Down(n - 1) # Down(n) /\ Down(n) \subseteq Nat
  <2>1. n - 1 \in Down(n) /\ n - 1 \notin Down(n - 1)
    BY <1>4
  <2> QED
    BY <1>4, <2>1
<1>7. <<Down(n - 1), Down(n)>> \in R
  BY <1>6 DEF StrictSubsetOrdering
<1> QED
  BY <1>3, <1>5, <1>7

\* Drawn is well-defined: byte by byte.
LEMMA DrawnIs == Drawn[0] = 1 /\ \A n \in 1..254 : Drawn[n] = Lfsr(Drawn[n - 1])
<1> DEFINE Value(f, n) == IF n = 0 THEN 1 ELSE Lfsr(f[n - 1])
           Upto(m, f) == f = [n \in 0..m |-> Value(f, n)]
           S == {m \in Nat : \E f : Upto(m, f)}
<1>1. 0 \in S
  <2> DEFINE f == [n \in 0..0 |-> 1]
  <2>1. f = [n \in 0..0 |-> Value(f, n)]
    OBVIOUS
  <2> QED
    BY <2>1
<1>2. ASSUME NEW m \in Nat, m \in S PROVE m + 1 \in S
  <2>1. PICK f : Upto(m, f)
    BY <1>2
  <2> DEFINE g == [n \in 0..m + 1 |-> IF n = m + 1 THEN Value(f, n) ELSE f[n]]
  <2>2. ASSUME NEW n \in 0..m + 1 PROVE g[n] = Value(f, n)
    <3>1. n # m + 1 => n \in 0..m
      OBVIOUS
    <3> HIDE DEF Value
    <3> QED
      BY <2>1, <3>1
  <2>3. ASSUME NEW n \in 0..m + 1 PROVE Value(g, n) = Value(f, n)
    <3>1. n # 0 => n - 1 \in 0..m + 1 /\ n - 1 # m + 1
      OBVIOUS
    <3>2. n # 0 => g[n - 1] = f[n - 1]
      BY <3>1
    <3> HIDE DEF g
    <3> QED
      BY <3>2
  <2>4. Upto(m + 1, g)
    <3>1. g = [n \in 0..m + 1 |-> g[n]]
      OBVIOUS
    <3> HIDE DEF g, Value
    <3> QED
      BY <2>2, <2>3, <3>1
  <2> HIDE DEF Upto
  <2> QED
    BY <2>4
<1>3. 254 \in S
  <2> HIDE DEF S
  <2> QED
    BY <1>1, <1>2, SetInduction
<1>4. PICK f : f = [n \in 0..254 |-> Value(f, n)]
  BY <1>3
<1>5. Drawn = [n \in 0..254 |-> Value(Drawn, n)]
  BY <1>4 DEF Drawn
<1>6. ASSUME NEW n \in 0..254 PROVE Drawn[n] = Value(Drawn, n)
  <2> HIDE DEF Value
  <2> QED
    BY <1>5
<1> QED
  BY <1>6

\* lfsr_char() has the full period, as user/random_test.c expects: the computation
\* itself, sixteen bytes at a time.
THEOREM PeriodIs255 == OneCycle
<1>1. /\ Drawn[0] = 1 /\ Drawn[1] = 128 /\ Drawn[2] = 64 /\ Drawn[3] = 32
      /\ Drawn[4] = 16 /\ Drawn[5] = 136 /\ Drawn[6] = 196 /\ Drawn[7] = 226
      /\ Drawn[8] = 113 /\ Drawn[9] = 56 /\ Drawn[10] = 28 /\ Drawn[11] = 142
      /\ Drawn[12] = 71 /\ Drawn[13] = 35 /\ Drawn[14] = 145 /\ Drawn[15] = 72
  BY DrawnIs, SMTT(30) DEF Lfsr
<1>2. /\ Drawn[16] = 164 /\ Drawn[17] = 210 /\ Drawn[18] = 233 /\ Drawn[19] = 116
      /\ Drawn[20] = 58 /\ Drawn[21] = 29 /\ Drawn[22] = 14 /\ Drawn[23] = 7
      /\ Drawn[24] = 3 /\ Drawn[25] = 129 /\ Drawn[26] = 192 /\ Drawn[27] = 96
      /\ Drawn[28] = 48 /\ Drawn[29] = 152 /\ Drawn[30] = 76 /\ Drawn[31] = 38
  BY <1>1, DrawnIs, SMTT(30) DEF Lfsr
<1>3. /\ Drawn[32] = 147 /\ Drawn[33] = 73 /\ Drawn[34] = 36 /\ Drawn[35] = 146
      /\ Drawn[36] = 201 /\ Drawn[37] = 100 /\ Drawn[38] = 178 /\ Drawn[39] = 217
      /\ Drawn[40] = 236 /\ Drawn[41] = 118 /\ Drawn[42] = 59 /\ Drawn[43] = 157
      /\ Drawn[44] = 78 /\ Drawn[45] = 39 /\ Drawn[46] = 19 /\ Drawn[47] = 9
  BY <1>2, DrawnIs, SMTT(30) DEF Lfsr
<1>4. /\ Drawn[48] = 4 /\ Drawn[49] = 130 /\ Drawn[50] = 65 /\ Drawn[51] = 160
      /\ Drawn[52] = 80 /\ Drawn[53] = 168 /\ Drawn[54] = 212 /\ Drawn[55] = 106
      /\ Drawn[56] = 181 /\ Drawn[57] = 218 /\ Drawn[58] = 109 /\ Drawn[59] = 182
      /\ Drawn[60] = 91 /\ Drawn[61] = 173 /\ Drawn[62] = 214 /\ Drawn[63] = 107
  BY <1>3, DrawnIs, SMTT(30) DEF Lfsr
<1>5. /\ Drawn[64] = 53 /\ Drawn[65] = 154 /\ Drawn[66] = 77 /\ Drawn[67] = 166
      /\ Drawn[68] = 211 /\ Drawn[69] = 105 /\ Drawn[70] = 52 /\ Drawn[71] = 26
      /\ Drawn[72] = 13 /\ Drawn[73] = 134 /\ Drawn[74] = 195 /\ Drawn[75] = 225
      /\ Drawn[76] = 240 /\ Drawn[77] = 248 /\ Drawn[78] = 124 /\ Drawn[79] = 190
  BY <1>4, DrawnIs, SMTT(30) DEF Lfsr
<1>6. /\ Drawn[80] = 223 /\ Drawn[81] = 111 /\ Drawn[82] = 183 /\ Drawn[83] = 219
      /\ Drawn[84] = 237 /\ Drawn[85] = 246 /\ Drawn[86] = 123 /\ Drawn[87] = 189
      /\ Drawn[88] = 94 /\ Drawn[89] = 175 /\ Drawn[90] = 215 /\ Drawn[91] = 235
      /\ Drawn[92] = 117 /\ Drawn[93] = 186 /\ Drawn[94] = 93 /\ Drawn[95] = 46
  BY <1>5, DrawnIs, SMTT(30) DEF Lfsr
<1>7. /\ Drawn[96] = 23 /\ Drawn[97] = 139 /\ Drawn[98] = 69 /\ Drawn[99] = 34
      /\ Drawn[100] = 17 /\ Drawn[101] = 8 /\ Drawn[102] = 132 /\ Drawn[103] = 194
      /\ Drawn[104] = 97 /\ Drawn[105] = 176 /\ Drawn[106] = 216
      /\ Drawn[107] = 108 /\ Drawn[108] = 54 /\ Drawn[109] = 27 /\ Drawn[110] = 141
      /\ Drawn[111] = 198
  BY <1>6, DrawnIs, SMTT(30) DEF Lfsr
<1>8. /\ Drawn[112] = 227 /\ Drawn[113] = 241 /\ Drawn[114] = 120
      /\ Drawn[115] = 60 /\ Drawn[116] = 158 /\ Drawn[117] = 207
      /\ Drawn[118] = 231 /\ Drawn[119] = 115 /\ Drawn[120] = 57
      /\ Drawn[121] = 156 /\ Drawn[122] = 206 /\ Drawn[123] = 103
      /\ Drawn[124] = 51 /\ Drawn[125] = 25 /\ Drawn[126] = 140 /\ Drawn[127] = 70
  BY <1>7, DrawnIs, SMTT(30) DEF Lfsr
<1>9. /\ Drawn[128] = 163 /\ Drawn[129] = 209 /\ Drawn[130] = 104
      /\ Drawn[131] = 180 /\ Drawn[132] = 90 /\ Drawn[133] = 45 /\ Drawn[134] = 150
      /\ Drawn[135] = 75 /\ Drawn[136] = 37 /\ Drawn[137] = 18 /\ Drawn[138] = 137
      /\ Drawn[139] = 68 /\ Drawn[140] = 162 /\ Drawn[141] = 81 /\ Drawn[142] = 40
      /\ Drawn[143] = 148
  BY <1>8, DrawnIs, SMTT(30) DEF Lfsr
<1>10. /\ Drawn[144] = 74 /\ Drawn[145] = 165 /\ Drawn[146] = 82 /\ Drawn[147] = 169
      /\ Drawn[148] = 84 /\ Drawn[149] = 42 /\ Drawn[150] = 149 /\ Drawn[151] = 202
      /\ Drawn[152] = 229 /\ Drawn[153] = 114 /\ Drawn[154] = 185
      /\ Drawn[155] = 220 /\ Drawn[156] = 238 /\ Drawn[157] = 119
      /\ Drawn[158] = 187 /\ Drawn[159] = 221
  BY <1>9, DrawnIs, SMTT(30) DEF Lfsr
<1>11. /\ Drawn[160] = 110 /\ Drawn[161] = 55 /\ Drawn[162] = 155
      /\ Drawn[163] = 205 /\ Drawn[164] = 230 /\ Drawn[165] = 243
      /\ Drawn[166] = 121 /\ Drawn[167] = 188 /\ Drawn[168] = 222
      /\ Drawn[169] = 239 /\ Drawn[170] = 247 /\ Drawn[171] = 251
      /\ Drawn[172] = 253 /\ Drawn[173] = 126 /\ Drawn[174] = 191
      /\ Drawn[175] = 95
  BY <1>10, DrawnIs, SMTT(30) DEF Lfsr
<1>12. /\ Drawn[176] = 47 /\ Drawn[177] = 151 /\ Drawn[178] = 203
      /\ Drawn[179] = 101 /\ Drawn[180] = 50 /\ Drawn[181] = 153
      /\ Drawn[182] = 204 /\ Drawn[183] = 102 /\ Drawn[184] = 179
      /\ Drawn[185] = 89 /\ Drawn[186] = 172 /\ Drawn[187] = 86 /\ Drawn[188] = 43
      /\ Drawn[189] = 21 /\ Drawn[190] = 138 /\ Drawn[191] = 197
  BY <1>11, DrawnIs, SMTT(30) DEF Lfsr
<1>13. /\ Drawn[192] = 98 /\ Drawn[193] = 49 /\ Drawn[194] = 24 /\ Drawn[195] = 12
      /\ Drawn[196] = 6 /\ Drawn[197] = 131 /\ Drawn[198] = 193 /\ Drawn[199] = 224
      /\ Drawn[200] = 112 /\ Drawn[201] = 184 /\ Drawn[202] = 92
      /\ Drawn[203] = 174 /\ Drawn[204] = 87 /\ Drawn[205] = 171 /\ Drawn[206] = 85
      /\ Drawn[207] = 170
  BY <1>12, DrawnIs, SMTT(30) DEF Lfsr
<1>14. /\ Drawn[208] = 213 /\ Drawn[209] = 234 /\ Drawn[210] = 245
      /\ Drawn[211] = 250 /\ Drawn[212] = 125 /\ Drawn[213] = 62
      /\ Drawn[214] = 159 /\ Drawn[215] = 79 /\ Drawn[216] = 167 /\ Drawn[217] = 83
      /\ Drawn[218] = 41 /\ Drawn[219] = 20 /\ Drawn[220] = 10 /\ Drawn[221] = 133
      /\ Drawn[222] = 66 /\ Drawn[223] = 33
  BY <1>13, DrawnIs, SMTT(30) DEF Lfsr
<1>15. /\ Drawn[224] = 144 /\ Drawn[225] = 200 /\ Drawn[226] = 228
      /\ Drawn[227] = 242 /\ Drawn[228] = 249 /\ Drawn[229] = 252
      /\ Drawn[230] = 254 /\ Drawn[231] = 255 /\ Drawn[232] = 127
      /\ Drawn[233] = 63 /\ Drawn[234] = 31 /\ Drawn[235] = 15 /\ Drawn[236] = 135
      /\ Drawn[237] = 67 /\ Drawn[238] = 161 /\ Drawn[239] = 208
  BY <1>14, DrawnIs, SMTT(30) DEF Lfsr
<1>16. /\ Drawn[240] = 232 /\ Drawn[241] = 244 /\ Drawn[242] = 122
      /\ Drawn[243] = 61 /\ Drawn[244] = 30 /\ Drawn[245] = 143 /\ Drawn[246] = 199
      /\ Drawn[247] = 99 /\ Drawn[248] = 177 /\ Drawn[249] = 88 /\ Drawn[250] = 44
      /\ Drawn[251] = 22 /\ Drawn[252] = 11 /\ Drawn[253] = 5 /\ Drawn[254] = 2
  <2>1. /\ Drawn[240] = 232 /\ Drawn[241] = 244 /\ Drawn[242] = 122
        /\ Drawn[243] = 61 /\ Drawn[244] = 30 /\ Drawn[245] = 143 /\ Drawn[246] = 199
    BY <1>15, DrawnIs, SMTT(30) DEF Lfsr
  <2>2. /\ Drawn[247] = 99 /\ Drawn[248] = 177 /\ Drawn[249] = 88 /\ Drawn[250] = 44
        /\ Drawn[251] = 22 /\ Drawn[252] = 11 /\ Drawn[253] = 5 /\ Drawn[254] = 2
    BY <2>1, DrawnIs, SMTT(30) DEF Lfsr
  <2> QED
    BY <2>1, <2>2
<1>17. \A n \in 0..254 : Drawn[n] \in 1..255
  <2> DEFINE V == {n \in Nat : n <= 254 => Drawn[n] \in 1..255}
  <2>1. 0 \in V
    BY DrawnIs
  <2>2. ASSUME NEW n \in Nat, n \in V PROVE n + 1 \in V
    <3> SUFFICES ASSUME n + 1 <= 254 PROVE Drawn[n + 1] \in 1..255
      OBVIOUS
    <3>1. Drawn[n] \in 1..255 /\ n + 1 \in 1..254 /\ (n + 1) - 1 = n
      BY <2>2
    <3>2. Drawn[n + 1] = Lfsr(Drawn[n])
      BY <3>1, DrawnIs
    <3>3. Drawn[n] \in 0..255 /\ Drawn[n] # 0
      BY <3>1
    <3>4. Lfsr(Drawn[n]) \in 0..255 /\ Lfsr(Drawn[n]) # 0
      BY <3>3, LfsrByte
    <3> QED
      BY <3>2, <3>4
  <2>3. Nat \subseteq V
    <3> HIDE DEF V
    <3> QED
      BY <2>1, <2>2, SetInduction
  <2> QED
    BY <2>3
<1>18. \A v \in 1..255 : \E n \in 0..254 : Drawn[n] = v
  BY <1>1, <1>2, <1>3, <1>4, <1>5, <1>6, <1>7, <1>8, <1>9, <1>10, <1>11, <1>12, <1>13, <1>14, <1>15, <1>16, SMTT(60)
<1>19. {Drawn[n] : n \in 0..254} = 1..255
  <2>1. ASSUME NEW v \in {Drawn[n] : n \in 0..254} PROVE v \in 1..255
    <3>1. PICK n \in 0..254 : v = Drawn[n]
      OBVIOUS
    <3> QED
      BY <1>17, <3>1
  <2>2. 1..255 \subseteq {Drawn[n] : n \in 0..254}
    BY <1>18
  <2> QED
    BY <2>1, <2>2
<1>20. Lfsr(Drawn[254]) = 1
  BY <1>16 DEF Lfsr
<1> QED
  BY <1>19, <1>20 DEF OneCycle

\* However reads and writes of /dev/random race, no byte that random_read() stores
\* is 0 unless a process has written the seed 0, and from any other byte
\* lfsr_char() goes through all of them.
THEOREM GeneratorLives == Spec => []FullPeriod
<1>1. Init => SeedInv
  BY DEF Init, RandomInit, SeedInv
<1>2. SeedInv /\ [Next]_vars => SeedInv'
  BY RandomNextInv
<1>3. SeedInv => FullPeriod
  BY PeriodIs255 DEF SeedInv, FullPeriod
<1> QED
  BY <1>1, <1>2, <1>3, PTL DEF Spec
=============================================================================
