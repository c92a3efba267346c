--------------------------- MODULE FileTablesProofs ---------------------------
(***************************************************************************)
(* Theorems about the tables of open files, for any number of descriptors, *)
(* files, slots, inodes and names.                                         *)
(***************************************************************************)
EXTENDS FileTables, FiniteSetTheorems, FunctionTheorems, WellFoundedInduction, TLAPS

-----------------------------------------------------------------------------
(* The first free index.                                                   *)

LEMMA NatLeast ==
  ASSUME NEW S \in SUBSET Nat, S # {}
  PROVE  \E n \in S : \A m \in S : n <= m
<1>1. PICK x \in S : \A y \in S : <<y, x>> \notin OpToRel(<, Nat)
  BY NatLessThanWellFounded, WFMin, Zenon
<1>2. \A y \in S : ~(y < x)
  BY <1>1 DEF OpToRel
<1> QED
  BY <1>2

LEMMA FirstOf ==
  ASSUME NEW S \in SUBSET Nat
  PROVE  /\ S = {} => First(S) = NULL
         /\ S # {} => IsFirst(First(S), S)
         /\ \A n : IsFirst(n, S) => First(S) = n
<1>1. \A n, m : IsFirst(n, S) /\ IsFirst(m, S) => n = m
  BY DEF IsFirst
<1>2. S # {} => \E n \in S : IsFirst(n, S)
  BY NatLeast DEF IsFirst
<1>3. ASSUME S # {} PROVE IsFirst(First(S), S)
  <2>1. First(S) = CHOOSE n \in S : IsFirst(n, S)
    BY <1>3 DEF First
  <2> QED
    BY <1>2, <1>3, <2>1
<1>4. \A n : IsFirst(n, S) => S # {}
  BY DEF IsFirst
<1> QED
  BY <1>1, <1>3, <1>4 DEF First

LEMMA Indices ==
  /\ Fd \subseteq Nat /\ FileNr \subseteq Nat /\ SlotNr \subseteq Nat
  /\ Fd \subseteq FileNr /\ Fd \subseteq SlotNr
  /\ Place = SlotNr \union {NULL}
  /\ NULL \notin Nat
  /\ LastIno \in Nat /\ Ino \subseteq Nat /\ 0 \notin Ino /\ LastIno + 1 \in Ino
BY FileTablesAssumption DEF Fd, FileNr, SlotNr, Place, NULL, Ino

(* What open and simple_creat find free. *)
LEMMA Frees ==
  /\ FreeFd # NULL => FreeFd \in Fd /\ filp[FreeFd] = NULL
  /\ FreeFd = NULL => \A fd \in Fd : filp[fd] # NULL
  /\ FreeFile # NULL => FreeFile \in FileNr /\ file_table[FreeFile].f_count = 0
  /\ get_active_inode_table_nr \in Place
<1> DEFINE D == {fd \in Fd : filp[fd] = NULL}
           J == {j \in FileNr : file_table[j].f_count = 0}
           S == {s \in SlotNr : inode_table[s].i_size = 0}
<1>1. D \in SUBSET Nat /\ J \in SUBSET Nat /\ S \in SUBSET Nat
  BY Indices
<1>2. FreeFd = First(D) /\ FreeFile = First(J) /\ get_active_inode_table_nr = First(S)
  BY DEF FreeFd, FreeFile, get_active_inode_table_nr
<1>3. /\ D = {} => First(D) = NULL
      /\ D # {} => First(D) \in D
  BY <1>1, FirstOf DEF IsFirst
<1>4. /\ J = {} => First(J) = NULL
      /\ J # {} => First(J) \in J
  BY <1>1, FirstOf DEF IsFirst
<1>5. /\ S = {} => First(S) = NULL
      /\ S # {} => First(S) \in S
  BY <1>1, FirstOf DEF IsFirst
<1>6. FreeFd = NULL => D = {}
  BY <1>1, <1>2, <1>3, Indices
<1> HIDE DEF D, J, S
<1>7. FreeFd # NULL => FreeFd \in D
  BY <1>2, <1>3
<1>8. FreeFile # NULL => FreeFile \in J
  BY <1>2, <1>4
<1>9. get_active_inode_table_nr \in Place
  BY <1>2, <1>5, Indices DEF S
<1> QED
  BY <1>6, <1>7, <1>8, <1>9 DEF D, J

(* The slot of an inode that is open. *)
LEMMA CachedSlot ==
  ASSUME NEW ino
  PROVE  /\ Cached(ino) \in SlotNr \union {NULL}
         /\ Cached(ino) # NULL =>
              /\ inode_table[Cached(ino)].i_ino = ino
              /\ \A r \in SlotNr : inode_table[r].i_ino = ino => Cached(ino) <= r
         /\ Cached(ino) = NULL => \A r \in SlotNr : inode_table[r].i_ino # ino
<1> DEFINE S == {s \in SlotNr : inode_table[s].i_ino = ino}
<1>1. S \in SUBSET Nat /\ Cached(ino) = First(S)
  BY Indices DEF Cached
<1>2. S # {} => IsFirst(First(S), S)
  BY <1>1, FirstOf
<1>3. S = {} => First(S) = NULL
  BY <1>1, FirstOf
<1>4. CASE S = {}
  BY <1>1, <1>3, <1>4
<1>5. CASE S # {}
  BY <1>1, <1>2, <1>5, Indices DEF IsFirst
<1> QED
  BY <1>4, <1>5

-----------------------------------------------------------------------------
(* Types.                                                                  *)

TablesType ==
  [filp : [Fd -> FileNr \union {NULL}],
   file_table : [FileNr -> [f_count : Nat, f_inode : Place]],
   inode_table : [Place -> Inode],
   fd : Fd \union {NULL}]

LEMMA BlankType == Blank \in Inode
BY DEF Blank, Inode, Size

LEMMA AttachedType ==
  ASSUME TypeOK, NEW slots \in [Place -> Inode], NEW s \in Place
  PROVE  Attached(slots, s) \in TablesType
<1>1. CASE FreeFd = NULL \/ FreeFile = NULL
  BY <1>1 DEF Attached, Tables, TablesType, TypeOK
<1>2. CASE FreeFd # NULL /\ FreeFile # NULL
  <2>1. FreeFd \in Fd /\ FreeFile \in FileNr
    BY <1>2, Frees
  <2>2. [filp EXCEPT ![FreeFd] = FreeFile] \in [Fd -> FileNr \union {NULL}]
    BY <2>1 DEF TypeOK
  <2>3. file_table[FreeFile].f_count + 1 \in Nat
    BY <2>1 DEF TypeOK
  <2>4. [file_table EXCEPT ![FreeFile] =
           [f_count |-> file_table[FreeFile].f_count + 1, f_inode |-> s]]
          \in [FileNr -> [f_count : Nat, f_inode : Place]]
    BY <2>1, <2>3 DEF TypeOK
  <2> QED
    BY <1>2, <2>1, <2>2, <2>4 DEF Attached, Tables, TablesType
<1> QED
  BY <1>1, <1>2

LEMMA OpenedType ==
  ASSUME TypeOK, NEW ino \in Ino
  PROVE  Opened(ino) \in TablesType
<1>1. CASE OpenByIndex(ino)
  BY <1>1 DEF Opened, OpenByIndex, IsDescriptor, Tables, TablesType, TypeOK
<1>2. Attached(inode_table, get_active_inode_table_nr) \in TablesType
  BY Frees, AttachedType DEF TypeOK
<1>3. Attached([inode_table EXCEPT ![get_active_inode_table_nr] = inode[ino]],
               get_active_inode_table_nr) \in TablesType
  <2>1. [inode_table EXCEPT ![get_active_inode_table_nr] = inode[ino]]
          \in [Place -> Inode]
    BY DEF TypeOK
  <2> QED
    BY <2>1, Frees, AttachedType
<1> QED
  BY <1>1, <1>2, <1>3 DEF Opened

LEMMA ClearedType ==
  ASSUME NEW t \in TablesType, NEW s
  PROVE  Cleared(t, s) \in [Place -> Inode]
BY BlankType DEF Cleared, TablesType

-----------------------------------------------------------------------------
(* The inductive invariant, its parts first for any contents of the tables.*)

(* Each descriptor has a file of its own, which counts it. *)
FilesOwn(fs, files) ==
  /\ \A fd \in Fd : fs[fd] # NULL => files[fs[fd]].f_count = 1
  /\ \A c, d \in Fd : fs[c] # NULL /\ fs[c] = fs[d] => c = d

InStep(fs, files, slots) ==
  /\ \A fd \in Fd :
       fs[fd] = NULL => files[fd].f_count = 0 /\ slots[fd] = Blank
  /\ \A fd \in Fd :
       fs[fd] # NULL => /\ fs[fd] = fd
                        /\ files[fd].f_count = 1 /\ files[fd].f_inode = fd
                        /\ slots[fd].i_size # 0
  /\ \A s \in Place \ Fd : slots[s] = Blank

(* The numbers that names or slots may have without right: those a cut     *)
(* command has left, and those changed behind their slot.                  *)
Loose == stale \union TornInos

(* The other slots are copies of the disk, of inodes that are in use. *)
Mirrors(slots, disk, map, loose) ==
  \A s \in SlotNr : \/ slots[s] = Blank
                    \/ slots[s].i_ino = LastIno + 1
                    \/ slots[s].i_ino \in loose
                    \/ slots[s] = disk[slots[s].i_ino] /\ slots[s].i_ino \in map

(* No two slots hold the same inode. *)
Apart(slots, loose) ==
  /\ \A s \in SlotNr : slots[s] # Blank => slots[s].i_ino \in Ino
  /\ \A s, r \in SlotNr :
       slots[s] # Blank /\ slots[s].i_ino = slots[r].i_ino =>
         s = r \/ slots[s].i_ino = LastIno + 1 \/ slots[s].i_ino \in loose

(* An inode on disk has its own number. *)
InodesSound == \A i \in Ino : inode[i] = Blank \/ inode[i].i_ino = i

Tidy(fs, files, slots, disk, map, loose) ==
  /\ InStep(fs, files, slots)
  /\ Mirrors(slots, disk, map, loose)
  /\ Apart(slots, loose)

Base == TypeOK /\ FilesOwn(filp, file_table) /\ InodesSound /\ NamesSound

Inv ==
  /\ Base
  /\ running /\ ~derailed => Tidy(filp, file_table, inode_table, inode, inode_map, Loose)

-----------------------------------------------------------------------------
(* Descriptors and their files, in step or not.                            *)

LEMMA AttachedOwn ==
  ASSUME TypeOK, FilesOwn(filp, file_table),
         NEW slots \in [Place -> Inode], NEW s \in Place,
         NEW t, t = Attached(slots, s)
  PROVE  /\ FilesOwn(t.filp, t.file_table)
         /\ t.fd # NULL => t.fd \in Fd /\ t.filp[t.fd] # NULL
<1>1. CASE FreeFd = NULL \/ FreeFile = NULL
  BY <1>1 DEF Attached, Tables
<1>2. CASE FreeFd # NULL /\ FreeFile # NULL
  <2>1. /\ FreeFd \in Fd /\ FreeFile \in FileNr /\ FreeFile # NULL
        /\ file_table[FreeFile].f_count = 0
    BY <1>2, Frees
  <2>2. /\ t.filp = [filp EXCEPT ![FreeFd] = FreeFile]
        /\ t.file_table = [file_table EXCEPT ![FreeFile] =
             [f_count |-> file_table[FreeFile].f_count + 1, f_inode |-> s]]
        /\ t.fd = FreeFd
    BY <1>2 DEF Attached, Tables
  <2>3. \A fd \in Fd : filp[fd] # FreeFile
    BY <2>1 DEF FilesOwn
  <2>4. t.file_table[FreeFile].f_count = 1
    BY <2>1, <2>2 DEF TypeOK
  <2>5. \A fd \in Fd : t.filp[fd] = IF fd = FreeFd THEN FreeFile ELSE filp[fd]
    BY <2>2 DEF TypeOK
  <2>6. \A fd \in Fd \ {FreeFd} : t.filp[fd] # NULL => t.file_table[t.filp[fd]].f_count = 1
    <3> TAKE fd \in Fd \ {FreeFd}
    <3>1. filp[fd] # NULL => filp[fd] \in FileNr /\ filp[fd] # FreeFile
      BY <2>3 DEF TypeOK
    <3>2. filp[fd] # NULL => t.file_table[filp[fd]] = file_table[filp[fd]]
      BY <2>2, <3>1 DEF TypeOK
    <3> QED
      BY <2>5, <3>2 DEF FilesOwn
  <2>7. \A c, d \in Fd : t.filp[c] # NULL /\ t.filp[c] = t.filp[d] => c = d
    BY <2>3, <2>5 DEF FilesOwn
  <2> QED
    BY <2>1, <2>2, <2>4, <2>5, <2>6, <2>7 DEF FilesOwn
<1> QED
  BY <1>1, <1>2

LEMMA OpenedOwn ==
  ASSUME TypeOK, FilesOwn(filp, file_table), NEW ino \in Ino,
         NEW t, t = Opened(ino)
  PROVE  /\ FilesOwn(t.filp, t.file_table)
         /\ t.fd # NULL => t.fd \in Fd /\ t.filp[t.fd] # NULL
<1>1. CASE OpenByIndex(ino)
  BY <1>1 DEF Opened, OpenByIndex, IsDescriptor, Tables
<1>2. CASE ~OpenByIndex(ino)
  <2>1. [inode_table EXCEPT ![get_active_inode_table_nr] = inode[ino]]
          \in [Place -> Inode] /\ inode_table \in [Place -> Inode]
    BY DEF TypeOK
  <2>2. get_active_inode_table_nr \in Place
    BY Frees
  <2>3. \/ t = Attached(inode_table, get_active_inode_table_nr)
        \/ t = Attached([inode_table EXCEPT ![get_active_inode_table_nr] = inode[ino]],
                        get_active_inode_table_nr)
    BY <1>2 DEF Opened
  <2> QED
    BY <2>1, <2>2, <2>3, AttachedOwn
<1> QED
  BY <1>1, <1>2

LEMMA ClosedOwn ==
  ASSUME NEW t \in TablesType, FilesOwn(t.filp, t.file_table),
         t.fd \in Fd, t.filp[t.fd] # NULL
  PROVE  close(t) \in TablesType /\ FilesOwn(close(t).filp, close(t).file_table)
<1> DEFINE j == t.filp[t.fd]
           fs == [t.filp EXCEPT ![t.fd] = NULL]
           files == [t.file_table EXCEPT ![j].f_count = t.file_table[j].f_count - 1]
<1>1. j \in FileNr /\ t.file_table[j].f_count = 1
  BY DEF TablesType, FilesOwn
<1>2. close(t) = Tables(fs, files, Cleared(t, t.file_table[j].f_inode), t.fd)
  BY DEF close
<1>3. fs \in [Fd -> FileNr \union {NULL}]
  BY DEF TablesType
<1>4. files \in [FileNr -> [f_count : Nat, f_inode : Place]]
  BY <1>1 DEF TablesType
<1>5. close(t) \in TablesType
  BY <1>2, <1>3, <1>4, ClearedType DEF Tables, TablesType
<1>6. \A fd \in Fd : fs[fd] = IF fd = t.fd THEN NULL ELSE t.filp[fd]
  BY DEF TablesType
<1>7. \A i \in FileNr : i # j => files[i] = t.file_table[i]
  BY DEF TablesType
<1>8. \A fd \in Fd : fs[fd] # NULL => fs[fd] \in FileNr /\ fs[fd] # j
  BY <1>3, <1>6 DEF FilesOwn
<1> HIDE DEF fs, files, j
<1>9. \A fd \in Fd : fs[fd] # NULL => files[fs[fd]].f_count = 1
  BY <1>6, <1>7, <1>8 DEF FilesOwn
<1>10. \A c, d \in Fd : fs[c] # NULL /\ fs[c] = fs[d] => c = d
  BY <1>6 DEF FilesOwn
<1>11. FilesOwn(fs, files)
  BY <1>9, <1>10 DEF FilesOwn
<1> QED
  BY <1>2, <1>5, <1>11 DEF Tables

-----------------------------------------------------------------------------
(* The tables in step.                                                     *)

LEMMA FreesInStep ==
  ASSUME TypeOK, InStep(filp, file_table, inode_table), FreeFd # NULL
  PROVE  get_active_inode_table_nr = FreeFd /\ FreeFile = FreeFd
<1> DEFINE D == {fd \in Fd : filp[fd] = NULL}
           J == {j \in FileNr : file_table[j].f_count = 0}
           S == {s \in SlotNr : inode_table[s].i_size = 0}
<1>1. D \in SUBSET Nat /\ J \in SUBSET Nat /\ S \in SUBSET Nat
  BY Indices
<1>2. FreeFd \in D /\ \A m \in D : FreeFd <= m
  <2>1. D = {} => First(D) = NULL
    BY <1>1, FirstOf
  <2>2. D # {} => IsFirst(First(D), D)
    BY <1>1, FirstOf
  <2> QED
    BY <2>1, <2>2 DEF FreeFd, IsFirst
<1>3. \A m \in Nat : m < FreeFd => m \in Fd /\ filp[m] # NULL
  BY <1>2, FileTablesAssumption DEF Fd
<1>4. IsFirst(FreeFd, J)
  <2>1. FreeFd \in J
    BY <1>2, Indices DEF InStep
  <2>2. \A m \in J : ~(m < FreeFd)
    BY <1>1, <1>3 DEF InStep
  <2> QED
    BY <1>1, <2>1, <2>2 DEF IsFirst
<1>5. IsFirst(FreeFd, S)
  <2>1. FreeFd \in S
    BY <1>2, Indices DEF InStep, Blank
  <2>2. \A m \in S : ~(m < FreeFd)
    BY <1>1, <1>3 DEF InStep
  <2> QED
    BY <1>1, <2>1, <2>2 DEF IsFirst
<1> QED
  BY <1>1, <1>4, <1>5, FirstOf DEF FreeFile, get_active_inode_table_nr

(* A live inode goes to the free index that all three tables agree on. *)
LEMMA AttachInStep ==
  ASSUME TypeOK, InStep(filp, file_table, inode_table), FreeFd # NULL,
         NEW node \in Inode,
         NEW t, t = Attached([inode_table EXCEPT ![FreeFd] = node], FreeFd)
  PROVE  /\ FreeFd \in Fd /\ t.fd = FreeFd /\ t.filp[FreeFd] = FreeFd
         /\ t.file_table[FreeFd].f_inode = FreeFd
         /\ t.inode_table = [inode_table EXCEPT ![FreeFd] = node]
         /\ node.i_size # 0 => InStep(t.filp, t.file_table, t.inode_table)
<1> DEFINE f == FreeFd
<1>1. f \in Fd /\ f # NULL /\ filp[f] = NULL /\ FreeFile = f
  BY FreesInStep, Frees
<1>2. file_table[f].f_count = 0
  BY <1>1 DEF InStep
<1>3. /\ t.fd = f
      /\ t.filp = [filp EXCEPT ![f] = f]
      /\ t.file_table = [file_table EXCEPT ![f] = [f_count |-> 0 + 1, f_inode |-> f]]
      /\ t.inode_table = [inode_table EXCEPT ![f] = node]
  BY <1>1, <1>2 DEF Attached, Tables
<1> HIDE DEF f
<1>4. /\ t.filp[f] = f /\ t.file_table[f].f_count = 1
      /\ t.file_table[f].f_inode = f /\ t.inode_table[f] = node
  <2>1. f \in FileNr /\ f \in Place
    BY <1>1, Indices
  <2>2. t.filp[f] = f /\ t.inode_table[f] = node
    BY <1>1, <1>3, <2>1 DEF TypeOK
  <2>3. t.file_table[f] = [f_count |-> 0 + 1, f_inode |-> f]
    <3>1. DOMAIN file_table = FileNr
      BY DEF TypeOK
    <3> QED
      BY <1>3, <2>1, <3>1, Zenon
  <2> QED
    BY <2>2, <2>3
<1>5. \A fd \in Fd : fd # f => /\ t.filp[fd] = filp[fd]
                              /\ t.file_table[fd] = file_table[fd]
                              /\ t.inode_table[fd] = inode_table[fd]
  BY <1>3, Indices DEF TypeOK
<1>6. \A s \in Place \ Fd : t.inode_table[s] = inode_table[s]
  BY <1>1, <1>3 DEF TypeOK
<1>7. ASSUME node.i_size # 0
      PROVE  InStep(t.filp, t.file_table, t.inode_table)
  <2>1. ASSUME NEW fd \in Fd
        PROVE  /\ t.filp[fd] = NULL =>
                    t.file_table[fd].f_count = 0 /\ t.inode_table[fd] = Blank
               /\ t.filp[fd] # NULL =>
                    /\ t.filp[fd] = fd
                    /\ t.file_table[fd].f_count = 1 /\ t.file_table[fd].f_inode = fd
                    /\ t.inode_table[fd].i_size # 0
    <3>1. CASE fd = f
      BY <1>1, <1>4, <1>7, <3>1
    <3>2. CASE fd # f
      BY <1>5, <3>2 DEF InStep
    <3> QED
      BY <3>1, <3>2
  <2>2. \A s \in Place \ Fd : t.inode_table[s] = Blank
    BY <1>6 DEF InStep
  <2> QED
    BY <2>1, <2>2 DEF InStep
<1> QED
  BY <1>1, <1>3, <1>4, <1>7 DEF f

(* The index of an open inode's slot is its descriptor: what open relies on. *)
LEMMA FoundInStep ==
  ASSUME TypeOK, InStep(filp, file_table, inode_table), NEW ino \in Ino,
         Cached(ino) # NULL
  PROVE  /\ Cached(ino) \in Fd /\ filp[Cached(ino)] = Cached(ino)
         /\ OpenByIndex(ino)
<1>1. /\ Cached(ino) \in SlotNr
      /\ inode_table[Cached(ino)].i_ino = ino
  BY CachedSlot
<1>2. inode_table[Cached(ino)] # Blank
  BY <1>1, Indices DEF Blank
<1>3. Cached(ino) \in Fd
  BY <1>1, <1>2, Indices DEF InStep
<1>4. filp[Cached(ino)] # NULL
  BY <1>2, <1>3 DEF InStep
<1>5. /\ filp[Cached(ino)] = Cached(ino)
      /\ file_table[Cached(ino)].f_inode = Cached(ino)
  BY <1>3, <1>4 DEF InStep
<1> QED
  BY <1>1, <1>3, <1>4, <1>5 DEF OpenByIndex, IsDescriptor, OfDescriptor

(* What close leaves, when the slot it finds is the descriptor's. *)
LEMMA CloseInStep ==
  ASSUME NEW t \in TablesType, InStep(t.filp, t.file_table, t.inode_table),
         t.fd \in Fd, t.filp[t.fd] # NULL,
         \A r \in SlotNr :
           t.inode_table[r].i_ino = t.inode_table[t.fd].i_ino => t.fd <= r
  PROVE  /\ close(t).inode_table = [t.inode_table EXCEPT ![t.fd] = Blank]
         /\ InStep(close(t).filp, close(t).file_table, close(t).inode_table)
<1> DEFINE f == t.fd
           S == {r \in SlotNr : t.inode_table[r].i_ino = t.inode_table[f].i_ino}
           fs == [t.filp EXCEPT ![f] = NULL]
           files == [t.file_table EXCEPT ![f].f_count = t.file_table[f].f_count - 1]
           slots == [t.inode_table EXCEPT ![f] = Blank]
<1>1. /\ f \in Fd /\ f \in SlotNr /\ f \in FileNr /\ t.filp[f] = f
      /\ t.file_table[f].f_count = 1 /\ t.file_table[f].f_inode = f
  BY Indices DEF InStep
<1>2. IsFirst(f, S)
  BY <1>1 DEF IsFirst
<1>3. First(S) = f /\ f # NULL
  BY <1>1, <1>2, FirstOf, Indices
<1>4. Cleared(t, f) = slots
  BY <1>3 DEF Cleared
<1>5. close(t) = Tables(fs, files, slots, f)
  BY <1>1, <1>4 DEF close
<1>6. /\ fs[f] = NULL /\ files[f].f_count = 0 /\ slots[f] = Blank
  BY <1>1, Indices DEF TablesType
<1>7. \A fd \in Fd : fd # f => /\ fs[fd] = t.filp[fd] /\ files[fd] = t.file_table[fd]
                              /\ slots[fd] = t.inode_table[fd]
  BY Indices DEF TablesType
<1>8. \A s \in Place \ Fd : slots[s] = t.inode_table[s]
  BY DEF TablesType
<1> HIDE DEF f, fs, files, slots
<1>9. InStep(fs, files, slots)
  BY <1>1, <1>6, <1>7, <1>8 DEF InStep
<1> QED
  BY <1>5, <1>9 DEF Tables, slots, f

(* One more slot, with an inode that no slot has. *)
LEMMA SlotAdded ==
  ASSUME TypeOK, NEW loose, Apart(inode_table, loose), NEW disk, NEW map,
         NEW f \in Fd, NEW node \in Inode, node.i_ino \in Ino,
         Mirrors(inode_table, disk, map, loose),
         \/ node.i_ino = LastIno + 1 \/ node.i_ino \in loose
         \/ node = disk[node.i_ino] /\ node.i_ino \in map,
         \/ node.i_ino = LastIno + 1 \/ node.i_ino \in loose
         \/ \A r \in SlotNr : inode_table[r].i_ino # node.i_ino
  PROVE  /\ Apart([inode_table EXCEPT ![f] = node], loose)
         /\ Mirrors([inode_table EXCEPT ![f] = node], disk, map, loose)
<1> DEFINE slots == [inode_table EXCEPT ![f] = node]
<1>1. f \in SlotNr /\ \A s \in SlotNr : slots[s] = IF s = f THEN node ELSE inode_table[s]
  BY Indices DEF TypeOK
<1> HIDE DEF slots
<1>2. \A s \in SlotNr : slots[s] # Blank => slots[s].i_ino \in Ino
  BY <1>1 DEF Apart
<1>3. ASSUME NEW s \in SlotNr, NEW r \in SlotNr,
             slots[s] # Blank, slots[s].i_ino = slots[r].i_ino
      PROVE  s = r \/ slots[s].i_ino = LastIno + 1 \/ slots[s].i_ino \in loose
  BY <1>1, <1>3 DEF Apart
<1>4. Mirrors(slots, disk, map, loose)
  BY <1>1 DEF Mirrors
<1>5. Apart(slots, loose)
  BY <1>2, <1>3 DEF Apart
<1> QED
  BY <1>4, <1>5 DEF slots

(* What open does to an inode that is open, and to one that is not. *)
LEMMA OpenFound ==
  ASSUME TypeOK, InStep(filp, file_table, inode_table), NEW ino \in Ino,
         Cached(ino) # NULL
  PROVE  Opened(ino) = Tables(filp, file_table, inode_table, Cached(ino))
BY FoundInStep DEF Opened

LEMMA OpenNew ==
  ASSUME TypeOK, InStep(filp, file_table, inode_table), NEW ino \in Ino,
         Cached(ino) = NULL
  PROVE  /\ FreeFd = NULL => Opened(ino).fd = NULL
         /\ FreeFd # NULL =>
              Opened(ino) = Attached([inode_table EXCEPT ![FreeFd] = inode[ino]], FreeFd)
<1>1. Opened(ino) = LET s == get_active_inode_table_nr
                    IN  Attached([inode_table EXCEPT ![s] = inode[ino]], s)
  BY DEF Opened, OpenByIndex
<1>2. FreeFd = NULL => Opened(ino).fd = NULL
  BY <1>1 DEF Attached, Tables
<1>3. FreeFd # NULL => get_active_inode_table_nr = FreeFd
  BY FreesInStep
<1> QED
  BY <1>1, <1>2, <1>3

LEMMA OpenInStep ==
  ASSUME Inv, running, ~derailed, NEW name \in Name, NEW ino \in Ino, ino = dir[name],
         NEW t, t = Opened(ino), ~Derails(t)
  PROVE  /\ Tidy(t.filp, t.file_table, t.inode_table, inode, inode_map, Loose)
         /\ t.fd \in Fd /\ t.filp[t.fd] = t.fd
         /\ Target(t) = ino /\ t.inode_table[t.fd].i_ino = ino
         /\ \A r \in SlotNr : t.inode_table[r].i_ino = ino => t.fd <= r
<1>1. /\ TypeOK /\ InodesSound /\ NamesSound
      /\ InStep(filp, file_table, inode_table)
      /\ Mirrors(inode_table, inode, inode_map, Loose) /\ Apart(inode_table, Loose)
  BY DEF Inv, Base, Tidy
<1>2. CASE Cached(ino) # NULL
  <2> DEFINE c == Cached(ino)
  <2>1. c \in Fd /\ filp[c] = c
    BY <1>1, <1>2, FoundInStep
  <2>2. t = Tables(filp, file_table, inode_table, c)
    BY <1>1, <1>2, OpenFound
  <2>3. /\ t.fd = c /\ t.filp = filp /\ t.file_table = file_table
        /\ t.inode_table = inode_table
    BY <2>2 DEF Tables
  <2>4. /\ inode_table[c].i_ino = ino
        /\ \A r \in SlotNr : inode_table[r].i_ino = ino => c <= r
    BY <1>2, CachedSlot
  <2>5. file_table[c].f_inode = c
    BY <1>1, <2>1, Indices DEF InStep
  <2> HIDE DEF c
  <2> QED
    BY <1>1, <2>1, <2>3, <2>4, <2>5 DEF Tidy, Target, OpenInode
<1>3. CASE Cached(ino) = NULL
  <2> DEFINE f == FreeFd
  <2>1. FreeFd # NULL
    BY <1>1, <1>3, OpenNew DEF Derails
  <2>2. t = Attached([inode_table EXCEPT ![f] = inode[ino]], f)
    BY <1>1, <1>3, <2>1, OpenNew
  <2>3. inode[ino] \in Inode
    BY <1>1 DEF TypeOK
  <2>4. /\ f \in Fd /\ t.fd = f /\ t.filp[f] = f /\ t.file_table[f].f_inode = f
        /\ t.inode_table = [inode_table EXCEPT ![f] = inode[ino]]
        /\ inode[ino].i_size # 0 => InStep(t.filp, t.file_table, t.inode_table)
    BY <1>1, <2>1, <2>2, <2>3, AttachInStep
  <2> HIDE DEF f
  <2>5. f \in Place /\ f \in SlotNr
    BY <2>4, Indices
  <2>6. t.inode_table[f] = inode[ino]
    BY <1>1, <2>4, <2>5 DEF TypeOK
  <2>7. inode[ino].i_size # 0
    BY <2>4, <2>6 DEF Derails
  <2>8. inode[ino].i_ino = ino
    BY <1>1, <2>7 DEF InodesSound, Blank
  <2>9. \A r \in SlotNr : inode_table[r].i_ino # ino
    BY <1>3, CachedSlot
  <2>10. ino = LastIno + 1 \/ ino \in Loose \/ ino \in inode_map
    BY <1>1, Indices DEF NamesSound, Loose, TornInos
  <2>12. Apart(t.inode_table, Loose) /\ Mirrors(t.inode_table, inode, inode_map, Loose)
    BY <1>1, <2>3, <2>4, <2>8, <2>9, <2>10, SlotAdded
  <2>11. \A r \in SlotNr : t.inode_table[r].i_ino = ino => f <= r
    <3> SUFFICES ASSUME NEW r \in SlotNr, r # f PROVE t.inode_table[r].i_ino # ino
      BY <2>5, Indices
    <3>1. t.inode_table[r] = inode_table[r]
      BY <1>1, <2>4, Indices DEF TypeOK
    <3> QED
      BY <2>9, <3>1
  <2> QED
    BY <2>4, <2>6, <2>7, <2>8, <2>12, <2>11 DEF Tidy, Target, OpenInode
<1> QED
  BY <1>2, <1>3

(* What puts the tables out of step. *)
LEMMA DerailCause ==
  ASSUME Inv, running, ~derailed, NEW name \in Name, dir[name] # 0,
         Derails(Opened(dir[name]))
  PROVE  FreeFd = NULL \/ name \in torn
<1> SUFFICES ASSUME FreeFd # NULL, name \notin torn PROVE FALSE
  OBVIOUS
<1> DEFINE ino == dir[name]
           t == Opened(ino)
<1>1. /\ TypeOK /\ InStep(filp, file_table, inode_table)
      /\ ino \in Ino /\ inode[ino] \in Inode /\ inode[ino].i_size # 0
  BY DEF Inv, Base, Tidy, NamesSound, TypeOK
<1>2. CASE Cached(ino) # NULL
  <2> DEFINE c == Cached(ino)
  <2>1. c \in Fd /\ filp[c] = c
    BY <1>1, <1>2, FoundInStep
  <2>2. t = Tables(filp, file_table, inode_table, c)
    BY <1>1, <1>2, OpenFound
  <2>3. /\ filp[c] # NULL /\ file_table[c].f_inode = c
        /\ inode_table[c].i_size # 0
    BY <1>1, <2>1, Indices DEF InStep
  <2> HIDE DEF c, t
  <2> QED
    BY <1>2, <2>1, <2>2, <2>3 DEF Derails, Tables, c, t
<1>3. CASE Cached(ino) = NULL
  <2>1. t = Attached([inode_table EXCEPT ![FreeFd] = inode[ino]], FreeFd)
    BY <1>1, <1>3, OpenNew
  <2>2. /\ FreeFd \in Fd /\ t.fd = FreeFd /\ t.filp[FreeFd] = FreeFd
        /\ t.file_table[FreeFd].f_inode = FreeFd
        /\ t.inode_table = [inode_table EXCEPT ![FreeFd] = inode[ino]]
    BY <1>1, <2>1, AttachInStep
  <2>3. t.inode_table[FreeFd] = inode[ino]
    BY <1>1, <2>2, Indices DEF TypeOK
  <2> HIDE DEF t
  <2> QED
    BY <1>1, <2>2, <2>3 DEF Derails, t
<1> QED
  BY <1>2, <1>3

-----------------------------------------------------------------------------
(* The disk and its names, whatever the tables do.                         *)

LEMMA InitInv == Init => Inv
<1> SUFFICES ASSUME Init PROVE Inv
  OBVIOUS
<1> DEFINE N == Cardinality(Texts)
<1>1. N \in Nat /\ N <= LastIno /\ inode_map = 1 .. N /\ inode_map \subseteq Ino
  BY FileTablesAssumption, FS_CardinalityType DEF Init, Ino
<1>2. LastIno + 1 \notin inode_map
  BY <1>1, Indices
<1>3. inode \in [Ino -> Inode]
  BY Indices DEF Init, Inode, Blank, Size, TextLength
<1>4. TypeOK
  <2>1. inode_table \in [Place -> Inode]
    BY BlankType DEF Init
  <2>2. file_table \in [FileNr -> [f_count : Nat, f_inode : Place]]
    BY Indices DEF Init, NoFile
  <2>3. filp \in [Fd -> FileNr \union {NULL}]
    BY DEF Init
  <2>4. inode_map \subseteq Ino \ {LastIno + 1}
    BY <1>1, <1>2
  <2> QED
    BY <1>3, <2>1, <2>2, <2>3, <2>4 DEF Init, TypeOK
<1>5. FilesOwn(filp, file_table)
  BY DEF Init, FilesOwn
<1>6. InodesSound
  <2>1. \A i \in inode_map : inode[i].i_ino = i
    BY <1>1 DEF Init
  <2>2. \A i \in Ino \ inode_map : inode[i] = Blank /\ inode[i].i_size = 0
    BY DEF Init, Blank
  <2> QED
    BY <2>1, <2>2 DEF InodesSound
<1>7. \A n, m \in Texts : dir[n] = dir[m] => n = m
  <2> DEFINE d == [n \in Texts |-> dir[n]]
  <2>1. d \in Surjection(Texts, 1 .. N)
    <3>1. {dir[n] : n \in Texts} = 1 .. N
      BY <1>1 DEF Init
    <3> QED
      BY <3>1 DEF Surjection
  <2>2. Cardinality(1 .. N) = N
    BY <1>1, FS_Interval
  <2>3. d \in Injection(Texts, 1 .. N)
    BY <2>1, <2>2, FileTablesAssumption, FS_SurjSameCardinalityImpliesInj
  <2> QED
    BY <2>3 DEF Injection, IsInjective
<1>8. NamesSound
  <2>1. \A n \in Name : dir[n] # 0 => n \in Texts /\ dir[n] \in inode_map
    BY DEF Init
  <2>2. \A i \in inode_map : inode[i].i_size # 0
    BY <1>1 DEF Init, TextLength
  <2> QED
    BY <1>7, <2>1, <2>2 DEF NamesSound
<1>9. Tidy(filp, file_table, inode_table, inode, inode_map, Loose)
  <2>1. \A s \in Place : inode_table[s] = Blank
    BY DEF Init
  <2>2. \A fd \in Fd : filp[fd] = NULL /\ file_table[fd].f_count = 0
    BY Indices DEF Init, NoFile
  <2> QED
    BY <2>1, <2>2, Indices DEF Tidy, InStep, Mirrors, Apart
<1> QED
  BY <1>4, <1>5, <1>6, <1>8, <1>9 DEF Inv, Base

LEMMA NewInode ==
  ASSUME TypeOK
  PROVE  /\ new_inode \in Ino
         /\ new_inode = LastIno + 1 \/ new_inode \notin inode_map
<1> DEFINE clear == (Ino \ {LastIno + 1}) \ inode_map
<1>1. clear \in SUBSET Nat
  BY Indices
<1>2. clear # {} => First(clear) \in clear
  BY <1>1, FirstOf DEF IsFirst
<1> QED
  BY <1>2, Indices DEF new_inode

LEMMA NewNodeType ==
  ASSUME TypeOK, NEW length \in Size \ {0}
  PROVE  /\ NewNode(length) \in Inode /\ NewNode(length).i_size # 0
         /\ NewNode(length).i_ino = new_inode
BY NewInode DEF NewNode, Inode

LEMMA Lengths == _BLOCK_SIZE \in Size \ {0} /\ EmptyDir \in Size \ {0}
BY DEF Size, DirSize, _BLOCK_SIZE, EmptyDir

(* A new inode, with or without a name. *)
LEMMA NodeWritten ==
  ASSUME TypeOK, InodesSound, NamesSound, NEW length \in Size \ {0}, Noted,
         \/ inode' = inode
         \/ inode' = [inode EXCEPT ![new_inode] = NewNode(length)]
  PROVE  /\ inode' \in [Ino -> Inode] /\ inode_map' \subseteq Ino \ {LastIno + 1}
         /\ InodesSound'
         /\ dir' = dir /\ torn' = torn => NamesSound'
<1>1. new_inode \in Ino /\ (new_inode = LastIno + 1 \/ new_inode \notin inode_map)
  BY NewInode
<1> DEFINE node == NewNode(length)
<1>2. node \in Inode /\ node.i_size # 0 /\ node.i_ino = new_inode
  BY NewNodeType
<1>3. inode' \in [Ino -> Inode] /\ inode_map' \subseteq Ino \ {LastIno + 1}
  BY <1>1, <1>2 DEF TypeOK, Noted
<1>4. \A i \in Ino : inode'[i] = inode[i] \/ (i = new_inode /\ inode'[i] = node)
  BY <1>1 DEF TypeOK
<1> HIDE DEF node
<1>5. InodesSound'
  BY <1>1, <1>2, <1>4 DEF InodesSound
<1>6. dir' = dir /\ torn' = torn => NamesSound'
  <2> SUFFICES ASSUME dir' = dir, torn' = torn PROVE NamesSound'
    OBVIOUS
  <2>1. \A n \in Name : dir[n] # 0 => dir[n] \in Ino
    BY DEF TypeOK
  <2>2. \A n \in Name : dir[n] # 0 /\ n \notin torn => inode'[dir[n]].i_size # 0
    BY <1>2, <1>4, <2>1 DEF NamesSound
  <2>3. inode_map \subseteq inode_map'
    BY DEF Noted
  <2> QED
    BY <2>2, <2>3 DEF NamesSound
<1> QED
  BY <1>3, <1>5, <1>6

(* A new inode, with its name when that is new. *)
LEMMA NameGiven ==
  ASSUME TypeOK, InodesSound, NamesSound, NEW name \in Name,
         NEW length \in Size \ {0}, Made(name, length), torn' = torn
  PROVE  /\ inode' \in [Ino -> Inode] /\ inode_map' \subseteq Ino \ {LastIno + 1}
         /\ dir' \in [Name -> {0} \union Ino]
         /\ InodesSound' /\ NamesSound'
<1> DEFINE node == NewNode(length)
<1>1. new_inode \in Ino /\ (new_inode = LastIno + 1 \/ new_inode \notin inode_map)
  BY NewInode
<1>2. node.i_size # 0
  BY NewNodeType
<1>3. /\ inode' \in [Ino -> Inode] /\ inode_map' \subseteq Ino \ {LastIno + 1}
      /\ InodesSound'
      /\ dir' = dir /\ torn' = torn => NamesSound'
  BY NodeWritten DEF Made
<1>4. CASE dir[name] # 0
  BY <1>3, <1>4 DEF Made, TypeOK
<1>5. CASE dir[name] = 0
  <2>1. \A n \in Name : dir'[n] = IF n = name THEN new_inode ELSE dir[n]
    BY <1>5 DEF Made, TypeOK
  <2>2. dir' \in [Name -> {0} \union Ino]
    BY <1>1, <1>5 DEF Made, TypeOK
  <2>3. \A i \in Ino : inode'[i] = IF i = new_inode THEN node ELSE inode[i]
    BY DEF Made, TypeOK
  <2>4. inode_map' = inode_map \union ({new_inode} \ {LastIno + 1})
    BY DEF Made, Noted
  <2> HIDE DEF node
  <2>5. \A n \in Name : n # name /\ dir[n] # 0 /\ n \notin torn =>
          dir[n] \in Ino /\ dir[n] \in inode_map \union {LastIno + 1}
    BY DEF NamesSound, TypeOK
  <2>6. \A n \in Name : n # name /\ dir[n] # 0 /\ n \notin torn
          /\ dir[n] = new_inode => new_inode = LastIno + 1
    BY <1>1, <2>5
  <2>7. ASSUME NEW n \in Name, dir'[n] # 0, n \notin torn
        PROVE  /\ inode'[dir'[n]].i_size # 0
               /\ dir'[n] \in inode_map' \union {LastIno + 1}
               /\ \A m \in Name \ ({n} \union torn) :
                    dir'[m] = dir'[n] => dir'[n] = LastIno + 1
    <3>1. CASE n = name
      <4>1. inode'[dir'[n]].i_size # 0 /\ dir'[n] \in inode_map' \union {LastIno + 1}
        BY <1>1, <1>2, <2>1, <2>3, <2>4, <3>1
      <4>2. \A m \in Name \ ({n} \union torn) : dir'[m] = dir'[n] => dir'[n] = LastIno + 1
        BY <2>1, <2>6, <2>7, <3>1
      <4> QED
        BY <4>1, <4>2
    <3>2. CASE n # name
      <4>1. dir'[n] = dir[n] /\ dir[n] \in Ino
        BY <2>1, <2>5, <2>7, <3>2
      <4>2. inode'[dir'[n]].i_size # 0 /\ dir'[n] \in inode_map' \union {LastIno + 1}
        BY <1>2, <2>3, <2>4, <2>5, <2>7, <3>2, <4>1 DEF NamesSound
      <4>3. \A m \in Name \ ({n} \union torn) : dir'[m] = dir'[n] => dir'[n] = LastIno + 1
        BY <2>1, <2>6, <2>7, <3>2, <4>1 DEF NamesSound
      <4> QED
        BY <4>2, <4>3
    <3> QED
      BY <3>1, <3>2
  <2>8. NamesSound'
    BY <2>7 DEF NamesSound
  <2> QED
    BY <1>3, <2>2, <2>8
<1> QED
  BY <1>4, <1>5

(* The slots stay as sound when a new inode is written and named: no slot  *)
(* has its number.                                                         *)
LEMMA SlotsPassNew ==
  ASSUME TypeOK, NEW name \in Name, NEW length \in Size \ {0}, Made(name, length),
         UNCHANGED <<torn, stale>>,
         Mirrors(inode_table, inode, inode_map, Loose), Apart(inode_table, Loose)
  PROVE  /\ Mirrors(inode_table, inode', inode_map', Loose')
         /\ Apart(inode_table, Loose')
         /\ \/ new_inode = LastIno + 1 \/ new_inode \in Loose'
            \/ \A r \in SlotNr : inode_table[r].i_ino # new_inode
<1>1. new_inode \in Ino /\ (new_inode = LastIno + 1 \/ new_inode \notin inode_map)
  BY NewInode
<1>2. \A i \in Ino : i # new_inode => inode'[i] = inode[i]
  BY DEF Made, TypeOK
<1>3. \A i \in Ino : i \in Loose => i \in Loose'
  <2>1. \A n \in Name : dir[n] # 0 => dir'[n] = dir[n]
    BY DEF Made, TypeOK
  <2> QED
    BY <2>1, Indices DEF Loose, TornInos, TypeOK
<1>4. inode_map \subseteq inode_map'
  BY DEF Made, Noted
<1>5. \A r \in SlotNr : inode_table[r] # Blank => inode_table[r].i_ino \in Ino
  BY DEF Apart
<1>6. ASSUME NEW r \in SlotNr, inode_table[r] # Blank,
             inode_table[r].i_ino # LastIno + 1, inode_table[r].i_ino \notin Loose'
      PROVE  /\ inode_table[r].i_ino # new_inode
             /\ inode_table[r] = inode'[inode_table[r].i_ino]
             /\ inode_table[r].i_ino \in inode_map'
  <2>1. inode_table[r].i_ino \in Ino /\ inode_table[r].i_ino \notin Loose
    BY <1>3, <1>5, <1>6
  <2>2. inode_table[r] = inode[inode_table[r].i_ino] /\ inode_table[r].i_ino \in inode_map
    BY <1>6, <2>1 DEF Mirrors
  <2>3. inode_table[r].i_ino # new_inode
    BY <1>1, <1>6, <2>2
  <2> QED
    BY <1>2, <1>4, <2>1, <2>2, <2>3
<1>7. Mirrors(inode_table, inode', inode_map', Loose')
  BY <1>6 DEF Mirrors
<1>8. Apart(inode_table, Loose')
  BY <1>3, <1>5 DEF Apart
<1>9. \/ new_inode = LastIno + 1 \/ new_inode \in Loose'
      \/ \A r \in SlotNr : inode_table[r].i_ino # new_inode
  BY <1>1, <1>6, Indices DEF Blank
<1> QED
  BY <1>7, <1>8, <1>9

(* The slots when an inode is changed on disk only: if it has a slot, its  *)
(* number is noted.                                                        *)
LEMMA SlotsPassed ==
  ASSUME TypeOK, NEW x, stale' = Passed(x),
         \A i \in Ino : i # x => inode'[i] = inode[i] /\ (i \in inode_map => i \in inode_map'),
         \A n \in torn : dir[n] = x \/ (n \in torn' /\ dir'[n] = dir[n]),
         Mirrors(inode_table, inode, inode_map, Loose), Apart(inode_table, Loose)
  PROVE  /\ Mirrors(inode_table, inode', inode_map', Loose')
         /\ Apart(inode_table, Loose')
<1>1. \A r \in SlotNr : inode_table[r].i_ino = x => x \in Loose'
  BY DEF Passed, HeldBy, Loose
<1>2. \A i : i # x /\ i \in Loose => i \in Loose'
  BY DEF Passed, Loose, TornInos
<1>3. \A r \in SlotNr : inode_table[r].i_ino \in Loose => inode_table[r].i_ino \in Loose'
  BY <1>1, <1>2
<1>4. \A r \in SlotNr : inode_table[r] # Blank => inode_table[r].i_ino \in Ino
  BY DEF Apart
<1>5. Mirrors(inode_table, inode', inode_map', Loose')
  <2> SUFFICES ASSUME NEW r \in SlotNr, inode_table[r] # Blank,
                      inode_table[r].i_ino # LastIno + 1, inode_table[r].i_ino \notin Loose'
               PROVE  /\ inode_table[r] = inode'[inode_table[r].i_ino]
                      /\ inode_table[r].i_ino \in inode_map'
    BY DEF Mirrors
  <2>1. inode_table[r].i_ino # x /\ inode_table[r].i_ino \notin Loose
    BY <1>1, <1>3
  <2>2. inode_table[r].i_ino \in Ino
    BY <1>4
  <2>3. inode_table[r] = inode[inode_table[r].i_ino] /\ inode_table[r].i_ino \in inode_map
    BY <2>1 DEF Mirrors
  <2> QED
    BY <2>1, <2>2, <2>3
<1>6. Apart(inode_table, Loose')
  BY <1>3, <1>4 DEF Apart
<1> QED
  BY <1>5, <1>6

(* An inode is cleared, and the names that stand for it are torn or go. *)
LEMMA NodeCleared ==
  ASSUME TypeOK, InodesSound, NamesSound, NEW ino,
         inode' = inode \/ inode' = [inode EXCEPT ![ino] = Blank],
         inode_map' = inode_map \/ inode_map' = inode_map \ {ino},
         \/ /\ dir' = dir
            /\ torn' = Torn(ino)
         \/ \E name \in Name :
              /\ dir' = [dir EXCEPT ![name] = 0]
              /\ torn' = Torn(ino) \ {name}
  PROVE  /\ inode' \in [Ino -> Inode] /\ inode_map' \subseteq Ino \ {LastIno + 1}
         /\ dir' \in [Name -> {0} \union Ino] /\ torn' \subseteq Name
         /\ InodesSound' /\ NamesSound'
<1>1. /\ inode' \in [Ino -> Inode] /\ inode_map' \subseteq Ino \ {LastIno + 1}
      /\ dir' \in [Name -> {0} \union Ino] /\ torn' \subseteq Name
  BY BlankType DEF TypeOK, Torn
<1>2. \A i \in Ino : /\ i # ino => inode'[i] = inode[i]
                    /\ inode'[i] \in {inode[i], Blank}
  BY DEF TypeOK
<1>3. InodesSound'
  BY <1>2 DEF InodesSound, Blank
<1>4. \A n \in Name : dir'[n] # 0 /\ n \notin torn' =>
        dir'[n] = dir[n] /\ n \notin torn /\ dir[n] # ino
  BY DEF TypeOK, Torn
<1>5. ASSUME NEW n \in Name, dir'[n] # 0, n \notin torn'
      PROVE  /\ inode'[dir'[n]].i_size # 0
             /\ dir'[n] \in inode_map' \union {LastIno + 1}
             /\ \A m \in Name \ ({n} \union torn') :
                  dir'[m] = dir'[n] => dir'[n] = LastIno + 1
  <2>1. dir'[n] = dir[n] /\ n \notin torn /\ dir[n] # ino /\ dir[n] \in Ino
    BY <1>4, <1>5 DEF TypeOK
  <2>2. /\ inode'[dir'[n]].i_size # 0
        /\ dir'[n] \in inode_map' \union {LastIno + 1}
    BY <1>2, <1>5, <2>1 DEF NamesSound
  <2>3. \A m \in Name \ ({n} \union torn') : dir'[m] = dir'[n] =>
          dir[m] = dir[n] /\ m \notin torn
    BY <1>4, <1>5, <2>1
  <2> QED
    BY <1>5, <2>1, <2>2, <2>3 DEF NamesSound
<1> QED
  BY <1>1, <1>3, <1>5 DEF NamesSound

-----------------------------------------------------------------------------
(* The actions.                                                            *)

LEMMA BecomesType ==
  ASSUME NEW t \in TablesType, Becomes(t)
  PROVE  /\ filp' \in [Fd -> FileNr \union {NULL}]
         /\ file_table' \in [FileNr -> [f_count : Nat, f_inode : Place]]
         /\ inode_table' \in [Place -> Inode]
BY DEF Becomes, TablesType

LEMMA CatStep ==
  ASSUME Inv, NEW name \in Name, cat(name)
  PROVE  Inv'
<1> DEFINE ino == dir[name]
           t == Opened(ino)
<1>1. TypeOK /\ FilesOwn(filp, file_table) /\ ino \in Ino
  BY DEF cat, Inv, Base, TypeOK
<1>2. t \in TablesType /\ FilesOwn(t.filp, t.file_table)
  BY <1>1, OpenedType, OpenedOwn
<1>3. Becomes(t) /\ running /\ derailed' = (derailed \/ Derails(t))
  BY DEF cat
<1>4. UNCHANGED <<inode, inode_map, dir, running, torn, stale>>
  BY DEF cat
<1>5. TypeOK'
  <2>1. derailed' \in BOOLEAN
    BY <1>3
  <2> QED
    BY <1>1, <1>2, <1>3, <1>4, <2>1, BecomesType DEF TypeOK
<1>6. FilesOwn(filp', file_table')
  BY <1>2, <1>3 DEF Becomes
<1>7. InodesSound' /\ NamesSound'
  BY <1>4 DEF Inv, Base, InodesSound, NamesSound
<1>8. ASSUME running', ~derailed'
      PROVE  Tidy(filp', file_table', inode_table', inode', inode_map', Loose')
  <2>1. running /\ ~derailed /\ ~Derails(t)
    BY <1>3, <1>4, <1>8
  <2>2. Tidy(t.filp, t.file_table, t.inode_table, inode, inode_map, Loose)
    BY <1>1, <2>1, OpenInStep
  <2>3. Loose' = Loose
    BY <1>4 DEF Loose, TornInos
  <2> QED
    BY <1>3, <1>4, <2>2, <2>3 DEF Becomes
<1> HIDE DEF t
<1>9. FilesOwn(filp, file_table)' /\ (running /\ ~derailed =>
        Tidy(filp, file_table, inode_table, inode, inode_map, Loose))'
  BY <1>6, <1>8 DEF FilesOwn, Tidy, InStep, Mirrors, Apart
<1> QED
  BY <1>5, <1>7, <1>9 DEF Inv, Base

(* The descriptor's slot is blank after rm, and nothing else has changed. *)
LEMMA SlotDropped ==
  ASSUME NEW slots \in [Place -> Inode], NEW U, NEW V,
         Apart(slots, U), Mirrors(slots, inode, inode_map, U),
         NEW f \in Fd, NEW ino \in Ino, slots[f].i_ino = ino, TypeOK,
         inode' = [inode EXCEPT ![ino] = Blank], inode_map' = inode_map \ {ino},
         NEW left, left = [slots EXCEPT ![f] = Blank],
         U \intersect HeldBy(left) \subseteq V
  PROVE  Apart(left, V) /\ Mirrors(left, inode', inode_map', V)
<1>1. f \in SlotNr /\ \A s \in SlotNr : left[s] = IF s = f THEN Blank ELSE slots[s]
  BY Indices
<1>2. \A i \in Ino : i # ino => inode'[i] = inode[i]
  BY DEF TypeOK
<1>3. \A s \in SlotNr : left[s] # Blank => s # f /\ left[s] = slots[s]
  BY <1>1
<1>4. \A s \in SlotNr : left[s].i_ino \in U => left[s].i_ino \in V
  BY DEF HeldBy
<1>5. \A s \in SlotNr : left[s] # Blank => left[s].i_ino \in Ino
  BY <1>3 DEF Apart
<1>6. Apart(left, V)
  <2>1. ASSUME NEW s \in SlotNr, NEW r \in SlotNr, left[s] # Blank,
               left[s].i_ino = left[r].i_ino
        PROVE  s = r \/ left[s].i_ino = LastIno + 1 \/ left[s].i_ino \in V
    <3>1. left[r] # Blank
      BY <1>5, <2>1, Indices DEF Blank
    <3>2. left[s] = slots[s] /\ left[r] = slots[r]
      BY <1>3, <2>1, <3>1
    <3> QED
      BY <1>4, <2>1, <3>2 DEF Apart
  <2> QED
    BY <1>5, <2>1 DEF Apart
<1>7. Mirrors(left, inode', inode_map', V)
  <2> SUFFICES ASSUME NEW s \in SlotNr, left[s] # Blank, left[s].i_ino # LastIno + 1,
                      left[s].i_ino \notin V
               PROVE  left[s] = inode'[left[s].i_ino] /\ left[s].i_ino \in inode_map'
    BY DEF Mirrors
  <2>1. s # f /\ left[s] = slots[s] /\ left[s].i_ino \notin U
    BY <1>3, <1>4
  <2>2. left[s].i_ino \in Ino /\ left[s].i_ino # ino
    BY <1>1, <1>5, <2>1 DEF Apart
  <2>3. slots[s] = inode[slots[s].i_ino] /\ slots[s].i_ino \in inode_map
    BY <2>1 DEF Mirrors
  <2> QED
    BY <1>2, <2>1, <2>2, <2>3
<1> QED
  BY <1>6, <1>7

LEMMA RmStep ==
  ASSUME Inv, NEW name \in Name, rm(name)
  PROVE  Inv'
<1> DEFINE ino == dir[name]
           t == Opened(ino)
<1>1. /\ TypeOK /\ FilesOwn(filp, file_table) /\ InodesSound /\ NamesSound
      /\ ino \in Ino
  BY DEF rm, Inv, Base, TypeOK
<1>2. /\ t \in TablesType /\ FilesOwn(t.filp, t.file_table)
      /\ t.fd # NULL => t.fd \in Fd /\ t.filp[t.fd] # NULL
  BY <1>1, OpenedType, OpenedOwn
<1>3. CASE Derails(t)
  <2>1. /\ Becomes(t) /\ derailed' = TRUE
        /\ UNCHANGED <<inode, inode_map, dir, running, torn, stale>>
    BY <1>3 DEF rm
  <2>2. TypeOK'
    BY <1>1, <1>2, <2>1, BecomesType DEF TypeOK
  <2>3. FilesOwn(filp', file_table')
    BY <1>2, <2>1 DEF Becomes
  <2>4. InodesSound' /\ NamesSound'
    BY <1>1, <2>1 DEF InodesSound, NamesSound
  <2>5. FilesOwn(filp, file_table)'
    BY <2>3 DEF FilesOwn
  <2> QED
    BY <2>1, <2>2, <2>4, <2>5 DEF Inv, Base
<1>4. CASE ~Derails(t)
  <2> DEFINE u == close(t)
             x == Target(t)
  <2>1. /\ Becomes(u)
        /\ inode' = [inode EXCEPT ![x] = Blank]
        /\ inode_map' = inode_map \ {x}
        /\ dir' = [dir EXCEPT ![name] = 0]
        /\ torn' = Torn(x) \ {name}
        /\ stale' = (stale \union ({x} \intersect TornInos)) \intersect HeldBy(inode_table')
        /\ derailed' = derailed /\ running' = running
    BY <1>4 DEF rm, Unlinked
  <2>2. t.fd \in Fd /\ t.filp[t.fd] # NULL
    BY <1>2, <1>4 DEF Derails
  <2>3. u \in TablesType /\ FilesOwn(u.filp, u.file_table)
    BY <1>2, <2>2, ClosedOwn
  <2>4. /\ inode' \in [Ino -> Inode] /\ inode_map' \subseteq Ino \ {LastIno + 1}
        /\ dir' \in [Name -> {0} \union Ino] /\ torn' \subseteq Name
        /\ InodesSound' /\ NamesSound'
    <3> HIDE DEF x
    <3> QED
      BY <1>1, <2>1, NodeCleared
  <2>5. TypeOK'
    <3>1. stale' \subseteq {0} \union Ino
      BY <1>1, <2>1 DEF TypeOK, TornInos
    <3> QED
      BY <1>1, <2>1, <2>3, <2>4, <3>1, BecomesType DEF TypeOK
  <2>6. FilesOwn(filp', file_table')
    BY <2>1, <2>3 DEF Becomes
  <2>7. ASSUME running', ~derailed'
        PROVE  Tidy(filp', file_table', inode_table', inode', inode_map', Loose')
    <3>1. /\ Tidy(t.filp, t.file_table, t.inode_table, inode, inode_map, Loose)
          /\ x = ino /\ t.inode_table[t.fd].i_ino = ino
          /\ \A r \in SlotNr : t.inode_table[r].i_ino = ino => t.fd <= r
      BY <1>1, <1>4, <2>1, <2>7, OpenInStep
    <3>2. /\ u.inode_table = [t.inode_table EXCEPT ![t.fd] = Blank]
          /\ InStep(u.filp, u.file_table, u.inode_table)
      BY <1>2, <2>2, <3>1, CloseInStep DEF Tidy
    <3>3. /\ inode' = [inode EXCEPT ![ino] = Blank]
          /\ inode_map' = inode_map \ {ino}
      BY <2>1, <3>1
    <3>4. t.inode_table \in [Place -> Inode]
      BY <1>2 DEF TablesType
    <3>6. Loose \intersect HeldBy(u.inode_table) \subseteq Loose'
      <4>1. /\ stale' = (stale \union ({ino} \intersect TornInos))
                        \intersect HeldBy(u.inode_table)
            /\ torn' = Torn(ino) \ {name}
            /\ \A n \in Name : n # name => dir'[n] = dir[n]
        BY <1>1, <2>1, <3>1 DEF Becomes, TypeOK
      <4> HIDE DEF u, t, x
      <4> SUFFICES ASSUME NEW i \in HeldBy(u.inode_table), i \in TornInos, i # ino
                   PROVE  i \in TornInos'
        BY <4>1 DEF Loose
      <4>2. PICK n \in torn : i = dir[n]
        BY DEF TornInos
      <4>3. n \in Name /\ n # name /\ n \in torn'
        BY <1>1, <4>1, <4>2 DEF Torn, TypeOK
      <4> QED
        BY <4>1, <4>2, <4>3 DEF TornInos
    <3> HIDE DEF t, x, u, ino
    <3>5. Apart(u.inode_table, Loose') /\ Mirrors(u.inode_table, inode', inode_map', Loose')
      BY <1>1, <2>2, <3>1, <3>2, <3>3, <3>4, <3>6, SlotDropped DEF Tidy
    <3> QED
      BY <2>1, <3>2, <3>5 DEF Becomes, Tidy
  <2> HIDE DEF u, x
  <2>8. FilesOwn(filp, file_table)' /\ (running /\ ~derailed =>
          Tidy(filp, file_table, inode_table, inode, inode_map, Loose))'
    BY <2>6, <2>7 DEF FilesOwn, Tidy, InStep, Mirrors, Apart
  <2> QED
    BY <2>4, <2>5, <2>8 DEF Inv, Base
<1> QED
  BY <1>3, <1>4

LEMMA RmCutStep ==
  ASSUME Inv, NEW name \in Name, RmCut(name)
  PROVE  Inv'
<1> DEFINE t == Opened(dir[name])
           x == Target(t)
<1>1. TypeOK /\ FilesOwn(filp, file_table) /\ InodesSound /\ NamesSound
  BY DEF Inv, Base
<1>2. running' = FALSE /\ UNCHANGED <<memory, dir>>
  BY DEF RmCut
<1>3. /\ inode' \in [Ino -> Inode] /\ inode_map' \subseteq Ino \ {LastIno + 1}
      /\ torn' \subseteq Name /\ InodesSound' /\ NamesSound'
  <2>1. CASE /\ inode' = [inode EXCEPT ![x] = Blank]
             /\ inode_map' \in {inode_map, inode_map \ {x}}
             /\ torn' = Torn(x)
    <3> HIDE DEF x
    <3> QED
      BY <1>1, <1>2, <2>1, NodeCleared
  <2>2. CASE inode' = [inode EXCEPT ![x] = OpenInode(t)] /\ UNCHANGED <<inode_map, torn>>
    <3> DEFINE node == OpenInode(t)
    <3>1. dir[name] \in Ino /\ ~Derails(t)
      BY <1>1 DEF RmCut, TypeOK
    <3>2. t \in TablesType /\ (t.fd # NULL => t.fd \in Fd /\ t.filp[t.fd] # NULL)
      BY <1>1, <3>1, OpenedType, OpenedOwn
    <3>3. t.fd \in Fd /\ t.filp[t.fd] \in FileNr /\ node.i_size # 0
      BY <3>1, <3>2 DEF Derails, OpenInode, TablesType
    <3>4. t.file_table[t.filp[t.fd]].f_inode \in Place
      BY <3>2, <3>3 DEF TablesType
    <3>5. node \in Inode /\ node.i_ino = x
      BY <3>2, <3>4 DEF TablesType, OpenInode, Target
    <3> HIDE DEF node, x, t
    <3>6. \A i \in Ino : inode'[i] = IF i = x THEN node ELSE inode[i]
      BY <1>1, <2>2 DEF TypeOK, node
    <3>7. inode' \in [Ino -> Inode]
      BY <1>1, <2>2, <3>5 DEF TypeOK, node
    <3>8. InodesSound'
      BY <1>1, <3>5, <3>6 DEF InodesSound
    <3>9. NamesSound'
      <4>1. \A n \in Name : dir[n] # 0 /\ n \notin torn => inode'[dir[n]].i_size # 0
        BY <1>1, <3>3, <3>6 DEF NamesSound, TypeOK
      <4> QED
        BY <1>1, <1>2, <2>2, <4>1 DEF NamesSound
    <3> QED
      BY <1>1, <2>2, <3>7, <3>8, <3>9 DEF TypeOK
  <2> QED
    BY <2>1, <2>2 DEF RmCut
<1>4. TypeOK' /\ FilesOwn(filp, file_table)'
  BY <1>1, <1>2, <1>3 DEF TypeOK, FilesOwn, memory
<1> QED
  BY <1>2, <1>3, <1>4 DEF Inv, Base

LEMMA CreatStep ==
  ASSUME Inv, NEW name \in Name, simple_creat(name)
  PROVE  Inv'
<1> DEFINE s == get_active_inode_table_nr
           node == NewNode(_BLOCK_SIZE)
           t == Attached([inode_table EXCEPT ![s] = node], s)
<1>1. TypeOK /\ FilesOwn(filp, file_table) /\ InodesSound /\ NamesSound
  BY DEF Inv, Base
<1>2. /\ running /\ FreeFd # NULL /\ FreeFile # NULL
      /\ Becomes(t)
      /\ Made(name, _BLOCK_SIZE)
      /\ UNCHANGED <<running, derailed, torn, stale>>
  BY DEF simple_creat
<1>3. node \in Inode /\ node.i_size # 0 /\ node.i_ino = new_inode
  BY <1>1, NewNodeType, Lengths
<1>4. /\ s \in Place /\ [inode_table EXCEPT ![s] = node] \in [Place -> Inode]
  BY <1>1, <1>3, Frees DEF TypeOK
<1>5. t \in TablesType /\ FilesOwn(t.filp, t.file_table)
  BY <1>1, <1>4, AttachedType, AttachedOwn
<1>6. /\ inode' \in [Ino -> Inode] /\ inode_map' \subseteq Ino \ {LastIno + 1}
      /\ dir' \in [Name -> {0} \union Ino]
      /\ InodesSound' /\ NamesSound'
  BY <1>1, <1>2, NameGiven, Lengths
<1>8. TypeOK'
  BY <1>1, <1>2, <1>5, <1>6, BecomesType DEF TypeOK
<1>9. FilesOwn(filp', file_table')
  BY <1>2, <1>5 DEF Becomes
<1>10. ASSUME running', ~derailed'
       PROVE  Tidy(filp', file_table', inode_table', inode', inode_map', Loose')
  <2>1. /\ InStep(filp, file_table, inode_table)
        /\ Mirrors(inode_table, inode, inode_map, Loose) /\ Apart(inode_table, Loose)
    BY <1>2, <1>10 DEF Inv, Tidy
  <2>2. s = FreeFd
    BY <1>1, <1>2, <2>1, FreesInStep
  <2>3. t = Attached([inode_table EXCEPT ![FreeFd] = node], FreeFd)
    BY <2>2
  <2>4. new_inode \in Ino
    BY <1>1, NewInode
  <2>5. inode'[new_inode] = node
    BY <1>1, <1>2, <2>4 DEF Made, TypeOK
  <2>6. new_inode = LastIno + 1 \/ new_inode \in inode_map'
    BY <1>2 DEF Made, Noted
  <2> HIDE DEF t, node
  <2>7. /\ FreeFd \in Fd
        /\ t.inode_table = [inode_table EXCEPT ![FreeFd] = node]
        /\ InStep(t.filp, t.file_table, t.inode_table)
    BY <1>1, <1>2, <1>3, <2>1, <2>3, AttachInStep
  <2>8. /\ Mirrors(inode_table, inode', inode_map', Loose')
        /\ Apart(inode_table, Loose')
        /\ \/ new_inode = LastIno + 1 \/ new_inode \in Loose'
           \/ \A r \in SlotNr : inode_table[r].i_ino # new_inode
    BY <1>1, <1>2, <2>1, SlotsPassNew, Lengths
  <2>9. /\ Apart(t.inode_table, Loose')
        /\ Mirrors(t.inode_table, inode', inode_map', Loose')
    BY <1>1, <1>3, <2>4, <2>5, <2>6, <2>7, <2>8, SlotAdded
  <2> QED
    BY <1>2, <2>7, <2>9 DEF Becomes, Tidy
<1> HIDE DEF t, s, node
<1>11. FilesOwn(filp, file_table)' /\ (running /\ ~derailed =>
         Tidy(filp, file_table, inode_table, inode, inode_map, Loose))'
  BY <1>9, <1>10 DEF FilesOwn, Tidy, InStep, Mirrors, Apart
<1> QED
  BY <1>6, <1>8, <1>11 DEF Inv, Base

LEMMA MkdirStep ==
  ASSUME Inv, NEW name \in Name, mkdir(name)
  PROVE  Inv'
<1>1. TypeOK /\ FilesOwn(filp, file_table) /\ InodesSound /\ NamesSound
  BY DEF Inv, Base
<1>2. /\ Made(name, EmptyDir)
      /\ UNCHANGED <<filp, file_table, inode_table, derailed, stale, running, torn>>
  BY DEF mkdir, memory
<1>3. /\ inode' \in [Ino -> Inode] /\ inode_map' \subseteq Ino \ {LastIno + 1}
      /\ dir' \in [Name -> {0} \union Ino]
      /\ InodesSound' /\ NamesSound'
  BY <1>1, <1>2, NameGiven, Lengths
<1>4. TypeOK' /\ FilesOwn(filp, file_table)'
  BY <1>1, <1>2, <1>3 DEF TypeOK, FilesOwn
<1>5. ASSUME running, ~derailed
      PROVE  Tidy(filp, file_table, inode_table, inode', inode_map', Loose')
  BY <1>1, <1>2, <1>5, SlotsPassNew, Lengths DEF Inv, Tidy
<1>6. (running /\ ~derailed =>
         Tidy(filp, file_table, inode_table, inode, inode_map, Loose))'
  BY <1>2, <1>5 DEF Tidy, InStep, Mirrors, Apart
<1> QED
  BY <1>3, <1>4, <1>6 DEF Inv, Base

LEMMA CreatCutStep ==
  ASSUME Inv, NEW length \in {_BLOCK_SIZE, EmptyDir}, CreatCut(length)
  PROVE  Inv'
<1>1. TypeOK /\ FilesOwn(filp, file_table) /\ InodesSound /\ NamesSound
  BY DEF Inv, Base
<1>2. /\ Noted
      /\ \/ inode' = inode
         \/ inode' = [inode EXCEPT ![new_inode] = NewNode(length)]
      /\ running' = FALSE
      /\ UNCHANGED <<memory, dir, torn>>
  BY DEF CreatCut
<1>3. /\ inode' \in [Ino -> Inode] /\ inode_map' \subseteq Ino \ {LastIno + 1}
      /\ InodesSound' /\ NamesSound'
  BY <1>1, <1>2, NodeWritten, Lengths
<1>4. TypeOK' /\ FilesOwn(filp, file_table)'
  BY <1>1, <1>2, <1>3 DEF TypeOK, FilesOwn, memory
<1> QED
  BY <1>2, <1>3, <1>4 DEF Inv, Base

LEMMA RmdirStep ==
  ASSUME Inv, NEW name \in Name, rmdir(name)
  PROVE  Inv'
<1>1. /\ TypeOK /\ FilesOwn(filp, file_table) /\ InodesSound /\ NamesSound
      /\ dir[name] \in Ino
  BY DEF rmdir, Inv, Base, TypeOK
<1>2. PICK x \in Ino : x = dir[name]
  BY <1>1
<1>3. /\ inode' = [inode EXCEPT ![x] = Blank]
      /\ inode_map' = inode_map \ {x}
      /\ dir' = [dir EXCEPT ![name] = 0]
      /\ torn' = Torn(x) \ {name}
      /\ stale' = Passed(x)
      /\ UNCHANGED <<filp, file_table, inode_table, running, derailed>>
  BY <1>2 DEF rmdir, Unlinked
<1>4. /\ inode' \in [Ino -> Inode] /\ inode_map' \subseteq Ino \ {LastIno + 1}
      /\ dir' \in [Name -> {0} \union Ino] /\ torn' \subseteq Name
      /\ InodesSound' /\ NamesSound'
  BY <1>1, <1>3, NodeCleared
<1>5. TypeOK' /\ FilesOwn(filp, file_table)'
  <2>1. stale' \subseteq {0} \union Ino
    BY <1>1, <1>2, <1>3 DEF TypeOK, Passed
  <2> QED
    BY <1>1, <1>3, <1>4, <2>1 DEF TypeOK, FilesOwn
<1>6. ASSUME running, ~derailed
      PROVE  Tidy(filp, file_table, inode_table, inode', inode_map', Loose')
  <2>1. /\ InStep(filp, file_table, inode_table)
        /\ Mirrors(inode_table, inode, inode_map, Loose) /\ Apart(inode_table, Loose)
    BY <1>6 DEF Inv, Tidy
  <2>2. \A i \in Ino : i # x => inode'[i] = inode[i] /\ (i \in inode_map => i \in inode_map')
    BY <1>1, <1>3 DEF TypeOK
  <2>3. \A n \in torn : dir[n] = x \/ (n \in torn' /\ dir'[n] = dir[n])
    BY <1>1, <1>2, <1>3 DEF TypeOK, Torn
  <2> QED
    BY <1>1, <1>3, <2>1, <2>2, <2>3, SlotsPassed DEF Tidy
<1>7. (running /\ ~derailed =>
         Tidy(filp, file_table, inode_table, inode, inode_map, Loose))'
  BY <1>3, <1>6 DEF Tidy, InStep, Mirrors, Apart
<1> QED
  BY <1>4, <1>5, <1>7 DEF Inv, Base

LEMMA RmdirCutStep ==
  ASSUME Inv, NEW name \in Name, RmdirCut(name)
  PROVE  Inv'
<1>1. TypeOK /\ FilesOwn(filp, file_table) /\ InodesSound /\ NamesSound
  BY DEF Inv, Base
<1>2. running' = FALSE /\ UNCHANGED <<memory, dir>>
  BY DEF RmdirCut
<1>3. /\ inode' \in [Ino -> Inode] /\ inode_map' \subseteq Ino \ {LastIno + 1}
      /\ torn' \subseteq Name /\ InodesSound' /\ NamesSound'
  <2>1. CASE UNCHANGED <<inode, inode_map, torn>>
    BY <1>1, <1>2, <2>1 DEF TypeOK, InodesSound, NamesSound
  <2>2. CASE /\ inode_map' = inode_map \ {dir[name]}
             /\ inode' \in {inode, [inode EXCEPT ![dir[name]] = Blank]}
             /\ torn' = Torn(dir[name])
    BY <1>1, <1>2, <2>2, NodeCleared
  <2> QED
    BY <2>1, <2>2 DEF RmdirCut
<1>4. TypeOK' /\ FilesOwn(filp, file_table)'
  BY <1>1, <1>2, <1>3 DEF TypeOK, FilesOwn, memory
<1> QED
  BY <1>2, <1>3, <1>4 DEF Inv, Base

LEMMA ResizeStep ==
  ASSUME Inv, NEW name \in Name, Resize(name)
  PROVE  Inv'
<1>1. /\ TypeOK /\ FilesOwn(filp, file_table) /\ InodesSound /\ NamesSound
      /\ dir[name] \in Ino
  BY DEF Resize, Inv, Base, TypeOK
<1>2. PICK x \in Ino : x = dir[name]
  BY <1>1
<1>3. PICK length \in DirSize : inode' = [inode EXCEPT ![x].i_size = length]
  BY <1>2 DEF Resize
<1>4. /\ stale' = Passed(x) /\ inode[x].i_size \in DirSize
      /\ UNCHANGED <<filp, file_table, inode_table, inode_map, dir, running,
                     derailed, torn>>
  BY <1>2 DEF Resize
<1>5. length \in Size /\ length # 0 /\ 0 \notin DirSize
  BY DEF Size, DirSize, EmptyDir, FilledDir
<1>6. inode[x] \in Inode /\ inode[x].i_ino = x
  <2>1. inode[x] \in Inode
    BY <1>1 DEF TypeOK
  <2>2. inode[x] # Blank
    BY <1>4, <1>5 DEF Blank
  <2> QED
    BY <1>1, <2>1, <2>2 DEF InodesSound
<1>7. /\ inode'[x].i_size = length /\ inode'[x].i_ino = x
      /\ \A i \in Ino : i # x => inode'[i] = inode[i]
      /\ inode' \in [Ino -> Inode]
  BY <1>1, <1>3, <1>5, <1>6 DEF TypeOK, Inode
<1>8. InodesSound'
  BY <1>1, <1>7 DEF InodesSound
<1>9. NamesSound'
  <2>1. \A n \in Name : dir[n] # 0 /\ n \notin torn => inode'[dir[n]].i_size # 0
    BY <1>1, <1>5, <1>7 DEF NamesSound, TypeOK
  <2> QED
    BY <1>1, <1>4, <2>1 DEF NamesSound
<1>10. TypeOK' /\ FilesOwn(filp, file_table)'
  <2>1. stale' \subseteq {0} \union Ino
    BY <1>1, <1>4 DEF TypeOK, Passed
  <2> QED
    BY <1>1, <1>4, <1>7, <2>1 DEF TypeOK, FilesOwn
<1>11. ASSUME running, ~derailed
       PROVE  Tidy(filp, file_table, inode_table, inode', inode_map', Loose')
  <2>1. /\ InStep(filp, file_table, inode_table)
        /\ Mirrors(inode_table, inode, inode_map, Loose) /\ Apart(inode_table, Loose)
    BY <1>11 DEF Inv, Tidy
  <2>2. \A i \in Ino : i # x => inode'[i] = inode[i] /\ (i \in inode_map => i \in inode_map')
    BY <1>4, <1>7
  <2>3. \A n \in torn : dir[n] = x \/ (n \in torn' /\ dir'[n] = dir[n])
    BY <1>4
  <2> QED
    BY <1>1, <1>4, <2>1, <2>2, <2>3, SlotsPassed DEF Tidy
<1>12. (running /\ ~derailed =>
          Tidy(filp, file_table, inode_table, inode, inode_map, Loose))'
  BY <1>4, <1>11 DEF Tidy, InStep, Mirrors, Apart
<1> QED
  BY <1>8, <1>9, <1>10, <1>12 DEF Inv, Base

LEMMA RestartStep == Inv /\ Restart => Inv'
<1> SUFFICES ASSUME Inv, Restart PROVE Inv'
  OBVIOUS
<1>1. TypeOK /\ InodesSound /\ NamesSound
  BY DEF Inv, Base
<1>2. /\ filp' = [fd \in Fd |-> NULL]
      /\ file_table' = [j \in FileNr |-> NoFile]
      /\ inode_table' = [s \in Place |-> Blank]
      /\ running' = TRUE /\ derailed' = FALSE /\ stale' = {}
      /\ UNCHANGED <<inode, inode_map, dir, torn>>
  BY DEF Restart
<1>3. TypeOK'
  <2>1. file_table' \in [FileNr -> [f_count : Nat, f_inode : Place]]
    BY <1>2, Indices DEF NoFile
  <2>2. inode_table' \in [Place -> Inode]
    BY <1>2, BlankType
  <2> QED
    BY <1>1, <1>2, <2>1, <2>2 DEF TypeOK
<1>4. InodesSound' /\ NamesSound'
  BY <1>1, <1>2 DEF InodesSound, NamesSound
<1>5. FilesOwn(filp, file_table)'
  BY <1>2 DEF FilesOwn
<1>6. Tidy(filp, file_table, inode_table, inode, inode_map, Loose)'
  <2>1. \A s \in Place : inode_table'[s] = Blank
    BY <1>2
  <2>2. \A fd \in Fd : filp'[fd] = NULL /\ file_table'[fd].f_count = 0
    BY <1>2, Indices DEF NoFile
  <2> QED
    BY <2>1, <2>2, Indices DEF Tidy, InStep, Mirrors, Apart
<1> QED
  BY <1>3, <1>4, <1>5, <1>6 DEF Inv, Base

LEMMA InvStep == Inv /\ [Next]_vars => Inv'
<1> SUFFICES ASSUME Inv, [Next]_vars PROVE Inv'
  OBVIOUS
<1>1. ASSUME NEW name \in Name, cat(name) PROVE Inv'
  BY <1>1, CatStep
<1>2. ASSUME NEW name \in Name, OpenGoesWild(name) PROVE Inv'
  <2>1. running' = FALSE /\ UNCHANGED <<memory, inode, inode_map, dir, torn>>
    BY <1>2 DEF OpenGoesWild
  <2>2. Base'
    BY <2>1 DEF Inv, Base, TypeOK, FilesOwn, InodesSound, NamesSound, memory
  <2> QED
    BY <2>1, <2>2 DEF Inv
<1>3. ASSUME NEW name \in Name, rm(name) PROVE Inv'
  BY <1>3, RmStep
<1>4. ASSUME NEW name \in Name, RmCut(name) PROVE Inv'
  BY <1>4, RmCutStep
<1>5. ASSUME NEW name \in Name, simple_creat(name) PROVE Inv'
  BY <1>5, CreatStep
<1>6. ASSUME NEW length \in {_BLOCK_SIZE, EmptyDir}, CreatCut(length) PROVE Inv'
  BY <1>6, CreatCutStep
<1>9. ASSUME NEW name \in Name, mkdir(name) PROVE Inv'
  BY <1>9, MkdirStep
<1>10. ASSUME NEW name \in Name, rmdir(name) PROVE Inv'
  BY <1>10, RmdirStep
<1>11. ASSUME NEW name \in Name, RmdirCut(name) PROVE Inv'
  BY <1>11, RmdirCutStep
<1>12. ASSUME NEW name \in Name, Resize(name) PROVE Inv'
  BY <1>12, ResizeStep
<1>7. CASE Restart
  BY <1>7, RestartStep
<1>8. CASE UNCHANGED vars
  BY <1>8 DEF vars, Inv, Base, TypeOK, FilesOwn, InodesSound, NamesSound, Tidy,
              InStep, Mirrors, Apart, Loose, TornInos
<1> QED
  BY <1>1, <1>2, <1>3, <1>4, <1>5, <1>6, <1>7, <1>8, <1>9, <1>10, <1>11, <1>12 DEF Next

-----------------------------------------------------------------------------
(* After any commands, restarts and power failures the tables, the disk    *)
(* and the names are as the parts of Inv say.                              *)
THEOREM TablesInvariance == Spec => []Inv
<1>1. Init => Inv
  BY InitInv
<1>2. Inv /\ [Next]_vars => Inv'
  BY InvStep
<1> QED
  BY <1>1, <1>2, PTL DEF Spec

(* Tables, inodes and names have their types, out of step too. *)
THEOREM TablesTypeCorrect == Spec => []TypeOK
<1>1. Inv => TypeOK
  BY DEF Inv, Base
<1> QED
  BY <1>1, TablesInvariance, PTL

(* What open relies on when it takes the index of a slot for a descriptor: *)
(* until an open derails them, the three tables keep to one index.         *)
THEOREM TablesInLockstep == Spec => []Lockstep
<1>1. Inv => Lockstep
  <2> SUFFICES ASSUME Inv, running, ~derailed PROVE Lockstep
    BY DEF Lockstep
  <2>1. TypeOK /\ InStep(filp, file_table, inode_table)
    BY DEF Inv, Base, Tidy
  <2>2. ASSUME NEW fd \in Fd, filp[fd] # NULL
        PROVE  file_table[fd] = [f_count |-> 1, f_inode |-> fd]
    <3>1. file_table[fd] \in [f_count : Nat, f_inode : Place]
      BY <2>1, Indices DEF TypeOK
    <3>2. file_table[fd].f_count = 1 /\ file_table[fd].f_inode = fd
      BY <2>1, <2>2 DEF InStep
    <3> QED
      BY <3>1, <3>2
  <2>3. ASSUME NEW fd \in Fd
        PROVE  IF filp[fd] = NULL
               THEN file_table[fd].f_count = 0 /\ inode_table[fd] = Blank
               ELSE /\ filp[fd] = fd
                    /\ file_table[fd] = [f_count |-> 1, f_inode |-> fd]
                    /\ inode_table[fd].i_size # 0
    <3>1. CASE filp[fd] = NULL
      BY <2>1, <3>1 DEF InStep
    <3>2. CASE filp[fd] # NULL
      BY <2>1, <2>2, <3>2 DEF InStep
    <3> QED
      BY <3>1, <3>2
  <2>4. \A s \in Place \ Fd : inode_table[s] = Blank
    BY <2>1 DEF InStep
  <2> QED
    BY <2>3, <2>4 DEF Lockstep
<1> QED
  BY <1>1, TablesInvariance, PTL

(* What is kept of an open inode in memory is the inode on disk, but for   *)
(* those that rmdir or a change of an open directory has written past the  *)
(* slot, and the numbers of torn names.                                    *)
THEOREM SlotsCorrect == Spec => []SlotsMirrorDisk
<1>1. Inv => SlotsMirrorDisk
  BY DEF Inv, Tidy, Mirrors, Loose, SlotsMirrorDisk
<1> QED
  BY <1>1, TablesInvariance, PTL

(* A name stands for a live inode of its own, whatever open, close, rm and *)
(* rmdir have done to the tables.                                          *)
THEOREM NamesCorrect == Spec => []NamesSound
<1>1. Inv => NamesSound
  BY DEF Inv, Base
<1> QED
  BY <1>1, TablesInvariance, PTL

(* Only an open without a free descriptor, or of a name whose inode went   *)
(* without it, puts the tables out of step.                                *)
THEOREM DerailsExplained == Spec => DerailsOnlyWhenFull
<1>1. Inv /\ [Next]_vars => [derailed' /\ ~derailed => FreeFd = NULL \/ torn # {}]_vars
  <2> SUFFICES ASSUME Inv, Next, derailed', ~derailed
               PROVE  FreeFd = NULL \/ torn # {}
    BY DEF vars
  <2>1. PICK name \in Name : cat(name) \/ rm(name)
    BY DEF Next, OpenGoesWild, RmCut, simple_creat, CreatCut, mkdir, rmdir,
           RmdirCut, Resize, Restart, memory
  <2>2. running /\ dir[name] # 0 /\ Derails(Opened(dir[name]))
    BY <2>1 DEF cat, rm
  <2> QED
    BY <2>2, DerailCause
<1> QED
  BY <1>1, TablesInvariance, PTL DEF Spec, DerailsOnlyWhenFull
=============================================================================
