---------------------------- MODULE FileTables ----------------------------
(***************************************************************************)
(* The three tables of open files and the commands that go through them:   *)
(* simple_creat, open and close of src/src/fs/file.cc, called by touch,    *)
(* cat, slowcat and rm; and mkdir and rmdir, which write inodes past them. *)
(*                                                                         *)
(*   current->filp[fd] -> file_table[j] -> active_inode_table[s]           *)
(*                                                                         *)
(* Nothing is printed between the first and the last access of a command   *)
(* to the tables, so interrupts are off and a command is one action.  The  *)
(* names are those of one directory, the root; some are of directories,    *)
(* which open takes like files.  The blocks are in module FileMap, paths,  *)
(* entries and the names . and .. in module Directory.                     *)
(***************************************************************************)
EXTENDS Integers, FiniteSets

CONSTANTS
  NR_OPEN,            \* descriptors of the one task, 10 in the code
  NR_FILE,            \* entries of the system's file table, 64
  MAX_ACTIVE_INODE,   \* slots of the active inode table, 64
  LastIno,            \* last inode, 4095
  Name,               \* file names
  Texts               \* the names of the files that setup_fs has written

ASSUME FileTablesAssumption ==
  /\ NR_OPEN \in Nat \ {0} /\ LastIno \in Nat \ {0}
  /\ NR_FILE \in Nat /\ NR_OPEN <= NR_FILE
  /\ MAX_ACTIVE_INODE \in Nat /\ NR_OPEN <= MAX_ACTIVE_INODE
  /\ Texts \subseteq Name
  /\ IsFiniteSet(Texts) /\ Cardinality(Texts) <= LastIno

NULL == -1
Fd == 0 .. (NR_OPEN - 1)
FileNr == 0 .. (NR_FILE - 1)
SlotNr == 0 .. (MAX_ACTIVE_INODE - 1)
Place == -1 .. (MAX_ACTIVE_INODE - 1)   \* -1 is the memory in front of the table
Ino == 1 .. (LastIno + 1)    \* new_inode returns the number behind the last
                             \* when every bit is set; 0 is the root directory
_BLOCK_SIZE == 1024
TextLength == 4096           \* any length that no other inode has
EmptyDir == 36               \* the entries . and ..
FilledDir == 54              \* and one more
DirSize == {EmptyDir, FilledDir}
Size == {0, _BLOCK_SIZE, TextLength} \union DirSize

Inode == [i_ino : {0} \union Ino, i_size : Size]
Blank == [i_ino |-> 0, i_size |-> 0]

VARIABLES
  filp,          \* current->filp: a file number or NULL
  file_table,    \* f_count and the place of f_inode
  inode_table,   \* active_inode_table
  inode,         \* the inodes on disk
  inode_map,     \* the numbers whose bit is set
  dir,           \* the inode that each name stands for, 0 for none
  running,       \* FALSE after _panic, a wild pointer or a power failure
  derailed,      \* history, since the start: open has left the tables out of step
  torn,          \* history: names whose inode was cleared or freed without them
  stale          \* history, since the start: inodes changed on disk only,
                 \* while a slot has them

memory == <<filp, file_table, inode_table, derailed, stale>>
vars == <<filp, file_table, inode_table, inode, inode_map, dir, running,
          derailed, torn, stale>>

NoFile == [f_count |-> 0, f_inode |-> NULL]

TypeOK ==
  /\ filp \in [Fd -> FileNr \union {NULL}]
  /\ file_table \in [FileNr -> [f_count : Nat, f_inode : Place]]
  /\ inode_table \in [Place -> Inode]
  /\ inode \in [Ino -> Inode]
  /\ inode_map \subseteq Ino \ {LastIno + 1}
  /\ dir \in [Name -> {0} \union Ino]
  /\ running \in BOOLEAN
  /\ derailed \in BOOLEAN
  /\ torn \subseteq Name
  /\ stale \subseteq {0} \union Ino

-----------------------------------------------------------------------------
(* Each definition named ...Mutant is a plausible bug in the definition    *)
(* that follows it; no specification uses it.                              *)

IsFirst(k, S) == k \in S /\ \A m \in S : k <= m
First(S) == IF S = {} THEN NULL ELSE CHOOSE k \in S : IsFirst(k, S)

(* setup_fs has created, written and closed its files.                     *)
Init ==
  /\ filp = [fd \in Fd |-> NULL]
  /\ file_table = [j \in FileNr |-> NoFile]
  /\ inode_table = [s \in Place |-> Blank]
  /\ inode_map = 1 .. Cardinality(Texts)
  /\ dir \in [Name -> {0} \union Ino]
  /\ \A n \in Name \ Texts : dir[n] = 0
  /\ {dir[n] : n \in Texts} = inode_map
  /\ inode = [i \in Ino |-> IF i \in inode_map
                            THEN [i_ino |-> i, i_size |-> TextLength] ELSE Blank]
  /\ running = TRUE
  /\ derailed = FALSE
  /\ torn = {}
  /\ stale = {}

get_active_inode_table_nr == First({s \in SlotNr : inode_table[s].i_size = 0})
FreeFd == First({fd \in Fd : filp[fd] = NULL})

FreeFileMutant == First(FileNr)
FreeFile == First({j \in FileNr : file_table[j].f_count = 0})

(* What the tables are after a call, and what it returns.                  *)
Tables(fs, files, slots, fd) ==
  [filp |-> fs, file_table |-> files, inode_table |-> slots, fd |-> fd]

(* A descriptor and a file are taken and refer to place s.                 *)
Attached(slots, s) ==
  IF FreeFd = NULL \/ FreeFile = NULL
  THEN Tables(filp, file_table, slots, NULL)
  ELSE Tables([filp EXCEPT ![FreeFd] = FreeFile],
              [file_table EXCEPT ![FreeFile] =
                 [f_count |-> file_table[FreeFile].f_count + 1, f_inode |-> s]],
              slots, FreeFd)

-----------------------------------------------------------------------------
(* open, of a file with inode ino.                                         *)
Cached(ino) == First({s \in SlotNr : inode_table[s].i_ino = ino})

(* The index of a slot is taken for a descriptor.  It may be beyond filp,  *)
(* or point nowhere; what is read there is then up to memory.              *)
IsDescriptor(i) == i \in Fd /\ filp[i] # NULL
OfDescriptor(fd) == inode_table[file_table[filp[fd]].f_inode]
OpenByIndex(ino) ==
  /\ Cached(ino) # NULL /\ IsDescriptor(Cached(ino))
  /\ OfDescriptor(Cached(ino)).i_ino = ino
OpenWild(ino) == Cached(ino) # NULL /\ ~IsDescriptor(Cached(ino))

(* Not in the table: copied into the first free slot.  In the table, but   *)
(* not at the descriptor of that index: the first free slot is used as it  *)
(* is.                                                                     *)
Opened(ino) ==
  LET s == get_active_inode_table_nr
  IN  IF OpenByIndex(ino) THEN Tables(filp, file_table, inode_table, Cached(ino))
      ELSE IF Cached(ino) # NULL THEN Attached(inode_table, s)
      ELSE Attached([inode_table EXCEPT ![s] = inode[ino]], s)

(* No descriptor for the slot just filled, or a slot that stays blank.     *)
Derails(t) ==
  \/ t.fd = NULL
  \/ t.inode_table[t.file_table[t.filp[t.fd]].f_inode].i_size = 0

Becomes(t) ==
  /\ filp' = t.filp
  /\ file_table' = t.file_table
  /\ inode_table' = t.inode_table

(* open returns at once when there is no such name, and looks at no        *)
(* i_mode.  cat and slowcat only read what they have opened, and never     *)
(* close it.                                                               *)
cat(name) ==
  /\ running
  /\ dir[name] # 0
  /\ LET t == Opened(dir[name])
     IN  /\ Becomes(t)
         /\ derailed' = (derailed \/ Derails(t))
  /\ UNCHANGED <<inode, inode_map, dir, running, torn, stale>>

(* A pointer read from beyond filp or through NULL seems to be right.      *)
OpenGoesWild(name) ==
  /\ running
  /\ dir[name] # 0
  /\ OpenWild(dir[name])
  /\ running' = FALSE
  /\ UNCHANGED <<memory, inode, inode_map, dir, torn>>

-----------------------------------------------------------------------------
(* The slot that close clears is the first with the same number.           *)
ClearedMutant(t, s) == [t.inode_table EXCEPT ![First(SlotNr)] = Blank]
Cleared(t, s) ==
  LET j == First({k \in SlotNr : t.inode_table[k].i_ino = t.inode_table[s].i_ino})
  IN  IF j = NULL THEN t.inode_table ELSE [t.inode_table EXCEPT ![j] = Blank]

(* close.  A file is taken at count 0, so it goes back to 0: no panic.     *)
close(t) ==
  LET j == t.filp[t.fd]
  IN  Tables([t.filp EXCEPT ![t.fd] = NULL],
             [t.file_table EXCEPT ![j].f_count = t.file_table[j].f_count - 1],
             Cleared(t, t.file_table[j].f_inode), t.fd)

UnlinkedMutant(name) == [dir EXCEPT ![name] = NULL]
Unlinked(name) == [dir EXCEPT ![name] = 0]

OpenInode(t) == t.inode_table[t.file_table[t.filp[t.fd]].f_inode]
Target(t) == OpenInode(t).i_ino

(* The names that an inode has, once it is cleared or freed without them.  *)
Torn(ino) == torn \union {n \in Name : dir[n] = ino}
TornInos == {dir[n] : n \in torn}
HeldBy(slots) == {slots[s].i_ino : s \in SlotNr}

(* rm: open, close, and the inode of the descriptor is removed with the    *)
(* name.  close writes the inode back before.                              *)
rm(name) ==
  /\ running
  /\ dir[name] # 0
  /\ LET t == Opened(dir[name])
         ino == Target(t)
     IN  IF Derails(t)
         THEN /\ Becomes(t)
              /\ derailed' = TRUE
              /\ UNCHANGED <<inode, inode_map, dir, torn, stale>>
         ELSE /\ Becomes(close(t))
              /\ inode' = [inode EXCEPT ![ino] = Blank]
              /\ inode_map' = inode_map \ {ino}
              /\ dir' = Unlinked(name)
              /\ torn' = Torn(ino) \ {name}
              /\ stale' = (stale \union ({ino} \intersect TornInos))
                          \intersect HeldBy(inode_table')
              /\ UNCHANGED derailed
  /\ UNCHANGED running

(* A power failure when close has written the inode back; or when rm has   *)
(* cleared it, and its bit perhaps, and the directory still has the name.  *)
RmCut(name) ==
  /\ running
  /\ dir[name] # 0
  /\ LET t == Opened(dir[name])
     IN  /\ ~Derails(t)
         /\ \/ /\ inode' = [inode EXCEPT ![Target(t)] = OpenInode(t)]
               /\ UNCHANGED <<inode_map, torn>>
            \/ /\ inode' = [inode EXCEPT ![Target(t)] = Blank]
               /\ inode_map' \in {inode_map, inode_map \ {Target(t)}}
               /\ torn' = Torn(Target(t))
  /\ running' = FALSE
  /\ UNCHANGED <<memory, dir>>

-----------------------------------------------------------------------------
new_inodeMutant == LET clear == Ino \ {LastIno + 1} IN First(clear)
new_inode ==
  LET clear == (Ino \ {LastIno + 1}) \ inode_map
  IN  IF clear = {} THEN LastIno + 1 ELSE First(clear)

(* A new inode on disk, and its number in the directory when the name is   *)
(* new: what simple_creat and mkdir have in common.                        *)
NewNode(length) == [i_ino |-> new_inode, i_size |-> length]
Noted == inode_map' = inode_map \union ({new_inode} \ {LastIno + 1})
Made(name, length) ==
  /\ Noted
  /\ inode' = [inode EXCEPT ![new_inode] = NewNode(length)]
  /\ dir' = IF dir[name] = 0 THEN [dir EXCEPT ![name] = new_inode] ELSE dir

(* simple_creat takes descriptor, file, slot, inode and block, and then    *)
(* looks for the name.                                                     *)
simple_creat(name) ==
  LET s == get_active_inode_table_nr
  IN  /\ running
      /\ FreeFd # NULL /\ FreeFile # NULL
      /\ Becomes(Attached([inode_table EXCEPT ![s] = NewNode(_BLOCK_SIZE)], s))
      /\ Made(name, _BLOCK_SIZE)
      /\ UNCHANGED <<running, derailed, torn, stale>>

mkdir(name) ==
  /\ running
  /\ Made(name, EmptyDir)
  /\ UNCHANGED <<memory, running, torn>>

(* A power failure in simple_creat or mkdir, or a panic: no block, a name  *)
(* too long.                                                               *)
CreatCut(length) ==
  /\ running
  /\ length = _BLOCK_SIZE => FreeFd # NULL /\ FreeFile # NULL
  /\ Noted
  /\ inode' \in {inode, [inode EXCEPT ![new_inode] = NewNode(length)]}
  /\ running' = FALSE
  /\ UNCHANGED <<memory, dir, torn>>

-----------------------------------------------------------------------------
(* What is written to an inode on disk is not written to its slot.         *)
Passed(ino) == stale \union ({ino} \intersect HeldBy(inode_table))

(* The bit goes first, then the inode, then the name.  A cleared inode has *)
(* number 0, where free_inode panics.  rmdir looks at no i_mode either.    *)
rmdir(name) ==
  /\ running
  /\ dir[name] # 0
  /\ inode[dir[name]] # Blank
  /\ inode_map' = inode_map \ {dir[name]}
  /\ inode' = [inode EXCEPT ![dir[name]] = Blank]
  /\ dir' = Unlinked(name)
  /\ torn' = Torn(dir[name]) \ {name}
  /\ stale' = Passed(dir[name])
  /\ UNCHANGED <<filp, file_table, inode_table, running, derailed>>

RmdirCut(name) ==
  /\ running
  /\ dir[name] # 0
  /\ \/ /\ inode[dir[name]] = Blank
        /\ UNCHANGED <<inode, inode_map, torn>>
     \/ /\ inode[dir[name]] # Blank
        /\ inode_map' = inode_map \ {dir[name]}
        /\ inode' \in {inode, [inode EXCEPT ![dir[name]] = Blank]}
        /\ torn' = Torn(dir[name])
  /\ running' = FALSE
  /\ UNCHANGED <<memory, dir>>

(* In the directory of that name an entry is made or removed: its length   *)
(* is written to disk.  What the command does to the entry's own inode is  *)
(* above, for the names here.                                              *)
Resize(name) ==
  /\ running
  /\ dir[name] # 0
  /\ inode[dir[name]].i_size \in DirSize
  /\ \E length \in DirSize :
       inode' = [inode EXCEPT ![dir[name]].i_size = length]
  /\ stale' = Passed(dir[name])
  /\ UNCHANGED <<filp, file_table, inode_table, inode_map, dir, running,
                 derailed, torn>>

(* A reset at any time; the tables are filled with zero.                   *)
Restart ==
  /\ filp' = [fd \in Fd |-> NULL]
  /\ file_table' = [j \in FileNr |-> NoFile]
  /\ inode_table' = [s \in Place |-> Blank]
  /\ running' = TRUE
  /\ derailed' = FALSE
  /\ stale' = {}
  /\ UNCHANGED <<inode, inode_map, dir, torn>>

Next ==
  \/ \E name \in Name : \/ cat(name) \/ OpenGoesWild(name)
                        \/ rm(name) \/ RmCut(name) \/ simple_creat(name)
                        \/ mkdir(name) \/ rmdir(name) \/ RmdirCut(name)
                        \/ Resize(name)
  \/ \E length \in {_BLOCK_SIZE, EmptyDir} : CreatCut(length)
  \/ Restart

Spec == Init /\ [][Next]_vars

-----------------------------------------------------------------------------
(* The three tables agree: descriptor fd, file fd and slot fd belong to    *)
(* each other, one file to each, and every other slot is blank.  open      *)
(* relies on it when it returns the index of a slot as a descriptor        *)
(* (file.cc:101), and nothing in the code says so.                         *)
Lockstep ==
  (running /\ ~derailed) =>
    /\ \A fd \in Fd :
         IF filp[fd] = NULL
         THEN file_table[fd].f_count = 0 /\ inode_table[fd] = Blank
         ELSE /\ filp[fd] = fd
              /\ file_table[fd] = [f_count |-> 1, f_inode |-> fd]
              /\ inode_table[fd].i_size # 0
    /\ \A s \in Place \ Fd : inode_table[s] = Blank

(* What is kept of an open inode in memory is the inode on disk, although  *)
(* nothing writes a slot back or drops it but close (file.cc:460-467).     *)
(* Only commands that write an inode past its slot leave the slot behind:  *)
(* rmdir, or an entry made or removed in a directory that cat has opened   *)
(* (rmdir.cc:16, mkdir.cc:31, file.cc:67); or it has a torn name's number. *)
SlotsMirrorDisk ==
  (running /\ ~derailed) =>
    \A s \in SlotNr : \/ inode_table[s] = Blank
                     \/ inode_table[s].i_ino = LastIno + 1
                     \/ inode_table[s].i_ino \in stale \union TornInos
                     \/ inode_table[s] = inode[inode_table[s].i_ino]

(* A name stands for a live inode of its own, however the tables fared,    *)
(* unless rm or rmdir has been cut, or the numbers have run out            *)
(* (inode.cc:81).                                                          *)
NamesSound ==
  \A n \in Name :
    (dir[n] # 0 /\ n \notin torn) =>
      /\ inode[dir[n]].i_size # 0
      /\ dir[n] \in inode_map \union {LastIno + 1}
      /\ \A m \in Name \ ({n} \union torn) :
           dir[m] = dir[n] => dir[n] = LastIno + 1

(* Only an open without a free descriptor, or of a name whose inode was    *)
(* cleared without it, puts the tables out of step (file.cc:97-112).       *)
DerailsOnlyWhenFull ==
  [][derailed' /\ ~derailed => FreeFd = NULL \/ torn # {}]_vars
=============================================================================
