------------------------------ MODULE FileMap ------------------------------
(***************************************************************************)
(* The blocks of files: i_zone, the index blocks and the data, as          *)
(* src/src/fs/file.cc (write, read) and src/src/app/rm.cc (rm) keep them,  *)
(* over the free list (module Grouping), which is a count per block here.  *)
(*                                                                         *)
(* write and rm take one action for each thing they make persistent; a     *)
(* power failure may come between any two (PowerCut).  The inode in memory *)
(* is written to disk at each change, so one variable stands for both.     *)
(* Commands do not nest here.  A file is known by its inode number; a      *)
(* length counts sectors.                                                  *)
(***************************************************************************)
EXTENDS Naturals, Sequences, FiniteSets

CONSTANTS
  LastBlk,       \* last block of the data zone, 8192 in the code
  LastIno,       \* last inode, 4095
  Direct,        \* zones that name data blocks, 7
  Fanout,        \* block numbers in an index block, 512
  Lens,          \* lengths, in sectors, of what callers write
  HeadWord,      \* the first word of a group head, s_free
  HandsOut(_)    \* which of the listed blocks new_block may return next

SECTOR_PER_BLOCK == 2
Block == 1 .. LastBlk
Beyond == LastIno + 1         \* what new_inode returns when it has no number
Ino == 1 .. Beyond            \* inode 0 is the root directory
Entry == 0 .. (Fanout - 1)

(* The three ranges of sector numbers: without, with one, with two levels  *)
(* of index blocks.                                                        *)
DirectEnd == Direct * SECTOR_PER_BLOCK
SingleEnd == DirectEnd + Fanout * SECTOR_PER_BLOCK
DoubleEnd == SingleEnd + Fanout * Fanout * SECTOR_PER_BLOCK

ASSUME FileMapAssumption ==
  /\ LastBlk \in Nat \ {0} /\ LastIno \in Nat \ {0}
  /\ Direct \in Nat \ {0}
  /\ Fanout \in Nat \ {0} /\ Fanout % 2 = 0
  /\ Lens \subseteq 1 .. DoubleEnd
  /\ HeadWord \in Block
  /\ \A S \in SUBSET Block : HandsOut(S) \subseteq S /\ (S # {} => HandsOut(S) # {})

VARIABLES
  disk,        \* the words of each block of the data zone
  listed,      \* how often the free list names each block
  inode_map,   \* the numbers whose bit is set in the inode bitmap
  i_size,      \* length in sectors of each inode, 0 when it is unused
  i_zone,      \* block numbers of each inode
  named,       \* inodes that the directory names
  call,        \* the command in progress: its step, inode and next sector
  running,     \* FALSE once _panic has halted the processor
  complete,    \* history: files that write has written to the end
  harm         \* history: what has happened that no command repairs

vars == <<disk, listed, inode_map, i_size, i_zone, named, call, running,
          complete, harm>>

(* What write puts into sector i of a file: never the same, never 0 and    *)
(* never a block number.  Texts have no such 16-bit words.                 *)
TextWord(ino, i) == LastBlk + 1 + ino * DoubleEnd + i
Word == 0 .. (LastBlk + 1 + (Beyond + 1) * DoubleEnd)

Steps == {"none", "write", "rm", "free", "singles", "tail", "clear", "freeino",
          "unlink"}
Harms == {"stale", "twice", "cutrm", "leak", "badbit", "numbers"}

TypeOK ==
  /\ disk \in [Block -> [Entry -> Word]]
  /\ listed \in [Block -> Nat]
  /\ inode_map \subseteq Ino \ {Beyond}
  /\ i_size \in [Ino -> 0 .. DoubleEnd]
  /\ i_zone \in [Ino -> [0 .. (Direct + 1) -> Word]]
  /\ named \subseteq Ino
  /\ call \in [step : Steps, ino : Ino, i : 0 .. DoubleEnd]
  /\ running \in BOOLEAN
  /\ complete \subseteq Ino
  /\ harm \subseteq Harms

-----------------------------------------------------------------------------
(* Each definition named ...Mutant is a plausible bug in the definition    *)
(* that follows it; no specification uses it.                              *)

get_zone_blks(sectors) ==
  LET tmp == sectors \div SECTOR_PER_BLOCK
  IN  IF tmp * SECTOR_PER_BLOCK = sectors THEN tmp ELSE tmp + 1

IsSecondHalfMutant(i) == TRUE
IsSecondHalf(i) == i % SECTOR_PER_BLOCK = 1

(* As if every entry behind zone[8] named one data block only.             *)
PathMutant(i) ==
  LET blk_i == get_zone_blks(i + 1) - 1
  IN  IF i < DirectEnd THEN <<blk_i>>
      ELSE IF i < SingleEnd THEN <<Direct, blk_i - Direct>>
      ELSE <<Direct + 1, (blk_i - Direct - Fanout) \div Fanout, 0>>

(* The way from an inode to the block of sector i: a zone of the inode and *)
(* the entries to follow in the index blocks behind it.                    *)
Path(i) ==
  LET blk_i == get_zone_blks(i + 1) - 1
      behind == blk_i - Direct - Fanout
  IN  IF i < DirectEnd THEN <<blk_i>>
      ELSE IF i < SingleEnd THEN <<Direct, blk_i - Direct>>
      ELSE <<Direct + 1, behind \div Fanout, behind % Fanout>>

(* A word of block b.  The sectors in front of the data zone, where block  *)
(* 0 is, are the last of the inode table and stay 0.                       *)
WordOf(b, k) == IF b \in Block THEN disk[b][k] ELSE 0

(* The block number at the end of a way, or of a part of it.               *)
NrAt(ino, q) ==
  LET z == i_zone[ino][q[1]]
  IN  IF Len(q) = 1 THEN z
      ELSE IF Len(q) = 2 THEN WordOf(z, q[2])
      ELSE WordOf(WordOf(z, q[2]), q[3])

Parts(i) == {SubSeq(Path(i), 1, n) : n \in 1 .. Len(Path(i))}

ZeroBlock == [k \in Entry |-> 0]
HeadBlock == [ZeroBlock EXCEPT ![0] = HeadWord]

WithSectorMutant(words, h, w) == [k \in Entry |-> w]

(* The words of half h of a block, which is one of its two sectors.        *)
WithSector(words, h, w) ==
  [k \in Entry |-> IF (2 * k) \div Fanout = h THEN w ELSE words[k]]

PutSectorIn(blocks, b, h, w) ==
  IF b \in Block THEN [blocks EXCEPT ![b] = WithSector(blocks[b], h, w)]
  ELSE blocks

(* free_block, once for each number of a sequence; not in the data zone    *)
(* means not in the model.                                                 *)
FreeBlocks(nrs) ==
  [b \in Block |-> listed[b] + Cardinality({k \in DOMAIN nrs : nrs[k] = b})]

Init ==
  /\ disk = [b \in Block |-> ZeroBlock]
  /\ listed = [b \in Block |-> 1]
  /\ inode_map = {}
  /\ i_size = [ino \in Ino |-> 0]
  /\ i_zone = [ino \in Ino |-> [z \in 0 .. (Direct + 1) |-> 0]]
  /\ named = {}
  /\ call = [step |-> "none", ino |-> 1, i |-> 0]
  /\ running = TRUE
  /\ complete = {}
  /\ harm = {}

Idle == running /\ call.step = "none"
At(step) == running /\ call.step = step
GoTo(step) == call' = [call EXCEPT !.step = step]
NextSector == call' = [call EXCEPT !.i = call.i + 1]

CandidatesMutant == HandsOut(Block)
Candidates == HandsOut({b \in Block : listed[b] > 0})

Contents(b) == {disk, [disk EXCEPT ![b] = HeadBlock]}

(* new_block hands out b.  It leaves the disk as blocks: b holds what it   *)
(* did, or a group head, when the list has used it as one since.           *)
new_block(b, blocks) ==
  /\ b \in Candidates
  /\ blocks \in Contents(b)
  /\ listed' = [listed EXCEPT ![b] = listed[b] - 1]

(* _panic: cli; hlt. *)
Panic ==
  /\ running' = FALSE
  /\ UNCHANGED <<disk, listed, inode_map, i_size, i_zone, named, call,
                 complete, harm>>

-----------------------------------------------------------------------------
(* simple_creat: the first inode with a clear bit, and one block.  A bit   *)
(* that rm has cleared by mistake brings back the inode of a file.  When   *)
(* no bit is clear iput writes the record beyond the inode table, into the *)
(* first sector of the data zone.                                          *)
NewInode == {ino \in Ino \ inode_map : \A other \in Ino \ inode_map : ino <= other}

Recorded(ino, blocks, b) ==
  IF ino = Beyond THEN [blocks EXCEPT ![1][0] = b] ELSE blocks

MakesInode(ino) ==
  \E b \in Candidates : \E blocks \in Contents(b) :
    /\ new_block(b, blocks)
    /\ disk' = Recorded(ino, blocks, b)
    /\ inode_map' = inode_map \union ({ino} \ {Beyond})
    /\ i_size' = [i_size EXCEPT ![ino] = SECTOR_PER_BLOCK]
    /\ i_zone' = [i_zone EXCEPT ![ino] =
                    [z \in 0 .. (Direct + 1) |-> IF z = 0 THEN b ELSE 0]]
    /\ complete' = complete \ {ino}

NoNumber(ino) == IF ino = Beyond THEN {"numbers"} ELSE {}

Creat ==
  /\ Idle
  /\ \E ino \in NewInode :
       /\ MakesInode(ino)
       /\ named' = named \union {ino}
       /\ harm' = harm \union NoNumber(ino)
                       \union (IF i_size[ino] > 0 THEN {"leak"} ELSE {})
  /\ UNCHANGED <<call, running>>

(* A power failure in simple_creat: the bit is set, the block may be taken *)
(* and the inode written, and no directory names it.                       *)
CreatCut ==
  /\ Idle
  /\ \E ino \in NewInode :
       \/ /\ inode_map' = inode_map \union ({ino} \ {Beyond})
          /\ \/ UNCHANGED <<disk, listed>>
             \/ \E b \in Candidates : \E blocks \in Contents(b) :
                  new_block(b, blocks) /\ disk' = blocks
          /\ harm' = harm \union {"leak"}
          /\ UNCHANGED <<i_size, i_zone, complete>>
       \/ /\ MakesInode(ino)
          /\ harm' = harm \union {"leak"} \union NoNumber(ino)
  /\ UNCHANGED <<named, call, running>>

-----------------------------------------------------------------------------
(* write.  setup_fs, its only caller, writes each file once, after it has  *)
(* created it.  The length is on disk before the first block.              *)
WriteBegin(ino, len) ==
  /\ Idle
  /\ ino \in named \ complete
  /\ i_size[ino] = SECTOR_PER_BLOCK
  /\ i_size' = [i_size EXCEPT ![ino] = len]
  /\ call' = [step |-> "write", ino |-> ino, i |-> 0]
  /\ UNCHANGED <<disk, listed, inode_map, i_zone, named, running, complete, harm>>

Writing == At("write") /\ call.i < i_size[call.ino]

(* The first number on the way to the sector that is 0 is at its place n.  *)
Missing(n) ==
  LET p == Path(call.i)
  IN  /\ n \in 1 .. Len(p)
      /\ NrAt(call.ino, SubSeq(p, 1, n)) = 0
      /\ \A m \in 1 .. (n - 1) : NrAt(call.ino, SubSeq(p, 1, m)) # 0

RecordedInMutant(blocks, n, b) == blocks

(* blocks, with the number b in its place in the last index block.         *)
RecordedIn(blocks, n, b) ==
  LET p == Path(call.i)
      parent == NrAt(call.ino, SubSeq(p, 1, n - 1))
  IN  IF parent \in Block THEN [blocks EXCEPT ![parent][p[n]] = b] ELSE blocks

(* A missing block is allocated and its number made persistent, in the     *)
(* inode or in an index block.  What an index block holds is taken as it is.*)
WriteAlloc ==
  /\ Writing
  /\ \E n \in 1 .. 3, b \in Candidates : \E blocks \in Contents(b) :
       /\ Missing(n)
       /\ new_block(b, blocks)
       /\ IF n = 1
          THEN /\ i_zone' = [i_zone EXCEPT ![call.ino][Path(call.i)[1]] = b]
               /\ disk' = blocks
          ELSE /\ disk' = RecordedIn(blocks, n, b)
               /\ UNCHANGED i_zone
       /\ harm' = IF n < Len(Path(call.i)) /\ blocks[b] # ZeroBlock
                  THEN harm \union {"stale"} ELSE harm
  /\ UNCHANGED <<inode_map, i_size, named, call, running, complete>>

(* A power failure between new_block and the record of its number.         *)
WriteAllocCut ==
  /\ Writing
  /\ \E n \in 1 .. 3 : Missing(n)
  /\ \E b \in Candidates : \E blocks \in Contents(b) :
       new_block(b, blocks) /\ disk' = blocks
  /\ harm' = harm \union {"leak"}
  /\ GoTo("none")
  /\ UNCHANGED <<inode_map, i_size, i_zone, named, running, complete>>

WriteNoBlock ==
  /\ Writing
  /\ \E n \in 1 .. 3 : Missing(n)
  /\ Candidates = {}
  /\ Panic

WriteSector ==
  /\ Writing
  /\ \A q \in Parts(call.i) : NrAt(call.ino, q) # 0
  /\ disk' = PutSectorIn(disk, NrAt(call.ino, Path(call.i)),
                         call.i % 2, TextWord(call.ino, call.i))
  /\ NextSector
  /\ UNCHANGED <<listed, inode_map, i_size, i_zone, named, running, complete, harm>>

WriteEnd ==
  /\ At("write")
  /\ call.i = i_size[call.ino]
  /\ complete' = complete \union {call.ino}
  /\ GoTo("none")
  /\ UNCHANGED <<disk, listed, inode_map, i_size, i_zone, named, running, harm>>

-----------------------------------------------------------------------------
(* A number on the way to sector i is missing where read and rm look for   *)
(* one: not in the zones that name data blocks.                            *)
Unallocated(ino, i) ==
  i >= DirectEnd /\ \E q \in Parts(i) : NrAt(ino, q) = 0

ReadPanics(ino) == \E i \in 0 .. (i_size[ino] - 1) : Unallocated(ino, i)

(* read changes nothing unless it panics.                                  *)
Read(ino) ==
  /\ Idle
  /\ ino \in named
  /\ ReadPanics(ino)
  /\ Panic

-----------------------------------------------------------------------------
RmBegin(ino) ==
  /\ Idle
  /\ ino \in named
  /\ i_size[ino] > 0
  /\ call' = [step |-> "rm", ino |-> ino, i |-> 0]
  /\ complete' = complete \ {ino}
  /\ UNCHANGED <<disk, listed, inode_map, i_size, i_zone, named, running, harm>>

(* rm zeroes a sector, but not one behind two levels, and frees the block  *)
(* with its second sector.                                                 *)
AfterSector ==
  LET next == call.i + 1
  IN  call' = [call EXCEPT
                 !.i = next,
                 !.step = IF next = i_size[call.ino] THEN "tail"
                          ELSE IF next = SingleEnd THEN "singles" ELSE "rm"]
Current == NrAt(call.ino, Path(call.i))

RmSector ==
  /\ At("rm")
  /\ ~Unallocated(call.ino, call.i)
  /\ disk' = IF call.i < SingleEnd THEN PutSectorIn(disk, Current, call.i % 2, 0)
             ELSE disk
  /\ IF IsSecondHalf(call.i) THEN GoTo("free") ELSE AfterSector
  /\ UNCHANGED <<listed, inode_map, i_size, i_zone, named, running, complete, harm>>

(* free_block copies its table into the block when the table is full.      *)
RmFree ==
  /\ At("free")
  /\ disk' \in (IF Current \in Block THEN Contents(Current) ELSE {disk})
  /\ listed' = FreeBlocks(<<Current>>)
  /\ AfterSector
  /\ UNCHANGED <<inode_map, i_size, i_zone, named, running, complete, harm>>

RmPanics ==
  /\ At("rm")
  /\ Unallocated(call.ino, call.i)
  /\ Panic

Numbers(b) == [k \in 1 .. Fanout |-> WordOf(b, k - 1)]

(* free_inode gets the number of an index block.                           *)
free_inode_of_block(z) ==
  /\ inode_map' = inode_map \ {z}
  /\ harm' = IF z \in inode_map THEN harm \union {"badbit"} ELSE harm

(* Between the two levels rm frees the blocks behind zone[7] once more.    *)
RmSingles ==
  /\ At("singles")
  /\ listed' = FreeBlocks(Numbers(i_zone[call.ino][Direct]))
  /\ inode_map' = inode_map \ {i_zone[call.ino][Direct]}
  /\ harm' = harm \union {"twice"}
  /\ GoTo("rm")
  /\ UNCHANGED <<disk, i_size, i_zone, named, running, complete>>

(* Behind the loops: the index blocks.                                     *)
RmTail ==
  LET size == i_size[call.ino]
      z == i_zone[call.ino]
  IN  /\ At("tail")
      /\ \/ size <= DirectEnd /\ UNCHANGED <<listed, inode_map, harm>>
         \/ /\ DirectEnd < size /\ size <= SingleEnd
            /\ free_inode_of_block(z[Direct])
            /\ UNCHANGED listed
         \/ /\ size > SingleEnd
            /\ listed' = FreeBlocks(Numbers(z[Direct + 1]))
            /\ free_inode_of_block(z[Direct + 1])
      /\ GoTo("clear")
      /\ UNCHANGED <<disk, i_size, i_zone, named, running, complete>>

(* The inode is cleared; what its zones still named is lost.               *)
RmClear ==
  /\ At("clear")
  /\ harm' = IF i_size[call.ino] % 2 = 1 \/ i_size[call.ino] > DirectEnd
             THEN harm \union {"leak"} ELSE harm
  /\ i_size' = [i_size EXCEPT ![call.ino] = 0]
  /\ i_zone' = [i_zone EXCEPT ![call.ino] = [z \in 0 .. (Direct + 1) |-> 0]]
  /\ GoTo("freeino")
  /\ UNCHANGED <<disk, listed, inode_map, named, running, complete>>

RmFreeInode ==
  /\ At("freeino")
  /\ inode_map' = inode_map \ {call.ino}
  /\ GoTo("unlink")
  /\ UNCHANGED <<disk, listed, i_size, i_zone, named, running, complete, harm>>

RmUnlinkMutant ==
  /\ At("unlink")
  /\ GoTo("none")
  /\ UNCHANGED <<disk, listed, inode_map, i_size, i_zone, named, running, complete, harm>>

RmUnlink ==
  /\ At("unlink")
  /\ named' = named \ {call.ino}
  /\ GoTo("none")
  /\ UNCHANGED <<disk, listed, inode_map, i_size, i_zone, running, complete, harm>>

-----------------------------------------------------------------------------
(* The blocks that the rm in progress has freed and the inode still names. *)
Released ==
  IF call.step \in {"rm", "free", "singles", "tail", "clear"}
  THEN {NrAt(call.ino, Path(i)) : i \in {j \in 0 .. (call.i - 1) : IsSecondHalf(j)}}
  ELSE {}

(* A power failure, or a reset after a panic, and the next start.          *)
PowerCut ==
  /\ running' = TRUE
  /\ GoTo("none")
  /\ harm' = harm \union (IF Released # {} THEN {"cutrm"} ELSE {})
                  \union (IF call.step = "unlink" THEN {"badbit"} ELSE {})
  /\ UNCHANGED <<disk, listed, inode_map, i_size, i_zone, named, complete>>

(* One within free_block, between that copy and the record of the block.   *)
RmFreeCut ==
  /\ At("free")
  /\ Current \in Block
  /\ disk' = [disk EXCEPT ![Current] = HeadBlock]
  /\ harm' = harm \union (IF Released # {} THEN {"cutrm"} ELSE {})
  /\ GoTo("none")
  /\ UNCHANGED <<listed, inode_map, i_size, i_zone, named, running, complete>>

Next ==
  \/ Creat \/ CreatCut
  \/ \E ino \in Ino : \/ \E len \in Lens : WriteBegin(ino, len)
                     \/ Read(ino) \/ RmBegin(ino)
  \/ WriteAlloc \/ WriteAllocCut \/ WriteNoBlock \/ WriteSector \/ WriteEnd
  \/ RmSector \/ RmFree \/ RmFreeCut \/ RmPanics \/ RmSingles \/ RmTail
  \/ RmClear \/ RmFreeInode \/ RmUnlink
  \/ PowerCut

Spec == Init /\ [][Next]_vars

-----------------------------------------------------------------------------
Slots(ino) == UNION {Parts(i) : i \in 0 .. (i_size[ino] - 1)}
Held(ino) == {NrAt(ino, q) : q \in Slots(ino)} \ {0}

Sound == harm \subseteq {"leak"}

(* A block is in one hand: of one place of one file, or of the free list,  *)
(* once; only the rm in progress may have freed what its file still names. *)
(* What ends this is listed in harm: an index block that was a group head, *)
(* rm of a file with two levels, a power failure in rm once it has freed a *)
(* block, a bit that rm clears for an index block (rm.cc:56-190), and a    *)
(* file made when no inode is left (inode.cc:81).                          *)
OneHand ==
  Sound =>
    /\ \A f, g \in Ino : \A q \in Slots(f), r \in Slots(g) :
         (<<f, q>> # <<g, r>> /\ NrAt(f, q) # 0) => NrAt(f, q) # NrAt(g, r)
    /\ \A b \in Block :
         /\ listed[b] <= 1
         /\ (listed[b] = 1 /\ b \notin Released) => \A f \in Ino : b \notin Held(f)

(* A file that was written to its end reads back as written, whatever      *)
(* other files come and go (file.cc:133-448).                              *)
ReadsBack ==
  Sound =>
    \A f \in complete : \A i \in 0 .. (i_size[f] - 1) :
      LET b == NrAt(f, Path(i))
      IN  b \in Block /\ disk[b] = WithSector(disk[b], i % 2, TextWord(f, i))

(* No block disappears but at the places marked leak: a power failure      *)
(* between new_block and the record or the name, and rm of a file with an  *)
(* odd number of sectors or with an index block.                           *)
NothingLost ==
  harm = {} => \A b \in Block : listed[b] = 1 \/ \E f \in Ino : b \in Held(f)

(* What the directory names is an inode in use.                            *)
NamesInUse ==
  Sound => \A f \in named :
             f \in inode_map \/ (call.step = "unlink" /\ f = call.ino)

-----------------------------------------------------------------------------
(* The files as an abstract store.  The sectors of a file are what is on   *)
(* disk at the ends of its ways; one without a block is a hole.  Once      *)
(* something irreparable has happened nothing is claimed.                  *)
Half(h) == {k \in Entry : (2 * k) \div Fanout = h}
Filled(i, w) == [k \in Half(i % 2) |-> w]
TextSector(ino, i) == Filled(i, TextWord(ino, i))
BlankSector(i) == Filled(i, 0)
Hole == <<>>

SectorOf(ino, i) ==
  LET b == NrAt(ino, Path(i))
  IN  IF b \in Block THEN [k \in Half(i % 2) |-> disk[b][k]] ELSE Hole
SectorsOf(ino) == [i \in 0 .. (i_size[ino] - 1) |-> SectorOf(ino, i)]

Claimed(S) == IF Sound THEN S ELSE {}
Working(steps) == IF call.step \in steps THEN {call.ino} ELSE {}
Store == INSTANCE FileStore WITH
  File <- Ino,
  Text <- TextSector,
  Blank <- BlankSector,
  names <- Claimed(named),
  store <- [ino \in Ino |-> IF Sound THEN SectorsOf(ino) ELSE <<>>],
  intact <- Claimed(complete),
  writing <- Claimed(Working({"write"})),
  removing <- Claimed(Working(Steps \ {"none", "write"})),
  sound <- Sound

(* write and rm change no sector of another file, and none of their own    *)
(* but the one that they are at; what write ends holds what was written,   *)
(* and rm takes only an empty file out of the directory.                   *)
StoreSpec == Store!Spec

-----------------------------------------------------------------------------
(* What a document says, and the code does not do.                         *)

(* fs_design.md:5, the grouped list manages free blocks: none is free      *)
(* twice (rm.cc:120-137).                                                  *)
ListedOnce == \A b \in Block : listed[b] <= 1
=============================================================================
