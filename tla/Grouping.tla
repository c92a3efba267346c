------------------------------- MODULE Grouping -------------------------------
(***************************************************************************)
(* The free data blocks of a RiOS disk, kept in linked groups: new_block   *)
(* and free_block (src/src/fs/bitmap.cc), the group heads on disk          *)
(* (src/src/fs/grouping.cc) and the loading of the specific block at boot  *)
(* (src/src/fs/fs.cc, init_root_dir).                                      *)
(*                                                                         *)
(* The first block of a group is its head: s_free says how many entries of *)
(* s_free_blk_nr it lists, and s_free_blk_nr[0] is the head of the next    *)
(* group, 0 in the last one.  The superblock names the head in use, the    *)
(* specific block, and memory holds a copy of it.                          *)
(*                                                                         *)
(* An action is a whole call, made while no other command runs             *)
(* (GroupingIrq interleaves calls).  A call writes the disk several times, *)
(* so the power may fail between two writes: actions named ...Cut are the  *)
(* calls that end there, where the disk differs from both the disk before  *)
(* and the disk after.  A power failure at any other point is Restart.     *)
(***************************************************************************)
EXTENDS Naturals, FiniteSets

CONSTANTS
  BLKS_PER_GROUP,   \* blocks of a group, 64 in the code
  TOTAL_GROUP,      \* groups, 128 in the code
  JunkWords,        \* what a read beyond the array s_free_blk_nr may return
  FileData          \* what file data may look like when read as a group head

LastBlk == BLKS_PER_GROUP * TOTAL_GROUP
Block == 1..LastBlk                 \* block numbers, counting from 1
Nr == 0..LastBlk                    \* a block number or 0
MaxU16 == 65535
U16 == 0..MaxU16                    \* the range of s_free
Slot == 0..(BLKS_PER_GROUP - 1)     \* the indices of s_free_blk_nr

GroupHead == [s_free : U16, s_free_blk_nr : [Slot -> Nr]]
ZeroHead == [s_free |-> 0, s_free_blk_nr |-> [j \in Slot |-> 0]]

(* With two blocks in a group a chained head would list nothing but the    *)
(* next head, and SwitchGroup would hand that head out.                    *)
ASSUME GroupingAssumption ==
  /\ BLKS_PER_GROUP \in Nat /\ BLKS_PER_GROUP >= 3 /\ BLKS_PER_GROUP <= MaxU16
  /\ TOTAL_GROUP \in Nat /\ TOTAL_GROUP >= 1
  /\ JunkWords \subseteq Nr /\ JunkWords # {}
  /\ FileData \subseteq GroupHead

VARIABLES
  disk,               \* every block of the data zone, read as a group head;
                      \* block 0 is the block in front of the data zone
  s_specific_blk_nr,  \* the superblock's field, on disk and in memory
  specific_block,     \* the copy of the specific block in memory
  is_specific_block_set,
  root_bit,           \* bit 0 of the inode bitmap: the root directory exists
  power,              \* what the machine is doing, see PowerStates
  role,               \* history: what each block is used for, see Roles
  open                \* history: the list has never run off its last group

vars == <<disk, s_specific_blk_nr, specific_block, is_specific_block_set,
          root_bit, power, role, open>>

(* "again": new_block jumped back to its label again.  The last two are    *)
(* panics, which stop the processor: only a restart gets out of them.      *)
PowerStates ==
  {"booting", "up", "again", "new_block_panic", "free_block_panic"}

(* "lost": no list mentions the block and no file owns it. *)
Roles == {"head", "listed", "owned", "lost"}

TypeOK ==
  /\ disk \in [Nr -> GroupHead]
  /\ s_specific_blk_nr \in Nr
  /\ specific_block \in GroupHead
  /\ is_specific_block_set \in BOOLEAN
  /\ root_bit \in BOOLEAN
  /\ power \in PowerStates
  /\ role \in [Block -> Roles]
  /\ open \in BOOLEAN

-----------------------------------------------------------------------------
(* The disk that init_free_space_grouping leaves.  Group i is headed by    *)
(* block (i-1)*BLKS_PER_GROUP+1 and lists the blocks behind its head, then *)
(* the next head; the last group lists one block less.                     *)
HeadOfGroup(i) == (i - 1) * BLKS_PER_GROUP + 1
InitHeads == {HeadOfGroup(i) : i \in 1..TOTAL_GROUP}

(* A plausible bug: the last group links a group that does not exist. *)
FormattedHeadMutant(i) ==
  [s_free |-> BLKS_PER_GROUP,
   s_free_blk_nr |-> [j \in Slot |-> i * BLKS_PER_GROUP + 1 - j]]

FormattedHead(i) ==
  IF i # TOTAL_GROUP
  THEN [s_free |-> BLKS_PER_GROUP,
        s_free_blk_nr |-> [j \in Slot |-> i * BLKS_PER_GROUP + 1 - j]]
  ELSE [s_free |-> BLKS_PER_GROUP - 1,
        s_free_blk_nr |->
          [j \in Slot |-> IF j = 0 THEN 0 ELSE i * BLKS_PER_GROUP - j]]

init_free_space_grouping ==
  [b \in Nr |->
     IF b \in InitHeads
     THEN FormattedHead(CHOOSE i \in 1..TOTAL_GROUP : b = HeadOfGroup(i))
     ELSE ZeroHead]

Init ==
  /\ disk = init_free_space_grouping
  /\ s_specific_blk_nr = 1
  /\ specific_block = ZeroHead
  /\ is_specific_block_set = FALSE
  /\ root_bit = FALSE
  /\ power = "booting"
  /\ role = [b \in Block |-> IF b \in InitHeads THEN "head"
                             ELSE IF b = LastBlk THEN "lost" ELSE "listed"]
  /\ open = TRUE

-----------------------------------------------------------------------------
(* The helpers.  Each definition named ...Mutant... is a plausible bug in  *)
(* the definition that follows it; no specification uses it.               *)

WrittenMutant(d, g_head, nr_blk) == d

(* set_blk_nr_free_group: the disk after g_head is written to nr_blk. *)
Written(d, g_head, nr_blk) == [d EXCEPT ![nr_blk] = g_head]

NamesSpecificMutant(i) == UNCHANGED s_specific_blk_nr

(* set_specific_blk_nr. *)
NamesSpecific(i) == s_specific_blk_nr' = i

Role(b, r) == IF b \in Block THEN [role EXCEPT ![b] = r] ELSE role
Entry(h, j, junk) == IF j \in Slot THEN h.s_free_blk_nr[j] ELSE junk

-----------------------------------------------------------------------------
(* new_block.  h and sp are the copy in memory and the specific block's    *)
(* number that the call starts from, after an unset copy has been loaded.  *)

TakenSlotMutant(h) == h.s_free
TakenSlot(h) == h.s_free - 1

(* s_free > 1: the last entry is handed out. *)
TakeEntry(h, sp) ==
  \E junk \in JunkWords :
    LET taken == [h EXCEPT !.s_free = h.s_free - 1]
    IN /\ h.s_free > 1
       /\ specific_block' = taken
       /\ NamesSpecific(sp)
       /\ disk' = Written(disk, taken, sp)
       /\ role' = Role(Entry(h, TakenSlot(h), junk), "owned")
       /\ power' = IF power = "again" THEN "up" ELSE power
       /\ UNCHANGED open

RefillMutant(g, sp) ==
  [g EXCEPT !.s_free = IF g.s_free = 0 THEN 0 ELSE g.s_free - 1]

(* What the code makes of the next group's head g when it puts the drained *)
(* head sp in the place of the last entry.  s_free is a u16: taking 1 from *)
(* an s_free of 0 leaves 65535, whose entry is far beyond the array, where *)
(* sp is then written; the increment brings s_free back.                   *)
Refill(g, sp) ==
  [g EXCEPT !.s_free_blk_nr =
     [j \in Slot |-> IF j + 1 = g.s_free THEN sp ELSE g.s_free_blk_nr[j]]]

(* s_free = 1: the only entry is the next group's head, which becomes the  *)
(* specific block; its last entry is handed out and replaced by sp.        *)
SwitchGroup(h, sp) ==
  \E junk \in JunkWords :
    LET next == h.s_free_blk_nr[0]
        g == disk[next]
        tmp == IF g.s_free = 0 THEN junk ELSE Entry(g, g.s_free - 1, junk)
        drained == IF next = 0 THEN Role(sp, "lost") ELSE Role(sp, "listed")
    IN /\ h.s_free = 1
       /\ NamesSpecific(next)
       /\ specific_block' = Refill(g, sp)
       /\ open' = (open /\ next # 0)
       /\ \/ /\ tmp # 0
             /\ disk' = Written(disk, Refill(g, sp), next)
             /\ role' = [b \in Block |-> IF b = tmp THEN "owned"
                                         ELSE drained[b]]
             /\ power' = IF power = "again" THEN "up" ELSE power
          \/ /\ tmp = 0
             /\ disk' = disk
             /\ role' = drained
             /\ power' = "again"

PanicMutant(h) == h.s_free <= 1
PanicWhen(h) == h.s_free = 0

(* s_free = 0: panic. *)
NoneLeft(h, sp) ==
  /\ PanicWhen(h)
  /\ power' = "new_block_panic"
  /\ specific_block' = h
  /\ NamesSpecific(sp)
  /\ UNCHANGED <<disk, role, open>>

new_block ==
  LET sp == IF is_specific_block_set THEN s_specific_blk_nr ELSE 1
      h == IF is_specific_block_set THEN specific_block ELSE disk[1]
  IN /\ is_specific_block_set' = TRUE
     /\ TakeEntry(h, sp) \/ SwitchGroup(h, sp) \/ NoneLeft(h, sp)

NewBlock ==
  /\ power \in {"up", "again"}
  /\ new_block
  /\ UNCHANGED root_bit

(* The power fails between the two writes of a group switch: the           *)
(* superblock already names the next group, whose head does not list the   *)
(* drained one yet.                                                        *)
NewBlockCut ==
  /\ power = "up"
  /\ specific_block.s_free = 1
  /\ s_specific_blk_nr' = specific_block.s_free_blk_nr[0]
  /\ role' = Role(s_specific_blk_nr, "lost")
  /\ open' = (open /\ s_specific_blk_nr' # 0)
  /\ power' = "booting"
  /\ is_specific_block_set' = FALSE
  /\ specific_block' = ZeroHead
  /\ UNCHANGED <<disk, root_bit>>

-----------------------------------------------------------------------------
(* free_block.  The two tests at its end come after the disk is written.   *)

free_block(b) ==
  LET h == specific_block
      listing == [s_free |-> h.s_free + 1,
                  s_free_blk_nr |-> [h.s_free_blk_nr EXCEPT ![h.s_free] = b]]
      linking == [s_free |-> 1,
                  s_free_blk_nr |-> [h.s_free_blk_nr EXCEPT ![0] = b]]
  IN /\ \/ /\ h.s_free < BLKS_PER_GROUP
           /\ specific_block' = listing
           /\ disk' = Written(disk, listing, s_specific_blk_nr)
           /\ role' = Role(b, "listed")
        \/ /\ h.s_free = BLKS_PER_GROUP
           /\ specific_block' = linking
           /\ disk' = Written(Written(disk, h, b), linking, s_specific_blk_nr)
           /\ role' = Role(b, "head")
        \/ /\ h.s_free > BLKS_PER_GROUP
           /\ specific_block' = h
           /\ disk' = disk
           /\ role' = Role(b, "lost")
     /\ power' = IF specific_block'.s_free_blk_nr[0] = 0
                 THEN "free_block_panic" ELSE power

FreeBlock(b) ==
  /\ power = "up"
  /\ role[b] = "owned"
  /\ free_block(b)
  /\ UNCHANGED <<s_specific_blk_nr, is_specific_block_set, root_bit, open>>

(* The power fails between the copy of a full head into b and the write    *)
(* that links b: the file still owns b, with its data overwritten.         *)
FreeBlockCut(b) ==
  /\ power = "up"
  /\ role[b] = "owned"
  /\ specific_block.s_free = BLKS_PER_GROUP
  /\ disk' = [disk EXCEPT ![b] = specific_block]
  /\ power' = "booting"
  /\ is_specific_block_set' = FALSE
  /\ specific_block' = ZeroHead
  /\ UNCHANGED <<s_specific_blk_nr, root_bit, role, open>>

-----------------------------------------------------------------------------
(* The callers: write() and the directory services put data into blocks    *)
(* they own.  (No caller frees the root directory's block; FreeBlock does   *)
(* not need to know.)                                                      *)
WriteData(b) ==
  /\ power = "up"
  /\ role[b] = "owned"
  /\ \E d \in FileData : disk' = [disk EXCEPT ![b] = d]
  /\ UNCHANGED <<s_specific_blk_nr, specific_block, is_specific_block_set,
                 root_bit, power, role, open>>

(* Boot.  init_root_dir allocates the root directory's block while the     *)
(* bitmap has no root inode; new_inode has written the bitmap by then.     *)
InitRootDir ==
  /\ power = "booting"
  /\ ~root_bit
  /\ root_bit' = TRUE
  /\ new_block

(* The power fails after new_inode has written the bitmap. *)
InitRootDirCut ==
  /\ power = "booting"
  /\ ~root_bit
  /\ root_bit' = TRUE
  /\ is_specific_block_set' = FALSE
  /\ specific_block' = ZeroHead
  /\ UNCHANGED <<disk, s_specific_blk_nr, power, role, open>>

LoadedNrMutant == 1
LoadedNr == s_specific_blk_nr

(* setup_fs loads the specific block, except right after formatting, when  *)
(* new_block has set it.                                                   *)
SetupFs ==
  /\ power = "booting"
  /\ root_bit
  /\ power' = "up"
  /\ IF is_specific_block_set
     THEN UNCHANGED <<specific_block, is_specific_block_set>>
     ELSE /\ specific_block' = disk[LoadedNr]
          /\ is_specific_block_set' = TRUE
  /\ UNCHANGED <<disk, s_specific_blk_nr, root_bit, role, open>>

(* Memory is lost: a power failure between calls, or a reset by the user.  *)
Restart ==
  /\ power' = "booting"
  /\ is_specific_block_set' = FALSE
  /\ specific_block' = ZeroHead
  /\ UNCHANGED <<disk, s_specific_blk_nr, root_bit, role, open>>

Next ==
  \/ NewBlock
  \/ NewBlockCut
  \/ \E b \in Block : FreeBlock(b) \/ FreeBlockCut(b) \/ WriteData(b)
  \/ InitRootDir
  \/ InitRootDirCut
  \/ SetupFs
  \/ Restart

Spec == Init /\ [][Next]_vars

-----------------------------------------------------------------------------
(* The state of the list, as the disk holds it.                            *)

Heads == {b \in Block : role[b] = "head"}
NextHead(h) == disk[h].s_free_blk_nr[0]
Entries(h) == 1..(disk[h].s_free - 1)
Sp == s_specific_blk_nr

(* The specific block heads the list and lists at least its entry 0; the   *)
(* heads behind it are full (a last group may be one short, as formatted). *)
HeadsFilled ==
  /\ Sp \in Heads
  /\ disk[Sp].s_free \in 1..BLKS_PER_GROUP
  /\ \A h \in Heads \ {Sp} :
       disk[h].s_free \in {BLKS_PER_GROUP - 1, BLKS_PER_GROUP}

(* Every entry of every head, and nothing else, is a free block.           *)
ListsFreeBlocks ==
  /\ \A h \in Heads : \A j \in Entries(h) :
       /\ disk[h].s_free_blk_nr[j] \in Block
       /\ role[disk[h].s_free_blk_nr[j]] = "listed"
  /\ \A b \in Block : role[b] = "listed" =>
       \E h \in Heads : \E j \in Entries(h) : disk[h].s_free_blk_nr[j] = b

(* No free block is listed twice, so none can be handed out twice.         *)
ListedOnce ==
  \A g, h \in Heads : \A i \in Entries(g), j \in Entries(h) :
    disk[g].s_free_blk_nr[i] = disk[h].s_free_blk_nr[j] => g = h /\ i = j

(* The heads form one chain from the specific block: no head has two       *)
(* predecessors, and no set of heads is cut off from the specific block.   *)
OneChain ==
  /\ \A h \in Heads : NextHead(h) \in (Heads \ {Sp}) \union {0}
  /\ \A g, h \in Heads : NextHead(g) = NextHead(h) /\ NextHead(g) # 0 => g = h
  /\ \A S \in SUBSET (Heads \ {Sp}) : S # {} =>
       \E h \in Heads \ S : NextHead(h) \in S

(* The free list is sound as long as it has never run off its last group,  *)
(* whatever calls, crashes and restarts come: new_block and free_block     *)
(* (bitmap.cc:103-182) keep every free block in exactly one place of it.   *)
FreeList == HeadsFilled /\ ListsFreeBlocks /\ ListedOnce /\ OneChain
ListSound == open => FreeList

(* Between calls the copy of the specific block in memory, once set, is    *)
(* the one on disk: every path of new_block and free_block writes the head *)
(* back under the number that the superblock has.                          *)
MemoryMirrorsDisk ==
  open => /\ power = "up" => is_specific_block_set
          /\ is_specific_block_set /\ power \in {"booting", "up"} =>
               specific_block = disk[Sp]

(* new_block gives up (bitmap.cc:148) only after the list has run off its  *)
(* last group, and jumps back to again only then; Pool!Close says that     *)
(* this takes a list of one block.                                         *)
GivesUpOnlyWhenEmpty == power \in {"again", "new_block_panic"} => ~open

(* The inductive invariant: the first allocation of all resets the         *)
(* superblock's number, so nothing may have moved it by then, and commands *)
(* run only after it.                                                      *)
Inv ==
  /\ TypeOK
  /\ ListSound
  /\ MemoryMirrorsDisk
  /\ GivesUpOnlyWhenEmpty
  /\ ~root_bit => Sp = 1 /\ power = "booting"

(* A call that the free list makes on disk spares file data: only its      *)
(* owner, or a free_block call that is given the block, changes a block    *)
(* that is owned before and after the step.                                *)
SparesOwned ==
  [][\A b \in Block :
       open /\ role[b] = "owned" /\ role'[b] = "owned" /\ disk'[b] # disk[b]
         => WriteData(b) \/ FreeBlockCut(b)]_vars

(* The list as an abstract pool.  The pool is every block that the list    *)
(* knows: the listed ones and the heads, for a drained head is handed out  *)
(* too.  Once the list has run off its last group nothing is claimed.      *)
Pool == INSTANCE BlockPool WITH
  InitFree <- Block \ {LastBlk},
  free <- IF open THEN {b \in Block : role[b] \in {"listed", "head"}} ELSE {},
  owned <- IF open THEN {b \in Block : role[b] = "owned"} ELSE {}

(* new_block hands out only blocks of the pool, to one owner at a time;    *)
(* free_block returns them; restarts lose none and a crash at most one.    *)
PoolSpec == Pool!Spec

(* A full disk stays full: once the list has run off its last group,       *)
(* new_block hands out nothing, over any number of restarts, until a block *)
(* has been freed (bitmap.cc:147, fs.cc:68-70).                            *)
FullStaysFull ==
  [][~open /\ Sp = 0 /\ disk[0].s_free = 0 =>
       \A b \in Block : role'[b] = "owned" => role[b] = "owned"]_vars
=============================================================================
