-------------------------------- MODULE Boot --------------------------------
(***************************************************************************)
(* From power on to the shell: the partition table (src/src/blk_dev/       *)
(* dpt.cc), the detection and formatting of the file system (fs/bitmap.cc, *)
(* fs/format.cc, fs/grouping.cc), its root directory and its first set-up  *)
(* (fs/fs.cc).  A step writes at most one sector, new_block apart (Grouping*)
(* takes that one apart), and the power may fail between any two.          *)
(*                                                                         *)
(* What the disk holds at first is anybody's; `fresh' says which of the    *)
(* sectors that the file system relies on have been formatted.             *)
(***************************************************************************)
EXTENDS Naturals, Sequences

CONSTANTS
  INODE_BLKS,     \* sectors of inodes
  TOTAL_GROUP,    \* groups of free blocks, 128
  SETUP           \* writes of the first set-up, its directories and two books

ASSUME BootAssumption ==
  INODE_BLKS \in Nat \ {0} /\ TOTAL_GROUP \in Nat \ {0} /\ SETUP \in Nat \ {0}

VARIABLES
  mbr,        \* sector 0 is a valid partition table
  magic,      \* s_magic of the superblock on disk is RIFS_MAGIC_NUMBER
  fresh,      \* the sectors formatted
  root_bit,   \* bit 0 of the inode bitmap
  root_inode, root_block,   \* the root directory: inode 0 and its entries
  content,    \* writes of the set-up that are on disk
  user,       \* the user has stored something
  at,         \* where the start is, see Places
  k,          \* the next sector to format
  tmp_sb,     \* the superblock in memory has the magic number
  new_rifs,   \* formatted since power on
  harm        \* history: windows in which the power has failed

disk == <<mbr, magic, fresh, root_bit, root_inode, root_block, content, user>>
memory == <<at, k, tmp_sb, new_rifs>>
vars == <<disk, memory, harm>>

Sector == {"super", "zones", "inodemap"} \X {1}
            \union {"inodes"} \X (1 .. INODE_BLKS)
            \union {"head", "head+1"} \X (1 .. TOTAL_GROUP)
Places == {"dpt", "super", "check", "format", "again", "root", "block", "inode",
           "dots", "setup", "up", "panic"}

(* A plausible bug: init_free_space_grouping stops before the last group.  *)
HeadWritesMutant == [i \in 1 .. 2 * (TOTAL_GROUP - 1) |->
                       <<IF i % 2 = 1 THEN "head" ELSE "head+1", (i + 1) \div 2>>]
(* A head is two sectors, written one after the other.                     *)
HeadWrites == [i \in 1 .. 2 * TOTAL_GROUP |->
                 <<IF i % 2 = 1 THEN "head" ELSE "head+1", (i + 1) \div 2>>]

(* format_disk and init_free_space_grouping, in order; only the first      *)
(* sector of the zone bitmap is written, and none is ever read.            *)
FormatWrites ==
  <<<<"super", 1>>, <<"zones", 1>>, <<"inodemap", 1>>>>
    \o [i \in 1 .. INODE_BLKS |-> <<"inodes", i>>]
    \o HeadWrites
    \o <<<<"super", 1>>>>         \* set_specific_blk_nr(1)
Last == Len(FormatWrites)

TypeOK ==
  /\ {mbr, magic, root_bit, user, tmp_sb, new_rifs} \subseteq BOOLEAN
  /\ fresh \subseteq Sector
  /\ root_inode \in {"foreign", "zero", "root"} /\ root_block \in {"foreign", "dots"}
  /\ content \in 0 .. SETUP
  /\ at \in Places /\ k \in 1 .. Last
  /\ harm \subseteq {"format", "root", "setup"}

RootSound == root_bit /\ root_inode = "root" /\ root_block = "dots"

(* A disk with the magic number but without the rest counts as harmed.     *)
Init ==
  /\ mbr \in BOOLEAN /\ magic \in BOOLEAN /\ fresh = {}
  /\ root_bit \in BOOLEAN /\ root_inode = "foreign" /\ root_block = "foreign"
  /\ content = 0 /\ user = FALSE
  /\ at = "dpt" /\ k = 1 /\ tmp_sb = FALSE /\ new_rifs = FALSE
  /\ harm = IF magic THEN {"format"} ELSE {}

Goes(from, to) == at = from /\ at' = to

-----------------------------------------------------------------------------
(* Each definition named ...Mutant is a plausible bug in the definition    *)
(* that follows it; no specification uses it.                              *)

init_dpt ==
  \/ /\ mbr /\ Goes("dpt", "super")
     /\ UNCHANGED <<disk, k, tmp_sb, new_rifs, harm>>
  \/ /\ ~mbr /\ Goes("dpt", "dpt")
     /\ mbr' = TRUE
     /\ UNCHANGED <<magic, fresh, root_bit, root_inode, root_block, content, user,
                    k, tmp_sb, new_rifs, harm>>

ReadSuper ==
  /\ Goes("super", "check")
  /\ tmp_sb' = magic
  /\ UNCHANGED <<disk, k, new_rifs, harm>>

DetectedMutant == new_rifs
Detected == tmp_sb
check_rifs ==
  /\ Goes("check", IF Detected THEN "root" ELSE "format")
  /\ UNCHANGED <<disk, k, tmp_sb, new_rifs, harm>>

AdvanceMutant == k' = k + 1
Advance == k' = IF k = Last THEN 1 ELSE k + 1

(* One write of format_disk or init_free_space_grouping; files are gone.   *)
Format ==
  /\ Goes("format", IF k = Last THEN "again" ELSE "format")
  /\ Advance
  /\ LET sector == FormatWrites[k] IN
     /\ fresh' = fresh \union {sector}
     /\ magic' = (magic \/ sector = <<"super", 1>>)
     /\ root_bit' = (root_bit /\ sector # <<"inodemap", 1>>)
     /\ root_inode' = IF sector = <<"inodes", 1>> THEN "zero" ELSE root_inode
  /\ content' = 0 /\ user' = FALSE
  /\ UNCHANGED <<mbr, root_block, tmp_sb, new_rifs, harm>>

RereadMutant == tmp_sb
Reread == magic
Again ==
  /\ Goes("again", "check")
  /\ tmp_sb' = Reread
  /\ new_rifs' = TRUE
  /\ UNCHANGED <<disk, k, harm>>

-----------------------------------------------------------------------------
(* init_root_dir: bit, block, inode and entries, and then once more.       *)
RootBit ==
  /\ ~root_bit /\ Goes("root", "block")
  /\ root_bit' = TRUE
  /\ UNCHANGED <<mbr, magic, fresh, root_inode, root_block, content, user,
                 k, tmp_sb, new_rifs, harm>>

(* new_block reads a head that nobody has formatted as what it may be.     *)
FirstHead == {<<"head", 1>>, <<"head+1", 1>>} \subseteq fresh
RootBlock ==
  /\ \/ Goes("block", "inode")
     \/ ~FirstHead /\ Goes("block", "panic")
  /\ UNCHANGED <<disk, k, tmp_sb, new_rifs, harm>>

RootInode ==
  /\ Goes("inode", "dots")
  /\ root_inode' = "root"
  /\ UNCHANGED <<mbr, magic, fresh, root_bit, root_block, content, user,
                 k, tmp_sb, new_rifs, harm>>

RootDots ==
  /\ Goes("dots", "root")
  /\ root_block' = "dots"
  /\ UNCHANGED <<mbr, magic, fresh, root_bit, root_inode, content, user,
                 k, tmp_sb, new_rifs, harm>>

RootDetected ==
  /\ root_bit /\ Goes("root", "setup")
  /\ UNCHANGED <<disk, k, tmp_sb, new_rifs, harm>>

(* setup_fs: the first set-up, or only the specific block is loaded.       *)
SetupWrite ==
  /\ new_rifs /\ content < SETUP /\ Goes("setup", "setup")
  /\ content' = content + 1
  /\ UNCHANGED <<mbr, magic, fresh, root_bit, root_inode, root_block, user,
                 k, tmp_sb, new_rifs, harm>>
SetupDone ==
  /\ new_rifs => content = SETUP
  /\ Goes("setup", "up")
  /\ UNCHANGED <<disk, k, tmp_sb, new_rifs, harm>>

UserWrites ==
  /\ at = "up"
  /\ user' = TRUE
  /\ UNCHANGED <<mbr, magic, fresh, root_bit, root_inode, root_block, content,
                 memory, harm>>

(* The power fails; memory is lost.                                        *)
PowerCut ==
  /\ at' = "dpt" /\ k' = 1 /\ tmp_sb' = FALSE /\ new_rifs' = FALSE
  /\ harm' = harm \union (IF magic /\ fresh # Sector THEN {"format"} ELSE {})
                  \union (IF at \in {"block", "inode", "dots"}
                          THEN {"root"} ELSE {})
                  \union (IF magic /\ content < SETUP THEN {"setup"} ELSE {})
  /\ UNCHANGED disk

Step == \/ init_dpt \/ ReadSuper \/ check_rifs \/ Format \/ Again
        \/ RootBit \/ RootBlock \/ RootInode \/ RootDots \/ RootDetected
        \/ SetupWrite \/ SetupDone
Next == Step \/ UserWrites \/ PowerCut

(* The processor goes on with the start.                                   *)
Spec == Init /\ [][Next]_vars /\ WF_vars(Step)

-----------------------------------------------------------------------------
(* A machine that is up has a formatted disk, a root directory and the     *)
(* first set-up, whenever the power has failed before, unless it has in    *)
(* one of three windows: after the magic number and before the last group  *)
(* (then nothing is sure but the magic), between the root's bit and its    *)
(* entries, and before the first set-up was complete.  The groups are      *)
(* there for the first allocation, the root's block: Grouping starts there.*)
SoundWhenUp ==
  /\ at \in {"block", "up"} /\ "format" \notin harm => fresh = Sector
  /\ at = "up" =>
       /\ mbr /\ magic
       /\ harm \intersect {"format", "root"} = {} => RootSound
       /\ harm = {} => content = SETUP

(* What the user has stored survives every start and power failure: no     *)
(* boot formats a disk, or repeats the set-up, once the shell has run.     *)
KeepsFiles == [][user => user' /\ content' = content]_vars

(* With the power on, every start comes to the shell or to a panic: the    *)
(* three checks that jump back end.                                        *)
BootEnds == []<><<PowerCut>>_vars \/ []<>(at \in {"up", "panic"})
=============================================================================
