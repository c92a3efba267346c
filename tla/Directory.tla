----------------------------- MODULE Directory -----------------------------
(***************************************************************************)
(* Directories: mkdir, rmdir, rm, touch, cd, ls and the prompt over inodes *)
(* and sectors of entries (src/src/app/mkdir.cc, rmdir.cc, rm.cc, iapp.cc, *)
(* print_pwd in src/src/console/console.cc).                               *)
(*                                                                         *)
(* The working directory is a copy of an inode in memory, `ipwd'.  The     *)
(* commands write the disk in several steps, and the power may fail        *)
(* between any two; where nothing else can come between, the steps are one *)
(* action and the failure within it is an action named ...Cut.  One        *)
(* command runs at a time.  The order of the free list and the blocks of   *)
(* long files are in Grouping and FileMap, the tables of open files in     *)
(* FileTables.                                                             *)
(***************************************************************************)
EXTENDS Integers, FiniteSets, Sequences

CONSTANTS
  Name,             \* names that are typed, the word mkdir among them
  Exact,            \* those of MAX_NAME_LEN = 14 characters
  TooLong,          \* those of more
  Lines,            \* a path of names and "..", and whether it has a space in it
  LastIno,          \* last inode, 4095
  NR_BLOCK,         \* blocks of the data zone
  HeadBlocks,       \* blocks that may have words of a group head in them
  LongAgo,          \* sets of blocks that may be lost from the start
  DIR_ENTRIES       \* entries of a sector, 28

NoName == ""

ASSUME DirectoryAssumption ==
  /\ Exact \subseteq Name /\ TooLong \subseteq Name \ Exact
  /\ LastIno \in Nat \ {0} /\ NR_BLOCK \in Nat \ {0}
  /\ HeadBlocks \subseteq 2 .. NR_BLOCK
  /\ LongAgo \subseteq SUBSET (2 .. NR_BLOCK) /\ LongAgo # {}
  /\ DIR_ENTRIES \in Nat /\ DIR_ENTRIES > 2
  /\ "mkdir" \in Name /\ {".", "..", NoName} \cap Name = {}
  /\ \A line \in Lines : /\ line.path \in Seq(Name \union {".."})
                         /\ line.path # <<>> /\ line.endless \in BOOLEAN

NORMAL_FILE == 0
DIR_FILE == 1
Ino == 0 .. (LastIno + 1)     \* new_inode returns the last one when it has none
NOWHERE == -1
Block == 1 .. NR_BLOCK
Slot == 1 .. DIR_ENTRIES
FileEntries == DIR_ENTRIES + 1  \* a new file's length, in entries: beyond a sector

(* i_size counts entries.  Block 0 is the two sectors in front of the data *)
(* zone, where an inode without a block points.                            *)
Node == [i_ino : Ino, i_mode : {NORMAL_FILE, DIR_FILE},
         i_zone : {0} \union Block, i_size : 0 .. FileEntries]
Cleared == [i_ino |-> 0, i_mode |-> NORMAL_FILE, i_zone |-> 0, i_size |-> 0]
dir_entry == [inode : Ino \union {NOWHERE}, name : Name \union {".", "..", NoName}]
NoEntry == [inode |-> 0, name |-> NoName]
HeadWords == [inode |-> 1, name |-> NoName]

Places == {"idle", "mkdir", "entry", "size", "dots", "enter", "cd", "unlink",
           "shrink", "prompt"}

VARIABLES
  inode,      \* the inodes on disk
  inode_map,  \* the numbers whose bit is set
  data,       \* the first sector of every block
  free,       \* the blocks that the list names
  ipwd,       \* the working directory, in memory
  cmd,        \* the command: where it is, the names left, where to go back to
  running,    \* FALSE after _panic, or a write beyond a buffer
  lost,       \* history: inodes and blocks that a command took and dropped
  harm        \* history: what no command repairs

disk == <<inode, inode_map, data, free>>
vars == <<disk, ipwd, cmd, running, lost, harm>>

Idle == [at |-> "idle", rest |-> <<>>, endless |-> FALSE, new |-> 0,
         back |-> Cleared]

TypeOK ==
  /\ inode \in [Ino -> Node]
  /\ inode_map \subseteq Ino \ {LastIno + 1}
  /\ data \in [{0} \union Block -> [Slot -> dir_entry]]
  /\ free \subseteq Block
  /\ ipwd \in Node
  /\ cmd \in [at : Places, rest : Seq(Name \union {"..", "."}),
             endless : BOOLEAN, new : Ino, back : Node]
  /\ running \in BOOLEAN
  /\ lost \in [ino : SUBSET Ino, blk : SUBSET Block]
  /\ harm \subseteq {"nowhere", "rm", "self", "file", "dotdot", "beyond",
                    "numbers", "torn", "halfgone"}

-----------------------------------------------------------------------------
(* Each definition named ...Mutant is a plausible bug in the definition    *)
(* that follows it; no specification uses it.                              *)

Min(S) == CHOOSE x \in S : \A y \in S : x <= y
Blank == [k \in Slot |-> NoEntry]
Dots(sector, self, up) ==
  [sector EXCEPT ![1] = [inode |-> self, name |-> "."],
                 ![2] = [inode |-> up, name |-> ".."]]

HeadSector == [k \in Slot |-> HeadWords]

(* A disk with its root directory, written by init_root_dir into a cleared *)
(* sector.  It does not set the root's i_mode, which stays 0.              *)
Init ==
  /\ inode = [i \in Ino |-> IF i # 0 THEN Cleared ELSE
                [i_ino |-> 0, i_mode |-> NORMAL_FILE, i_zone |-> 1, i_size |-> 2]]
  /\ inode_map = {0}
  /\ data = [b \in {0} \union Block |->
               IF b = 1 THEN Dots(Blank, 0, NOWHERE)
               ELSE IF b \in HeadBlocks THEN HeadSector ELSE Blank]
  /\ lost \in [ino : {{}}, blk : LongAgo]
  /\ free = Block \ ({1} \union lost.blk)
  /\ ipwd = inode[0]
  /\ cmd = Idle
  /\ running = TRUE
  /\ harm = {}

(* A read beyond the disk transfers nothing; the buffer is cleared.        *)
iget(nr) == IF nr = NOWHERE THEN Cleared ELSE inode[nr]

(* strlen runs on into the next entry's number when a name fills its field.*)
Ends(sector, k) ==
  \/ sector[k].name \notin Exact
  \/ k = DIR_ENTRIES
  \/ sector[k + 1].inode % 256 = 0

Matches(sector, size, name) ==
  {k \in 1 .. size : sector[k].name = name /\ Ends(sector, k)}
get_dirIn(sector, size, name) ==
  IF Matches(sector, size, name) = {} THEN NOWHERE
  ELSE sector[Min(Matches(sector, size, name))].inode
get_dirMutant(name) == get_dirIn(data[ipwd.i_zone], ipwd.i_size - 1, name)
get_dir(name) == get_dirIn(data[ipwd.i_zone], ipwd.i_size, name)

new_inode == LET clear == (Ino \ {LastIno + 1}) \ inode_map
             IN  IF clear = {} THEN LastIno + 1 ELSE Min(clear)
OutOfNumbers == IF new_inode = LastIno + 1 THEN {"numbers"} ELSE {}

(* What new_inode, new_block and the iput of the new inode leave.          *)
Takes ==
  /\ free # {}
  /\ inode_map' = inode_map \union ({new_inode} \ {LastIno + 1})
  /\ free' = free \ {Min(free)}
Taken(mode, size) ==
  [i_ino |-> new_inode, i_mode |-> mode, i_zone |-> Min(free), i_size |-> size]
Drops == lost' = [ino |-> lost.ino \union {new_inode},
                  blk |-> lost.blk \union {Min(free)}]

Becomes(place) == [cmd EXCEPT !.at = place]
Start(place, line) ==
  [at |-> place, rest |-> line.path, endless |-> line.endless, new |-> 0,
   back |-> ipwd]
Prompt(node) == [Idle EXCEPT !.at = "prompt", !.back = node]
Ready == running /\ cmd.at = "idle"

(* The walk over the path ends when a token is the last word of the line.  *)
(* Behind a second space none is, strtok returns NULL again and again, and *)
(* eatcmd has left the command's name at address 0.                        *)
ThisName(word) == IF cmd.rest = <<>> THEN word ELSE Head(cmd.rest)
RestMutant == cmd.rest
Rest == IF cmd.rest = <<>> THEN <<>> ELSE Tail(cmd.rest)
Ended == Rest = <<>> /\ ~cmd.endless

-----------------------------------------------------------------------------
mkdir_service(line) ==
  /\ Ready
  /\ cmd' = Start("mkdir", line)
  /\ UNCHANGED <<disk, ipwd, running, lost, harm>>

(* mkdir takes an inode and a block, and then looks for the name.  The     *)
(* root has its ".." at number -1, which is also the answer for no entry.  *)
MkdirTake ==
  /\ running /\ cmd.at = "mkdir"
  /\ ipwd.i_size <= DIR_ENTRIES
  /\ Takes
  /\ inode' = [inode EXCEPT ![new_inode] = Taken(DIR_FILE, 2)]
  /\ LET name == ThisName("mkdir")
     IN  \/ /\ get_dir(name) # NOWHERE
            /\ cmd' = Becomes("enter")
            /\ Drops
            /\ harm' = harm \union OutOfNumbers
            /\ UNCHANGED running
         \/ /\ get_dir(name) = NOWHERE
            /\ name \in TooLong \/ ipwd.i_size = DIR_ENTRIES
            /\ running' = FALSE                        \* _panic, or off the stack
            /\ harm' = harm \union OutOfNumbers
                 \union (IF name \in TooLong THEN {} ELSE {"beyond"})
            /\ Drops
            /\ UNCHANGED cmd
         \/ /\ get_dir(name) = NOWHERE
            /\ name \notin TooLong /\ ipwd.i_size < DIR_ENTRIES
            /\ cmd' = [cmd EXCEPT !.at = "entry", !.new = new_inode]
            /\ harm' = harm \union OutOfNumbers
                 \union (IF name = ".." THEN {"dotdot"} ELSE {})
            /\ UNCHANGED <<running, lost>>
  /\ UNCHANGED <<data, ipwd>>

(* The sector of a file is taken for that of a directory.                  *)
MkdirInFile ==
  /\ running /\ cmd.at = "mkdir"
  /\ ipwd.i_size > DIR_ENTRIES
  /\ running' = FALSE
  /\ harm' = harm \union {"file"}
  /\ UNCHANGED <<disk, ipwd, cmd, lost>>

(* new_block has no block left and halts, with the inode's bit set.        *)
MkdirNoBlock ==
  /\ running /\ cmd.at = "mkdir"
  /\ free = {}
  /\ inode_map' = inode_map \union ({new_inode} \ {LastIno + 1})
  /\ lost' = [lost EXCEPT !.ino = @ \union {new_inode}]
  /\ running' = FALSE
  /\ UNCHANGED <<inode, data, free, ipwd, cmd, harm>>

Appended(name, nr) ==
  [data EXCEPT ![ipwd.i_zone][ipwd.i_size + 1] = [inode |-> nr, name |-> name]]
Grown == [ipwd EXCEPT !.i_size = @ + 1]

MkdirEntry ==
  /\ running /\ cmd.at = "entry"
  /\ data' = Appended(ThisName("mkdir"), cmd.new)
  /\ cmd' = Becomes("size")
  /\ UNCHANGED <<inode, inode_map, free, ipwd, running, lost, harm>>

MkdirSize ==
  /\ running /\ cmd.at = "size"
  /\ ipwd' = Grown
  /\ inode' = [inode EXCEPT ![ipwd.i_ino] = Grown]
  /\ cmd' = Becomes("dots")
  /\ UNCHANGED <<inode_map, data, free, running, lost, harm>>

(* The rest of the sector stays as it was on disk.                         *)
MkdirDots ==
  /\ running /\ cmd.at = "dots"
  /\ data' = [data EXCEPT ![inode[cmd.new].i_zone] = Dots(@, cmd.new, ipwd.i_ino)]
  /\ cmd' = Becomes("enter")
  /\ UNCHANGED <<inode, inode_map, free, ipwd, running, lost, harm>>

(* The new directory, or the old one of that name, is entered for the next *)
(* name; in the end mkdir_service goes back to where it was called.        *)
BackMutant(nodes) == cmd.back
Back(nodes) == nodes[cmd.back.i_ino]
MkdirEnter ==
  /\ running /\ cmd.at = "enter"
  /\ LET nodes == [inode EXCEPT ![ipwd.i_ino] = ipwd]
         nr == get_dir(ThisName("mkdir"))
         node == IF nr = NOWHERE THEN Cleared ELSE nodes[nr]
     IN  /\ inode' = nodes
         /\ ipwd' = IF Ended THEN Back(nodes) ELSE node
         /\ cmd' = IF Ended THEN Prompt(Back(nodes))
                   ELSE [Becomes("mkdir") EXCEPT !.rest = Rest]
         /\ harm' = IF Ended \/ nr # NOWHERE THEN harm ELSE harm \union {"nowhere"}
  /\ UNCHANGED <<inode_map, data, free, running, lost>>

-----------------------------------------------------------------------------
cd_service(line) ==
  /\ Ready
  /\ cmd' = Start("cd", line)
  /\ UNCHANGED <<disk, ipwd, running, lost, harm>>

(* What is not a directory, or not there, leads to the root.               *)
CdStep ==
  /\ running /\ cmd.at = "cd"
  /\ LET node == iget(get_dir(ThisName("cd")))
     IN  /\ ipwd' = IF node.i_mode = DIR_FILE THEN node ELSE inode[0]
         /\ cmd' = IF Ended THEN Prompt(ipwd') ELSE [cmd EXCEPT !.rest = Rest]
  /\ UNCHANGED <<disk, running, lost, harm>>

(* "cd ..", alone on the line, looks at nothing.                           *)
CdUp ==
  /\ Ready
  /\ ipwd' = iget(get_dir(".."))
  /\ cmd' = Prompt(ipwd')
  /\ harm' = harm \union (IF get_dir("..") = NOWHERE THEN {"nowhere"} ELSE {})
  /\ UNCHANGED <<disk, running, lost>>

(* "cd /", and "mkdir /", "rmdir /" and "rm /", which change to the root.  *)
ToRoot ==
  /\ Ready
  /\ ipwd' = inode[0]
  /\ cmd' = Prompt(ipwd')
  /\ UNCHANGED <<disk, running, lost, harm>>

(* ls reads the inode of the working directory again.                      *)
ls ==
  /\ Ready
  /\ ipwd' = inode[ipwd.i_ino]
  /\ cmd' = Prompt(ipwd')
  /\ UNCHANGED <<disk, running, lost, harm>>

(* print_pwd goes up to the root, and comes back.                          *)
PromptUp ==
  /\ running /\ cmd.at = "prompt"
  /\ ipwd.i_ino # 0
  /\ ipwd' = iget(get_dir(".."))
  /\ UNCHANGED <<disk, cmd, running, lost, harm>>

PromptDone ==
  /\ running /\ cmd.at = "prompt"
  /\ ipwd.i_ino = 0
  /\ ipwd' = cmd.back
  /\ cmd' = Idle
  /\ UNCHANGED <<disk, running, lost, harm>>

-----------------------------------------------------------------------------
(* The entries behind the removed one move up, the first unused one too.   *)
RemovedMutant(sector, size, k) ==
  [m \in Slot |-> IF m < k THEN sector[m]
                  ELSE IF m < size - 1 THEN sector[m + 1] ELSE NoEntry]
Removed(sector, size, k) ==
  [m \in Slot |-> IF m \in k .. size
                  THEN IF m = DIR_ENTRIES THEN NoEntry ELSE sector[m + 1]
                  ELSE IF m = k THEN NoEntry ELSE sector[m]]
Cwd == data[ipwd.i_zone]
Hole == IF Matches(Cwd, ipwd.i_size, cmd.rest[1]) = {} THEN ipwd.i_size + 1
        ELSE Min(Matches(Cwd, ipwd.i_size, cmd.rest[1]))
Shrunk == [ipwd EXCEPT !.i_size = @ - 1]
OneName(name) == [path |-> <<name>>, endless |-> FALSE]

(* A name that is not there, or not empty.                                 *)
RmdirRefused(name) ==
  /\ Ready
  /\ get_dir(name) = NOWHERE \/ iget(get_dir(name)).i_size > 2
  /\ ipwd' = inode[ipwd.i_ino]
  /\ cmd' = Prompt(ipwd')
  /\ UNCHANGED <<disk, running, lost, harm>>

(* free_block copies the list's table into the block when it is full.      *)
FreedMutant(node) == free \union {Cleared.i_zone}
Freed(node) == free \union {node.i_zone}
Given(block, sector) ==
  {sector} \union (IF block \in HeadBlocks THEN {HeadSector} ELSE {})
Holds(block, sectors) == \E sector \in sectors : data' = [data EXCEPT ![block] = sector]

(* rmdir gives back the inode and the block before it removes the entry.   *)
(* free_inode halts for number 0.                                          *)
rmdirOf(name) ==
  /\ Ready
  /\ get_dir(name) # NOWHERE
  /\ inode[get_dir(name)].i_size <= 2
Self(name) == IF name = "." THEN {"self"} ELSE {}

RmdirHalts(name) ==
  /\ rmdirOf(name)
  /\ inode[get_dir(name)].i_ino = 0
  /\ running' = FALSE
  /\ UNCHANGED <<disk, ipwd, cmd, lost, harm>>

rmdir(name) ==
  LET node == inode[get_dir(name)]
  IN  /\ rmdirOf(name)
      /\ node.i_ino # 0
      /\ inode_map' = inode_map \ {node.i_ino}
      /\ free' = Freed(node)
      /\ Holds(node.i_zone, Given(node.i_zone, data[node.i_zone]))
      /\ inode' = [inode EXCEPT ![node.i_ino] = Cleared]
      /\ cmd' = Start("unlink", OneName(name))
      /\ harm' = harm \union Self(name)
      /\ UNCHANGED <<ipwd, running, lost>>

(* rm does not look at i_mode.  It clears the sectors and gives back the   *)
(* block with the second one, which a directory does not have; then the    *)
(* inode and its bit.  The entry is looked for again: the sector of "."    *)
(* has it no more.                                                         *)
OneSector(node) == node.i_size <= DIR_ENTRIES
rmOf(name) ==
  /\ Ready
  /\ get_dir(name) \notin {NOWHERE, 0}
  /\ inode[get_dir(name)].i_size # 0
Wiped(node) == Holds(node.i_zone, IF OneSector(node) THEN {Blank}
                                  ELSE Given(node.i_zone, Blank))
Spared(node) == IF OneSector(node) THEN {"rm"} ELSE {}

rm(name) ==
  LET nr == get_dir(name)
      node == inode[nr]
  IN  /\ rmOf(name)
      /\ Wiped(node)
      /\ free' = IF OneSector(node) THEN free ELSE Freed(node)
      /\ lost' = IF OneSector(node) THEN [lost EXCEPT !.blk = @ \union {node.i_zone}]
                 ELSE lost
      /\ inode' = [inode EXCEPT ![nr] = Cleared]
      /\ inode_map' = inode_map \ {nr}
      /\ harm' = harm \union Spared(node)
      /\ IF Matches(data'[ipwd.i_zone], ipwd.i_size, name) = {}
         THEN ipwd' = inode'[ipwd.i_ino] /\ cmd' = Prompt(ipwd')
         ELSE cmd' = Start("unlink", OneName(name)) /\ UNCHANGED ipwd
      /\ UNCHANGED running

(* Both end with the entry: its sector first, then the length.             *)
Unlink ==
  /\ running /\ cmd.at = "unlink"
  /\ data' = [data EXCEPT ![ipwd.i_zone] = Removed(@, ipwd.i_size, Hole)]
  /\ cmd' = Becomes("shrink")
  /\ UNCHANGED <<inode, inode_map, free, ipwd, running, lost, harm>>

Shrink ==
  /\ running /\ cmd.at = "shrink"
  /\ inode' = [inode EXCEPT ![ipwd.i_ino] = Shrunk]
  /\ ipwd' = inode'[cmd.back.i_ino]
  /\ cmd' = Prompt(ipwd')
  /\ UNCHANGED <<inode_map, data, free, running, lost, harm>>

(* simple_creat, with a descriptor at hand.                                *)
touch(name) ==
  /\ Ready
  /\ Takes
  /\ LET file == [inode EXCEPT ![new_inode] = Taken(NORMAL_FILE, FileEntries)]
         fits == get_dir(name) = NOWHERE /\ name \notin TooLong
     IN  \/ /\ get_dir(name) # NOWHERE
            /\ inode' = file
            /\ ipwd' = file[ipwd.i_ino]
            /\ cmd' = Prompt(ipwd')
            /\ Drops
            /\ UNCHANGED <<data, running>>
         \/ /\ get_dir(name) = NOWHERE
            /\ name \in TooLong \/ ipwd.i_size = DIR_ENTRIES
            /\ inode' = file
            /\ running' = FALSE
            /\ Drops
            /\ UNCHANGED <<data, ipwd, cmd>>
         \/ /\ fits /\ ipwd.i_size < DIR_ENTRIES
            /\ data' = Appended(name, new_inode)
            /\ inode' = [file EXCEPT ![ipwd.i_ino] = Grown]
            /\ ipwd' = inode'[ipwd.i_ino]
            /\ cmd' = Prompt(ipwd')
            /\ UNCHANGED <<running, lost>>
  /\ harm' = harm \union OutOfNumbers

-----------------------------------------------------------------------------
(* A power failure or a reset, and the start-up that finds the root.  What *)
(* a mkdir has taken is lost until its entry counts; then it lacks its     *)
(* dots.  What rmdir or rm has given back still has its name, or the       *)
(* length an entry too many.                                               *)
Restarts ==
  /\ ipwd' = inode'[0]
  /\ cmd' = Idle
  /\ running' = TRUE

PowerCut ==
  /\ lost' = IF cmd.at \in {"entry", "size"}
             THEN [ino |-> lost.ino \union {cmd.new},
                   blk |-> lost.blk \union {inode[cmd.new].i_zone}]
             ELSE lost
  /\ harm' = harm \union (IF cmd.at = "dots" THEN {"torn"}
                          ELSE IF cmd.at \in {"unlink", "shrink"} THEN {"halfgone"}
                          ELSE {})
  /\ UNCHANGED disk
  /\ Restarts

(* In mkdir or touch, when the bit is set, the block taken or the inode    *)
(* written; in touch also when the entry is written and does not count.    *)
Made == IF cmd.at = "mkdir" THEN Taken(DIR_FILE, 2)
        ELSE Taken(NORMAL_FILE, FileEntries)

BitCut ==
  /\ running /\ cmd.at \in {"idle", "mkdir"}
  /\ inode_map' = inode_map \union ({new_inode} \ {LastIno + 1})
  /\ lost' = [lost EXCEPT !.ino = @ \union {new_inode}]
  /\ UNCHANGED <<inode, data, free, harm>>
  /\ Restarts

TakeCut ==
  /\ running /\ cmd.at \in {"idle", "mkdir"}
  /\ Takes
  /\ Drops
  /\ \/ UNCHANGED <<inode, harm>>
     \/ /\ inode' = [inode EXCEPT ![new_inode] = Made]
        /\ harm' = harm \union OutOfNumbers
  /\ UNCHANGED data
  /\ Restarts

TouchCut(name) ==
  /\ Ready
  /\ Takes
  /\ get_dir(name) = NOWHERE /\ name \notin TooLong /\ ipwd.i_size < DIR_ENTRIES
  /\ inode' = [inode EXCEPT ![new_inode] = Made]
  /\ data' = Appended(name, new_inode)
  /\ Drops
  /\ harm' = harm \union OutOfNumbers
  /\ Restarts

(* In rm, when a file's first sector is cleared, within free_block too,    *)
(* nothing but its contents is gone.  From then on the name is left of an  *)
(* inode that has lost its block.                                          *)
RmCut(name) ==
  LET nr == get_dir(name)
      node == inode[nr]
  IN  /\ rmOf(name)
      /\ Wiped(node)
      /\ \/ /\ harm' = harm \union Spared(node)
            /\ UNCHANGED <<inode, free>>
         \/ /\ free' = IF OneSector(node) THEN free ELSE Freed(node)
            /\ inode' \in {inode, [inode EXCEPT ![nr] = Cleared]}
            /\ harm' = harm \union Spared(node) \union {"halfgone"}
      /\ UNCHANGED <<inode_map, lost>>
      /\ Restarts

(* In rmdir, from the moment its bit is clear.                             *)
RmdirCut(name) ==
  LET node == inode[get_dir(name)]
  IN  /\ rmdirOf(name)
      /\ node.i_ino # 0
      /\ inode_map' = inode_map \ {node.i_ino}
      /\ free' \in {free, Freed(node)}
      /\ Holds(node.i_zone, Given(node.i_zone, data[node.i_zone]))
      /\ harm' = harm \union Self(name) \union {"halfgone"}
      /\ UNCHANGED <<inode, lost>>
      /\ Restarts

Cut ==
  \/ PowerCut \/ BitCut \/ TakeCut
  \/ \E name \in Name : TouchCut(name)
  \/ \E name \in Name \union {".", ".."} : RmCut(name) \/ RmdirCut(name)

Command ==
  \/ \E line \in Lines : mkdir_service(line) \/ cd_service(line)
  \/ \E name \in Name \union {".", ".."} :
       RmdirRefused(name) \/ RmdirHalts(name) \/ rmdir(name) \/ rm(name)
  \/ \E name \in Name : touch(name)
  \/ CdUp \/ ToRoot \/ ls

(* The processor goes on with a command.                                   *)
Step ==
  \/ MkdirTake \/ MkdirInFile \/ MkdirNoBlock \/ MkdirEntry \/ MkdirSize
  \/ MkdirDots \/ MkdirEnter \/ CdStep \/ Unlink \/ Shrink
  \/ PromptUp \/ PromptDone

Next == Command \/ Step \/ Cut

Spec == Init /\ [][Next]_vars /\ WF_vars(Step)

-----------------------------------------------------------------------------
(* What the tree is made of.  Between two commands, or two names of a path.*)
Quiet == harm = {} /\ cmd.at \in {"idle", "mkdir", "cd", "prompt"}
Live == inode_map \ lost.ino
IsFolder(i) == i = 0 \/ inode[i].i_mode = DIR_FILE   \* the root by its number
Dirs == {i \in Live : IsFolder(i)}
SectorOf(d) == data[inode[d].i_zone]
Entries(d) == {SectorOf(d)[k] : k \in 3 .. inode[d].i_size}
Links(i) == {link \in Dirs \X Slot :
               /\ link[2] \in 3 .. inode[link[1]].i_size
               /\ SectorOf(link[1])[link[2]].inode = i}
UpOf(d) == SectorOf(d)[2].inode

(* The directories form a tree: every inode in use but the root has one    *)
(* entry in one directory, "." and ".." of a directory are right, ".."     *)
(* leads out of every set of directories that the root is not in, hence to *)
(* the root, and a name is there once (mkdir.cc, rmdir.cc).                *)
TreeSound ==
  Quiet =>
    /\ 0 \in Dirs
    /\ \A i \in Live \ {0} : Cardinality(Links(i)) = 1
    /\ \A d \in Dirs :
         /\ \A e \in Entries(d) : e.inode \in Live \ {0} /\ e.name \in Name \ TooLong
         /\ SectorOf(d)[1] = [inode |-> d, name |-> "."]
         /\ SectorOf(d)[2].name = ".."
         /\ d # 0 => \E k \in Slot : <<UpOf(d), k>> \in Links(d)
         /\ \A k, m \in 3 .. inode[d].i_size :
              SectorOf(d)[k].name = SectorOf(d)[m].name =>
                k = m \/ SectorOf(d)[k].name \in Exact
    /\ \A S \in SUBSET (Dirs \ {0}) : S # {} => \E d \in S : UpOf(d) \notin S

(* The copy of the working directory in memory, whose length every search  *)
(* and every append relies on, is the inode on disk of a live directory    *)
(* (iapp.cc:98-99).                                                        *)
CwdInStep ==
  (Quiet /\ cmd.at = "idle" /\ running) =>
    ipwd.i_ino \in Dirs /\ ipwd = inode[ipwd.i_ino]

(* Inodes and blocks are in use, free, or lost at the known places: a name *)
(* that was there already, a panic, a power failure (mkdir.cc:20).         *)
Accounted ==
  Quiet =>
    LET used == {inode[i].i_zone : i \in Live}
    IN  /\ Cardinality(used) = Cardinality(Live)
        /\ used \union free \union lost.blk = Block
        /\ used \cap free = {} /\ (used \union free) \cap lost.blk = {}

(* What a directory has, it finds: also after entries have come and gone,  *)
(* in sectors that were something else before.  Names of 14 characters are *)
(* not found once another entry follows (mkdir.cc:26).                     *)
NamesFound ==
  Quiet =>
    \A d \in Dirs : \A e \in Entries(d) :
      e.name \in Exact \/ get_dirIn(SectorOf(d), inode[d].i_size, e.name) = e.inode

(* A command whose line has one space ends, prompt included, or halts;     *)
(* the loops over a path and up to the root have no other bound            *)
(* (iapp.cc:87, console.cc:364).                                           *)
CommandsEnd ==
  (running /\ cmd.at # "idle" /\ ~cmd.endless) ~> (cmd.at = "idle" \/ ~running)

(* The tree of names.  What mkdir has taken has its name as soon as the    *)
(* entry counts, what rmdir has given back has none from that moment on.   *)
(* Once something irreparable has happened nothing is claimed.             *)
Pending == IF cmd.at \in {"entry", "size"} THEN {cmd.new} ELSE {}
Members == Live \ Pending
Folders == {i \in Members : IsFolder(i)}
SlotsOf(d) ==
  (3 .. inode[d].i_size) \
    (IF d # ipwd.i_ino THEN {}
     ELSE IF cmd.at = "unlink" THEN {Hole}
     ELSE IF cmd.at = "shrink" THEN {inode[d].i_size} ELSE {})
NamesIn(d) ==
  {[dir |-> d, name |-> SectorOf(d)[k].name, stands |-> SectorOf(d)[k].inode] :
     k \in SlotsOf(d)}
AllNames == UNION {NamesIn(d) : d \in Folders}
Home == IF cmd.at = "idle" THEN ipwd.i_ino ELSE cmd.back.i_ino

Unharmed(S) == IF harm = {} THEN S ELSE {}
Whereabouts(i) == IF harm = {} THEN i ELSE 0
Tree == INSTANCE NameTree WITH
  Number <- Ino, Root <- 0, Name <- Name \ TooLong, Vague <- Exact,
  entries <- Unharmed(AllNames),
  folders <- Unharmed(Folders),
  at <- Whereabouts(ipwd.i_ino),
  home <- Whereabouts(Home),
  sound <- harm = {}

(* A command makes or removes one name, of the directory it is in, in one  *)
(* step or not at all, wherever the power fails; no other name changes,    *)
(* what is removed is empty and what is made is too, and a walk goes from  *)
(* neighbour to neighbour and comes back (mkdir.cc:29, rmdir.cc:13,        *)
(* iapp.cc:87).                                                            *)
TreeSpec == Tree!Spec

(* Nothing removes the root directory: "root directory CANNOT be removed"  *)
(* (iapp.cc:172).                                                          *)
RootKept == inode[0].i_zone # 0
=============================================================================
