# A verification of RiOS

RiOS (Baby RiOS) is a 32-bit x86 teaching kernel: it boots from GRUB, drives an
IDE disk, keeps a file system of its own on it and offers a shell.  There is one
address space, no processes and no user mode.  A command runs inside the
keyboard interrupt that delivered its Enter key, while the kernel's main
function spins.  This directory holds TLA+ modules that model the kernel's own
logic, the TLC configurations that check them, and proofs that TLAPS checks.

File names below are relative to the repository (`src/fs/bitmap.cc` is the file
`fs/bitmap.cc` in the repository's directory `src`).

## 1. The system

| Component | Source | State | Operations |
|---|---|---|---|
| Free data blocks | `src/fs/bitmap.cc`, `src/fs/grouping.cc`, `src/fs/fs.cc` | group heads on disk, `s_specific_blk_nr` in the superblock, `specific_block` and `is_specific_block_set` in memory | `init_free_space_grouping`, `new_block`, `free_block`, loading at boot |
| Memory allocator | `src/mm/memory.cc` | `Mem_table`: a count and up to 4090 records of free memory, by address | `init_mem_table`, `mem_record_alloc`, `mem_record_free` |
| Inodes | `src/fs/inode.cc` | the inode bitmap, the inode table on disk | `new_inode`, `free_inode`, `iget`, `iput` |
| File data | `src/fs/file.cc`, `src/app/rm.cc` | `i_zone[0..9]`, index blocks | `read`, `write`, the freeing half of `rm` |
| Open files | `src/fs/file.cc`, `src/fs/file_table.cc` | `current->filp[10]`, `file_table[64]`, `active_inode_table[64]` | `simple_creat`, `open`, `close` |
| Directories | `src/app/mkdir.cc`, `rmdir.cc`, `rm.cc`, `iapp.cc` | one sector of entries for each directory, `current->pwd` | `mkdir`, `rmdir`, `rm`, `cd`, `ls`, `pwd` |
| Boot, formatting | `src/kmain.cc`, `src/blk_dev/dpt.cc`, `src/fs/format.cc`, `src/fs/bitmap.cc` | partition table, superblock, bitmaps on disk | `init_dpt`, `check_rifs`, `format_disk`, `init_root_dir`, `setup_fs` |
| Console | `src/console/console.cc`, `keyboard.cc` | `cmd_buffer`, `cmd_buffer_index`, cursor | `do_keyboard`, `con_putch`, `del` |
| Interrupts | `src/kernel/irq.cc`, `trap.cc`, `syscall.cc`, `timer.cc` | the interrupt flag | dispatch |
| IDE disk | `src/blk_dev/serial.cc` | the device's registers | `IDE_read_sector`, `IDE_write_sector` |
| Output | `src/console/msg.cc`, `src/app/hexdump.cc`, `src/kernel/string.cc` | none | formatting |
| Stubs | `src/fs/ext2.cc`, `namei.cc`, `src/blk_dev/ramdisk.cc`, `src/task/sched.cc` | none | none |

How they interact.  The keyboard handler feeds the console; at Enter the console
runs a command (`con_putch`, `console.cc:69`), which calls the directory, file
and inode code by plain function calls; these call `new_block`, `free_block`,
`kmalloc` and the disk driver.  The disk is polled, without interrupts.
Everything is shared through globals: the superblock, the specific block, the
working directory, the three file tables, the command buffer.

What is hard in it:

* **Crashes.** The disk is the only state that survives, a call writes it in
  several steps, and there is no log and no check at start-up.
* **Nesting.** `con_putch` and `set_cursor` turn interrupts on again inside the
  keyboard handler, so a second command may start in the middle of the first,
  on the same globals, and ends before the first goes on.
* **Two copies.** The superblock, the specific block, `iroot`, `ipwd` and open
  inodes live in memory and on disk, and each path must keep both in step.
* **Limits.** Directories of one sector, tables of 10, 64 and 64 entries, a
  command buffer of 2000 bytes, 4096 inodes, 8192 blocks, 4090 memory records.
* **Partial failure.** A command that fails half-way returns or panics without
  undoing what it has done.

What makes each part correct: a block is in one hand only, and comes back to the
list only from that hand (free blocks); allocated pieces of memory never overlap
and free memory is never lost (allocator); what a file reads is what was written,
and removing it frees exactly its blocks (file data); the three tables agree and
a closed file leaves nothing behind (open files); every directory entry names a
live inode and every live inode has an entry (directories); a disk that counts as
formatted is formatted (boot); a command sees the line that was typed (console).
`PROJECT.json` lists the hazards one by one, each at its line.

## 2. The modules

### BlockPool

The promise of the free-space management to its callers, with no groups and no
disk in it: blocks go from the pool to one owner (`Alloc`), come back from that
owner (`Free`), a power failure may lose one pooled block (`Lose`), and a pool
down to one block may close for good (`Close`).

### Grouping

The free data blocks in linked groups.  `disk` is every block of the data zone
read as a group head (`union free_space_grouping_head`), plus block 0, which is
where `DATA_BLK_NR_TO_SECTOR_NR(0)` points: the two sectors in front of the data
zone.  `s_specific_blk_nr` is the superblock's field; `get_super` and
`set_super` copy it between memory and disk at every call, so one variable
stands for both.  `specific_block` and `is_specific_block_set` are the globals
of `bitmap.cc`.  `root_bit` is bit 0 of the inode bitmap, which decides whether
`init_root_dir` allocates.  `power` says whether the machine is starting, runs,
has jumped back to `again` in `new_block`, or has panicked.

Two history variables are not in the code: `role` says what each block is used
for (a head, listed by a head, owned by a file, lost), and `open` becomes FALSE
when the list runs off its last group.

| Action | Code |
|---|---|
| `NewBlock` | `new_block`, one pass from its start or from `again` |
| `NewBlockCut` | `new_block` cut by a power failure between the superblock and the new head (`bitmap.cc:128-142`) |
| `FreeBlock(b)` | `free_block`, the two panics at its end included |
| `FreeBlockCut(b)` | `free_block` cut between the copy of the full table and its link (`bitmap.cc:168-171`) |
| `WriteData(b)` | a file writes a block it owns; what it writes may look like a group head |
| `InitRootDir`, `InitRootDirCut` | `init_root_dir` on a disk without root; the power failure after `new_inode` |
| `SetupFs` | the rest of the start-up: loads the specific block unless `new_block` has set it |
| `Restart` | power failure or reset between two disk writes that leave the model's disk as before or as after a call |

A read beyond the array `s_free_blk_nr` (an `s_free` of 0 that wraps to 65535)
returns any value of `JunkWords`; the write to the same place lands outside the
modelled state.  A panic is `cli; hlt`: only `Restart` leaves it.

A call is one action.  That is faithful while no second command interrupts it;
calls that nest are the subject of the planned module GroupingIrq.  A disk
starts formatted; `SoundWhenUp` of Boot shows that this is what
the first allocation finds, unless the power failed during the formatting.

`MCGrouping` gives the small instances, the constraint and the view of the runs.

### Heap and Memory

`Heap` is what the allocator promises: a set of free addresses, a request is
served from the lowest run that is long enough, the machine halts only when
there is none, and a freed block is dropped only when there are already
`MaxRuns` runs and it touches none of them.

`Memory` is the table that implements it.  `mem_record` is the array up to
`mem_record_total`; `lent` (what callers hold) and `lost` (what a full table
dropped) are history.

| Definition | Code |
|---|---|
| `Ri_malloc(n)`: `FirstFit`, `RunOut` | `mem_record_alloc`; the second is the panic |
| `Ri_free(b)`: `MergeBoth`, `MergePrev`, `MergeNext`, `InsertRecord`, `TableFull` | the five ways through `mem_record_free` |
| `StopsAt` | its search loop |

Calls are whole actions and callers free what they were lent, once.

`MemoryNesting` adds who calls: `cat`, `slow_cat` and `setup_fs` take a buffer
and give it back before they return, and a command that a keyboard interrupt
starts meanwhile runs on top (the interrupt controller needs no end-of-interrupt,
`gdt_idt.cc:149`, and `con_putch` turns interrupts on, `console.cc:142`).
`commands` is the stack of buffers in use.

### FileMap

The blocks of files, over a free list that is a count per block (a block can be
listed twice).  `i_zone` and `i_size` are the inodes, `disk` the words of each
block of the data zone, `inode_map` the bitmap, `named` what the directory
names.  `call` says where `write` or `rm` is: each thing that they make
persistent is one action, and `PowerCut` may come between any two.  Where such a
thing takes several writes (`simple_creat`, `new_block` with the record of its
number, `free_block`), an action named ...Cut is the failure within it.  `Ino`
has one number more than there are inodes, `Beyond`: `new_inode` returns it when
every bit is set, and `iput` then writes the record into the first sector of the
data zone, whoever has that block.

| Action | Code |
|---|---|
| `Creat`, `CreatCut` | what `simple_creat` does to inodes and blocks; cut by a power failure |
| `WriteBegin` | `write` up to the inode with the new length |
| `WriteAlloc`, `WriteAllocCut` | the next missing block on the way to the sector, and its number in the inode or index block |
| `WriteSector`, `WriteEnd`, `WriteNoBlock` | the sector itself; the end of the loops; the panic of `new_block` |
| `Read` | `read`, which only matters when it panics; what it returns is in `ReadsBack` |
| `RmBegin`, `RmSector`, `RmPanics` | `rm` and its loops over the sectors |
| `RmFree`, `RmFreeCut` | `free_block` in these loops, whose full table goes into the block; cut between that copy and the record (`bitmap.cc:168-171`) |
| `RmSingles`, `RmTail` | what the branches do to index blocks |
| `RmClear`, `RmFreeInode`, `RmUnlink` | the last three steps of `rm` |

`Path` is the computation of the zone and of the entries behind it that all
branches of `read`, `write` and `rm` repeat.  `new_block` may hand out a block
that the list has used as a group head, with its words still in it.  `harm`, a
history variable, records what no command repairs: an index block that was a
group head (`stale`), blocks freed twice (`twice`), a power failure in `rm` once
a block is free (`cutrm`), a bit that is cleared for another number or before the
name (`badbit`), a file made without an inode (`numbers`), and lost blocks
(`leak`), which only `NothingLost` minds.  The panic of
`free_block` and the order of the list belong to `Grouping`.  `write` has one
caller, `setup_fs`, which writes each file once; so does the model.

### FileStore

What `write` and `rm` promise about the contents of files, with no blocks,
zones or inodes in it: a file is a function from sector numbers to contents,
and a sector without a block is a hole.  A command works on one file at a time.
`Create` gives a file two sectors of anything, `CreateCut` makes one that has
no name, `BeginWrite` a length, `Allocate` fills the two holes of a block with
anything, `Write` and `Erase` put a text or blanks into one sector, `EndWrite`
demands that every sector holds its text, `GiveBack` makes the two sectors of a
block anything, perhaps as the last thing that the command does, `Clear`
empties a file and `Unlink` takes only an empty one out of the names.
`Interrupt` is a power failure, which leaves every sector as it is. After
`Harm` nothing is promised.

FileMap implements it.  The mapping takes the contents of sector i of a file
from the block at the end of `Path(i)`, so that a step which allocates an index
block, or sets a bit, is a stutter; `sound` is "no harm but a lost block".

### FileTables

The descriptors (`filp`), the file table and the active inodes, with the inodes
on disk, their bitmap and the names of one directory.  Some of the names are of
directories: `open` looks at no `i_mode`, so they get slots too, and the
commands on directories write inodes to disk without a look at the slots.  A
command prints nothing between its first and last access to the tables, so
interrupts are off and it is one action.

| Action | Code |
|---|---|
| `cat(name)` | `open` by `cat` and `slowcat`, which never close |
| `OpenGoesWild(name)` | `open` of an inode whose slot's index is no descriptor (`file.cc:101`) |
| `rm(name)`, `RmCut(name)` | `open`, `close` and the removal; cut by a power failure when `close` has written the inode back, or later |
| `simple_creat(name)` | `simple_creat`, for a name that is there already too |
| `mkdir(name)` | what `mkdir` does to inodes and names; no table |
| `CreatCut(length)` | one of the two, cut by a power failure or a panic |
| `rmdir(name)`, `RmdirCut(name)` | `rmdir`, of files too: bit, inode and name, past the tables |
| `Resize(name)` | the length of a directory of that name, written by the `mkdir`, `touch`, `rm` or `rmdir` of an entry in it |
| `Restart` | a reset: the tables are empty again |

`open` uses the index of a slot of the active inode table as a descriptor.  That
is right only while the three tables are filled and emptied in step, which is
the invariant `Lockstep`.  `derailed` records that an `open` has put them out of
step, `torn` the names whose inode has been cleared or freed without them (a cut
`rm` or `rmdir`, or a second torn name of the number), `stale` the open inodes
that a command has written on disk only.

### Directory

Inodes, their bitmap, the first sector of each block and the working directory
`ipwd`, a copy of an inode in memory.  `cmd` says where a command is.  The power
may fail between any two writes of `mkdir`, `touch`, `rmdir` and `rm`: between
steps it is `PowerCut`, and within a step, where nothing else can come between,
an action named ...Cut.  The root is a directory by its number: `init_root_dir`
does not set its `i_mode`, which stays `NORMAL_FILE`.

| Action | Code |
|---|---|
| `mkdir_service`, `MkdirTake`, `MkdirEntry`, `MkdirSize`, `MkdirDots`, `MkdirEnter` | `mkdir` for each name of a path: inode and block, entry, length, dots, and into the new directory |
| `MkdirNoBlock`, `MkdirInFile` | the panic of `new_block`; `mkdir` where the working directory is a file |
| `cd_service`, `CdStep`, `CdUp`, `ToRoot` | `cd` along a path, `cd ..`, `cd /` |
| `RmdirRefused`, `RmdirHalts`, `rmdir`, `rm` | `rmdir` and the directory's part of `rm`: the inode and the block; `free_inode` halts for number 0 |
| `Unlink`, `Shrink` | the end of both: the sector without the entry, then the length |
| `touch(name)` | the directory's part of `simple_creat` |
| `BitCut`, `TakeCut`, `TouchCut` | `mkdir` and `touch` cut behind `new_inode`, behind `new_block` or the inode, and behind the entry |
| `RmCut`, `RmdirCut` | `rm` and `rmdir` cut before the inode and its bit are gone |
| `ls`, `PromptUp`, `PromptDone` | `ls`; `print_pwd` on its way up to the root, after every command |

A line is a path and whether a second space is in it: then no token of the walk
is the last word of the line and the loop does not end.  A name of 14 characters
has no terminator of its own (`Exact`).  `harm` records nine events that no
command repairs: inode -1 (`nowhere`), `rm` of a directory (`rm`), `rmdir .`
(`self`), `mkdir` inside a file (`file`), `mkdir ..` in the root (`dotdot`), a
29th entry (`beyond`), no inode left (`numbers`), and power failures in `mkdir`
before the dots (`torn`) and in `rmdir` or `rm` from the moment that the inode or
its block is given back until the shorter length is on disk (`halfgone`).  A
failure in `rm` before that leaves the file without its contents and the tree
whole; one in `touch`, or earlier in `mkdir`, loses an inode and a block
(`lost`).

### NameTree

What the directories promise to their user, with no sectors, slots or inodes in
it: a set of names (`entries`: in which directory, and what for), the
directories, where a walk is and the working directory.  `MakeDirectory` and
`MakeFile` add one name for something that has none, `Remove` takes one name
away from what has no names in it, each in one step and in the directory where
the walk is.  `Walk`, `Arrive` and `Return` move to a neighbour, to a new working
directory, and back.  `Interrupt` is a power failure that leaves the names alone.
`Harm` ends the promise: `sound` is FALSE from then on.

Directory implements it (`TreeSpec`) with this mapping.  What `mkdir` has taken
is named by nobody while it is `Pending`: the name is there from the moment the
length counts the entry (`MkdirSize`), although the dots come later.  What
`rmdir` or `rm` is removing has lost its name when its inode is cleared,
although the entry goes later: that slot is the `Hole`, and once the entries
behind it have moved up (`Unlink`) it is the last slot, until the length is
shorter (`Shrink`).  All other steps of
these commands are stutters or walks.  `at` is the number of `ipwd`, `home` that
of the directory the command was called in, and `sound` is `harm = {}`.

### Console

The command line and the cursor.  A key is handled with interrupts off, but
`set_cursor` turns them on after every character on the screen (and `del` before
and after it deletes one), so the next key is handled in the middle of the last.
`frames` is the stack of handlers with the start-up at the bottom; only the last
makes steps.  `typed` and `since` (history) are the keys since the line was
cleared, and what else came since then; `spilled` records a store outside the
buffer.

| Action | Code |
|---|---|
| `do_keyboard(ch)`, `Backspace`, `RightCtrl`, `Enter` | `do_keyboard`: a handler is pushed |
| `Scroll`, `Put` | `con_putch` up to `putch`, whose `set_cursor` turns interrupts on |
| `Store`, `Inc` | `ch2cmd_buffer`, for typed and for printed characters |
| `Delete`, `Erase`, `DelBlank`, `DelDec` | `del`: its first `set_cursor`, the character on the screen, the buffer, the index |
| `RunCommand`, `RunClear`, `RunPanics` | a command prints some characters, clears everything, or halts for an empty name; an empty line runs the last word again (`eatcmd` leaves it at address 0) |
| `Nextline`, `Clear`, `Reset` | the end of a command: prompt, buffer, index |

What the command does to the disk is in Directory and FileMap, one at a time.

### Boot

From power on to the shell, on any disk.  `fresh` is the set of sectors that
have been formatted; `root_bit`, `root_inode` and `root_block` are the root
directory; `content` counts the writes of the first set-up and `user` stands for
what the user stores later.  Every step writes at most one sector, except for
`RootBlock` (`new_block`, taken apart in Grouping).

| Action | Code |
|---|---|
| `init_dpt` | `check_DPT` and `set_DPT` |
| `ReadSuper`, `check_rifs`, `Format`, `Again` | `check_rifs` and its loop; one write of `format_disk` or `init_free_space_grouping` |
| `RootBit`, `RootBlock`, `RootInode`, `RootDots`, `RootDetected` | `init_root_dir` and its loop |
| `SetupWrite`, `SetupDone` | `setup_fs` |
| `UserWrites`, `PowerCut` | the shell; a power failure at any point |

`harm` records the three windows in which a power failure has consequences:
after the magic number has been written and before the last group, between the
root's bit and its entries, and before the first set-up is complete.

## 3. The runs

| Run | Instance | Shows |
|---|---|---|
| `grouping` | 3 groups of 3 blocks, junk 0 or 3, file data that lists block 1 three times | see below |
| `grouping_exhausted` | 1 group of 3, file data with an oversized `s_free` | a full disk stays full over restarts (`FullStaysFull`) |
| `memory` | 9 addresses, a table of 3 records, blocks of 1 to 3 | the table is sound, conserves memory and implements `Heap` |
| `memory_nesting` | 9 addresses, commands with buffers of 1 to 3 | nested commands never fragment the heap and return all of it |
| `file_map` | 2 inodes and the number beyond, 5 blocks, 1 direct zone, index blocks of 2 | one hand for each block, files read back, nothing lost but at known places, names in use |
| `file_map_two_levels` | 2 inodes, 11 blocks, a file of up to 11 sectors and one of 2 | `write`, `rm` and power failures are steps of `FileStore`, for all three ranges of zones |
| `file_map_listed_once` | two levels | violation: `rm` frees blocks twice |
| `file_tables` | 3 names, 2 descriptors, 3 files, 3 slots, 2 inodes and the number beyond | the three tables keep in step until an `open` finds no descriptor; slots mirror the disk but where a command writes past them; names stand for inodes of their own |
| `directory` | 4 inodes, 4 blocks, 4 entries, an ordinary, a 14-character and a too long name | the tree is sound and implements `NameTree` until one of nine events; every command on a line with one space ends |
| `directory_root_kept` | the same with 5 blocks, and no harm but the `rm` of a directory | violation: `rm .` and then `mkdir` overwrite the root directory |
| `console` | a line of 3, a screen of 2, handlers two deep | the buffer is what was typed; output stays out of it; handlers return |
| `boot` | 2 inode sectors, 3 groups, 3 set-up writes | what is whole when the machine comes up, whenever the power failed; files survive; starts end |

`grouping` checks, besides the types:

* `ListSound`: until the list runs off its last group, the heads form one chain
  from the specific block, every head is filled as it must be, and every free
  block is in exactly one place of one head (four conjuncts, by name).
* `MemoryMirrorsDisk`: the copy of the specific block is the one on disk.
* `GivesUpOnlyWhenEmpty`: `new_block` panics or starts over only once the list
  has run off its last group.
* `SparesOwned`: no call of the list writes into a block that a file keeps.
* `PoolSpec`: the list implements `BlockPool`, with the pool made of the listed
  blocks and the heads.

Bounds.  Three groups of three blocks are the least that have a first, a middle
and a last group, heads with one and with two entries, switches from full and
from short heads, and tables that fill up and are pushed behind.  The constraint
`WhileOpen` checks the states in which the list has just run off its last group
and does not go on from them; `grouping_exhausted` does.  The view `LiveView`
leaves out what no call reads while the list is open: entries beyond `s_free`
and blocks that are not heads.  The real list has 128 groups of 64 blocks; the
theorems below hold for those too.

For `memory`, three records are enough for a full table with every kind of
neighbour of a freed block, and nine addresses for two lent blocks between three
free ones; blocks are then lost.  In `memory_nesting` up to nine commands nest,
until memory runs out.  A panic of the allocator halts the machine and nothing
in these two modules starts it again, so they are run without the deadlock check.

For `file_map`, one direct zone and index blocks of two entries reach every
branch of the address computation with six sectors, or eleven for the second
level; the sectors of an index block are its two entries.  Five blocks hold a
file with an index block and a small one, and run out; two inodes run out too,
and the third file is the one without an inode.  In `file_map_two_levels`
one file has two sectors or eleven, the least with a second block of numbers on
the second level, and the other has two (`OneLongFile`).  Each sector of each file
has a word of its own, so a sector that lands in a wrong place is seen.
`new_block` takes the least listed block; which one makes no difference to
files, apart from its number, which `rm` takes for an inode's.  The constraint
`WhileSound` checks the states in which `harm` records something irreparable, or
in which a second block is lost or looks like a group head, and does not go on
from them; `OneLongFile` does not go on from the first lost block or head.

* `OneHand` until then: no block in two places of files, none both in a file
  and in the list, none listed twice, apart from what an `rm` in progress has
  freed.
* `ReadsBack`: a file that `write` has finished reads back, whatever happens to
  other files.
* `NothingLost`: blocks are lost only by a power failure between `new_block`
  and the record of its number or the name of the file, and by `rm` of a file
  with an odd number of sectors or with an index block.
* `NamesInUse`: what the directory names has its bit set, until a file is made
  when no inode is left, or a bit is cleared by mistake.
* `StoreSpec` (run `file_map_two_levels`): FileMap implements `FileStore`. This
  run does not check `ReadsBack` again.  Beyond it, `StoreSpec` covers files
  that are half written or half removed, and says of each single step, a
  `free_block` that is cut short included, which sectors of which file it may
  change.

For `file_tables`, two descriptors below three files and slots let each table
run out while the others do not, and two inodes run out too; the two names
that `setup_fs` has not used are interchangeable (symmetry).  The constraint
`Few` goes on from a state while at most one name is torn, one inode on disk is
a directory and one slot is stale, and none is once the tables are out of step.
Beyond `Lockstep`:

* `SlotsMirrorDisk`: an active inode is the one on disk, though only `close`
  writes it back or drops it.  The exceptions are those that the code makes:
  `rmdir`, and an entry made or removed in a directory that `cat` has opened,
  write the inode past its slot (`stale`); a torn name's number may be given
  again; and the number behind the last inode is everybody's.
* `NamesSound`: a name stands for a live inode of its own, however the tables
  fared, unless a cut `rm` or `rmdir` has cleared it or the numbers have run out.
* `DerailsOnlyWhenFull`: only an `open` without a free descriptor, or of a name
  whose inode was cleared or freed without it, puts the tables out of step.

For `directory`, four entries hold the two dots and two names, so that a removal
shifts an entry and a directory fills up; four inodes make trees of depth three
or of two branches; four blocks run out before the inodes, as one of
them may be lost from the start, or after them, as a power failure may lose an
inode and no block.  One block has the words of a group head in it.
Paths are one or two names, or ".." and a name.  The constraint `WhileSound`
checks the states in which `harm` has happened, or a second inode is lost, and
does not go on from them.

* `TreeSound`: between commands every inode in use but the root has exactly one
  entry, "." and ".." are right, names are there once, and ".." leads out of
  every set of directories without the root, hence to the root.
* `CwdInStep`: between commands the working directory in memory is the inode on
  disk of a live directory.
* `Accounted`: inodes and blocks are in use, free, or lost at the known places.
* `NamesFound`: what a directory has, it finds, but for names of 14 characters.
* `TreeSpec`: Directory implements `NameTree`.  Where `TreeSound` looks at one
  state between commands, this is about every step: a command makes or removes
  the one name it was given, or none, wherever the power fails; the names of
  other directories, and the other names of this one, stay; and every command
  ends in the directory where it began, `cd` in one that it could walk to.
* `CommandsEnd`: a command whose line has one space ends or halts.

For `console`, a line of three characters takes a typed character, a blank and
printed output, is full and is overrun; a screen of one line of two scrolls at
every third character.  Two handlers deep is every pair of a handler and another
in the middle of it; a third would meet the second where the second meets the
first.  The constraint `WithinBuffer` checks the states in which something has
been stored outside the buffer, and does not go on from them.

* `BufferIsTyped`: when no handler runs and no keys have overlapped since the
  line was cleared, and no backspace, the buffer is what was typed, whatever
  happened to earlier lines.
* `OutputStaysOut`: when no handler runs, nothing that was printed is left in the
  line, except by the debug key.
* `HandlersReturn`: if the keys rest, every handler returns.

For `boot`, the numbers of sectors are small and every order of starts, writes
and power failures is explored; the disk at first may have a partition table, a
magic number and a root bit, or not.

* `SoundWhenUp`: a machine that is up has a formatted disk, a root directory and
  the first set-up, unless the power has failed in the window that each of them
  is exposed to; and the first allocation finds the disk that Grouping starts
  from.
* `KeepsFiles`: no start formats the disk, or repeats the set-up, once the user
  has stored something.
* `BootEnds`: every start that the power does not cut ends in the shell or in a
  panic.

Each property has a mutant in `PROJECT.json`, a plausible slip in the code
(definitions named `...Mutant`), under which TLC finds it violated.

Fairness.  Directory, Console and Boot assume `WF_vars(Step)`, where `Step` is
the union of the steps inside a command, a handler or the start: the processor
goes on with what it does.  Nothing is assumed of the user's keys or of the
power.  A handler on the top of the stack is the only code that runs, so weak
fairness of the union is all that the hardware gives.  The calls of the other
modules are whole actions, made by commands; nothing has to happen there by
itself.  Deadlock is checked where the machine can be restarted, which is
everywhere but in Memory.

## 4. The proofs

`GroupingProofs` proves, for every group size from 3 to 65535, every number of
groups, every `JunkWords` and every `FileData` (the assumption
`GroupingAssumption`):

| Theorem | States |
|---|---|
| `TypeCorrect` | `Spec => []TypeOK` |
| `Invariance` | `Spec => []Inv` |
| `ListCorrect` | `Spec => []ListSound` |
| `CopyCorrect` | `Spec => []MemoryMirrorsDisk` |
| `GivesUpCorrect` | `Spec => []GivesUpOnlyWhenEmpty` |
| `OwnedSpared` | `Spec => SparesOwned` |
| `PoolImplemented` | `Spec => PoolSpec` |
| `FullIsForGood` | `Spec => FullStaysFull` |

The argument.  `Inv` is inductive: the types, `ListSound`, `MemoryMirrorsDisk`,
`GivesUpOnlyWhenEmpty`, and one strengthening: before the root directory exists
the specific block is block 1 and no command runs.  Without it the first call of
`new_block`, which resets the number to 1, could cut the list.  `ListSound` is
itself strong enough only because `OneChain` says that no set of heads is cut
off from the specific block, which keeps a switch from losing a group, and that
no head has two predecessors.  There is one lemma for each way in which the disk
changes (`EntryTaken`, `GroupSwitched`, `GroupSwitchCut`, `BlockListed`,
`BlockLinked`, `HeadsUntouched`), one for the formatted disk (`InitFreeList`,
from the arithmetic of groups in `Spans` and `GroupOfBlock`), and `InvStep` has
one step for each action.  The refinement adds `LastOne`: when the specific
block lists only the number 0, it is all that is left of the pool.  Behind the
end of the list, where file data may be read as a head, only one thing is kept:
the copy in memory has the count of block 0 once that is the specific block
(`CountKept`), and `FullIsForGood` needs no more.

`MemoryProofs` proves, for every heap, every length of the table of at least one
record and every set of sizes: `MemoryTypeCorrect`, `TableCorrect`
(`[]TableSound`), `MemoryConserved` (`[]Conserved`), `PromiseKept`
(`Spec => PromiseSpec`).  `Inv` (types, order, conservation) is inductive as it
stands; order alone is not, since only conservation says that a freed block
overlaps no record.  One lemma gives the addresses that each way of changing the
table adds or removes (`Inserted`, `OneJoined` and the like), on sequences only;
`FreeEffect` and its counterpart for `Ri_malloc` put them together.  The
refinement needs that the first fitting record is the lowest fitting run, which
holds because records never touch.

`MemoryNestingProofs` proves `NestedStacked`, `NestedNeverFragmented` and
`NestedAllReturned` for every depth of nesting.  The inductive invariant is
`NestedInv`: the buffers lie one behind the other from the start of the heap and
one record holds all that is behind them (`RestFree`); each `Finish` then merges
with that record, or makes it again.

`BootProofs` proves `BootInvariance`, `BootTypeCorrect`, `UpIsSound`
(`[]SoundWhenUp`) and `FilesKept` (`KeepsFiles`) for every number of inode
sectors, groups and set-up writes.  The invariant says of each place of the
start what has been found there: before the first sector is written nothing is
formatted, at `again` everything is; between the root's bit and its entries the
start is at the steps that write them, or the power has failed there; only a
start that has formatted makes the set-up.  What it needs of the disk is the
order of the writes (`WriteOrder`, `WritesEach`): the superblock first, the
inode bitmap before the inodes, and every sector before the superblock's second
write.

`FileTablesProofs` proves `TablesInvariance`, `TablesTypeCorrect`,
`TablesInLockstep` (`[]Lockstep`), `SlotsCorrect` (`[]SlotsMirrorDisk`),
`NamesCorrect` (`[]NamesSound`) and `DerailsExplained` (`DerailsOnlyWhenFull`)
for every number of descriptors, files, slots, inodes and names, as long as
there are at least as many files and slots as descriptors
(`FileTablesAssumption`).  None of these is inductive alone.  That a removed
inode leaves no copy in a second slot needs `Apart` (no inode is in two slots),
which for a new inode needs that open inodes have their bits set, which comes
from `InodesSound` and from the slots being copies of the disk (`Mirrors`).
Both leave out the number behind the last one and the numbers that are `Loose`:
stale, or a torn name's.  `SlotsPassed` and `SlotsPassNew` say that a command
which writes an inode past the slots disturbs no others than those it adds to
`stale`.  `FilesOwn` (each descriptor has a file of its own, with count 1)
holds out of step too, so that no count goes below 0.  `FoundInStep` is the
heart: in step, the slot that holds an inode is at the index of its descriptor.
`FreesInStep` says that the first free descriptor, file and slot are at one
index, which keeps it so.

`FileMapProofs` proves `FileMapInvariance`, `FileMapTypeCorrect`,
`FileMapOneHand` (`[]OneHand`), `FileMapReadsBack`, `FileMapNothingLost` and
`FileMapNamesInUse` for every number of blocks, inodes and direct zones, every
even number of entries in an index block and every choice that `new_block` may
make among the listed blocks (`FileMapAssumption`).  `OneHand` is not inductive:
it says nothing of the way to a block.  `IInv` says, as long as nothing
irreparable has happened, that all numbers on a way to a sector are 0 or blocks
(`NumbersOK`), that zones beyond the length are 0 (`ZonesOK`, without which a
longer file would find an old number), that two places never have the same block
(`Distinct`), that a listed block is in no file unless the `rm` under way has
just freed it (`ListedFree`, `ReleasedListed`), and that the sectors written so
far are on disk (`WrittenOK`).  `PathShape` and `PathInjective` are about the
address computation: sectors of different blocks have different ways, through
all three ranges of zones.  The hardest step is `WriteAlloc`, since a new index
block brings the words that are in it along: `AllocEffect` says what becomes of
every number of the file when one place gets a block, in a zone or in an entry,
and `HandsStep` that such a change keeps one hand for each block.  For `rm`,
`RmFreeSafe` follows what has been freed, `RmFreeCutSafe` that a `free_block` cut
short touches no block but the one that `rm` was about to give back
(`CurrentChanged`), and `RmClearSafe` that when it ends each block of the file is
listed or lost at a known place.  A file that is made without an inode counts as
harm; up to there the theorems hold with `Beyond` among the numbers.

The same module proves `FileMapStoresFiles` (`Spec => StoreSpec`), one lemma
for each action (`CreatCreates`, `WriteBegins`, `WriteAllocates`, `RmFreeGives`
and so on, and `OtherSteps` for those that the store does not see), put
together in `StoreStep`.  Besides `IInv` it needs that a file without a name is
empty, and one that `rm` is about to unlink too (`EmptyOK`).  A step that does
not touch the numbers and the blocks of a file leaves its sectors alone
(`SectorsKept`), and half a block is one sector and no other (`SectorPut`),
since only the two sectors of a block have the same way (`SameBlock`,
`PathInjective`).  A new block is a sector of the file only when its place is
the end of a way (`LeafPlace`); elsewhere it holds zeros, or the harm `stale`
has happened.

`ConsoleProofs` proves `ConsoleInvariance`, `ConsoleTypeCorrect`, `LineIsTyped`
(`[]BufferIsTyped`) and `PrintedIsCleared` (`[]OutputStaysOut`) for every set of
keys, every size of buffer and screen, every amount of output and every depth of
handlers.  `ConsoleInv` says at which places a handler of each kind can be
(`FramesOK`), that while no keys have overlapped there is one handler at most
and how far it has brought its character (`QuietLine`, `KeyUnderWay`), and that
a printed character in the buffer has a handler below or on top that has yet to
clear it (`OutputCleared`).  `CursorOK` bounds the cursor: a handler scrolls
before it prints, but those that it interrupts print after it without looking
again, so the cursor may stand beyond the screen by one character for each of
them, and a new line from there goes one line further.

`DirectoryProofs` proves `DirectoryInvariance`, `DirectoryTypeCorrect`,
`CwdStaysInStep` (`[]CwdInStep`), `TreeStaysSound` (`[]TreeSound`),
`BlocksAreAccounted` (`[]Accounted`), `NamesAreFoundAgain` (`[]NamesFound`) and
`DirectoryKeepsNames` (`Spec => TreeSpec`) for every number of inodes and
blocks, every size of a directory, every set of names and command lines and
every disk to start from (`DirectoryAssumption`).  The properties speak of the
states between commands; the invariant has to say what the disk looks like
inside one.  An inode that `mkdir` has taken is no member of the tree until the
length of its parent counts its entry (`Pending`), and has no dots for one more
step (`Dotless`); an entry whose inode `rmdir` or `rm` has cleared does not
count, nor does the last slot once the others have moved up (`SlotsOf`).  With
these set apart the rest is a tree in every state (`TreeOK`): each member has
exactly one entry, the dots are right, names differ, and ".." leads out of
every set of directories without the root, which is how "leads to the root" can
be said without recursion.  A tree changes in four ways, each with a lemma
about `TreeOK` alone: an entry is added (`TreeGrown`), the dots are written
(`TreeDotted`), a leaf is removed (`TreePruned`), and the last entry moves up
into the hole (`TreeMovedUp`).  Blocks change hands in four ways too
(`ZoneTaken`, `ZoneDropped`, `ZoneLost`, `ZoneFreed`).  `DotsAreFound`,
`NamesAreFound` and `GetDirFacts` say what the searches return in a sound tree.
Then there is one lemma for each action, put together in `StepSound`;
`CutKeeps` has what all power failures share: the start-up finds the root, and
what was taken and not named is lost.  All of it holds as long as `harm` is
empty, as the properties do.  `DirectoryTypeCorrect` goes one state further, to
the one in which something irreparable has happened: `StepTyped` looks at each
of the nine ways once more.

The refinement uses the same invariant and the same lemmas.  The names are read
off the sectors and the slots that count (`AllNamesFacts`), and each way in which
a tree changes has a second lemma about its names: `NamesGrown`, `NamesPruned`,
`NamesMovedUp`, and `NamesSame` for what does not touch them.  So the lemma for
each action also says that the names stay (`NamesStay`), or which one comes
(`Gains`) or goes (`Loses`).  What is left is to find the abstract step:
`TreeGains` and `TreeLoses` are the two that change names, and `SearchLeads`
says that whatever a search finds in a sound tree is the root, the directory
itself, one of its entries or the directory above, so that a walk only goes to
neighbours.  That a command comes back to where it began needs `cmd.back`, kept
by `CwdOK`.  `Harm` takes over when `harm` is no longer empty, and stays.

Only model-checked:

* Liveness: `CommandsEnd`, `HandlersReturn`, `BootEnds`.
* Nothing is claimed of Directory behind the first harmful state, where the run
  stops too: a command may then work inside a file and read entries beyond a
  sector, and what it finds there is outside the model.
* What the two runs that expect a violation show.

Group sizes below 3 are excluded: with two blocks in a group a chained head
would list nothing but the next head.

## 5. What the code does against its own words

With a run:

* `fs_design.md:5`, the grouped list manages the free blocks: the list names a
  block twice (`file_map_listed_once`).
* `iapp.cc:172`, "root directory CANNOT be removed", and `rm.cc:48`: `rm` looks
  neither at `i_mode` nor at the working directory.  After `mkdir a`, `cd a`,
  `rm .` the copy of the working directory calls itself inode 0, and the next
  `mkdir` writes it over the root (`directory_root_kept`).

The models also have the following, for which there is no run of its own.

* Free list.  `bitmap.cc:173`, "when the next group is 0,there are no free
  block": the next group is 0 all the time while the last group is in use; the
  first `free_block` then halts the machine.  `bitmap.cc:74` counts the specific
  block from 1, but it becomes 0 on disk when the last group is used up.
  `doc/report.md:505` says that all blocks are handed out in the end; the last
  specific block and block 8192 never are.
* Files.  `rm.cc:49`, "free blocks and then free inode": an index block and the
  last block of a file with an odd number of sectors are not freed.  `rm.cc:187`
  frees the inode of the file; `RmTail` clears the bit of another one too when
  the number of an index block is below 4096.  `file.cc:303`, "allocate new data
  block when writing": a new index block is not cleared, and what a group head
  has left in it is taken for block numbers; these blocks are still in the list.
  `file.cc:170` makes sure that no number is 0; after a power failure in `write`
  there is one, and `Read` and `RmPanics` panic at every start.
* Open files.  `touch` and `cat` never close: after ten of them every creation
  and every `open` fails, and the `open` that fails has filled a slot that
  nothing empties.  `cat` of a directory opens it like a file; an `rm` of that
  name then writes the inode back as it was when it was opened.  With no inode
  left `touch` and `mkdir` use number 4096, whose record is the first data block.
* Directories.  The root's `i_mode` is never set, so a walk that meets it by name
  takes it for a file (`iapp.cc:134`).  A name of 14 characters is accepted (`mkdir.cc:26` says "must
  under 14") and not found again once another entry follows it.  `mkdir` takes
  an inode and a block before it sees that the name is there.  `mkdir ..` in the
  root makes an entry of that name.  `cd ..` in the root goes to inode -1.  A
  second space makes a walk endless: `mkdir a b` fills the disk with directories
  called mkdir.  The help's `mkdir /dir1/dir2/dir3` starts at the working
  directory.
* Console.  Backspace leaves the deleted character in the buffer and a blank
  behind it: Enter then runs a line with both, and `mkdir`, `cd` and the like
  halt for an empty name.  Backspace at the prompt takes the index below 0.
  Enter in the middle of a command's output runs the line with the output in it.
  Commands can be typed before `init_hd` and `init_fs` (`kmain.cc:42-56`).
* Boot.  `format_disk` writes the magic number first, and the root's bit is set
  before its inode and block: a power failure in these windows leaves a disk
  that every later start takes for whole.  A first set-up that is cut is never
  completed, since `new_rifs` is only in memory.

## 6. Plan

Done: `Grouping`, `BlockPool`, `Memory`, `Heap`, `MemoryNesting`, `FileMap`,
`FileStore`, `FileTables`, `Directory`, `NameTree`, `Console` and `Boot`, with
runs and proofs of every safety property that the runs check.

Left, in this order:

1. `GroupingIrq`: `new_block` and `free_block` write by write, with nested
   commands; which of the properties of Grouping survive.
2. `IdeDisk`: the registers of a transfer under nested transfers.

## 7. Not modelled

Output (`msg.cc`, `hexdump.cc`), string helpers, descriptor tables
(`gdt_idt.cc`) and stubs hold no state that a property could be about.  The
exact layout of structures on disk is abstracted to their fields.  The interrupt
flag is part of Console; the dispatch of interrupts, exceptions and system calls
is tables.  The disk driver's registers, and commands that nest on the file
system (a second `mkdir` in the middle of the output of the first), are left to
the plan: Directory, FileMap, FileTables and Grouping run one command at a time.
