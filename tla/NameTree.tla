------------------------------ MODULE NameTree ------------------------------
(***************************************************************************)
(* What mkdir, touch, rmdir, rm and cd of RiOS (src/src/app/) promise      *)
(* about names, with no sectors, slots or inodes in it: there is a tree of *)
(* names, a command makes or removes one name of the directory it is in,   *)
(* in one step, and a walk goes from a directory to its neighbours and     *)
(* back to where it started.                                               *)
(*                                                                         *)
(* A command may be cut short at any time.  A tree that has been harmed    *)
(* beyond repair promises nothing.                                         *)
(***************************************************************************)

CONSTANTS
  Number,      \* what files and directories are called by
  Root,
  Name,
  Vague        \* the names that a directory may have twice

VARIABLES
  entries,     \* the names: of which directory, and what they stand for
  folders,     \* the directories
  at,          \* where a walk is
  home,        \* the working directory
  sound        \* FALSE once the tree has been harmed

vars == <<entries, folders, at, home, sound>>

TypeOK ==
  /\ entries \subseteq [dir : Number, name : Name, stands : Number]
  /\ folders \subseteq Number
  /\ at \in Number /\ home \in Number
  /\ sound \in BOOLEAN

Init ==
  /\ entries = {}
  /\ folders = {Root}
  /\ at = Root /\ home = Root
  /\ sound = TRUE

EntriesOf(d) == {e \in entries : e.dir = d}
Below(d) == {e.stands : e \in EntriesOf(d)}
Above(i) == {e.dir : e \in {f \in entries : f.stands = i}}

(* A new name stands for what no other name stands for, and a new          *)
(* directory is empty.                                                     *)
New(name, i) ==
  /\ i # Root /\ Above(i) = {} /\ EntriesOf(i) = {}
  /\ at \in folders
  /\ name \notin Vague => \A e \in EntriesOf(at) : e.name # name
  /\ entries' = entries \union {[dir |-> at, name |-> name, stands |-> i]}
  /\ UNCHANGED <<at, home, sound>>

MakeDirectory(name, i) ==
  /\ sound
  /\ New(name, i)
  /\ folders' = folders \union {i}

MakeFile(name, i) ==
  /\ sound /\ at = home
  /\ New(name, i)
  /\ i \notin folders
  /\ UNCHANGED folders

(* What is removed has no names in it.                                     *)
Remove(e) ==
  /\ sound /\ at = home
  /\ e \in EntriesOf(at)
  /\ EntriesOf(e.stands) = {} /\ e.stands # Root
  /\ entries' = entries \ {e}
  /\ folders' = folders \ {e.stands}
  /\ UNCHANGED <<at, home, sound>>

Neighbours == {Root, at} \union Below(at) \union Above(at)

Walk ==
  /\ sound
  /\ at' \in Neighbours
  /\ UNCHANGED <<entries, folders, home, sound>>

(* The working directory is always a directory.                            *)
Arrive ==
  /\ sound
  /\ at' \in Neighbours \intersect folders
  /\ home' = at'
  /\ UNCHANGED <<entries, folders, sound>>

Return ==
  /\ sound
  /\ at' = home
  /\ UNCHANGED <<entries, folders, home, sound>>

(* A power failure leaves the names as they are.                           *)
Interrupt ==
  /\ sound
  /\ at' = Root /\ home' = Root
  /\ UNCHANGED <<entries, folders, sound>>

(* The tree is harmed; nothing is promised of it any more.                 *)
Harm ==
  /\ sound
  /\ sound' = FALSE
  /\ entries' = {} /\ folders' = {}
  /\ at' = Root /\ home' = Root

Next ==
  \/ Walk \/ Arrive \/ Return
  \/ Interrupt
  \/ Harm
  \/ \E e \in entries : Remove(e)
  \/ \E i \in Number, name \in Name : MakeDirectory(name, i) \/ MakeFile(name, i)

Spec == Init /\ [][Next]_vars
=============================================================================
