------------------------------ MODULE FileStore ------------------------------
(***************************************************************************)
(* What write and rm of the RiOS file system (src/src/fs/file.cc,          *)
(* src/src/app/rm.cc) promise about the contents of files, with no blocks, *)
(* zones or inodes in it: a file is its sectors, a command works on one    *)
(* file and no sector of any other changes, a file that was written to its *)
(* end holds what was written, and only what has been emptied loses its    *)
(* name.                                                                   *)
(*                                                                         *)
(* A command may be cut short at any time.  A store that has been harmed   *)
(* beyond repair promises nothing.                                         *)
(***************************************************************************)
EXTENDS Naturals

CONSTANTS
  File,
  Hole,        \* the contents of a sector that has no place on the disk yet
  Text(_, _),  \* what write puts into a sector of a file
  Blank(_)     \* what rm puts into a sector

VARIABLES
  names,       \* the files that have a name
  store,       \* the sectors of each file
  intact,      \* the files that were written to their end
  writing,     \* the file that write is working on, if any
  removing,    \* the file that rm is working on, if any
  sound        \* FALSE once the store has been harmed

vars == <<names, store, intact, writing, removing, sound>>

Empty == <<>>
Nothing == [f \in File |-> Empty]
Sectors(f) == DOMAIN store[f]

TypeOK ==
  /\ names \subseteq File /\ intact \subseteq File
  /\ writing \subseteq File /\ removing \subseteq File
  /\ DOMAIN store = File
  /\ sound \in BOOLEAN

Init ==
  /\ names = {} /\ intact = {} /\ writing = {} /\ removing = {}
  /\ store = Nothing
  /\ sound = TRUE

Idle == sound /\ writing = {} /\ removing = {}

(* No other file changes. *)
OnlyChanges(f) == store' = [store EXCEPT ![f] = store'[f]]

(* A new file has two sectors of whatever its first block holds. *)
Create(f) ==
  /\ Idle
  /\ f \notin names /\ store[f] = Empty
  /\ OnlyChanges(f)
  /\ Sectors(f)' = {0, 1} /\ \A i \in {0, 1} : store'[f][i] # Hole
  /\ names' = names \union {f}
  /\ intact' = intact \ {f}
  /\ UNCHANGED <<writing, removing, sound>>

(* One that is made and not named: never seen again. *)
CreateCut(f) ==
  /\ Idle
  /\ f \notin names /\ store[f] = Empty
  /\ OnlyChanges(f)
  /\ intact' = intact \ {f}
  /\ UNCHANGED <<names, writing, removing, sound>>

(* A file that is written anew gets its length; what is longer is holes. *)
BeginWrite(f) ==
  /\ Idle
  /\ f \in names \ intact
  /\ OnlyChanges(f)
  /\ \A i \in Sectors(f)' :
       store'[f][i] = IF i \in Sectors(f) THEN store[f][i] ELSE Hole
  /\ writing' = {f}
  /\ UNCHANGED <<names, intact, removing, sound>>

(* A hole, and the other one in the same block, get whatever the new block *)
(* holds.                                                                  *)
Allocate(f) ==
  /\ sound /\ f \in writing
  /\ OnlyChanges(f)
  /\ Sectors(f)' = Sectors(f)
  /\ \E i \in Sectors(f) : \A j \in Sectors(f) :
       IF j \div 2 = i \div 2 THEN store[f][j] = Hole /\ store'[f][j] # Hole
       ELSE store'[f][j] = store[f][j]
  /\ UNCHANGED <<names, intact, writing, removing, sound>>

Write(f, i) ==
  /\ sound /\ f \in writing
  /\ i \in Sectors(f) /\ store[f][i] # Hole
  /\ store' = [store EXCEPT ![f][i] = Text(f, i)]
  /\ UNCHANGED <<names, intact, writing, removing, sound>>

EndWrite(f) ==
  /\ sound /\ f \in writing
  /\ \A i \in Sectors(f) : store[f][i] = Text(f, i)
  /\ intact' = intact \union {f}
  /\ writing' = {}
  /\ UNCHANGED <<names, store, removing, sound>>

BeginRemove(f) ==
  /\ Idle
  /\ f \in names
  /\ intact' = intact \ {f}
  /\ removing' = {f}
  /\ UNCHANGED <<names, store, writing, sound>>

Erase(f, i) ==
  /\ sound /\ f \in removing
  /\ i \in Sectors(f) /\ store[f][i] # Hole
  /\ store' = [store EXCEPT ![f][i] = Blank(i)]
  /\ UNCHANGED <<names, intact, writing, removing, sound>>

(* The space of a sector, and of the other one in its block, is given back *)
(* and holds whatever it is used for; the command may end there.           *)
GiveBack(f) ==
  /\ sound /\ f \in removing
  /\ OnlyChanges(f)
  /\ Sectors(f)' = Sectors(f)
  /\ \E i \in Sectors(f) : \A j \in Sectors(f) :
       IF j \div 2 = i \div 2 THEN store[f][j] # Hole /\ store'[f][j] # Hole
       ELSE store'[f][j] = store[f][j]
  /\ removing' \in {removing, {}}
  /\ UNCHANGED <<names, intact, writing, sound>>

Clear(f) ==
  /\ sound /\ f \in removing
  /\ store' = [store EXCEPT ![f] = Empty]
  /\ UNCHANGED <<names, intact, writing, removing, sound>>

Unlink(f) ==
  /\ sound /\ f \in removing
  /\ store[f] = Empty
  /\ names' = names \ {f}
  /\ removing' = {}
  /\ UNCHANGED <<store, intact, writing, sound>>

(* A power failure: what is on disk stays as it is. *)
Interrupt ==
  /\ sound
  /\ writing' = {} /\ removing' = {}
  /\ UNCHANGED <<names, store, intact, sound>>

(* The store is harmed; nothing is promised of it any more. *)
Harm ==
  /\ sound
  /\ sound' = FALSE
  /\ names' = {} /\ intact' = {} /\ writing' = {} /\ removing' = {}
  /\ store' = Nothing

Next ==
  \/ \E f \in File :
       \/ Create(f) \/ CreateCut(f)
       \/ BeginWrite(f) \/ Allocate(f) \/ EndWrite(f)
       \/ BeginRemove(f) \/ GiveBack(f) \/ Clear(f) \/ Unlink(f)
       \/ \E i \in Sectors(f) : Write(f, i) \/ Erase(f, i)
  \/ Interrupt
  \/ Harm

Spec == Init /\ [][Next]_vars
=============================================================================
