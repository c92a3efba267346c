------------------------------ MODULE BlockPool ------------------------------
(***************************************************************************)
(* What the free-space management of the RiOS file system promises to its  *)
(* callers (new_block and free_block of src/src/fs/bitmap.cc), whatever    *)
(* the layout of the groups on disk: a block is handed out only while it   *)
(* is in the pool, it is in no other hand afterwards, and it returns to    *)
(* the pool only from the hand that holds it.                              *)
(*                                                                         *)
(* A crash may lose one pooled block.  When one block is left in the pool  *)
(* (the specific block, which holds the list itself) a further request may *)
(* close the pool for good; a closed pool promises nothing.                *)
(***************************************************************************)
CONSTANTS
  Block,      \* the numbers of the data blocks
  InitFree    \* the blocks that a freshly formatted disk has in the pool

VARIABLES
  free,       \* the blocks in the pool
  owned,      \* the blocks in the hands of inodes
  open        \* FALSE once the pool has been exhausted

vars == <<free, owned, open>>

TypeOK ==
  /\ free \subseteq Block
  /\ owned \subseteq Block
  /\ open \in BOOLEAN

Init ==
  /\ free = InitFree
  /\ owned = {}
  /\ open = TRUE

Alloc(b) ==
  /\ open
  /\ b \in free \ owned
  /\ free' = free \ {b}
  /\ owned' = owned \union {b}
  /\ UNCHANGED open

Free(b) ==
  /\ open
  /\ b \in owned \ free
  /\ free' = free \union {b}
  /\ owned' = owned \ {b}
  /\ UNCHANGED open

(* A power failure in the middle of an allocation. *)
Lose(b) ==
  /\ open
  /\ b \in free
  /\ free' = free \ {b}
  /\ UNCHANGED <<owned, open>>

(* One more request when only the block that holds the list is left. *)
Close ==
  /\ open
  /\ \E b \in Block : free = {b}
  /\ open' = FALSE
  /\ free' = {}
  /\ owned' = {}

Next ==
  \/ \E b \in Block : Alloc(b) \/ Free(b) \/ Lose(b)
  \/ Close

Spec == Init /\ [][Next]_vars
=============================================================================
