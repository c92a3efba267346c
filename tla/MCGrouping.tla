----------------------------- MODULE MCGrouping -----------------------------
(* Small instances of Grouping for TLC. *)
EXTENDS Grouping

(* File data that reads as a head listing block 1 three times, *)
(* and as one with an s_free beyond its array.                 *)
PlausibleData ==
  {[s_free |-> BLKS_PER_GROUP, s_free_blk_nr |-> [j \in Slot |-> 1]]}
OversizedData ==
  {[s_free |-> 2 * BLKS_PER_GROUP, s_free_blk_nr |-> [j \in Slot |-> 0]]}

(* Bound: states after the list has run off its last group are checked but *)
(* not explored further; run grouping_exhausted explores them.             *)
WhileOpen == open

(* While the list is open no call reads an entry beyond s_free or a block   *)
(* that is not a head, so states that differ only there are explored once. *)
LiveHead(h) ==
  [s_free |-> h.s_free,
   entries |-> {<<j, h.s_free_blk_nr[j]>> : j \in {i \in Slot : i < h.s_free}}]
LiveView ==
  <<[h \in Heads |-> LiveHead(disk[h])], LiveHead(specific_block),
    s_specific_blk_nr, is_specific_block_set, root_bit, power, role, open>>

AnyJunk == {0, 3}
=============================================================================
