----------------------------- MODULE MCFileMap -----------------------------
(* Small instances of FileMap for TLC. *)
EXTENDS FileMap

(* The least listed block: which one makes no difference to files. *)
Lowest(S) == {b \in S : \A d \in S : b <= d}

TwoLevels == {2, 11}
OneLevel == {1, 2, 6}

(* Blocks that are in no hand. *)
Lost == {b \in Block : listed[b] = 0} \ UNION {Held(f) : f \in Ino}

(* Blocks that are as a group head was left.                               *)
Heads == {b \in Block : disk[b] = HeadBlock}

(* The states in which something irreparable has happened, or a second     *)
(* block is lost or was a head, are checked, and not gone on from.         *)
WhileSound == Sound /\ Cardinality(Lost) <= 1 /\ Cardinality(Heads) <= 1

(* But an rm of a file with two levels goes on to its end. *)
LongRm == "twice" \in harm /\ call.step # "none"
WhileSoundOrTwice == WhileSound \/ LongRm

(* Only the first file grows; no block is lost or was a head. *)
OneLongFile ==
  /\ LongRm \/ (WhileSound /\ Lost = {} /\ Heads = {})
  /\ i_size[2] <= SECTOR_PER_BLOCK
=============================================================================
