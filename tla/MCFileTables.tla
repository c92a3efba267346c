---------------------------- MODULE MCFileTables ----------------------------
(* A small instance of FileTables for TLC. *)
EXTENDS FileTables, TLC

CONSTANTS jane, a, b

Names == {jane, a, b}
OneText == {jane}
Symmetry == Permutations({a, b})

(* At most one name is left behind by a power failure, one inode on disk   *)
(* is a directory, and one open inode has been changed behind its slot;    *)
(* no longer once the tables are out of step.                              *)
Few ==
  /\ Cardinality(torn) <= 1
  /\ Cardinality({i \in Ino : inode[i].i_size \in DirSize}) <= 1
  /\ Cardinality(stale) <= 1
  /\ derailed => stale = {}
=============================================================================
