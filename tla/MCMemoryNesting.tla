-------------------------- MODULE MCMemoryNesting --------------------------
(* Small instances of MemoryNesting for TLC. *)
EXTENDS MemoryNesting

OneToThree == 1 .. 3
=============================================================================
