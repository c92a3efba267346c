------------------------------ MODULE MCMemory ------------------------------
(* Small instances of Memory for TLC. *)
EXTENDS Memory

OneToThree == 1 .. 3
=============================================================================
