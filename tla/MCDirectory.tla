---------------------------- MODULE MCDirectory ----------------------------
(* A small instance of Directory for TLC. *)
EXTENDS Directory

CONSTANTS full, long

a == "mkdir"

Names == {a, full, long}
Paths == {<<a>>, <<a, full>>, <<"..", long>>}
Typed == {[path |-> p, endless |-> FALSE] : p \in Paths}
           \union {[path |-> <<a>>, endless |-> TRUE]}

(* What no command repairs is checked when it has happened; TLC does not   *)
(* go on from there.                                                       *)
WhileSound == harm = {} /\ Cardinality(lost.ino) <= 1

(* Of what is irreparable, only the rm of a directory.                     *)
OnlyRm == harm \subseteq {"rm"}
=============================================================================
