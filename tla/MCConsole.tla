----------------------------- MODULE MCConsole -----------------------------
(* A small instance of Console for TLC. *)
EXTENDS Console

(* What was stored outside the buffer may have changed anything.           *)
WithinBuffer == ~spilled
=============================================================================
