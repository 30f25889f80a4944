----------------------------- MODULE MCTerminal -----------------------------
(* Bounds of Terminal for TLC. *)
EXTENDS Terminal
=============================================================================
