------------------------------ MODULE MCExecs -------------------------------
(* Bounds of Execs for TLC. *)
EXTENDS Execs
=============================================================================
