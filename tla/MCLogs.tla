------------------------------- MODULE MCLogs -------------------------------
(* Bounds of Logs for TLC. *)
EXTENDS Logs
=============================================================================
