------------------------------- MODULE MCLogs -------------------------------
(***************************************************************************)
(* Two goroutines, a log of a few chunks, one fault.                       *)
(***************************************************************************)
EXTENDS Logs
=============================================================================
