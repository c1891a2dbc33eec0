------------------------------- MODULE MCProcs -------------------------------
(* The process table with a few pids. *)
EXTENDS Procs
==============================================================================
