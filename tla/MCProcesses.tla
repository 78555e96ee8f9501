---------------------------- MODULE MCProcesses ----------------------------
(***************************************************************************)
(* Small instance of Processes: a program that may write one line to its   *)
(* stdout.                                                                 *)
(***************************************************************************)
EXTENDS Processes

MCLines == [stdout |-> 1, stderr |-> 0]
=============================================================================
