------------------------------ MODULE MCCommand ------------------------------
(***************************************************************************)
(* A small instance of Command: two lines in a shell that echoes, each to  *)
(* either stream, whose Queue holds one; the first is blank on stderr.     *)
(***************************************************************************)
EXTENDS Command
=============================================================================
