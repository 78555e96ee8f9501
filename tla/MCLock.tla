------------------------------- MODULE MCLock -------------------------------
(***************************************************************************)
(* Small instance of Lock: three threads that wait and one that does not.  *)
(***************************************************************************)
EXTENDS Lock

CONSTANTS w1, w2, w3, regular

MCThreads == {w1, w2, w3, regular}
MCRegulars == {regular}
=============================================================================
