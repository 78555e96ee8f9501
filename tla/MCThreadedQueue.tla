-------------------------- MODULE MCThreadedQueue --------------------------
(***************************************************************************)
(* Small instance of ThreadedQueue: three values and a function.           *)
(***************************************************************************)
EXTENDS ThreadedQueue

CONSTANTS v1, v2, v3, f

MCValues == {v1, v2, v3}
MCFunctions == {f}
=============================================================================
