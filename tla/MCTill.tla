------------------------------- MODULE MCTill -------------------------------
(***************************************************************************)
(* Small instance of Till: two timers, one of which raises when it is      *)
(* activated.                                                              *)
(***************************************************************************)
EXTENDS Till

CONSTANTS x1, bad

MCTimers == {x1, bad}
MCFaulty == {bad}
MCDelays == {1, 2}
=============================================================================
