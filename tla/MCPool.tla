------------------------------- MODULE MCPool -------------------------------
(***************************************************************************)
(* Small instance of Pool: two workers and three tasks.  The first makes   *)
(* the third, the first and the second join it, and the second may find no *)
(* thread.                                                                 *)
(***************************************************************************)
EXTENDS Pool, TLC

CONSTANTS w1, w2, first, second, third

MCWorkers == {w1, w2}
MCTasks == {first, second, third}
MCRunBy == [t \in MCTasks |-> IF t = third THEN first ELSE Owner]
MCWaitsFor == [t \in MCTasks |-> IF t = third THEN NoTask ELSE third]
MCUnstartable == {second}
=============================================================================
