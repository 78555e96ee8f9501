------------------------------ MODULE MCThreads ------------------------------
(***************************************************************************)
(* Small instance of Threads, with two programs: a thread of the main      *)
(* thread with a child, both parents calling join, stop or release once;   *)
(* and a chain of three that leaves stopping and joining to the library.   *)
(***************************************************************************)
EXTENDS Threads

CONSTANTS parent, child, grandchild

MCThreads == {parent, child, grandchild}
MCParentOf == parent :> Main @@ child :> parent @@ grandchild :> child

CallsOf(callers) == [t \in Everyone |-> IF t \in callers THEN 1 ELSE 0]
MCPrograms == {[creates |-> {parent, child}, calls |-> CallsOf({Main, parent})],
               [creates |-> MCThreads, calls |-> CallsOf({})]}
=============================================================================
