------------------------------- MODULE MCQueue -------------------------------
(***************************************************************************)
(* Small instances of Queue: programs of a few calls per thread.           *)
(***************************************************************************)
EXTENDS Queue

CONSTANTS p1, p2, c1, c2, v1, v2

Do(op, values, force, tl) == [op |-> op, values |-> values, force |-> force, till |-> tl]
DoAdd(v, tl) == Do("add", <<v>>, FALSE, tl)
DoPop(tl) == Do("pop", <<>>, FALSE, tl)
DoOp(op) == Do(op, <<>>, FALSE, "none")

MCValues == {v1, v2}

Calls(x1, x2, y1, y2) == p1 :> x1 @@ p2 :> x2 @@ c1 :> y1 @@ c2 :> y2

\* Adding against popping, with a till and a close; batches and a stop that
\* comes with one; values sneaked in, forced in, taken at once or left to join;
\* three that pop for one value; a PLEASE_STOP pushed as a value.
AllThreads == {p1, p2, c1, c2}
AllPrograms ==
    {Calls({DoAdd(v1, "none"), DoOp("close")}, {DoAdd(v2, "none")}, {DoPop("none")}, {DoPop("armed")}),
     Calls({Do("extend", <<v1, v2, PleaseStop>>, FALSE, "none")}, {DoAdd(v1, "fired"), DoOp("peek")},
           {DoPop("none")}, {DoOp("pop_one")}),
     Calls({Do("push_all", <<v1, v2>>, FALSE, "none")}, {Do("add", <<v1>>, TRUE, "none")},
           {DoOp("pop_all"), DoOp("stop")}, {Do("join", <<>>, FALSE, "armed")}),
     Calls({DoAdd(v1, "armed")}, {DoPop("none")}, {DoPop("armed")}, {DoPop("armed")}),
     Calls({Do("push", <<PleaseStop>>, FALSE, "none")}, {DoAdd(v2, "none")},
           {DoPop("fired"), DoPop("none")}, {DoOp("pop_one")})}

=============================================================================
