---------------------------- MODULE MCCombinators ----------------------------
(***************************************************************************)
(* Small instance of Combinators: two threads activate three inputs while  *)
(* a third evaluates an expression of one or two combinations.             *)
(***************************************************************************)
EXTENDS Combinators, TLC

CONSTANTS b, t1, t2, x, y, z, o1, o2

MCTriggers == {t1, t2}
MCInputs == {x, y, z}
MCOutputs == {o1, o2}

Of(out, op, left, right) == [out |-> out, op |-> op, left |-> left, right |-> right]

\* Two inputs and one, the operands that are not signals, and nestings.
MCExpressions ==
    {<<Of(o1, op, x, r)>> : op \in {"or", "and"}, r \in {Null, True, False}} \cup
    {<<Of(o1, op, x, y)>> : op \in {"or", "and"}} \cup {<<Of(o1, op, x, x)>> : op \in {"or", "and"}}
    \cup {<<Of(o1, op, x, r), Of(o2, op2, o1, y)>> :
            op \in {"or", "and"}, op2 \in {"or", "and"}, r \in {Null, True, False, z}}
    \cup {<<Of(o1, "or", x, y), Of(o2, op, z, o1)>> : op \in {"or", "and"}}

\* An input with a combination that was made on the way.
NestedExpressions == {<<Of(o1, "or", x, y), Of(o2, "and", o1, z)>>}
=============================================================================
