------------------------------ MODULE MCPython ------------------------------
(***************************************************************************)
(* Small instance of Python: one caller with two commands, of which the    *)
(* first may raise, and a second caller whose command does anything.       *)
(***************************************************************************)
EXTENDS Python

CONSTANTS c1, c2

MCCallers == {c1, c2}
MCPrograms == {[c \in MCCallers |-> IF c = c1 THEN <<k, "works">> ELSE <<m>>] :
                  k \in {"works", "fails"}, m \in AllKinds}
=============================================================================
