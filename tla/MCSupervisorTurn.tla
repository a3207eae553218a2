---------------------------- MODULE MCSupervisorTurn ----------------------------
(* A root, a child that may be born, and two lenses.                       *)
EXTENDS SupervisorTurn

CONSTANTS r, c, a, b

MCNode  == {r, c}
MCAbove == [n \in MCNode |-> {r, n}]
MCLens  == {a, b}
================================================================================
