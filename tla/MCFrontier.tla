----------------------------- MODULE MCFrontier -----------------------------
(* A tree of three worlds measured on two axes. *)
EXTENDS Frontier

CONSTANTS r, w1, w2

TwoAxes == {"time", "quality"}
TimeIsLower == {"time"}
TwoValues == {1, 2}
TheSeed == r
TwoWorlds == {w1, w2}
Ids(n) == CASE n = w1 -> 1 [] n = r -> 2 [] OTHER -> 3
BothPolicies == {"gepa", "topk"}
============================================================================
