----------------------------- MODULE MCEngagements -----------------------------
(***************************************************************************)
(* Instances of Engagements for TLC.                                       *)
(***************************************************************************)
EXTENDS Engagements

\* One call a turn: two launches; a launch, a continuation and a stop; a launch
\* and two continuations.  Two calls a turn: one launch and a stop.
Size(c, l, r, s) ==
    [calls |-> c, launches |-> l, resumes |-> r, stops |-> s]
SmallRuns == {Size(1, 2, 0, 0), Size(1, 1, 1, 1), Size(1, 1, 2, 0), Size(2, 1, 0, 1)}
================================================================================
