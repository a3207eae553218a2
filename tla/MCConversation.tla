----------------------------- MODULE MCConversation -----------------------------
(***************************************************************************)
(* Instances of Conversation for TLC.                                      *)
(***************************************************************************)
EXTENDS Conversation

Size(t, x, w, n, c, k, s) ==
    [tools |-> t, texts |-> x, width |-> w, steps |-> n, clock |-> c, turns |-> k, stops |-> s]

\* Two calls a turn on the records, killed once; one call a turn to the exit;
\* a wall under half an hour;
\* conversations without records, stopped twice; results that quote the marker of
\* the view or hold a line separator.
Small == {Size({"create", "update", "view"}, {"plain"}, 2, 2, "ample", 2, 1),
          Size({"deliver", "abstain", "edit", "review", "executor", "background"}, {"plain"}, 1, 3, "long", 3, 0),
          Size({"look"}, {"plain"}, 1, 2, "brief", 2, 0),
          Size({"look"}, {"plain"}, 2, 2, "ample", 3, 2),
          Size({"look", "view"}, {"plain", "quotes", "splits"}, 1, 3, "ample", 2, 1)}
=================================================================================
