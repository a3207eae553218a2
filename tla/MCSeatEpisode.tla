---------------------------- MODULE MCSeatEpisode ----------------------------
(* Small instances of SeatEpisode for TLC. *)
EXTENDS SeatEpisode

SomeReplies == {<<"run">>, <<"run", "run", "register">>, <<"work">>, <<"work", "consult">>,
                <<"fresh", "register">>, <<"deliver">>, <<"abstain">>}

SomeOrigins == {[parent |-> FALSE, seeded |-> FALSE], [parent |-> TRUE, seeded |-> FALSE],
                [parent |-> TRUE, seeded |-> TRUE]}
==============================================================================
