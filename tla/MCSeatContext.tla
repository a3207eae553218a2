---------------------------- MODULE MCSeatContext ----------------------------
(* A window of two turns or six characters: three short turns reach the     *)
(* first limit alone, a long and a short one the second, and a long turn is *)
(* kept although it is past the second.                                    *)
EXTENDS SeatContext

MCPolicy == [compacts |-> TRUE, window_pairs |-> 2, window_max_chars |-> 6]
==============================================================================
