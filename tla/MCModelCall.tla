---------------------------- MODULE MCModelCall ----------------------------
(***************************************************************************)
(* ModelCall with two parallel tool calls, one argument piece each for the *)
(* second and two for the first, or none.                                  *)
(***************************************************************************)
EXTENDS ModelCall, TLC

AllTransports == {"sdk", "stdlib", "anthropic"}
TwoCalls == {0, 1}
TwoAndOne == 0 :> 2 @@ 1 :> 1

============================================================================
