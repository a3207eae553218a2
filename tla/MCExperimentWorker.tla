------------------------- MODULE MCExperimentWorker -------------------------
(* A baseline and one experiment that delivers or not, for TLC.            *)
EXTENDS ExperimentWorker

CONSTANTS base, one

TheBaselineAndOne == {base, one}
==============================================================================
