--------------------------- MODULE MCJobTransport ---------------------------
(* Small instances of JobTransport for TLC. *)
EXTENDS JobTransport

CONSTANTS e1, e2

TwoLocal == [backend |-> "local", work |-> {e1, e2}, faults |-> 1]
OneCondor == [backend |-> "condor", work |-> {e1}, faults |-> 3]
BothRuns == {TwoLocal, OneCondor}
==============================================================================
