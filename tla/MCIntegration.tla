---------------------------- MODULE MCIntegration ----------------------------
(***************************************************************************)
(* Instances of Integration for TLC.                                       *)
(***************************************************************************)
EXTENDS Integration, TLC

\* A local worker that vanishes is only noticed by a restart, which takes every
\* local worker for dead.
EitherBackend == [local  |-> {"fail", "torn", "crash", "ghost", "cap"},
                  condor |-> {"fail", "torn", "die", "ghost", "crash", "cap"}]
==============================================================================
