--------------------------- MODULE MCLeaseLifecycle ---------------------------
(***************************************************************************)
(* LeaseLifecycle for TLC; the configuration names the one lease.          *)
(***************************************************************************)
EXTENDS LeaseLifecycle

CONSTANT l1   \* a lease
OneLease == {l1}
================================================================================
