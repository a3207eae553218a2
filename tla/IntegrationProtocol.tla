------------------------- MODULE IntegrationProtocol -------------------------
(***************************************************************************)
(* What integration promises the growth of the tree: at most one request   *)
(* is being answered at a time, a submitted answer stands until its        *)
(* candidate has been measured, a refused candidate closes its request,    *)
(* and an epoch is promoted from a passed candidate that was asked for in  *)
(* the very epoch it replaces.  Attempts, proposals, result files, the     *)
(* executor queue and crashes do not appear; Integration is shown to       *)
(* implement this.                                                         *)
(***************************************************************************)
EXTENDS Naturals

CONSTANT Request

VARIABLES request,  \* [Request -> Statuses]
          base,     \* [Request -> Nat]: the epoch it was opened in
          epoch,    \* the current epoch
          verdict   \* [Request -> Verdicts]: what its candidate measured

vars == <<request, base, epoch, verdict>>

Statuses == {"none", "open", "abstained", "submitted", "closed", "promoted"}
Verdicts == {"none", "passed", "rejected"}

Init == /\ request = [r \in Request |-> "none"]
        /\ base = [r \in Request |-> 0]
        /\ epoch = 0
        /\ verdict = [r \in Request |-> "none"]

Move(r, from, to) == /\ request[r] = from
                     /\ request' = [request EXCEPT ![r] = to]

Open(r) == /\ \A s \in Request : request[s] # "open"
           /\ Move(r, "none", "open")
           /\ base' = [base EXCEPT ![r] = epoch]
           /\ UNCHANGED <<epoch, verdict>>

Answer(r) == /\ Move(r, "open", "abstained") \/ Move(r, "open", "submitted")
             /\ UNCHANGED <<base, epoch, verdict>>

\* A late infrastructure failure may send a measured candidate back.
Measure(r) == /\ request[r] \notin {"none", "open", "abstained"}
              /\ \E v \in Verdicts : verdict' = [verdict EXCEPT ![r] = v]
              /\ UNCHANGED <<request, base, epoch>>

\* Closed by the scheduler when it was refused, by the gate when it was not.
Close(r) == /\ verdict[r] # "none"
            /\ Move(r, "submitted", "closed")
            /\ UNCHANGED <<base, epoch, verdict>>

Promote(r) == /\ verdict[r] = "passed"
              /\ base[r] = epoch
              /\ Move(r, "submitted", "promoted")
              /\ epoch' = epoch + 1
              /\ UNCHANGED <<base, verdict>>

Next == \E r \in Request : \/ Open(r) \/ Answer(r) \/ Measure(r)
                           \/ Close(r) \/ Promote(r)

Spec == Init /\ [][Next]_vars
================================================================================
