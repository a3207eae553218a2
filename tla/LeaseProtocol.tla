----------------------------- MODULE LeaseProtocol -----------------------------
(***************************************************************************)
(* What the lease of the complete-research contract promises, seen from    *)
(* outside the scheduler: a seat is bought, it exits once (deliver,        *)
(* abstain, cut_off), every delivery is judged by exactly one adjudication *)
(* experiment, and a rejected delivery either goes back to its author or   *)
(* closes the lease.  Attempts, result files, worker processes, steps and  *)
(* crashes do not appear; LeaseLifecycle is shown to implement this.       *)
(***************************************************************************)
EXTENDS Naturals

CONSTANTS Lease,        \* the leases a run may buy
          MaxReopens    \* SchedulerConfig.max_lease_reopens

VARIABLES state,        \* proposer_allocations.state
          reopens,      \* proposer_allocations.reopen_count
          verdict       \* experiments.status of each delivery <<lease, index>>

vars == <<state, reopens, verdict>>

Delivery == Lease \X (1..MaxReopens + 1)

Exits    == {"abstain", "cut_off"}
Verdicts == {"completed", "gate_rejected"}
Concluded == {"concluded_delivered", "concluded_abstain",
              "concluded_cut_off", "concluded_rejected"}
States == {"unallocated", "researching", "awaiting_adjudication", "reopen"}
            \cup Concluded

(* The delivery a lease is working towards, or waits for.                  *)
Current(l) == <<l, reopens[l] + 1>>

Init == /\ state = [l \in Lease |-> "unallocated"]
        /\ reopens = [l \in Lease |-> 0]
        /\ verdict = [d \in Delivery |-> "none"]

Buy(l) == /\ state[l] = "unallocated"
          /\ state' = [state EXCEPT ![l] = "researching"]
          /\ UNCHANGED <<reopens, verdict>>

(* A seat that exits without a world, or that cannot exit properly.        *)
Exit(l) == /\ state[l] \in {"researching", "reopen"}
           /\ state' \in {[state EXCEPT ![l] = "concluded_abstain"],
                          [state EXCEPT ![l] = "concluded_cut_off"]}
           /\ UNCHANGED <<reopens, verdict>>

(* Delivering mints the adjudication experiment of the next index.         *)
Deliver(l) == /\ state[l] \in {"researching", "reopen"}
              /\ verdict[Current(l)] = "none"
              /\ state' = [state EXCEPT ![l] = "awaiting_adjudication"]
              /\ verdict' = [verdict EXCEPT ![Current(l)] = "open"]
              /\ UNCHANGED reopens

(* The experiment of the delivery in hand reaches its scientific status.   *)
Judge(l) == /\ state[l] = "awaiting_adjudication"
            /\ verdict[Current(l)] = "open"
            /\ verdict' \in {[verdict EXCEPT ![Current(l)] = v] : v \in Verdicts}
            /\ UNCHANGED <<state, reopens>>

(* The verdict is written back to the lease.                               *)
Accept(l) == /\ state[l] = "awaiting_adjudication"
             /\ verdict[Current(l)] = "completed"
             /\ state' = [state EXCEPT ![l] = "concluded_delivered"]
             /\ UNCHANGED <<reopens, verdict>>

SendBack(l) == /\ state[l] = "awaiting_adjudication"
               /\ verdict[Current(l)] = "gate_rejected"
               /\ reopens[l] < MaxReopens
               /\ state' = [state EXCEPT ![l] = "reopen"]
               /\ reopens' = [reopens EXCEPT ![l] = @ + 1]
               /\ UNCHANGED verdict

CloseRejected(l) ==
    /\ state[l] = "awaiting_adjudication"
    /\ verdict[Current(l)] = "gate_rejected"
    /\ \/ state' = [state EXCEPT ![l] = "concluded_cut_off"]
       \/ /\ reopens[l] = MaxReopens
          /\ state' = [state EXCEPT ![l] = "concluded_rejected"]
    /\ UNCHANGED <<reopens, verdict>>

Reactivate(l) == /\ state[l] = "reopen"
                 /\ state' = [state EXCEPT ![l] = "researching"]
                 /\ UNCHANGED <<reopens, verdict>>

LeaseStep(l) == \/ Buy(l)    \/ Exit(l)     \/ Deliver(l)       \/ Judge(l)
                \/ Accept(l) \/ SendBack(l) \/ CloseRejected(l) \/ Reactivate(l)

Next == \E l \in Lease : LeaseStep(l)

Spec == Init /\ [][Next]_vars
================================================================================
