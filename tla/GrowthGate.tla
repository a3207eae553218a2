------------------------------- MODULE GrowthGate -------------------------------
(***************************************************************************)
(* The growth gate: evidence of finished work is appended to an event log, *)
(* a supervisor worker is woken on the unconsumed batch, and its judgment  *)
(* - research seats to buy, an integration to request, an integration to   *)
(* review - is validated and committed together with the cursor of the     *)
(* batch, unless evidence arrived in the meantime.                         *)
(*                                                                         *)
(* The work of the gate is named by the head of the batch it was woken on; *)
(* work w is supervisor-<w> and a judgment of it always consumes up to w.  *)
(* Seats and integrations advance as LeaseProtocol and the scheduler's     *)
(* integrator jobs let them; here they are what produces the evidence.     *)
(*                                                                         *)
(* X_Y before a definition X is X with the mistake Y, used by no action.   *)
(***************************************************************************)
EXTENDS Integers, Sequences, FiniteSets

CONSTANTS Node,          \* the worlds a run may grow
          Root,          \* the world it starts from
          Lens,          \* the generator basis
          MaxSeats,      \* SchedulerConfig.max_proposer_inflight
          MaxRetries,    \* supervisor_max_retries
          Backend,       \* "local" (subprocesses) or "condor" (cluster jobs)
          Limits,        \* values max_terminal_evals takes over (re)starts
          Kinds,         \* the kinds of judgment the supervisor may give
          MaxBuys,       \* seats named by one judgment: a bound, not in the code
          MaxEvents,     \* length of the event log: a bound, not in the code
          Faults,        \* the kinds of faults of the environment
          Cost, MaxFaults  \* what a fault of each kind takes of a budget: a bound

DecisionKinds == {"growth", "integration_request", "promote", "retain"}
FaultKinds    == {"die", "ghost", "restart", "crash"}

ASSUME GateAssumption ==
    /\ Root \in Node
    /\ MaxSeats \in Nat /\ MaxRetries \in Nat \ {0}
    /\ MaxBuys \in Nat /\ MaxEvents \in Nat /\ MaxFaults \in Nat
    /\ Backend \in {"local", "condor"}
    /\ Limits \subseteq Nat
    /\ Kinds \subseteq DecisionKinds
    /\ Faults \subseteq FaultKinds

ASSUME CostAssumption == Cost \in [FaultKinds -> Nat \ {0}]

VARIABLES
    \* the run database
    head,       \* the newest supervisor event
    cursor,     \* the last one a judgment has consumed
    attempts,   \* [Work -> Seq(AttemptStatus)] of the gate
    decisions,  \* supervisor_decisions, in the order of their commits, and whether
                \* each takes the answer to the payload handed out last (history)
    stall,      \* the work of the latest supervisor_stalled event, 0 if none
    limit,      \* run_limits.max_terminal_evals
    evals,      \* experiments with a scientific status
    lineage,    \* [Node -> the nodes on its way to the root], {} if unborn
    seat,       \* [Seat -> the state of its lease]
    request,    \* [Work -> status of integration request ir-supervisor-<w>]
    epoch,      \* promotions so far
    base,       \* [Work -> the epoch a request was made in]
    \* the run directory, the backend and the workers
    file,       \* [Work -> its result.json]
    manifest,   \* [Work -> the attempt its payload was minted for, 0 if none]
    ledger,     \* [Work -> attempt of its cluster job, 0 if none]
    workers,    \* live workers, <<work, attempt, minted>>
    config,     \* max_terminal_evals of the configuration
    faults,     \* spent of the budget of faults so far
    \* the scheduler process
    phase,      \* the part of step() that is running, or why it is not
    retry,      \* the works of the reattach_or_wait actions
    capped,     \* _durable_cap_reached
    pc, cur     \* the stage of the gate's handler, and its work

runVars   == <<limit, evals, lineage, seat, request, epoch, base>>
gateVars  == <<head, cursor, attempts, decisions, stall>>
envVars   == <<file, manifest, ledger, workers, config, faults>>
schedVars == <<phase, retry, capped, pc, cur>>
vars      == <<runVars, gateVars, envVars, schedVars>>

--------------------------------------------------------------------------------
(* Data.                                                                   *)

Work    == 1..MaxEvents
Seat    == Node \X Lens
NoLimit == -1
Open    == {"researching", "awaiting", "parked", "accepted", "rejected"}
Pending == {"open", "submitted"}
Silent  == {"abstained", "dormant"}   \* ended, and no event says so
RequestStatus == {"none", "passed", "promoted", "closed"} \cup Pending \cup Silent

AttemptStatus == {"running", "succeeded", "failed", "lost"}

\* A result.json: what was judged, for which seats or request, and the attempt
\* whose payload carried the decision id.
Failed        == [kind |-> "failed", buys |-> {}, on |-> 0]
Growth(buys)  == [kind |-> "growth", buys |-> buys, on |-> 0]
OnRequest(kind, w) == [kind |-> kind, buys |-> {}, on |-> w]

Judgments == {Failed}
    \cup {Growth(b) : b \in {b \in SUBSET Seat : /\ "growth" \in Kinds
                                                 /\ Cardinality(b) <= MaxBuys}}
    \cup {OnRequest("integration_request", 0) : k \in Kinds \cap {"integration_request"}}
    \cup {OnRequest(k, w) : k \in Kinds \cap {"promote", "retain"}, w \in Work}

NoFile == [judgment |-> Failed, minted |-> 0]

Fault(kind) == /\ kind \in Faults
               /\ faults + Cost[kind] <= MaxFaults
               /\ faults' = faults + Cost[kind]

--------------------------------------------------------------------------------
(* What the handlers read.                                                 *)

Running(w)  == \E n \in DOMAIN attempts[w] : attempts[w][n] = "running"
RunningWork == {w \in Work : Running(w)}
Ended(W, status) ==
    [w \in Work |-> IF w \in W
                      THEN [n \in DOMAIN attempts[w] |->
                              IF attempts[w][n] = "running" THEN status ELSE attempts[w][n]]
                      ELSE attempts[w]]
Started(w)  == [attempts EXCEPT ![w] = Append(@, "running")]

Exhausted(w) == Cardinality({n \in DOMAIN attempts[w] :
                    attempts[w][n] \in {"failed", "lost"}}) >= MaxRetries

Unread  == head > cursor
Stalled == Unread /\ stall = head

Nodes         == {n \in Node : lineage[n] # {}}
Related(n, m) == n \in lineage[m] \/ m \in lineage[n]

\* queries.burned_lenses: the lenses bought on a node or above it, open or not.
Burned_OwnOnly(n) == {l \in Lens : seat[<<n, l>>] # "none"}
Burned(n) == {l \in Lens : \E m \in lineage[n] : seat[<<m, l>>] # "none"}
Untried   == \E n \in Nodes : Burned(n) # Lens

Researching == {s \in Seat : seat[s] = "researching"}
Capacity    == MaxSeats - Cardinality(Researching)

WorkInFlight == \/ \E s \in Seat : seat[s] \in Open
                \/ \E w \in Work : request[w] \in Pending

Current(w) == base[w] = epoch

\* _seat_leases: every seat of a judgment is legal, or none is bought.
OneLineEach(buys) == \A s, t \in buys : s # t /\ s[2] = t[2] => ~Related(s[1], t[1])
LegalSeats(buys) == /\ Cardinality(buys) <= Capacity
                    /\ \A s \in buys : s[1] \in Nodes /\ s[2] \notin Burned(s[1])
                    /\ OneLineEach(buys)

\* Checked before the transaction; donors are experiments that made a node.
HonestWait_Trusted(buys) == TRUE
HonestWait(buys) == buys # {} \/ ~Untried \/ WorkInFlight
Valid(j) == \/ /\ j.kind = "growth"
               /\ HonestWait(j.buys)
               /\ LegalSeats(j.buys)
            \/ /\ j.kind = "integration_request"
               /\ Cardinality(Nodes) > 1
            \/ j.kind \in {"promote", "retain"}

\* Checked inside it, once the judgment is known to be fresh.
Committable(w, j) ==
    \/ j.kind = "growth"
    \/ /\ j.kind = "integration_request"
       /\ (\E v \in Work : request[v] = "open") => request[w] = "open"
       /\ request[w] # "none" => Current(w)
    \/ /\ j.kind = "promote"
       /\ request[j.on] = "passed" /\ Current(j.on)
    \/ j.kind = "retain" /\ request[j.on] = "passed"

\* The request of this batch exists already: the same one, or another.
Conflicting(w, j) == j.kind = "integration_request" /\ request[w] # "none"

Committed(w, minted) == \E i \in DOMAIN decisions :
                           decisions[i].work = w /\ decisions[i].minted = minted

--------------------------------------------------------------------------------
Init ==
    /\ head = 0 /\ cursor = 0
    /\ attempts = [w \in Work |-> <<>>]
    /\ decisions = <<>> /\ stall = 0
    /\ config \in Limits \cup {NoLimit} /\ limit = config
    /\ evals = 0
    /\ lineage = [n \in Node |-> IF n = Root THEN {Root} ELSE {}]
    /\ seat = [s \in Seat |-> "none"]
    /\ request = [w \in Work |-> "none"]
    /\ epoch = 0 /\ base = [w \in Work |-> 0]
    /\ file = [w \in Work |-> NoFile]
    /\ manifest = [w \in Work |-> 0]
    /\ ledger = [w \in Work |-> 0]
    /\ workers = {} /\ faults = 0
    /\ phase = "idle" /\ retry = {} /\ capped = FALSE
    /\ pc = "none" /\ cur = 0

--------------------------------------------------------------------------------
(* Evidence.  Every event is written in the transaction of the change it   *)
(* reports; seats and experiments are ingested when a step harvests and    *)
(* when it polls.                                                          *)

InHand(P)  == phase \in P /\ pc = "none"
Harvesting == InHand({"harvest", "poll"})
LimitChanged == config # NoLimit /\ limit # NoLimit /\ limit # config
Wake       == /\ head < MaxEvents - (IF LimitChanged THEN 1 ELSE 0)
              /\ head' = head + 1
Unattended == UNCHANGED <<cursor, attempts, decisions, stall, limit, epoch, base,
                          envVars, schedVars>>

\* A node under p, or no node when all of them are born.
Grown(p) == {[lineage EXCEPT ![c] = lineage[p] \cup {c}] : c \in Node \ Nodes}

SeatDelivers(s) == /\ Harvesting /\ seat[s] = "researching"
                   /\ seat' = [seat EXCEPT ![s] = "awaiting"]
                   /\ UNCHANGED <<head, evals, lineage, request>>
                   /\ Unattended

\* A rejection is written back at once, unless the run is capped: the lease
\* then stays parked.
WrittenBack == IF capped THEN {"parked"} ELSE {"researching", "rejected"}

SeatJudged(s) == /\ Harvesting /\ seat[s] = "awaiting"
                 /\ Wake /\ evals' = evals + 1
                 /\ \/ /\ seat' \in {[seat EXCEPT ![s] = to] : to \in WrittenBack}
                       /\ UNCHANGED lineage
                    \/ /\ seat' = [seat EXCEPT ![s] = "accepted"]
                       /\ lineage' \in Grown(s[1])
                 /\ UNCHANGED request
                 /\ Unattended

SeatCloses(s) == /\ Harvesting /\ seat[s] \in {"researching", "accepted", "rejected"}
                 /\ Wake
                 /\ seat' = [seat EXCEPT ![s] = "closed"]
                 /\ UNCHANGED <<evals, lineage, request>>
                 /\ Unattended

\* _poll_integrators: an abstention and a submission are no evidence.
IntegratorAnswers(w) == /\ InHand({"poll"}) /\ request[w] = "open"
                        /\ request' \in {[request EXCEPT ![w] = a] : a \in {"abstained", "submitted"}}
                        /\ UNCHANGED <<head, evals, lineage, seat>>
                        /\ Unattended

\* enforce_bound: the proposal of a submitted integration overflows the queue and
\* is never run; the request stays submitted, and no work in flight counts it.
IntegrationOverflows(w) == /\ InHand({"poll"}) /\ request[w] = "submitted"
                           /\ request' = [request EXCEPT ![w] = "dormant"]
                           /\ UNCHANGED <<head, evals, lineage, seat>>
                           /\ Unattended

\* The experiment of a submitted integration; _resolve_integration_outcomes
\* closes the request when it is rejected.
IntegrationJudged(w) == /\ Harvesting /\ request[w] = "submitted"
                        /\ Wake /\ evals' = evals + 1
                        /\ \/ /\ request' = [request EXCEPT ![w] = "closed"]
                              /\ UNCHANGED lineage
                           \/ /\ request' = [request EXCEPT ![w] = "passed"]
                              /\ \E p \in Nodes : lineage' \in Grown(p)
                        /\ UNCHANGED seat
                        /\ Unattended

\* The seed world is presented to the gate once.
RootReady == /\ InHand({"harvest"}) /\ head = 0
             /\ Wake
             /\ UNCHANGED <<evals, lineage, seat, request>>
             /\ Unattended

--------------------------------------------------------------------------------
(* Workers.                                                                *)

\* supervisor/cli.py: the decision id is the payload's, the judgment the model's.
WorkerAnswers(w) == \E job \in workers :
    /\ job[1] = w
    /\ workers' = workers \ {job}
    /\ \E j \in Judgments : file' = [file EXCEPT ![w] = [judgment |-> j, minted |-> job[3]]]
    /\ UNCHANGED <<runVars, gateVars, manifest, ledger, config, faults, schedVars>>

WorkerDies(job) == /\ job \in workers /\ Fault("die")
                   /\ workers' = workers \ {job}
                   /\ UNCHANGED <<runVars, gateVars, file, manifest, ledger, config, schedVars>>

--------------------------------------------------------------------------------
(* The handlers' bookkeeping.                                              *)

Goto(s, w) == pc' = s /\ cur' = w /\ UNCHANGED <<phase, retry, capped>>
Enter(p)   == /\ phase' = p
              /\ pc' = "none" /\ cur' = 0
              /\ UNCHANGED <<retry, capped>>
Stop(why)  == /\ phase' = why
              /\ retry' = {} /\ capped' = FALSE
              /\ pc' = "none" /\ cur' = 0

--------------------------------------------------------------------------------
(* Reconciler._reconcile_supervisor: a job held or gone is marked failed.  *)

DeadJob(w) == /\ ledger[w] # 0
              /\ \A job \in workers : ~(job[1] = w /\ job[2] = ledger[w])
Waiting == {w \in RunningWork : file[w] = NoFile}

Reconcile(gone) ==
    /\ InHand({"idle"})
    /\ attempts' = Ended(gone, "failed")
    /\ ledger' = [w \in Work |-> IF w \in gone THEN 0 ELSE ledger[w]]
    /\ phase' = "harvest"
    /\ retry' = Waiting
    /\ UNCHANGED <<runVars, head, cursor, decisions, stall, file, manifest, workers,
                   config, capped, pc, cur>>

ReconcileAll   == Reconcile({w \in Waiting : DeadJob(w)}) /\ UNCHANGED faults
ReconcileSome  == \E gone \in SUBSET {w \in Waiting : DeadJob(w)} :
                     Reconcile(gone) /\ UNCHANGED faults
ReconcileGhost == \E w \in Waiting : /\ ledger[w] # 0 /\ ~DeadJob(w)
                                     /\ Reconcile({w}) /\ Fault("ghost")

--------------------------------------------------------------------------------
(* step(), up to the gate: the limits, the cap, the retries.               *)

\* install_run_limits, where a changed limit is evidence too; then the cap is
\* derived from what is installed now.
InstalledLimit == IF config = NoLimit THEN limit ELSE config

CapOf(l)        == l # NoLimit /\ evals >= l

SyncLimits ==
    /\ InHand({"harvest"}) /\ head > 0
    /\ limit' = InstalledLimit
    /\ IF LimitChanged THEN head < MaxEvents /\ head' = head + 1 ELSE UNCHANGED head
    /\ phase' = "retry" /\ capped' = CapOf(InstalledLimit)
    /\ UNCHANGED <<evals, lineage, seat, request, epoch, base,
                   cursor, attempts, decisions, stall, envVars, retry, pc, cur>>

\* _resubmit_supervisor, for a work that has lost its attempt.
Resubmittable_Beside(w) == ~capped /\ w \in retry
Resubmittable(w) == RunningWork = {} /\ ~capped /\ w \in retry

Retried(w) == retry' = retry \ {w} /\ UNCHANGED <<phase, capped, pc, cur>>

RetrySkipped(w) == /\ InHand({"retry"}) /\ w \in retry
                   /\ ~Resubmittable(w) \/ (~Exhausted(w) /\ manifest[w] = 0)
                   /\ Retried(w)
                   /\ UNCHANGED <<runVars, gateVars, envVars>>

RetryStalls(w) == /\ InHand({"retry"}) /\ Resubmittable(w) /\ Exhausted(w)
                  /\ stall' = w
                  /\ Retried(w)
                  /\ UNCHANGED <<runVars, head, cursor, attempts, decisions, envVars>>

RetryRecords(w) == /\ InHand({"retry"}) /\ Resubmittable(w)
                   /\ ~Exhausted(w) /\ manifest[w] # 0
                   /\ attempts' = Started(w)
                   /\ Goto("resubmit", w)
                   /\ UNCHANGED <<runVars, head, cursor, decisions, stall, envVars>>

Spawn(w, minted) ==
    /\ workers' = workers \cup {<<w, Len(attempts[w]), minted>>}
    /\ ledger' = IF Backend = "condor" THEN [ledger EXCEPT ![w] = Len(attempts[w])] ELSE ledger

\* The payload of the manifest, and with it the decision id, is used again.
Resubmit == /\ pc = "resubmit"
            /\ Spawn(cur, manifest[cur])
            /\ pc' = "none" /\ cur' = 0 /\ retry' = retry \ {cur}
            /\ UNCHANGED <<runVars, gateVars, file, manifest, config, faults, phase, capped>>

--------------------------------------------------------------------------------
(* _run_supervisor_gate.                                                   *)

AtGate      == InHand({"retry"}) /\ retry = {}
Answered(w) == AtGate /\ Running(w) /\ file[w] # NoFile
Judgment(w) == file[w].judgment
Replayed(w) == Committed(w, file[w].minted)
Passed      == Enter("poll")

GateWaits == /\ AtGate
             /\ \E w \in RunningWork : file[w] = NoFile
             /\ Passed
             /\ UNCHANGED <<runVars, gateVars, envVars>>

\* A capped run closes the attempt and drops the judgment.
GateDiscards(w) == /\ Answered(w) /\ capped
                   /\ attempts' = Ended({w}, "succeeded")
                   /\ Goto("archive", w)
                   /\ UNCHANGED <<runVars, head, cursor, decisions, stall, envVars>>

GateRejects(w) ==
    /\ Answered(w) /\ ~capped
    /\ \/ ~Valid(Judgment(w))
       \/ /\ ~Replayed(w) /\ head = w
          /\ ~Committable(w, Judgment(w)) \/ Conflicting(w, Judgment(w))
    /\ attempts' = Ended({w}, "failed")
    /\ Goto("archive", w)
    /\ UNCHANGED <<runVars, head, cursor, decisions, stall, envVars>>

\* Evidence arrived while the supervisor was thinking: nothing is applied.
Stale(w) == head # w

GateFindsStale(w) ==
    /\ Answered(w) /\ ~capped /\ Valid(Judgment(w)) /\ ~Replayed(w) /\ Stale(w)
    /\ attempts' = Ended({w}, "succeeded")
    /\ Goto("archive", w)
    /\ UNCHANGED <<runVars, head, cursor, decisions, stall, envVars>>

\* A committed decision id is a no-op.
GateReplays(w) == /\ Answered(w) /\ ~capped /\ Valid(Judgment(w)) /\ Replayed(w)
                  /\ Goto("mark", w)
                  /\ UNCHANGED <<runVars, gateVars, envVars>>

Consume_Forgotten(w) == UNCHANGED cursor
Consume(w) == cursor' = w

\* What each kind of judgment changes.  A request that exists is left as it is.
Opens(w, j) == j.kind = "integration_request" /\ request[w] = "none"
Apply(w, j) ==
    /\ seat' = [s \in Seat |-> IF s \in j.buys THEN "researching" ELSE seat[s]]
    /\ request' = CASE Opens(w, j)         -> [request EXCEPT ![w] = "open"]
                    [] j.kind = "promote" -> [request EXCEPT ![j.on] = "promoted"]
                    [] j.kind = "retain"  -> [request EXCEPT ![j.on] = "closed"]
                    [] OTHER -> request
    /\ base' = IF Opens(w, j) THEN [base EXCEPT ![w] = epoch] ELSE base
    /\ epoch' = IF j.kind = "promote" THEN epoch + 1 ELSE epoch

\* commit_supervisor_decision: the decision, its effects and the cursor.
GateCommits(w) ==
    LET j == Judgment(w)
    IN /\ Answered(w) /\ ~capped /\ Valid(j) /\ ~Replayed(w) /\ ~Stale(w) /\ Committable(w, j)
       /\ decisions' = Append(decisions, [work   |-> w,
                                          minted |-> file[w].minted,
                                          own    |-> file[w].minted = manifest[w],
                                          buys   |-> j.buys])
       /\ Consume(w)
       /\ Apply(w, j)
       /\ Goto("mark", w)
       /\ UNCHANGED <<limit, evals, lineage, head, attempts, stall, envVars>>

MarkSucceeded == /\ pc = "mark"
                 /\ attempts' = Ended({cur}, "succeeded")
                 /\ Goto("archive", cur)
                 /\ UNCHANGED <<runVars, head, cursor, decisions, stall, envVars>>

Archive == /\ pc = "archive"
           /\ file' = [file EXCEPT ![cur] = NoFile]
           /\ Passed
           /\ UNCHANGED <<runVars, gateVars, manifest, ledger, workers, config, faults>>

\* Nothing to judge, or no judgment wanted.
GateRests == /\ AtGate /\ RunningWork = {}
             /\ capped \/ ~Unread
             /\ Passed
             /\ UNCHANGED <<runVars, gateVars, envVars>>

GateStalls == /\ AtGate /\ RunningWork = {}
              /\ ~capped /\ Unread /\ Exhausted(head)
              /\ stall' = head
              /\ Passed
              /\ UNCHANGED <<runVars, head, cursor, attempts, decisions, envVars>>

GateRecords == /\ AtGate /\ RunningWork = {}
               /\ ~capped /\ Unread /\ ~Exhausted(head)
               /\ attempts' = Started(head)
               /\ Goto("submit", head)
               /\ UNCHANGED <<runVars, head, cursor, decisions, stall, envVars>>

\* A fresh payload with a fresh decision id.
Submit == /\ pc = "submit"
          /\ manifest' = [manifest EXCEPT ![cur] = Len(attempts[cur])]
          /\ Spawn(cur, Len(attempts[cur]))
          /\ Passed
          /\ UNCHANGED <<runVars, gateVars, file, config, faults>>

--------------------------------------------------------------------------------
(* run(): what follows a step.                                             *)

Quiescent_Unread == /\ RunningWork = {} /\ ~WorkInFlight
Quiescent == /\ ~Unread \/ Stalled
             /\ RunningWork = {} /\ ~WorkInFlight

\* Whether workers of seats, experiments and integrations are running is not
\* known here while any of them is unfinished.
EndStep ==
    /\ InHand({"poll"})
    /\ \E othersRun \in IF WorkInFlight THEN BOOLEAN ELSE {FALSE} :
          LET drained == RunningWork = {} /\ ~othersRun
          IN \/ Stalled /\ drained /\ Stop("stalled")
             \/ ~(Stalled /\ drained) /\ capped /\ drained /\ Stop("capped")
             \/ ~((Stalled \/ capped) /\ drained) /\ Quiescent /\ Stop("quiesced")
             \/ ~((Stalled \/ capped) /\ drained) /\ ~Quiescent /\ Enter("idle")
    /\ UNCHANGED <<runVars, gateVars, envVars>>

--------------------------------------------------------------------------------
(* The scheduler process ends and comes back, with its old configuration   *)
(* or another limit.                                                       *)

Alive == phase \notin {"down", "stalled", "capped", "quiesced"}

Interrupt == /\ InHand({"idle"}) /\ Fault("restart") /\ Stop("down")
             /\ UNCHANGED <<runVars, gateVars, file, manifest, ledger, workers, config>>
Crash     == /\ Alive /\ Fault("crash") /\ Stop("down")
             /\ UNCHANGED <<runVars, gateVars, file, manifest, ledger, workers, config>>

Restart ==
    /\ ~Alive
    /\ phase # "down" => Fault("restart")
    /\ phase = "down" => UNCHANGED faults
    /\ phase' = "idle"
    /\ config' \in {config} \cup (IF head < MaxEvents THEN Limits ELSE {})
    /\ attempts' = IF Backend = "local" THEN Ended(Work, "lost") ELSE attempts
    /\ workers' \in IF Backend = "condor" THEN {workers}
                    ELSE IF "ghost" \in Faults THEN SUBSET workers ELSE {{}}
    /\ UNCHANGED <<runVars, head, cursor, decisions, stall, file, manifest, ledger,
                   retry, capped, pc, cur>>

Rest == phase \in {"stalled", "capped", "quiesced"} /\ UNCHANGED vars

--------------------------------------------------------------------------------
Evidence ==
    \/ \E s \in Seat : SeatDelivers(s) \/ SeatJudged(s) \/ SeatCloses(s)
    \/ \E w \in Work : \/ IntegratorAnswers(w) \/ IntegrationOverflows(w)
                       \/ IntegrationJudged(w)

Worker == \/ \E w \in Work : WorkerAnswers(w)
          \/ \E job \in workers : WorkerDies(job)

\* What one pass of run() does by itself.
PassStep ==
    \/ RootReady \/ SyncLimits
    \/ \E w \in Work : RetrySkipped(w) \/ RetryStalls(w) \/ RetryRecords(w)
    \/ Resubmit
    \/ GateWaits \/ GateRests \/ GateStalls \/ GateRecords \/ Submit
    \/ \E w \in Work : \/ GateDiscards(w) \/ GateRejects(w) \/ GateFindsStale(w)
                       \/ GateReplays(w) \/ GateCommits(w)
    \/ MarkSucceeded \/ Archive \/ EndStep

Next == \/ Evidence \/ Worker \/ PassStep
        \/ ReconcileSome \/ ReconcileGhost
        \/ Interrupt \/ Crash \/ Restart \/ Rest

Spec == Init /\ [][Next]_vars

\* The scheduler's loop and the workers keep running, a stopped scheduler is
\* started again, and a dead job is noticed once its grace window is over.
Fairness == /\ WF_vars(PassStep) /\ WF_vars(ReconcileSome) /\ SF_vars(ReconcileAll)
            /\ WF_vars(phase = "down" /\ Restart)
            /\ \A w \in Work : WF_vars(WorkerAnswers(w))

FairSpec == Spec /\ Fairness

--------------------------------------------------------------------------------
TypeOK ==
    /\ head \in 0..MaxEvents /\ cursor \in 0..MaxEvents /\ stall \in 0..MaxEvents
    /\ attempts \in [Work -> Seq(AttemptStatus)]
    /\ decisions \in Seq([work : Work, minted : Nat, own : BOOLEAN, buys : SUBSET Seat])
    /\ limit \in Limits \cup {NoLimit} /\ config \in Limits \cup {NoLimit}
    /\ evals \in Nat /\ epoch \in Nat /\ base \in [Work -> Nat]
    /\ lineage \in [Node -> SUBSET Node]
    /\ seat \in [Seat -> {"none", "closed"} \cup Open]
    /\ request \in [Work -> RequestStatus]
    /\ file \in [Work -> [judgment : Judgments, minted : Nat]]
    /\ manifest \in [Work -> Nat] /\ ledger \in [Work -> Nat]
    /\ workers \subseteq Work \X Nat \X Nat
    /\ faults \in Nat
    /\ phase \in {"idle", "harvest", "retry", "poll",
                  "down", "stalled", "capped", "quiesced"}
    /\ retry \subseteq Work /\ capped \in BOOLEAN
    /\ pc \in {"none", "resubmit", "submit", "mark", "archive"}
    /\ cur \in 0..MaxEvents
    /\ pc # "none" => cur \in Work

\* One supervisor thinks at a time: over all batches at most one attempt of the
\* gate is running, and it is the last of its batch, whichever of the gate, the
\* retries and the restarts started it.
SingleGate ==
    \A v, w \in Work : \A n \in DOMAIN attempts[v] : \A m \in DOMAIN attempts[w] :
        attempts[v][n] = "running" /\ attempts[w][m] = "running" =>
            v = w /\ n = m /\ m = Len(attempts[w])

\* "Retries cannot create duplicate decisions" (tree-growth design, section 10),
\* as far as the code keeps it.  Batches are judged in order, no decision id is
\* committed twice, and of the answers to the payload handed out last for a batch
\* only one is: the commit sets the cursor, and no fresh payload is minted then.
\* A second decision of the same batch takes an answer that is not the attempt's
\* own: the result of one that had ended, which a crash before its archiving left
\* on file or a worker taken for dead wrote, read by its successor.
BatchDecidedOnce ==
    \A i, j \in DOMAIN decisions : i < j =>
        \/ decisions[i].work < decisions[j].work
        \/ /\ decisions[i].work = decisions[j].work
           /\ decisions[i].minted # decisions[j].minted
           /\ ~(decisions[i].own /\ decisions[j].own)

\* The design's sentence as it stands.
NeverTwice == \A i, j \in DOMAIN decisions : i < j => decisions[i].work < decisions[j].work

\* "The lenses of a child's seats are not in its ancestors' set": what a lineage
\* has bought is not bought again on the same node or below it, within a
\* judgment or by a later one.
AskedOnce ==
    \A i, j \in DOMAIN decisions : \A s \in decisions[i].buys, t \in decisions[j].buys :
        i <= j /\ s[2] = t[2] /\ (i = j => s # t) => s[1] \notin lineage[t[1]]

\* No judgment is committed once an evaluation limit is reached, although the
\* cap is derived some phases before the gate reads it.
CapReached == limit # NoLimit /\ evals >= limit
CappedDecidesNothing == [][CapReached => decisions' = decisions]_vars

\* Epochs form a chain: two candidates of the same epoch are never both promoted.
EpochsChain == \A v, w \in Work :
    v # w /\ request[v] = "promoted" /\ request[w] = "promoted" => base[v] # base[w]

\* An attempt the scheduler has recorded but did not live to submit: no cluster
\* job stands for it and no probe ever finds it dead.
Orphaned == /\ Backend = "condor" /\ pc = "none"
            /\ \E w \in RunningWork : file[w] = NoFile /\ ledger[w] # Len(attempts[w])

\* "A crash can never lose the wake": all evidence is judged, unless the gate is
\* visibly stalled on it, the run has reached its limit, or a crash on the
\* cluster orphaned the attempt that was to judge it.
EvidenceJudged == Unread ~> (~Unread \/ Stalled \/ CapReached \/ Orphaned)

\* "quiescence is triggered only when the untried facts are empty": a run rests
\* only when no node has a lens left to buy, or an integration on which a waiting
\* judgment relied was abstained or left dormant, which is no event and wakes nobody.  (A review
\* consumes its batch without that check: Kinds without "promote" and "retain".)
HonestQuiescence ==
    phase = "quiesced" /\ Untried => \E w \in Work : request[w] \in Silent
================================================================================
