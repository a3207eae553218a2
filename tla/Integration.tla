----------------------------- MODULE Integration -----------------------------
(***************************************************************************)
(* An integration request from the judgment that opens it to the epoch it  *)
(* may become: the temporary Integrator that answers it, the queued        *)
(* proposal its answer publishes, the experiment the executor queue makes  *)
(* of the proposal, and the review of the candidate (loop.py, queue.py,    *)
(* store.py).                                                              *)
(*                                                                         *)
(* A unit of work is <<r, "integrator">> or <<r, "experiment">>: an        *)
(* experiment is named by the request whose proposal it runs, since a      *)
(* request publishes one proposal and a proposal is drained once.  One     *)
(* action is one transaction, one spawned worker or one file rename;       *)
(* stage says how far the handler in hand has come, so a crash can fall    *)
(* between any two of them.                                                *)
(*                                                                         *)
(* X_Y before a definition X is X with the mistake Y: no action uses it,   *)
(* it only serves to show which property would notice the mistake.         *)
(***************************************************************************)
EXTENDS Integers, Sequences, FiniteSets

CONSTANTS Request,    \* the requests the gate may open
          QueueSize,  \* QueueConfig.max_size
          MaxExps,    \* SchedulerConfig.max_experiment_inflight
          MaxOthers,  \* adjudications that may run besides: a bound
          Faults,     \* [backend of a run -> the kinds of fault it may meet]
          MaxFaults   \* how many of them: a bound, not in the code

FaultKinds == {"fail",   \* a worker reports a failure, or an unusable answer
               "torn",   \* the result.json of an experiment that cannot be read
              "die",    \* a worker disappears without a result
               "ghost",  \* a worker presumed dead is alive
               "crash",  \* the scheduler stops anywhere in a step
               "cap"}    \* the durable run limit is reached

IntegrationConstants ==
    /\ QueueSize \in Nat /\ MaxExps \in Nat /\ MaxOthers \in Nat
    /\ MaxFaults \in Nat
    /\ DOMAIN Faults \subseteq {"local", "condor"}
    /\ \A b \in DOMAIN Faults : Faults[b] \subseteq FaultKinds

ASSUME IntegrationConfig == IntegrationConstants

VARIABLES
    \* the run database
    request,     \* [Request -> integration_requests.status, "none" before it]
    base,        \* [Request -> Nat]: its epoch_id
    epoch,       \* how many epochs have been promoted
    proposal,    \* [Request -> status of its proposal]
    published,   \* Seq(Request): the proposals in created_at order
    experiment,  \* [Request -> status of the experiment of its proposal]
    linked,      \* the requests whose experiment_id is set
    inFlight,    \* the work that has a running attempt
    \* the run directory, the backend and the worker processes
    backend,     \* the job backend of the run
    file,        \* [Work -> its result.json]
    ledger,      \* the work with a job on the cluster ledger
    workers,     \* [Work -> Nat]: live worker processes
    faults,      \* faults so far
    \* the scheduler process
    phase,       \* the part of step() that is running
    todo,        \* the work the phase has still to look at
    retry,       \* the reattach_or_wait actions kept for the retry phase
    capped,      \* _durable_cap_reached
    stage,       \* the stage of the handler in hand
    cur          \* the work it handles

requestVars == <<request, base, epoch>>
workVars    == <<proposal, published, experiment, linked>>
envVars     == <<backend, file, ledger, workers, faults>>
schedVars   == <<phase, todo, retry, capped, stage, cur>>
integrationVars ==
    <<requestVars, workVars, inFlight, envVars, schedVars>>

--------------------------------------------------------------------------------
Integrator(r) == <<r, "integrator">>
Experiment(r) == <<r, "experiment">>
Integrators   == {Integrator(r) : r \in Request}
Experiments   == {Experiment(r) : r \in Request}
Work          == Integrators \cup Experiments

Statuses  == {"none", "open", "abstained", "submitted", "closed", "promoted"}
Proposals == {"none", "queued", "running", "overflowed_dormant"}
\* Pending and running are one status, "open": only the absence of a running
\* attempt is ever acted upon.  gate_rejected and no_change are "rejected".
Results   == {"none", "open", "passed", "rejected"}
Answers   == {"abstained", "submitted"}
Outcomes  == {"passed", "rejected"}
Says(w)   == IF w \in Integrators THEN Answers ELSE Outcomes
NoWork    == <<>>

Verdict   == [r \in Request |->
                IF r \in linked /\ experiment[r] \in Outcomes
                  THEN experiment[r] ELSE "none"]
Protocol  == INSTANCE IntegrationProtocol
                WITH Request <- Request, request <- request, base <- base,
                     epoch <- epoch, verdict <- Verdict

Ready(w)  == file[w] # "none"
Capacity(others) == MaxExps - others - Cardinality(inFlight \cap Experiments)

InHand(p)  == phase = p /\ stage = "none"
Take(p, w) == InHand(p) /\ w \in todo
Goto(s, w) == stage' = s /\ cur' = w /\ UNCHANGED <<phase, todo, retry, capped>>
Done(w)    == /\ stage' = "none" /\ cur' = NoWork
              /\ todo' = todo \ {w}
              /\ UNCHANGED <<phase, retry, capped>>

\* step() leaves no volatile state behind when its process ends.
Stop == /\ phase' = "down" /\ todo' = {} /\ retry' = {} /\ capped' = FALSE
        /\ stage' = "none" /\ cur' = NoWork

IntegrationInit ==
    /\ request = [r \in Request |-> "none"] /\ base = [r \in Request |-> 0]
    /\ epoch = 0
    /\ proposal = [r \in Request |-> "none"] /\ published = <<>>
    /\ experiment = [r \in Request |-> "none"] /\ linked = {}
    /\ inFlight = {}
    /\ backend \in DOMAIN Faults
    /\ file = [w \in Work |-> "none"] /\ ledger = {} /\ workers = [w \in Work |-> 0]
    /\ faults = 0
    /\ phase = "idle" /\ todo = {} /\ retry = {} /\ capped = FALSE
    /\ stage = "none" /\ cur = NoWork

--------------------------------------------------------------------------------
(* Workers, and the rest of the run.                                       *)

Fault(kind) == kind \in Faults[backend] /\ faults < MaxFaults /\ faults' = faults + 1

\* Every worker writes its result atomically at the fixed path of its work,
\* over whatever is there; a step budget that runs out is an abstention.  What
\* cannot be read is a failure of an Integrator, but not of an experiment.
WorkerEnds(w) ==
    /\ workers[w] > 0
    /\ workers' = [workers EXCEPT ![w] = @ - 1]
    /\ \/ \E says \in Says(w) : file' = [file EXCEPT ![w] = says]
          /\ UNCHANGED faults
       \/ file' = [file EXCEPT ![w] = "failed"] /\ Fault("fail")
       \/ /\ w \in Experiments
          /\ file' = [file EXCEPT ![w] = "torn"] /\ Fault("torn")
    /\ UNCHANGED <<requestVars, workVars, inFlight, backend, ledger, schedVars>>

WorkerDies(w) ==
    /\ workers[w] > 0
    /\ workers' = [workers EXCEPT ![w] = @ - 1]
    /\ Fault("die")
    /\ UNCHANGED <<requestVars, workVars, inFlight, backend, file, ledger, schedVars>>

--------------------------------------------------------------------------------
(* Reconciler.reconcile: ready experiments will be ingested, the rest waits *)
(* or is retried.  Only a job on the cluster's ledger can be told to be    *)
(* dead.                                                                   *)

Unfinished == {Experiment(r) : r \in {s \in Request : experiment[s] = "open"}}
Missing    == {w \in Unfinished \cup (inFlight \cap Integrators) : ~Ready(w)}
DeadJobs   == {w \in Missing \cap ledger : workers[w] = 0}
Presumed   == {w \in Missing \cap ledger : workers[w] > 0}

Reconcile(gone) ==
    /\ InHand("idle")
    /\ inFlight' = inFlight \ gone
    /\ ledger' = ledger \ gone
    /\ phase' = "ingest"
    /\ todo' = {w \in Unfinished : Ready(w)}
    /\ retry' = Missing
    /\ UNCHANGED <<requestVars, workVars, backend, file, workers, capped, stage, cur>>

\* Grace windows and a failing condor_q may hide some of the dead jobs.
ReconcileAll   == Reconcile(DeadJobs) /\ UNCHANGED faults
ReconcileSome  == \E gone \in SUBSET DeadJobs : Reconcile(gone) /\ UNCHANGED faults
ReconcileGhost == \E w \in Presumed : Reconcile(DeadJobs \cup {w}) /\ Fault("ghost")

--------------------------------------------------------------------------------
(* _ingest_experiment_result, from the reconciler's action or the poll.    *)

ExperimentResult(r, says) ==
    /\ Take("ingest", Experiment(r)) \/ Take("pollExperiments", Experiment(r))
    /\ file[Experiment(r)] \in says

\* The experiment goes back to pending, whatever its status was.
InfraFailed_Unmarked(r) ==
    /\ ExperimentResult(r, {"failed"})
    /\ experiment' = [experiment EXCEPT ![r] = "open"]
    /\ Goto("archive", Experiment(r))
    /\ UNCHANGED <<requestVars, proposal, published, linked, inFlight, envVars>>
InfraFailed(r) ==
    /\ ExperimentResult(r, {"failed"})
    /\ inFlight' = inFlight \ {Experiment(r)}
    /\ experiment' = [experiment EXCEPT ![r] = "open"]
    /\ Goto("archive", Experiment(r))
    /\ UNCHANGED <<requestVars, proposal, published, linked, envVars>>

Measured(r) ==
    /\ ExperimentResult(r, Outcomes)
    /\ experiment[r] = "open"
    /\ experiment' = [experiment EXCEPT ![r] = file[Experiment(r)]]
    /\ Goto("succeed", Experiment(r))
    /\ UNCHANGED <<requestVars, proposal, published, linked, inFlight, envVars>>

\* Already terminal: the store raises, and the exception ends the process.
MeasuredTwice(r) ==
    /\ ExperimentResult(r, Outcomes)
    /\ experiment[r] # "open"
    /\ Stop
    /\ UNCHANGED <<requestVars, workVars, inFlight, envVars>>

\* Neither marked nor archived: every step reads the result again.
ResultUnread(r) ==
    /\ ExperimentResult(r, {"torn"})
    /\ Done(Experiment(r))
    /\ UNCHANGED <<requestVars, workVars, inFlight, envVars>>

\* mark_attempt_succeeded, of an experiment or of an Integrator.
Succeed == /\ stage = "succeed"
           /\ inFlight' = inFlight \ {cur}
           /\ Goto("archive", cur)
           /\ UNCHANGED <<requestVars, workVars, envVars>>

\* _archive_result: rename result.json, whatever it holds by now.
Archive == /\ stage = "archive"
           /\ file' = [file EXCEPT ![cur] = "none"]
           /\ Done(cur)
           /\ UNCHANGED <<requestVars, workVars, inFlight, backend, ledger, workers, faults>>

--------------------------------------------------------------------------------
(* New attempts: the reconciler's retries, open requests, queued proposals.*)

\* An Integrator is not retried in a capped run; an experiment is, without
\* asking for capacity.
Startable(w) == /\ w \notin inFlight
                /\ IF w \in Integrators THEN ~capped ELSE experiment[w[1]] = "open"

Resubmit(w) == /\ Take("retry", w)
               /\ Startable(w)
               /\ inFlight' = inFlight \cup {w}
               /\ Goto("submit", w)
               /\ UNCHANGED <<requestVars, workVars, envVars>>

ResubmitSkipped(w) == /\ Take("retry", w)
                      /\ ~Startable(w)
                      /\ Done(w)
                      /\ UNCHANGED <<requestVars, workVars, inFlight, envVars>>

\* _schedule_integrators: the episode is prepared once, the attempt recorded.
Schedule(r) == /\ Take("schedule", Integrator(r))
               /\ inFlight' = inFlight \cup {Integrator(r)}
               /\ Goto("submit", Integrator(r))
               /\ UNCHANGED <<requestVars, workVars, envVars>>

Submit == /\ stage = "submit"
          /\ workers' = [workers EXCEPT ![cur] = @ + 1]
          /\ ledger' = ledger \cup {w \in {cur} : backend = "condor"}
          /\ Done(cur)
          /\ UNCHANGED <<requestVars, workVars, inFlight, backend, file, faults>>

--------------------------------------------------------------------------------
(* The gate: one judgment at most, applied in one transaction.             *)

Judging == InHand("gate") /\ ~capped

\* _create_integration_request_on_tx
OpenRequest(r) ==
    /\ Judging
    /\ request[r] = "none"
    /\ \A s \in Request : request[s] # "open"
    /\ request' = [request EXCEPT ![r] = "open"]
    /\ base' = [base EXCEPT ![r] = epoch]
    /\ phase' = "gated"
    /\ UNCHANGED <<epoch, workVars, inFlight, envVars, todo, retry, capped, stage, cur>>

\* _apply_epoch_review_on_tx
Reviewable(r) == /\ Judging
                 /\ request[r] = "submitted"
                 /\ r \in linked /\ experiment[r] = "passed"
Reviewed      == /\ phase' = "gated"
                 /\ UNCHANGED <<base, workVars, inFlight, envVars, todo, retry, capped, stage, cur>>

Promote(r) ==
    /\ Reviewable(r)
    /\ base[r] = epoch
    /\ epoch' = epoch + 1
    /\ request' = [request EXCEPT ![r] = "promoted"]
    /\ Reviewed

Retain(r) ==
    /\ Reviewable(r)
    /\ request' = [request EXCEPT ![r] = "closed"]
    /\ UNCHANGED epoch
    /\ Reviewed

--------------------------------------------------------------------------------
(* _poll_integrators.                                                      *)

Answered(r, says) == /\ Take("pollIntegrators", Integrator(r))
                     /\ file[Integrator(r)] \in says

\* The ids of the published state and proposal come from the request and its
\* one episode: a second publication of the request is a duplicate.
Usable(r) == /\ request[r] = "open"
             /\ file[Integrator(r)] = "submitted" => proposal[r] = "none"

AnswerRefused_Unmarked(r) ==
    /\ Answered(r, Answers \cup {"failed"})
    /\ file[Integrator(r)] = "failed" \/ ~Usable(r)
    /\ Goto("archive", Integrator(r))
    /\ UNCHANGED <<requestVars, workVars, inFlight, envVars>>
AnswerRefused(r) ==
    /\ Answered(r, Answers \cup {"failed"})
    /\ file[Integrator(r)] = "failed" \/ ~Usable(r)
    /\ inFlight' = inFlight \ {Integrator(r)}
    /\ Goto("archive", Integrator(r))
    /\ UNCHANGED <<requestVars, workVars, envVars>>

Abstained(r) ==
    /\ Answered(r, {"abstained"}) /\ Usable(r)
    /\ request' = [request EXCEPT ![r] = "abstained"]
    /\ Goto("succeed", Integrator(r))
    /\ UNCHANGED <<base, epoch, workVars, inFlight, envVars>>

\* publish_research_batch
Publish(r) ==
    /\ Answered(r, {"submitted"}) /\ Usable(r)
    /\ proposal' = [proposal EXCEPT ![r] = "queued"]
    /\ published' = Append(published, r)
    /\ Goto("finish", Integrator(r))
    /\ UNCHANGED <<requestVars, experiment, linked, inFlight, envVars>>

\* finish_integration_request, in a transaction of its own
Finish ==
    /\ stage = "finish"
    /\ request' = [request EXCEPT ![cur[1]] = "submitted"]
    /\ Goto("succeed", cur)
    /\ UNCHANGED <<base, epoch, workVars, inFlight, envVars>>

--------------------------------------------------------------------------------
(* _drain_executor_queue.                                                  *)

Queued    == {r \in Request : proposal[r] = "queued"}
Before(r) == {s \in Queued : \E i, j \in DOMAIN published :
                                 i < j /\ published[i] = s /\ published[j] = r}
Oldest(n) == {r \in Queued : Cardinality(Before(r)) < n}

\* enforce_bound: the newest beyond the bound are demoted, for good.
Overflow ==
    /\ InHand("bound") /\ ~capped
    /\ \E r \in Queued \ Oldest(QueueSize) :
          proposal' = [proposal EXCEPT ![r] = "overflowed_dormant"]
    /\ UNCHANGED <<requestVars, published, experiment, linked, inFlight, envVars, schedVars>>

\* create_experiment and the proposal's own status, in one transaction
Drain(r) ==
    /\ Take("drain", Experiment(r))
    /\ experiment' = [experiment EXCEPT ![r] = "open"]
    /\ proposal' = [proposal EXCEPT ![r] = "running"]
    /\ Goto("link", Experiment(r))
    /\ UNCHANGED <<requestVars, published, linked, inFlight, envVars>>

\* link_integration_experiment: nothing is linked to a request not submitted
Link_Always ==
    /\ stage = "link"
    /\ linked' = linked \cup {cur[1]}
    /\ Goto("record", cur)
    /\ UNCHANGED <<requestVars, proposal, published, experiment, inFlight, envVars>>
Link ==
    /\ stage = "link"
    /\ linked' = linked \cup {r \in {cur[1]} : request[r] = "submitted"}
    /\ Goto("record", cur)
    /\ UNCHANGED <<requestVars, proposal, published, experiment, inFlight, envVars>>

RecordAttempt ==
    /\ stage = "record"
    /\ inFlight' = inFlight \cup {cur}
    /\ Goto("submit", cur)
    /\ UNCHANGED <<requestVars, workVars, envVars>>

--------------------------------------------------------------------------------
(* _resolve_integration_outcomes.                                          *)

Resolve(r) ==
    /\ Take("resolve", Experiment(r))
    /\ request' = IF experiment[r] = "rejected"
                    THEN [request EXCEPT ![r] = "closed"] ELSE request
    /\ Done(Experiment(r))
    /\ UNCHANGED <<base, epoch, workVars, inFlight, envVars>>

--------------------------------------------------------------------------------
(* step(): the phases in their order.                                      *)

\* A poll looks at a running attempt that has no result yet.
PollMiss(w) == /\ Take("pollIntegrators", w) \/ Take("pollExperiments", w)
               /\ ~Ready(w)
               /\ Done(w)
               /\ UNCHANGED <<requestVars, workVars, inFlight, envVars>>

Enter(p, q, work) == /\ InHand(p) /\ todo = {}
                     /\ phase' = q
                     /\ todo' = work
                     /\ UNCHANGED <<requestVars, workVars, inFlight, envVars, stage, cur>>

\* The cap is derived after the harvest, from counts that only grow.
EnterRetry  == /\ Enter("ingest", "retry", retry)
               /\ retry' = {}
               /\ capped' \in {capped} \cup {TRUE : k \in Faults[backend] \cap {"cap"}}
EnterGate   == Enter("retry", "gate", {}) /\ UNCHANGED <<retry, capped>>
EnterSchedule == /\ \E p \in {"gate", "gated"} :
                      Enter(p, "schedule",
                            IF capped THEN {}
                            ELSE {Integrator(r) : r \in {s \in Request :
                                    request[s] = "open" /\ Integrator(s) \notin inFlight}})
                 /\ UNCHANGED <<retry, capped>>
EnterPollIntegrators == /\ Enter("schedule", "pollIntegrators", inFlight \cap Integrators)
                        /\ UNCHANGED <<retry, capped>>
EnterBound  == Enter("pollIntegrators", "bound", {}) /\ UNCHANGED <<retry, capped>>
\* _experiment_capacity counts every running experiment, the adjudications too.
EnterDrain  == /\ capped \/ Queued = Oldest(QueueSize)
               /\ \E others \in 0..MaxOthers :
                     Enter("bound", "drain", {Experiment(r) : r \in
                        IF capped THEN {} ELSE Oldest(Capacity(others))})
               /\ UNCHANGED <<retry, capped>>
EnterPollExperiments == /\ Enter("drain", "pollExperiments", inFlight \cap Experiments)
                        /\ UNCHANGED <<retry, capped>>
EnterResolve == /\ Enter("pollExperiments", "resolve",
                         {Experiment(r) : r \in {s \in linked : request[s] = "submitted"}})
                /\ UNCHANGED <<retry, capped>>
EndStep     == Enter("resolve", "idle", {}) /\ UNCHANGED <<retry, capped>>

--------------------------------------------------------------------------------
(* The scheduler process ends and comes back.                              *)

Crash == /\ phase # "down" /\ Fault("crash")
         /\ Stop
         /\ UNCHANGED <<requestVars, workVars, inFlight, backend, file, ledger, workers>>

\* Scheduler.__init__ of the next process: a local worker is presumed dead with
\* its parent; with the ghost fault it was orphaned instead.
Restart ==
    /\ phase = "down"
    /\ phase' = "idle"
    /\ inFlight' = IF backend = "local" THEN {} ELSE inFlight
    /\ workers' \in {IF backend = "condor" THEN workers ELSE [w \in Work |-> 0]}
                      \cup {workers : k \in Faults[backend] \cap {"ghost"}}
    /\ UNCHANGED <<requestVars, workVars, backend, file, ledger, faults,
                   todo, retry, capped, stage, cur>>

--------------------------------------------------------------------------------
Ingest(r) == \/ InfraFailed(r) \/ Measured(r) \/ MeasuredTwice(r) \/ ResultUnread(r)
Gate(r)   == \/ OpenRequest(r) \/ Promote(r)   \/ Retain(r)
Poll(r)   == \/ AnswerRefused(r) \/ Abstained(r) \/ Publish(r)
Stage     == \/ Succeed \/ Archive \/ Submit \/ Finish \/ Link \/ RecordAttempt
PhaseStep == \/ EnterRetry \/ EnterGate  \/ EnterSchedule \/ EnterPollIntegrators
             \/ EnterBound \/ EnterDrain \/ EnterPollExperiments
             \/ EnterResolve \/ EndStep

\* What the scheduler process does by itself, between two reconciliations; the
\* gate's judgments are the Supervisor's.
SchedulerStep == \/ \E r \in Request : \/ Ingest(r)   \/ Poll(r)  \/ Drain(r)
                                       \/ Schedule(r) \/ Resolve(r)
                 \/ \E w \in Work : Resubmit(w) \/ ResubmitSkipped(w) \/ PollMiss(w)
                 \/ Stage \/ Overflow \/ PhaseStep

Environment == \/ \E w \in Work : WorkerEnds(w) \/ WorkerDies(w)
               \/ Crash \/ Restart

IntegrationNext == \/ SchedulerStep \/ \E r \in Request : Gate(r)
                   \/ ReconcileAll \/ ReconcileSome \/ ReconcileGhost
                   \/ Environment

IntegrationSpec == IntegrationInit /\ [][IntegrationNext]_integrationVars

\* The loop runs on, a worker ends, a step finds the dead jobs whose grace is
\* over, and a scheduler that died is started again.
IntegrationFairSpec == /\ IntegrationSpec
                       /\ WF_integrationVars(SchedulerStep)
                       /\ WF_integrationVars(ReconcileSome)
                       /\ SF_integrationVars(ReconcileAll)
                       /\ WF_integrationVars(Restart)
                       /\ \A w \in Work : WF_integrationVars(WorkerEnds(w))

--------------------------------------------------------------------------------
(* Properties.                                                             *)

Phases == {"idle", "ingest", "retry", "gate", "gated", "schedule", "pollIntegrators",
           "bound", "drain", "pollExperiments", "resolve", "down"}

\* Every variable has its type.
IntegrationTypeOK ==
    /\ request \in [Request -> Statuses]
    /\ base \in [Request -> Nat] /\ epoch \in Nat
    /\ proposal \in [Request -> Proposals]
    /\ published \in Seq(Request)
    /\ experiment \in [Request -> Results]
    /\ linked \subseteq Request
    /\ inFlight \subseteq Work
    /\ backend \in DOMAIN Faults
    /\ file \in [Work -> {"none", "failed", "torn"} \cup Answers \cup Outcomes]
    /\ ledger \subseteq Work
    /\ workers \in [Work -> Nat]
    /\ faults \in Nat
    /\ phase \in Phases
    /\ todo \subseteq Work /\ retry \subseteq Work
    /\ capped \in BOOLEAN
    /\ stage \in {"none", "archive", "succeed", "submit", "finish", "link", "record"}
    /\ cur \in Work \cup {NoWork}

\* Through crashes, late failures and refused submissions, what is seen of the
\* requests and the epochs follows the protocol: one open request, a standing
\* answer, no verdict from an experiment of another request, and no promotion
\* from an epoch that has been replaced (_apply_epoch_review_on_tx,
\* link_integration_experiment, finish_integration_request).
RefinesProtocol == Protocol!Spec

\* The epochs are a chain: each was replaced by exactly one candidate that was
\* asked for in it, however many requests of that epoch were submitted
\* (_apply_epoch_review_on_tx).
EpochsChain ==
    /\ \A r \in Request : request[r] = "promoted" => base[r] < epoch
    /\ \A r, s \in Request :
          request[r] = "promoted" /\ request[s] = "promoted" /\ base[r] = base[s] => r = s
    /\ \A k \in 0..epoch - 1 : \E r \in Request : request[r] = "promoted" /\ base[r] = k

\* A recorded job the scheduler never submitted: it stopped in between, and no
\* ledger entry will ever tell that it is dead.
Phantom(w) == /\ backend = "condor"
              /\ w \in inFlight \ ledger /\ workers[w] = 0 /\ ~Ready(w)
              /\ ~(stage = "submit" /\ cur = w)

\* A measured experiment whose attempt was never closed: every step raises.
Wedged(w) == /\ w \in inFlight \cap Experiments
             /\ Ready(w) /\ experiment[w[1]] # "open"
             /\ ~(stage = "succeed" /\ cur = w)

\* An open request is answered or at least published, unless the run is capped
\* or its Integrator was recorded and never submitted: lost, failed and refused
\* Integrators are replaced (_schedule_integrators, _poll_integrators,
\* _resubmit_integrator).
OpenIsAnswered ==
    \A r \in Request :
        request[r] = "open"
            ~> \/ request[r] # "open" \/ proposal[r] # "none"
               \/ capped \/ Phantom(Integrator(r))

\* A linked candidate is measured, and a refused one closes its request, also in
\* a capped run, unless a crash left an attempt nobody submitted or nobody closed
\* or its result cannot be read (_resubmit_experiment, _ingest_experiment_result,
\* _resolve_integration_outcomes).
CandidateSettles ==
    \A r \in Request :
        r \in linked
            ~> \/ experiment[r] = "passed" \/ request[r] # "submitted"
               \/ Phantom(Experiment(r)) \/ file[Experiment(r)] = "torn"
               \/ \E w \in Work : Wedged(w)
================================================================================
