---------------------------- MODULE LeaseLifecycle ----------------------------
(***************************************************************************)
(* The research lease as the scheduler really runs it: a single writer     *)
(* (loop.py) stepping over the run database (store.py), detached seat and  *)
(* experiment workers that answer only through an atomically written       *)
(* result.json, and a job backend that can or cannot tell a dead worker.   *)
(*                                                                         *)
(* A unit of work is <<lease, i>>: i = 0 is the seat (the proposer of the  *)
(* allocation), i >= 1 the adjudication experiment of its i-th delivery.   *)
(*                                                                         *)
(* One action is one transaction, one spawned worker or one file rename of *)
(* a handler; pc says how far the handler in hand has come, so that a      *)
(* crash can fall between any two of them.                                 *)
(*                                                                         *)
(* X_Y before a definition X is X with the mistake Y: no action uses it,   *)
(* it only serves to show which property would notice the mistake.         *)
(***************************************************************************)
EXTENDS Integers, Sequences, FiniteSets

CONSTANTS Lease,           \* the leases a run may buy
          MaxSeats,        \* SchedulerConfig.max_proposer_inflight
          MaxExps,         \* SchedulerConfig.max_experiment_inflight
          MaxReopens,      \* SchedulerConfig.max_lease_reopens
          MaxAdjAttempts,  \* SchedulerConfig.max_adjudication_attempts
          Backend,         \* "local" (subprocesses) or "condor" (cluster jobs)
          EvalLimits,      \* values max_terminal_evals takes over (re)starts
          Faults,          \* the kinds of fault the environment may produce
          MaxFaults        \* how many of them: a bound, not in the code

FaultKinds == {"fail",       \* a worker reports an infrastructure failure
               "malformed",  \* a seat exits without a readable conclusion
               "vacuous",    \* a seat exits with a conclusion the store refuses
              "unknown",    \* an experiment reports an outcome not in the table
              "torn",       \* a result.json that cannot be read
               "budget",     \* a lease's own budget runs out (not counted)
               "die",        \* a worker disappears without a result
               "ghost",      \* a worker presumed dead is alive
               "restart",    \* the scheduler is stopped between two steps
               "crash"}      \* the scheduler stops anywhere in a step

ASSUME ConfigAssumption ==
    /\ MaxSeats \in Nat /\ MaxExps \in Nat /\ MaxReopens \in Nat
    /\ MaxAdjAttempts \in Nat /\ MaxFaults \in Nat
    /\ Backend \in {"local", "condor"}
    /\ EvalLimits \subseteq Nat
    /\ Faults \subseteq FaultKinds

VARIABLES
    \* the run database
    state,       \* [Lease -> States]: proposer_allocations.state
    reopens,     \* [Lease -> Nat]: proposer_allocations.reopen_count
    rejections,  \* [Lease -> Nat]: lease_conclusion_rejected events
    verdict,     \* [Delivery -> status of its adjudication experiment]
    nodes,       \* deliveries that became a child node
    attempts,    \* [Work -> Seq(AttemptStatus)], oldest first
    limit,       \* run_limits.max_terminal_evals
    \* the run directory, the backend and the worker processes
    file,        \* [Work -> its result.json]
    ledger,      \* [Work -> job on the cluster ledger, 0 when none]
    workers,     \* live workers, <<work, attempt ordinal>>
    faults,      \* faults so far
    \* the scheduler process
    phase,       \* the part of step() that is running, or why it is not
    todo,        \* the work the phase has still to look at
    retry,       \* the reattach_or_wait actions kept for the retry phase
    capped,      \* _durable_cap_reached
    pc,          \* the stage of the handler in hand
    cur          \* the work it handles

dbVars    == <<state, reopens, rejections, verdict, nodes, attempts, limit>>
envVars   == <<file, ledger, workers, faults>>
schedVars == <<phase, todo, retry, capped, pc, cur>>
vars      == <<dbVars, envVars, schedVars>>

--------------------------------------------------------------------------------
(* Data.                                                                   *)

Delivery == Lease \X (1..MaxReopens + 1)
Seat(l)  == <<l, 0>>
Seats    == {Seat(l) : l \in Lease}
Work     == Seats \cup Delivery

Concluded == {"concluded_delivered", "concluded_abstain",
              "concluded_cut_off", "concluded_rejected"}
States    == {"unallocated", "researching", "awaiting_adjudication", "reopen"}
                \cup Concluded
Verdicts  == {"completed", "gate_rejected"}

AttemptStatus == {"running", "succeeded", "failed", "lost"}

\* What a result.json can say.  pending and running experiments are one
\* status here, "open": no guard of the lease code tells them apart.
SeatKinds == {"deliver", "abstain", "cut_off", "failed", "malformed", "vacuous", "torn"}
ExpKinds  == Verdicts \cup {"failed", "unknown", "torn"}
Kinds(w)  == IF w \in Seats THEN SeatKinds ELSE ExpKinds

NoFile  == [kind |-> "none", by |-> 0]
Files   == {NoFile} \cup [kind : SeatKinds \cup ExpKinds, by : Nat]
NoLimit == -1
NoWork  == <<>>

Protocol == INSTANCE LeaseProtocol
               WITH Lease <- Lease, MaxReopens <- MaxReopens, state <- state,
                    reopens <- reopens, verdict <- verdict

Current(l)     == <<l, reopens[l] + 1>>
OpenLease(l)   == state[l] \notin Concluded \cup {"unallocated"}
Unreaped(w)    == file[w] # NoFile

\* The attempts table.  record_attempt appends; _latest_attempt lets the last
\* attempt take the status, whichever attempt wrote the result; a lost process
\* or a dead job ends what runs.
RunsIn(table, w)  == \E n \in DOMAIN table[w] : table[w][n] = "running"
Started(table, w) == [table EXCEPT ![w] = Append(@, "running")]
Marked(table, w, status) ==
    IF table[w] = <<>> THEN table
    ELSE [table EXCEPT ![w] = [@ EXCEPT ![Len(@)] = status]]
Ended(table, W, status) ==
    [w \in Work |-> IF w \in W
                      THEN [n \in DOMAIN table[w] |->
                              IF table[w][n] = "running" THEN status ELSE table[w][n]]
                      ELSE table[w]]

Running(w)   == RunsIn(attempts, w)
RunningIn(W) == {w \in W : Running(w)}

Researching      == {l \in Lease : state[l] = "researching"}
SeatCapacity     == MaxSeats - Cardinality(Researching)
ExpCapacity      == MaxExps - Cardinality(RunningIn(Delivery))
TerminalEvals    == Cardinality({d \in Delivery : verdict[d] \in Verdicts})
CapReached       == limit # NoLimit /\ TerminalEvals >= limit
Exhausted(w)     == Cardinality({n \in DOMAIN attempts[w] :
                        attempts[w][n] \in {"failed", "lost"}}) >= MaxAdjAttempts
InFlight         == RunningIn(Work) # {}
Quiescent        == /\ ~InFlight
                    /\ \A l \in Lease : ~OpenLease(l)
                    /\ \A d \in Delivery : verdict[d] # "open"

\* The order of a phase: the proposers of the database before its experiments.
First(W)   == IF W \cap Seats # {} THEN W \cap Seats ELSE W
InHand(P)  == phase \in P /\ pc = "none"
Take(w, P) == InHand(P) /\ w \in First(todo)

--------------------------------------------------------------------------------
(* The scheduler's own bookkeeping, shared by the handlers.                *)

\* Continue the handler of w at stage s.
Goto(s, w) == pc' = s /\ cur' = w /\ UNCHANGED <<phase, todo, retry, capped>>

\* The handler of w is over: the phase goes on to its next work.
Done(w) == /\ pc' = "none" /\ cur' = NoWork
           /\ todo' = todo \ {w}
           /\ UNCHANGED <<phase, retry, capped>>

\* step() leaves no volatile state behind when its process ends.
Stop(why) == /\ phase' = why
             /\ todo' = {} /\ retry' = {} /\ capped' = FALSE
             /\ pc' = "none" /\ cur' = NoWork

\* JobSubmitter.submit_*: one worker for the latest attempt.
Spawn(w) == /\ workers' = workers \cup {<<w, Len(attempts[w])>>}
            /\ ledger' = IF Backend = "condor"
                           THEN [ledger EXCEPT ![w] = Len(attempts[w])] ELSE ledger

Conclude(l, outcome) ==
    IF OpenLease(l) THEN [state EXCEPT ![l] = outcome] ELSE state

--------------------------------------------------------------------------------
Init ==
    /\ state = [l \in Lease |-> "unallocated"]
    /\ reopens = [l \in Lease |-> 0]
    /\ rejections = [l \in Lease |-> 0]
    /\ verdict = [d \in Delivery |-> "none"]
    /\ nodes = {}
    /\ attempts = [w \in Work |-> <<>>]
    /\ limit \in EvalLimits \cup {NoLimit}
    /\ file = [w \in Work |-> NoFile]
    /\ ledger = [w \in Work |-> 0]
    /\ workers = {}
    /\ faults = 0
    /\ phase = "idle" /\ todo = {} /\ retry = {} /\ capped = FALSE
    /\ pc = "none" /\ cur = NoWork

--------------------------------------------------------------------------------
(* Workers.  Every worker writes its result atomically at the fixed path   *)
(* of its work, over whatever is there; what the disk or the transfer makes *)
(* of it may not be readable.                                              *)

Fault(kind) == /\ kind \in Faults
               /\ faults < MaxFaults
               /\ faults' = faults + 1

\* What a healthy worker may report.
Honest == {"deliver", "abstain", "cut_off", "completed", "gate_rejected"}

\* A seat refused once may be refused again: the same fault, counted once.
Repeated(w, kind) == kind = "vacuous" /\ "vacuous" \in Faults /\ rejections[w[1]] > 0

WorkerEnds(w, n) ==
    /\ <<w, n>> \in workers
    /\ workers' = workers \ {<<w, n>>}
    /\ \E kind \in Kinds(w) :
          /\ file' = [file EXCEPT ![w] = [kind |-> kind, by |-> n]]
          /\ \/ (kind \in Honest \/ Repeated(w, kind)) /\ UNCHANGED faults
             \/ kind = "failed" /\ Fault("fail")
             \/ kind \notin Honest /\ kind # "failed" /\ Fault(kind)
    /\ UNCHANGED <<dbVars, ledger, schedVars>>

\* Killed, out of memory, held: the worker is gone and wrote nothing.
WorkerDies(w, n) ==
    /\ <<w, n>> \in workers
    /\ workers' = workers \ {<<w, n>>}
    /\ Fault("die")
    /\ UNCHANGED <<dbVars, file, ledger, schedVars>>

--------------------------------------------------------------------------------
(* Reconciler.reconcile: one pass over the open leases that are not parked *)
(* and the open experiments.  Ready results will be ingested, the rest     *)
(* waits or is retried; a job the cluster calls held or gone loses its     *)
(* ledger entry and its running attempt here.                              *)

Known == {Seat(l) : l \in {k \in Lease :
                      OpenLease(k) /\ state[k] # "awaiting_adjudication"}}
           \cup {d \in Delivery : verdict[d] = "open"}

\* Jobs on the ledger that no longer run, and have no result to show.
DeadJobs_SeatsOnly == {w \in Known \cap Seats : /\ ~Unreaped(w)
                                                /\ ledger[w] # 0
                                                /\ <<w, ledger[w]>> \notin workers}
DeadJobs == {w \in Known : /\ ~Unreaped(w)
                           /\ ledger[w] # 0
                           /\ <<w, ledger[w]>> \notin workers}

\* A job whose worker still runs although the cluster says it is held or gone.
Presumed(w) == /\ w \in Known /\ ~Unreaped(w)
               /\ <<w, ledger[w]>> \in workers

Reconcile(gone) ==
    /\ InHand({"idle"})
    /\ attempts' = Ended(attempts, gone, "failed")
    /\ ledger' = [w \in Work |-> IF w \in gone THEN 0 ELSE ledger[w]]
    /\ phase' = "ingest"
    /\ todo'  = {w \in Known : Unreaped(w)}
    /\ retry' = {w \in Known : ~Unreaped(w)}
    /\ UNCHANGED <<state, reopens, rejections, verdict, nodes, limit,
                   file, workers, capped, pc, cur>>

\* Every dead job past its disappearance grace is found in one pass ...
ReconcileAll  == Reconcile(DeadJobs) /\ UNCHANGED faults
\* ... or only some of them: grace windows, a failing condor_q.
ReconcileSome == \E gone \in SUBSET DeadJobs : Reconcile(gone) /\ UNCHANGED faults
\* A live job is taken for a dead one: held and removed too late, or its
\* result still on the way to the shared directory.
ReconcileGhost == \E w \in Work : /\ Presumed(w)
                                  /\ Reconcile(DeadJobs \cup {w})
                                  /\ Fault("ghost")

--------------------------------------------------------------------------------
(* _ingest_seat_conclusion, from the reconciler's action or from the poll. *)

IngestPhases == {"ingest", "pollSeats", "pollExps"}

SeatResult(l, kinds) == /\ Take(Seat(l), IngestPhases)
                        /\ file[Seat(l)].kind \in kinds

SeatInfraFailed(l) ==
    /\ SeatResult(l, {"failed"})
    /\ attempts' = Marked(attempts, Seat(l), "failed")
    /\ Goto("archive", Seat(l))
    /\ UNCHANGED <<state, reopens, rejections, verdict, nodes, limit, envVars>>

\* Late duplicate of a concluded lease: accepted, only archived.
SeatAlreadyConcluded(l) ==
    /\ SeatResult(l, {"deliver", "abstain", "cut_off", "vacuous"})
    /\ ~OpenLease(l)
    /\ Goto("archive", Seat(l))
    /\ UNCHANGED <<dbVars, envVars>>

SeatExits(l) ==
    /\ SeatResult(l, {"abstain", "cut_off"})
    /\ OpenLease(l)
    /\ attempts' = Marked(attempts, Seat(l), "succeeded")
    /\ state' = Conclude(l, IF file[Seat(l)].kind = "abstain"
                              THEN "concluded_abstain" ELSE "concluded_cut_off")
    /\ Goto("archive", Seat(l))
    /\ UNCHANGED <<reopens, rejections, verdict, nodes, limit, envVars>>

\* The mint: proposal, experiment and, with capacity, its first attempt.  A
\* delivery whose proposal exists already only parks the lease again.
SeatDelivers(l) ==
    LET d     == Current(l)
        fresh == verdict[d] = "none"
        withAttempt == fresh /\ ExpCapacity > 0 /\ ~capped
        ended == Marked(attempts, Seat(l), "succeeded")
    IN /\ SeatResult(l, {"deliver"})
       /\ OpenLease(l)
       /\ state' = [state EXCEPT ![l] = "awaiting_adjudication"]
       /\ verdict' = [verdict EXCEPT ![d] = IF fresh THEN "open" ELSE @]
       /\ attempts' = IF withAttempt THEN Started(ended, d) ELSE ended
       /\ Goto(IF withAttempt THEN "adjudicate" ELSE "archive", Seat(l))
       /\ UNCHANGED <<reopens, rejections, nodes, limit, envVars>>

\* _launch_adjudication, when the mint recorded an attempt.
LaunchAdjudication ==
    /\ pc = "adjudicate"
    /\ Spawn(Current(cur[1]))
    /\ Goto("archive", cur)
    /\ UNCHANGED <<dbVars, file, faults>>

\* An exit the store refuses: the malformed one before it looks at the lease,
\* the vacuous one only on an open lease.
SeatRejected(l) ==
    /\ \/ SeatResult(l, {"malformed"})
       \/ SeatResult(l, {"vacuous"}) /\ OpenLease(l)
    /\ rejections' = [rejections EXCEPT ![l] = @ + 1]
    /\ Goto("rejected", Seat(l))
    /\ UNCHANGED <<state, reopens, verdict, nodes, attempts, limit, envVars>>

\* One correction round-trip, then the lease is cut off.
SeatCorrected ==
    /\ pc = "rejected" /\ rejections[cur[1]] <= 1
    /\ attempts' = Marked(attempts, cur, "failed")
    /\ Goto("archive", cur)
    /\ UNCHANGED <<state, reopens, rejections, verdict, nodes, limit, envVars>>

SeatCutOff ==
    /\ pc = "rejected" /\ rejections[cur[1]] > 1
    /\ state' = Conclude(cur[1], "concluded_cut_off")
    /\ Goto("cut_off", cur)
    /\ UNCHANGED <<reopens, rejections, verdict, nodes, attempts, limit, envVars>>

CutOffSucceeded ==
    /\ pc = "cut_off"
    /\ attempts' = Marked(attempts, cur, "succeeded")
    /\ Goto("archive", cur)
    /\ UNCHANGED <<state, reopens, rejections, verdict, nodes, limit, envVars>>

\* _archive_result: rename result.json, whatever it holds by now.
Archive ==
    /\ pc = "archive"
    /\ file' = [file EXCEPT ![cur] = NoFile]
    /\ Done(cur)
    /\ UNCHANGED <<dbVars, ledger, workers, faults>>

--------------------------------------------------------------------------------
(* _ingest_experiment_result.                                              *)

ExpResult(d, kinds) == /\ Take(d, IngestPhases)
                       /\ d \in Delivery
                       /\ file[d].kind \in kinds

\* A terminal status is never ingested twice, and a child node's sha is unique:
\* the store raises, and the exception ends the scheduler process.
Ingestible(d, v) == verdict[d] = "open" /\ ~(v = "completed" /\ d \in nodes)

IngestRaises(d) ==
    LET kind == file[d].kind
    IN /\ ExpResult(d, Verdicts \cup {"failed"})
       /\ kind = "failed" => Exhausted(d)
       /\ ~Ingestible(d, kind)
       /\ Stop("down")
       /\ UNCHANGED <<dbVars, envVars>>

\* The experiment goes back to pending, whatever its status was.  An outcome that
\* is not in the table is a failure too, and is not counted against the limit.
ExpInfraFailed(d) ==
    /\ ExpResult(d, {"failed", "unknown"})
    /\ file[d].kind = "failed" => ~Exhausted(d)
    /\ attempts' = Marked(attempts, d, "failed")
    /\ verdict' = [verdict EXCEPT ![d] = "open"]
    /\ Goto("archive", d)
    /\ UNCHANGED <<state, reopens, rejections, nodes, limit, envVars>>

\* _close_exhausted_adjudication: closed as gate_rejected, nothing measured.
ExpExhausted(d) ==
    /\ ExpResult(d, {"failed"})
    /\ Exhausted(d)
    /\ Ingestible(d, "failed")
    /\ verdict' = [verdict EXCEPT ![d] = "gate_rejected"]
    /\ Goto("exhausted", d)
    /\ UNCHANGED <<state, reopens, rejections, nodes, attempts, limit, envVars>>

\* The child node, created in the transaction of the verdict.
WithNode(d, v) == IF v = "completed" THEN nodes \cup {d} ELSE nodes

ExpJudged(d) ==
    LET v == file[d].kind
    IN /\ ExpResult(d, Verdicts)
       /\ Ingestible(d, v)
       /\ verdict' = [verdict EXCEPT ![d] = v]
       /\ nodes' = WithNode(d, v)
       /\ Goto("judged", d)
       /\ UNCHANGED <<state, reopens, rejections, attempts, limit, envVars>>

ExpSucceeded ==
    /\ pc \in {"judged", "exhausted"}
    /\ attempts' = Marked(attempts, cur, "succeeded")
    /\ Goto(IF pc = "judged" THEN "resolve" ELSE "close", cur)
    /\ UNCHANGED <<state, reopens, rejections, verdict, nodes, limit, envVars>>

CloseExhausted ==
    /\ pc = "close"
    /\ state' = Conclude(cur[1], "concluded_cut_off")
    /\ Goto("archive", cur)
    /\ UNCHANGED <<reopens, rejections, verdict, nodes, attempts, limit, envVars>>

\* _resolve_delivery_experiment, once the verdict is in the database.
Resolving(v) == pc = "resolve" /\ verdict[cur] = v
WriteBack    == /\ Resolving("gate_rejected")
                /\ OpenLease(cur[1]) /\ ~capped
Resolved     == /\ Goto("archive", cur)
                /\ UNCHANGED <<rejections, verdict, nodes, attempts, limit, envVars>>

ResolveAccepted ==
    /\ Resolving("completed")
    /\ state' = Conclude(cur[1], "concluded_delivered")
    /\ UNCHANGED reopens
    /\ Resolved

\* Capped, or closed in the meantime: nothing is written back.
ResolveParked ==
    /\ Resolving("gate_rejected") /\ ~WriteBack
    /\ UNCHANGED <<state, reopens>>
    /\ Resolved

ResolveBudget ==
    /\ WriteBack
    /\ "budget" \in Faults
    /\ state' = Conclude(cur[1], "concluded_cut_off")
    /\ UNCHANGED reopens
    /\ Resolved

\* record_lease_adjudication, and the conclusion when it declines.
SentBack(l) == state[l] = "awaiting_adjudication" /\ reopens[l] < MaxReopens

ResolveReopened_Uncounted ==
    /\ WriteBack /\ SentBack(cur[1])
    /\ state' = [state EXCEPT ![cur[1]] = "reopen"]
    /\ UNCHANGED reopens
    /\ Resolved

ResolveReopened ==
    /\ WriteBack /\ SentBack(cur[1])
    /\ state' = [state EXCEPT ![cur[1]] = "reopen"]
    /\ reopens' = [reopens EXCEPT ![cur[1]] = @ + 1]
    /\ Resolved

ResolveRejected ==
    /\ WriteBack /\ ~SentBack(cur[1])
    /\ state' = Conclude(cur[1], "concluded_rejected")
    /\ UNCHANGED reopens
    /\ Resolved

--------------------------------------------------------------------------------
(* New attempts: bought leases, the reconciler's retries, reopened seats.  *)

\* allocate_proposer, from the growth gate or the frontier baseline.  How many
\* leases they buy, if any, is their choice.
Allocate(l) ==
    /\ InHand({"allocate"})
    /\ ~capped
    /\ SeatCapacity > 0
    /\ state[l] = "unallocated"
    /\ state' = [state EXCEPT ![l] = "researching"]
    /\ Goto("record", Seat(l))
    /\ UNCHANGED <<reopens, rejections, verdict, nodes, attempts, limit, envVars>>

ResubmitPhases == {"retry", "reopen"}

Startable_Twice(w) == IF w \in Seats
                        THEN state[w[1]] \notin {"unallocated", "awaiting_adjudication"}
                        ELSE verdict[w] = "open"
Startable(w) == /\ ~Running(w)
                /\ IF w \in Seats
                     THEN state[w[1]] \notin {"unallocated", "awaiting_adjudication"}
                     ELSE verdict[w] = "open"

\* Parked, terminal or still running: left alone.
ResubmitSkipped(w) == /\ Take(w, ResubmitPhases)
                      /\ ~Startable(w)
                      /\ Done(w)
                      /\ UNCHANGED <<dbVars, envVars>>

Reactivate(l) ==
    /\ Take(Seat(l), ResubmitPhases)
    /\ Startable(Seat(l))
    /\ state[l] = "reopen"
    /\ state' = [state EXCEPT ![l] = "researching"]
    /\ Goto("record", Seat(l))
    /\ UNCHANGED <<reopens, rejections, verdict, nodes, attempts, limit, envVars>>

RecordAttempt(w) ==
    /\ \/ pc = "record" /\ w = cur
       \/ /\ Take(w, ResubmitPhases)
          /\ Startable(w)
          /\ w \in Seats => state[w[1]] # "reopen"
    /\ attempts' = Started(attempts, w)
    /\ Goto("submit", w)
    /\ UNCHANGED <<state, reopens, rejections, verdict, nodes, limit, envVars>>

Submit ==
    /\ pc = "submit"
    /\ Spawn(cur)
    /\ Done(cur)
    /\ UNCHANGED <<dbVars, file, faults>>

--------------------------------------------------------------------------------
(* step(): the phases in their order.                                      *)

\* The poll looks at a running attempt that has no result yet.
PollMiss(w) == /\ Take(w, {"pollSeats", "pollExps"})
               /\ ~Unreaped(w)
               /\ Done(w)
               /\ UNCHANGED <<dbVars, envVars>>

\* A result.json that json.loads refuses: nothing is marked and nothing archived,
\* for a seat as for an experiment, so that the next step reads it again.
ResultUnread(w) == /\ Take(w, IngestPhases)
                   /\ file[w].kind = "torn"
                   /\ Done(w)
                   /\ UNCHANGED <<dbVars, envVars>>

Enter(p, q, work) == /\ InHand({p}) /\ todo = {}
                     /\ phase' = q
                     /\ todo' = work
                     /\ UNCHANGED <<dbVars, envVars, pc, cur>>

\* The cap is derived after the harvest and holds for the rest of the step.
EnterRetry     == /\ Enter("ingest", "retry", retry)
                  /\ retry' = {}
                  /\ capped' = CapReached
EnterAllocate  == Enter("retry", "allocate", {}) /\ UNCHANGED <<retry, capped>>
EnterPollSeats == Enter("allocate", "pollSeats", RunningIn(Seats)) /\ UNCHANGED <<retry, capped>>
EnterPollExps  == Enter("pollSeats", "pollExps", RunningIn(Delivery)) /\ UNCHANGED <<retry, capped>>
EnterReopen    == /\ Enter("pollExps", "reopen",
                           IF capped THEN {} ELSE {Seat(l) : l \in {k \in Lease : state[k] = "reopen"}})
                  /\ UNCHANGED <<retry, capped>>

\* run(): what follows a step.
EndStep == /\ InHand({"reopen"}) /\ todo = {}
           /\ \/ /\ capped /\ ~InFlight
                 /\ Stop("capped")
              \/ /\ ~(capped /\ ~InFlight) /\ Quiescent
                 /\ Stop("quiesced")
              \/ /\ ~(capped /\ ~InFlight) /\ ~Quiescent
                 /\ phase' = "idle"
                 /\ UNCHANGED <<todo, retry, capped, pc, cur>>
           /\ UNCHANGED <<dbVars, envVars>>

--------------------------------------------------------------------------------
(* The scheduler process ends and comes back.                              *)

Alive == phase \notin {"down", "capped", "quiesced"}

\* Between two steps, by an operator ...
Interrupt == /\ InHand({"idle"}) /\ Fault("restart")
             /\ Stop("down")
             /\ UNCHANGED <<dbVars, file, ledger, workers>>
\* ... or anywhere.
Crash == /\ Alive /\ Fault("crash")
         /\ Stop("down")
         /\ UNCHANGED <<dbVars, file, ledger, workers>>

\* Scheduler.__init__ of the next process.  A local subprocess is presumed dead
\* with its parent; with the ghost fault it may have been orphaned instead.
Reset == IF Backend = "local" THEN Ended(attempts, Work, "lost") ELSE attempts

Restart ==
    /\ ~Alive
    /\ phase # "down" => Fault("restart")
    /\ phase = "down" => UNCHANGED faults
    /\ phase' = "idle"
    /\ limit' \in {limit} \cup EvalLimits
    /\ attempts' = Reset
    /\ workers' \in IF Backend = "condor" THEN {workers}
                    ELSE IF "ghost" \in Faults THEN SUBSET workers ELSE {{}}
    /\ UNCHANGED <<state, reopens, rejections, verdict, nodes,
                   file, ledger, todo, retry, capped, pc, cur>>

\* run() has returned and nobody resumes it.
Rest == /\ phase \in {"capped", "quiesced"}
        /\ UNCHANGED vars

--------------------------------------------------------------------------------
SeatHandler(l) == \/ SeatInfraFailed(l) \/ SeatAlreadyConcluded(l) \/ SeatExits(l)
                  \/ SeatDelivers(l)    \/ SeatRejected(l)
ExpHandler(d)  == \/ IngestRaises(d)    \/ ExpInfraFailed(d)
                  \/ ExpExhausted(d)    \/ ExpJudged(d)
HandlerStage   == \/ LaunchAdjudication \/ SeatCorrected   \/ SeatCutOff
                  \/ CutOffSucceeded    \/ ExpSucceeded    \/ CloseExhausted
                  \/ ResolveAccepted    \/ ResolveParked   \/ ResolveBudget
                  \/ ResolveReopened    \/ ResolveRejected \/ Archive \/ Submit
Start          == \/ \E l \in Lease : Allocate(l) \/ Reactivate(l)
                  \/ \E w \in Work : ResubmitSkipped(w) \/ RecordAttempt(w)
PhaseStep      == \/ EnterRetry \/ EnterAllocate \/ EnterPollSeats
                  \/ EnterPollExps \/ EnterReopen \/ EndStep
                  \/ \E w \in Work : PollMiss(w) \/ ResultUnread(w)

\* Everything the scheduler process does by itself, between two reconciliations.
SchedulerStep == \/ \E l \in Lease : SeatHandler(l)
                 \/ \E d \in Delivery : ExpHandler(d)
                 \/ HandlerStage \/ Start \/ PhaseStep

WorkerStep(w) == \E n \in 1..Len(attempts[w]) : WorkerEnds(w, n)

Environment == \/ \E w \in Work : WorkerStep(w)
               \/ \E job \in workers : WorkerDies(job[1], job[2])
               \/ Interrupt \/ Crash \/ Restart

Next == \/ SchedulerStep \/ ReconcileAll \/ ReconcileSome \/ ReconcileGhost
        \/ Environment \/ Rest

Spec == Init /\ [][Next]_vars

\* The scheduler's loop runs on, a worker ends, a step finds the dead jobs whose
\* grace is over (reconcile is deterministic: the choice stands for the clock
\* and the queue), and a scheduler that died is started again.
FairSpec == /\ Spec
            /\ WF_vars(SchedulerStep)
            /\ WF_vars(ReconcileSome)
            /\ SF_vars(ReconcileAll)
            /\ WF_vars(phase = "down" /\ Restart)
            /\ \A w \in Work : WF_vars(WorkerStep(w))
--------------------------------------------------------------------------------
(* Properties.                                                             *)

Phases == {"idle", "ingest", "retry", "allocate", "pollSeats", "pollExps",
           "reopen", "down", "capped", "quiesced"}
Stages == {"none", "adjudicate", "rejected", "cut_off", "exhausted", "judged",
           "close", "resolve", "record", "submit", "archive"}

\* The tables of the run database, the directory and the scheduler's volatile
\* state hold values of their columns and fields.
TypeOK == /\ state \in [Lease -> States]
          /\ reopens \in [Lease -> 0..MaxReopens]
          /\ rejections \in [Lease -> Nat]
          /\ verdict \in [Delivery -> {"none", "open"} \cup Verdicts]
          /\ nodes \subseteq Delivery
          /\ attempts \in [Work -> Seq(AttemptStatus)]
          /\ limit \in EvalLimits \cup {NoLimit}
          /\ file \in [Work -> Files]
          /\ ledger \in [Work -> Nat]
          /\ workers \subseteq Work \X Nat
          /\ faults \in Nat
          /\ phase \in Phases
          /\ todo \subseteq Work /\ retry \subseteq Work
          /\ capped \in BOOLEAN
          /\ pc \in Stages
          /\ cur \in Work \cup {NoWork}
          /\ pc = "none" <=> cur = NoWork

\* The single-writer scheduler never starts a second attempt beside a running
\* one, on any of its four ways to start one: a running attempt is the last.
OneRunIn(table) == \A w \in Work : \A n \in DOMAIN table[w] :
                      table[w][n] = "running" => n = Len(table[w])
SingleFlight == OneRunIn(attempts)

\* The deliveries a lease has behind it at reopen count k were all rejected, and
\* it has none beyond the next.
RejectedUpTo(l, k) == \A i \in 1..MaxReopens + 1 :
                         /\ i <= k => verdict[<<l, i>>] = "gate_rejected"
                         /\ i > k + 1 => verdict[<<l, i>>] = "none"

\* The lease row and the experiment rows agree although they are written in
\* different transactions: a lease works on a world only while no experiment
\* of it is undecided, waits only for the experiment of its reopen count, and
\* closes as delivered or rejected only on the verdict that says so.
MatchesVerdicts(l) ==
    LET now == verdict[Current(l)]
    IN /\ RejectedUpTo(l, reopens[l])
       /\ state[l] \in {"unallocated", "researching", "reopen",
                        "concluded_abstain"} => now = "none"
       /\ state[l] = "awaiting_adjudication" => now # "none"
       /\ state[l] = "concluded_delivered" => now = "completed"
       /\ state[l] = "concluded_rejected" =>
             now = "gate_rejected" /\ reopens[l] = MaxReopens
       /\ state[l] = "concluded_cut_off" => now \in {"none", "gate_rejected"}
LeaseMatchesVerdicts == \A l \in Lease : MatchesVerdicts(l)

\* While a delivery is judged its author is parked: no attempt of the seat
\* runs, and the only experiment that may run is that of the delivery.
RunsOnlyDelivery(l) ==
    /\ state[l] \in {"unallocated", "awaiting_adjudication"} => ~Running(Seat(l))
    /\ \A i \in 1..MaxReopens + 1 :
          Running(<<l, i>>) => /\ state[l] = "awaiting_adjudication"
                               /\ i = reopens[l] + 1
OnlyTheDeliveryRuns == \A l \in Lease : RunsOnlyDelivery(l)

\* A child node exists for a delivery exactly when its experiment completed,
\* and its author's lease can then only be concluded as delivered.
NodeMeansDelivered ==
    \A l \in Lease : \A i \in 1..MaxReopens + 1 :
       /\ <<l, i>> \in nodes => /\ i = reopens[l] + 1
                                /\ state[l] \in {"awaiting_adjudication",
                                                 "concluded_delivered"}
       /\ verdict[<<l, i>>] = "completed" => <<l, i>> \in nodes

\* A lease closes once and a verdict is given once: neither is taken back.
Final == [][/\ \A l \in Lease : state[l] \in Concluded => state'[l] = state[l]
            /\ \A d \in Delivery : verdict[d] \in Verdicts => verdict'[d] = verdict[d]]_vars

\* "Scientific status is untouched (still pending/running)" (store.py, on an
\* attempt that failed as infrastructure): such a failure moves no verdict.
FailureIsNoVerdict == [][\A d \in Delivery : ExpInfraFailed(d) => verdict' = verdict]_vars

\* The detailed scheduler is an implementation of the lease protocol.
RefinesProtocol == Protocol!Spec

\* Between two handlers, an attempt that nothing will end: no worker, no job and
\* no result remains of it, or its lease or experiment was settled without it.
Phantom(w)   == /\ Running(w) /\ ~Unreaped(w)
                /\ ledger[w] = 0 /\ <<w, Len(attempts[w])>> \notin workers
Settled(w)   == /\ Running(w)
                /\ IF w \in Seats THEN state[w[1]] \in Concluded
                                   ELSE verdict[w] \in Verdicts
\* A result that cannot be read is read again at every step: its attempt runs for
\* ever, and no other is started.
Unreadable(w) == file[w].kind = "torn"
Left(w)      == Unreadable(w) \/ (pc = "none" /\ (Phantom(w) \/ Settled(w)))

\* A verdict is committed and its lease was not moved, or an attempt is left.
Abandoned(l) == \/ /\ pc = "none" /\ state[l] = "awaiting_adjudication"
                   /\ verdict[Current(l)] \in Verdicts
                \/ \E w \in Work : w[1] = l /\ Left(w)

\* Every lease that was bought is closed in the end, or the run ends at its cap.
\* A scheduler that stopped between the transactions of a verdict, or between the
\* record and the submission of an attempt, or a result that cannot be read, is
\* all that keeps a lease open.
LeaseConcludes ==
    \A l \in Lease :
       state[l] = "researching" ~> \/ state[l] \in Concluded
                                   \/ phase = "capped" \/ Abandoned(l)

\* A run whose limit is set and reached ends, unless such an attempt is left or a
\* result cannot be read.
CappedRunEnds == CapReached ~> \/ phase \in {"capped", "quiesced"}
                               \/ \E w \in Work : Left(w)
--------------------------------------------------------------------------------
(* The inductive invariant: what the handler in hand and the list of a     *)
(* phase remember about the tables they were computed from.                *)

\* The experiment d decides the fate of its lease.
Deciding(d) == /\ d \in Delivery
               /\ d = Current(d[1])
               /\ state[d[1]] = "awaiting_adjudication"

StageOK == /\ pc \in {"adjudicate", "rejected", "cut_off", "record"} => cur \in Seats
           /\ pc = "rejected" => state[cur[1]] # "awaiting_adjudication"
           /\ pc = "record" => state[cur[1]] = "researching" /\ ~Running(cur)
           /\ pc \in {"judged", "exhausted", "resolve", "close"} =>
                 Deciding(cur) /\ verdict[cur] \in Verdicts
           /\ pc \in {"exhausted", "close"} => verdict[cur] = "gate_rejected"
           /\ pc \in {"resolve", "close"} => ~Running(cur)

TodoOK == phase \in IngestPhases =>
             \A w \in todo \ {cur} :
                IF w \in Seats THEN state[w[1]] # "awaiting_adjudication"
                               ELSE Deciding(w)

\* Read in a later transaction than it was computed in, the list of a phase and
\* the stage of a handler still describe the tables.
ListsStayTrue == StageOK /\ TodoOK

\* A scheduler that ends its running attempts when it starts, or that is never
\* stopped inside a step, meets no settled experiment with a running attempt.
SettledIsDone ==
    /\ \A d \in Delivery : verdict[d] \in Verdicts /\ Running(d) =>
          \/ phase = "down" /\ "crash" \in Faults
          \/ cur = d /\ pc \in {"judged", "exhausted"}
    /\ phase \in IngestPhases =>
          \A d \in Delivery \cap (todo \ {cur}) : verdict[d] = "open"
================================================================================
