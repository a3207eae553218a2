# Verification of SimpleEvolution

SimpleEvolution grows a tree of program versions ("worlds"). A single-writer
scheduler (`src/simpleevo/scheduler/loop.py`) steps over a SQLite run database
(`src/simpleevo/db/store.py`) and a run directory. Everything that costs model
calls runs in detached workers, local subprocesses or HTCondor jobs, which
answer only through a `result.json`. A supervisor decides which research seats
to buy, scientists study a world and deliver the next, adjudication experiments
judge it, and the verdict goes back to the lease of the seat and, as evidence,
to the supervisor. Beside that engine the repository holds the newer Scientist
(`src/scientist/`): one long conversation with a model, which engages
collaborators in detached processes and ends in a delivered world.

This directory holds TLA+ models of the protocols and algorithms the system's
correctness hangs on, their TLC configurations, and TLAPS proofs.

| module | what it models | implements | instance | proofs |
| --- | --- | --- | --- | --- |
| `LeaseLifecycle` | the lease of a seat: purchase, exits, adjudication, write-back, retries | `LeaseProtocol` | `MCLeaseLifecycle` | `LeaseLifecycleProofs` |
| `GrowthGate` | the event log, the supervisor's wake-up, its judgment, the decision transaction, the ends of a run | | `MCGrowthGate` | `GrowthGateProofs` |
| `Integration` | integration requests, Integrators, queued proposals, the candidate's experiment, epochs | `IntegrationProtocol` | `MCIntegration` | `SeatContextProofs` |
| `Frontier` | frontier policies and the baseline allocation without a supervisor | | `MCFrontier` | `FrontierProofs` |
| `JobTransport` | how work becomes a process or a cluster job, and how its result or its death is noticed | | `MCJobTransport` | `TransportProofs` |
| `ExperimentWorker` | the worker of an experiment: clone, worktree, executor, gates, verdict | | `MCExperimentWorker` | `FrontierProofs` |
| `SeatEpisode` | the worker of a seat: laboratory, inheritance, agent loop, hands, ledger, result | `SeatProtocol` | `MCSeatEpisode` | `WorkerProofs` |
| `SeatContext` | what that seat's model is shown, compaction, the archive | | `MCSeatContext` | `SeatContextProofs` |
| `SupervisorTurn` | one waking of the supervisor: facts read query by query, thinking, judgment | | `MCSupervisorTurn` | `AgentProofs` |
| `Conversation` | the Scientist's episode: loop, wire log, view, exit contract, relaunch | | `MCConversation` | `AgentProofs` |
| `Engagements` | the Scientist's collaborators: directories, processes, reports | `EngagementProtocol` | `MCEngagements` | `EngagementsProofs` |
| `ModelCall` | one call of the model client: attempts, deadline, streams | | `MCModelCall` | `TransportProofs` |

Run `tlc -workers 2 -config X.cfg MCY.tla` (the pairs are in `PROJECT.json`) and
`tlapm <...>Proofs.tla`. `PROJECT.json` lists runs, theorems, the source lines of
each definition, and hazards. A *mutant* there is a definition `X_Y` that stands
directly before `X` in a module, is used by no action, and is `X` with the
plausible mistake `Y`: putting it in place of `X` breaks the property it is
listed with.

## Inventory

### Components, their state and operations

**Scheduler loop** (`scheduler/loop.py`). State: step counter,
`_durable_cap_reached`; everything else is re-read from the database.
`step()` reconciles, ingests results on disk, presents the root, installs
limits, derives the cap, retries lost work, runs the gate, schedules
Integrators, polls seats and Integrators, drains the executor queue, polls
experiments, resolves integrations, starts reopened seats. `run()` repeats it
until the run is stalled, capped and drained, or quiescent. Correct when it ends
only then, and ends.

**Research leases** (`db/store.py`, the allocation and experiment verbs). State:
`proposer_allocations` (state, reopen count), `experiments`, `proposals`,
`attempts`. Operations: buy, exit (deliver, abstain, cut off), mint the
adjudication of a delivery, judge, write back (accept, reopen, close), correct a
bad exit once, cut off. Correct when each delivery is judged by one experiment,
the verdict reaches its lease, each bought lease closes once, and lease and
experiment rows agree at every moment.

**Reconciler and job backends** (`scheduler/reconcile.py`, `jobs/`). State:
manifests, result files, the cluster's job ledger, the pool of cores.
Operations: submit, probe, remove, presume dead. Correct when a lost job is
noticed, no work gets a second worker beside a live one, and a result that can
be seen is whole.

**Supervisor growth gate** (`loop.py`, `store.py`). State: `supervisor_events`
and the cursor, `supervisor_decisions`, attempts, the stall event, `run_limits`.
Operations: append evidence in the transaction of the change it reports; wake a
worker on the unconsumed batch; validate its judgment; commit the decision, its
leases, request or review and the cursor together; retry, stall, discard.
Correct when all evidence is judged, each batch once and in order, by one
supervisor at a time, never on a stale view, never past a limit, never buying a
lens twice on a lineage.

**Supervisor worker and facts** (`src/supervisor/`, `host/research_agent.py`,
`host/agent_runtime.py`). State: the turn and its session. Operations: read
events, worlds, ledger and menu, think, answer or be repaired. Correct when what
is judged is what was shown.

**Integration and executor queue** (`loop.py`, `host/integrator*.py`,
`scheduler/queue.py`). State: `integration_requests`, `epochs`, proposals,
attempts. Correct when one request is open at a time, an answer stands, a
refused candidate closes its request and an epoch has one successor.

**Frontier** (`scheduler/frontier.py`). State: `frontier_axes`, derived from the
metrics of the nodes. Correct when it is the set the policy promises, and when
no world is studied twice at once.

**Seat worker** (`jobs/proposer_worker.py`, `host/scientist.py`,
`host/research_tools.py`, `host/lab.py`). State: laboratory, session, notebook,
call ledger, resource rows. Correct when nothing lived is lost by a kill or a
retry, and no conclusion is made that was not stated.

**Experiment worker** (`src/simpleevo/assistant/`). State: the run's clone, one
worktree and one result file per experiment. Correct when a verdict is about its
own commit.

**Scientist episode** (`src/scientist/agent.py`, `scientist_session.py`,
`ledger.py`, `native_tools.py`, `cli.py`). State: the conversation, its wire
log, the view and memory logs, the background commands. Correct when the model
is never shown an invalid conversation, a resume reads what was shown, and every
launch ends in a conclusion.

**Scientist engagements** (`src/scientist/assistant_tools.py`). State: a
directory per seat. Operations: launch, sweep, collect, cancel, continue, wait,
shut down. Correct when no seat works behind its report and each report is
heard.

**Model client** (`src/scientist/model.py`, `model_stdlib.py`). Correct when a
reply is the provider's answer, transient failures are retried, and a call ends.

**Graduation, memory, traces, reporting, CLI, ablation, proxy**: documents,
presentation, scripts; see "Not modelled".

### How they interact

The scheduler is the only writer of the run database during a run, but for the
head row and the resource rows of a seat's worker. Workers read it and write
`result.json`; the scheduler reads, ingests and renames it. Nothing calls back: a
worker's end is noticed by polling, its loss by the reconciler. Evidence flows
from leases and experiments into the event log inside the transaction that
changes them, and decisions flow back as leases and requests inside the
transaction that consumes the log. Within a worker, the agent loop calls the
model client and the tools; hands and experiments start processes of their own.

Each module takes the rest of the system as the choices it can make:

- `LeaseLifecycle` and `Integration` see a worker as a result file and a job;
  `SeatEpisode` and `ExperimentWorker` are what happens inside, `JobTransport`
  what happens between.
- `GrowthGate` takes any judgment; `SupervisorTurn` is where one comes from.
  `GrowthGate` moves a lease and a request in single steps; the steps within are
  those of `LeaseLifecycle` and `Integration`, and the latter in turn takes the
  gate as the choice to open, promote or retain.
- `Frontier` is the alternative to the gate, with leases as in `LeaseProtocol`.
- `SeatContext` is the conversation of `SeatEpisode`'s worker; `Conversation`
  and `Engagements` share a turn: in the first a collaborator is the reviewer
  the exit asks for, in the second the loop is its turns.

### What is hard

- A handler is several transactions, a spawned process and a rename; the
  scheduler may stop between any two of them, and restart with other limits.
- Lists computed at the start of a step are used after other handlers ran.
- A worker presumed dead may still answer; an answer belongs to an attempt that
  may be over; attempts share one manifest, one result file, one worktree.
- A judgment is formed on a batch, and on facts read one query after another,
  while evidence keeps arriving.
- Conversations are kept twice, in memory and in append-only files that a kill
  may tear, and are shortened by rules that must not split a turn.
- Calls of one turn run on threads beside each other and beside the processes
  they started.
- Everything must end: a lost job, a failing supervisor, a limit, a silent
  provider and a waiting decision all have to lead to a closed lease or to a
  visible stop.

`PROJECT.json` lists each place where one of these bites, with the properties
that watch it.

## The models

Conventions. One action is one transaction, one spawn, one rename, one append or
one call to a model, so that a crash or another process falls between any two. A
`CONSTANT` the comment calls a bound is not in the code. History variables are
marked as such. `pc` (`stage`, `at`) is the place in a handler, and the
variables that do not survive a crash are grouped under the process that holds
them. Where several sizes of one system are of interest (`Sizes`, `Scales`,
`Runs`, `Origins`, `Policies`, `Transports`), the initial state chooses, so that
one run covers all.

### LeaseLifecycle

`state`, `reopens`, `rejections`, `verdict`, `nodes`, `attempts` and `limit` are
columns of the database. `file`, `ledger` and `workers` are the run directory,
the cluster's ledger and live processes. `phase`, `todo`, `retry`, `capped`, `pc`
and `cur` are the volatile state of the scheduler: the part of `step()` in
progress, the works it still has to look at, and how far the handler in hand has
come. A unit of work is `<<lease, i>>`: `i = 0` is the seat, `i >= 1` the
experiment of its i-th delivery.

`SeatExits`, `SeatDelivers`, `SeatRejected`, ... are the outcomes of
`_ingest_seat_conclusion`; `ResultUnread` the return of both ingests on a file
that does not parse, after which nothing is marked or archived; `ExpJudged`,
`ExpSucceeded` and the `Resolve...` actions are the three transactions of
`_ingest_experiment_result`; `Allocate`, `RecordAttempt`, `Reactivate` and
`Submit` the four ways to start an attempt; `Reconcile...` the reconciler with
the cluster's probes. `IngestRaises` is a result whose handler raises at every
step: a crash loop, until an operator looks.

Abstractions. Pending and running experiments are both "open". A result that
says `no_change` takes the path of the result with the same effect; an outcome
that is not in the table is a failure that is not counted against the limit of
the evaluation (`ExpInfraFailed`), as in the code. Metrics are a choice between
the verdicts. `budget_usd` and the driver's `stop_allocating` act like the
evaluation limit. `Allocate` stands for whoever buys: the gate or the baseline.
The quiescence window only delays the end of a run and is left out.

### GrowthGate

A batch is named by its newest event: work `w` is `supervisor-<w>`, and a
judgment of it consumes the log up to `w`. `head` and `cursor` are the log;
`attempts`, `decisions`, `stall`, `limit`, `evals` tables; `seat[<<n, lens>>]`
the state of the lease bought for that question, `lineage[n]` the nodes from the
root to `n` (empty before `n` is born), `request[w]` the request
`ir-supervisor-<w>`, `epoch` and `base` the chain of promotions. A manifest and
a result carry the attempt whose payload minted their decision id, which is what
"the same decision id" means.

`SyncLimits` is `_sync_run_limits` with the derivation of the cap; `Retry...`
and `Resubmit` are `_resubmit_supervisor`; `Gate...` are the branches of
`_run_supervisor_gate`, `_ingest_supervisor_result` (which, unlike the other
ingests, rejects a file it cannot read) and `commit_supervisor_decision`;
`MarkSucceeded` and `Archive` the transactions that follow it; `EndStep` the end
of an iteration of `run()`. `Seat...`, `Integrat...` and `RootReady` produce
evidence. The judgment of a worker is any member of `Judgments`: the supervisor
is a model, so the gate must survive whatever it says.

Abstractions. A malformed purchase, an unknown lens, a duplicate or an
unreadable result is the failed judgment, which takes the same path. Nodes are
never dead (the code reads that status but never writes it). A failing
Integrator changes nothing the gate sees, and its success is one step. A request
whose proposal overflowed the queue is `dormant`: its row stays submitted, but no
work in flight counts it. `own` in a decision is history: whether it takes an
answer to the payload handed out last for its batch. `Cost` and `MaxFaults` are a
budget of faults, so that a run can allow one kind more often than another.

### Integration

`request`, `base`, `epoch`, `proposal`, `published`, `experiment`, `linked` and
`inFlight` are the database, `file`, `ledger` and `workers` the rest; a work is
`<<r, "integrator">>` or `<<r, "experiment">>`. `published` is the order of the
FIFO. The actions follow the order of `step()`: ingestion of experiments, retry,
the gate (`OpenRequest`, `Promote`, `Retain`), `Schedule`, the answers
(`AnswerRefused`, `Abstained`, `Publish`, `Finish`), `Overflow` and `Drain` with
`Link` and `RecordAttempt`, `Resolve`. `MeasuredTwice` is the result of an
experiment that a crash kept from being archived, ingested again; `ResultUnread`
is one that does not parse.

Adjudications of leases only take capacity (`MaxOthers`). The run's end is a
crash after which nobody need restart.

### Frontier

`Gepa` and `TopOf` are the two policies as operators over measured metrics,
`Rows` the table derived from them. `Compute` fixes the frontier of a step,
`PickIdle`, `Reseed` and `Skip` are one draw each, `Allocate` the purchase;
`Conclude`, `Deliver`, `Graduate`, `Resolve` and `WriteBack` the course of a
study. A draw takes any world of the frontier: the weights only change how
often. `proposal_slots = 0` and reopened seats, which may push usage over
`max_proposer_inflight`, are left out.

### JobTransport

`sched` and `todo` are the scheduler between record, stage, launch and note;
`manifest`, `leases` (the pool of cores), `ledger`, `tmp`, `file` and `content`
the run directory, with inodes, because a result is written under a temporary
name that two workers of one work share; `job` the workers. `Open`, `Fill` and
`Replace` are `_atomic_json`; `Seen`, `Misses`, `GivesUpGone`, `GivesUpHeld` and
`MarkFailed` are `probe_job` with its two-miss rule, the grace windows and
`_wait_or_retry`. The queue may answer without a job it has ("blind"), not answer
or give a status that is none of idle, running and held (`Vague`, which leaves the
mark of a missing job as it is), and a removal may do nothing ("refuse").

### ExperimentWorker

`at` and `mine` are the workers, by `<<experiment, attempt>>`; `store` is the
run's clone, `tree` the worktree of each experiment, `file` its result. Edits
are named by the attempt that made them, so that a verdict can be compared with
the tree it was measured on. `raced` and `cut` are history: experiments that had
two live workers, and a worker killed while it made the clone.

### SeatEpisode and SeatContext

`SeatEpisode` is `run_proposer_worker` from the laboratory to the result file.
What lasts: `lab`, `work` (its edits), `trail` and `note` (the session and the
notebook), `expected`, `head`, `calls`, `opened`, `raw` (the ledger, the
resource rows, the transcripts). `mem` is the worker's memory. `Wake` are the
steps before the first reply, `Turn` a reply, `Tool` what a tool does, `Finish`
what a conclusion writes. A reply is a member of `Replies` or does not parse.
`HasLedger` is FALSE because the worker builds its orchestrator without the
database and the lease, so a stated model never reaches the head row, whatever
`research_tools.py:637-640` says. `Kill` falls between any two. A reply that
repeats the call before to the letter is refused in the code; arguments are left
out, so that two calls of one tool may be carried out, and the repeat is among the
replies that do not parse.

`SeatContext` is the same worker by its messages. A message keeps what it is,
its turn, its length and the attempt that lived it; `due` is what has been said
and is not archived. `Assemble` is `assemble_research_context`, `Compacted` is
`compact_preserving_preamble` with `CapTail`, `Correct` a refused reply,
`Ponder` the nudges and the call. The round-based world event of
`scientist.py:1365-1591` is unreachable: `current_round` is always 0.

### SupervisorTurn

`turn[h]` is the h-th worker: what its queries returned, one field for each, in
the order in which the code reads them while the scheduler's steps go on. The menu
of untried lenses is three of these: the worlds, then the episodes that burn a lens
on them, then the worlds again (`known`, `bought`, `untried`; `burned` is what lies
between). `Menu` is the same rule at one moment, as the scheduler applies it.
`Gate...` judge the answer as `GrowthGate` does; `refused` are the
`supervisor_decision_rejected` events; `session` the archive and notebook that
the next worker wakes with. The scheduler does not crash here: that is
`GrowthGate`.

### Conversation

The conversation is held twice: `messages` is what the model is shown, `wire`
the file a resume rebuilds it from. A text is plain, quotes the view's marker,
or holds a separator at which `splitlines()` splits. Line logs tear when an
append is killed, and the next append is joined to the torn line. `Upserted`,
`Compacted`, `Repaired` and `Interrupted` are the functions over messages,
`CallStep` the tools on their threads, `Door` the exit contract, `Supervise`
the shell loop that relaunches the process. `DrainJob` and `JobExits` are the
background commands, `Engage` and `DrainHand` an executor sent into the live world,
`LateWrites` what either may change at any moment, and `loose` what was still at
work when the loop was left. `Compacted` is the loop of `_compact_native` as it
stands: it stops when what follows the next turn fits, so that the window it keeps
may exceed `Keep` by a turn. `heard` is what the door would find: no review, one
older than the newest mtime below `src/` ("no"), one that is younger ("yes"), or one
that is younger although `src/` was changed since, by a deletion or a file moved in
with its own mtime ("stale"). `clock` in a size tells a wall that leaves room for the
knock from one under half an hour, where the margin of the cut-off comes first.

### Engagements

`files[e]` and `digest[e]` are the directory of an engagement, `procs` and
`seat` the process, `call[t]` the thread of a call. No lock is held by the
launch or the finalizer, so each file operation is an action: `LaunchOpen`,
`Spawn`, `Register`, `Feed`; `Visit...`, `Reap`, `Sweep...`; `Record`,
`OpenDigest`, `WriteDigest`; `Take...`, `Mark`; `ContinueCheck`, `CancelCheck`.
`Crash`, `Interrupt` and `Resume` stop and start the harness, whose seats live
on. `late` are the seats past their time box, which a sweep then kills.

### ModelCall

Time is counted in ticks, `Second` of them in a second, so that what is left of
a deadline may be less than one. The timeout given to a transport bounds each
wait by itself, as a socket's does: to connect (`Connected`), for the head, for
the next bytes. The standard library's is a second at least (`Allowance`); the
SDK clients, which are built without `max_retries`, may post again by themselves
after a pause (`PostAgain`, `SdkWakes`). After a failure the loop goes on at
once: the delay is computed and printed, and nothing sleeps. `Skipped` is any
line of a stream that says nothing, as often as the provider likes. `Marks(k)`
is what an exception of kind `k` looks like to `_is_transient` on each
transport, `Assembled` the tool calls made of the fragments gathered in `slots`,
one per index. The provider may fail, stall, stop early or number no fragment.

## Runs

Every run checks the type invariant of its module, within the first named
property where it is part of a conjunction. Models with a crash-free core run
with the faults on: the run without them is part of it. Bounds are chosen so
that each fault can hit the first attempt and be followed by a second.

| run | what it shows | instance, and why it is enough |
| --- | --- | --- |
| `lease` | `SingleFlight`, `LeaseMatchesVerdicts`; `RefinesProtocol`; every lease closes, and a capped run ends (`LeaseConcludes`, `CappedRunEnds`) | one lease, on the cluster (where more can go wrong), one reopen (the second delivery is the first that can be confused with another), with and without a limit of one evaluation, every pair of faults, among them a result that cannot be read and an outcome that is not in the table |
| `growth` | one supervisor at a time; batches in order, no decision id twice, at most one answer to the latest payload of a batch; no lens twice on a lineage, honest rest; all evidence judged | three worlds (a lineage of three, or two branches), one lens, a batch, a late event and the batch after it; one of lost job, ghost, restart under another limit, or two crashes, which is what it takes for a batch to be decided twice |
| `integration` | `RefinesProtocol`; an open request is answered; a linked candidate is measured | two requests (two candidates of one epoch), one experiment at a time, a queue of one, either backend, one fault (an unreadable result among them) |
| `frontier` | one study of a world at a time, inheritance from finished studies, the frontier is the non-dominated set | three worlds, every measurement of two axes with opposite directions, also missing ones, both policies, one or two seats |
| `job_transport` | workers that nobody gave up work alone; two misses before a job is given up; a dead worker is noticed | two local works with a crash, one cluster work with three faults: the third is what it takes for a removal to fail after a wrong answer, and for an answer that says nothing to fall between two that lack the job |
| `experiment_worker` | a verdict is about its commit; pointers are measured only after a cut clone; a delivery settles | the baseline (which makes the clone) and one experiment, three attempts, one fault |
| `seat` | `RefinesProtocol`, `Accounted`, `LivedIsKept`; every attempt ends | two attempts, all origins, the seven kinds of reply that differ, one fault |
| `seat_context` | the framing and whole turns survive every compaction; the life shown is the life archived | two attempts, a window of two turns or six characters: three short turns reach the first limit alone, a long and a short one the second, a long turn alone is past it and kept |
| `supervisor_turn` | facts that agree with one another, judgments committed on the world they were drawn from, refusals only when overtaken; a worker ends | a root, a child that may be born, two lenses, two workers, one death |
| `conversation` | valid and replayable conversation, heard deliveries, one item per name, every launch concludes | five sizes, each for one part: records written by two threads with a kill; the way to the exit, with a background command and an executor in the live world; a wall under half an hour; two stops; texts that quote or split. With `Keep = 4` three turns of two calls (nine messages) reach every kind of cut |
| `engagements_turns` | no seat behind its report, recorded and heard once per life, one seat per session, none left at the exit; `RefinesProtocol`; every report is heard | four sizes: two launches; a launch, a continuation and a stop; two continuations; two calls in one turn |
| `model_call` | the reply is the provider's answer or the retries are used up; the attempts of a silent call share one deadline; every call ends unless its stream is kept alive | three transports, one call each, two parallel tool calls with two and one fragments, one retry, one repost and pause of the SDK, two seconds in four ticks: an attempt may begin with half a second left |

Some properties name a state in which they make no claim; each is a wreck that
the code really leaves and that no later step repairs:

- `LeaseConcludes`, `CappedRunEnds`: an attempt recorded and never submitted
  (`Phantom`), one whose lease or experiment was settled without it
  (`Settled`), a verdict whose lease was not moved (`Abandoned`), a result that
  cannot be read (`Unreadable`).
- `EvidenceJudged`: the gate is stalled and the run says so, the run has reached
  its limit, or an attempt was recorded and never submitted (`Orphaned`).
- `OpenIsAnswered`, `CandidateSettles`: the same attempt (`Phantom`), or an
  experiment measured twice, whose ingestion raises (`Wedged`); the second also a
  result of the experiment that cannot be read.
- `BatchDecidedOnce`: a second decision by an answer that is not its attempt's own,
  left by one that had ended (see "Observed limits").
- `HonestQuiescence`: an integration abstained or left dormant by the queue (see
  "Observed limits").
- `ToldTheTruth`: a world born between two reads of one worker may be on its menu
  with lenses burned above it; then the evidence judged is overtaken, and by
  `JudgedOnTruth` nothing is committed.
- `DeliveredHeard`: the change left no newer mtime below `src/`, a background command
  or an executor in the live world was at work when the loop was left, or the
  delivery was refused `MaxRefusals` times first.
- `CallEnds`: a provider that keeps the stream alive for ever (`KeptAlive`).
- `CallsStayPaired`, `ReplaysExactly`, `OneItemPerName`: a text that quotes the
  view's marker, a torn or split line.
- `RecordedOncePerLife`, `HeardOncePerLife`, `OneSeatPerSession`: two calls in
  one turn, which race.
- `AloneUnlessHurt`, `WholeUnlessTwins`, `VerdictIsOfItsCommit`: a crash between
  two steps of a launch, two live workers on one work.

The properties quote a comment or a document of the repository where it states
them. Where the code falls short of one, the property states what does hold, and
"Observed limits" the rest. Two sentences are also stated as they stand, beside what
holds instead, and are not run: `NeverTwice` (the design's, in `GrowthGate`) and
`RetriesBackOff` (the docstring's, in `ModelCall`). TLC violates both on the
instances of `growth` and `model_call`.

Invariants proved for every value of the constants and not run again:
`OnlyTheDeliveryRuns`, `ListsStayTrue`, and, with the premises given under
"Proofs", `SettledIsDone`, `Final`, `FailureIsNoVerdict`, `NodeMeansDelivered`
(leases); `CappedDecidesNothing`, `EpochsChain` (gate, where reviews are not in
the run: their kinds `promote` and `retain` are covered by the proofs, and by
`integration`); `EpochsChain` of `Integration`.

## Fairness

Each fair specification assumes what the program or its platform does by itself,
and never that a model says something useful.

- Leases, gate, integration: the scheduler's own steps happen (one process, one
  loop, which waits for nothing but the clock); a live worker ends (each has a
  timeout: `agent_timeout_seconds`, step limits, the cluster's own); a scheduler
  that is *down* is started again (its operator resumes a run); with strong
  fairness, a reconciliation finds the dead jobs (`ReconcileAll`): grace windows
  delay the finding, so each may find some and leave others, but a job that
  stays dead outlives its window. Evidence is not fair: nobody promises that a
  seat ends while the gate is looking. Judgments may fail for ever; then the gate
  stalls, which `EvidenceJudged` allows.
- `JobTransport`: the scheduler goes on with what it began, visits each work
  again and again (strong fairness: other works come between), and grace windows
  pass. Nothing is assumed of workers or of the queue's answers, but that wrong and
  empty ones are finitely many (`MaxFaults`): a queue that never answers shows
  nobody that a job is dead.
- `ExperimentWorker`: workers run, and the scheduler visits each experiment.
- `SeatEpisode`: the worker goes on. Models and tools are bounded by steps,
  repairs and the clock.
- `SupervisorTurn`: each worker goes on.
- `Conversation`: the process goes on, until it is stopped. Nothing is assumed
  of background commands or of the operator.
- `Engagements`: each call and the loop go on, and time passes: a seat ends or
  outlives its box. Seats need not exit by themselves, the Scientist need not
  conclude, and nobody need resume an interrupted run.
- `ModelCall`: the client's steps and the clock. Nothing is assumed of the
  provider: a call to which nothing is said ends because of the timeouts, and one
  whose stream goes on for ever without a word need not end.
- `Frontier` and `SeatContext` are checked for safety only.

## Proofs

All theorems hold for every value of the constants that satisfies the modules'
assumptions (natural bounds, known kinds), and so for any number of leases,
worlds, lenses, requests, events and faults. `FrontierProofs`, `TransportProofs`,
`SeatContextProofs` and `AgentProofs` are about two modules each: they extend
both, whose names are apart (hence `WorkerSpec`, `CallSpec`, `IntegrationSpec` and
`EpisodeSpec`), and no argument about the one uses a definition of the other.

**Leases.** `SingleFlight`, `LeaseMatchesVerdicts`, `OnlyTheDeliveryRuns` and
`ListsStayTrue` are inductive only together (`Inv`, theorem `Safety`): a handler
is safe to start an attempt because the list that named the work is still true,
the list is still true because handlers in between touch other leases, and rows
agree because the handler knows at which stage of its three transactions it is.
The proof has one lemma per group of handlers and frame lemmas for the leases a
handler does not touch.

The refinement of `LeaseProtocol`, `Final`, `FailureIsNoVerdict` (an attempt
that failed, or whose outcome is not in the table, moves no verdict) and
`NodeMeansDelivered` need that no verdict is taken back (`VerdictsStand`): a
reported failure or unknown outcome puts its experiment back to pending whatever
its status was (`store.py:1205-1222`), so no result about to be ingested may be
one of a settled experiment. The premise `VerdictsAreSafe` is the weakest one:
the local backend, or a cluster on which not all of crash, ghost and reported
failure (or unknown outcome) may happen. With all three TLC shows a verdict
taken back: a crash between a verdict and the mark of its attempt leaves the
attempt running, and a worker that was presumed dead reports a failure over it.
`NoVerdictTakenBack` has three arguments. On the local backend, or without
crashes, a settled experiment has no running attempt (`SettledIsDone`). Without
reported failures and unknown outcomes there is nothing to prove. Without ghosts
an experiment has one worker at a time (`OneWorker`): it is of the latest
attempt, which runs and has no result, so no result is ever overwritten; the
failure an experiment was closed on was its last (`LastFailure`) and closes it
again at most; and what the reconciler kept for the retry phase runs or has no
result (`Retryable`), so a new attempt never finds an old file. TLC checked each
of these invariants under its premise before it was proved; the run `lease`
checks the refinement on a cluster where all of them may happen, but at most two
in a run.

**Growth gate.** `TypeCorrect`, then one strengthening per property:

| theorem | strengthening, and why it is needed |
| --- | --- |
| `OneGate` | none: each start is guarded by "nothing is running" in the same step |
| `LineageDedup` | `BoughtStays`: what a decision bought is a seat for ever and its node keeps its lineage, so the snapshot a later judgment is validated on contains it |
| `DecidedOnce` | `HandedOut`: decisions lie at or below the cursor, a payload is minted above it only, and a decision that was its attempt's own answer has the id handed out last |
| `NeverDecidedTwice` | `BatchInv`: the attempt of a decided batch is over except between its commit and its mark |
| `CapHolds` | `CapKnown`: from the derivation of the cap to the end of the gate neither limits nor evaluations change |
| `ChainHolds` | `Superseded`: what was promoted was based on an epoch before the current one |
| `HonestWithoutReviews` | `WaitIsHonest`: when the log is consumed, no lens is left, or a lease or an integration is open or one was abstained or overflowed the queue; every other end is an event, as a request is made at the head of its batch and one that passed, was promoted or was closed has moved it |

`DecidedOnce` is unconditional: no crash makes two answers to one payload count, nor
one decision id twice, and batches never go back. That a batch is decided once at all
(`NeverDecidedTwice`) takes the local backend or no crash inside a step. On the
cluster the attempt survives a scheduler that stopped between the commit and the
mark; the result of an attempt that had ended, which another crash left on file or a
ghost wrote, is then read as its successor's and commits under its own decision id,
since the head has not moved. Two crashes are enough: TLC finds such a run of
`NeverTwice` on the instance of `growth`.
`HonestWithoutReviews` assumes that the supervisor reviews no candidates: a review
consumes its batch without the check that a wait is honest (see "Observed
limits"), and a run with reviews may rest with lenses left.

**Integration.** `RequestTypes`, `ChainOfEpochs` and `Refinement`. The invariant
says, for each stage of a handler, what it remembers: the request under
publication is open, the experiment being linked is unlinked, the attempt being
marked is that of a decided result; and, for the chain, that every epoch below
the current one was left by exactly one promoted request. It holds on both
backends and under all faults, since a result of one request names that request.

**Job transport.** `Transport` (`Undisturbed`) and `GivesUp` (`GoneTakesTwo`),
for every number of works, attempts, cores and faults; a run's works are assumed
finite in number, as they are. A work that no crash and no refused removal came
between has one worker (`OneWorker`): it is of the latest attempt, that attempt
is on record as running and has no result yet, the scheduler is not in the
middle of it, and locally its lease of a core is that worker's. A work that never
had two live workers has one writer (`OneWriter`): what has the temporary name
is the file its worker has open, never the file that is the result. Exclusive
cores take both: works with a worker hold a lease each, so with a core for every
work one that has none leaves a core free (`CoreLeft`, a pigeonhole), and the
first free one is leased to nobody (`PinIs`). That a file to be opened exists at
all (`Fresh`) is counted in `FreshIs`. For `GivesUp` it is enough that an entry
marked missing has been missed at least once since the job was last shown idle or
running (`BoardOK`). TLC checked the invariant on the run's instance before it was
proved. Of the hazards of this component, what can happen to a work after a
crash or a refused removal is outside these theorems by their statement: the
code does not prevent it (see the limits below).

**Frontier.** `OneStudy` and `FrozenParent` share the invariant that a node's
episodes made before its newest one are finished (`OlderFinished`), that a parent
is finished before its heir opens (`ParentFinished`), and what the step between
creation and allocation holds in its hand (`HandOK`). That the newest episode of
a node exists and is unique is the well-ordering of the naturals
(`WellFoundedInduction`).

`RightFrontier` needs no strengthening but the types: the members are computed
in the step that stores them, and the proof is about the two policies
themselves, for every tree and every measurement: a finite set of measured worlds
has a best one, what is kept is not dominated, and what is not kept is no axis's
best.

**Supervisor worker.** A worker's facts come from ten reads, between which the
scheduler goes on. `Truth` (`ToldTheTruth`) and `Judged` (`JudgedOnTruth`) rest
on one invariant, `TInv`: who was hired for which batch and whose answer is on
file (`HiresOK`); as long as a worker's batch is the newest evidence and is not
decided, each read it has made still shows the world as it is (`ShownAsItIs`);
and, however old, the reads agree with one another since seats and worlds are
only ever added (`FactsHold`): what a seat of the ledger burns is still burned
on every world the worker was shown, and a world it was not shown came with
evidence. A commit happens only then, hence on the world shown; a refusal of a
judgment that keeps to what it was shown takes later evidence or a reopened
lease. The tree, the lenses and their finiteness are assumed, nothing else.

**Seat worker.** `Accounting` (`Accounted`) from `IInv`: a running attempt has no
conclusion yet, a hand that is out is the tool the batch waits for, an end is
entered only after the statement (`EndOK`), and transcript, ledger row and answer
come in this order under an id no earlier answer has (`BooksOK`). `Implements`:
every step is a step of `SeatProtocol` or a stutter, through kills, failed
attempts and raised tools. `Lived`: no step replaces rows of an own session.

**Engagements.** The calls of one turn run in threads over one directory tree;
the proof is for any number of them. `Invariant` (`IInv`) says what each stage of
each verb has in hand (`ShapeOK`, `HandOK`), that directory, manifest, process,
report and marker come in this order (`SeatOK`), that two launches never hold
the same directory (`Apart`), and that exit and recovery work alone, the exit
over a list that has every seat still running (`TurnOK`). This gives that no seat
runs behind its report and that none outlives the episode. The rest of
`Consistent` is claimed for episodes with one call a turn, as the code does not
keep it otherwise: there `Single` says that a call's list holds only what it may
still report (`ListOK`, `OwnOK`), counts what a report's rows and readings can
be in one life of the process (`CountOK`), and that no two open seats share a
session (`SessionOK`); it is inductive only together with `IInv` (`AloneInv`,
which TLC checked on the run's instance before it was proved). `Sound` is
`Consistent` as a whole, `Implements` the refinement of `EngagementProtocol`.

**Experiment worker.** `Verdicts` (`VerdictIsSound`): all attempts of an
experiment share a worktree, and an attempt that was given up may still write to
it, so the invariant is about who may rely on what. As long as an experiment
never had two live workers, the worktree is that of the live one and holds at
each stage what that stage takes it to hold (`Own`, `OwnTree`); a worker that may
build does so in a clone that has its objects or that a killed worker left
(`Usable`); only the baseline makes the clone, with one worker at a time, and
nobody else starts before it was measured (`CloneOK`); a result and a verdict
carry this on after the worktree is gone (`ResultOK`).

**Model client.** `SilenceShared` (`SilenceIsShared`) from `TimesOK` and `OnTime`:
until the provider has spoken, the clock and what was left of the deadline when the
attempt began add up to no more than the deadline and what its posts have waited so
far. What one attempt may wait (`Longest`) is twice its timeout for each post, and
the pauses in between; one that begins with less than a second left waits for a
second. `TransientRetried`, and `Answered`, which is
`AnsweredOrTried`. Its invariant `ReplyInv` says that while a stream is read
every call of the answer has a slot of its own that holds exactly what arrived of
it, and that no other slot holds anything. That the
pieces of a call, put one after the other, are the whole of it needs only that
each step appends the next one (`OnePieceMore`).

**Seat context.** `WakesUpWhole` (`WakesWhole`) and `Archives`
(`LifeIsArchived`), from one invariant, `IInv`, which TLC checked on the run's
instance before it was proved. What of a list is told, or lived, is `Only`, a
recursive function over its prefixes; that it goes through a join, keeps a list
all of whose messages pass and drops one none of whose does is an induction over
the set of lengths for which this holds (`OnlyJoin`, `OnlyAll`, `OnlyNone`).
Compaction is the list itself, or its messages before the first reply and those
from the beginning of some unit on (`CompactedIs`): all the proof needs to know
of it, so the theorems hold for any sizes, limits and scores of units. The parts of
the invariant: what was told comes before the first reply, and only an
observation is cut in the archive (`ToldFirst`), so that a cut behind the first
reply loses nothing of it; a turn that is about to be shed from ends the list and
is the current one (`JustKept`), so that the latest turn survives; what
an attempt archives is its own and the archive it wakes to is that of others
(`InTurn`); a worker that is gone has nothing unwritten (`AtRest`);
and what the attempt remembers is what it was told, then something it shed, then
what it is still shown (`Remembers`), the form in which `LifeIsArchived` is
inductive.

**Conversation.** `EpisodeConsistent` (`Consistent`), `EpisodeReplaysExactly`
(`ReplaysExactly`) and `EpisodeNamesOnce` (`OneItemPerName`), for every size of
run, bound of the loop, number of stops and kind of text. What repair,
compaction and the filters over messages return is computed prefix by prefix;
the lemmas about them are inductions over the set of lengths for which they hold
(`WellFoundedInduction`), and say what appending one message does. The invariant
is `Conversing`: a conversation is a framing, turns with all their results, and
at most one open turn at the end (`Conv`, with the calls that still wait); this
holds of what the model is shown and of `OnFile`, what a resume would read, and
the same calls wait in both while a turn is under way (`AtWork`), none between
the turns (`AtRest`), and none at a cold start, whose framing is on file as far
as it was recorded (`AtOpen`). `Replay` relates the two: the conversation is
what is on file without the turns that compaction shed. It is needed in this
form since a kill may fall between any two lines: a resume completes exactly the
calls that wait on file. `TextsKnown` carries the premise that no text quotes
the view's marker or splits a line. The other parts stand alone. `ItemNames`:
names on the wire, in answers that wait and in the call that holds the record
lock are apart. `ViewShown`: wherever the model is about to think the view rows
before it are the latest one on file. `HeardOut`: a delivery that leaves the
loop looked heard at the door or has one of its excuses, the refusals are all on
the wire as long as it is whole, and what could still undo it is on the list of
what was at work (`loose`).

**Only model-checked**: liveness, since fairness and ENABLED are out of the prover's
reach; and the refinement of the leases with a crash, a ghost and a failure on a
cluster, beyond the premise of its theorem, where it holds for the two faults at a
time of the run and not for all three.

## Observed limits of the code

Met while modelling. Most are outcomes the models reach and the properties
allow for; none is a promise of a property above on the instance it is checked on.

*Leases.* A crash between `record_attempt` and the submission leaves an attempt
no probe finds dead. A verdict committed before a crash whose lease was not
moved is not looked at again, and a failure that comes late for it takes it
back, although `store.py:1213` says that it is untouched. One exit is ingested
twice after a crash before its archive, and a bad exit then counts twice. A
terminal experiment with a running attempt makes the store raise at every step.
A delivery rejected while the run is capped is not written back, also after the
limit is raised. A capped run still resubmits lost workers (`loop.py:159-162`
says not). Reopened seats and adjudications start without asking for capacity.
`max_adjudication_attempts` counts failed results, not lost jobs. A
`result.json` that does not parse, of a seat or an experiment, is neither marked
nor archived (`loop.py:1261-1265, 1384-1388`): it is read again at every step,
its attempt runs for ever, and a capped run does not end. An outcome that is not
in the table puts the experiment back without the limit of failed evaluations,
so that it may go on for ever.

*Gate.* An abstained integration writes no event, and neither does one whose
proposal overflows the queue, whose request stays submitted while nothing in
flight counts it: `run()` may rest with lenses left. A review consumes its batch
without the check that a wait is honest. On the cluster an attempt recorded and
never submitted blocks the gate. Attempts lost with a local scheduler count
towards its exhaustion. A committed growth judgment that is read again finds its
own lenses bought and counts as a failure. Two crashes on the cluster let a
retry decide its batch twice, although the tree-growth design says "retries
cannot create duplicate decisions" (section 10).

*Integration.* A submission published before a crash is refused as a duplicate
of itself. An experiment created before a crash may never be linked
(`loop.py:1184`). An overflowed proposal leaves its request submitted for ever.
Retries of experiments ignore capacity; retries of Integrators are unbounded.

*Frontier.* Two deliveries of the same sha make the second ingest raise
(`nodes.sha` is unique, `store.py:1919`). The branch for bootstrap rows is dead.

*Supervisor.* The menu of untried lenses is three queries on connections of their own
(`facts.py:85-96`, `queries.py:384-410`): a world born in between is offered with
all lenses, also those its lineage has bought, against the ledger read before.
`inspect_run_status` counts capacity its own way. A reopen may race
a judgment. The goal is only given when the archive is empty, so a retry after a
torn first waking may never learn it.

*Jobs.* A job that the queue shows with a status other than idle, running and
held keeps its mark of a missing one (`condor.py:263-284`), so that two misses
with such an answer between them drop it. A job whose submission failed, printed
no id, or crashed is not on the ledger; nor is one popped by `remove_job` whose
attempt is not yet marked. A torn result is never archived, and its work stays.
Local workers may outlive the scheduler; a local worker that dies silently is
noticed by a restart only. The pool of cores forgets orphans.

*Experiment worker.* Two live workers of one experiment share its path. A kill
during the clone leaves it without, or with some of, its LFS objects. A delivered
world that fails its gate is reported as a failed machine; a crash or timeout of
a candidate's evaluation counts as a scientific rejection.

*Seat.* A resource row stays open when its call raises. Caps on hands are per
attempt, although `base.py:203-204` calls them the lease's. A half-made
laboratory is adopted; a kill within the copy leaves a partial inheritance. A
repair past the deadline fails the attempt. Call ids start anew, so that the
first hand of a retried seat may clash. A handoff is replayed twice after a kill.
A root seat that is retried is told that no experiments were run. A reply whose
observation was not archived stays without one.

*Scientist.* A text that quotes the view's marker removes a tool result; one
with U+2028 or U+0085 loses rows on a resume (against
`tests/scientist/test_persistence_contract.py:29-31`). A torn last line is
joined to the next append; a torn event lets an id be used again. Background
commands outlive the process, and their ids start anew. The door does not ask
whether an executor works in the live world: one that does may write after the
check, until the `finally` kills it (`agent.py:403-424, 895-909`). It compares
modification times of what is below `src/`, and sees neither the deletion of an
entry of `src/` nor a file moved in with its own time. With a wall under half an
hour the margin of the cut-off exceeds the threshold of the knock, and the
episode is cut off without one. The window that `_compact_native` keeps may
exceed `compact_keep_messages` by a turn. `int(limit)` in `search_experiments`
raises outside a `try`. Two calls of one turn may record an engagement twice, or
open two seats on one session. A world may be reclaimed under a continuation. A
report filed in the last step is not read.

*Model client.* Retries do not wait: the delay is computed and printed ("retrying
in ..."), and no `sleep` follows (`model.py:206-220`), although the docstring promises
exponential backoff (`model.py:151-152`); eight retries may be spent in no time on a
gateway that is down for a second. A deadline is overshot by an attempt that begins
in its last second (`max(1.0, remaining)`, `model_stdlib.py:161, 183`), by an SDK
that posts again by itself, by a reply whose parts each take their time, and by the
second post after a 400, which takes the timeout of the first. A stream that is kept
alive is read without a look at the deadline (`model.py:316`, `model_stdlib.py:203`),
for ever if it goes on for ever. The standard-library transport does not retry a
connection that fails; a truncated stream is accepted; a call without argument bytes
is parsed as `{}`.

## Not modelled

- **Graduation** of a delivered world into research-state evidence
  (`store.py:1093-1128`): a transaction of its own that reads no state of the
  lease.
- **Memory services, research state**: documents agents read. The legacy verbs
  of the Scientist's judgment, its searches and the experiment archive only look
  or lie outside the loop's contract.
- **Self-review and reflection** of a seat: no scheduler calls them.
- **Containers and mounts**, decoding of the assistant's stream, the text of job
  files and of prompts, facts and reports; the arithmetic of metrics; `claude
  --resume`, taken to find its session again.
- **Traces, reporting, configuration, command line**: parsing and presentation.
- **Ablation driver, forward proxy, probes, benchmarks and examples**: scripts
  around the system. The proxy relays bytes.
- `max_steps` of `run()` (an option of tests) and the second child node of a
  candidate that is evaluated again.
