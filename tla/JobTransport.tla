----------------------------- MODULE JobTransport -----------------------------
(***************************************************************************)
(* How logical work becomes a worker and a result comes back               *)
(* (simpleevo.jobs: base, local, condor, envelope; the reconciler's        *)
(* wait-or-retry and the scheduler's resubmission).  The scheduler records *)
(* an attempt, stages its manifest and launches it; locally that is a      *)
(* subprocess with a core to measure on, on the cluster a job whose id is  *)
(* kept in a ledger.  Nothing but a result file comes back: whether a      *)
(* worker without one is alive is asked of the queue, where there is one.  *)
(*                                                                         *)
(* All attempts of a work share its manifest, its result file and the      *)
(* temporary name the result is written under.                             *)
(***************************************************************************)
EXTENDS Naturals, FiniteSets

CONSTANTS Work,        \* the experiments
          Runs,        \* backend and experiments of a run, and as a bound its faults
          Cores,       \* the pool of cores is base = 1 .. Cores
          Inflight,    \* max_experiment_inflight
          MaxAttempts, \* bound: attempts of a work
          MaxLaunches, \* bound: attempts of all of them
          Faults       \* what may go wrong, see Fault

\* The scheduler dies, a worker is killed, a job is put on hold, the queue
\* answers without a job it has, it does not answer or answers with a status
\* that says nothing, condor_rm does not remove.
Fault == {"crash", "kill", "hold", "blind", "vague", "refuse"}

RunOf == [backend : {"local", "condor"}, work : SUBSET Work, faults : Nat]

TransportConstants ==
    /\ Runs \subseteq RunOf /\ Faults \subseteq Fault /\ IsFiniteSet(Work)
    /\ Cores \in Nat \ {0} /\ {Inflight, MaxAttempts, MaxLaunches} \subseteq Nat

ASSUME TransportAssumption == TransportConstants

VARIABLES
    backend,
    sched,    \* what the scheduler is in the middle of, and for which work
    todo,     \* works the reconciler decided to reattach in this step
    status,   \* the experiment's row
    last,     \* attempts recorded of each work
    att,      \* the row of each attempt
    manifest, \* the attempt whose request is staged
    job,      \* the worker of each attempt
    leases,   \* of the pool: who measures where, see Pin
    ledger,   \* jobs.json: the job on record, and since when it is missing
    tmp,      \* result.json.tmp: the file under that name, 0 when there is none
    file,     \* result.json, likewise
    content,  \* what is in each file
    hurt,     \* history: works a crash or a refused removal came between
    twins,    \* history: works that had two live workers at once
    unseen,   \* history: answers without the job on record since one that cleared it
    left      \* how many faults are still to come, at most

board == <<sched, todo, status, last, att>>
disk == <<tmp, file, content>>
history == <<hurt, twins, unseen, left>>
vars == <<backend, board, manifest, job, leases, ledger, disk, history>>

Attempts == 1 .. MaxAttempts
Jobs == Work \X Attempts
Idle == [do |-> "idle"]
For(do, w) == [do |-> do, work |-> w]

\* A job waits in the queue, has a process, is held, or is no more.
Waiting == {"queued"}
Live == {"run", "fill", "replace", "raised"}
InQueue == Waiting \union Live \union {"held"}

NoJob == [pc |-> "none", claim |-> 0, pin |-> 0, says |-> "none", on |-> 0]
Gone == [NoJob EXCEPT !.pc = "gone"]
NoEntry == [job |-> 0, gone |-> "no"]

LiveOf(w) == {n \in Attempts : job[<<w, n>>].pc \in Live}
Running(w) == {n \in Attempts : att[<<w, n>>] = "running"}
Spends(kind) == kind \in Faults /\ left > 0 /\ left' = left - 1

\* Files of a work: each worker has one open at a time, two have a name.
Inodes == 1 .. MaxAttempts + 3
Empty == [whole |-> FALSE, says |-> "none"]

-----------------------------------------------------------------------------
Init ==
    /\ \E run \in Runs :
           /\ backend = run.backend
           /\ left = run.faults
           /\ status = [w \in Work |-> IF w \in run.work THEN "queued" ELSE "done"]
    /\ sched = Idle /\ todo = {}
    /\ last = [w \in Work |-> 0]
    /\ att = [j \in Jobs |-> "none"]
    /\ manifest = [w \in Work |-> 0]
    /\ job = [j \in Jobs |-> NoJob]
    /\ leases = [w \in Work |-> 0]
    /\ ledger = [w \in Work |-> NoEntry]
    /\ tmp = [w \in Work |-> 0] /\ file = [w \in Work |-> 0]
    /\ content = [w \in Work |-> [i \in Inodes |-> Empty]]
    /\ hurt = {} /\ twins = {} /\ unseen = [w \in Work |-> 0] 

-----------------------------------------------------------------------------
\* Submission.  An attempt is on record before anything is staged for it.
Launchable(w) == /\ last[w] < MaxAttempts
                 /\ Cardinality({j \in Jobs : att[j] # "none"}) < MaxLaunches

Record(w) ==
    /\ Launchable(w)
    /\ last' = [last EXCEPT ![w] = @ + 1]
    /\ att' = [att EXCEPT ![<<w, last[w] + 1>>] = "running"]
    /\ status' = [status EXCEPT ![w] = "open"]
    /\ sched' = For("stage", w)

\* _drain_executor_queue: admitted work, up to the capacity.
Begin(w) ==
    /\ sched = Idle /\ status[w] = "queued"
    /\ Cardinality({j \in Jobs : att[j] = "running"}) < Inflight
    /\ Record(w)
    /\ UNCHANGED <<backend, todo, manifest, job, leases, ledger, disk, history>>

\* _resubmit_experiment, for what the reconciler could not find a result of at
\* the beginning of the step.
Resubmit(w) ==
    /\ sched = Idle /\ w \in todo
    /\ todo' = todo \ {w}
    /\ IF status[w] = "open" /\ Running(w) = {} /\ Launchable(w)
       THEN Record(w) ELSE UNCHANGED <<sched, last, att, status>>
    /\ UNCHANGED <<backend, manifest, job, leases, ledger, disk, history>>

Stage ==
    /\ sched.do = "stage"
    /\ manifest' = [manifest EXCEPT ![sched.work] = last[sched.work]]
    /\ sched' = For("launch", sched.work)
    /\ UNCHANGED <<backend, todo, status, last, att, job, leases, ledger, disk, history>>

\* Leases of the pool are given back when the process has ended.
Held(w) == leases[w] # 0 /\ job[<<w, leases[w]>>].pc # "gone"

Busy == {job[<<w, leases[w]>>].pin : w \in {v \in Work : Held(v)}}

\* _bench_pin_for: the first free core of the pool, the first of all when none is.
Pin == LET free == (1 .. Cores) \ Busy IN
       IF free = {} THEN 1 ELSE CHOOSE p \in free : \A q \in free : p <= q

Enqueued(w, pin) == [job EXCEPT ![<<w, last[w]>>] = [NoJob EXCEPT !.pc = "queued", !.pin = pin]]

LaunchLocal ==
    /\ backend = "local" /\ sched.do = "launch"
    /\ LET w == sched.work IN
       /\ job' = Enqueued(w, Pin)
       /\ leases' = [v \in Work |-> IF v = w THEN last[w] ELSE IF Held(v) THEN leases[v] ELSE 0]
    /\ sched' = Idle
    /\ UNCHANGED <<backend, todo, status, last, att, manifest, ledger, disk, history>>

\* condor_submit; what it prints is read before the job goes on record.
LaunchCondor ==
    /\ backend = "condor" /\ sched.do = "launch"
    /\ job' = Enqueued(sched.work, 0)
    /\ sched' = For("note", sched.work)
    /\ UNCHANGED <<backend, todo, status, last, att, manifest, leases, ledger, disk, history>>

RecordJob ==
    /\ sched.do = "note"
    /\ ledger' = [ledger EXCEPT ![sched.work] = [job |-> last[sched.work], gone |-> "no"]]
    /\ unseen' = [unseen EXCEPT ![sched.work] = 0]
    /\ sched' = Idle
    /\ UNCHANGED <<backend, todo, status, last, att, manifest, job, leases, disk, hurt, twins,
                   left>>

-----------------------------------------------------------------------------
\* Workers.  One reads the request when it is started, whichever is there.
Boot(w, n) ==
    /\ job[<<w, n>>].pc = "queued" /\ manifest[w] # 0
    /\ job' = [job EXCEPT ![<<w, n>>] = [@ EXCEPT !.pc = "run", !.claim = manifest[w]]]
    /\ twins' = IF LiveOf(w) = {} THEN twins ELSE twins \union {w}
    /\ UNCHANGED <<backend, board, manifest, leases, ledger, disk, hurt, unseen, left>>

\* _atomic_json opens the temporary name, truncating the file that has it,
\* whoever writes that one; writes; and moves whatever has the name by then.
\* A result that was not written is followed by the report of a failure.
Fresh(w) == CHOOSE i \in Inodes : i # tmp[w] /\ i # file[w]
                                  /\ \A n \in Attempts : job[<<w, n>>].on # i

Says(j) == IF j.pc = "raised" THEN {"failed"} ELSE {"ok", "failed"}

Open_InPlace(w, n) ==
    /\ job[<<w, n>>].pc \in {"run", "raised"}
    /\ \E says \in Says(job[<<w, n>>]) : LET i == IF file[w] = 0 THEN Fresh(w) ELSE file[w] IN
       /\ file' = [file EXCEPT ![w] = i]
       /\ content' = [content EXCEPT ![w][i] = Empty]
       /\ job' = [job EXCEPT ![<<w, n>>] = [@ EXCEPT !.pc = "fill", !.on = i, !.says = says]]
    /\ UNCHANGED <<backend, board, manifest, leases, ledger, tmp, history>>
Open(w, n) ==
    /\ job[<<w, n>>].pc \in {"run", "raised"}
    /\ \E says \in Says(job[<<w, n>>]) : LET i == IF tmp[w] = 0 THEN Fresh(w) ELSE tmp[w] IN
       /\ tmp' = [tmp EXCEPT ![w] = i]
       /\ content' = [content EXCEPT ![w][i] = Empty]
       /\ job' = [job EXCEPT ![<<w, n>>] = [@ EXCEPT !.pc = "fill", !.on = i, !.says = says]]
    /\ UNCHANGED <<backend, board, manifest, leases, ledger, file, history>>

\* Over what another wrote since, the text is whole or has the other's tail.
Fill(w, n) ==
    /\ job[<<w, n>>].pc = "fill"
    /\ LET i == job[<<w, n>>].on IN
       \E whole \in IF content[w][i] = Empty THEN {TRUE} ELSE BOOLEAN :
           content' = [content EXCEPT ![w][i] =
                          [whole |-> whole, says |-> IF whole THEN job[<<w, n>>].says ELSE "torn"]]
    /\ job' = [job EXCEPT ![<<w, n>>].pc = "replace"]
    /\ UNCHANGED <<backend, board, manifest, leases, ledger, tmp, file, history>>

\* A name that is no longer there raises: a result becomes the report of a
\* failure, which is not caught a second time.
Replace(w, n) ==
    /\ job[<<w, n>>].pc = "replace"
    /\ IF tmp[w] # 0
       THEN /\ file' = [file EXCEPT ![w] = tmp[w]] /\ tmp' = [tmp EXCEPT ![w] = 0]
            /\ job' = [job EXCEPT ![<<w, n>>] = Gone]
       ELSE /\ job' = [job EXCEPT ![<<w, n>>] =
                          IF @.says = "failed" THEN Gone ELSE [@ EXCEPT !.pc = "raised", !.on = 0]]
            /\ UNCHANGED <<tmp, file>>
    /\ UNCHANGED <<backend, board, manifest, leases, ledger, content, history>>

Serve(w, n) == Boot(w, n) \/ Open(w, n) \/ Fill(w, n) \/ Replace(w, n)

Ended(j, to) == [job EXCEPT ![j] = [NoJob EXCEPT !.pc = to]]

Kill(w, n) ==
    /\ job[<<w, n>>].pc \in Live /\ Spends("kill")
    /\ job' = Ended(<<w, n>>, "gone")
    /\ UNCHANGED <<backend, board, manifest, leases, ledger, disk, hurt, twins, unseen>>

Hold(w, n) ==
    /\ backend = "condor" /\ job[<<w, n>>].pc \in Waiting \union Live /\ Spends("hold")
    /\ job' = Ended(<<w, n>>, "held")
    /\ UNCHANGED <<backend, board, manifest, leases, ledger, disk, hurt, twins, unseen>>

-----------------------------------------------------------------------------
\* The reconciler: an open experiment without a result is asked for.
Asks(w) == sched = Idle /\ status[w] = "open" /\ file[w] = 0 /\ w \notin todo

OnRecord(w) == job[<<w, ledger[w].job>>].pc

\* Untracked, local: "unknown".
Waits(w) ==
    /\ Asks(w) /\ (backend = "local" \/ ledger[w].job = 0)
    /\ todo' = todo \union {w}
    /\ UNCHANGED <<backend, sched, status, last, att, manifest, job, leases, ledger, disk, history>>

\* A query that fails, and a status other than idle, running or held (of a job that
\* is suspended, or still listed when it is over): "unknown" as well, and the mark
\* of a missing job stays.
Vague(w) ==
    /\ Asks(w) /\ ledger[w].job # 0 /\ Spends("vague")
    /\ todo' = todo \union {w}
    /\ UNCHANGED <<backend, sched, status, last, att, manifest, job, leases, ledger, disk, hurt,
                   twins, unseen>>

\* Idle or running.
Seen_KeepsGone(w) ==
    /\ Asks(w) /\ ledger[w].job # 0 /\ OnRecord(w) \in Waiting \union Live
    /\ unseen' = [unseen EXCEPT ![w] = 0]
    /\ todo' = todo \union {w}
    /\ UNCHANGED <<backend, sched, status, last, att, manifest, job, leases, ledger, disk, hurt,
                   twins, left>>
Seen(w) ==
    /\ Asks(w) /\ ledger[w].job # 0 /\ OnRecord(w) \in Waiting \union Live
    /\ ledger' = [ledger EXCEPT ![w].gone = "no"]
    /\ unseen' = [unseen EXCEPT ![w] = 0]
    /\ todo' = todo \union {w}
    /\ UNCHANGED <<backend, sched, status, last, att, manifest, job, leases, disk, hurt, twins,
                   left>>

\* remove_job, then _mark_infra_failed.  condor_rm may do nothing; the entry is
\* dropped all the same.
Removes(w, cost) ==
    LET j == <<w, ledger[w].job>>
        Removed == /\ job' = IF job[j].pc \in InQueue THEN Ended(j, "gone") ELSE job
                   /\ left >= cost /\ left' = left - cost /\ hurt' = hurt
        Refused == /\ "refuse" \in Faults /\ job[j].pc \in InQueue
                   /\ left > cost /\ left' = left - cost - 1
                   /\ hurt' = hurt \union {w} /\ job' = job
    IN  /\ Removed \/ Refused
        /\ ledger' = [ledger EXCEPT ![w] = NoEntry]
        /\ sched' = For("mark", w)

\* The query did not show the job: it has left the queue, or the answer lacks it.
Unseen(w) == OnRecord(w) \in InQueue => "blind" \in Faults
Blindness(w) == IF OnRecord(w) \in InQueue THEN 1 ELSE 0
MissedAgain(w) == unseen' = [unseen EXCEPT ![w] = IF @ < 2 THEN @ + 1 ELSE @]

Misses(w) ==
    /\ Asks(w) /\ ledger[w].job # 0 /\ ledger[w].gone # "over"
    /\ Unseen(w) /\ left >= Blindness(w) /\ left' = left - Blindness(w)
    /\ ledger' = [ledger EXCEPT ![w].gone = IF @ = "no" THEN "since" ELSE @]
    /\ MissedAgain(w)
    /\ todo' = todo \union {w}
    /\ UNCHANGED <<backend, sched, status, last, att, manifest, job, leases, disk, hurt, twins>>

\* disappearance_grace_seconds go by.
Grace(w) == /\ ledger[w].gone = "since"
            /\ ledger' = [ledger EXCEPT ![w].gone = "over"]
            /\ UNCHANGED <<backend, board, manifest, job, leases, disk, history>>

GivesUpGone(w) ==
    /\ Asks(w) /\ ledger[w].job # 0 /\ ledger[w].gone = "over"
    /\ Unseen(w) /\ Removes(w, Blindness(w)) /\ MissedAgain(w)
    /\ UNCHANGED <<backend, todo, status, last, att, manifest, leases, disk, twins>>

GivesUpHeld_Waits(w) ==
    /\ Asks(w) /\ ledger[w].job # 0 /\ OnRecord(w) = "held"
    /\ todo' = todo \union {w}
    /\ UNCHANGED <<backend, sched, status, last, att, manifest, job, leases, ledger, disk, history>>
GivesUpHeld(w) ==
    /\ Asks(w) /\ ledger[w].job # 0 /\ OnRecord(w) = "held"
    /\ Removes(w, 0)
    /\ UNCHANGED <<backend, todo, status, last, att, manifest, leases, disk, twins, unseen>>

MarkFailed ==
    /\ sched.do = "mark"
    /\ att' = [j \in Jobs |-> IF j[1] = sched.work /\ j[2] = last[sched.work]
                                 /\ att[j] = "running" THEN "failed" ELSE att[j]]
    /\ todo' = todo \union {sched.work}
    /\ sched' = Idle
    /\ UNCHANGED <<backend, status, last, manifest, job, leases, ledger, disk, history>>

\* A whole result goes to the latest attempt, whoever wrote it, and the name is
\* cleared; a torn one is skipped.
Ingest(w) ==
    /\ sched = Idle /\ status[w] = "open" /\ file[w] # 0
    /\ content[w][file[w]].whole
    /\ LET ok == content[w][file[w]].says = "ok" IN
       /\ att' = [att EXCEPT ![<<w, last[w]>>] = IF ok THEN "succeeded" ELSE "failed"]
       /\ status' = [status EXCEPT ![w] = IF ok THEN "done" ELSE "open"]
    /\ file' = [file EXCEPT ![w] = 0]
    /\ content' = [content EXCEPT ![w][file[w]] = Empty]
    /\ UNCHANGED <<backend, sched, todo, last, manifest, job, leases, ledger, tmp, history>>

\* The scheduler is ended and started again: with local workers, which may
\* outlive it, every running attempt is presumed lost.
Crash ==
    /\ Spends("crash")
    /\ sched' = Idle /\ todo' = {}
    /\ leases' = [w \in Work |-> 0]
    /\ IF backend = "local"
       THEN /\ att' = [j \in Jobs |-> IF att[j] = "running" THEN "lost" ELSE att[j]]
            /\ \E die \in BOOLEAN :
                   job' = [j \in Jobs |-> IF die /\ job[j].pc \in Waiting \union Live
                                          THEN Gone ELSE job[j]]
            /\ hurt' = hurt \union {w \in Work : Running(w) # {}}
       ELSE /\ UNCHANGED <<att, job>>
            /\ hurt' = IF sched = Idle THEN hurt ELSE hurt \union {sched.work}
    /\ UNCHANGED <<backend, status, last, manifest, ledger, disk, twins, unseen>>

Reconcile(w) == \/ Waits(w) \/ Vague(w) \/ Seen(w) \/ Misses(w)
                \/ GivesUpGone(w) \/ GivesUpHeld(w)

Scheduler == \/ Stage \/ LaunchLocal \/ LaunchCondor \/ RecordJob \/ MarkFailed

Next == \/ \E w \in Work : Begin(w) \/ Resubmit(w) \/ Reconcile(w) \/ Ingest(w) \/ Grace(w)
        \/ Scheduler \/ Crash
        \/ \E w \in Work, n \in Attempts : Serve(w, n) \/ Kill(w, n) \/ Hold(w, n)

Spec == Init /\ [][Next]_vars

\* The scheduler goes on with what it does and comes back to every work, and
\* time passes.  Of the workers nothing is assumed: one may hang.
Visit(w) == Reconcile(w) \/ Resubmit(w) \/ Ingest(w)

FairSpec == /\ Spec /\ WF_vars(Scheduler)
            /\ \A w \in Work : SF_vars(Visit(w)) /\ WF_vars(Grace(w))

-----------------------------------------------------------------------------
\* Type correctness.
TypeOK ==
    /\ backend \in {"local", "condor"}
    /\ sched \in {Idle} \union [do : {"stage", "launch", "note", "mark"}, work : Work]
    /\ todo \subseteq Work
    /\ status \in [Work -> {"queued", "open", "done"}]
    /\ last \in [Work -> 0 .. MaxAttempts]
    /\ att \in [Jobs -> {"none", "running", "failed", "lost", "succeeded"}]
    /\ manifest \in [Work -> 0 .. MaxAttempts]
    /\ job \in [Jobs -> [pc : {"none", "queued", "run", "fill", "replace", "raised", "held", "gone"},
                         claim : 0 .. MaxAttempts, pin : 0 .. Cores,
                         says : {"none", "ok", "failed"}, on : {0} \union Inodes]]
    /\ leases \in [Work -> 0 .. MaxAttempts]
    /\ ledger \in [Work -> [job : 0 .. MaxAttempts, gone : {"no", "since", "over"}]]
    /\ tmp \in [Work -> {0} \union Inodes] /\ file \in [Work -> {0} \union Inodes]
    /\ content \in [Work -> [Inodes -> [whole : BOOLEAN, says : {"none", "ok", "failed", "torn"}]]]
    /\ hurt \subseteq Work /\ twins \subseteq Work
    /\ unseen \in [Work -> 0 .. 2] /\ left \in Nat

\* Two workers of one work at once, or a worker under another attempt's
\* request, take a crash between two steps of the scheduler or a removal that
\* did not happen: wrong answers of the queue never suffice (probe_job,
\* _wait_or_retry).
AloneUnlessHurt ==
    \A w \in Work \ hurt :
        /\ w \notin twins
        /\ \A n \in Attempts : job[<<w, n>>].claim \in {0, n}

\* A job that is not held is given up when two answers lacked it, and none that
\* showed it idle or running came between them (probe_job).
GoneTakesTwo ==
    [][\A w \in Work :
         ledger[w].job # 0 /\ ledger'[w].job = 0 => OnRecord(w) = "held" \/ unseen'[w] >= 2]_vars

\* A result that can be seen is whole, even of a worker that was killed while
\* it wrote; unless two of them wrote at once (_atomic_json).
WholeUnlessTwins ==
    \A w \in Work \ twins : file[w] # 0 => content[w][file[w]].whole

\* Two workers that a scheduler which never stopped has started measure on
\* different cores, when the pool has one for each (_bench_pin_for).
PinsExclusive ==
    backend = "local" /\ Cores >= Cardinality(Work) =>
        \A j, k \in Jobs : /\ j # k /\ {j[1], k[1]} \cap hurt = {}
                           /\ job[j].pc \in Live /\ job[k].pc \in Live
                           => job[j].pin # job[k].pin

\* Workers that nobody gave up work alone: on their work, their file, their cores.
Undisturbed == TypeOK /\ AloneUnlessHurt /\ WholeUnlessTwins /\ PinsExclusive

\* A worker on record that has died or is held does not keep its attempt on
\* record for ever (_wait_or_retry).
Orphaned(w) == /\ last[w] > 0 /\ att[<<w, last[w]>>] = "running"
               /\ ledger[w].job = last[w] /\ job[<<w, last[w]>>].pc \in {"held", "gone"}

DeadIsNoticed == \A w \in Work : Orphaned(w) ~> ~Orphaned(w) \/ w \in hurt
===============================================================================
