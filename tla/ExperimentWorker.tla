---------------------------- MODULE ExperimentWorker ----------------------------
(***************************************************************************)
(* The worker of an experiment: simpleevo.assistant.cli with its runner,   *)
(* executor, evaluator, gates and git worktrees, and the part of the       *)
(* scheduler that starts it again and reads what it wrote.                 *)
(*                                                                         *)
(* All attempts of an experiment use one worktree path and one result      *)
(* file; all workers of a run use one clone, which the first of them       *)
(* makes: that of the baseline.  An attempt that the scheduler gave up may *)
(* still be alive when the next one begins.                                *)
(***************************************************************************)
EXTENDS Naturals, FiniteSets

CONSTANTS Experiments,     \* with the baseline
          Baseline,        \* the evaluation of the root, before the run
          MaxAttempts,     \* bound: how often a worker is started for each
          MaxAdjudications,\* max_adjudication_attempts
          Faults,          \* what may go wrong, see Fault
          MaxFaults        \* bound: how often

Fault == {"kill", "presume", "executor"}

WorkerConstants ==
    /\ Baseline \in Experiments
    /\ {MaxAttempts, MaxAdjudications, MaxFaults} \subseteq Nat
    /\ Faults \subseteq Fault

ASSUME WorkerAssumption == WorkerConstants

VARIABLES
    deliveries, \* the experiments that evaluate a delivered world
    store,    \* the run's clone: "none", "cloning", "bare" (no LFS objects),
              \* "partial" (some of them), "seeded"
    tree,     \* the worktree of each experiment
    at,       \* where each worker is, by <<experiment, attempt>>
    mine,     \* what it holds in memory
    last,     \* how many attempts each experiment has had
    att,      \* the row of each attempt
    file,     \* result.json of each experiment
    status,   \* the experiment's row
    verdict,  \* history: the result that decided it
    graded,   \* history: what evaluations of it came to
    raced,    \* history: the experiments that had two live workers at once
    cut,      \* history: whether a worker was killed while it made the clone
    spent     \* how many faults have happened

workerVars == <<deliveries, store, tree, at, mine, last, att, file, status, verdict, graded,
                raced, cut, spent>>

Ordinals == 1 .. MaxAttempts
Work == Experiments \X Ordinals

\* eval_only: nothing is implemented and nothing committed.
EvalOnly(e) == e = Baseline \/ e \in deliveries

\* Who made a worktree, whose edits it holds, and whether its LFS files are
\* still pointers.
NoTree == [by |-> 0, edits |-> {}, stubs |-> FALSE]

Blank == [changed |-> {}, commit |-> {}, seen |-> NoTree, outcome |-> "none"]

NoResult == [by |-> 0, outcome |-> "none", commit |-> {}, seen |-> NoTree]

Alive(w) == at[w] \notin {"off", "done", "dead"}

Failures(e) == Cardinality({n \in Ordinals : att[e, n] = "failed"})

-----------------------------------------------------------------------------
WorkerInit == /\ deliveries \in SUBSET (Experiments \ {Baseline})
              /\ store = "none"
              /\ tree = [e \in Experiments |-> NoTree]
              /\ at = [w \in Work |-> "off"]
              /\ mine = [w \in Work |-> Blank]
              /\ last = [e \in Experiments |-> 0]
              /\ att = [w \in Work |-> "none"]
              /\ file = [e \in Experiments |-> NoResult]
              /\ status = [e \in Experiments |-> "open"]
              /\ verdict = [e \in Experiments |-> NoResult]
              /\ graded = [e \in Experiments |-> {}]
              /\ raced = {} /\ cut = FALSE /\ spent = 0

scheduled == <<last, att, file, status, verdict>>
history == <<deliveries, graded, raced, cut, spent>>

Goto(w, to) == at' = [at EXCEPT ![w] = to]

\* The finally of ExperimentRunner.run removes the worktree once there is one.
Leave(w, outcome) == /\ Goto(w, "remove")
                     /\ mine' = [mine EXCEPT ![w].outcome = outcome]

\* initialize: a directory that exists is taken for the clone.
Initialize(w) ==
    /\ at[w] = "init"
    /\ \/ store = "none" /\ store' = "cloning" /\ Goto(w, "clone") /\ mine' = mine
       \/ /\ store = "cloning"
          /\ Goto(w, "write") /\ mine' = [mine EXCEPT ![w].outcome = "infra"]
          /\ store' = store
       \/ store \notin {"none", "cloning"} /\ Goto(w, "create") /\ UNCHANGED <<store, mine>>
    /\ UNCHANGED <<tree, scheduled, history>>

Clone(w) == /\ at[w] = "clone"
            /\ store' = "bare"
            /\ Goto(w, "seed")
            /\ UNCHANGED <<tree, mine, scheduled, history>>

Seed(w) == /\ at[w] = "seed"
           /\ store' = "seeded"
           /\ Goto(w, "create")
           /\ UNCHANGED <<tree, mine, scheduled, history>>

\* A worktree that is there is used, like a laboratory.
DropStale_Adopt(w) ==
    /\ at[w] = "create"
    /\ Goto(w, IF tree[w[1]] = NoTree THEN "add"
               ELSE IF EvalOnly(w[1]) THEN "evaluate" ELSE "execute")
    /\ UNCHANGED <<store, tree, mine, scheduled, history>>
\* _drop_stale: the path is cleared, whoever uses it.
DropStale(w) == /\ at[w] = "create"
                /\ tree' = [tree EXCEPT ![w[1]] = NoTree]
                /\ Goto(w, "add")
                /\ UNCHANGED <<store, mine, scheduled, history>>

\* worktree add, then _materialize_lfs: without a store of objects nothing is
\* replaced, without one of the objects it raises and the tree stays behind.
AddTree(w) ==
    /\ at[w] = "add"
    /\ IF tree[w[1]] = NoTree
       THEN /\ tree' = [tree EXCEPT ![w[1]] =
                            [by |-> w[2], edits |-> {}, stubs |-> store # "seeded"]]
            /\ Goto(w, IF store = "partial" THEN "write"
                       ELSE IF EvalOnly(w[1]) THEN "evaluate" ELSE "execute")
       ELSE tree' = tree /\ Goto(w, "write")
    /\ mine' = IF tree[w[1]] # NoTree \/ store = "partial"
               THEN [mine EXCEPT ![w].outcome = "infra"] ELSE mine
    /\ UNCHANGED <<store, scheduled, history>>

\* The agent holds the directory it was started in: in one made anew under it
\* nothing it writes arrives.
Execute(w) ==
    /\ at[w] = "execute"
    /\ tree' \in {tree, IF tree[w[1]].by = w[2]
                        THEN [tree EXCEPT ![w[1]].edits = @ \union {w[2]}] ELSE tree}
    /\ \/ Goto(w, "inspect") /\ UNCHANGED <<mine, spent>>
       \/ /\ "executor" \in Faults /\ spent < MaxFaults /\ spent' = spent + 1
          /\ Leave(w, "infra")
    /\ UNCHANGED <<deliveries, store, scheduled, graded, raced, cut>>

\* git status of the path, whoever's worktree lies there.
Inspect(w) ==
    /\ at[w] = "inspect"
    /\ LET there == tree[w[1]] IN
       \/ there = NoTree /\ Leave(w, "infra")
       \/ there # NoTree /\ there.edits = {} /\ Leave(w, "no_change")
       \/ /\ there.edits # {}
          /\ Goto(w, "commit")
          /\ mine' = [mine EXCEPT ![w].changed = there.edits]
    /\ UNCHANGED <<store, tree, scheduled, history>>

\* commit stages what inspect listed and refuses a tree that holds more.
Committable(w) == tree[w[1]].edits = mine[w].changed

Commit(w) ==
    /\ at[w] = "commit"
    /\ IF Committable(w)
       THEN /\ mine' = [mine EXCEPT ![w].commit = mine[w].changed]
            /\ Goto(w, "evaluate")
       ELSE Leave(w, "infra")
    /\ UNCHANGED <<store, tree, scheduled, history>>

\* The evaluation builds and runs in the worktree.
Evaluate(w) ==
    /\ at[w] = "evaluate"
    /\ IF tree[w[1]] = NoTree THEN Leave(w, "infra")
       ELSE /\ mine' = [mine EXCEPT ![w].seen = tree[w[1]]]
            /\ Goto(w, "grade")
    /\ UNCHANGED <<store, tree, scheduled, history>>

\* What an evaluation comes to: a command that fails or is cut off, an objective
\* that is missing, a gate that is not true, or nothing to complain of.
Grades == {"command", "objective", "gate", "passed"}

\* validate_baseline raises for an evaluation without executor, whatever it is
\* the evaluation of; apply_gates does not look at the objective.
Outcome(e, grade) ==
    IF EvalOnly(e) THEN IF grade = "passed" THEN "completed" ELSE "infra"
    ELSE IF grade \in {"passed", "objective"} THEN "completed" ELSE "gate_rejected"

Grade(w, grade) ==
    /\ at[w] = "grade"
    /\ Leave(w, Outcome(w[1], grade))
    /\ graded' = [graded EXCEPT ![w[1]] = @ \union {grade}]
    /\ UNCHANGED <<deliveries, store, tree, scheduled, raced, cut, spent>>

Remove(w) == /\ at[w] = "remove"
             /\ tree' = [tree EXCEPT ![w[1]] = NoTree]
             /\ Goto(w, "write")
             /\ UNCHANGED <<store, mine, scheduled, history>>

WriteResult(w) ==
    /\ at[w] = "write"
    /\ file' = [file EXCEPT ![w[1]] =
                    [by |-> w[2], outcome |-> mine[w].outcome,
                     commit |-> mine[w].commit, seen |-> mine[w].seen]]
    /\ Goto(w, "done")
    /\ UNCHANGED <<store, tree, mine, last, att, status, verdict, history>>

Step(w) == \/ Initialize(w) \/ Clone(w) \/ Seed(w) \/ DropStale(w) \/ AddTree(w)
           \/ Execute(w) \/ Inspect(w) \/ Commit(w) \/ Evaluate(w)
           \/ (\E grade \in Grades : Grade(w, grade))
           \/ Remove(w) \/ WriteResult(w)

\* The process is ended: what it was making stays as it is.
Kill(w) ==
    /\ Alive(w)
    /\ "kill" \in Faults /\ spent < MaxFaults /\ spent' = spent + 1
    /\ Goto(w, "dead")
    /\ store' \in IF at[w] = "seed" THEN {"bare", "partial"} ELSE {store}
    /\ cut' = (cut \/ at[w] \in {"clone", "seed"})
    /\ UNCHANGED <<deliveries, tree, mine, scheduled, graded, raced>>

-----------------------------------------------------------------------------
\* The run begins when the baseline has been measured; an experiment with no
\* running attempt gets its next one.
Start(e) ==
    /\ status[e] = "open" /\ last[e] < MaxAttempts
    /\ \A n \in Ordinals : att[e, n] # "running"
    /\ file[e] = NoResult
    /\ e = Baseline \/ status[Baseline] = "completed"
    /\ last' = [last EXCEPT ![e] = @ + 1]
    /\ att' = [att EXCEPT ![<<e, last[e] + 1>>] = "running"]
    /\ Goto(<<e, last[e] + 1>>, "init")
    /\ raced' = IF \E n \in Ordinals : Alive(<<e, n>>) THEN raced \union {e} ELSE raced
    /\ UNCHANGED <<deliveries, store, tree, mine, file, status, verdict, graded, cut,
                   spent>>

Exhausted_Beyond(e) == e \in deliveries /\ Failures(e) > MaxAdjudications + 1
Exhausted(e) == e \in deliveries /\ Failures(e) >= MaxAdjudications

\* The reconciler or the poll finds a result of an open experiment and gives it
\* to the latest attempt, whichever attempt wrote it.
Ingest(e) ==
    /\ status[e] = "open" /\ file[e] # NoResult /\ last[e] > 0
    /\ file' = [file EXCEPT ![e] = NoResult]
    /\ IF file[e].outcome = "infra"
       THEN IF Exhausted(e)
            THEN /\ status' = [status EXCEPT ![e] = "exhausted"]
                 /\ att' = [att EXCEPT ![<<e, last[e]>>] = "succeeded"]
                 /\ verdict' = verdict
            ELSE /\ att' = [att EXCEPT ![<<e, last[e]>>] = "failed"]
                 /\ UNCHANGED <<status, verdict>>
       ELSE /\ status' = [status EXCEPT ![e] = file[e].outcome]
            /\ verdict' = [verdict EXCEPT ![e] = file[e]]
            /\ att' = [att EXCEPT ![<<e, last[e]>>] = "succeeded"]
    /\ UNCHANGED <<store, tree, at, mine, last, history>>

\* The cluster reports the job gone.
Lost(e) == /\ last[e] > 0 /\ att[e, last[e]] = "running"
           /\ at[e, last[e]] = "dead" /\ file[e] = NoResult
           /\ att' = [att EXCEPT ![<<e, last[e]>>] = "failed"]
           /\ UNCHANGED <<store, tree, at, mine, last, file, status, verdict, history>>

\* It reports gone, or held, a job that still runs, or the scheduler restarted
\* and the job did not: the attempt is given up, the worker goes on.
Presume(e) == /\ e # Baseline
              /\ last[e] > 0 /\ att[e, last[e]] = "running"
              /\ Alive(<<e, last[e]>>) /\ file[e] = NoResult
              /\ "presume" \in Faults /\ spent < MaxFaults /\ spent' = spent + 1
              /\ att' = [att EXCEPT ![<<e, last[e]>>] = "failed"]
              /\ UNCHANGED <<deliveries, store, tree, at, mine, last, file, status, verdict,
                             graded, raced, cut>>

Schedule(e) == Start(e) \/ Ingest(e) \/ Lost(e)

WorkerNext == \/ \E w \in Work : Step(w) \/ Kill(w)
              \/ \E e \in Experiments : Schedule(e) \/ Presume(e)

WorkerSpec == WorkerInit /\ [][WorkerNext]_workerVars

\* A live process goes on, and the scheduler polls every experiment again.
WorkerFairSpec == /\ WorkerSpec
                  /\ \A w \in Work : WF_workerVars(Step(w))
                  /\ \A e \in Experiments : WF_workerVars(Schedule(e))

-----------------------------------------------------------------------------
Trees == [by : 0 .. MaxAttempts, edits : SUBSET Ordinals, stubs : BOOLEAN]

Outcomes == {"none", "infra", "no_change", "gate_rejected", "completed"}

Results == [by : 0 .. MaxAttempts, outcome : Outcomes, commit : SUBSET Ordinals,
            seen : Trees]

\* Type correctness.
WorkerTypeOK ==
    /\ deliveries \subseteq Experiments \ {Baseline}
    /\ store \in {"none", "cloning", "bare", "partial", "seeded"}
    /\ tree \in [Experiments -> Trees]
    /\ at \in [Work -> {"off", "init", "clone", "seed", "create", "add", "execute",
                        "inspect", "commit", "evaluate", "grade", "remove", "write",
                        "done", "dead"}]
    /\ mine \in [Work -> [changed : SUBSET Ordinals, commit : SUBSET Ordinals,
                          seen : Trees, outcome : Outcomes]]
    /\ last \in [Experiments -> 0 .. MaxAttempts]
    /\ att \in [Work -> {"none", "running", "failed", "succeeded"}]
    /\ file \in [Experiments -> Results] /\ verdict \in [Experiments -> Results]
    /\ status \in [Experiments -> {"open", "completed", "gate_rejected", "no_change",
                                   "exhausted"}]
    /\ graded \in [Experiments -> SUBSET Grades]
    /\ raced \subseteq Experiments /\ cut \in BOOLEAN /\ spent \in 0 .. MaxFaults

\* What a verdict was measured on is what its commit holds, the edits of one
\* attempt in a worktree of its own, whatever earlier attempts left behind;
\* unless two workers of the experiment were alive at once (_drop_stale).
VerdictIsOfItsCommit ==
    \A e \in Experiments \ raced :
        verdict[e].outcome \in {"completed", "gate_rejected"} =>
            /\ verdict[e].seen.edits = verdict[e].commit
            /\ verdict[e].commit = IF EvalOnly(e) THEN {} ELSE {verdict[e].by}
            /\ verdict[e].seen.by = verdict[e].by

\* A verdict on a tree of LFS pointers takes a worker that was killed while it
\* made the clone (initialize, _seed_lfs_store, _materialize_lfs).
StubsNeedACut ==
    \A e \in Experiments : verdict[e].seen.stubs => cut

\* A verdict is about the tree it names, whatever became of earlier workers.
VerdictIsSound == WorkerTypeOK /\ VerdictIsOfItsCommit /\ StubsNeedACut

\* A delivery that has been started is passed or closed, however many of its
\* evaluations fail (_adjudication_exhausted).
DeliverySettles ==
    \A e \in Experiments :
        e \in deliveries /\ last[e] > 0 ~> status[e] # "open"
=============================================================================
