----------------------------- MODULE SupervisorTurn -----------------------------
(***************************************************************************)
(* One waking of the supervisor.  The scheduler hires a worker for a batch *)
(* of evidence and gives it the bounds of the batch only; the worker reads *)
(* the world from the database itself, one query after another, while the  *)
(* scheduler keeps stepping.  It then thinks for some steps, answers, and  *)
(* its answer is judged against the world of that later moment.  What      *)
(* makes this sound is that a judgment commits only while its batch is     *)
(* still the newest evidence: freshness has to stand in for a snapshot.    *)
(*                                                                         *)
(* GrowthGate is the scheduler's side of the same exchange, with its       *)
(* crashes and its cap, where a judgment is arbitrary; here the scheduler  *)
(* does not crash and what a judgment was drawn from matters.              *)
(*                                                                         *)
(* X_Y before a definition X is X with the mistake Y, used by no action.   *)
(***************************************************************************)
EXTENDS Integers, FiniteSets

CONSTANTS Node, Root,    \* the worlds a run may grow, and the first one
          Above,         \* [Node -> the nodes on its way to the root, with it]
          Lens,          \* the generator basis
          MaxSeats,      \* max_proposer_inflight
          MaxRetries,    \* supervisor_max_retries
          MaxSteps,      \* supervisor_steps
          MaxRepairs,    \* _MAX_PROTOCOL_REPAIRS
          MaxBuys,       \* seats named by one judgment: a bound, not in the code
          MaxEvents,     \* length of the event log: a bound, not in the code
          MaxHires,      \* workers of the run: a bound, not in the code
          MaxFaults      \* workers that die or are taken for dead

ASSUME TurnAssumption ==
    /\ Root \in Node /\ IsFiniteSet(Node) /\ IsFiniteSet(Lens)
    /\ Above \in [Node -> SUBSET Node]
    /\ \A n \in Node : n \in Above[n] /\ Root \in Above[n]
    /\ MaxSeats \in Nat /\ MaxRetries \in Nat \ {0}
    /\ MaxSteps \in Nat \ {0} /\ MaxRepairs \in Nat
    /\ MaxBuys \in Nat /\ MaxEvents \in Nat /\ MaxHires \in Nat /\ MaxFaults \in Nat

VARIABLES
    \* the run database
    head, cursor,  \* the newest supervisor event, and the last one consumed
    nodes,         \* the worlds that exist
    seat,          \* [Seat -> the state of its lease]
    idle,          \* researching seats whose attempt has failed
    running,       \* the hire whose attempt is running, 0 if none
    failed,        \* [Work -> its failed attempts]
    refused,       \* [Work -> its supervisor_decision_rejected events]
    \* the run directory
    file,          \* [Work -> its result.json]
    session,       \* supervisor/session: archive begun, author of the notebook
    \* the processes
    phase,         \* the part of step() that is running
    hired,         \* workers hired so far
    turn,          \* [Hire -> what its worker knows and does]
    faults,        \* faults so far
    reopened       \* leases taken up again so far (a history variable)

worldVars == <<head, nodes, seat, idle, reopened>>
gateVars  == <<cursor, running, failed, refused, hired>>
vars      == <<worldVars, gateVars, file, session, phase, turn, faults>>

--------------------------------------------------------------------------------
(* Data.                                                                   *)

Work == 1..MaxEvents
Hire == 1..MaxHires
Seat == Node \X Lens
Open == {"researching", "awaiting", "reopen", "judged"}

Judgments == [kind : {"growth"}, buys : {b \in SUBSET Seat : Cardinality(b) <= MaxBuys}]
                \cup [kind : {"other"}, buys : {{}}]
Failed == [kind |-> "failed", buys |-> {}]
None   == [kind |-> "none", buys |-> {}]
NoFile == [by |-> 0, says |-> None]

\* The reads of cli.main, in their order, and what follows them.
Reads  == <<"refusal", "events", "nodes", "ledger", "known", "bought", "untried",
            "stats", "free", "wake">>
Stages == {"off", "dead", "think", "note", "answer", "done"}
            \cup {Reads[i] : i \in DOMAIN Reads}
After(at) == Reads[1 + CHOOSE i \in DOMAIN Reads : Reads[i] = at]

\* A worker that has not begun.  base is the history of reopened at its last read.
Unborn == [at |-> "off", work |-> 0, from |-> 0, told |-> 0, heard |-> {},
           nodes |-> {}, ledger |-> [s \in Seat |-> "none"], burned |-> {}, menu |-> {},
           counted |-> {}, free |-> 0, base |-> 0,
           steps |-> 0, repairs |-> 0, says |-> None]

--------------------------------------------------------------------------------
(* What the queries return, here and in the scheduler.                     *)

Bought      == {s \in Seat : seat[s] # "none"}
Researching == {s \in Seat : seat[s] = "researching"}

\* queries.burned_lenses: own seats and those of the ancestry, open or not.
Burned(n) == {l \in Lens : \E m \in Above[n] : <<m, l>> \in Bought}

\* What the growth rule offers: in the scheduler, who alone adds worlds, at one moment.
Menu == {s \in Seat : s[1] \in nodes /\ s[2] \notin Burned(s[1])}

\* allocatable_node_facts and lens_stats_facts: no world is ever marked dead, and
\* of what the lenses have brought only which seats are counted is kept.
Allocatable == nodes
Counted     == Bought

\* seat_ledger_facts.
Ledger == [s \in Seat |-> IF seat[s] = "none" THEN "none"
                          ELSE IF seat[s] \in Open THEN "open" ELSE "finished"]

\* researching_open_allocation_count, which the facts and the scheduler share.
Capacity == MaxSeats - Cardinality(Researching)
Free == Capacity

\* inspect_run_status counts the running attempts of the seats instead.

--------------------------------------------------------------------------------
Init ==
    /\ head = 0 /\ cursor = 0
    /\ nodes = {Root} /\ seat = [s \in Seat |-> "none"] /\ idle = {}
    /\ running = 0 /\ hired = 0
    /\ failed = [w \in Work |-> 0] /\ refused = [w \in Work |-> 0]
    /\ file = [w \in Work |-> NoFile]
    /\ session = [begun |-> FALSE, notes |-> 0]
    /\ phase = "early"
    /\ turn = [h \in Hire |-> Unborn]
    /\ faults = 0 /\ reopened = 0

--------------------------------------------------------------------------------
(* The seats, as the scheduler ingests what they do: a result changes the  *)
(* lease and writes its event in one transaction.                          *)

Wake == head < MaxEvents /\ head' = head + 1
Elsewhere == UNCHANGED <<gateVars, file, session, phase, turn, faults>>
Ingesting == phase \in {"early", "late"}

RootReady == /\ phase = "early" /\ head = 0 /\ Wake
             /\ UNCHANGED <<nodes, seat, idle, reopened>> /\ Elsewhere

\* The worlds a delivery of node p may become; a rejection for good is no world.
Children(p) == {n \in Node \ {p} : p \in Above[n] /\ Above[n] \ {n} = Above[p]}

Becomes(s, to) == seat' = [seat EXCEPT ![s] = to]

\* A delivery parks the lease; it is no evidence.
SeatDelivers(s) == /\ Ingesting /\ seat[s] = "researching" /\ s \notin idle
                   /\ Becomes(s, "awaiting")
                   /\ UNCHANGED <<head, nodes, idle, reopened>> /\ Elsewhere

SeatJudged(s) == /\ Ingesting /\ seat[s] = "awaiting" /\ Wake
                 /\ \/ Becomes(s, "reopen") /\ UNCHANGED nodes
                    \/ /\ Becomes(s, "judged")
                       /\ nodes' \in {nodes} \cup {nodes \cup {n} : n \in Children(s[1]) \ nodes}
                 /\ UNCHANGED <<idle, reopened>> /\ Elsewhere

SeatCloses(s) == /\ Ingesting /\ seat[s] \in {"researching", "judged"} /\ s \notin idle
                 /\ Wake /\ Becomes(s, "closed")
                 /\ UNCHANGED <<nodes, idle, reopened>> /\ Elsewhere

\* An attempt fails and is started again at the next step: the lease holds its
\* seat meanwhile.
SeatFails(s) == /\ Ingesting /\ seat[s] = "researching" /\ s \notin idle
                /\ idle' = idle \cup {s}
                /\ UNCHANGED <<head, nodes, seat, reopened>> /\ Elsewhere
SeatRetried(s) == /\ phase = "early" /\ s \in idle
                  /\ idle' = idle \ {s}
                  /\ UNCHANGED <<head, nodes, seat, reopened>> /\ Elsewhere

\* _submit_pending_reopens: at the end of a step every lease sent back is
\* researching again, without asking for capacity and without an event.
SeatReopens(s) == /\ phase = "reopen" /\ seat[s] = "reopen"
                  /\ Becomes(s, "researching")
                  /\ reopened' = reopened + 1
                  /\ UNCHANGED <<head, nodes, idle>> /\ Elsewhere

StepEnds == /\ phase = "late" /\ phase' = "reopen"
            /\ UNCHANGED <<worldVars, gateVars, file, session, turn, faults>>
StepBegins == /\ phase = "reopen" /\ \A s \in Seat : seat[s] # "reopen"
              /\ phase' = "early"
              /\ UNCHANGED <<worldVars, gateVars, file, session, turn, faults>>
GateOpens == /\ phase = "early" /\ head > 0
             /\ phase' = "gate"
             /\ UNCHANGED <<worldVars, gateVars, file, session, turn, faults>>

--------------------------------------------------------------------------------
(* The worker: what it reads.                                              *)

Worker(h) == /\ turn[h].at # "off"
             /\ UNCHANGED <<worldVars, gateVars, phase, faults>>
Keeps     == UNCHANGED <<file, session>>

\* What a worker knew ends with it, or with the ingestion of its answer.
Over(h, at) == [Unborn EXCEPT !.at = at, !.work = turn[h].work, !.from = turn[h].from]

\* The answers of the queries at the stage a worker has reached.
Told_ByAttempt(h) == 0
Told(h)  == refused[turn[h].work]
Heard(h) == {e \in 1..head : turn[h].from < e /\ e <= turn[h].work}

\* untried_lens_facts asks three times: burned_lenses lists the worlds it knows, then
\* the seats bought, which burn some of theirs; then the worlds are listed again, and
\* of one that was not known nothing is burned.
OfWorlds(ns)  == {s \in Seat : s[1] \in ns}
BurnedIn(ss)  == {s \in ss : s[2] \in Burned(s[1])}
Offered(h)    == OfWorlds(nodes) \ turn[h].burned

Answered(h) ==
    LET at == turn[h].at
    IN CASE at = "refusal" -> [turn[h] EXCEPT !.told = Told(h)]
         [] at = "events"  -> [turn[h] EXCEPT !.heard = Heard(h)]
         [] at = "nodes"   -> [turn[h] EXCEPT !.nodes = Allocatable]
         [] at = "ledger"  -> [turn[h] EXCEPT !.ledger = Ledger]
         [] at = "known"   -> [turn[h] EXCEPT !.burned = OfWorlds(nodes)]
         [] at = "bought"  -> [turn[h] EXCEPT !.burned = BurnedIn(@)]
         [] at = "untried" -> [turn[h] EXCEPT !.menu = Offered(h), !.burned = {}]
         [] at = "stats"   -> [turn[h] EXCEPT !.counted = Counted]
         [] at = "free"    -> [turn[h] EXCEPT !.free = Free, !.base = reopened]

Read(h) == /\ turn[h].at \in {Reads[i] : i \in 1..9}
           /\ turn' = [turn EXCEPT ![h] = [Answered(h) EXCEPT !.at = After(turn[h].at)]]
           /\ Worker(h) /\ Keeps

\* resume: the batch goes to the archive; nothing of the archive is read back,
\* and the introduction with the goal is for an empty one.
Wakes(h) == /\ turn[h].at = "wake"
            /\ turn' = [turn EXCEPT ![h].at = "think"]
            /\ session' = [session EXCEPT !.begun = TRUE]
            /\ Worker(h) /\ UNCHANGED file

--------------------------------------------------------------------------------
(* The worker: how it thinks.  AgentRuntime.run and ResearchAgent._step.   *)

Thinking(h) == turn[h].at = "think"
HasStep(h)  == turn[h].steps < MaxSteps

\* A read-only tool.
Looks_Uncounted(h) == /\ Thinking(h) /\ HasStep(h)
                      /\ turn' = [turn EXCEPT ![h].repairs = 0]
                      /\ Worker(h) /\ Keeps
Looks(h) == /\ Thinking(h) /\ HasStep(h)
            /\ turn' = [turn EXCEPT ![h].steps = @ + 1, ![h].repairs = 0]
            /\ Worker(h) /\ Keeps

\* A reply _parse_action refuses is asked for again.
Repairs(h) == /\ Thinking(h) /\ HasStep(h) /\ turn[h].repairs < MaxRepairs
              /\ turn' = [turn EXCEPT ![h].repairs = @ + 1]
              /\ Worker(h) /\ Keeps

\* The call fails, the deadline passes or the repairs are spent: no account.
Raises(h) == /\ Thinking(h) /\ HasStep(h)
             /\ turn' = [turn EXCEPT ![h].at = "answer", ![h].says = Failed]
             /\ Worker(h) /\ Keeps

\* terminal, the handler of resume: a judgment becomes the result of the turn,
\* and a turn without one raises, which the worker reports as its failure.
Concludes(h, j) == turn' = [turn EXCEPT ![h].at = "note", ![h].says = j]

Submits(h) == /\ Thinking(h) /\ HasStep(h)
              /\ \E j \in Judgments : Concludes(h, j)
              /\ Worker(h) /\ Keeps

\* The steps are spent, or the wall nearly is: the notebook, and no judgment.
Exhausts(h) == /\ Thinking(h)
               /\ Concludes(h, Failed)
               /\ Worker(h) /\ Keeps

\* _checkpoint rewrites the notebook if there is time and the model obliges.
Notes(h) == /\ turn[h].at = "note"
            /\ session' \in {session, [session EXCEPT !.notes = h]}
            /\ turn' = [turn EXCEPT ![h].at = "answer"]
            /\ Worker(h) /\ UNCHANGED file

Answers(h) == /\ turn[h].at = "answer"
              /\ file' = [file EXCEPT ![turn[h].work] = [by |-> h, says |-> turn[h].says]]
              /\ turn' = [turn EXCEPT ![h].at = "done"]
              /\ Worker(h) /\ UNCHANGED session

WorkerStep(h) == Read(h) \/ Wakes(h) \/ Looks(h) \/ Repairs(h) \/ Raises(h)
                    \/ Submits(h) \/ Exhausts(h) \/ Notes(h) \/ Answers(h)

Fault == faults < MaxFaults /\ faults' = faults + 1

Dies(h) == /\ turn[h].at \notin {"off", "dead", "done"} /\ Fault
           /\ turn' = [turn EXCEPT ![h] = Over(h, "dead")]
           /\ UNCHANGED <<worldVars, gateVars, file, session, phase>>

--------------------------------------------------------------------------------
(* The gate: hiring.                                                       *)

Exhausted(w) == failed[w] >= MaxRetries
Hires(w, from) ==
    /\ hired < MaxHires
    /\ hired' = hired + 1 /\ running' = hired + 1
    /\ turn' = [turn EXCEPT ![hired + 1] = [Unborn EXCEPT !.at = Reads[1], !.work = w, !.from = from]]
AtGate == phase = "gate"
Passed == phase' = "late"

GateHires == /\ AtGate /\ running = 0 /\ head > cursor /\ ~Exhausted(head)
             /\ Hires(head, cursor) /\ Passed
             /\ UNCHANGED <<worldVars, cursor, failed, refused, file, session, faults>>

\* Nothing to judge, the retries are spent, or the worker has not answered.
GateRests == /\ AtGate
             /\ \/ running = 0 /\ (head = cursor \/ Exhausted(head))
                \/ running # 0 /\ file[turn[running].work] = NoFile
             /\ Passed
             /\ UNCHANGED <<worldVars, gateVars, file, session, turn, faults>>

\* The reconciler gives up on a worker that died, or that it takes for dead, and
\* the batch is handed to another one with the payload of the first.
Replaced == /\ phase = "early" /\ running # 0 /\ file[turn[running].work] = NoFile
            /\ IF turn[running].at = "dead" THEN UNCHANGED faults ELSE Fault
            /\ LET w == turn[running].work
               IN /\ failed' = [failed EXCEPT ![w] = @ + 1]
                  /\ IF failed'[w] < MaxRetries
                       THEN Hires(w, turn[running].from)
                       ELSE running' = 0 /\ UNCHANGED <<hired, turn>>
            /\ UNCHANGED <<worldVars, cursor, refused, file, session, phase>>

--------------------------------------------------------------------------------
(* The gate: judging an answer, which may be that of an earlier worker of  *)
(* the same batch.                                                         *)

Judging(w) == AtGate /\ running # 0 /\ turn[running].work = w /\ file[w] # NoFile
Said(w)    == file[w].says
Archived(w) == /\ file' = [file EXCEPT ![w] = NoFile]
               /\ turn' = [turn EXCEPT ![file[w].by] = Over(file[w].by, "done")]

OneLineEach(buys) == \A s, t \in buys : s # t /\ s[2] = t[2] =>
                        s[1] \notin Above[t[1]] /\ t[1] \notin Above[s[1]]
HonestWait(buys)  == buys # {} \/ Menu = {} \/ (\E s \in Seat : seat[s] \in Open)
Legal(buys) == /\ HonestWait(buys)
               /\ Cardinality(buys) <= Capacity
               /\ buys \subseteq Menu /\ OneLineEach(buys)
Valid(j) == j.kind = "other" \/ (j.kind = "growth" /\ Legal(j.buys))

\* Validation precedes freshness; a request or a review may also fail itself.
GateRefuses(w) ==
    /\ Judging(w) /\ (~Valid(Said(w)) \/ Said(w).kind = "other")
    /\ failed' = [failed EXCEPT ![w] = @ + 1]
    /\ refused' = [refused EXCEPT ![w] = @ + 1]
    /\ running' = 0 /\ Archived(w) /\ Passed
    /\ UNCHANGED <<worldVars, cursor, hired, session, faults>>

Stale_Never(w) == FALSE
Stale(w) == head # w

GateFindsStale(w) == /\ Judging(w) /\ Valid(Said(w)) /\ Stale(w)
                     /\ running' = 0 /\ Archived(w) /\ Passed
                     /\ UNCHANGED <<worldVars, cursor, failed, refused, hired, session, faults>>

GateCommits(w) == /\ Judging(w) /\ Valid(Said(w)) /\ ~Stale(w)
                  /\ cursor' = w
                  /\ seat' = [s \in Seat |-> IF s \in Said(w).buys THEN "researching" ELSE seat[s]]
                  /\ running' = 0 /\ Archived(w) /\ Passed
                  /\ UNCHANGED <<head, nodes, idle, reopened, failed, refused, hired, session, faults>>

--------------------------------------------------------------------------------
Seats == \E s \in Seat : \/ SeatDelivers(s) \/ SeatJudged(s) \/ SeatCloses(s)
                         \/ SeatFails(s) \/ SeatRetried(s) \/ SeatReopens(s)
Gate  == \/ GateHires \/ GateRests \/ Replaced
         \/ \E w \in Work : GateRefuses(w) \/ GateFindsStale(w) \/ GateCommits(w)

Next == \/ RootReady \/ Seats \/ GateOpens \/ StepEnds \/ StepBegins \/ Gate
        \/ \E h \in Hire : WorkerStep(h) \/ Dies(h)

Spec == Init /\ [][Next]_vars

\* A worker keeps running until it answers or dies.
FairSpec == Spec /\ \A h \in Hire : WF_vars(WorkerStep(h))

--------------------------------------------------------------------------------
TurnType == [at : Stages, work : 0..MaxEvents, from : 0..MaxEvents, told : Nat,
             heard : SUBSET Work, nodes : SUBSET Node,
             ledger : [Seat -> {"none", "open", "finished"}],
             burned : SUBSET Seat, menu : SUBSET Seat, counted : SUBSET Seat, free : Int, base : Nat,
             steps : 0..MaxSteps, repairs : 0..MaxRepairs,
             says : Judgments \cup {Failed, None}]

TypeOK ==
    /\ head \in 0..MaxEvents /\ cursor \in 0..head
    /\ nodes \subseteq Node
    /\ seat \in [Seat -> {"none", "closed"} \cup Open] /\ idle \subseteq Seat
    /\ hired \in 0..MaxHires /\ running \in 0..hired
    /\ failed \in [Work -> Nat] /\ refused \in [Work -> Nat]
    /\ file \in [Work -> [by : 0..MaxHires, says : Judgments \cup {Failed, None}]]
    /\ session \in [begun : BOOLEAN, notes : 0..MaxHires]
    /\ phase \in {"early", "gate", "late", "reopen"}
    /\ turn \in [Hire -> TurnType]
    /\ faults \in Nat /\ reopened \in Nat

\* "The staleness commit checks the same bound": a judgment that is committed was
\* drawn from the world it changes, though its author read that world query by
\* query and some time ago.  It was shown exactly the evidence it consumes, every
\* world there is and every seat that can be bought.
CommitsOnTruth == [][ \A w \in Work :
    cursor' = w /\ cursor # w =>
        LET t == turn[file[w].by]
        IN /\ t.heard = {e \in Work : cursor < e /\ e <= w}
           /\ t.nodes = nodes
           /\ t.menu = Menu ]_vars

\* What a worker was shown allows a judgment.
ShownOpen(t) == {s \in Seat : t.ledger[s] = "open"}
Drawn(j, t) == /\ j.kind = "growth"
               /\ j.buys \subseteq t.menu /\ OneLineEach(j.buys)
               /\ Cardinality(j.buys) <= t.free
               /\ j.buys = {} => t.menu = {} \/ ShownOpen(t) # {}

\* "Capacity and facts must not fork": a judgment that keeps to the facts it was
\* shown is refused only when the world has moved since: evidence arrived, or a
\* lease sent back took up its seat again.
RefusalIsOvertaken == [][ \A w \in Work :
    refused'[w] > refused[w] /\ Drawn(file[w].says, turn[file[w].by]) =>
        head # w \/ reopened > turn[file[w].by].base ]_vars

\* The judge and the judged see one world, at a commit and at a refusal.
JudgedOnTruth == CommitsOnTruth /\ RefusalIsOvertaken

\* "Without the recorded reason the session cannot see why its previous decision
\* was refused": the worker whose attempt is running has been told of the latest
\* refusal of its batch, also when workers that died or were given up lie between.
RetryIsTold == running # 0 /\ turn[running].at \notin {"dead", Reads[1]} =>
                  turn[running].told = refused[turn[running].work]

\* The facts of one worker are read one after another while seats are bought, closed
\* and reopened and worlds are born, and agree: the statistics count every seat of the
\* ledger, open or finished, and none is offered again on its world or below it,
\* except on a world that the worker was not shown - born between two of the queries,
\* it is offered with all its lenses - and then the evidence judged is overtaken.
FactsDoNotContradict == \A h \in Hire :
    LET t == turn[h]
    IN t.at \in {"wake", "think", "note", "answer", "done"} =>
        \A s \in Seat : t.ledger[s] # "none" =>
            /\ s \in t.counted
            /\ \A m \in t.menu : m[2] = s[2] /\ s[1] \in Above[m[1]]
                                   => m[1] \notin t.nodes /\ head > t.work

\* What a worker is told holds together: the facts with one another, and the
\* refusal it retries after with the batch it judges.
ToldTheTruth == TypeOK /\ FactsDoNotContradict /\ RetryIsTold

\* Whatever the model replies, a worker answers or dies.
TurnEnds == \A h \in Hire : turn[h].at # "off" ~> turn[h].at \in {"done", "dead"}

================================================================================
