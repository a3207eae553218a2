------------------------------ MODULE SeatEpisode ------------------------------
(***************************************************************************)
(* The worker of a lease's seat: simpleevo.jobs.proposer_worker, the       *)
(* process the scheduler starts for every attempt, with the agent loop     *)
(* (host/agent_runtime.py, host/research_agent.py, host/scientist.py), the *)
(* research tools, the assistant's two hands and the laboratory.           *)
(*                                                                         *)
(* A lease is served by a sequence of attempts: the first, a retry after a *)
(* failed or lost one, a reopened one after a rejected delivery.  Memory   *)
(* starts anew with each; the laboratory, the session files, the head row, *)
(* the call ledger, the resource rows and the transcripts last.            *)
(*                                                                         *)
(* LeaseLifecycle models the scheduler's side: of this worker it sees the  *)
(* result file alone.                                                      *)
(***************************************************************************)
EXTENDS Naturals, Sequences

CONSTANTS MaxAttempts,  \* bound: how often the worker is started
          MaxSteps,     \* scientist_steps
          MaxRepairs,   \* _MAX_PROTOCOL_REPAIRS
          MaxConsults,  \* lease_max_consult_calls
          MaxWorks,     \* lease_max_work_calls
          Replies,      \* the replies that parse, see Reply
          Origins,      \* the origins the seat may have, see Origin
          Faults,       \* what may go wrong, see Fault
          MaxFaults     \* bound: how often

Fault == {"kill", "model", "assistant", "db"}

\* "run" stands for the seat's own shell and its readers, "fresh" for work() in
\* a side world.
Tools == {"run", "register", "consult", "work", "fresh"}

Terminals == {"deliver", "abstain"}

\* A batch of tools, or one terminal alone.
Reply == {<<t>> : t \in Terminals} \union (Seq(Tools) \ {<<>>})

\* A child node made by a delivery starts from a seed, any other one from the
\* session of the episode it inherits from, when there is one.
Origin == [parent : BOOLEAN, seeded : BOOLEAN]

ASSUME SeatAssumption ==
    /\ {MaxAttempts, MaxSteps, MaxRepairs, MaxConsults, MaxWorks, MaxFaults}
           \subseteq Nat
    /\ Replies \subseteq Reply
    /\ Origins \subseteq Origin
    /\ Faults \subseteq Fault

VARIABLES
    attempt,   \* how many attempts have been started
    pc,        \* where the worker is; "off" when there is none
    origin,    \* what the episode starts from
    rejected,  \* whether a delivered world was refused: the wake view says so
    \* on disk and in the database
    lab,       \* the laboratory: "none", "half" checked out, "whole"
    work,      \* the edits in it
    trail,     \* whose rows session.jsonl holds: Parent and attempts
    note,      \* who wrote notebook.md
    expected,  \* expectations.jsonl: <<attempt, captured>>
    head,      \* the lease's row in research_states
    calls,     \* assistant_calls: the ids on the ledger
    opened,    \* resource_ledger: the ids whose row is open
    raw,       \* the transcripts: <<id, attempt>>
    exit,      \* the result file, "lost" when the worker died without one
    \* in the memory of the attempt
    mem,
    answered,  \* history: the calls whose answer reached the model
    spent      \* how many faults have happened

session == <<trail, note, expected>>
books == <<calls, opened, raw>>
world == <<lab, work>>
durable == <<world, session, head, books, exit>>
given == <<origin, rejected>>
vars == <<attempt, pc, given, durable, mem, answered, spent>>

Attempts == 1 .. MaxAttempts
Parent == 0   \* the episode that is inherited from
Marks == {"run", "work", "hole"}
Edit == Attempts \X Marks

\* _next_call_id counts in the memory of the attempt, whatever came before it.
CallId(kind, n) == <<IF kind = "fresh" THEN "work" ELSE kind, n>>
Mine == CallId(mem.call, mem.n)

NoExit == [kind |-> "none", world |-> {}]

\* ProposerOrchestrator is built without db_path and lease_id.
HasLedger == FALSE

\* WorkingState, HandTally and the clock of an attempt that has not begun:
\* "margin" is the last tenth of the wall.
Fresh == [n |-> 0, consults |-> 0, works |-> 0, seen |-> FALSE, known |-> FALSE,
          step |-> 1, repair |-> 0, clock |-> "early",
          todo |-> <<>>, call |-> "none", end |-> "none", raised |-> FALSE]

Fail == /\ pc' = "off"
        /\ exit' = [kind |-> "failed", world |-> {}]

Spend(f) == /\ f \in Faults
            /\ spent < MaxFaults
            /\ spent' = spent + 1

-----------------------------------------------------------------------------
Init == /\ attempt = 0 /\ pc = "off" /\ spent = 0 /\ answered = {}
        /\ origin \in Origins /\ rejected = FALSE
        /\ lab = "none" /\ work = {} /\ head = "none"
        /\ trail = {} /\ note = "none" /\ expected = {}
        /\ calls = {} /\ opened = {} /\ raw = {}
        /\ exit = NoExit /\ mem = Fresh

\* The scheduler starts a worker: at first, after one that failed or was lost,
\* or when it reopens the seat because the world it delivered was refused.
Start == /\ pc = "off" /\ attempt < MaxAttempts
         /\ exit.kind \in {"none", "failed", "lost", "deliver"}
         /\ attempt' = attempt + 1
         /\ rejected' = (rejected \/ exit.kind = "deliver")
         /\ exit' = NoExit
         /\ mem' = Fresh
         /\ pc' = "lab"
         /\ UNCHANGED <<origin, world, session, head, books, answered, spent>>

\* Laboratory.main: an existing directory is adopted as it is.
AdoptLab == /\ pc = "lab" /\ lab # "none"
            /\ pc' = "inherit"
            /\ UNCHANGED <<attempt, given, durable, mem, answered, spent>>

CreateLab == /\ pc = "lab" /\ lab = "none"
             /\ lab' = "half"
             /\ pc' = "checkout"
             /\ UNCHANGED <<attempt, given, work, session, head, books, exit, mem,
                            answered, spent>>

Checkout == /\ pc = "checkout"
            /\ lab' = "whole"
            /\ pc' = "inherit"
            /\ UNCHANGED <<attempt, given, work, session, head, books, exit, mem,
                           answered, spent>>

\* Only a seat that has not lived copies the parent's session.
Inherits_Always == origin.parent /\ ~origin.seeded
Inherits == trail = {} /\ origin.parent /\ ~origin.seeded

\* copytree copies one file after the other, in the order of the directory.
CopyNotebook == /\ pc = "inherit" /\ Inherits /\ note # "parent"
                /\ note' = "parent"
                /\ UNCHANGED <<attempt, pc, given, world, trail, expected, head, books,
                               exit, mem, answered, spent>>

CopyTrail == /\ pc = "inherit" /\ Inherits
             /\ trail' = {Parent}
             /\ pc' = IF note = "parent" THEN "head" ELSE "copying"
             /\ UNCHANGED <<attempt, given, world, note, expected, head, books, exit,
                            mem, answered, spent>>

CopyRest == /\ pc = "copying"
            /\ note' = "parent"
            /\ pc' = "head"
            /\ UNCHANGED <<attempt, given, world, trail, expected, head, books, exit,
                           mem, answered, spent>>

Resume == /\ pc = "inherit" /\ ~Inherits
          /\ pc' = "head"
          /\ UNCHANGED <<attempt, given, durable, mem, answered, spent>>

\* The placeholder row; a failure to write it is printed and forgotten.
OpenHead == /\ pc = "head"
            /\ \/ head' = "placeholder" /\ spent' = spent
               \/ Spend("db") /\ head' = head
            /\ pc' = "assemble"
            /\ UNCHANGED <<attempt, given, world, session, books, exit, mem, answered>>

IsFirstRound == trail = {} /\ note = "none"

\* A cold start archives only a seed, a resumed one the world event, a reopened
\* one the verdict.
Assemble ==
    /\ pc = "assemble"
    /\ trail' = IF ~IsFirstRound \/ origin.seeded \/ rejected
                THEN trail \union {attempt} ELSE trail
    /\ pc' = "think"
    /\ UNCHANGED <<attempt, given, world, note, expected, head, books, exit, mem,
                   answered, spent>>

-----------------------------------------------------------------------------
\* Time passes while a model or a tool is awaited.
Tick == /\ pc \in {"model", "hand"} /\ mem.clock # "over"
        /\ \E c \in {"margin", "over"} :
               mem.clock # c /\ mem' = [mem EXCEPT !.clock = c]
        /\ UNCHANGED <<attempt, pc, given, durable, answered, spent>>

\* Steps or wall spent: the harness concludes.
CutOff == /\ pc = "think"
          /\ mem.step > MaxSteps \/ mem.clock # "early"
          /\ mem' = [mem EXCEPT !.end = "cut_off"]
          /\ pc' = "expect"
          /\ UNCHANGED <<attempt, given, durable, answered, spent>>

Think == /\ pc = "think"
         /\ mem.step <= MaxSteps /\ mem.clock = "early"
         /\ mem' = [mem EXCEPT !.repair = 0]
         /\ pc' = "model"
         /\ UNCHANGED <<attempt, given, durable, answered, spent>>

\* The call raises, or the deadline passed before it could be made.
ModelFails == /\ pc = "model"
              /\ \/ mem.clock = "over" /\ spent' = spent
                 \/ Spend("model")
              /\ Fail
              /\ UNCHANGED <<attempt, given, world, session, head, books, mem, answered>>

\* _validate_action_guard: a terminal with nothing on file.  An exact repeat of the call
\* before is refused as well, but of two calls alike in the model the arguments may
\* differ: such a reply may be carried out or be asked for again.
Refused_Never(reply) == FALSE
Refused(reply) == reply[1] \in Terminals /\ ~mem.known

\* A reply that does not parse, or that the guard refuses.
Repair == /\ pc = "model" /\ mem.clock # "over"
          /\ IF mem.repair = MaxRepairs
             THEN Fail /\ mem' = mem
             ELSE /\ mem' = [mem EXCEPT !.repair = @ + 1]
                  /\ UNCHANGED <<pc, exit>>
          /\ UNCHANGED <<attempt, given, world, session, head, books, answered, spent>>

Act(reply) == /\ pc = "model" /\ mem.clock # "over"
              /\ reply[1] \notin Terminals /\ ~Refused(reply)
              /\ mem' = [mem EXCEPT !.todo = reply]
              /\ pc' = "tool"
              /\ UNCHANGED <<attempt, given, durable, answered, spent>>

Conclude(reply) == /\ pc = "model" /\ mem.clock # "over"
                   /\ reply[1] \in Terminals /\ ~Refused(reply)
                   /\ mem' = [mem EXCEPT !.end = reply[1]]
                   /\ trail' = trail \union {attempt}
                   /\ pc' = "expect"
                   /\ UNCHANGED <<attempt, given, world, note, expected, head, books,
                                  exit, answered, spent>>

-----------------------------------------------------------------------------
Now == mem.todo[1]

\* The tool returned, whatever it says: the next one in the batch.
Returned(m) == [m EXCEPT !.todo = Tail(@), !.call = "none"]

\* The seat's shell works in the laboratory; a success may be cited as source.
RunCommand ==
    /\ pc = "tool" /\ mem.todo # <<>> /\ Now = "run"
    /\ \/ /\ mem' = Returned(mem)                  \* it fails, or time is up
          /\ work' = work
       \/ /\ mem.clock # "over"
          /\ mem' = Returned([mem EXCEPT !.seen = TRUE])
          /\ work' \in {work, work \union {<<attempt, "run">>}}
    /\ UNCHANGED <<attempt, pc, given, lab, session, head, books, exit, answered, spent>>

\* update_research_state: what is cited must have been seen in this attempt.
Register ==
    /\ pc = "tool" /\ mem.todo # <<>> /\ Now = "register"
    /\ \E cites \in BOOLEAN :
           IF cites /\ ~mem.seen
           THEN mem' = Returned(mem) /\ head' = head
           ELSE /\ mem' = Returned([mem EXCEPT !.known = TRUE])
                /\ head' = IF HasLedger THEN "model" ELSE head
    /\ UNCHANGED <<attempt, pc, given, world, session, books, exit, answered, spent>>

Allowed == IF Now = "consult" THEN mem.consults < MaxConsults ELSE mem.works < MaxWorks

HandRefused ==
    /\ pc = "tool" /\ mem.todo # <<>> /\ Now \in {"consult", "work", "fresh"}
    /\ mem.clock = "over" \/ ~Allowed
    /\ mem' = Returned(mem)
    /\ UNCHANGED <<attempt, pc, given, durable, answered, spent>>

\* The next id of this attempt; work opens its resource row before it begins.
CallHand ==
    /\ pc = "tool" /\ mem.todo # <<>> /\ Now \in {"consult", "work", "fresh"}
    /\ mem.clock # "over" /\ Allowed
    /\ mem' = [mem EXCEPT !.n = @ + 1, !.call = Now]
    /\ opened' = IF Now = "consult" THEN opened
                 ELSE opened \union {CallId(Now, mem.n + 1)}
    /\ pc' = "hand"
    /\ UNCHANGED <<attempt, given, world, session, head, calls, raw, exit, answered, spent>>

\* work(continue) edits the laboratory while it runs; a side world is dropped
\* and a consultation has no tool to write with.
HandEdits == /\ pc = "hand" /\ mem.call = "work"
             /\ <<attempt, "work">> \notin work
             /\ work' = work \union {<<attempt, "work">>}
             /\ UNCHANGED <<attempt, pc, given, lab, session, head, books, exit, mem,
                            answered, spent>>

\* Whatever escapes execute ends the attempt.
Raise == Fail /\ mem' = [mem EXCEPT !.raised = TRUE]

\* AgentError is neither of the exceptions that execute catches.
HandFails == /\ pc = "hand"
             /\ Spend("assistant")
             /\ Raise
             /\ UNCHANGED <<attempt, given, world, session, head, books, answered>>

\* The answer: its transcript is written, over an older one of the same id, and
\* the call is counted.
PersistRaw ==
    /\ pc = "hand"
    /\ raw' = {r \in raw : r[1] # Mine} \union {<<Mine, attempt>>}
    /\ mem' = IF mem.call = "consult" THEN [mem EXCEPT !.consults = @ + 1]
              ELSE [mem EXCEPT !.works = @ + 1]
    /\ pc' = "ledger"
    /\ UNCHANGED <<attempt, given, world, session, head, calls, opened, exit, answered,
                   spent>>

\* call_id is the primary key of assistant_calls.
Ledger == /\ pc = "ledger" /\ Mine \notin calls
          /\ calls' = calls \union {Mine}
          /\ pc' = "close"
          /\ UNCHANGED <<attempt, given, world, session, head, opened, raw, exit, mem,
                         answered, spent>>

LedgerFails == /\ pc = "ledger"
               /\ \/ Mine \in calls /\ spent' = spent
                  \/ Spend("db")
               /\ Raise
               /\ UNCHANGED <<attempt, given, world, session, head, books, answered>>

CloseRow == /\ pc = "close"
            /\ opened' = opened \ {Mine}
            /\ answered' = answered \union {<<attempt, Mine>>}
            /\ mem' = Returned(mem)
            /\ pc' = "tool"
            /\ UNCHANGED <<attempt, given, world, session, head, calls, raw, exit, spent>>

\* The turn and its results are archived once the whole batch is done.
\* Only a turn that read the source counts.
ArchiveTurn_Uncounted ==
    /\ pc = "tool" /\ mem.todo = <<>>
    /\ trail' = trail \union {attempt}
    /\ mem' = [mem EXCEPT !.step = IF mem.seen THEN @ + 1 ELSE @]
    /\ pc' = "think"
    /\ UNCHANGED <<attempt, given, world, note, expected, head, books, exit, answered,
                   spent>>
ArchiveTurn == /\ pc = "tool" /\ mem.todo = <<>>
               /\ trail' = trail \union {attempt}
               /\ mem' = [mem EXCEPT !.step = @ + 1]
               /\ pc' = "think"
               /\ UNCHANGED <<attempt, given, world, note, expected, head, books, exit,
                              answered, spent>>

-----------------------------------------------------------------------------
\* _suspension_checkpoint: a row says that nothing was captured before anything
\* is asked.
\* Only what was captured is written down.
Expect_Later == /\ pc = "expect"
                /\ pc' = "suspend"
                /\ UNCHANGED <<attempt, given, durable, mem, answered, spent>>
Expect == /\ pc = "expect"
          /\ expected' = expected \union {<<attempt, FALSE>>}
          /\ pc' = "suspend"
          /\ UNCHANGED <<attempt, given, world, trail, note, head, books, exit, mem,
                         answered, spent>>

\* The reply may hold expectations.
Capture == /\ pc = "suspend"
           /\ expected' \in {expected, expected \union {<<attempt, TRUE>>}}
           /\ pc' = "note"
           /\ UNCHANGED <<attempt, given, world, trail, note, head, books, exit, mem,
                          answered, spent>>

WriteNotebook == /\ pc = "note"
                 /\ note' = "seat"
                 /\ trail' = trail \union {attempt}
                 /\ pc' = "conclude"
                 /\ UNCHANGED <<attempt, given, world, expected, head, books, exit, mem,
                                answered, spent>>

\* No time, no answer, or an answer without a notebook.
SkipNotebook == /\ pc \in {"suspend", "note"}
                /\ pc' = "conclude"
                /\ UNCHANGED <<attempt, given, durable, mem, answered, spent>>

\* The snapshot of the laboratory is the delivery; an unchanged one is refused.
Deliver == /\ pc = "conclude" /\ mem.end = "deliver"
           /\ IF work = {} THEN Fail
              ELSE /\ exit' = [kind |-> "deliver", world |-> work]
                   /\ pc' = "off"
           /\ UNCHANGED <<attempt, given, world, session, head, books, mem, answered,
                          spent>>

WriteResult == /\ pc = "conclude" /\ mem.end \in {"abstain", "cut_off"}
               /\ exit' = [kind |-> mem.end, world |-> {}]
               /\ pc' = "off"
               /\ UNCHANGED <<attempt, given, world, session, head, books, mem, answered,
                              spent>>

-----------------------------------------------------------------------------
\* The cluster, the operator or the machine ends the process.  What a checkout
\* that was cut short has not written yet is missing from the laboratory.
Kill == /\ pc # "off"
        /\ Spend("kill")
        /\ IF pc = "checkout"
           THEN \/ lab' = "none" /\ work' = work
                \/ lab' = "half" /\ work' = work \union {<<attempt, "hole">>}
           ELSE UNCHANGED world
        /\ pc' = "off"
        /\ exit' = [kind |-> "lost", world |-> {}]
        /\ UNCHANGED <<attempt, given, session, head, books, mem, answered>>

Wake == \/ AdoptLab \/ CreateLab \/ Checkout
        \/ CopyNotebook \/ CopyTrail \/ CopyRest \/ Resume
        \/ OpenHead \/ Assemble

Turn == \/ CutOff \/ Think \/ ModelFails \/ Repair
        \/ \E reply \in Replies : Act(reply) \/ Conclude(reply)

Tool == \/ RunCommand \/ Register \/ HandRefused \/ CallHand
        \/ HandFails \/ PersistRaw \/ Ledger \/ LedgerFails \/ CloseRow
        \/ ArchiveTurn

Finish == \/ Expect \/ Capture \/ WriteNotebook \/ SkipNotebook
          \/ Deliver \/ WriteResult

Worker == Wake \/ Turn \/ Tool \/ Finish

Next == Start \/ Worker \/ Tick \/ HandEdits \/ Kill

Spec == Init /\ [][Next]_vars

\* A live process takes its next step, and what it awaits has a timeout.
FairSpec == Spec /\ WF_vars(Worker)

-----------------------------------------------------------------------------
\* The types, which the proofs start from.
Points == {"off", "lab", "checkout", "inherit", "copying", "head", "assemble", "think",
           "model", "tool", "hand", "ledger", "close", "expect", "suspend", "note",
           "conclude"}

Hands == {"consult", "work", "fresh"}

Id == {"consult", "work"} \X Nat

Exits == [kind : {"none", "deliver", "abstain", "cut_off", "failed", "lost"},
          world : SUBSET Edit]

Memory == [n : Nat, consults : Nat, works : Nat, seen : BOOLEAN, known : BOOLEAN,
           step : Nat,
           repair : Nat, clock : {"early", "margin", "over"}, todo : Seq(Tools),
           call : Hands \union {"none"}, end : {"none", "deliver", "abstain", "cut_off"},
           raised : BOOLEAN]

\* Type correctness of the worker's memory and of what it leaves behind.
TypeOK == /\ attempt \in 0 .. MaxAttempts /\ pc \in Points /\ spent \in Nat
          /\ origin \in Origin /\ rejected \in BOOLEAN
          /\ lab \in {"none", "half", "whole"} /\ work \subseteq Edit
          /\ trail \subseteq {Parent} \union Attempts
          /\ note \in {"none", "parent", "seat"}
          /\ expected \subseteq Attempts \X BOOLEAN
          /\ head \in {"none", "placeholder", "model"}
          /\ calls \subseteq Id /\ opened \subseteq Id /\ raw \subseteq Id \X Attempts
          /\ exit \in Exits /\ mem \in Memory
          /\ answered \subseteq Attempts \X Id

\* A dead worker has not concluded anything.
Protocol == INSTANCE SeatProtocol WITH
    said <- mem.known,
    exit <- IF exit.kind = "lost" THEN NoExit ELSE exit

\* Whatever the model, the tools and the deaths of the processes do, the seat
\* keeps the promises of SeatProtocol: the laboratory only gains work, and what
\* an attempt delivers is all of it, after it has stated what it knows.
RefinesProtocol == Protocol!Spec

\* A seat is not replaced by its parent: rows of its own are never lost from the
\* session, and a parent's rows come first or not at all, never with a seed
\* (_inherit_parent_session, the guard on session.jsonl).
LivedIsKept ==
    [][/\ trail \subseteq trail'
       /\ Parent \in trail' \ trail => trail = {} /\ ~origin.seeded]_trail

\* No conclusion without a row of the same attempt in expectations.jsonl, so that
\* a missing pre-registration is visible (append_expectations).
NoSilentExit ==
    exit.kind \in {"deliver", "abstain", "cut_off"} =>
        \E captured \in BOOLEAN : <<attempt, captured>> \in expected

\* An answer that reached the model is on the ledger with a transcript, and no
\* two answers of a lease share an id (AssistantHands._ledger).
AnsweredIsLedgered ==
    /\ \A a \in answered : a[2] \in calls /\ \E r \in raw : r[1] = a[2]
    /\ \A a, b \in answered : a[2] = b[2] => a = b

\* What an attempt leaves behind is accounted for, whether it concludes, fails or
\* is killed: its statement, its ledger and its transcripts.
Accounted == TypeOK /\ NoSilentExit /\ AnsweredIsLedgered

\* An attempt that is not killed ends: repairs, refused hands and failing tools
\* use up the steps (AgentRuntime.run).
AttemptEnds == pc # "off" ~> pc = "off"
=============================================================================
