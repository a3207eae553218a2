------------------------------ MODULE Engagements ------------------------------
(***************************************************************************)
(* The Scientist's collaborators: detached seat processes, each with a     *)
(* directory as its only record (assistant_tools.py), driven by the calls  *)
(* of the Scientist's turns (agent.py).                                    *)
(*                                                                         *)
(* A turn first drains the finished reports, then runs the calls the model *)
(* asked for on a pool of threads, then writes every result to the wire.   *)
(* Neither the launch of a seat nor the finalizer holds a lock, so one     *)
(* action here is one file operation or one process operation of a call.   *)
(*                                                                         *)
(* The directory of an engagement is what a crash leaves: files[e] and     *)
(* digest[e].  Once registered it goes from no digest.json to one that is  *)
(* being written ("torn") to a readable one, whose value is the status.    *)
(*                                                                         *)
(* X_Y before a definition X is X with the mistake Y: no action uses it,   *)
(* it only serves to show which property would notice the mistake.         *)
(***************************************************************************)
EXTENDS Integers, FiniteSets, FiniteSetsExt

CONSTANTS MaxCalls,        \* the workers of a turn's pool (8 in agent.py)
          MaxEngagements,  \* launches in a run: a bound, not in the code
          Scales,          \* the sizes of run to explore: its calls a turn, launches,
                           \* continuations and stops: bounds, not in the code
          MaxStops,        \* crashes and interrupts: a bound, not in the code
          Roles,           \* the roles the Scientist engages
          KeepForks        \* InWorldAssistant._FORK_KEEP_MAX

RoleNames == {"executor", "reviewer", "searcher"}

ASSUME EngagementAssumption ==
    /\ MaxCalls \in Nat \ {0} /\ MaxEngagements \in Nat /\ MaxStops \in Nat /\ KeepForks \in Nat
    /\ Roles \subseteq RoleNames
    /\ Scales \subseteq [calls : 1..MaxCalls, launches : 0..MaxEngagements,
                         resumes : 0..MaxEngagements, stops : 0..MaxStops]

VARIABLES
    \* the run directory
    files,    \* [Engagement -> SUBSET FileNames]
    digest,   \* [Engagement -> its digest.json]
    role,     \* manifest.role
    root,     \* the engagement whose claude session this one runs in
    forks,    \* the engagements whose world directory exists
    aged,     \* worlds older than _FORK_MIN_AGE_SECONDS
    rows,     \* [Engagement -> number of its entries in the lab's record]
    heard,    \* [Engagement -> number of times its report is on the wire]
    \* the seat processes
    seat,     \* [Engagement -> {"none", "running", "exited"}]
    late,     \* engagements past their time box
    \* the Scientist's process
    counter,  \* _counter
    procs,    \* the domain of _procs
    turn,     \* where run_episode is
    stops,    \* crashes and interrupts so far
    call,     \* [Threads -> what the thread is doing]
    scale     \* the size of this run

dirVars  == <<files, digest, role, root, forks, aged, rows, heard>>
seatVars == <<seat, late>>
vars     == <<dirVars, seatVars, counter, procs, turn, stops, call, scale>>
--------------------------------------------------------------------------------
(* Data.                                                                   *)

Engagement == 1..MaxEngagements
Threads    == 1..MaxCalls
None       == 0

FileNames == {"dir", "pid", "manifest", "marker"}
Hints     == {"timeout-salvaged", "crash-salvaged", "cancelled"}
\* "done" is done or unparsed: the transcript's shape is all that tells them apart.
Statuses  == Hints \cup {"done", "failed"}
Digests   == Statuses \cup {"none", "torn"}

\* "answer" is engage()'s last collect(), "poll" the drain at the turn's top.
Verbs  == {"poll", "launch", "continue", "wait", "cancel", "answer",
           "shutdown", "reconcile"}
Stages == {"idle", "check", "launch", "spawn", "register", "feed", "await", "sweep",
           "collect", "record", "open", "write", "take", "mark", "returned"}
Turns  == {"top", "poll", "choose", "act", "close", "unwind", "recover",
           "down", "ended"}

\* A call: its verb, its stage, the engagement in hand, the directories it has
\* still to visit, the situation it will report and the reports it returns.
Call == [verb : Verbs \cup {"none"}, at : Stages, eng : Engagement \cup {None},
         own : Engagement \cup {None}, todo : SUBSET Engagement,
         hint : Hints \cup {"none"}, hand : SUBSET Engagement]
Idle == [verb |-> "none", at |-> "idle", eng |-> None, own |-> None,
         todo |-> {}, hint |-> "none", hand |-> {}]

Has(e, f)     == f \in files[e]
Registered(e) == Has(e, "manifest")
Readable(e)   == digest[e] \in Statuses
Unfinalized   == {e \in Engagement : Registered(e) /\ digest[e] = "none"}
Unread        == {e \in Engagement : digest[e] # "none" /\ ~Has(e, "marker")}

\* A cached process is polled; of any other the harness only has proc.pid.
Visible(e)  == e \in procs \/ Has(e, "pid")
Alive(e)    == seat[e] = "running" /\ Visible(e)
Killed(E)   == [e \in Engagement |-> IF e \in E /\ Alive(e) THEN "exited" ELSE seat[e]]

\* The worlds _gc_forks removes: the oldest beyond KeepForks, if old enough.
Stale == {S \in SUBSET (forks \cap aged) :
             Cardinality(S) = Min({Cardinality(forks \cap aged),
                                   Max({0, Cardinality(forks) - KeepForks})})}

Go(t, stage)  == call' = [call EXCEPT ![t].at = stage]
Return(t, E)  == call' = [call EXCEPT ![t].at = "returned", ![t].hand = @ \cup E]
At(t, stage)  == call[t].at = stage
Is(t, V)      == call[t].verb \in V
--------------------------------------------------------------------------------
(* Launching a seat: launch(), the directory is born and the manifest last. *)

\* A fresh id, the trimmed worlds, and the world of an isolated executor; a
\* continuation re-enters the world and the session of the engagement in hand.
LaunchOpen(t) ==
    /\ At(t, "launch")
    /\ counter < MaxEngagements
    /\ counter' = counter + 1
    /\ LET e == counter + 1
       IN /\ files' = [files EXCEPT ![e] = @ \cup {"dir"}]
          /\ \/ /\ Is(t, {"continue"})
                /\ role' = [role EXCEPT ![e] = "executor"]
                /\ root' = [root EXCEPT ![e] = root[call[t].eng]]
                /\ UNCHANGED forks
             \/ /\ Is(t, {"launch"})
                /\ role' \in {[role EXCEPT ![e] = r] : r \in Roles}
                /\ root' = [root EXCEPT ![e] = e]
                /\ \E S \in Stale, new \in {{}, {e}} :
                      /\ new = {e} => role'[e] = "executor"
                      /\ forks' = (forks \ S) \cup new
          /\ call' = [call EXCEPT ![t].at = "spawn", ![t].own = e]
    /\ UNCHANGED <<digest, aged, rows, heard, seatVars, procs, turn, stops, scale>>

\* Stray project settings or a bad workspace: the id is spent, and perhaps the
\* directory made, but no seat starts.
LaunchRefuse(t) ==
    /\ At(t, "launch")
    /\ counter < MaxEngagements
    /\ counter' = counter + 1
    /\ files' \in {files, [files EXCEPT ![counter + 1] = @ \cup {"dir"}]}
    /\ Return(t, {})
    /\ UNCHANGED <<digest, role, root, forks, aged, rows, heard, seatVars,
                   procs, turn, stops, scale>>

Spawn(t) ==
    /\ At(t, "spawn")
    /\ seat' = [seat EXCEPT ![call[t].own] = "running"]
    /\ Go(t, "register")
    /\ UNCHANGED <<dirVars, late, counter, procs, turn, stops, scale>>

SpawnFails(t) ==
    /\ At(t, "spawn")
    /\ Return(t, {})
    /\ UNCHANGED <<dirVars, seatVars, counter, procs, turn, stops, scale>>

\* proc.pid, prompt.txt and manifest.json, in this order.
Register(t) ==
    /\ At(t, "register")
    /\ files' = [files EXCEPT ![call[t].own] = @ \cup {"pid", "manifest"}]
    /\ Go(t, "feed")
    /\ UNCHANGED <<digest, role, root, forks, aged, rows, heard, seatVars,
                   counter, procs, turn, stops, scale>>

\* The prompt goes to the seat's stdin and the process is cached; a seat that
\* is gone by then breaks the pipe and the call answers with an error.
Feed(t) ==
    /\ At(t, "feed")
    /\ \/ /\ seat[call[t].own] = "running"
          /\ procs' = procs \cup {call[t].own}
          /\ Go(t, IF role[call[t].own] = "reviewer" THEN "await" ELSE "returned")
       \/ /\ seat[call[t].own] = "exited"
          /\ Return(t, {})
          /\ UNCHANGED procs
    /\ UNCHANGED <<dirVars, seatVars, counter, turn, stops, scale>>
--------------------------------------------------------------------------------
(* The finalizer: sweep() visits, collect() files.                         *)

\* The calls that list the unfinalized engagements and visit each: the drain at
\* the turn's top, wait, engage; and, killing, the episode's exit and recovery.
Sweepers == {"poll", "launch", "wait"}
Reapers  == {"shutdown", "reconcile"}

\* engage() looks for its own digest before it sweeps.
Await(t) ==
    /\ At(t, "await")
    /\ IF digest[call[t].own] # "none"
         THEN call' = [call EXCEPT ![t].at = "take", ![t].todo = {call[t].own}]
         ELSE call' = [call EXCEPT ![t].at = "sweep", ![t].todo = Unfinalized]
    /\ UNCHANGED <<dirVars, seatVars, counter, procs, turn, stops, scale>>

Visit(t, e, hint) ==
    call' = [call EXCEPT ![t].at = "collect", ![t].eng = e,
                         ![t].todo = @ \ {e}, ![t].hint = hint]

SweepRunning(t, e) ==
    /\ At(t, "sweep") /\ Is(t, Sweepers) /\ e \in call[t].todo
    /\ Alive(e) /\ e \notin late
    /\ call' = [call EXCEPT ![t].todo = @ \ {e}]
    /\ UNCHANGED <<dirVars, seatVars, counter, procs, turn, stops, scale>>

SweepLate_BoxForgotten(t, e) ==
    /\ At(t, "sweep") /\ Is(t, Sweepers) /\ e \in call[t].todo
    /\ Alive(e) /\ e \in late
    /\ call' = [call EXCEPT ![t].todo = @ \ {e}]
    /\ UNCHANGED <<dirVars, seatVars, counter, procs, turn, stops, scale>>
SweepLate(t, e) ==
    /\ At(t, "sweep") /\ Is(t, Sweepers) /\ e \in call[t].todo
    /\ Alive(e) /\ e \in late
    /\ seat' = Killed({e})
    /\ Visit(t, e, "timeout-salvaged")
    /\ UNCHANGED <<dirVars, late, counter, procs, turn, stops, scale>>

SweepExited(t, e) ==
    /\ At(t, "sweep") /\ Is(t, Sweepers) /\ e \in call[t].todo
    /\ ~Alive(e)
    /\ Visit(t, e, "none")
    /\ UNCHANGED <<dirVars, seatVars, counter, procs, turn, stops, scale>>

\* shutdown_pending and _reconcile spare nothing.
Reap(t, e) ==
    /\ At(t, "sweep") /\ Is(t, Reapers) /\ e \in call[t].todo
    /\ seat' = Killed({e})
    /\ Visit(t, e, "crash-salvaged")
    /\ UNCHANGED <<dirVars, late, counter, procs, turn, stops, scale>>

\* The list is done.  A wait is over when nothing is pending, when it may return
\* on a first arrival, or when its deadline has passed; otherwise it looks again.
SweepDone(t) ==
    /\ At(t, "sweep") /\ call[t].todo = {}
    /\ \/ Is(t, {"launch"}) /\ Go(t, "await")
       \/ Is(t, {"poll"}) /\ call' = [call EXCEPT ![t].at = "take", ![t].todo = Engagement]
       \/ Is(t, Reapers) /\ Go(t, "returned")
       \/ Is(t, {"wait"}) /\ Unfinalized = {}
             /\ call' = [call EXCEPT ![t].at = "take", ![t].todo = Engagement]
       \/ Is(t, {"wait"}) /\ Unfinalized # {}
             /\ call' \in {[call EXCEPT ![t].todo = Unfinalized],
                           [call EXCEPT ![t].at = "take", ![t].todo = Engagement]}
    /\ UNCHANGED <<dirVars, seatVars, counter, procs, turn, stops, scale>>

\* collect() returns: the visit goes on, a cancel takes its report, and an
\* engage left without one answers with what collect() returned.
Collected(t) ==
    LET c == call[t]
    IN CASE c.verb \in Sweepers -> [c EXCEPT !.at = "sweep"]
         [] c.verb \in Reapers  -> [c EXCEPT !.at = "sweep", !.hand = @ \cup {c.eng}]
         [] c.verb = "cancel"   -> [c EXCEPT !.at = "take", !.todo = {c.eng}]
         [] c.verb = "answer"   -> [c EXCEPT !.at = "returned", !.hand = {c.eng}]

\* A readable digest.json ends collect(): nothing is filed a second time.
CollectFiled(t) ==
    /\ At(t, "collect")
    /\ Readable(call[t].eng)
    /\ call' = [call EXCEPT ![t] = Collected(t)]
    /\ UNCHANGED <<dirVars, seatVars, counter, procs, turn, stops, scale>>

\* The transcript is read, proc.pid removed and the process forgotten.
CollectOpen(t) ==
    /\ At(t, "collect")
    /\ ~Readable(call[t].eng)
    /\ files' = [files EXCEPT ![call[t].eng] = @ \ {"pid"}]
    /\ procs' = procs \ {call[t].eng}
    /\ Go(t, "record")
    /\ UNCHANGED <<digest, role, root, forks, aged, rows, heard, seatVars,
                   counter, turn, stops, scale>>

\* _register_record: one row in the lab's record, under the lock.
Record(t) ==
    /\ At(t, "record")
    /\ rows' = [rows EXCEPT ![call[t].eng] = @ + 1]
    /\ Go(t, "open")
    /\ UNCHANGED <<files, digest, role, root, forks, aged, heard, seatVars,
                   counter, procs, turn, stops, scale>>

\* _persist_raw: write_text truncates digest.json before it fills it.
OpenDigest(t) ==
    /\ At(t, "open")
    /\ digest' = [digest EXCEPT ![call[t].eng] = "torn"]
    /\ Go(t, "write")
    /\ UNCHANGED <<files, role, root, forks, aged, rows, heard, seatVars,
                   counter, procs, turn, stops, scale>>

\* A salvage with neither text nor tool calls is filed as a failure.
WriteDigest(t) ==
    /\ At(t, "write")
    /\ \E s \in IF call[t].hint = "none" THEN {"done"} ELSE {call[t].hint, "failed"} :
          digest' = [digest EXCEPT ![call[t].eng] = s]
    /\ call' = [call EXCEPT ![t] = Collected(t)]
    /\ UNCHANGED <<files, role, root, forks, aged, rows, heard, seatVars,
                   counter, procs, turn, stops, scale>>
--------------------------------------------------------------------------------
(* Handing reports over: _take_reports().                                  *)

\* A directory is passed over when it has no readable report or is marked.
TakeSkip(t, e) ==
    /\ At(t, "take") /\ e \in call[t].todo
    /\ ~Readable(e) \/ Has(e, "marker")
    /\ call' = [call EXCEPT ![t].todo = @ \ {e}]
    /\ UNCHANGED <<dirVars, seatVars, counter, procs, turn, stops, scale>>

TakeRead_Pending(t, e) ==
    /\ At(t, "take") /\ e \in call[t].todo
    /\ Registered(e) /\ ~Has(e, "marker")
    /\ call' = [call EXCEPT ![t].at = "mark", ![t].eng = e, ![t].todo = @ \ {e}]
    /\ UNCHANGED <<dirVars, seatVars, counter, procs, turn, stops, scale>>
TakeRead(t, e) ==
    /\ At(t, "take") /\ e \in call[t].todo
    /\ Readable(e) /\ ~Has(e, "marker")
    /\ call' = [call EXCEPT ![t].at = "mark", ![t].eng = e, ![t].todo = @ \ {e}]
    /\ UNCHANGED <<dirVars, seatVars, counter, procs, turn, stops, scale>>

\* read.marker is touched when the report is taken, not when it is delivered.
Mark(t) ==
    /\ At(t, "mark")
    /\ files' = [files EXCEPT ![call[t].eng] = @ \cup {"marker"}]
    /\ call' = [call EXCEPT ![t].at = "take", ![t].hand = @ \cup {call[t].eng}]
    /\ UNCHANGED <<digest, role, root, forks, aged, rows, heard, seatVars,
                   counter, procs, turn, stops, scale>>

\* The call returns; engage() without a report collects its own once more.
TakeDone(t) ==
    /\ At(t, "take") /\ call[t].todo = {}
    /\ IF Is(t, {"launch"}) /\ call[t].hand = {}
         THEN call' = [call EXCEPT ![t].verb = "answer", ![t].at = "collect",
                                   ![t].eng = call[t].own, ![t].hint = "none"]
         ELSE Go(t, "returned")
    /\ UNCHANGED <<dirVars, seatVars, counter, procs, turn, stops, scale>>
--------------------------------------------------------------------------------
(* The verbs that look before they act.                                    *)

\* continue_engagement re-enters the session of a finished executor whose world
\* is still there and whose session no unfinalized engagement resumes.
Reclaimed(e) == root[e] \in aged \ forks
MayContinue_Started(e) ==
    /\ Readable(e) /\ role[e] = "executor" /\ digest[e] # "failed"
    /\ e \notin Unfinalized
    /\ ~Reclaimed(e)
MayContinue(e) ==
    /\ Readable(e) /\ role[e] = "executor" /\ digest[e] # "failed"
    /\ \A u \in Unfinalized : root[u] # root[e]
    /\ ~Reclaimed(e)

ContinueCheck(t) ==
    /\ At(t, "check") /\ Is(t, {"continue"})
    /\ Go(t, IF MayContinue(call[t].eng) THEN "launch" ELSE "returned")
    /\ UNCHANGED <<dirVars, seatVars, counter, procs, turn, stops, scale>>

\* cancel_engagement kills a registered engagement without a report.
CancelCheck(t) ==
    /\ At(t, "check") /\ Is(t, {"cancel"})
    /\ LET e == call[t].eng
       IN IF e \in Unfinalized
            THEN /\ seat' = Killed({e})
                 /\ call' = [call EXCEPT ![t].at = "collect", ![t].hint = "cancelled"]
            ELSE /\ UNCHANGED seat
                 /\ Go(t, "returned")
    /\ UNCHANGED <<dirVars, late, counter, procs, turn, stops, scale>>
--------------------------------------------------------------------------------
(* The turns of run_episode.                                               *)

Settled == \A t \in Threads : call[t].at \in {"idle", "returned"}
Resting == \A t \in Threads : call[t] = Idle

Visiting(t, verb) == [call EXCEPT ![t] = [Idle EXCEPT !.verb = verb, !.at = "sweep",
                                                      !.todo = Unfinalized]]

TurnTop ==
    /\ turn = "top" /\ Resting
    /\ call' = Visiting(1, "poll")
    /\ turn' = "poll"
    /\ UNCHANGED <<dirVars, seatVars, counter, procs, stops, scale>>

\* The model asks for another call of this turn.
Asking(verb) == Cardinality({t \in Threads : Is(t, {verb})})
Resumed      == Cardinality({e \in 1..counter : root[e] # e})
Ask(t) ==
    /\ turn = "choose" /\ call[t] = Idle
    /\ t <= scale.calls /\ \A u \in 1..t - 1 : call[u] # Idle
    /\ \/ /\ counter + Asking("launch") + Asking("continue")
                < scale.launches + scale.resumes
          /\ \/ /\ counter - Resumed + Asking("launch") < scale.launches
                /\ call' = [call EXCEPT ![t].verb = "launch", ![t].at = "launch"]
             \/ \E e \in 1..counter :
                   call' = [call EXCEPT ![t].verb = "continue", ![t].at = "check",
                                        ![t].eng = e]
       \/ call' = [call EXCEPT ![t].verb = "wait", ![t].at = "sweep",
                               ![t].todo = Unfinalized]
       \/ \E e \in 1..counter :
             call' = [call EXCEPT ![t].verb = "cancel", ![t].at = "check", ![t].eng = e]
    /\ UNCHANGED <<dirVars, seatVars, counter, procs, turn, stops, scale>>

RunActions ==
    /\ turn = "choose"
    /\ turn' = "act"
    /\ UNCHANGED <<dirVars, seatVars, counter, procs, stops, call, scale>>

\* When every call has returned, the reports go to the wire one by one.
Emit(t, e) ==
    /\ turn \in {"poll", "act", "close", "unwind"} /\ Settled
    /\ e \in call[t].hand
    /\ heard' = [heard EXCEPT ![e] = @ + 1]
    /\ call' = [call EXCEPT ![t].hand = @ \ {e}]
    /\ UNCHANGED <<files, digest, role, root, forks, aged, rows, seatVars,
                   counter, procs, turn, stops, scale>>

\* Nothing is done with the reports recovery collected: the drain will.
TurnOver ==
    /\ turn \in {"poll", "act", "close", "unwind", "recover"} /\ Settled
    /\ turn # "recover" => \A t \in Threads : call[t].hand = {}
    /\ turn' = CASE turn = "poll"   -> "choose" [] turn = "close"  -> "ended"
                 [] turn = "unwind" -> "down"   [] OTHER -> "top"
    /\ procs' = IF turn \in {"close", "unwind"} THEN {} ELSE procs
    /\ call' = [t \in Threads |-> Idle]
    /\ UNCHANGED <<dirVars, seatVars, counter, stops, scale>>

\* An accepted terminal, the spent budget or a failed model call: the finally
\* of run_episode reaps what is left, then the conclusion is written.
Conclude ==
    /\ turn \in {"top", "choose"} /\ Resting
    /\ call' = Visiting(1, "shutdown")
    /\ turn' = "close"
    /\ UNCHANGED <<dirVars, seatVars, counter, procs, stops, scale>>

\* A keyboard interrupt unwinds the call in hand, but a pool of several calls is
\* first joined; no conclusion is written, so the run can be resumed.
Interrupt(t) ==
    /\ stops < scale.stops /\ turn \in {"top", "poll", "choose", "act"}
    /\ Settled \/ \A u \in Threads \ {t} : call[u] = Idle
    /\ stops' = stops + 1
    /\ call' = [u \in Threads |-> IF u = 1 THEN Visiting(1, "shutdown")[1] ELSE Idle]
    /\ turn' = "unwind"
    /\ UNCHANGED <<dirVars, seatVars, counter, procs, scale>>

\* The process is killed; the seats run on in sessions of their own.
Crash ==
    /\ stops < scale.stops /\ turn \notin {"down", "ended"}
    /\ stops' = stops + 1
    /\ call' = [t \in Threads |-> Idle]
    /\ procs' = {}
    /\ turn' = "down"
    /\ UNCHANGED <<dirVars, seatVars, counter, scale>>

\* _reconcile: the counter goes past every directory, and what was left without
\* a report is killed and salvaged.
Made       == {e \in Engagement : Has(e, "dir")}
Highest(c) == c \in {0} \cup Made /\ \A e \in Made : e <= c
Resume ==
    /\ turn = "down"
    /\ \E c \in 0..MaxEngagements : Highest(c) /\ counter' = c
    /\ call' = Visiting(1, "reconcile")
    /\ turn' = "recover"
    /\ UNCHANGED <<dirVars, seatVars, procs, stops, scale>>
--------------------------------------------------------------------------------
(* The seats and the clock.                                                *)

SeatExits(e) ==
    /\ seat[e] = "running"
    /\ seat' = [seat EXCEPT ![e] = "exited"]
    /\ UNCHANGED <<dirVars, late, counter, procs, turn, stops, call, scale>>

BoxPasses(e) ==
    /\ seat[e] = "running" /\ e \notin late
    /\ late' = late \cup {e}
    /\ UNCHANGED <<dirVars, seat, counter, procs, turn, stops, call, scale>>

\* A world is only counted as old well after the longest box of its seat.
WorldAges(e) ==
    /\ e \in forks \ aged /\ digest[e] # "none"
    /\ aged' = aged \cup {e}
    /\ UNCHANGED <<files, digest, role, root, forks, rows, heard, seatVars,
                   counter, procs, turn, stops, call, scale>>
--------------------------------------------------------------------------------
Init ==
    /\ files = [e \in Engagement |-> {}]
    /\ digest = [e \in Engagement |-> "none"]
    /\ role = [e \in Engagement |-> "searcher"]
    /\ root = [e \in Engagement |-> e]
    /\ forks = {} /\ aged = {}
    /\ rows = [e \in Engagement |-> 0]
    /\ heard = [e \in Engagement |-> 0]
    /\ seat = [e \in Engagement |-> "none"]
    /\ late = {}
    /\ counter = 0
    /\ procs = {}
    /\ turn = "top"
    /\ stops = 0
    /\ call = [t \in Threads |-> Idle]
    /\ scale \in Scales

LaunchStep(t) == LaunchOpen(t) \/ LaunchRefuse(t) \/ Spawn(t) \/ SpawnFails(t)
                    \/ Register(t) \/ Feed(t)
SweepStep(t)  == \/ Await(t) \/ SweepDone(t)
                 \/ \E e \in Engagement : \/ SweepRunning(t, e) \/ SweepLate(t, e)
                                          \/ SweepExited(t, e) \/ Reap(t, e)
FileStep(t)   == CollectFiled(t) \/ CollectOpen(t) \/ Record(t)
                    \/ OpenDigest(t) \/ WriteDigest(t)
TakeStep(t)   == \/ Mark(t) \/ TakeDone(t)
                 \/ \E e \in Engagement : TakeSkip(t, e) \/ TakeRead(t, e)

\* A call asked for while the turn is composed only starts with RunActions.
CallStep(t) == /\ turn # "choose"
               /\ \/ LaunchStep(t) \/ SweepStep(t) \/ FileStep(t) \/ TakeStep(t)
                  \/ ContinueCheck(t) \/ CancelCheck(t)

LoopStep == \/ TurnTop \/ RunActions \/ TurnOver
            \/ \E t \in Threads, e \in Engagement : Emit(t, e)

Scientist == \/ \E t \in Threads : CallStep(t) \/ Ask(t)
             \/ LoopStep \/ Conclude

Stopping == \/ \E t \in Threads : Interrupt(t)
            \/ Crash \/ Resume

Rest == turn = "ended" /\ UNCHANGED vars

Next == \/ Scientist \/ Stopping
        \/ \E e \in Engagement : SeatExits(e) \/ BoxPasses(e) \/ WorldAges(e)
        \/ Rest

Spec == Init /\ [][Next]_vars

\* A thread of the pool runs on, the loop runs on, and time passes: a seat ends or
\* outlives its box.  Nothing obliges a seat to end by itself, the Scientist to
\* conclude, or anybody to resume an interrupted run.
FairSpec == /\ Spec
            /\ \A t \in Threads : WF_vars(CallStep(t))
            /\ WF_vars(LoopStep)
            /\ \A e \in Engagement : WF_vars(BoxPasses(e))
--------------------------------------------------------------------------------
(* Properties.                                                             *)

\* The directories, the processes and the threads hold values of their kind.
TypeOK == /\ files \in [Engagement -> SUBSET FileNames]
          /\ digest \in [Engagement -> Digests]
          /\ role \in [Engagement -> RoleNames]
          /\ root \in [Engagement -> Engagement]
          /\ forks \subseteq Engagement /\ aged \subseteq Engagement
          /\ rows \in [Engagement -> Nat] /\ heard \in [Engagement -> Nat]
          /\ seat \in [Engagement -> {"none", "running", "exited"}]
          /\ late \subseteq Engagement
          /\ counter \in 0..MaxEngagements
          /\ procs \subseteq Engagement
          /\ turn \in Turns
          /\ stops \in 0..MaxStops
          /\ call \in [Threads -> Call]
          /\ scale \in Scales

\* A report is about a seat that has stopped: whatever finalizes an engagement,
\* the drain, a wait, a cancel, the exit or the recovery, no process goes on
\* working behind the report (collect, assistant_tools.py:863).
NoSeatAfterReport == \A e \in Engagement : digest[e] # "none" => seat[e] # "running"

\* With one call a turn, an engagement is recorded once in each life of the
\* process: only a stop between the record and the digest has it recorded again
\* (_register_record; the recovery of _reconcile never files what is filed).
RecordedOncePerLife ==
    scale.calls = 1 => \A e \in Engagement : rows[e] <= 1 + stops

\* With one call a turn, a report is heard once in each life: only the exit's own
\* delivery, which leaves no marker, is repeated after a resume (_take_reports,
\* shutdown_pending).
HeardOncePerLife ==
    scale.calls = 1 => \A e \in Engagement : heard[e] <= 1 + stops

\* A claude session is resumed by one engagement at a time, as long as a turn
\* holds one call: the check of continue_engagement is not repeated at the launch.
OneSeatPerSession ==
    scale.calls = 1 => \A e, f \in Unfinalized : e # f => root[e] # root[f]

\* "Nothing is ever left running at episode exit" (the finally of run_episode),
\* but for a seat whose manifest a stop kept from being written.
NothingLeftRunning ==
    turn = "ended" => \A e \in Engagement :
                         seat[e] = "running" => ~Registered(e) /\ stops > 0

\* The engagements are sound whatever the harness is doing: no seat works behind
\* its report, no report is recorded or heard twice in one life, no session has
\* two seats, and an episode that has ended has none.
Consistent == /\ TypeOK /\ NoSeatAfterReport
              /\ RecordedOncePerLife /\ HeardOncePerLife
              /\ OneSeatPerSession /\ NothingLeftRunning

\* A collaborator's work is not lost: the report of every registered engagement
\* gets to the wire, unless the process is stopped or the episode ends with the
\* report filed but not taken (a sweep inside engage filed it in the last step).
ReportHeard ==
    \A e \in Engagement :
       Registered(e) ~> \/ heard[e] > 0
                        \/ stops > 0
                        \/ turn = "ended" /\ e \in Unread

\* The harness is an implementation of the engagement protocol.
Phase(e) == IF ~Registered(e) THEN "unopened"
            ELSE IF digest[e] = "none" THEN "open"
            ELSE IF Has(e, "marker") THEN "handed" ELSE "filed"
Protocol == INSTANCE EngagementProtocol
               WITH Engagement <- Engagement,
                    phase <- [e \in Engagement |-> Phase(e)],
                    working <- {e \in Engagement : seat[e] = "running"}
RefinesProtocol == Protocol!Spec
================================================================================
