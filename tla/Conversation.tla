------------------------------ MODULE Conversation ------------------------------
(***************************************************************************)
(* An episode of the Scientist: the deliberation loop (agent.py), its wire *)
(* log and session (scientist_session.py), its launch and its exit         *)
(* contract (cli.py), the supervisor that relaunches it (run_scientist.sh),*)
(* its records (ledger.py) and its background jobs (world.py).             *)
(*                                                                         *)
(* The conversation is held twice: messages is what the model is shown,    *)
(* compacted and with the current view in place; wire is the file a resume *)
(* rebuilds it from.  A message keeps its role, the calls it makes or      *)
(* answers and how its text would fare: "quotes" contains the marker of    *)
(* the current view, "splits" a line separator of Unicode, which           *)
(* splitlines() splits at and json.dumps(ensure_ascii=False) leaves alone. *)
(*                                                                         *)
(* The three files (wire, views, events) are line logs: an append that is  *)
(* killed leaves a torn line without its newline, and the next append is   *)
(* joined to it.  Engagements has the collaborators; here they appear as   *)
(* the reviewer the exit asks for, as an executor at work in the live      *)
(* world, and as the reports emitted at the exit.                          *)
(***************************************************************************)
EXTENDS Integers, Sequences, FiniteSets, SequencesExt

CONSTANTS MaxTurns,     \* turns of all lives: a bound, not in the code
          MaxStops,     \* kills, interrupts and relaunches: a bound, not in the code
          Sizes,        \* the sizes of run to explore: bounds, not in the code
          Keep,         \* compact_keep_messages
          MaxIdle,      \* _MAX_IDLE_TURNS
          MaxRefusals,  \* _LISTEN_REFUSAL_MAX
          MaxJobs       \* _BACKGROUND_JOBS_MAX

Terminals == {"deliver", "abstain"}
\* One name for the tools that only look, one for those that may write the tree.
Tools == Terminals \cup {"look", "edit", "review", "executor", "background",
                         "view", "create", "update"}
Texts == {"plain", "quotes", "splits"}

\* A size: the tools and the texts of the run, its calls a turn, the steps of a life
\* (budget.steps), its wall clock, and the turns and the stops.  The clock does not
\* run out, or leaves room for the knock before the margin of the cut-off, or, under
\* half an hour of wall, does not (wall_seconds).
ASSUME ConversationAssumption ==
    /\ MaxTurns \in Nat /\ MaxStops \in Nat
    /\ Keep \in Nat \ {0} /\ MaxIdle \in Nat \ {0} /\ MaxRefusals \in Nat /\ MaxJobs \in Nat
    /\ \A z \in Sizes : /\ z.tools \subseteq Tools /\ z.texts \subseteq Texts
                        /\ z.width \in Nat /\ z.steps \in Nat /\ z.clock \in {"ample", "long", "brief"}
                        /\ z.turns \in 0..MaxTurns /\ z.stops \in 0..MaxStops
                        /\ "plain" \in z.texts

VARIABLES
    \* the world's .scientist directory
    wire,      \* wire.jsonl: the messages in order of arrival
    views,     \* research_state.jsonl: the revisions of the current view
    events,    \* research_memory.jsonl
    concl,     \* conclusion.json: "none" or its outcome
    heard,     \* what the newest mtime below src/ and the last review finished say
               \* to the door, and whether they are right
    \* the Scientist's process
    pc,        \* where it is
    messages,  \* what the model is shown
    opened,    \* messages of the opening already on the wire
    step,      \* the turn of this life
    time,      \* the wall clock: ample, short (under its first mark) or spent
    knocked, idleTurns, refusals,
    batch,     \* the calls of the turn
    answered,  \* how many of them have their result on the wire
    jobs,      \* the registry of background commands
    hand,      \* whether an executor has been sent to work in the live world
    outcome,   \* how run_episode ended
    \* the world around it
    loose,     \* what was at work in the world when a loop was left: a background
               \* "job", which lives on, a "hand", which the exit or a launch kills
    turns,     \* turns of all lives: numbers the calls
    stops, size

files == <<wire, views, events, concl>>
loop  == <<messages, opened, step, knocked, idleTurns, refusals, outcome>>
calls == <<batch, answered>>
world == <<heard, jobs, hand, loose>>
episodeVars  == <<files, loop, calls, world, pc, time, turns, stops, size>>
--------------------------------------------------------------------------------
(* Line logs.                                                              *)

Row(role, name, text) == [role |-> role, name |-> name, text |-> text]
Torn   == Row("torn", 0, "plain")
Broken == Row("broken", 0, "plain")

OpenEnded(log)  == log # <<>> /\ Last(log).role = "torn"
Write(log, row) == IF OpenEnded(log) THEN [log EXCEPT ![Len(log)] = Broken]
                                     ELSE Append(log, row)
Tear(log)       == IF OpenEnded(log) THEN log ELSE Append(log, Torn)
IsRow(row)      == row.role \notin {"torn", "broken"}

\* The rows that have neither one of these roles nor one of these texts, in their
\* order: SelectSeq as a recursive function, which can be reasoned about.
Leaving(roles, texts, rows) ==
    LET kept[n \in 0..Len(rows)] ==
            IF n = 0 THEN <<>>
            ELSE IF rows[n].role \in roles \/ rows[n].text \in texts THEN kept[n - 1]
            ELSE Append(kept[n - 1], rows[n])
    IN kept[Len(rows)]

Readable(log)   == Leaving({"torn", "broken"}, {"splits"}, log)
Whole(log)      == \A i \in DOMAIN log : IsRow(log[i]) /\ log[i].text # "splits"
--------------------------------------------------------------------------------
(* Messages.                                                               *)

Message(role, made, to, says, name, text) ==
    [role |-> role, calls |-> made, to |-> to, says |-> says, name |-> name, text |-> text]
Note(says)            == Message("user", <<>>, 0, says, 0, "plain")
View(rev)             == Message("view", <<>>, 0, "view", rev, "plain")
Assistant(made, text) == Message("assistant", made, 0, "", 0, text)
Result(call, says, name, text) == Message("tool", <<>>, call, says, name, text)

Opening == <<Note("opening")>>

IsTurn(m) == m.role = "assistant"
FirstTurn(ms) == IF \E i \in DOMAIN ms : IsTurn(ms[i])
                   THEN CHOOSE i \in DOMAIN ms :
                           IsTurn(ms[i]) /\ \A j \in 1..i - 1 : ~IsTurn(ms[j])
                   ELSE Len(ms) + 1

\* The message that carries the view, and any other that holds its marker, gives
\* way to the view of the day, placed before the first turn.
Upserted(ms, rows) ==
    LET now  == Readable(rows)
        kept == Leaving({"view"}, {"quotes"}, ms)
        at   == FirstTurn(kept)
    IN IF now = <<>> THEN kept
       ELSE SubSeq(kept, 1, at - 1) \o <<View(Last(now).name)>>
               \o SubSeq(kept, at, Len(kept))

\* What compaction may leave: the framing and the turns from one of them on.  Turns
\* are shed while those that follow would still be over, so that the turns after
\* the first one kept are within Keep messages; the size of their texts, which is
\* left out, may shed more of them, up to the last.
Compacted(ms) ==
    LET begins == {i \in DOMAIN ms : IsTurn(ms[i])}
    IN IF begins = {} THEN {ms}
       ELSE {SubSeq(ms, 1, FirstTurn(ms) - 1) \o SubSeq(ms, i, Len(ms)) :
                i \in {i \in begins : \A j \in begins : j > i => Len(ms) - j < Keep}}

\* What a resume reads: every call that was left without a result gets one, in
\* the order of the calls' names, which means nothing.
Interrupted(pending) ==
    [i \in 1..Cardinality(pending) |-> Result(SetToSeq(pending)[i], "interrupted", 0, "plain")]

\* acc is what was read so far and the calls that wait for their result.
Taken_LastOnly(acc, m) ==
    IF IsTurn(m) /\ m.calls # <<>>
      THEN [out |-> Append(acc.out, m), pending |-> ToSet(m.calls)]
      ELSE [out |-> Append(acc.out, m), pending |-> acc.pending \ {m.to}]
Taken(acc, m) ==
    IF IsTurn(m) /\ m.calls # <<>>
      THEN [out |-> acc.out \o Interrupted(acc.pending) \o <<m>>, pending |-> ToSet(m.calls)]
    ELSE IF m.role = "tool" /\ acc.pending # {}
      THEN [out |-> Append(acc.out, m), pending |-> acc.pending \ {m.to}]
    ELSE [out |-> acc.out \o Interrupted(acc.pending) \o <<m>>, pending |-> {}]
Repaired(ms) ==
    LET read[n \in 0..Len(ms)] ==
            IF n = 0 THEN [out |-> <<>>, pending |-> {}] ELSE Taken(read[n - 1], ms[n])
        all == read[Len(ms)]
    IN all.out \o Interrupted(all.pending)

Emit(m) == /\ messages' = Append(messages, m)
           /\ wire' = Write(wire, m)
--------------------------------------------------------------------------------
(* Launching: main() of the CLI and the first lines of run_episode.        *)

Prior == Repaired(Readable(wire))

\* _reconcile: an executor that survived its Scientist is killed before the loop.
Reconciled == hand' = FALSE /\ loose' = loose \ {"hand"}

\* The wire has something to resume; no conclusion stands while the process is down.
Resume_Unsaid ==
    /\ pc = "down" /\ Prior # <<>>
    /\ \E ms \in Compacted(Append(Prior, Note("resumed"))) : messages' = Upserted(ms, views)
    /\ pc' = "top"
    /\ Reconciled
    /\ UNCHANGED <<files, opened, step, knocked, idleTurns, refusals, outcome,
                   calls, heard, jobs, time, turns, stops, size>>
Resume ==
    /\ pc = "down" /\ Prior # <<>>
    /\ wire' = Write(wire, Note("resumed"))
    /\ \E ms \in Compacted(Append(Prior, Note("resumed"))) : messages' = Upserted(ms, views)
    /\ pc' = "top"
    /\ Reconciled
    /\ UNCHANGED <<views, events, concl, opened, step, knocked, idleTurns, refusals, outcome,
                   calls, heard, jobs, time, turns, stops, size>>

\* It begins; a wire that exists, even with nothing to read, is not a cold start.
Begin ==
    /\ pc = "down" /\ Prior = <<>>
    /\ messages' = Upserted(Opening, views)
    /\ pc' = IF wire = <<>> THEN "open" ELSE "top"
    /\ Reconciled
    /\ UNCHANGED <<files, opened, step, knocked, idleTurns, refusals, outcome,
                   calls, heard, jobs, time, turns, stops, size>>

\* A cold start records the framing, then points at an inherited memory.
RecordOpening ==
    /\ pc = "open"
    /\ IF opened < Len(messages)
         THEN /\ wire' = Write(wire, messages[opened + 1])
              /\ opened' = opened + 1
              /\ UNCHANGED <<messages, pc>>
         ELSE /\ pc' = "top"
              /\ IF events # <<>> THEN Emit(Note("inherited")) ELSE UNCHANGED <<messages, wire>>
              /\ UNCHANGED opened
    /\ UNCHANGED <<views, events, concl, step, knocked, idleTurns, refusals, outcome,
                   calls, world, time, turns, stops, size>>
--------------------------------------------------------------------------------
(* The top of a turn.                                                      *)

\* The loop is left; what still runs in the background is not looked for any more.
Released == /\ loose' = loose \cup (IF \E j \in DOMAIN jobs : jobs[j] = "running"
                                     THEN {"job"} ELSE {})
                                \cup (IF hand THEN {"hand"} ELSE {})
            /\ jobs' = [j \in DOMAIN jobs |-> "free"]
Ends(how) == outcome' = how /\ pc' = "exit" /\ Released /\ UNCHANGED hand

\* The external end is announced once, under the threshold of the knock, which is
\* the first mark of a long clock and the second of a brief one.
KnockTime == time = "spent" \/ (time = "short" /\ size.clock = "long")
Knock ==
    /\ pc = "top" /\ step <= size.steps /\ ~knocked /\ KnockTime
    /\ Emit(Note("knock"))
    /\ knocked' = TRUE
    /\ UNCHANGED <<views, events, concl, opened, step, idleTurns, refusals, outcome,
                   calls, world, pc, time, turns, stops, size>>

\* No steps or no time for another model call: what is on file survives.  Where the
\* margin is the first mark it is passed without a knock.
CutOffTime == time = "spent" \/ (time = "short" /\ size.clock = "brief")
CutOff ==
    /\ pc = "top"
    /\ step > size.steps \/ (CutOffTime /\ (knocked \/ ~KnockTime))
    /\ Ends("cut_off")
    /\ UNCHANGED <<files, messages, opened, step, knocked, idleTurns, refusals,
                   calls, heard, time, turns, stops, size>>

\* The pace note of a life's first step.
Pace ==
    /\ pc = "top" /\ step <= size.steps
    /\ ~CutOffTime /\ (knocked \/ ~KnockTime)
    /\ pc' = "drain"
    /\ IF step = 1 THEN Emit(Note("pace")) ELSE UNCHANGED <<messages, wire>>
    /\ UNCHANGED <<views, events, concl, opened, step, knocked, idleTurns, refusals, outcome,
                   calls, world, time, turns, stops, size>>

\* A finished background command, or one past its time, which is killed, is reported.
DrainJob(j) ==
    /\ pc = "drain" /\ jobs[j] # "free"
    /\ Emit(Note("job"))
    /\ jobs' = [jobs EXCEPT ![j] = "free"]
    /\ UNCHANGED <<views, events, concl, opened, step, knocked, idleTurns, refusals, outcome,
                   calls, heard, hand, loose, pc, time, turns, stops, size>>

\* poll_completions: an executor that is done, or was killed by the sweep, reports.
DrainHand ==
    /\ pc = "drain" /\ hand
    /\ Emit(Note("report"))
    /\ hand' = FALSE
    /\ UNCHANGED <<views, events, concl, opened, step, knocked, idleTurns, refusals, outcome,
                   calls, heard, jobs, loose, pc, time, turns, stops, size>>

Drained ==
    /\ pc = "drain" /\ \A j \in DOMAIN jobs : jobs[j] # "exited"
    /\ pc' = "think"
    /\ UNCHANGED <<files, loop, calls, world, time, turns, stops, size>>
--------------------------------------------------------------------------------
(* The model's reply.                                                      *)

Call(tool, id) == [tool |-> tool, id |-> id, at |-> "asked", name |-> 0,
                   says |-> "done", text |-> "plain"]
Ids(n) == [k \in 1..n |-> size.width * turns + k]

\* Text without a call.
TalkOnly(text) ==
    /\ pc = "think" /\ turns < size.turns
    /\ Emit(Assistant(<<>>, text))
    /\ turns' = turns + 1
    /\ IF idleTurns + 1 < MaxIdle
         THEN idleTurns' = idleTurns + 1 /\ step' = step + 1 /\ pc' = "top"
         ELSE idleTurns' = 0 /\ pc' = "nudge" /\ UNCHANGED step
    /\ UNCHANGED <<views, events, concl, opened, knocked, refusals, outcome,
                   calls, world, time, stops, size>>

Nudge ==
    /\ pc = "nudge"
    /\ Emit(Note("nudge"))
    /\ step' = step + 1 /\ pc' = "top"
    /\ UNCHANGED <<views, events, concl, opened, knocked, idleTurns, refusals, outcome,
                   calls, world, time, turns, stops, size>>

\* A turn with calls; one terminal call alone goes to the door.
Act(tools, text) ==
    /\ pc = "think" /\ turns < size.turns
    /\ LET ids == Ids(Len(tools))
       IN /\ Emit(Assistant(ids, text))
          /\ batch' = [k \in DOMAIN tools |-> Call(tools[k], ids[k])]
    /\ turns' = turns + 1
    /\ idleTurns' = 0 /\ answered' = 0
    /\ pc' = IF Len(tools) = 1 /\ tools[1] \in Terminals THEN "door" ELSE "act"
    /\ UNCHANGED <<views, events, concl, opened, step, knocked, refusals, outcome,
                   world, time, stops, size>>

\* The transport fails for good, or the provider rejects the conversation.
ModelFails ==
    /\ pc = "think"
    /\ Ends("failed")
    /\ UNCHANGED <<files, messages, opened, step, knocked, idleTurns, refusals,
                   calls, heard, time, turns, stops, size>>
--------------------------------------------------------------------------------
(* The exit contract: validate_conclusion().                               *)

Listening == refusals < MaxRefusals

\* reviewer_heard_after(_last_src_write()): some review was finished after the newest
\* mtime below src/.  That answer is "stale" when src/ was changed since without
\* leaving a newer mtime there: an entry was deleted, or one moved in with its own.
LooksHeard == heard \in {"yes", "stale"}
Changed    == IF heard = "never" THEN {"never"} ELSE {"no", "stale"}

\* Nobody asks whether something still works in the live world.
Accept ==
    /\ pc = "door"
    /\ batch[1].tool = "deliver" => LooksHeard \/ ~Listening
    /\ Ends(batch[1].tool)
    /\ UNCHANGED <<files, messages, opened, step, knocked, idleTurns, refusals,
                   calls, heard, time, turns, stops, size>>

\* A malformed handover or reason, or a delivery no Reviewer has looked back at.
Refuse(says) ==
    /\ pc = "door"
    /\ says = "unheard" => batch[1].tool = "deliver" /\ ~LooksHeard /\ Listening
    /\ Emit(Result(batch[1].id, says, 0, "plain"))
    /\ refusals' = IF says = "unheard" THEN refusals + 1 ELSE refusals
    /\ batch' = <<>> /\ step' = step + 1 /\ pc' = "top"
    /\ UNCHANGED <<views, events, concl, opened, knocked, idleTurns, outcome, answered,
                   world, time, turns, stops, size>>
--------------------------------------------------------------------------------
(* The calls of a turn, each on its thread.                                *)

At(k, stage)  == pc = "act" /\ k \in DOMAIN batch /\ batch[k].at = stage
Is(k, tools)  == batch[k].tool \in tools
Done(k, says) == batch' = [batch EXCEPT ![k].at = "done", ![k].says = says]

\* The appends to the records take turns; the lock is held from the read on.
RecordFree_Unlocked == TRUE
RecordFree == \A k \in DOMAIN batch : batch[k].at \notin {"drawn", "half"}

Look(k, text) ==
    /\ At(k, "asked") /\ Is(k, {"look"})
    /\ batch' = [batch EXCEPT ![k].at = "done", ![k].text = text]
    /\ UNCHANGED <<files, loop, answered, world, pc, time, turns, stops, size>>

\* An argument the archive search converts without a check.
LookRaises(k) ==
    /\ At(k, "asked") /\ Is(k, {"look"})
    /\ batch' = [batch EXCEPT ![k].at = "raised"]
    /\ UNCHANGED <<files, loop, answered, world, pc, time, turns, stops, size>>

Edit(k) ==
    /\ At(k, "asked") /\ Is(k, {"edit"})
    /\ heard' \in Changed
    /\ Done(k, "done")
    /\ UNCHANGED <<files, loop, answered, jobs, hand, loose, pc, time, turns, stops, size>>

\* engage(): the reviewer runs inside the call.
Review(k) ==
    /\ At(k, "asked") /\ Is(k, {"review"})
    /\ heard' \in {heard, "yes"}
    /\ Done(k, "done")
    /\ UNCHANGED <<files, loop, answered, jobs, hand, loose, pc, time, turns, stops, size>>

\* engage_async() or continue_engagement() of an executor whose workspace is the
\* live world, or wait() for it and cancel_engagement().
Engage(k) ==
    /\ At(k, "asked") /\ Is(k, {"executor"})
    /\ hand' \in BOOLEAN
    /\ Done(k, "done")
    /\ UNCHANGED <<files, loop, answered, heard, jobs, loose, pc, time, turns, stops, size>>

Background(k) ==
    /\ At(k, "asked") /\ Is(k, {"background"})
    /\ IF \E j \in DOMAIN jobs : jobs[j] = "free"
         THEN /\ \E j \in DOMAIN jobs : /\ jobs[j] = "free"
                                        /\ \A i \in 1..j - 1 : jobs[i] # "free"
                                        /\ jobs' = [jobs EXCEPT ![j] = "running"]
              /\ Done(k, "done")
         ELSE UNCHANGED jobs /\ Done(k, "full")
    /\ UNCHANGED <<files, loop, answered, heard, hand, loose, pc, time, turns, stops, size>>

\* A terminal beside other calls is sent back.
NotAlone(k) ==
    /\ At(k, "asked") /\ Is(k, Terminals)
    /\ Done(k, "alone")
    /\ UNCHANGED <<files, loop, answered, world, pc, time, turns, stops, size>>

\* remember() and revise_research_state() name what they write after a read.
Items == {events[i].name : i \in {j \in DOMAIN events : events[j].role = "create"}}
NextItem == 1 + Max(Items \cup {0})
NextRevision == Len(Readable(views)) + 1

Draw(k) ==
    /\ At(k, "asked") /\ Is(k, {"create", "view"}) /\ RecordFree
    /\ batch' = [batch EXCEPT ![k].at = "drawn",
                              ![k].name = IF Is(k, {"create"}) THEN NextItem ELSE NextRevision]
    /\ UNCHANGED <<files, loop, answered, world, pc, time, turns, stops, size>>

Create(k) ==
    /\ At(k, "drawn") /\ Is(k, {"create"})
    /\ events' = Write(events, Row("create", batch[k].name, "plain"))
    /\ Done(k, "created")
    /\ UNCHANGED <<wire, views, concl, loop, answered, world, pc, time, turns, stops, size>>

Revise(k) ==
    /\ At(k, "drawn") /\ Is(k, {"view"})
    /\ views' = Write(views, Row("view", batch[k].name, "plain"))
    /\ Done(k, "revised")
    /\ UNCHANGED <<wire, events, concl, loop, answered, world, pc, time, turns, stops, size>>

\* An item is updated by two appends: its new content, then its new status.
Update(k) ==
    /\ At(k, "asked") /\ Is(k, {"update"}) /\ RecordFree
    /\ IF Items = {}
         THEN Done(k, "unknown") /\ UNCHANGED events
         ELSE \E i \in Items :
                 /\ events' = Write(events, Row("revise", i, "plain"))
                 /\ batch' = [batch EXCEPT ![k].at = "half", ![k].name = i]
    /\ UNCHANGED <<wire, views, concl, loop, answered, world, pc, time, turns, stops, size>>
Restatus(k) ==
    /\ At(k, "half")
    /\ events' = Write(events, Row("status", batch[k].name, "plain"))
    /\ Done(k, "updated")
    /\ UNCHANGED <<wire, views, concl, loop, answered, world, pc, time, turns, stops, size>>

\* The pool is joined; a call that raised takes the episode with it.
Settled == \A k \in DOMAIN batch : batch[k].at \in {"done", "raised"}
Joined ==
    /\ pc = "act" /\ Settled
    /\ IF \E k \in DOMAIN batch : batch[k].at = "raised"
         THEN Ends("raised")
         ELSE pc' = "answer" /\ UNCHANGED <<outcome, jobs, hand, loose>>
    /\ UNCHANGED <<files, messages, opened, step, knocked, idleTurns, refusals,
                   calls, heard, time, turns, stops, size>>

\* The results in the order of the calls; a revision renews the view at once.
Answer ==
    /\ pc = "answer" /\ answered < Len(batch)
    /\ LET c == batch[answered + 1]
           m == Result(c.id, c.says, c.name, c.text)
       IN /\ wire' = Write(wire, m)
          /\ messages' = IF c.says = "revised" THEN Upserted(Append(messages, m), views)
                                               ELSE Append(messages, m)
    /\ answered' = answered + 1
    /\ UNCHANGED <<views, events, concl, opened, step, knocked, idleTurns, refusals, outcome,
                   batch, world, pc, time, turns, stops, size>>

TurnOver ==
    /\ pc = "answer" /\ answered = Len(batch)
    /\ \E ms \in Compacted(messages) : messages' = Upserted(ms, views)
    /\ batch' = <<>> /\ answered' = 0
    /\ step' = step + 1 /\ pc' = "top"
    /\ UNCHANGED <<files, opened, knocked, idleTurns, refusals, outcome,
                   world, time, turns, stops, size>>
--------------------------------------------------------------------------------
(* The end: the finally of run_episode, conclusion.json, and the stops.    *)

\* Nothing of the process is left, but whatever still runs in the background.
Leave ==
    /\ messages' = <<>> /\ opened' = 0 /\ step' = 1 /\ time' = "ample"
    /\ knocked' = FALSE /\ idleTurns' = 0 /\ refusals' = 0
    /\ batch' = <<>> /\ answered' = 0 /\ outcome' = "none"
    /\ Released

\* The collaborators left are killed and salvaged, and their reports recorded; a
\* salvage that fails leaves the next of them alone.
Shutdown ==
    /\ pc \in {"exit", "unwind"}
    /\ pc' = IF pc = "exit" THEN "conclude" ELSE "gone"
    /\ hand' \in {hand, FALSE}
    /\ Emit(Note("report")) \/ UNCHANGED <<messages, wire>>
    /\ UNCHANGED <<views, events, concl, opened, step, knocked, idleTurns, refusals, outcome,
                   calls, heard, jobs, loose, time, turns, stops, size>>

\* "Without this, the harness cannot tell crash from still-running."
Conclude_ModelOnly ==
    /\ pc = "conclude"
    /\ concl' = IF outcome = "raised" THEN "none" ELSE outcome
    /\ pc' = "ended"
    /\ Leave
    /\ UNCHANGED <<wire, views, events, heard, hand, turns, stops, size>>
Conclude ==
    /\ pc = "conclude"
    /\ concl' = outcome
    /\ pc' = "ended"
    /\ Leave
    /\ UNCHANGED <<wire, views, events, heard, hand, turns, stops, size>>

\* A keyboard interrupt that unwound the loop: no conclusion is written.
Gone ==
    /\ pc = "gone"
    /\ pc' = "down"
    /\ Leave
    /\ UNCHANGED <<files, heard, hand, turns, stops, size>>

Interrupt ==
    /\ stops < size.stops
    /\ \/ pc \in {"top", "drain", "think", "nudge", "door", "answer"}
       \/ pc = "act" /\ (Len(batch) = 1 \/ Settled)
    /\ stops' = stops + 1
    /\ pc' = "unwind"
    /\ Released
    /\ UNCHANGED <<files, loop, calls, heard, hand, time, turns, size>>

\* The process is killed, perhaps in the middle of an append.
Kill ==
    /\ stops < size.stops /\ pc \notin {"down", "ended"}
    /\ stops' = stops + 1
    /\ \/ UNCHANGED <<wire, views, events>>
       \/ /\ pc \in {"open", "top", "drain", "think", "nudge", "door", "answer", "exit", "unwind"}
          /\ wire' = Tear(wire) /\ UNCHANGED <<views, events>>
       \/ /\ \E k \in DOMAIN batch : At(k, "half") \/ (At(k, "drawn") /\ Is(k, {"create"}))
          /\ events' = Tear(events) /\ UNCHANGED <<wire, views>>
       \/ /\ \E k \in DOMAIN batch : At(k, "drawn") /\ Is(k, {"view"})
          /\ views' = Tear(views) /\ UNCHANGED <<wire, events>>
    /\ pc' = "down"
    /\ Leave
    /\ UNCHANGED <<concl, heard, hand, turns, size>>

\* The supervisor sweeps what is left of a run whose model failed, moves the crashed
\* conclusion aside and launches again.
Supervise ==
    /\ pc = "ended" /\ concl = "failed" /\ stops < size.stops
    /\ stops' = stops + 1
    /\ concl' = "none" /\ loose' = {}
    /\ pc' = "down"
    /\ UNCHANGED <<wire, views, events, loop, calls, heard, jobs, hand, time, turns, size>>
--------------------------------------------------------------------------------
(* The world.                                                              *)

\* A background command or an executor in the live world changes src/.
LateWrites ==
    /\ hand \/ "job" \in loose \/ \E j \in DOMAIN jobs : jobs[j] = "running"
    /\ heard' \in Changed \ {heard}
    /\ UNCHANGED <<files, loop, calls, jobs, hand, loose, pc, time, turns, stops, size>>
JobExits(j) ==
    /\ jobs[j] = "running"
    /\ jobs' = [jobs EXCEPT ![j] = "exited"]
    /\ UNCHANGED <<files, loop, calls, heard, hand, loose, pc, time, turns, stops, size>>

\* A long call may take the clock past both marks.
Tick ==
    /\ size.clock # "ample" /\ pc \in {"think", "act"} /\ time # "spent"
    /\ time' \in IF time = "ample" THEN {"short", "spent"} ELSE {"spent"}
    /\ UNCHANGED <<files, loop, calls, world, pc, turns, stops, size>>
--------------------------------------------------------------------------------
EpisodeInit ==
    /\ wire = <<>> /\ views = <<>> /\ events = <<>> /\ concl = "none"
    /\ heard = "never"
    /\ pc = "down" /\ messages = <<>> /\ opened = 0 /\ step = 1 /\ time = "ample"
    /\ knocked = FALSE /\ idleTurns = 0 /\ refusals = 0
    /\ batch = <<>> /\ answered = 0 /\ outcome = "none"
    /\ jobs = [j \in 1..MaxJobs |-> "free"]
    /\ hand = FALSE /\ loose = {} /\ turns = 0 /\ stops = 0
    /\ size \in Sizes

TurnTop  == Knock \/ CutOff \/ Pace \/ Drained \/ DrainHand \/ \E j \in DOMAIN jobs : DrainJob(j)
Reply    == \/ ModelFails
            \/ \E text \in size.texts :
                  \/ TalkOnly(text)
                  \/ \E n \in 1..size.width : \E tools \in [1..n -> size.tools] : Act(tools, text)
Door     == Accept \/ \E says \in {"malformed", "unheard"} : Refuse(says)
CallStep(k) == \/ LookRaises(k) \/ Edit(k) \/ Review(k) \/ Engage(k) \/ Background(k)
               \/ NotAlone(k)
               \/ Draw(k) \/ Create(k) \/ Revise(k) \/ Update(k) \/ Restatus(k)
               \/ \E text \in size.texts : Look(k, text)
Finish   == Joined \/ Answer \/ TurnOver \/ Shutdown \/ Conclude \/ Gone

Launch    == Resume \/ Begin
Scientist == \/ RecordOpening \/ TurnTop \/ Reply \/ Nudge \/ Door \/ Finish
             \/ \E k \in DOMAIN batch : CallStep(k)

Stopping  == Interrupt \/ Kill \/ Supervise

Rest == pc = "ended" /\ UNCHANGED episodeVars

EpisodeNext == \/ Launch \/ Scientist \/ Stopping \/ Rest
               \/ LateWrites \/ Tick \/ \E j \in DOMAIN jobs : JobExits(j)

\* The process runs on; nobody has to relaunch one that was stopped.
EpisodeSpec     == EpisodeInit /\ [][EpisodeNext]_episodeVars
EpisodeFairSpec == EpisodeSpec /\ WF_episodeVars(Scientist)
--------------------------------------------------------------------------------
(* Properties.                                                             *)

IsMessage(m) == /\ DOMAIN m = {"role", "calls", "to", "says", "name", "text"}
                /\ m.role \in {"user", "view", "assistant", "tool"}
                /\ m.text \in Texts

\* The logs, the conversation and the loop's counters hold values of their kind.
EpisodeTypeOK == /\ \A i \in DOMAIN wire : wire[i] \in {Torn, Broken} \/ IsMessage(wire[i])
                 /\ \A i \in DOMAIN views : views[i].role \in {"view", "torn", "broken"}
                 /\ \A i \in DOMAIN events :
                       events[i].role \in {"create", "revise", "status", "torn", "broken"}
                 /\ concl \in {"none", "cut_off", "failed", "raised"} \cup Terminals
                 /\ heard \in {"never", "no", "stale", "yes"} /\ hand \in BOOLEAN
                 /\ loose \subseteq {"job", "hand"} /\ knocked \in BOOLEAN
                 /\ \A i \in DOMAIN messages : IsMessage(messages[i])
                 /\ step \in 1..size.steps + 1 /\ time \in {"ample", "short", "spent"}
                 /\ idleTurns \in 0..MaxIdle - 1 /\ refusals \in 0..MaxRefusals
                 /\ jobs \in [1..MaxJobs -> {"free", "running", "exited"}]
                 /\ opened \in 0..2 /\ answered \in 0..Len(batch)
                 /\ outcome \in {"none", "cut_off", "failed", "raised"} \cup Terminals
                 /\ turns \in 0..MaxTurns /\ stops \in 0..size.stops /\ size \in Sizes

\* Every turn's calls are followed by their results and nothing else, and every
\* result follows its turn.
Paired(ms) ==
    /\ \A i \in DOMAIN ms :
          IsTurn(ms[i]) =>
             LET n == Len(ms[i].calls)
             IN /\ i + n <= Len(ms)
                /\ \A j \in i + 1..i + n : ms[j].role = "tool"
                /\ {ms[j].to : j \in i + 1..i + n} = ToSet(ms[i].calls)
    /\ \A i \in DOMAIN ms :
          ms[i].role = "tool" =>
             \E j \in 1..i - 1 : /\ IsTurn(ms[j]) /\ i <= j + Len(ms[j].calls)
                                 /\ ms[i].to \in ToSet(ms[j].calls)

\* The model is never shown an orphan, which its provider would reject: not after
\* a compaction, a refused exit, or a resume of a conversation that was cut
\* anywhere (_compact_native, _complete_dangling_calls), as long as no text
\* quotes the view's marker and no line of the wire is torn or split.
CallsStayPaired ==
    pc = "think" /\ "quotes" \notin size.texts /\ "splits" \notin size.texts
       => Paired(messages)

\* The model thinks with the view of the day, once (_upsert_judgment_message).
ViewIsCurrent ==
    pc = "think" =>
       Leaving({"user", "assistant", "tool"}, {}, messages)
          = LET now == Readable(views) IN IF now = <<>> THEN <<>> ELSE <<View(Last(now).name)>>

\* The wire replays the conversation exactly: what the model is shown is what a
\* resume would read, cut at the beginning of a turn (append_wire,
\* load_wire_messages), as long as no line is torn or split.
Spoken(ms) == Leaving({"view"}, {}, ms)
ReplaysExactly ==
    pc = "think" /\ Whole(wire) /\ "quotes" \notin size.texts =>
       LET all == Spoken(Prior)
           now == Spoken(messages)
           at  == FirstTurn(all)
       IN \E i \in at..Len(all) + 1 :
             /\ i <= Len(all) => IsTurn(all[i])
             /\ now = SubSeq(all, 1, at - 1) \o SubSeq(all, i, Len(all))

\* A delivered world was looked back at by a Reviewer after its last change, with
\* four exceptions the code leaves open (validate_conclusion, reviewer_heard_after):
\* the change left no newer mtime below src/, a background command or an executor
\* in the live world was still at work when the loop was left - the door does not
\* ask, and the finally kills executors only - or three deliveries were refused.
DeliveredHeard ==
    pc = "ended" /\ concl = "deliver" /\ Whole(wire) =>
       \/ heard \in {"yes", "stale"}
       \/ loose # {}
       \/ Cardinality({i \in DOMAIN wire : wire[i].says = "unheard"}) >= MaxRefusals

\* What is put before the model is whole, turns with their results and the view,
\* and what it delivers has been listened to.
Consistent == EpisodeTypeOK /\ CallsStayPaired /\ ViewIsCurrent /\ DeliveredHeard

\* Two answers never name the same new item of the research memory, although the
\* calls of a turn run at once and lives follow each other, as long as no event is
\* torn by a kill or split at a separator in its text: a row that is not read back
\* gives its name away again (_next_memory_id, remember).
OneItemPerName ==
    Whole(events) =>
       \A i, j \in DOMAIN wire :
          IsRow(wire[i]) /\ IsRow(wire[j]) /\ i # j
             => ~(/\ wire[i].says = "created" /\ wire[j].says = "created"
                  /\ wire[i].name = wire[j].name)

\* "A crashed run leaves a crashed conclusion, never nothing": a launched process
\* gets to its conclusion, unless it is stopped.
EpisodeConcludes == pc = "top" ~> (pc = "ended" /\ concl # "none") \/ pc = "down"
================================================================================
