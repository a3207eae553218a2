------------------------------ MODULE SeatContext ------------------------------
(***************************************************************************)
(* What a seat's scientist is told and what is remembered of it: the list  *)
(* of messages sent to the model (assemble_research_context, the nudges,   *)
(* the corrections, emergency compaction) beside the archive session.jsonl *)
(* that outlives the attempt.  The list loses its oldest turns when the    *)
(* context is full, a kill loses all of it, and the archive is written one *)
(* message after the other.                                                *)
(*                                                                         *)
(* SeatEpisode is the rest of the same worker: tools, laboratory, result.  *)
(*                                                                         *)
(* X_Y before a definition X is X with the mistake Y, used by no action.   *)
(***************************************************************************)
EXTENDS Naturals, Sequences, FiniteSets, SequencesExt, FiniteSetsExt

CONSTANTS Policy,       \* loop.context of the configuration, see Policies
          MaxSteps,     \* scientist_steps
          MaxRepairs,   \* _MAX_PROTOCOL_REPAIRS
          Sizes,        \* how long an observation may be
          MaxAttempts   \* bound: how often the worker is started

\* ContextPolicy.from_config: a window holds at least one turn; without a
\* threshold nothing is compacted.
Policies == [compacts : BOOLEAN, window_pairs : Nat \ {0}, window_max_chars : Nat \ {0}]

ASSUME ContextAssumption ==
    /\ Policy \in Policies
    /\ MaxSteps \in Nat \ {0} /\ MaxRepairs \in Nat /\ MaxAttempts \in Nat
    /\ Sizes \subseteq Nat \ {0}

VARIABLES
    attempt,   \* the attempt that runs, or that was the last to run
    pc,        \* where its worker is; "off" when there is none
    archive,   \* session.jsonl
    notebook,  \* whether notebook.md has been written
    seeded,    \* the world comes with a first layer
    verdict,   \* a delivery of this lease has been refused
    ended,     \* how the attempt ended
    \* in the memory of the worker
    live,      \* the messages the model is sent
    due,       \* what has been said and is not in the archive yet
    told,      \* what this waking told the seat (a history variable)
    mem        \* its counters

given == <<seeded, verdict>>
store == <<archive, notebook>>
talk  == <<live, due, told>>
vars  == <<attempt, pc, store, given, ended, talk, mem>>

--------------------------------------------------------------------------------
(* Messages: what one is, the attempt and the exchange it belongs to, its  *)
(* length.                                                                 *)

Assistant == {"reply", "refused"}
Answer    == {"observation", "correction"}
Waking    == {"seed", "event", "verdict"}
Kind      == Assistant \cup Answer \cup Waking \cup {"start", "coverage", "nudge", "suspend"}
Message   == [what : Kind, by : Nat, turn : Nat, size : Nat]

Msg(what)        == [what |-> what, by |-> attempt, turn |-> mem.turn, size |-> 1]
Sized(what, n)   == [Msg(what) EXCEPT !.size = n]
Row(m)           == [m EXCEPT !.size = 1]   \* the archive's lengths do not matter
IsAssistant(m)   == m.what \in Assistant
Length(messages) == FoldLeft(LAMBDA n, m : n + m.size, 0, messages)

\* The messages of some kinds that are of an attempt from one on, in their order:
\* SelectSeq as a recursive function, which can be reasoned about.
Only(kinds, since, messages) ==
    LET only[n \in 0..Len(messages)] ==
            IF n = 0 THEN <<>>
            ELSE IF messages[n].what \in kinds /\ messages[n].by >= since
                   THEN Append(only[n - 1], messages[n])
            ELSE only[n - 1]
    IN only[Len(messages)]

--------------------------------------------------------------------------------
(* Waking: assemble_research_context.                                      *)

IsFirst == archive = <<>> /\ ~notebook

\* The first layer of a delivered world; the transition that made a world, or
\* the notice that nothing was run.
Seed       == Msg("seed")
Transition == Msg("event")

\* The coverage map may fail to build.
StartMessages(coverage) ==
    (IF IsFirst THEN <<Msg("start")>> ELSE <<>>)
        \o (IF IsFirst /\ seeded THEN <<Seed>> ELSE <<>>)
        \o (IF coverage THEN <<Msg("coverage")>> ELSE <<>>)

\* A seat that resumes is told of its world, by the seed again if it has one.
WorldEvent == IF IsFirst THEN <<>> ELSE IF seeded THEN <<Seed>> ELSE <<Transition>>

\* The write-back of the adjudication.
Feedback == IF verdict THEN <<Msg("verdict")>> ELSE <<>>

\* The start notice and the map of the moment are not archived.
Archived_AtRest == {"seed", "event"}
Archived == Waking

Framing(coverage) == StartMessages(coverage) \o WorldEvent \o Feedback

--------------------------------------------------------------------------------
(* Compaction: _compact_live_messages and _cap_tail.                       *)

\* The framing: everything before the first reply.
FirstReply(messages) == SelectInSeq(messages, IsAssistant)
Preamble(messages) == SubSeq(messages, 1, FirstReply(messages) - 1)

\* A unit begins anywhere but at the answer to the message before it.
Starts_Anywhere(tail) == DOMAIN tail
Starts(tail) == {i \in DOMAIN tail :
                    i = 1 \/ IsAssistant(tail[i]) \/ ~IsAssistant(tail[i - 1])}
Pairs(tail)  == Cardinality(DOMAIN tail \ Starts(tail))

\* The latest unit always fits.
Fits(tail) == /\ Length(tail) <= Policy.window_max_chars
              /\ Pairs(tail) <= Policy.window_pairs
CapTail(tail) ==
    LET From(i)  == SubSeq(tail, i, Len(tail))
        fitting  == {i \in Starts(tail) : Fits(From(i))}
    IN From(Min(fitting \cup {Max(Starts(tail))}))

Compacted(messages) ==
    LET first == FirstReply(messages)
    IN IF first = 0 \/ first >= Len(messages) THEN messages
       ELSE Preamble(messages) \o CapTail(SubSeq(messages, first, Len(messages)))

\* The provider's count decides, or an estimate: either may come out.
Crowded == IF Policy.compacts THEN BOOLEAN ELSE {FALSE}
Compacts(messages) == {IF full THEN Compacted(messages) ELSE messages : full \in Crowded}

--------------------------------------------------------------------------------
Fresh == [step |-> 1, repair |-> 0, turn |-> 0, clock |-> "early",
          reminded |-> FALSE, late |-> FALSE]
Clocks == <<"early", "late", "margin">>
Later(c) == {Clocks[i] : i \in {j \in 1..3 : \E k \in 1..j : Clocks[k] = c}}

Init == /\ attempt = 0 /\ pc = "off" /\ ended = "none"
        /\ archive = <<>> /\ notebook = FALSE
        /\ seeded \in BOOLEAN /\ verdict = FALSE
        /\ live = <<>> /\ due = <<>> /\ told = <<>> /\ mem = Fresh

\* lease_adjudication_for_episode: the latest refusal of a delivery stays on file.
Refused == verdict \/ ended = "deliver"

\* A first attempt may find the session of the episode it inherits from; a seed
\* excludes it.  A later one follows a failure or a refused delivery.
Start == /\ pc = "off" /\ attempt < MaxAttempts /\ ended \in {"none", "failed", "deliver"}
         /\ attempt' = attempt + 1
         /\ verdict' = Refused
         /\ ended' = "none"
         /\ \/ UNCHANGED store
            \/ /\ attempt = 0 /\ ~seeded
               /\ archive' = <<[what |-> "reply", by |-> 0, turn |-> 0, size |-> 1]>>
               /\ notebook' = TRUE
         /\ live' = <<>> /\ due' = <<>> /\ told' = <<>> /\ mem' = Fresh
         /\ pc' = "wake"
         /\ UNCHANGED seeded

Idle(at) == pc = at /\ due = <<>>

\* AgentRuntime.run compacts once before the first step: nothing to shed yet.
Assemble == /\ Idle("wake")
            /\ \E coverage \in BOOLEAN :
                   /\ live' = Framing(coverage)
                   /\ due' = Only(Archived, 0, Framing(coverage))
                   /\ told' = Only(Waking, 0, Framing(coverage))
            /\ pc' = "step"
            /\ UNCHANGED <<attempt, store, given, ended, mem>>

\* session.append_message, one line at a time.
Append1 == /\ due # <<>>
           /\ archive' = Append(archive, Row(Head(due)))
           /\ due' = Tail(due)
           /\ UNCHANGED <<attempt, pc, notebook, given, ended, live, told, mem>>

--------------------------------------------------------------------------------
(* Thinking: the loop of AgentRuntime.run and ResearchAgent._step.         *)

\* Steps nearly spent, wall nearly spent: each is said once.
StepNudge == ~mem.reminded /\ (8 * MaxSteps) \div 10 > 0
                 /\ mem.step >= (8 * MaxSteps) \div 10
TimeNudge(clock) == ~mem.late /\ clock # "early"
Nudges(clock) == (IF StepNudge THEN <<Msg("nudge")>> ELSE <<>>)
                     \o (IF TimeNudge(clock) THEN <<Msg("nudge")>> ELSE <<>>)

Ponder == /\ Idle("step") /\ mem.step <= MaxSteps
          /\ \E clock \in Later(mem.clock) :
                 /\ live' = live \o Nudges(clock)
                 /\ mem' = [mem EXCEPT !.clock = clock, !.repair = 0,
                                       !.reminded = @ \/ StepNudge,
                                       !.late = @ \/ TimeNudge(clock)]
                 /\ pc' = IF clock = "margin" THEN "suspend" ELSE "asked"
          /\ UNCHANGED <<attempt, store, given, ended, due, told>>

Spent == /\ Idle("step") /\ mem.step > MaxSteps
         /\ pc' = "suspend"
         /\ UNCHANGED <<attempt, store, given, ended, talk, mem>>

\* A correction and the reply it is about are for the model alone.
Correct == /\ Idle("asked") /\ mem.repair < MaxRepairs
           /\ live' = live \o <<Msg("refused"), Msg("correction")>>
           /\ mem' = [mem EXCEPT !.repair = @ + 1, !.turn = @ + 1]
           /\ UNCHANGED <<attempt, pc, store, given, ended, due, told>>

\* The tools run, then the turn is kept, then the context may be compacted.
Act == /\ Idle("asked")
       /\ \E n \in Sizes :
              LET turn == <<Msg("reply"), Sized("observation", n)>>
              IN live' = live \o turn /\ due' = turn
       /\ pc' = "kept"
       /\ UNCHANGED <<attempt, store, given, ended, told, mem>>

Shed == /\ Idle("kept")
        /\ live' \in Compacts(live)
        /\ mem' = [mem EXCEPT !.step = @ + 1, !.turn = @ + 1]
        /\ pc' = "step"
        /\ UNCHANGED <<attempt, store, given, ended, due, told>>

Conclude == /\ Idle("asked")
            /\ live' = Append(live, Msg("reply"))
            /\ due' = <<Msg("reply")>>
            /\ ended' \in {"deliver", "abstain"}
            /\ pc' = "suspend"
            /\ UNCHANGED <<attempt, store, given, told, mem>>

\* _suspension_checkpoint: its prompt is no part of the list.  A notebook is
\* written before the exchange is archived.
Suspend == /\ Idle("suspend")
           /\ \/ UNCHANGED <<notebook, due>>
              \/ /\ notebook' = TRUE
                 /\ due' = <<Msg("suspend"), Msg("suspend")>>
           /\ ended' = IF ended = "none" THEN "cut_off" ELSE ended
           /\ pc' = "closing"
           /\ UNCHANGED <<attempt, archive, given, live, told, mem>>

Gone == /\ pc' = "off"
        /\ live' = <<>> /\ due' = <<>> /\ told' = <<>> /\ mem' = Fresh
        /\ UNCHANGED <<attempt, store, given>>

Closes == Idle("closing") /\ Gone /\ UNCHANGED ended

\* The model or a hand raises, the repairs are spent, or the process is killed,
\* at worst between two lines of the archive.
Dies == pc # "off" /\ Gone /\ ended' = "failed"

Worker == \/ Assemble \/ Append1 \/ Ponder \/ Spent \/ Correct \/ Act \/ Shed
          \/ Conclude \/ Suspend \/ Closes

Next == Start \/ Worker \/ Dies

Spec == Init /\ [][Next]_vars

--------------------------------------------------------------------------------
TypeOK == /\ attempt \in 0..MaxAttempts
          /\ pc \in {"off", "wake", "step", "asked", "kept", "suspend", "closing"}
          /\ archive \in Seq(Message) /\ notebook \in BOOLEAN
          /\ seeded \in BOOLEAN /\ verdict \in BOOLEAN
          /\ ended \in {"none", "failed", "deliver", "abstain", "cut_off"}
          /\ live \in Seq(Message) /\ due \in Seq(Message) /\ told \in Seq(Message)
          /\ mem \in [step : Nat, repair : Nat, turn : Nat,
                      clock : {"early", "late", "margin"},
                      reminded : BOOLEAN, late : BOOLEAN]

Awake == pc \notin {"off", "wake"}

\* "Preserve the framing preamble": what a waking tells the seat, its verdict
\* above all, stays in front of it whatever is shed, corrected or nudged.
FramingKept == Awake => Only(Waking, 0, live) = told

\* "An observation is never orphaned from the action that produced it" and "the
\* most-recent pair always survives": an answer follows the reply it is about,
\* and the latest turn is there.
TurnsWhole ==
    /\ \A i \in DOMAIN live :
           live[i].what \in Answer =>
               /\ i > 1 /\ live[i - 1].turn = live[i].turn
               /\ live[i - 1].what = IF live[i].what = "observation" THEN "reply"
                                     ELSE "refused"
    /\ Awake /\ mem.turn > 0 => \E i \in DOMAIN live : live[i].turn >= mem.turn - 1
                                                         /\ live[i].what \in Assistant

\* The model wakes up to all it was told and to whole turns of what it lived.
WakesWhole == TypeOK /\ FramingKept /\ TurnsWhole

\* "The immutable session.jsonl archive is appended to in full": the part of the
\* list the seat has lived is what this attempt was told and then, with nothing
\* left out, the end of what it has archived.
Lived == Waking \cup {"reply", "observation"}
Rows(messages) == [i \in DOMAIN messages |-> Row(messages[i])]
LifeIsArchived ==
    LET life == Only(Lived, 0, Rows(live))
        mine == Only(Lived, attempt, archive \o Rows(due))
    IN Awake => /\ IsPrefix(told, mine)
                /\ \E k \in Len(told)..Len(mine) :
                       life = told \o SubSeq(mine, k + 1, Len(mine))
================================================================================
