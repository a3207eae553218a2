--------------------------- MODULE EngagementsProofs ---------------------------
(***************************************************************************)
(* The collaborators of the Scientist, for any number of engagements, of   *)
(* calls in a turn and of stops: no seat works behind its report, an       *)
(* episode that ended has none, the harness implements EngagementProtocol; *)
(* and with one call a turn, each report is recorded and heard once in     *)
(* each life of the process and no session has two seats.                  *)
(***************************************************************************)
EXTENDS Engagements, TLAPS

\* The stages of collect().
Filing == {"collect", "record", "open", "write"}

\* Which call is at which stage, and what it has in hand there.
ShapeOK(c) ==
    /\ c.at = "idle" => c = Idle
    /\ c.at \in {"launch", "spawn", "register", "feed"} => c.verb \in {"launch", "continue"}
    /\ c.at = "await" => c.verb = "launch"
    /\ c.at = "check" => c.verb \in {"continue", "cancel"}
    /\ c.at = "sweep" => c.verb \in Sweepers \cup Reapers
    /\ c.at \in Filing => c.verb \in Sweepers \cup Reapers \cup {"cancel", "answer"}
    /\ c.at \in {"take", "mark"} => c.verb \in Sweepers \cup {"cancel"}
    /\ c.at \in {"spawn", "register", "feed", "await"} => c.own # None
    /\ c.at \in {"sweep", "take", "mark"} \cup Filing /\ c.verb = "launch" => c.own # None
    /\ c.at \in {"check", "mark"} \cup Filing => c.eng # None
    /\ c.at \in {"check", "launch"} /\ c.verb = "continue" => c.eng \in 1..counter

\* An id is spent before its directory is made, the directory before the seat,
\* the manifest before the report; the process of a registered seat that runs
\* can be found, and none runs behind a report.
SeatOK ==
    \A e \in Engagement :
        /\ Has(e, "dir") => e <= counter
        /\ ~Has(e, "dir") => files[e] = {} /\ seat[e] = "none"
        /\ digest[e] # "none" => Registered(e) /\ seat[e] # "running"
        /\ Has(e, "marker") => digest[e] # "none"
        /\ Registered(e) /\ seat[e] = "running" => Has(e, "pid")
        /\ root[e] <= e

\* Two launches never have the same directory in hand.
Starting(t) == call[t].at \in {"spawn", "register"}
Apart == \A t, u \in Threads : t # u /\ Starting(t) /\ Starting(u) => call[t].own # call[u].own

\* What a call knows of the engagements it has in hand.
HandOK(c) ==
    /\ c.at \in {"spawn", "register"} => Has(c.own, "dir") /\ ~Registered(c.own)
    /\ c.at \in {"spawn", "register", "feed"} /\ c.verb = "continue" => role[c.own] = "executor"
    /\ c.at \in {"feed", "await", "sweep", "take", "mark"} \cup Filing /\ c.verb = "launch"
           => Registered(c.own)
    /\ c.at = "feed" => Registered(c.own)
    /\ c.at \in {"take", "mark"} /\ c.verb = "launch" => digest[c.own] # "none"
    /\ c.at \in {"sweep"} \cup Filing /\ c.verb \in Sweepers \cup Reapers
           => \A e \in c.todo : Registered(e)
    /\ c.at \in Filing => Registered(c.eng) /\ seat[c.eng] # "running"
    /\ c.at \in {"write", "mark"} => digest[c.eng] # "none"

\* The exit and the recovery work alone; the exit stops every registered seat,
\* and one that runs without a manifest takes a stop.
TurnOK ==
    /\ turn \in {"ended", "down"} => Resting
    /\ turn = "close" =>
          /\ call[1].verb = "shutdown" /\ call[1].at \in {"sweep", "returned"} \cup Filing
          /\ \A u \in Threads \ {1} : call[u] = Idle
          /\ \A e \in Engagement : Registered(e) /\ seat[e] = "running" => e \in call[1].todo
          /\ call[1].at = "returned" => call[1].todo = {}
    /\ \A t \in Threads : call[t].verb \in Reapers => turn \in {"close", "unwind", "recover"}
    /\ turn \in {"unwind", "recover", "down"} => stops > 0
    /\ \A e \in Engagement :
          seat[e] = "running" /\ ~Registered(e) =>
              stops > 0 \/ \E t \in Threads : call[t].at = "register" /\ call[t].own = e
    /\ NothingLeftRunning

IInv == /\ TypeOK /\ SeatOK /\ Apart /\ TurnOK
        /\ \A t \in Threads : ShapeOK(call[t]) /\ HandOK(call[t])
--------------------------------------------------------------------------------
(* One call a turn.                                                        *)

\* The engagements that are listed or in hand are without a report.
ListOK(c) ==
    /\ c.verb # "answer"
    /\ c.at = "check" => c.todo = {}
    /\ c.at \in {"sweep"} \cup Filing =>
          \A e \in c.todo : digest[e] = "none" /\ (c.at \in Filing => e # c.eng)
    /\ c.at \in {"collect", "record", "open"} => digest[c.eng] = "none"
    /\ c.at = "write" => digest[c.eng] = "torn"
    /\ c.at \in Filing => heard[c.eng] = 0 /\ c.eng \notin c.hand /\ ~Has(c.eng, "marker")
    /\ c.at = "mark" => ~Has(c.eng, "marker")

\* A reviewer's report is read as soon as it is filed.
OwnOK(c) ==
    c.verb = "launch" =>
        /\ c.at = "feed" => digest[c.own] = "none"
        /\ c.at \in {"await", "sweep"} \cup Filing => ~Has(c.own, "marker")
        /\ c.at \in {"await", "sweep", "collect", "record", "open"} => digest[c.own] # "torn"
        /\ c.at = "write" /\ digest[c.own] = "torn" => c.eng = c.own
        /\ c.at = "take" => /\ c.todo \subseteq {c.own}
                            /\ \/ c.own \in c.hand
                               \/ c.own \in c.todo /\ Readable(c.own) /\ ~Has(c.own, "marker")
        /\ c.at = "mark" => c.eng = c.own /\ c.todo \subseteq {c.own}

\* A record is made again, and a report heard again, only after a stop.
CountOK ==
    \A e \in Engagement :
        /\ rows[e] <= stops + (IF \/ Readable(e)
                                  \/ call[1].eng = e /\ call[1].at \in {"open", "write"}
                               THEN 1 ELSE 0)
        /\ digest[e] = "none" => heard[e] = 0 /\ e \notin call[1].hand /\ ~Has(e, "marker")
        /\ heard[e] + (IF e \in call[1].hand THEN 1 ELSE 0)
             <= IF stops > 0 THEN IF Has(e, "marker") THEN 2 ELSE 1
                ELSE IF Has(e, "marker") \/ turn \in {"close", "ended"} THEN 1 ELSE 0

\* A session that is resumed is not resumed a second time.
SessionOK(c) ==
    /\ \A e, f \in Unfinalized : e # f => root[e] # root[f]
    /\ c.at = "launch" /\ c.verb = "continue" => \A u \in Unfinalized : root[u] # root[c.eng]
    /\ c.at \in {"spawn", "register"} => \A u \in Unfinalized : root[u] # root[c.own]

Single == /\ \A u \in Threads \ {1} : call[u] = Idle
          /\ ListOK(call[1]) /\ OwnOK(call[1]) /\ CountOK /\ SessionOK(call[1])

AloneInv == IInv /\ (scale.calls = 1 => Single)
--------------------------------------------------------------------------------
(* Types.                                                                  *)

\* What the constants' assumption says, as numbers.
LEMMA Bounds ==
    /\ MaxCalls \in Nat /\ MaxEngagements \in Nat /\ 1 \in Threads
    /\ None \notin Engagement
    /\ \A s \in Scales : s.stops <= MaxStops /\ s.stops \in Nat /\ MaxStops \in Nat
BY EngagementAssumption DEF Threads, Engagement, None

\* An idle thread's call is of its type.
LEMMA IdleType == Idle \in Call
BY DEF Idle, Call, Verbs, Stages, Hints

\* The stages, verbs and hints the actions name are among those there are.
LEMMA StageNames ==
    /\ {"idle", "check", "launch", "spawn", "register", "feed", "await", "sweep", "collect",
         "record", "open", "write", "take", "mark", "returned"} \subseteq Stages
    /\ {"poll", "launch", "continue", "wait", "cancel", "answer", "shutdown", "reconcile",
         "none"} \subseteq Verbs \cup {"none"}
    /\ {"none", "timeout-salvaged", "crash-salvaged", "cancelled"} \subseteq Hints \cup {"none"}
BY DEF Stages, Verbs, Hints

\* The forms in which a call returns from collect().
LEMMA CollectedIs ==
    ASSUME NEW t \in Threads, ShapeOK(call[t]), call[t].at \in Filing
    PROVE  \/ /\ call[t].verb \in Sweepers
              /\ Collected(t) = [call[t] EXCEPT !.at = "sweep"]
           \/ /\ call[t].verb \in Reapers
              /\ Collected(t) = [call[t] EXCEPT !.at = "sweep", !.hand = @ \cup {call[t].eng}]
           \/ /\ call[t].verb = "cancel"
              /\ Collected(t) = [call[t] EXCEPT !.at = "take", !.todo = {call[t].eng}]
           \/ /\ call[t].verb = "answer"
              /\ Collected(t) = [call[t] EXCEPT !.at = "returned", !.hand = {call[t].eng}]
BY DEF Collected, Sweepers, Reapers, ShapeOK

\* What a call has collected is of the type of a call.
LEMMA CollectedType ==
    ASSUME TypeOK, NEW t \in Threads, ShapeOK(call[t]), call[t].at \in Filing
    PROVE  Collected(t) \in Call
<1>1. call[t] \in Call /\ call[t].eng \in Engagement
  BY DEF TypeOK, ShapeOK, Call
<1>2. /\ [call[t] EXCEPT !.at = "sweep"] \in Call
      /\ [call[t] EXCEPT !.at = "sweep", !.hand = @ \cup {call[t].eng}] \in Call
      /\ [call[t] EXCEPT !.at = "take", !.todo = {call[t].eng}] \in Call
      /\ [call[t] EXCEPT !.at = "returned", !.hand = {call[t].eng}] \in Call
  BY <1>1, StageNames DEF Call
<1>. QED BY <1>2, CollectedIs

\* What the steps of a call make of it.
LEMMA ThreadType ==
    ASSUME IInv, NEW t \in Threads, CallStep(t) \/ Ask(t)
    PROVE  call' = [call EXCEPT ![t] = call'[t]] /\ call'[t] \in Call
<1>. DEFINE c == call[t]
            G == call' = [call EXCEPT ![t] = call'[t]] /\ call'[t] \in Call
<1>1. c \in Call /\ TypeOK /\ ShapeOK(c) /\ counter \in 0..MaxEngagements
      /\ call \in [Threads -> Call]
  BY DEF IInv, TypeOK
<1>2. Unfinalized \in SUBSET Engagement
  BY DEF Unfinalized
<1>3. \A a \in Stages : [c EXCEPT !.at = a] \in Call /\ [c EXCEPT !.at = a, !.hand = @ \cup {}] \in Call
  BY <1>1 DEF Call
<1>4. \A T \in SUBSET Engagement : /\ [c EXCEPT !.todo = T] \in Call
                                   /\ \A a \in Stages : [c EXCEPT !.at = a, !.todo = T] \in Call
  BY <1>1 DEF Call
<1>5. \A e \in Engagement, h \in Hints \cup {"none"} :
          /\ [c EXCEPT !.todo = @ \ {e}] \in Call
          /\ [c EXCEPT !.at = "collect", !.eng = e, !.todo = @ \ {e}, !.hint = h] \in Call
          /\ [c EXCEPT !.at = "mark", !.eng = e, !.todo = @ \ {e}] \in Call
  BY <1>1, StageNames DEF Call
<1>. USE DEF At, Is, Go, Return, Visit
<1>6. CASE LaunchStep(t)
  <2>1. CASE LaunchOpen(t)
    <3>0. counter < MaxEngagements
          /\ call' = [call EXCEPT ![t].at = "spawn", ![t].own = counter + 1]
      BY <2>1 DEF LaunchOpen
    <3>1. call' = [call EXCEPT ![t] = [c EXCEPT !.at = "spawn", !.own = counter + 1]]
      BY <1>1, <3>0
    <3>3. counter + 1 \in Engagement
      BY <1>1, <3>0, Bounds DEF Engagement
    <3>2. [c EXCEPT !.at = "spawn", !.own = counter + 1] \in Call
      BY <1>1, <3>3, StageNames DEF Call
    <3>. QED BY <1>1, <3>1, <3>2
  <2>2. CASE LaunchRefuse(t) \/ Spawn(t) \/ SpawnFails(t) \/ Register(t) \/ Feed(t)
    <3>1. \E a \in Stages : call' \in {[call EXCEPT ![t] = [c EXCEPT !.at = a]],
                                     [call EXCEPT ![t] = [c EXCEPT !.at = a, !.hand = @ \cup {}]]}
      BY <1>1, <2>2, StageNames DEF LaunchRefuse, Spawn, SpawnFails, Register, Feed
    <3>. QED BY <1>1, <1>3, <3>1
  <2>. QED BY <1>6, <2>1, <2>2 DEF LaunchStep
<1>7. CASE SweepStep(t)
  <2>1. CASE Await(t)
    <3>1. \E T \in SUBSET Engagement, a \in Stages :
              call' = [call EXCEPT ![t] = [c EXCEPT !.at = a, !.todo = T]]
      <4>1. {c.own} \in SUBSET Engagement
        BY <1>1, <2>1 DEF Await, ShapeOK, Call
      <4>2. call' = [call EXCEPT ![t] = [c EXCEPT !.at = "take", !.todo = {c.own}]]
            \/ call' = [call EXCEPT ![t] = [c EXCEPT !.at = "sweep", !.todo = Unfinalized]]
        BY <1>1, <2>1 DEF Await
      <4>. QED BY <1>2, <4>1, <4>2, StageNames, Zenon
    <3>. QED BY <1>1, <1>4, <3>1
  <2>2. CASE SweepDone(t)
    <3>1. \/ \E a \in Stages : call' = [call EXCEPT ![t] = [c EXCEPT !.at = a]]
          \/ call' = [call EXCEPT ![t] = [c EXCEPT !.todo = Unfinalized]]
          \/ call' = [call EXCEPT ![t] = [c EXCEPT !.at = "take", !.todo = Engagement]]
      BY <1>1, <2>2, StageNames DEF SweepDone
    <3>2. [c EXCEPT !.todo = Unfinalized] \in Call
          /\ [c EXCEPT !.at = "take", !.todo = Engagement] \in Call
      BY <1>2, <1>4, StageNames
    <3>. QED BY <1>1, <1>3, <3>1, <3>2
  <2>3. ASSUME NEW e \in Engagement,
               SweepRunning(t, e) \/ SweepLate(t, e) \/ SweepExited(t, e) \/ Reap(t, e)
        PROVE  G
    <3>1. \/ call' = [call EXCEPT ![t] = [c EXCEPT !.todo = @ \ {e}]]
          \/ \E h \in Hints \cup {"none"} :
                call' = [call EXCEPT ![t] =
                            [c EXCEPT !.at = "collect", !.eng = e, !.todo = @ \ {e}, !.hint = h]]
      BY <1>1, <2>3, StageNames, ZenonT(30) DEF SweepRunning, SweepLate, SweepExited, Reap
    <3>. QED BY <1>1, <1>5, <3>1
  <2>. QED BY <1>7, <2>1, <2>2, <2>3 DEF SweepStep
<1>8. CASE FileStep(t)
  <2>1. \/ \E a \in Stages : call' = [call EXCEPT ![t] = [c EXCEPT !.at = a]]
        \/ c.at \in Filing /\ call' = [call EXCEPT ![t] = Collected(t)]
    BY <1>1, <1>8, StageNames DEF FileStep, CollectFiled, CollectOpen, Record, OpenDigest,
       WriteDigest, Filing
  <2>. QED BY <1>1, <1>3, <2>1, CollectedType
<1>9. CASE TakeStep(t)
  <2>1. CASE Mark(t)
    <3>1. call' = [call EXCEPT ![t] = [c EXCEPT !.at = "take", !.hand = @ \cup {c.eng}]]
          /\ c.eng \in Engagement
      BY <1>1, <2>1 DEF Mark, ShapeOK, Call
    <3>2. [c EXCEPT !.at = "take", !.hand = @ \cup {c.eng}] \in Call
      BY <1>1, <3>1, StageNames DEF Call
    <3>. QED BY <1>1, <3>1, <3>2
  <2>2. CASE TakeDone(t)
    <3>1. \/ call' = [call EXCEPT ![t] = [c EXCEPT !.at = "returned"]]
          \/ call' = [call EXCEPT ![t] = [c EXCEPT !.verb = "answer", !.at = "collect",
                                                 !.eng = c.own, !.hint = "none"]]
      BY <1>1, <2>2 DEF TakeDone
    <3>2. [c EXCEPT !.verb = "answer", !.at = "collect", !.eng = c.own, !.hint = "none"] \in Call
      BY <1>1, StageNames DEF Call
    <3>. QED BY <1>1, <1>3, <3>1, <3>2, StageNames
  <2>3. ASSUME NEW e \in Engagement, TakeSkip(t, e) \/ TakeRead(t, e) PROVE G
    <3>1. \/ call' = [call EXCEPT ![t] = [c EXCEPT !.todo = @ \ {e}]]
          \/ call' = [call EXCEPT ![t] = [c EXCEPT !.at = "mark", !.eng = e, !.todo = @ \ {e}]]
      BY <1>1, <2>3 DEF TakeSkip, TakeRead
    <3>. QED BY <1>1, <1>5, <3>1, StageNames
  <2>. QED BY <1>9, <2>1, <2>2, <2>3 DEF TakeStep
<1>10. CASE ContinueCheck(t) \/ CancelCheck(t)
  <2>1. \/ \E a \in Stages : call' = [call EXCEPT ![t] = [c EXCEPT !.at = a]]
        \/ call' = [call EXCEPT ![t] = [c EXCEPT !.at = "collect", !.hint = "cancelled"]]
    BY <1>1, <1>10, StageNames DEF ContinueCheck, CancelCheck
  <2>2. [c EXCEPT !.at = "collect", !.hint = "cancelled"] \in Call
    BY <1>1, StageNames DEF Call
  <2>. QED BY <1>1, <1>3, <2>1, <2>2
<1>11. CASE Ask(t)
  <2>1. \/ call' = [call EXCEPT ![t] = [c EXCEPT !.verb = "launch", !.at = "launch"]]
        \/ call' = [call EXCEPT ![t] = [c EXCEPT !.verb = "wait", !.at = "sweep",
                                               !.todo = Unfinalized]]
        \/ \E e \in 1..counter, v \in {"continue", "cancel"} :
              call' = [call EXCEPT ![t] = [c EXCEPT !.verb = v, !.at = "check", !.eng = e]]
    BY <1>1, <1>11, ZenonT(30) DEF Ask
  <2>2. 1..counter \subseteq Engagement
    BY <1>1, Bounds DEF Engagement
  <2>3. /\ [c EXCEPT !.verb = "launch", !.at = "launch"] \in Call
        /\ [c EXCEPT !.verb = "wait", !.at = "sweep", !.todo = Unfinalized] \in Call
        /\ \A e \in Engagement, v \in {"continue", "cancel"} :
              [c EXCEPT !.verb = v, !.at = "check", !.eng = e] \in Call
    BY <1>1, <1>2, StageNames DEF Call
  <2>4. \E d \in Call : call' = [call EXCEPT ![t] = d]
    BY <2>1, <2>2, <2>3
  <2>. QED BY <1>1, <2>4
<1>. QED BY <1>6, <1>7, <1>8, <1>9, <1>10, <1>11 DEF CallStep

\* A visit starts from an idle call.
LEMMA VisitingType ==
    ASSUME TypeOK, NEW v \in Verbs
    PROVE  /\ Visiting(1, v) \in [Threads -> Call]
           /\ Visiting(1, v)[1] = [Idle EXCEPT !.verb = v, !.at = "sweep", !.todo = Unfinalized]
           /\ Visiting(1, v)[1] \in Call
           /\ \A u \in Threads \ {1} : Visiting(1, v)[u] = call[u]
<1>. DEFINE d == [Idle EXCEPT !.verb = v, !.at = "sweep", !.todo = Unfinalized]
<1>1. d \in Call
  BY IdleType, StageNames DEF Call, Unfinalized
<1>2. call \in [Threads -> Call] /\ 1 \in Threads
  BY Bounds DEF TypeOK
<1>3. Visiting(1, v) = [call EXCEPT ![1] = d]
  BY DEF Visiting
<1>. HIDE DEF d
<1>4. /\ Visiting(1, v) \in [Threads -> Call] /\ Visiting(1, v)[1] = d
      /\ \A u \in Threads \ {1} : Visiting(1, v)[u] = call[u]
  BY <1>1, <1>2, <1>3
<1>. QED BY <1>1, <1>4 DEF d

--------------------------------------------------------------------------------
(* What a step of a call leaves alone.                                     *)

\* The steps that only move their call.
Quiet == UNCHANGED <<dirVars, seatVars, counter, procs, turn, stops, scale>>

\* Every step of a call is quiet or one of twelve.
LEMMA Moves ==
    ASSUME NEW t \in Threads, CallStep(t) \/ Ask(t)
    PROVE  \/ Quiet
           \/ LaunchOpen(t) \/ LaunchRefuse(t) \/ Spawn(t) \/ Register(t) \/ Feed(t)
           \/ \E e \in Engagement : SweepLate(t, e) \/ Reap(t, e)
           \/ CancelCheck(t) \/ CollectOpen(t) \/ Record(t) \/ OpenDigest(t)
           \/ WriteDigest(t) \/ Mark(t)
<1>1. CASE LaunchStep(t)
  BY <1>1 DEF LaunchStep, SpawnFails, Quiet
<1>2. CASE SweepStep(t)
  <2>1. Await(t) \/ SweepDone(t) => Quiet
    BY DEF Await, SweepDone, Quiet
  <2>2. \A e \in Engagement : SweepRunning(t, e) \/ SweepExited(t, e) => Quiet
    BY DEF SweepRunning, SweepExited, Quiet
  <2>. QED BY <1>2, <2>1, <2>2, Zenon DEF SweepStep
<1>3. CASE FileStep(t)
  <2>1. CollectFiled(t) => Quiet
    BY DEF CollectFiled, Quiet
  <2>. QED BY <1>3, <2>1, Zenon DEF FileStep
<1>4. CASE TakeStep(t)
  <2>1. TakeDone(t) => Quiet
    BY DEF TakeDone, Quiet
  <2>2. \A e \in Engagement : TakeSkip(t, e) \/ TakeRead(t, e) => Quiet
    BY DEF TakeSkip, TakeRead, Quiet
  <2>. QED BY <1>4, <2>1, <2>2, Zenon DEF TakeStep
<1>5. CASE ContinueCheck(t)
  BY <1>5 DEF ContinueCheck, Quiet
<1>6. CASE CancelCheck(t)
  BY <1>6
<1>7. CASE Ask(t)
  BY <1>7 DEF Ask, Quiet
<1>. QED BY <1>1, <1>2, <1>3, <1>4, <1>5, <1>6, <1>7, Zenon DEF CallStep

\* The turn, the stops, the time boxes and the ages of worlds are not a call's to change.
Still == UNCHANGED <<turn, stops, scale, late, aged>>

\* A call's step changes neither the turn and its stops nor the time boxes and the worlds' ages.
LEMMA CallsAreStill ==
    ASSUME NEW t \in Threads, CallStep(t) \/ Ask(t)
    PROVE  Still
<1>. USE DEF Still, seatVars, dirVars
<1>1. Quiet => Still
  BY DEF Quiet
<1>2. LaunchOpen(t) => Still
  BY DEF LaunchOpen
<1>3. LaunchRefuse(t) \/ Spawn(t) \/ Register(t) \/ Feed(t) => Still
  BY DEF LaunchRefuse, Spawn, Register, Feed
<1>4. \A e \in Engagement : SweepLate(t, e) \/ Reap(t, e) => Still
  BY DEF SweepLate, Reap
<1>5. CancelCheck(t) \/ CollectOpen(t) \/ Record(t) => Still
  BY DEF CancelCheck, CollectOpen, Record
<1>6. OpenDigest(t) \/ WriteDigest(t) \/ Mark(t) => Still
  BY DEF OpenDigest, WriteDigest, Mark
<1>. QED BY <1>1, <1>2, <1>3, <1>4, <1>5, <1>6, Moves, Zenon

\* The steps of the loop and the stops, by what they make of the calls.
LEMMA LoopTypes ==
    ASSUME TypeOK, TurnTop \/ Conclude \/ Resume \/ TurnOver \/ Crash \/ RunActions
                   \/ (\E t \in Threads : Interrupt(t))
                   \/ (\E t \in Threads, e \in Engagement : Emit(t, e))
    PROVE  call' \in [Threads -> Call]
<1>. USE DEF vars, dirVars, seatVars
<1>1. ASSUME NEW v \in Verbs, call' = Visiting(1, v) PROVE call' \in [Threads -> Call]
  BY <1>1, VisitingType
<1>2. CASE TurnTop \/ Conclude \/ Resume
  <2>1. \E v \in Verbs : call' = Visiting(1, v)
    BY <1>2 DEF TurnTop, Conclude, Resume, Verbs
  <2>. QED BY <1>1, <2>1
<1>3. CASE \E t \in Threads : Interrupt(t)
  <2>1. call' = [u \in Threads |-> IF u = 1 THEN Visiting(1, "shutdown")[1] ELSE Idle]
    BY <1>3 DEF Interrupt
  <2>2. Visiting(1, "shutdown")[1] \in Call
    BY VisitingType DEF Verbs
  <2>. QED BY <2>1, <2>2, IdleType
<1>4. CASE TurnOver \/ Crash
  BY <1>4, IdleType DEF TurnOver, Crash
<1>5. ASSUME NEW t \in Threads, NEW e \in Engagement, Emit(t, e)
      PROVE  call' \in [Threads -> Call]
  <2>1. call' = [call EXCEPT ![t] = [call[t] EXCEPT !.hand = @ \ {e}]]
        /\ call \in [Threads -> Call]
    BY <1>5 DEF Emit, TypeOK
  <2>2. [call[t] EXCEPT !.hand = @ \ {e}] \in Call
    BY <2>1 DEF Call
  <2>. QED BY <2>1, <2>2
<1>6. CASE RunActions
  BY <1>6 DEF RunActions, TypeOK
<1>. QED BY <1>2, <1>3, <1>4, <1>5, <1>6

\* Every step keeps the types.
LEMMA TypeStep == IInv /\ [Next]_vars => TypeOK'
<1>. SUFFICES ASSUME IInv, [Next]_vars PROVE TypeOK'
  OBVIOUS
<1>. USE DEF vars, dirVars, seatVars
<1>1. TypeOK /\ \A t \in Threads : ShapeOK(call[t]) /\ call[t] \in Call
  BY DEF IInv, TypeOK
<1>2. ASSUME NEW t \in Threads, CallStep(t) \/ Ask(t) PROVE TypeOK'
  <2>1. call' \in [Threads -> Call]
    <3>1. call' = [call EXCEPT ![t] = call'[t]] /\ call'[t] \in Call
      BY <1>2, ThreadType
    <3>. QED BY <1>1, <3>1 DEF TypeOK
  <2>2. Still /\ call[t] \in Call /\ ShapeOK(call[t])
    BY <1>1, <1>2, CallsAreStill
  <2>3. CASE Quiet
    BY <1>1, <2>1, <2>3 DEF TypeOK, Quiet
  <2>4. CASE LaunchOpen(t)
    <3>1. counter' \in 0..MaxEngagements /\ counter + 1 \in Engagement
      BY <1>1, <2>4, Bounds DEF LaunchOpen, TypeOK, Engagement
    <3>2. UNCHANGED <<digest, aged, rows, heard, seatVars, procs, turn, stops, scale>>
      BY <2>4 DEF LaunchOpen
    <3>3. files' \in [Engagement -> SUBSET FileNames]
      BY <1>1, <2>4, <3>1 DEF LaunchOpen, TypeOK, FileNames
    <3>4. role' \in [Engagement -> RoleNames] /\ root' \in [Engagement -> Engagement]
      <4>1. CASE Is(t, {"continue"})
        <5>1. /\ role' = [role EXCEPT ![counter + 1] = "executor"]
              /\ root' = [root EXCEPT ![counter + 1] = root[call[t].eng]]
          BY <2>4, <4>1 DEF LaunchOpen, Is
        <5>2. call[t].eng \in Engagement
          BY <1>1, <2>2, <2>4, <4>1, Bounds
             DEF LaunchOpen, At, Is, ShapeOK, TypeOK, Engagement
        <5>. QED BY <1>1, <3>1, <5>1, <5>2 DEF TypeOK, RoleNames
      <4>2. CASE ~Is(t, {"continue"})
        <5>1. /\ role' \in {[role EXCEPT ![counter + 1] = r] : r \in Roles}
              /\ root' = [root EXCEPT ![counter + 1] = counter + 1]
          BY <2>4, <4>2 DEF LaunchOpen
        <5>. QED BY <1>1, <3>1, <5>1, EngagementAssumption DEF TypeOK
      <4>. QED BY <4>1, <4>2
    <3>5. forks' \subseteq Engagement
      <4>1. \/ forks' = forks
            \/ \E S \in Stale, new \in {{}, {counter + 1}} : forks' = (forks \ S) \cup new
        BY <2>4 DEF LaunchOpen
      <4>. QED BY <1>1, <3>1, <4>1 DEF TypeOK
    <3>. QED BY <1>1, <2>1, <3>1, <3>2, <3>3, <3>4, <3>5, Zenon DEF TypeOK
  <2>5. CASE LaunchRefuse(t)
    <3>1. counter' \in 0..MaxEngagements /\ counter + 1 \in Engagement
      BY <1>1, <2>5, Bounds DEF LaunchRefuse, TypeOK, Engagement
    <3>2. files' \in [Engagement -> SUBSET FileNames]
      BY <1>1, <2>5, <3>1 DEF LaunchRefuse, TypeOK, FileNames
    <3>. QED BY <1>1, <2>1, <2>5, <3>1, <3>2 DEF TypeOK, LaunchRefuse
  <2>6. CASE Spawn(t)
    <3>1. seat' \in [Engagement -> {"none", "running", "exited"}]
      BY <1>1, <2>6 DEF Spawn, TypeOK
    <3>. QED BY <1>1, <2>1, <2>6, <3>1 DEF TypeOK, Spawn
  <2>7. CASE Register(t)
    <3>1. files' \in [Engagement -> SUBSET FileNames]
      BY <1>1, <2>7 DEF Register, TypeOK, FileNames
    <3>. QED BY <1>1, <2>1, <2>7, <3>1 DEF TypeOK, Register
  <2>8. CASE Feed(t)
    <3>1. procs' \subseteq Engagement
      BY <1>1, <2>2, <2>8 DEF Feed, TypeOK, At, ShapeOK, Call
    <3>. QED BY <1>1, <2>1, <2>8, <3>1 DEF TypeOK, Feed
  <2>9. ASSUME NEW E \in SUBSET Engagement
        PROVE  Killed(E) \in [Engagement -> {"none", "running", "exited"}]
    BY <1>1 DEF Killed, TypeOK
  <2>10. ASSUME NEW e \in Engagement, SweepLate(t, e) \/ Reap(t, e) PROVE TypeOK'
    <3>1. seat' \in [Engagement -> {"none", "running", "exited"}]
      BY <2>9, <2>10 DEF SweepLate, Reap
    <3>. QED BY <1>1, <2>1, <2>10, <3>1 DEF TypeOK, SweepLate, Reap
  <2>11. CASE CancelCheck(t)
    <3>1. seat' \in [Engagement -> {"none", "running", "exited"}]
      <4>1. seat' = seat \/ (call[t].eng \in Engagement /\ seat' = Killed({call[t].eng}))
        BY <2>11 DEF CancelCheck, Unfinalized
      <4>. QED BY <1>1, <2>9, <4>1 DEF TypeOK
    <3>. QED BY <1>1, <2>1, <2>11, <3>1 DEF TypeOK, CancelCheck
  <2>12. CASE CollectOpen(t)
    <3>1. files' \in [Engagement -> SUBSET FileNames] /\ procs' \subseteq Engagement
      BY <1>1, <2>12 DEF CollectOpen, TypeOK
    <3>. QED BY <1>1, <2>1, <2>12, <3>1 DEF TypeOK, CollectOpen
  <2>13. CASE Record(t)
    <3>1. rows' \in [Engagement -> Nat]
      <4>1. rows' = [rows EXCEPT ![call[t].eng] = rows[call[t].eng] + 1]
            /\ call[t].eng \in Engagement
        BY <2>2, <2>13 DEF Record, At, ShapeOK, Filing, Call
      <4>2. rows \in [Engagement -> Nat] /\ rows[call[t].eng] + 1 \in Nat
        BY <1>1, <4>1 DEF TypeOK
      <4>. QED BY <4>1, <4>2
    <3>. QED BY <1>1, <2>1, <2>13, <3>1 DEF TypeOK, Record
  <2>14. CASE OpenDigest(t) \/ WriteDigest(t)
    <3>1. digest' \in [Engagement -> Digests]
      <4>1. \E s \in Digests : digest' = [digest EXCEPT ![call[t].eng] = s]
        <5>1. CASE OpenDigest(t)
          BY <5>1 DEF OpenDigest, Digests
        <5>2. CASE WriteDigest(t)
          <6>1. call[t].hint \in Hints \cup {"none"}
            BY <2>2 DEF Call
          <6>. QED BY <5>2, <6>1 DEF WriteDigest, Digests, Statuses
        <5>. QED BY <2>14, <5>1, <5>2
      <4>. QED BY <1>1, <4>1 DEF TypeOK
    <3>2. UNCHANGED <<files, role, root, forks, aged, rows, heard, seatVars,
                      counter, procs, turn, stops, scale>>
      BY <2>14 DEF OpenDigest, WriteDigest
    <3>. QED BY <1>1, <2>1, <3>1, <3>2 DEF TypeOK
  <2>15. CASE Mark(t)
    <3>1. files' \in [Engagement -> SUBSET FileNames]
      BY <1>1, <2>15 DEF Mark, TypeOK, FileNames
    <3>. QED BY <1>1, <2>1, <2>15, <3>1 DEF TypeOK, Mark
  <2>. QED BY <1>2, <2>3, <2>4, <2>5, <2>6, <2>7, <2>8, <2>10, <2>11, <2>12, <2>13, <2>14,
              <2>15, Moves, Zenon
<1>3. ASSUME TurnTop \/ Conclude \/ TurnOver \/ RunActions PROVE TypeOK'
  <2>1. call' \in [Threads -> Call]
    BY <1>1, <1>3, LoopTypes
  <2>2. turn' \in Turns /\ procs' \subseteq Engagement
    BY <1>1, <1>3 DEF TurnTop, Conclude, TurnOver, RunActions, TypeOK, Turns
  <2>3. UNCHANGED <<dirVars, seatVars, counter, stops, scale>>
    BY <1>3 DEF TurnTop, Conclude, TurnOver, RunActions
  <2>. QED BY <1>1, <2>1, <2>2, <2>3 DEF TypeOK
<1>4. ASSUME Crash \/ \E t \in Threads : Interrupt(t) PROVE TypeOK'
  <2>1. call' \in [Threads -> Call]
    BY <1>1, <1>4, LoopTypes
  <2>2. stops' \in 0..MaxStops
    <3>1. stops < scale.stops /\ stops' = stops + 1
      BY <1>4 DEF Crash, Interrupt
    <3>. QED BY <1>1, <3>1, Bounds DEF TypeOK
  <2>3. turn' \in Turns /\ procs' \subseteq Engagement
        /\ UNCHANGED <<dirVars, seatVars, counter, scale>>
    BY <1>1, <1>4 DEF Crash, Interrupt, TypeOK, Turns
  <2>. QED BY <1>1, <2>1, <2>2, <2>3 DEF TypeOK
<1>5. ASSUME Resume PROVE TypeOK'
  <2>1. call' \in [Threads -> Call]
    BY <1>1, <1>5, LoopTypes
  <2>2. turn' \in Turns /\ counter' \in 0..MaxEngagements
        /\ UNCHANGED <<dirVars, seatVars, procs, stops, scale>>
    BY <1>5 DEF Resume, Turns
  <2>. QED BY <1>1, <2>1, <2>2 DEF TypeOK
<1>6. ASSUME NEW t \in Threads, NEW e \in Engagement, Emit(t, e) PROVE TypeOK'
  <2>1. call' \in [Threads -> Call]
    BY <1>1, <1>6, LoopTypes
  <2>2. heard' \in [Engagement -> Nat]
    BY <1>1, <1>6 DEF Emit, TypeOK
  <2>. QED BY <1>1, <1>6, <2>1, <2>2 DEF TypeOK, Emit
<1>7. ASSUME NEW e \in Engagement, SeatExits(e) \/ BoxPasses(e) \/ WorldAges(e)
      PROVE  TypeOK'
  <2>1. /\ seat' \in [Engagement -> {"none", "running", "exited"}]
        /\ late' \subseteq Engagement /\ aged' \subseteq Engagement
    BY <1>1, <1>7 DEF SeatExits, BoxPasses, WorldAges, TypeOK
  <2>2. UNCHANGED <<files, digest, role, root, forks, rows, heard, counter, procs, turn,
                    stops, call, scale>>
    BY <1>7 DEF SeatExits, BoxPasses, WorldAges
  <2>. QED BY <1>1, <2>1, <2>2 DEF TypeOK
<1>8. CASE Rest \/ UNCHANGED vars
  BY <1>1, <1>8 DEF Rest, TypeOK
<1>. QED BY <1>2, <1>3, <1>4, <1>5, <1>6, <1>7, <1>8, Zenon
         DEF Next, Scientist, LoopStep, Stopping
--------------------------------------------------------------------------------
(* The steps of a call, and what the others have in hand.                  *)

\* The invariant holds initially.
LEMMA InitInv == Init => IInv
<1>. SUFFICES ASSUME Init PROVE IInv
  OBVIOUS
<1>. USE DEF Init
<1>1. TypeOK
  BY IdleType, Bounds
     DEF TypeOK, FileNames, Digests, Statuses, RoleNames, Turns
<1>2. SeatOK
  BY Bounds DEF SeatOK, Has, Registered, Engagement
<1>3. \A t \in Threads : call[t] = Idle
  OBVIOUS
<1>4. Apart
  BY <1>3 DEF Apart, Starting, Idle
<1>5. \A t \in Threads : ShapeOK(call[t]) /\ HandOK(call[t])
  BY <1>3 DEF ShapeOK, HandOK, Idle, Filing
<1>6. TurnOK
  BY <1>3 DEF TurnOK, Resting, Idle, Reapers, NothingLeftRunning
<1>. QED BY <1>1, <1>2, <1>4, <1>5, <1>6 DEF IInv

\* Ids are spent, directories fill, reports come, and a registered seat that has
\* stopped is not started again: in every step of a call.
Grows == /\ counter <= counter'
         /\ \A e \in Engagement :
               /\ \A f \in {"dir", "manifest", "marker"} : Has(e, f) => Has(e, f)'
               /\ digest[e] # "none" => digest'[e] # "none"
               /\ Registered(e) /\ seat[e] # "running" => seat'[e] # "running"
               /\ Has(e, "dir") => role'[e] = role[e] /\ root'[e] = root[e]

\* Nothing that a thread has in hand but what it registers itself gets registered.
OwnsOnly(t) == \A e \in Engagement :
                  Registered(e)' => Registered(e) \/ (Starting(t) /\ call[t].own = e)

\* The names of what a step acts on.
LEMMA InHand ==
    ASSUME IInv, NEW t \in Threads
    PROVE  /\ call[t] \in Call /\ counter \in 0..MaxEngagements
           /\ call[t].at \in {"spawn", "register", "feed", "await"} => call[t].own \in Engagement
           /\ call[t].at \in {"check", "mark"} \cup Filing => call[t].eng \in Engagement
           /\ call[t].at = "launch" /\ call[t].verb = "continue" =>
                 call[t].eng \in Engagement /\ call[t].eng <= counter
           /\ call[t].at \in {"feed", "await", "sweep", "take", "mark"} \cup Filing
                 /\ call[t].verb = "launch" => call[t].own \in Engagement
           /\ \A e \in Engagement : Registered(e) => Has(e, "dir")
<1>1. call[t] \in Call /\ counter \in 0..MaxEngagements /\ ShapeOK(call[t]) /\ SeatOK
  BY DEF IInv, TypeOK
<1>2. /\ call[t].own \in Engagement \cup {None} /\ call[t].eng \in Engagement \cup {None}
  BY <1>1 DEF Call
<1>3. \A e \in Engagement : Registered(e) => Has(e, "dir")
  BY <1>1 DEF SeatOK, Registered, Has
<1>4. call[t].at = "launch" /\ call[t].verb = "continue" =>
          call[t].eng \in Engagement /\ call[t].eng <= counter
  BY <1>1, Bounds DEF ShapeOK, Engagement
<1>. QED BY <1>1, <1>2, <1>3, <1>4 DEF ShapeOK, Filing

\* In a call's step ids and directories only grow, and only what the thread itself
\* registers becomes registered.
LEMMA CallsGrow ==
    ASSUME IInv, NEW t \in Threads, CallStep(t) \/ Ask(t)
    PROVE  Grows /\ OwnsOnly(t)
<1>. DEFINE c == call[t]
            G == Grows /\ OwnsOnly(t)
<1>. USE DEF dirVars, seatVars
<1>1. TypeOK /\ SeatOK /\ HandOK(c)
  BY DEF IInv
<1>2. /\ files \in [Engagement -> SUBSET FileNames] /\ digest \in [Engagement -> Digests]
      /\ role \in [Engagement -> RoleNames] /\ root \in [Engagement -> Engagement]
      /\ seat \in [Engagement -> {"none", "running", "exited"}] /\ counter \in Int
  BY <1>1 DEF TypeOK
<1>3. CASE Quiet
  BY <1>2, <1>3 DEF Quiet, Grows, OwnsOnly, Has, Registered
<1>4. CASE LaunchOpen(t)
  <2>1. \A e \in Engagement : Has(e, "dir") => e # counter + 1
    BY <1>1, <1>2 DEF SeatOK, Engagement
  <2>2. \A e \in Engagement : e # counter + 1 => role'[e] = role[e] /\ root'[e] = root[e]
    BY <1>2, <1>4 DEF LaunchOpen
  <2>3. \A e \in Engagement : files'[e] \in {files[e], files[e] \cup {"dir"}}
    BY <1>2, <1>4 DEF LaunchOpen
  <2>. QED BY <1>2, <1>4, <2>1, <2>2, <2>3 DEF LaunchOpen, Grows, OwnsOnly, Has, Registered
<1>5. CASE LaunchRefuse(t)
  <2>1. \A e \in Engagement : files'[e] \in {files[e], files[e] \cup {"dir"}}
    BY <1>2, <1>5 DEF LaunchRefuse
  <2>. QED BY <1>2, <1>5, <2>1 DEF LaunchRefuse, Grows, OwnsOnly, Has, Registered
<1>6. CASE Spawn(t)
  <2>1. c.at = "spawn" /\ ~Registered(c.own)
    BY <1>1, <1>6 DEF Spawn, At, HandOK
  <2>. QED BY <1>2, <1>6, <2>1 DEF Spawn, Grows, OwnsOnly, Has, Registered
<1>7. CASE Register(t)
  BY <1>2, <1>7 DEF Register, Grows, OwnsOnly, Has, Registered, At, Starting
<1>8. CASE Feed(t)
  BY <1>2, <1>8 DEF Feed, Grows, OwnsOnly, Has, Registered
<1>9. CASE (\E e \in Engagement : SweepLate(t, e) \/ Reap(t, e)) \/ CancelCheck(t)
  <2>1. UNCHANGED <<dirVars, counter>>
    BY <1>9 DEF SweepLate, Reap, CancelCheck
  <2>2. \A e \in Engagement : seat'[e] \in {seat[e], "exited"}
    BY <1>2, <1>9 DEF SweepLate, Reap, CancelCheck, Killed
  <2>. QED BY <1>2, <2>1, <2>2 DEF Grows, OwnsOnly, Has, Registered
<1>10. CASE CollectOpen(t)
  <2>1. \A e \in Engagement : files'[e] \in {files[e], files[e] \ {"pid"}}
    BY <1>2, <1>10 DEF CollectOpen
  <2>. QED BY <1>2, <1>10, <2>1 DEF CollectOpen, Grows, OwnsOnly, Has, Registered
<1>11. CASE Record(t)
  BY <1>2, <1>11 DEF Record, Grows, OwnsOnly, Has, Registered
<1>12. CASE OpenDigest(t) \/ WriteDigest(t)
  <2>1. \A e \in Engagement : digest'[e] = digest[e] \/ digest'[e] # "none"
    <3>1. CASE OpenDigest(t)
      BY <1>2, <3>1 DEF OpenDigest
    <3>2. CASE WriteDigest(t)
      <4>1. c.hint \in Hints \cup {"none"}
        BY InHand DEF Call
      <4>. QED BY <1>2, <3>2, <4>1 DEF WriteDigest, Hints
    <3>. QED BY <1>12, <3>1, <3>2
  <2>2. UNCHANGED <<files, role, root, seat, counter>>
    BY <1>12 DEF OpenDigest, WriteDigest
  <2>. QED BY <1>2, <2>1, <2>2 DEF Grows, OwnsOnly, Has, Registered
<1>13. CASE Mark(t)
  <2>1. \A e \in Engagement : files'[e] \in {files[e], files[e] \cup {"marker"}}
    BY <1>2, <1>13 DEF Mark
  <2>. QED BY <1>2, <1>13, <2>1 DEF Mark, Grows, OwnsOnly, Has, Registered
<1>. HIDE DEF G
<1>. QED BY <1>3, <1>4, <1>5, <1>6, <1>7, <1>8, <1>9, <1>10, <1>11, <1>12, <1>13, Moves DEF G

\* What holds of a call goes on holding while another call works.
LEMMA Others ==
    ASSUME IInv, NEW t \in Threads, NEW u \in Threads, u # t, CallStep(t) \/ Ask(t)
    PROVE  call'[u] = call[u] /\ ShapeOK(call[u])' /\ HandOK(call[u])'
<1>1. call'[u] = call[u]
  BY ThreadType DEF IInv, TypeOK
<1>2. Grows /\ OwnsOnly(t) /\ ShapeOK(call[u]) /\ HandOK(call[u]) /\ call[u] \in Call
      /\ counter \in Int /\ counter' \in Int
  <2>1. IInv /\ [Next]_vars
    BY DEF Next, Scientist
  <2>. QED BY <2>1, CallsGrow, TypeStep DEF IInv, TypeOK
<1>3. ShapeOK(call[u])'
  BY <1>1, <1>2 DEF ShapeOK, Grows
<1>4. HandOK(call[u])'
  <2>. DEFINE c == call[u]
              M  == "manifest"
  <2>0. /\ \A e \in Engagement : M \in files[e] => M \in files'[e]
        /\ \A e \in Engagement : "dir" \in files[e] => "dir" \in files'[e]
        /\ \A e \in Engagement : M \in files'[e] =>
               (M \in files[e] \/ (Starting(t) /\ call[t].own = e))
        /\ \A e \in Engagement : M \in files[e] => "dir" \in files[e]
    BY <1>2, InHand DEF Grows, OwnsOnly, Registered, Has
  <2>1. c.at \in {"spawn", "register"} => "dir" \in files'[c.own] /\ M \notin files'[c.own]
    <3>1. c.at \in {"spawn", "register"} /\ Starting(t) => call[t].own # c.own
      BY DEF IInv, Apart, Starting
    <3>2. c.at \in {"spawn", "register"} =>
              c.own \in Engagement /\ "dir" \in files[c.own] /\ M \notin files[c.own]
      BY <1>2, InHand DEF HandOK, Registered, Has
    <3>. QED BY <2>0, <3>1, <3>2
  <2>2. c.at \in {"spawn", "register", "feed"} /\ c.verb = "continue" =>
            role'[c.own] = "executor"
    BY <1>2, InHand DEF HandOK, Grows
  <2>3. c.at \in {"feed", "await", "sweep", "take", "mark"} \cup Filing /\ c.verb = "launch"
            => M \in files'[c.own]
    BY <1>2, <2>0, InHand DEF HandOK, Registered, Has
  <2>4. c.at = "feed" => M \in files'[c.own]
    BY <1>2, <2>0, InHand DEF HandOK, Registered, Has
  <2>5. c.at \in {"take", "mark"} /\ c.verb = "launch" => digest'[c.own] # "none"
    BY <1>2, InHand DEF HandOK, Grows
  <2>6. c.at \in {"sweep"} \cup Filing /\ c.verb \in Sweepers \cup Reapers =>
            \A e \in c.todo : M \in files'[e]
    <3>1. c.todo \subseteq Engagement
      BY <1>2 DEF Call
    <3>. QED BY <1>2, <2>0, <3>1 DEF HandOK, Registered, Has
  <2>7. c.at \in Filing => M \in files'[c.eng] /\ seat'[c.eng] # "running"
    BY <1>2, <2>0, InHand DEF HandOK, Registered, Has, Grows
  <2>8. c.at \in {"write", "mark"} => digest'[c.eng] # "none"
    BY <1>2, InHand DEF HandOK, Grows, Filing
  <2>. QED BY <1>1, <2>1, <2>2, <2>3, <2>4, <2>5, <2>6, <2>7, <2>8 DEF HandOK, Registered, Has
<1>. QED BY <1>1, <1>3, <1>4

\* The seats in hand: one that is registered and not visibly alive has stopped, and
\* none runs behind a report.
LEMMA Stopped ==
    ASSUME IInv, NEW e \in Engagement, Registered(e)
    PROVE  /\ ~Alive(e) => seat[e] # "running"
           /\ digest[e] # "none" => seat[e] # "running"
           /\ Killed({e})[e] # "running"
<1>1. SeatOK /\ seat \in [Engagement -> {"none", "running", "exited"}]
  BY DEF IInv, TypeOK
<1>. QED BY <1>1 DEF SeatOK, Alive, Visible, Killed

\* A call's step keeps its own shape and its own hand.
LEMMA Own ==
    ASSUME IInv, NEW t \in Threads, CallStep(t) \/ Ask(t)
    PROVE  ShapeOK(call[t])' /\ HandOK(call[t])'
<1>. DEFINE c == call[t]
            G == ShapeOK(call[t])' /\ HandOK(call[t])'
<1>1. /\ c \in Call /\ ShapeOK(c) /\ HandOK(c) /\ TypeOK /\ SeatOK
      /\ call \in [Threads -> Call] /\ counter \in 0..MaxEngagements
      /\ files \in [Engagement -> SUBSET FileNames]
  BY DEF IInv, TypeOK
<1>2. /\ c.at \in Stages /\ c.verb \in Verbs \cup {"none"} /\ c.todo \subseteq Engagement
      /\ c.own \in Engagement \cup {None} /\ c.eng \in Engagement \cup {None}
  BY <1>1 DEF Call
<1>u. Unfinalized \subseteq Engagement /\ \A e \in Unfinalized : Registered(e)
  BY DEF Unfinalized
<1>. USE DEF At, Is, Go, Return, Visit, dirVars, seatVars
<1>3. CASE LaunchStep(t)
  <2>1. CASE LaunchOpen(t)
    <3>1. /\ counter < MaxEngagements /\ counter' = counter + 1
          /\ call' = [call EXCEPT ![t].at = "spawn", ![t].own = counter + 1]
          /\ files' = [files EXCEPT ![counter + 1] = @ \cup {"dir"}]
          /\ c.at = "launch"
      BY <2>1 DEF LaunchOpen
    <3>2. call'[t] = [c EXCEPT !.at = "spawn", !.own = counter + 1]
      BY <1>1, <3>1
    <3>3. counter + 1 \in Engagement /\ counter + 1 # None
      BY <1>1, <3>1, Bounds DEF Engagement
    <3>4. files[counter + 1] = {}
      BY <1>1, <3>3 DEF SeatOK, Has
    <3>5. c.verb = "continue" => role'[counter + 1] = "executor"
      BY <1>1, <2>1, <3>3 DEF LaunchOpen, TypeOK
    <3>6. c.verb \in {"launch", "continue"}
      BY <1>1, <3>1 DEF ShapeOK
    <3>7. /\ call'[t].at = "spawn" /\ call'[t].own = counter + 1 /\ call'[t].verb = c.verb
      BY <1>1, <3>2 DEF Call
    <3>8. ShapeOK(call[t])'
      BY <3>3, <3>6, <3>7 DEF ShapeOK, Filing
    <3>9. HandOK(call[t])'
      BY <1>1, <3>1, <3>3, <3>4, <3>5, <3>7 DEF HandOK, Filing, Has, Registered
    <3>. QED BY <3>8, <3>9
  <2>2. CASE LaunchRefuse(t) \/ SpawnFails(t)
    <3>1. call' = [call EXCEPT ![t].at = "returned", ![t].hand = @ \cup {}]
      BY <2>2 DEF LaunchRefuse, SpawnFails
    <3>2. call'[t].at = "returned"
      BY <1>1, <3>1 DEF Call
    <3>. QED BY <3>2 DEF ShapeOK, HandOK, Filing
  <2>3. CASE Spawn(t)
    <3>1. /\ call'[t] = [c EXCEPT !.at = "register"] /\ c.at = "spawn"
          /\ UNCHANGED <<files, role, counter>>
      BY <1>1, <2>3 DEF Spawn
    <3>2. call'[t].at = "register" /\ call'[t].verb = c.verb /\ call'[t].own = c.own
      BY <1>1, <3>1 DEF Call
    <3>. QED BY <1>1, <3>1, <3>2 DEF ShapeOK, HandOK, Filing, Has, Registered
  <2>4. CASE Register(t)
    <3>1. /\ call'[t] = [c EXCEPT !.at = "feed"] /\ c.at = "register"
          /\ files' = [files EXCEPT ![c.own] = @ \cup {"pid", "manifest"}]
          /\ UNCHANGED <<role, counter>>
      BY <1>1, <2>4 DEF Register
    <3>2. call'[t].at = "feed" /\ call'[t].verb = c.verb /\ call'[t].own = c.own
      BY <1>1, <3>1 DEF Call
    <3>3. c.own \in Engagement
      BY <1>1, <1>2, <3>1 DEF ShapeOK
    <3>. QED BY <1>1, <3>1, <3>2, <3>3 DEF ShapeOK, HandOK, Filing, Has, Registered
  <2>5. CASE Feed(t)
    <3>1. /\ c.at = "feed" /\ UNCHANGED <<files, role, counter>>
          /\ \/ call'[t] = [c EXCEPT !.at = "returned"]
             \/ call'[t] = [c EXCEPT !.at = "returned", !.hand = @ \cup {}]
             \/ call'[t] = [c EXCEPT !.at = "await"] /\ role[c.own] = "reviewer"
      BY <1>1, <2>5 DEF Feed
    <3>2. /\ call'[t].verb = c.verb /\ call'[t].own = c.own
          /\ call'[t].at = "returned" \/ (call'[t].at = "await" /\ c.verb = "launch")
      BY <1>1, <3>1 DEF Call, ShapeOK, HandOK
    <3>. QED BY <1>1, <3>1, <3>2 DEF ShapeOK, HandOK, Filing, Has, Registered
  <2>. QED BY <1>3, <2>1, <2>2, <2>3, <2>4, <2>5 DEF LaunchStep
<1>4. CASE SweepStep(t)
  <2>1. CASE Await(t)
    <3>1. /\ c.at = "await" /\ UNCHANGED <<files, digest, counter>>
          /\ \/ /\ call'[t] = [c EXCEPT !.at = "take", !.todo = {c.own}]
                /\ digest[c.own] # "none"
             \/ call'[t] = [c EXCEPT !.at = "sweep", !.todo = Unfinalized]
      BY <1>1, <2>1 DEF Await
    <3>2. /\ call'[t].verb = c.verb /\ call'[t].own = c.own
          /\ \/ call'[t].at = "take" /\ digest[c.own] # "none"
             \/ call'[t].at = "sweep" /\ call'[t].todo = Unfinalized
      BY <1>1, <3>1 DEF Call
    <3>. QED BY <1>1, <1>u, <3>1, <3>2 DEF ShapeOK, HandOK, Filing, Has, Registered, Sweepers
  <2>2. CASE SweepDone(t)
    <3>1. /\ c.at = "sweep" /\ UNCHANGED <<files, digest, counter>> /\ c.todo = {}
          /\ \/ c.verb = "launch" /\ call'[t] = [c EXCEPT !.at = "await"]
             \/ /\ c.verb \in {"poll", "wait"}
                /\ call'[t] = [c EXCEPT !.at = "take", !.todo = Engagement]
             \/ call'[t] = [c EXCEPT !.at = "returned"]
             \/ /\ c.verb = "wait"
                /\ call'[t] = [c EXCEPT !.todo = Unfinalized]
      BY <1>1, <2>2 DEF SweepDone
    <3>2. /\ call'[t].verb = c.verb /\ call'[t].own = c.own
          /\ \/ call'[t].at = "await" /\ c.verb = "launch"
             \/ call'[t].at = "take" /\ c.verb \in {"poll", "wait"}
             \/ call'[t].at = "returned"
             \/ call'[t].at = "sweep" /\ c.verb = "wait" /\ call'[t].todo = Unfinalized
      BY <1>1, <3>1 DEF Call
    <3>. QED BY <1>1, <1>u, <3>1, <3>2 DEF ShapeOK, HandOK, Filing, Has, Registered, Sweepers
  <2>3. ASSUME NEW e \in Engagement,
               SweepRunning(t, e) \/ SweepLate(t, e) \/ SweepExited(t, e) \/ Reap(t, e)
        PROVE  G
    <3>1. /\ c.at = "sweep" /\ e \in c.todo /\ UNCHANGED <<files, digest, counter>>
          /\ c.verb \in Sweepers \cup Reapers
      BY <2>3 DEF SweepRunning, SweepLate, SweepExited, Reap
    <3>2. Registered(e)
      BY <1>1, <3>1 DEF HandOK
    <3>3. CASE SweepRunning(t, e)
      <4>1. call'[t] = [c EXCEPT !.todo = @ \ {e}]
        BY <1>1, <3>3 DEF SweepRunning
      <4>2. /\ call'[t].verb = c.verb /\ call'[t].own = c.own
            /\ call'[t].at = "sweep" /\ call'[t].todo \subseteq c.todo
        BY <1>1, <3>1, <4>1 DEF Call
      <4>. QED BY <1>1, <3>1, <4>2 DEF ShapeOK, HandOK, Filing, Has, Registered
    <3>4. CASE ~SweepRunning(t, e)
      <4>1. \E h : call'[t] = [c EXCEPT !.at = "collect", !.eng = e, !.todo = @ \ {e}, !.hint = h]
        BY <1>1, <2>3, <3>4 DEF SweepLate, SweepExited, Reap
      <4>2. /\ call'[t].verb = c.verb /\ call'[t].own = c.own /\ call'[t].eng = e
            /\ call'[t].at = "collect" /\ call'[t].todo \subseteq c.todo
        BY <1>1, <4>1 DEF Call
      <4>3. seat'[e] # "running"
        BY <2>3, <3>2, <3>4, Stopped DEF SweepLate, SweepExited, Reap
      <4>4. e # None
        BY Bounds
      <4>. QED BY <1>1, <3>1, <3>2, <4>2, <4>3, <4>4 DEF ShapeOK, HandOK, Filing, Has, Registered
    <3>. QED BY <3>3, <3>4
  <2>. QED BY <1>4, <2>1, <2>2, <2>3 DEF SweepStep
<1>5. ASSUME c.at \in Filing, call'[t] = Collected(t), CollectFiled(t) \/ WriteDigest(t)
      PROVE  G
  <2>1. UNCHANGED <<files, seat, counter>> /\ \A e \in Engagement : digest[e] # "none" => digest'[e] # "none"
    BY <1>5, CallsGrow DEF CollectFiled, WriteDigest, Grows
  <2>2. \/ /\ c.verb \in Sweepers \cup Reapers /\ call'[t].at = "sweep"
           /\ call'[t].verb = c.verb /\ call'[t].own = c.own /\ call'[t].todo = c.todo
        \/ /\ c.verb = "cancel" /\ call'[t].at = "take" /\ call'[t].verb = c.verb
        \/ call'[t].at = "returned"
    <3>1. \/ /\ c.verb \in Sweepers
             /\ call'[t] = [c EXCEPT !.at = "sweep"]
          \/ /\ c.verb \in Reapers
             /\ call'[t] = [c EXCEPT !.at = "sweep", !.hand = @ \cup {c.eng}]
          \/ /\ c.verb = "cancel"
             /\ call'[t] = [c EXCEPT !.at = "take", !.todo = {c.eng}]
          \/ /\ c.verb = "answer"
             /\ call'[t] = [c EXCEPT !.at = "returned", !.hand = {c.eng}]
      BY <1>1, <1>5, CollectedIs
    <3>2. CASE c.verb \in Sweepers /\ call'[t] = [c EXCEPT !.at = "sweep"]
      BY <1>1, <3>2 DEF Call
    <3>3. CASE /\ c.verb \in Reapers
               /\ call'[t] = [c EXCEPT !.at = "sweep", !.hand = @ \cup {c.eng}]
      BY <1>1, <3>3 DEF Call
    <3>4. CASE c.verb = "cancel" /\ call'[t] = [c EXCEPT !.at = "take", !.todo = {c.eng}]
      BY <1>1, <3>4 DEF Call
    <3>5. CASE call'[t] = [c EXCEPT !.at = "returned", !.hand = {c.eng}]
      BY <1>1, <3>5 DEF Call
    <3>. QED BY <3>1, <3>2, <3>3, <3>4, <3>5
  <2>. QED BY <1>1, <1>5, <2>1, <2>2 DEF ShapeOK, HandOK, Filing, Has, Registered
<1>6. CASE FileStep(t)
  <2>1. CASE CollectFiled(t) \/ WriteDigest(t)
    <3>1. c.at \in Filing /\ call'[t] = Collected(t)
      BY <1>1, <2>1 DEF CollectFiled, WriteDigest, Filing
    <3>. QED BY <1>5, <2>1, <3>1
  <2>2. CASE CollectOpen(t) \/ Record(t)
    <3>1. /\ c.at \in {"collect", "record"} /\ UNCHANGED <<digest, seat, counter>>
          /\ \E a \in {"record", "open"} : call'[t] = [c EXCEPT !.at = a]
      BY <1>1, <2>2 DEF CollectOpen, Record
    <3>2. /\ call'[t].verb = c.verb /\ call'[t].own = c.own /\ call'[t].eng = c.eng
          /\ call'[t].at \in {"record", "open"} /\ call'[t].todo = c.todo
      BY <1>1, <3>1 DEF Call
    <3>3. \A e \in Engagement : "manifest" \in files[e] => "manifest" \in files'[e]
      BY <1>1, <2>2 DEF CollectOpen, Record
    <3>4. c.eng \in Engagement /\ (c.verb = "launch" => c.own \in Engagement)
      BY <3>1, InHand DEF Filing
    <3>. QED BY <1>1, <1>2, <3>1, <3>2, <3>3, <3>4 DEF ShapeOK, HandOK, Filing, Has, Registered
  <2>3. CASE OpenDigest(t)
    <3>1. /\ c.at = "open" /\ UNCHANGED <<files, seat, counter>>
          /\ call'[t] = [c EXCEPT !.at = "write"]
          /\ digest' = [digest EXCEPT ![c.eng] = "torn"]
      BY <1>1, <2>3 DEF OpenDigest
    <3>2. /\ call'[t].verb = c.verb /\ call'[t].own = c.own /\ call'[t].eng = c.eng
          /\ call'[t].at = "write" /\ call'[t].todo = c.todo
      BY <1>1, <3>1 DEF Call
    <3>3. digest'[c.eng] # "none"
      BY <1>1, <3>1, InHand DEF Filing, TypeOK
    <3>. QED BY <1>1, <3>1, <3>2, <3>3 DEF ShapeOK, HandOK, Filing, Has, Registered
  <2>. QED BY <1>6, <2>1, <2>2, <2>3 DEF FileStep
<1>7. CASE TakeStep(t)
  <2>1. CASE Mark(t)
    <3>1. /\ c.at = "mark" /\ UNCHANGED <<digest, counter>>
          /\ call'[t] = [c EXCEPT !.at = "take", !.hand = @ \cup {c.eng}]
          /\ files' = [files EXCEPT ![c.eng] = @ \cup {"marker"}]
      BY <1>1, <2>1 DEF Mark
    <3>2. call'[t].verb = c.verb /\ call'[t].own = c.own /\ call'[t].at = "take"
      BY <1>1, <3>1 DEF Call
    <3>3. \A e \in Engagement : "manifest" \in files[e] => "manifest" \in files'[e]
      BY <1>1, <3>1
    <3>4. c.verb = "launch" => c.own \in Engagement
      BY <3>1, InHand
    <3>. QED BY <1>1, <3>1, <3>2, <3>3, <3>4 DEF ShapeOK, HandOK, Filing, Has, Registered
  <2>2. CASE TakeDone(t)
    <3>1. /\ c.at = "take" /\ UNCHANGED <<files, digest, counter, seat>>
          /\ \/ call'[t] = [c EXCEPT !.at = "returned"]
             \/ /\ call'[t] = [c EXCEPT !.verb = "answer", !.at = "collect", !.eng = c.own,
                                       !.hint = "none"]
                /\ c.verb = "launch"
      BY <1>1, <2>2 DEF TakeDone
    <3>2. \/ call'[t].at = "returned"
          \/ /\ call'[t].verb = "answer" /\ call'[t].at = "collect" /\ call'[t].eng = c.own
             /\ c.verb = "launch"
      BY <1>1, <3>1 DEF Call
    <3>3. c.verb = "launch" =>
             /\ c.own \in Engagement /\ c.own # None /\ Registered(c.own)
             /\ seat[c.own] # "running"
      BY <1>1, <3>1, InHand, Stopped, Bounds DEF HandOK
    <3>. QED BY <3>1, <3>2, <3>3
             DEF ShapeOK, HandOK, Filing, Has, Registered, Sweepers, Reapers
  <2>3. ASSUME NEW e \in Engagement, TakeSkip(t, e) \/ TakeRead(t, e) PROVE G
    <3>1. /\ c.at = "take" /\ UNCHANGED <<files, digest, counter>>
          /\ \/ call'[t] = [c EXCEPT !.todo = @ \ {e}]
             \/ /\ call'[t] = [c EXCEPT !.at = "mark", !.eng = e, !.todo = @ \ {e}]
                /\ digest[e] # "none"
      BY <1>1, <2>3 DEF TakeSkip, TakeRead, Readable, Statuses, Hints
    <3>2. /\ call'[t].verb = c.verb /\ call'[t].own = c.own
          /\ \/ call'[t].at = "take"
             \/ call'[t].at = "mark" /\ call'[t].eng = e /\ digest[e] # "none"
      BY <1>1, <3>1 DEF Call
    <3>3. e # None
      BY Bounds
    <3>. QED BY <1>1, <3>1, <3>2, <3>3 DEF ShapeOK, HandOK, Filing, Has, Registered
  <2>. QED BY <1>7, <2>1, <2>2, <2>3 DEF TakeStep
<1>8. CASE ContinueCheck(t)
  <2>1. /\ c.at = "check" /\ c.verb = "continue" /\ UNCHANGED counter
        /\ \E a \in {"launch", "returned"} : call'[t] = [c EXCEPT !.at = a]
    BY <1>1, <1>8 DEF ContinueCheck
  <2>2. /\ call'[t].verb = "continue" /\ call'[t].eng = c.eng
        /\ call'[t].at \in {"launch", "returned"}
    BY <1>1, <2>1 DEF Call
  <2>. QED BY <1>1, <2>1, <2>2 DEF ShapeOK, HandOK, Filing
<1>9. CASE CancelCheck(t)
  <2>1. /\ c.at = "check" /\ c.verb = "cancel" /\ UNCHANGED <<files, counter>>
        /\ \/ call'[t] = [c EXCEPT !.at = "returned"]
           \/ /\ call'[t] = [c EXCEPT !.at = "collect", !.hint = "cancelled"]
              /\ c.eng \in Unfinalized /\ seat' = Killed({c.eng})
    BY <1>1, <1>9 DEF CancelCheck
  <2>2. /\ call'[t].verb = "cancel" /\ call'[t].eng = c.eng
        /\ call'[t].at \in {"collect", "returned"}
    BY <1>1, <2>1 DEF Call
  <2>3. call'[t].at = "collect" => Registered(c.eng) /\ seat'[c.eng] # "running"
    <3>1. call'[t].at = "collect" => c.eng \in Unfinalized /\ seat' = Killed({c.eng})
      BY <1>1, <2>1 DEF Call
    <3>. QED BY <1>u, <3>1, Stopped
  <2>. QED BY <1>1, <2>1, <2>2, <2>3
           DEF ShapeOK, HandOK, Filing, Has, Registered, Sweepers, Reapers
<1>10. CASE Ask(t)
  <2>1. /\ c = Idle /\ UNCHANGED <<files, counter>>
        /\ \/ call'[t] = [c EXCEPT !.verb = "launch", !.at = "launch"]
           \/ call'[t] = [c EXCEPT !.verb = "wait", !.at = "sweep", !.todo = Unfinalized]
           \/ \E e \in 1..counter, v \in {"continue", "cancel"} :
                 call'[t] = [c EXCEPT !.verb = v, !.at = "check", !.eng = e]
    BY <1>1, <1>10 DEF Ask
  <2>2. \/ call'[t].verb = "launch" /\ call'[t].at = "launch"
        \/ call'[t].verb = "wait" /\ call'[t].at = "sweep" /\ call'[t].todo = Unfinalized
        \/ /\ call'[t].verb \in {"continue", "cancel"} /\ call'[t].at = "check"
           /\ call'[t].eng \in 1..counter
    BY <1>1, <2>1 DEF Call
  <2>3. None \notin 1..counter
    BY <1>1 DEF None
  <2>. QED BY <1>u, <2>1, <2>2, <2>3
           DEF ShapeOK, HandOK, Filing, Has, Registered, Sweepers, Reapers
<1>. HIDE DEF G
<1>. QED BY <1>3, <1>4, <1>6, <1>7, <1>8, <1>9, <1>10 DEF G, CallStep

\* Where a step of a call comes from and where it goes.
LEMMA Starts ==
    ASSUME IInv, NEW t \in Threads, CallStep(t) \/ Ask(t)
    PROVE  /\ CallStep(t) => call[t].at \notin {"idle", "returned"}
           /\ call[t].at = "register" => Register(t)
           /\ call'[t].at \in {"spawn", "register"} =>
                 (LaunchOpen(t) \/ (Spawn(t) /\ call'[t].own = call[t].own))
           /\ call'[t].verb \in Reapers => call[t].verb \in Reapers
           /\ \A e \in Engagement : seat'[e] = "running" =>
                 (seat[e] = "running" \/ (Spawn(t) /\ e = call[t].own))
<1>. DEFINE c == call[t]
            N == call'[t].at \notin {"spawn", "register"}
            V == call'[t].verb = c.verb
            S == \A e \in Engagement : seat'[e] = "running" => seat[e] = "running"
            F == c.at \notin {"idle", "returned", "register"}
<1>1. /\ c \in Call /\ ShapeOK(c) /\ call \in [Threads -> Call]
      /\ seat \in [Engagement -> {"none", "running", "exited"}]
  BY DEF IInv, TypeOK
<1>. USE DEF At, Is, Go, Return, Visit, dirVars, seatVars
<1>k. \A E \in SUBSET Engagement : \A e \in Engagement :
          Killed(E)[e] = "running" => seat[e] = "running"
  BY DEF Killed
<1>2. CASE LaunchOpen(t)
  <2>1. F /\ S /\ call'[t] = [c EXCEPT !.at = "spawn", !.own = counter + 1]
    BY <1>1, <1>2 DEF LaunchOpen
  <2>2. V
    BY <1>1, <2>1 DEF Call
  <2>. QED BY <1>2, <2>1, <2>2
<1>3. CASE LaunchRefuse(t) \/ SpawnFails(t)
  <2>1. F /\ S /\ call'[t] = [c EXCEPT !.at = "returned", !.hand = @ \cup {}]
    BY <1>1, <1>3 DEF LaunchRefuse, SpawnFails
  <2>2. V /\ N
    BY <1>1, <2>1 DEF Call
  <2>. QED BY <2>1, <2>2
<1>4. CASE Spawn(t)
  <2>1. F /\ call'[t] = [c EXCEPT !.at = "register"]
    BY <1>1, <1>4 DEF Spawn
  <2>2. V /\ call'[t].own = c.own
    BY <1>1, <2>1 DEF Call
  <2>3. \A e \in Engagement : seat'[e] = "running" => (seat[e] = "running" \/ e = c.own)
    BY <1>1, <1>4 DEF Spawn
  <2>. QED BY <1>4, <2>1, <2>2, <2>3
<1>5. CASE Register(t)
  <2>1. S /\ c.at = "register" /\ call'[t] = [c EXCEPT !.at = "feed"]
    BY <1>1, <1>5 DEF Register
  <2>2. V /\ N
    BY <1>1, <2>1 DEF Call
  <2>. QED BY <1>5, <2>1, <2>2
<1>6. CASE Feed(t)
  <2>1. /\ F /\ S
        /\ \/ call'[t] = [c EXCEPT !.at = "await"]
           \/ call'[t] = [c EXCEPT !.at = "returned"]
           \/ call'[t] = [c EXCEPT !.at = "returned", !.hand = @ \cup {}]
    BY <1>1, <1>6 DEF Feed
  <2>2. V /\ N
    BY <1>1, <2>1 DEF Call
  <2>. QED BY <2>1, <2>2
<1>7. CASE SweepStep(t)
  <2>1. CASE Await(t) \/ SweepDone(t)
    <3>1. /\ F /\ S
          /\ \/ \E a \in {"await", "returned"} : call'[t] = [c EXCEPT !.at = a]
             \/ \E a \in {"take", "sweep"}, T \in SUBSET (Engagement \cup {c.own}) :
                   call'[t] = [c EXCEPT !.at = a, !.todo = T]
             \/ /\ c.at = "sweep"
                /\ call'[t] = [c EXCEPT !.todo = Unfinalized]
      BY <1>1, <2>1 DEF Await, SweepDone, Unfinalized
    <3>2. V /\ N
      BY <1>1, <3>1 DEF Call
    <3>. QED BY <3>1, <3>2
  <2>2. ASSUME NEW e \in Engagement,
               SweepRunning(t, e) \/ SweepLate(t, e) \/ SweepExited(t, e) \/ Reap(t, e)
        PROVE  F /\ S /\ V /\ N
    <3>1. /\ c.at = "sweep"
          /\ \/ call'[t] = [c EXCEPT !.todo = @ \ {e}]
             \/ \E h : call'[t] = [c EXCEPT !.at = "collect", !.eng = e, !.todo = @ \ {e},
                                            !.hint = h]
      BY <1>1, <2>2, ZenonT(30) DEF SweepRunning, SweepLate, SweepExited, Reap
    <3>2. V /\ N
      BY <1>1, <3>1 DEF Call
    <3>3. S
      BY <1>k, <2>2 DEF SweepRunning, SweepLate, SweepExited, Reap
    <3>. QED BY <3>1, <3>2, <3>3
  <2>. QED BY <1>7, <2>1, <2>2 DEF SweepStep
<1>8. CASE FileStep(t)
  <2>1. c.at \in Filing /\ S /\ F
    BY <1>8 DEF FileStep, CollectFiled, CollectOpen, Record, OpenDigest, WriteDigest, Filing
  <2>2. CASE CollectFiled(t) \/ WriteDigest(t)
    <3>1. call'[t] = Collected(t)
      BY <1>1, <2>2 DEF CollectFiled, WriteDigest
    <3>2. \/ call'[t] = [c EXCEPT !.at = "sweep"]
          \/ call'[t] = [c EXCEPT !.at = "sweep", !.hand = @ \cup {c.eng}]
          \/ call'[t] = [c EXCEPT !.at = "take", !.todo = {c.eng}]
          \/ call'[t] = [c EXCEPT !.at = "returned", !.hand = {c.eng}]
      BY <1>1, <2>1, <3>1, CollectedIs
    <3>3. V /\ N
      BY <1>1, <3>2 DEF Call
    <3>. QED BY <2>1, <3>3
  <2>3. CASE CollectOpen(t) \/ Record(t) \/ OpenDigest(t)
    <3>1. \E a \in {"record", "open", "write"} : call'[t] = [c EXCEPT !.at = a]
      BY <1>1, <2>3 DEF CollectOpen, Record, OpenDigest
    <3>2. V /\ N
      BY <1>1, <3>1 DEF Call
    <3>. QED BY <2>1, <3>2
  <2>. QED BY <1>8, <2>2, <2>3 DEF FileStep
<1>9. CASE TakeStep(t)
  <2>1. CASE Mark(t)
    <3>1. F /\ S /\ call'[t] = [c EXCEPT !.at = "take", !.hand = @ \cup {c.eng}]
      BY <1>1, <2>1 DEF Mark
    <3>2. V /\ N
      BY <1>1, <3>1 DEF Call
    <3>. QED BY <3>1, <3>2
  <2>2. CASE TakeDone(t)
    <3>1. /\ F /\ S
          /\ \/ call'[t] = [c EXCEPT !.at = "returned"]
             \/ call'[t] = [c EXCEPT !.verb = "answer", !.at = "collect", !.eng = c.own,
                                     !.hint = "none"]
      BY <1>1, <2>2 DEF TakeDone
    <3>2. N /\ (V \/ call'[t].verb = "answer")
      BY <1>1, <3>1 DEF Call
    <3>. QED BY <3>1, <3>2 DEF Reapers
  <2>3. ASSUME NEW e \in Engagement, TakeSkip(t, e) \/ TakeRead(t, e) PROVE F /\ S /\ V /\ N
    <3>1. /\ c.at = "take" /\ S
          /\ \/ call'[t] = [c EXCEPT !.todo = @ \ {e}]
             \/ call'[t] = [c EXCEPT !.at = "mark", !.eng = e, !.todo = @ \ {e}]
      BY <1>1, <2>3 DEF TakeSkip, TakeRead
    <3>2. V /\ N
      BY <1>1, <3>1 DEF Call
    <3>. QED BY <3>1, <3>2
  <2>. QED BY <1>9, <2>1, <2>2, <2>3 DEF TakeStep
<1>10. CASE ContinueCheck(t) \/ CancelCheck(t)
  <2>1. /\ F
        /\ \/ \E a \in {"launch", "returned"} : call'[t] = [c EXCEPT !.at = a]
           \/ call'[t] = [c EXCEPT !.at = "collect", !.hint = "cancelled"]
    BY <1>1, <1>10 DEF ContinueCheck, CancelCheck
  <2>2. V /\ N
    BY <1>1, <2>1 DEF Call
  <2>3. S
    <3>1. seat' = seat \/ (call[t].eng \in Engagement /\ seat' = Killed({call[t].eng}))
      BY <1>10 DEF ContinueCheck, CancelCheck, Unfinalized
    <3>. QED BY <1>k, <3>1
  <2>. QED BY <2>1, <2>2, <2>3
<1>11. CASE Ask(t)
  <2>1. /\ c = Idle /\ S
        /\ \/ call'[t] = [c EXCEPT !.verb = "launch", !.at = "launch"]
           \/ call'[t] = [c EXCEPT !.verb = "wait", !.at = "sweep", !.todo = Unfinalized]
           \/ \E e, v : /\ v \in {"continue", "cancel"}
                        /\ call'[t] = [c EXCEPT !.verb = v, !.at = "check", !.eng = e]
    BY <1>1, <1>11 DEF Ask
  <2>2. N /\ call'[t].verb \in {"launch", "wait", "continue", "cancel"}
    BY <1>1, <2>1 DEF Call
  <2>3. c.at = "idle" /\ ~CallStep(t)
    <3>0. c = Idle /\ Idle.at = "idle"
      BY <1>11 DEF Ask, Idle
    <3>1. c.at = "idle"
      BY <3>0, Zenon
    <3>2. turn = "choose"
      BY <1>11 DEF Ask
    <3>. QED BY <3>1, <3>2, Zenon DEF CallStep
  <2>. QED BY <2>1, <2>2, <2>3 DEF Reapers
<1>. HIDE DEF N, V, S, F
<1>. QED BY <1>2, <1>3, <1>4, <1>5, <1>6, <1>7, <1>8, <1>9, <1>10, <1>11
         DEF CallStep, LaunchStep

\* The directories and the processes stay in order in every step of a call.
LEMMA CallKeepsSeats ==
    ASSUME IInv, NEW t \in Threads, CallStep(t) \/ Ask(t)
    PROVE  SeatOK'
<1>. DEFINE c == call[t]
<1>. USE DEF dirVars, seatVars
<1>1. /\ TypeOK /\ SeatOK /\ HandOK(c) /\ ShapeOK(c)
      /\ files \in [Engagement -> SUBSET FileNames] /\ digest \in [Engagement -> Digests]
      /\ root \in [Engagement -> Engagement]
      /\ seat \in [Engagement -> {"none", "running", "exited"}]
      /\ counter \in Int /\ Engagement \subseteq Int
  BY DEF IInv, TypeOK, Engagement
<1>2. CASE Quiet
  BY <1>1, <1>2 DEF Quiet, SeatOK, Has, Registered
<1>3. CASE LaunchOpen(t)
  <2>1. /\ counter < MaxEngagements /\ counter' = counter + 1 /\ c.at = "launch"
        /\ files' = [files EXCEPT ![counter + 1] = files[counter + 1] \cup {"dir"}]
        /\ UNCHANGED <<digest, seat>>
    BY <1>3 DEF LaunchOpen, At
  <2>2. counter + 1 \in Engagement
    BY <1>1, <2>1, Bounds DEF Engagement, TypeOK
  <2>3. files[counter + 1] = {} /\ seat[counter + 1] = "none"
    BY <1>1, <2>2 DEF SeatOK, Has
  <2>4. \A e \in Engagement : root'[e] <= e
    <3>1. \/ /\ c.verb = "continue"
             /\ root' = [root EXCEPT ![counter + 1] = root[c.eng]]
          \/ root' = [root EXCEPT ![counter + 1] = counter + 1]
      BY <1>3 DEF LaunchOpen, Is
    <3>2. c.verb = "continue" => c.eng \in Engagement /\ c.eng <= counter
      BY <2>1, InHand
    <3>3. c.verb = "continue" => root[c.eng] <= c.eng /\ root[c.eng] \in Int /\ c.eng \in Int
      BY <1>1, <3>2 DEF SeatOK
    <3>. QED BY <1>1, <2>2, <3>1, <3>2, <3>3 DEF SeatOK
  <2>5. files'[counter + 1] = {"dir"} /\ seat'[counter + 1] = "none"
        /\ digest'[counter + 1] = "none"
    BY <1>1, <2>1, <2>2, <2>3 DEF SeatOK, Has, Registered
  <2>6. \A e \in Engagement : e # counter + 1 => files'[e] = files[e]
    BY <1>1, <2>1
  <2>. QED BY <1>1, <2>1, <2>2, <2>4, <2>5, <2>6 DEF SeatOK, Has, Registered
<1>4. CASE LaunchRefuse(t)
  <2>1. /\ counter < MaxEngagements /\ counter' = counter + 1
        /\ \/ files' = files
           \/ files' = [files EXCEPT ![counter + 1] = files[counter + 1] \cup {"dir"}]
        /\ UNCHANGED <<digest, seat, root>>
    BY <1>4 DEF LaunchRefuse
  <2>2. counter + 1 \in Engagement
    BY <1>1, <2>1, Bounds DEF Engagement, TypeOK
  <2>3. files[counter + 1] = {} /\ seat[counter + 1] = "none"
    BY <1>1, <2>2 DEF SeatOK, Has
  <2>. QED BY <1>1, <2>1, <2>2, <2>3 DEF SeatOK, Has, Registered
<1>5. CASE Spawn(t)
  <2>1. /\ c.at = "spawn" /\ seat' = [seat EXCEPT ![c.own] = "running"]
        /\ UNCHANGED <<files, digest, root, counter>>
    BY <1>5 DEF Spawn, At
  <2>2. Has(c.own, "dir") /\ ~Registered(c.own)
    BY <1>1, <2>1 DEF HandOK
  <2>. QED BY <1>1, <2>1, <2>2 DEF SeatOK, Has, Registered
<1>6. CASE Register(t)
  <2>1. /\ c.at = "register"
        /\ files' = [files EXCEPT ![c.own] = files[c.own] \cup {"pid", "manifest"}]
        /\ UNCHANGED <<digest, root, seat, counter>>
    BY <1>6 DEF Register, At
  <2>2. Has(c.own, "dir")
    BY <1>1, <2>1 DEF HandOK
  <2>. QED BY <1>1, <2>1, <2>2 DEF SeatOK, Has, Registered
<1>7. CASE Feed(t) \/ Record(t)
  BY <1>1, <1>7 DEF Feed, Record, SeatOK, Has, Registered
<1>8. CASE (\E e \in Engagement : SweepLate(t, e) \/ Reap(t, e)) \/ CancelCheck(t)
  <2>1. UNCHANGED <<files, digest, root, counter>>
    BY <1>8 DEF SweepLate, Reap, CancelCheck
  <2>2. \A e \in Engagement : \/ seat'[e] = seat[e]
                              \/ seat[e] = "running" /\ seat'[e] = "exited"
    BY <1>1, <1>8 DEF SweepLate, Reap, CancelCheck, Killed, Alive
  <2>. QED BY <1>1, <2>1, <2>2 DEF SeatOK, Has, Registered
<1>9. CASE CollectOpen(t)
  <2>1. /\ c.at = "collect" /\ files' = [files EXCEPT ![c.eng] = files[c.eng] \ {"pid"}]
        /\ UNCHANGED <<digest, root, seat, counter>>
    BY <1>9 DEF CollectOpen, At
  <2>2. seat[c.eng] # "running" /\ Registered(c.eng) /\ c.eng \in Engagement
    BY <1>1, <2>1, InHand DEF HandOK, Filing
  <2>3. Has(c.eng, "dir")
    BY <2>2, InHand
  <2>. QED BY <1>1, <2>1, <2>2, <2>3 DEF SeatOK, Has, Registered
<1>10. CASE OpenDigest(t) \/ WriteDigest(t)
  <2>1. /\ c.at \in Filing /\ \E s : digest' = [digest EXCEPT ![c.eng] = s]
        /\ UNCHANGED <<files, root, seat, counter>>
    BY <1>10 DEF OpenDigest, WriteDigest, At, Filing
  <2>2. seat[c.eng] # "running" /\ Registered(c.eng)
    BY <1>1, <2>1 DEF HandOK
  <2>3. \A e \in Engagement : digest[e] # "none" => digest'[e] # "none"
    BY CallsGrow DEF Grows
  <2>. QED BY <1>1, <2>1, <2>2, <2>3 DEF SeatOK, Has, Registered
<1>11. CASE Mark(t)
  <2>1. /\ c.at = "mark" /\ files' = [files EXCEPT ![c.eng] = files[c.eng] \cup {"marker"}]
        /\ UNCHANGED <<digest, root, seat, counter>>
    BY <1>11 DEF Mark, At
  <2>2. c.eng \in Engagement /\ digest[c.eng] # "none"
    BY <1>1, <2>1, InHand DEF HandOK
  <2>3. Registered(c.eng) /\ Has(c.eng, "dir")
    BY <1>1, <2>2, InHand DEF SeatOK
  <2>. QED BY <1>1, <2>1, <2>2, <2>3 DEF SeatOK, Has, Registered
<1>. QED BY <1>2, <1>3, <1>4, <1>5, <1>6, <1>7, <1>8, <1>9, <1>10, <1>11, Moves

\* A call's step keeps the calls of two threads apart.
LEMMA CallKeepsApart ==
    ASSUME IInv, NEW t \in Threads, CallStep(t) \/ Ask(t)
    PROVE  Apart'
<1>1. Apart /\ TypeOK /\ SeatOK /\ \A u \in Threads : HandOK(call[u])
  BY DEF IInv
<1>2. \A u \in Threads \ {t} : call'[u] = call[u]
  BY Others
<1>3. ASSUME NEW u \in Threads \ {t}, Starting(u), call'[t].at \in {"spawn", "register"}
      PROVE  call'[t].own # call[u].own
  <2>1. CASE LaunchOpen(t)
    <3>1. call'[t].own = counter + 1 /\ counter \in Int /\ counter + 1 \in Engagement
      <4>1. /\ call' = [call EXCEPT ![t].at = "spawn", ![t].own = counter + 1]
            /\ counter < MaxEngagements
        BY <2>1 DEF LaunchOpen
      <4>2. call \in [Threads -> Call] /\ counter \in 0..MaxEngagements
        BY <1>1 DEF TypeOK
      <4>3. call'[t] = [call[t] EXCEPT !.at = "spawn", !.own = counter + 1]
        BY <4>1, <4>2
      <4>4. call'[t].own = counter + 1
        BY <4>2, <4>3 DEF Call
      <4>. QED BY <4>1, <4>2, <4>4, Bounds DEF Engagement
    <3>2. Has(call[u].own, "dir") /\ call[u].own \in Engagement
      BY <1>1, <1>3, InHand DEF Starting, HandOK
    <3>3. call[u].own <= counter /\ call[u].own \in Int
      BY <1>1, <3>2 DEF SeatOK, Engagement
    <3>. QED BY <3>1, <3>3
  <2>2. CASE Spawn(t) /\ call'[t].own = call[t].own
    <3>1. Starting(t)
      BY <2>2 DEF Spawn, At, Starting
    <3>. QED BY <1>1, <1>3, <2>2, <3>1 DEF Apart
  <2>. QED BY <1>3, <2>1, <2>2, Starts
<1>. QED BY <1>1, <1>2, <1>3 DEF Apart, Starting

\* At the episode's exit one call works, and every registered seat that still runs is
\* on its list.
LEMMA ExitWorks ==
    ASSUME IInv, turn = "close", NEW t \in Threads, CallStep(t)
    PROVE  /\ t = 1 /\ call'[1].verb = "shutdown"
           /\ call'[1].at \in {"sweep", "returned"} \cup Filing
           /\ \A e \in Engagement : Registered(e)' /\ seat'[e] = "running" => e \in call'[1].todo
           /\ call'[1].at = "returned" => call'[1].todo = {}
<1>. USE DEF dirVars, seatVars
<1>1. /\ TypeOK /\ TurnOK /\ SeatOK /\ ShapeOK(call[1]) /\ HandOK(call[1]) /\ 1 \in Threads
      /\ call[1] \in Call /\ call \in [Threads -> Call]
      /\ files \in [Engagement -> SUBSET FileNames]
      /\ seat \in [Engagement -> {"none", "running", "exited"}]
  BY Bounds DEF IInv, TypeOK
<1>2. t = 1
  <2>1. t # 1 => call[t] = Idle
    BY <1>1 DEF TurnOK
  <2>2. call[t].at # "idle"
    BY Starts
  <2>. QED BY <2>1, <2>2 DEF Idle
<1>. DEFINE c == call[1]
<1>3. /\ c.verb = "shutdown" /\ c.at \in {"sweep"} \cup Filing
      /\ \A e \in Engagement : Registered(e) /\ seat[e] = "running" => e \in c.todo
  BY <1>1, <1>2, Starts DEF TurnOK
<1>4. ASSUME NEW e \in Engagement, Registered(e)', seat'[e] = "running"
      PROVE  Registered(e) /\ seat[e] = "running"
  <2>1. OwnsOnly(1) /\ (seat[e] = "running" \/ Spawn(1))
    BY <1>2, <1>4, CallsGrow, Starts
  <2>2. ~Starting(1) /\ ~Spawn(1)
    BY <1>3 DEF Starting, Filing, Spawn, At
  <2>. QED BY <1>4, <2>1, <2>2 DEF OwnsOnly
<1>5. \/ SweepDone(1) \/ \E e \in Engagement : Reap(1, e)
      \/ CollectFiled(1) \/ CollectOpen(1) \/ Record(1) \/ OpenDigest(1) \/ WriteDigest(1)
  <2>1. ~LaunchStep(1) /\ ~TakeStep(1) /\ ~ContinueCheck(1) /\ ~CancelCheck(1) /\ ~Await(1)
    BY <1>3 DEF LaunchStep, LaunchOpen, LaunchRefuse, Spawn, SpawnFails, Register, Feed, Filing,
       TakeStep, Mark, TakeDone, TakeSkip, TakeRead, ContinueCheck, CancelCheck, Await, At
  <2>2. \A e \in Engagement : ~SweepRunning(1, e) /\ ~SweepLate(1, e) /\ ~SweepExited(1, e)
    BY <1>3 DEF SweepRunning, SweepLate, SweepExited, Is, Sweepers
  <2>3. LaunchStep(1) \/ SweepStep(1) \/ FileStep(1) \/ TakeStep(1) \/ ContinueCheck(1)
        \/ CancelCheck(1)
    BY <1>2, Zenon DEF CallStep
  <2>. QED BY <2>1, <2>2, <2>3, Zenon DEF SweepStep, FileStep
<1>. DEFINE d == call'[1]
            G == /\ d.verb = "shutdown" /\ d.at \in {"sweep", "returned"} \cup Filing
                 /\ \A e \in Engagement : Registered(e)' /\ seat'[e] = "running" => e \in d.todo
                 /\ d.at = "returned" => d.todo = {}
<1>6. ASSUME SweepDone(1) PROVE G
  <2>1. c.todo = {} /\ d = [c EXCEPT !.at = "returned"]
    BY <1>1, <1>3, <1>6 DEF SweepDone, Is, Go
  <2>2. d.verb = c.verb /\ d.at = "returned" /\ d.todo = c.todo
    BY <1>1, <2>1 DEF Call
  <2>. QED BY <1>3, <1>4, <2>1, <2>2
<1>7. ASSUME NEW e \in Engagement, Reap(1, e) PROVE G
  <2>1. /\ seat' = Killed({e}) /\ UNCHANGED files
        /\ \E h : d = [c EXCEPT !.at = "collect", !.eng = e, !.todo = @ \ {e}, !.hint = h]
    BY <1>1, <1>7 DEF Reap, Visit
  <2>2. d.verb = c.verb /\ d.at = "collect" /\ d.todo = c.todo \ {e}
    BY <1>1, <2>1 DEF Call
  <2>3. Registered(e) => seat'[e] # "running"
    BY <2>1, Stopped
  <2>4. Registered(e)' => Registered(e)
    BY <2>1 DEF Registered, Has
  <2>. QED BY <1>3, <1>4, <2>2, <2>3, <2>4 DEF Filing
<1>8. ASSUME CollectOpen(1) \/ Record(1) \/ OpenDigest(1) PROVE G
  <2>1. \E a \in {"record", "open", "write"} : d = [c EXCEPT !.at = a]
    BY <1>1, <1>8 DEF CollectOpen, Record, OpenDigest, Go
  <2>2. d.verb = c.verb /\ d.at \in {"record", "open", "write"} /\ d.todo = c.todo
    BY <1>1, <2>1 DEF Call
  <2>. QED BY <1>3, <1>4, <2>2 DEF Filing
<1>9. ASSUME CollectFiled(1) \/ WriteDigest(1) PROVE G
  <2>1. c.at \in Filing /\ d = Collected(1)
    BY <1>1, <1>9 DEF CollectFiled, WriteDigest, At, Filing
  <2>2. d = [c EXCEPT !.at = "sweep", !.hand = @ \cup {c.eng}]
    BY <1>1, <1>3, <2>1, CollectedIs DEF Sweepers, Reapers
  <2>3. d.verb = c.verb /\ d.at = "sweep" /\ d.todo = c.todo
    BY <1>1, <2>2 DEF Call
  <2>. QED BY <1>3, <1>4, <2>3
<1>10. G
  BY <1>5, <1>6, <1>7, <1>8, <1>9
<1>. QED BY <1>2, <1>10

\* A call's step keeps the turn it is made in.
LEMMA CallKeepsTurn ==
    ASSUME IInv, NEW t \in Threads, CallStep(t) \/ Ask(t)
    PROVE  TurnOK'
<1>1. /\ TypeOK /\ TurnOK /\ SeatOK /\ Still /\ Grows
      /\ \A u \in Threads \ {t} : call'[u] = call[u]
      /\ seat \in [Engagement -> {"none", "running", "exited"}]
  BY CallsAreStill, CallsGrow, Others DEF IInv, TypeOK
<1>2. turn' = turn /\ stops' = stops
  BY <1>1 DEF Still
<1>3. turn \notin {"ended", "down"}
  <2>1. turn \in {"ended", "down"} => call[t] = Idle
    BY <1>1 DEF TurnOK, Resting
  <2>2. call[t] = Idle => ~CallStep(t)
    BY Starts DEF Idle
  <2>3. Ask(t) => turn = "choose"
    BY DEF Ask
  <2>. QED BY <2>1, <2>2, <2>3
<1>4. turn = "close" =>
          /\ call'[1].verb = "shutdown" /\ call'[1].at \in {"sweep", "returned"} \cup Filing
          /\ \A u \in Threads \ {1} : call'[u] = Idle
          /\ \A e \in Engagement : Registered(e)' /\ seat'[e] = "running" => e \in call'[1].todo
          /\ call'[1].at = "returned" => call'[1].todo = {}
  <2>1. SUFFICES ASSUME turn = "close"
                 PROVE  /\ call'[1].verb = "shutdown"
                        /\ call'[1].at \in {"sweep", "returned"} \cup Filing
                        /\ \A u \in Threads \ {1} : call'[u] = Idle
                        /\ \A e \in Engagement :
                              Registered(e)' /\ seat'[e] = "running" => e \in call'[1].todo
                        /\ call'[1].at = "returned" => call'[1].todo = {}
    OBVIOUS
  <2>2. CallStep(t)
    BY <2>1 DEF Ask
  <2>3. t = 1
    BY <2>1, <2>2, ExitWorks
  <2>4. \A u \in Threads \ {1} : call'[u] = Idle
    BY <1>1, <2>1, <2>3 DEF TurnOK
  <2>. QED BY <2>1, <2>2, <2>4, ExitWorks
<1>5. \A u \in Threads : call'[u].verb \in Reapers => turn \in {"close", "unwind", "recover"}
  BY <1>1, Starts DEF TurnOK
<1>6. turn \in {"unwind", "recover", "down"} => stops > 0
  BY <1>1 DEF TurnOK
<1>7. ASSUME NEW e \in Engagement, seat'[e] = "running", ~Registered(e)', ~(stops > 0)
      PROVE  \E u \in Threads : call'[u].at = "register" /\ call'[u].own = e
  <2>1. ~Registered(e)
    BY <1>1, <1>7 DEF Grows, Registered
  <2>2. CASE seat[e] = "running"
    <3>1. PICK u \in Threads : call[u].at = "register" /\ call[u].own = e
      BY <1>1, <1>7, <2>1, <2>2 DEF TurnOK
    <3>2. u # t
      <4>1. u = t => Register(t)
        BY <3>1, Starts
      <4>2. u = t => Has(e, "manifest")'
        BY <1>1, <3>1, <4>1 DEF Register, Has, TypeOK
      <4>. QED BY <1>7, <4>2 DEF Registered
    <3>. QED BY <1>1, <3>1, <3>2
  <2>3. CASE seat[e] # "running"
    <3>1. Spawn(t) /\ e = call[t].own
      BY <1>7, <2>3, Starts
    <3>2. call'[t] = [call[t] EXCEPT !.at = "register"] /\ call[t] \in Call
      BY <1>1, <3>1 DEF Spawn, Go, TypeOK
    <3>3. call'[t].at = "register" /\ call'[t].own = e
      BY <3>1, <3>2 DEF Call
    <3>. QED BY <3>3
  <2>. QED BY <2>2, <2>3
<1>8. NothingLeftRunning'
  BY <1>2, <1>3 DEF NothingLeftRunning
<1>. QED BY <1>2, <1>3, <1>4, <1>5, <1>6, <1>7, <1>8 DEF TurnOK

\* A call's step keeps the invariant.
LEMMA CallKeepsAll ==
    ASSUME IInv, NEW t \in Threads, CallStep(t) \/ Ask(t)
    PROVE  IInv'
<1>1. TypeOK'
  <2>1. [Next]_vars
    BY DEF Next, Scientist
  <2>. QED BY <2>1, TypeStep
<1>2. \A u \in Threads : ShapeOK(call[u])' /\ HandOK(call[u])'
  BY Own, Others
<1>. QED BY <1>1, <1>2, CallKeepsSeats, CallKeepsApart, CallKeepsTurn DEF IInv
--------------------------------------------------------------------------------
(* The loop, the stops, the seats and the clock.                           *)

\* A call that is idle, or has just been given the list of the open engagements.
LEMMA ShapeOfIdle ==
    ASSUME NEW u \in Threads, call'[u] = Idle
    PROVE  /\ ShapeOK(call[u])' /\ HandOK(call[u])'
           /\ call'[u].at = "idle" /\ call'[u].verb = "none"
BY DEF ShapeOK, HandOK, Idle, Filing

\* A call that starts on a sweep is of its shape and holds nothing.
LEMMA ShapeOfVisit ==
    ASSUME NEW v \in (Sweepers \cup Reapers) \ {"launch"}, NEW u \in Threads, UNCHANGED files,
           call'[u] = [Idle EXCEPT !.verb = v, !.at = "sweep", !.todo = Unfinalized]
    PROVE  /\ ShapeOK(call[u])' /\ HandOK(call[u])'
           /\ call'[u].at = "sweep" /\ call'[u].verb = v /\ call'[u].todo = Unfinalized
<1>1. call'[u].verb = v /\ call'[u].at = "sweep" /\ call'[u].todo = Unfinalized
  BY DEF Idle
<1>2. \A e \in Unfinalized : Registered(e)'
  BY DEF Unfinalized, Registered, Has
<1>. QED BY <1>1, <1>2 DEF ShapeOK, HandOK, Filing

\* A step of the loop or a stop leaves each call idle or, the first, with a fresh list;
\* nothing else of a call matters.
Fresh(v) == \A u \in Threads :
               \/ call'[u] = Idle
               \/ /\ u = 1
                  /\ call'[u] = [Idle EXCEPT !.verb = v, !.at = "sweep", !.todo = Unfinalized]

\* Sweeps started together, with nothing else changed, keep what is said of seats and calls.
LEMMA FreshCalls ==
    ASSUME IInv, UNCHANGED <<files, digest, role, root, seat>>,
           NEW v \in (Sweepers \cup Reapers) \ {"launch"}, Fresh(v),
           \A e \in Engagement : Has(e, "dir") => e <= counter'
    PROVE  /\ SeatOK' /\ Apart' /\ \A u \in Threads : ShapeOK(call[u])' /\ HandOK(call[u])'
           /\ \A u \in Threads : call'[u].verb \in {"none", v} /\ call'[u].at \in {"idle", "sweep"}
<1>1. \A u \in Threads : /\ ShapeOK(call[u])' /\ HandOK(call[u])'
                         /\ call'[u].verb \in {"none", v} /\ call'[u].at \in {"idle", "sweep"}
  BY ShapeOfIdle, ShapeOfVisit DEF Fresh
<1>2. SeatOK'
  BY DEF IInv, SeatOK, Has, Registered
<1>3. Apart'
  BY <1>1 DEF Apart, Starting
<1>. QED BY <1>1, <1>2, <1>3

\* When no call works, a seat that runs without a manifest takes a stop.
LEMMA SettledSeats ==
    ASSUME IInv, Settled \/ Resting
    PROVE  \A e \in Engagement : seat[e] = "running" /\ ~Registered(e) => stops > 0
<1>1. \A t \in Threads : call[t].at # "register"
  BY DEF Settled, Resting, Idle
<1>. QED BY <1>1 DEF IInv, TurnOK

\* A step of the agent's loop, a crash and a restart keep the invariant.
LEMMA LoopKeepsAll ==
    ASSUME IInv, \/ TurnTop \/ Conclude \/ Resume \/ TurnOver \/ Crash
                 \/ \E t \in Threads : Interrupt(t)
    PROVE  IInv'
<1>. USE DEF dirVars, seatVars
<1>1. /\ TypeOK /\ TurnOK /\ SeatOK /\ 1 \in Threads /\ counter \in Int /\ stops \in Nat
      /\ seat \in [Engagement -> {"none", "running", "exited"}]
      /\ \A e \in Engagement : Has(e, "dir") => e <= counter
  BY Bounds DEF IInv, TypeOK, SeatOK
<1>2. TypeOK'
  <2>1. [Next]_vars
    BY Zenon DEF Next, Scientist, Stopping, LoopStep
  <2>. QED BY <2>1, TypeStep
<1>3. UNCHANGED <<files, digest, role, root, seat>>
  BY DEF TurnTop, Conclude, Resume, TurnOver, Crash, Interrupt
<1>4. \A e \in Engagement : Registered(e)' <=> Registered(e)
  BY <1>3 DEF Registered, Has
<1>v. {"poll", "shutdown", "reconcile"} \subseteq (Sweepers \cup Reapers) \ {"launch"}
  BY DEF Sweepers, Reapers
<1>w. ASSUME NEW v \in {"poll", "shutdown", "reconcile"}, call' = Visiting(1, v), Resting
      PROVE  /\ Fresh(v) /\ \A u \in Threads \ {1} : call'[u] = Idle
             /\ call'[1].verb = v /\ call'[1].at = "sweep" /\ call'[1].todo = Unfinalized
  <2>1. v \in Verbs
    BY DEF Verbs
  <2>2. /\ Fresh(v) /\ \A u \in Threads \ {1} : call'[u] = Idle
        /\ call'[1] = [Idle EXCEPT !.verb = v, !.at = "sweep", !.todo = Unfinalized]
    BY <1>1, <1>w, <2>1, VisitingType DEF Resting, Fresh
  <2>. QED BY <1>1, <1>3, <1>v, <2>2, ShapeOfVisit
<1>5. CASE TurnTop
  <2>1. Fresh("poll") /\ turn' = "poll" /\ stops' = stops /\ counter' = counter /\ Resting
    BY <1>5, <1>w DEF TurnTop
  <2>2. /\ SeatOK' /\ Apart' /\ \A u \in Threads : ShapeOK(call[u])' /\ HandOK(call[u])'
        /\ \A u \in Threads : call'[u].verb \in {"none", "poll"}
    BY <1>1, <1>3, <1>v, <2>1, FreshCalls
  <2>3. TurnOK'
    BY <1>3, <1>4, <2>1, <2>2, SettledSeats DEF TurnOK, NothingLeftRunning, Reapers
  <2>. QED BY <1>2, <2>2, <2>3 DEF IInv
<1>6. CASE Conclude
  <2>1. /\ call' = Visiting(1, "shutdown") /\ turn' = "close" /\ stops' = stops
        /\ counter' = counter /\ Resting
    BY <1>1, <1>6 DEF Conclude
  <2>2. /\ Fresh("shutdown") /\ \A u \in Threads \ {1} : call'[u] = Idle
        /\ call'[1].verb = "shutdown" /\ call'[1].at = "sweep" /\ call'[1].todo = Unfinalized
    BY <1>w, <2>1
  <2>3. SeatOK' /\ Apart' /\ \A u \in Threads : ShapeOK(call[u])' /\ HandOK(call[u])'
    BY <1>1, <1>3, <1>v, <2>1, <2>2, FreshCalls
  <2>4. \A e \in Engagement : Registered(e)' /\ seat'[e] = "running" => e \in call'[1].todo
    BY <1>1, <1>3, <1>4, <2>2 DEF SeatOK, Unfinalized
  <2>5. TurnOK'
    BY <1>3, <1>4, <2>1, <2>2, <2>4, SettledSeats DEF TurnOK, NothingLeftRunning
  <2>. QED BY <1>2, <2>3, <2>5 DEF IInv
<1>7. CASE Resume
  <2>1. /\ call' = Visiting(1, "reconcile") /\ turn' = "recover" /\ stops' = stops /\ Resting
        /\ stops > 0 /\ \A e \in Engagement : Has(e, "dir") => e <= counter'
    BY <1>1, <1>7 DEF Resume, TurnOK, Highest, Made
  <2>2. Fresh("reconcile")
    BY <1>w, <2>1
  <2>3. SeatOK' /\ Apart' /\ \A u \in Threads : ShapeOK(call[u])' /\ HandOK(call[u])'
    BY <1>3, <1>v, <2>1, <2>2, FreshCalls
  <2>4. TurnOK'
    BY <2>1 DEF TurnOK, NothingLeftRunning
  <2>. QED BY <1>2, <2>3, <2>4 DEF IInv
<1>8. CASE TurnOver \/ Crash \/ \E t \in Threads : Interrupt(t)
  <2>1. Fresh("shutdown") /\ counter' = counter
    <3>1. CASE \E t \in Threads : Interrupt(t)
      <4>1. "shutdown" \in Verbs
        BY DEF Verbs
      <4>2. Visiting(1, "shutdown")[1] =
                [Idle EXCEPT !.verb = "shutdown", !.at = "sweep", !.todo = Unfinalized]
        BY <1>1, <4>1, VisitingType
      <4>. QED BY <3>1, <4>2 DEF Interrupt, Fresh
    <3>2. CASE TurnOver \/ Crash
      BY <3>2 DEF TurnOver, Crash, Fresh
    <3>. QED BY <1>8, <3>1, <3>2
  <2>2. /\ SeatOK' /\ Apart' /\ \A u \in Threads : ShapeOK(call[u])' /\ HandOK(call[u])'
        /\ \A u \in Threads : call'[u].verb \in {"none", "shutdown"}
    BY <1>1, <1>3, <1>v, <2>1, FreshCalls
  <2>3. CASE TurnOver
    <3>1. /\ turn \in {"poll", "act", "close", "unwind", "recover"} /\ Settled
          /\ \A u \in Threads : call'[u] = Idle
          /\ stops' = stops
      BY <2>3 DEF TurnOver
    <3>2. turn' \in {"choose", "top", "ended", "down"} /\ (turn' = "down" => turn = "unwind")
          /\ (turn' = "ended" => turn = "close")
      BY <2>3, <3>1 DEF TurnOver
    <3>3. \A e \in Engagement : seat[e] = "running" /\ ~Registered(e) => stops > 0
      BY <3>1, SettledSeats
    <3>4. NothingLeftRunning'
      <4>1. turn = "close" => \A e \in Engagement : ~(Registered(e) /\ seat[e] = "running")
        <5>1. turn = "close" => call[1].at = "returned"
          BY <1>1, <3>1 DEF TurnOK, Settled, Filing
        <5>. QED BY <1>1, <5>1 DEF TurnOK
      <4>. QED BY <1>3, <1>4, <3>1, <3>2, <3>3, <4>1 DEF NothingLeftRunning
    <3>5. \A u \in Threads : call'[u].verb \notin Reapers
      BY <3>1 DEF Idle, Reapers
    <3>6. turn' = "down" => stops > 0
      BY <1>1, <3>2 DEF TurnOK
    <3>7. Resting'
      BY <3>1 DEF Resting
    <3>8. TurnOK'
      BY <1>3, <1>4, <3>1, <3>2, <3>3, <3>4, <3>5, <3>6, <3>7 DEF TurnOK
    <3>. QED BY <1>2, <2>2, <3>8 DEF IInv
  <2>4. CASE Crash \/ \E t \in Threads : Interrupt(t)
    <3>1. turn' \in {"down", "unwind"} /\ stops' = stops + 1
      BY <2>4 DEF Crash, Interrupt
    <3>2. turn' = "down" => Resting'
      BY <2>4 DEF Crash, Interrupt, Resting
    <3>3. turn' = "down" => \A u \in Threads : call'[u].verb \notin Reapers
      BY <3>2 DEF Resting, Idle, Reapers
    <3>4. stops' > 0
      BY <1>1, <3>1
    <3>5. TurnOK'
      BY <3>1, <3>2, <3>3, <3>4 DEF TurnOK, NothingLeftRunning
    <3>. QED BY <1>2, <2>2, <3>5 DEF IInv
  <2>. QED BY <1>8, <2>3, <2>4
<1>. QED BY <1>5, <1>6, <1>7, <1>8

\* The steps that leave every call where it is.
LEMMA RestKeepsAll ==
    ASSUME IInv, \/ RunActions \/ Rest \/ UNCHANGED vars
                 \/ \E e \in Engagement : SeatExits(e) \/ BoxPasses(e) \/ WorldAges(e)
                 \/ \E t \in Threads, e \in Engagement : Emit(t, e)
    PROVE  IInv'
<1>. USE DEF dirVars, seatVars
<1>1. /\ TypeOK /\ TurnOK /\ SeatOK /\ Apart
      /\ seat \in [Engagement -> {"none", "running", "exited"}]
      /\ \A u \in Threads : ShapeOK(call[u]) /\ HandOK(call[u])
      /\ call \in [Threads -> Call]
  BY DEF IInv, TypeOK
<1>2. TypeOK'
  <2>1. [Next]_vars
    BY Zenon DEF Next, Scientist, LoopStep
  <2>. QED BY <2>1, TypeStep
<1>3. /\ UNCHANGED <<files, digest, role, root, counter, stops>>
      /\ \A e \in Engagement : \/ seat'[e] = seat[e]
                               \/ seat[e] = "running" /\ seat'[e] = "exited"
      /\ turn' = turn \/ (turn = "choose" /\ turn' = "act")
  BY <1>1 DEF RunActions, Rest, vars, SeatExits, BoxPasses, WorldAges, Emit
<1>4. \A u \in Threads :
          \/ call'[u] = call[u]
          \/ /\ call[u].at = "returned" /\ call'[u].at = "returned"
             /\ call'[u].verb = call[u].verb /\ call'[u].todo = call[u].todo
  <2>1. ASSUME NEW t \in Threads, NEW e \in Engagement, Emit(t, e), NEW u \in Threads
        PROVE  \/ call'[u] = call[u]
               \/ /\ call[u].at = "returned" /\ call'[u].at = "returned"
                  /\ call'[u].verb = call[u].verb /\ call'[u].todo = call[u].todo
    <3>1. /\ call' = [call EXCEPT ![t] = [call[t] EXCEPT !.hand = @ \ {e}]]
          /\ e \in call[t].hand /\ call[t].at \in {"idle", "returned"}
      BY <1>1, <2>1 DEF Emit, Settled
    <3>2. call[t].at = "returned"
      <4>1. call[t].at = "idle" => call[t] = Idle
        BY <1>1 DEF ShapeOK
      <4>2. Idle.hand = {}
        BY DEF Idle
      <4>. QED BY <3>1, <4>1, <4>2
    <3>3. CASE u = t
      <4>1. call'[u] = [call[t] EXCEPT !.hand = @ \ {e}]
        BY <1>1, <3>1, <3>3
      <4>. QED BY <1>1, <3>2, <3>3, <4>1 DEF Call
    <3>4. CASE u # t
      BY <1>1, <3>1, <3>4
    <3>. QED BY <3>3, <3>4
  <2>2. CASE \/ RunActions \/ Rest \/ UNCHANGED vars
             \/ \E e \in Engagement : SeatExits(e) \/ BoxPasses(e) \/ WorldAges(e)
    BY <2>2 DEF RunActions, Rest, vars, SeatExits, BoxPasses, WorldAges
  <2>. QED BY <2>1, <2>2
<1>5. SeatOK'
  BY <1>1, <1>3 DEF SeatOK, Has, Registered
<1>6. Apart'
  BY <1>1, <1>4 DEF Apart, Starting
<1>7. ASSUME NEW u \in Threads PROVE ShapeOK(call[u])' /\ HandOK(call[u])'
  <2>1. CASE call'[u] = call[u]
    <3>1. ShapeOK(call[u])'
      BY <1>1, <1>3, <2>1 DEF ShapeOK
    <3>2. call[u].at \in Filing => seat'[call[u].eng] # "running"
      BY <1>1, <1>3, InHand DEF HandOK
    <3>3. HandOK(call[u])'
      BY <1>1, <1>3, <2>1, <3>2 DEF HandOK, Has, Registered
    <3>. QED BY <3>1, <3>3
  <2>2. CASE call'[u].at = "returned"
    BY <2>2 DEF ShapeOK, HandOK, Filing
  <2>. QED BY <1>4, <2>1, <2>2
<1>8. TurnOK'
  <2>1. \A u \in Threads : call[u] = Idle => call'[u] = Idle
    BY <1>4 DEF Idle
  <2>2. turn' \in {"ended", "down"} => Resting'
    BY <1>1, <1>3, <2>1 DEF TurnOK, Resting
  <2>3. turn' = "close" =>
          /\ call'[1].verb = "shutdown" /\ call'[1].at \in {"sweep", "returned"} \cup Filing
          /\ \A u \in Threads \ {1} : call'[u] = Idle
          /\ \A e \in Engagement : Registered(e)' /\ seat'[e] = "running" => e \in call'[1].todo
          /\ call'[1].at = "returned" => call'[1].todo = {}
    <3>1. \A e \in Engagement : /\ Registered(e)' <=> Registered(e)
                                /\ seat'[e] = "running" => seat[e] = "running"
      BY <1>3 DEF Registered, Has
    <3>2. turn' = "close" => turn = "close"
      BY <1>3
    <3>3. /\ call'[1].verb = call[1].verb /\ call'[1].at = call[1].at
          /\ call'[1].todo = call[1].todo
      BY <1>4, Bounds
    <3>. QED BY <1>1, <2>1, <3>1, <3>2, <3>3 DEF TurnOK
  <2>4. \A u \in Threads : call'[u].verb \in Reapers => turn' \in {"close", "unwind", "recover"}
    BY <1>1, <1>3, <1>4 DEF TurnOK
  <2>5. turn' \in {"unwind", "recover", "down"} => stops' > 0
    BY <1>1, <1>3 DEF TurnOK
  <2>6. \A e \in Engagement : seat'[e] = "running" /\ ~Registered(e)' =>
            (stops' > 0 \/ \E t \in Threads : call'[t].at = "register" /\ call'[t].own = e)
    <3>1. \A e \in Engagement : /\ Registered(e)' <=> Registered(e)
                                /\ seat'[e] = "running" => seat[e] = "running"
      BY <1>3 DEF Registered, Has
    <3>2. \A t \in Threads : call[t].at = "register" => call'[t] = call[t]
      BY <1>4
    <3>. QED BY <1>1, <1>3, <3>1, <3>2 DEF TurnOK
  <2>7. NothingLeftRunning'
    BY <1>1, <1>3 DEF TurnOK, NothingLeftRunning, Registered, Has
  <2>. QED BY <2>2, <2>3, <2>4, <2>5, <2>6, <2>7 DEF TurnOK
<1>. QED BY <1>2, <1>5, <1>6, <1>7, <1>8 DEF IInv

\* Every step keeps the invariant.
LEMMA StepInv == IInv /\ [Next]_vars => IInv'
<1>. SUFFICES ASSUME IInv, [Next]_vars PROVE IInv'
  OBVIOUS
<1>1. \A t \in Threads : CallStep(t) \/ Ask(t) => IInv'
  BY CallKeepsAll
<1>. QED BY <1>1, LoopKeepsAll, RestKeepsAll, Zenon DEF Next, Scientist, LoopStep, Stopping

\* The directories, the processes and what every call has in hand stay in order in every
\* behaviour (agent.py, assistant_tools.py).
THEOREM Invariant == Spec => []IInv
<1>. QED BY InitInv, StepInv, PTL DEF Spec
--------------------------------------------------------------------------------
(* One call a turn: the steps of the call.                                 *)

\* With one call a turn only the first thread works.
LEMMA OneThread ==
    ASSUME IInv, scale.calls = 1, Single, NEW t \in Threads, CallStep(t) \/ Ask(t)
    PROVE  t = 1
<1>1. CASE CallStep(t)
  <2>1. call[t].at # "idle"
    BY <1>1, Starts
  <2>2. t # 1 => call[t] = Idle
    BY DEF Single
  <2>. QED BY <2>1, <2>2 DEF Idle
<1>2. CASE Ask(t)
  BY <1>2, Bounds DEF Ask, Threads
<1>. QED BY <1>1, <1>2

\* The counts do not depend on where the call is, but for the filing of a report.
LEMMA CountKept ==
    ASSUME TypeOK, CountOK, UNCHANGED <<rows, stops, digest, heard, turn>>,
           \A e \in Engagement : Has(e, "marker")' <=> Has(e, "marker"),
           call'[1].hand = call[1].hand, call[1].at \notin {"open", "write"}
    PROVE  CountOK'
<1>1. stops \in Int /\ \A e \in Engagement : rows[e] \in Int /\ heard[e] \in Int
  BY Bounds DEF TypeOK
<1>2. ASSUME NEW e \in Engagement
      PROVE  rows[e] <= stops + (IF Readable(e) THEN 1 ELSE 0)
  BY <1>2 DEF CountOK
<1>3. ASSUME NEW e \in Engagement
      PROVE  rows'[e] <= stops' + (IF \/ Readable(e)'
                                      \/ call'[1].eng = e /\ call'[1].at \in {"open", "write"}
                                   THEN 1 ELSE 0)
  BY <1>1, <1>2 DEF Readable
<1>4. ASSUME NEW e \in Engagement
      PROVE  /\ digest'[e] = "none" => /\ heard'[e] = 0 /\ e \notin call'[1].hand
                                       /\ ~Has(e, "marker")'
             /\ heard'[e] + (IF e \in call'[1].hand THEN 1 ELSE 0)
                  <= IF stops' > 0 THEN IF Has(e, "marker")' THEN 2 ELSE 1
                     ELSE IF Has(e, "marker")' \/ turn' \in {"close", "ended"} THEN 1 ELSE 0
  BY <1>4 DEF CountOK
<1>. QED BY <1>3, <1>4, Zenon DEF CountOK

\* Nothing that is listed, and no session that is resumed, changes in the steps that
\* neither register an engagement nor start to resume one.
LEMMA SessionKept ==
    ASSUME IInv, SessionOK(call[1]), CallStep(1) \/ Ask(1), ~Starting(1),
           call'[1].at \notin {"launch", "spawn", "register"}
    PROVE  SessionOK(call[1])'
<1>1. Grows /\ OwnsOnly(1)
  BY CallsGrow, Bounds
<1>2. \A u \in Unfinalized' : u \in Unfinalized /\ root'[u] = root[u]
  BY <1>1, InHand, Bounds DEF Unfinalized, Grows, OwnsOnly
<1>. QED BY <1>2 DEF SessionOK

\* With one call at a time, a launch keeps files, records and sessions in agreement.
LEMMA AloneLaunch ==
    ASSUME IInv, scale.calls = 1, Single, CallStep(1) \/ Ask(1), LaunchStep(1)
    PROVE  /\ ListOK(call[1])' /\ OwnOK(call[1])' /\ CountOK' /\ SessionOK(call[1])'
<1>. DEFINE c == call[1]
            d == call'[1]
            G == /\ ListOK(call[1])' /\ OwnOK(call[1])' /\ CountOK' /\ SessionOK(call[1])'
<1>. USE DEF At, Is, Go, Return, dirVars, seatVars
<1>1. /\ c \in Call /\ ShapeOK(c) /\ HandOK(c) /\ TypeOK /\ SeatOK /\ 1 \in Threads
      /\ ListOK(c) /\ OwnOK(c) /\ CountOK /\ SessionOK(c)
      /\ call \in [Threads -> Call] /\ counter \in Int
      /\ files \in [Engagement -> SUBSET FileNames] /\ root \in [Engagement -> Engagement]
      /\ digest \in [Engagement -> Digests]
  BY Bounds DEF IInv, TypeOK, Single
<1>2. CASE LaunchOpen(1)
  <2>1. /\ counter < MaxEngagements /\ c.at = "launch"
        /\ files' = [files EXCEPT ![counter + 1] = @ \cup {"dir"}]
        /\ d = [c EXCEPT !.at = "spawn", !.own = counter + 1]
        /\ UNCHANGED <<digest, rows, heard, turn, stops>>
    BY <1>1, <1>2 DEF LaunchOpen
  <2>2. d.at = "spawn" /\ d.own = counter + 1 /\ d.verb = c.verb /\ d.hand = c.hand
    BY <1>1, <2>1 DEF Call
  <2>3. counter + 1 \in Engagement
    BY <1>1, <2>1, Bounds DEF Engagement, TypeOK
  <2>4. \A e \in Engagement : Has(e, "marker")' <=> Has(e, "marker")
    BY <1>1, <2>1, <2>3 DEF Has
  <2>5. CountOK'
    BY <1>1, <2>1, <2>2, <2>4, CountKept
  <2>6. ListOK(call[1])' /\ OwnOK(call[1])'
    BY <1>1, <2>1, <2>2 DEF ShapeOK, ListOK, OwnOK, Filing
  <2>7. \A u \in Unfinalized' : u \in Unfinalized /\ root'[u] = root[u] /\ u <= counter
    <3>1. ~Starting(1) /\ Grows /\ OwnsOnly(1)
      BY <2>1, CallsGrow, Bounds DEF Starting
    <3>. QED BY <1>1, <3>1, InHand, Bounds DEF Unfinalized, Grows, OwnsOnly, SeatOK
  <2>8. \A u \in Unfinalized' : root[u] # root'[counter + 1]
    <3>1. CASE c.verb = "continue"
      <4>1. root'[counter + 1] = root[c.eng]
        BY <1>1, <1>2, <2>3, <3>1 DEF LaunchOpen
      <4>2. \A u \in Unfinalized : root[u] # root[c.eng]
        BY <1>1, <2>1, <3>1 DEF SessionOK
      <4>. QED BY <2>7, <4>1, <4>2
    <3>2. CASE c.verb # "continue"
      <4>1. root'[counter + 1] = counter + 1
        BY <1>1, <1>2, <2>3, <3>2 DEF LaunchOpen
      <4>2. \A u \in Unfinalized : root[u] <= u /\ u \in Int /\ root[u] \in Int
        BY <1>1 DEF SeatOK, Unfinalized, Engagement
      <4>. QED BY <1>1, <2>7, <4>1, <4>2
    <3>. QED BY <3>1, <3>2
  <2>9. SessionOK(call[1])'
    BY <1>1, <2>2, <2>7, <2>8 DEF SessionOK
  <2>. QED BY <2>5, <2>6, <2>9
<1>3. CASE LaunchRefuse(1) \/ SpawnFails(1) \/ Feed(1)
  <2>1. /\ \/ d = [c EXCEPT !.at = "returned", !.hand = @ \cup {}]
           \/ d = [c EXCEPT !.at = "returned"]
           \/ d = [c EXCEPT !.at = "await"] /\ c.at = "feed"
        /\ c.at \notin {"open", "write"}
        /\ UNCHANGED <<digest, rows, heard, turn, stops>>
    BY <1>1, <1>3 DEF LaunchRefuse, SpawnFails, Feed
  <2>2. /\ d.verb = c.verb /\ d.hand = c.hand /\ d.own = c.own
        /\ d.at = "returned" \/ (d.at = "await" /\ c.at = "feed")
    <3>1. CASE d = [c EXCEPT !.at = "returned", !.hand = @ \cup {}]
      BY <1>1, <3>1 DEF Call
    <3>2. CASE d = [c EXCEPT !.at = "returned"]
      BY <1>1, <3>2 DEF Call
    <3>3. CASE d = [c EXCEPT !.at = "await"] /\ c.at = "feed"
      BY <1>1, <3>3 DEF Call
    <3>. QED BY <2>1, <3>1, <3>2, <3>3
  <2>3. \A e \in Engagement : Has(e, "marker")' <=> Has(e, "marker")
    BY <1>1, <1>3 DEF Has, LaunchRefuse, SpawnFails, Feed
  <2>4. CountOK'
    BY <1>1, <2>1, <2>2, <2>3, CountKept
  <2>5. ListOK(call[1])'
    BY <1>1, <2>2 DEF ListOK, Filing
  <2>6. OwnOK(call[1])'
    <3>1. d.at = "await" /\ c.verb = "launch" =>
             c.own \in Engagement /\ digest[c.own] = "none" /\ ~Has(c.own, "marker")
      BY <1>1, <2>2, InHand DEF OwnOK, CountOK
    <3>. QED BY <2>1, <2>2, <2>3, <3>1 DEF OwnOK, Filing
  <2>7. SessionOK(call[1])'
    <3>1. \A u \in Unfinalized' : u \in Unfinalized /\ root'[u] = root[u]
      BY <1>1, <1>3 DEF Unfinalized, Registered, Has, LaunchRefuse, SpawnFails, Feed
    <3>. QED BY <1>1, <2>2, <3>1 DEF SessionOK
  <2>. QED BY <2>4, <2>5, <2>6, <2>7
<1>4. CASE Spawn(1)
  <2>1. /\ c.at = "spawn" /\ d = [c EXCEPT !.at = "register"]
        /\ UNCHANGED <<files, root, digest, rows, heard, turn, stops>>
    BY <1>1, <1>4 DEF Spawn
  <2>2. d.at = "register" /\ d.own = c.own /\ d.verb = c.verb /\ d.hand = c.hand
    BY <1>1, <2>1 DEF Call
  <2>3. CountOK'
    BY <1>1, <2>1, <2>2, CountKept DEF Has
  <2>4. ListOK(call[1])' /\ OwnOK(call[1])'
    BY <1>1, <2>1, <2>2 DEF ShapeOK, ListOK, OwnOK, Filing
  <2>5. SessionOK(call[1])'
    <3>1. Unfinalized' = Unfinalized
      BY <2>1 DEF Unfinalized, Registered, Has
    <3>. QED BY <1>1, <2>1, <2>2, <3>1 DEF SessionOK
  <2>. QED BY <2>3, <2>4, <2>5
<1>5. CASE Register(1)
  <2>1. /\ c.at = "register" /\ d = [c EXCEPT !.at = "feed"]
        /\ files' = [files EXCEPT ![c.own] = @ \cup {"pid", "manifest"}]
        /\ UNCHANGED <<root, digest, rows, heard, turn, stops>>
    BY <1>1, <1>5 DEF Register
  <2>2. d.at = "feed" /\ d.own = c.own /\ d.verb = c.verb /\ d.hand = c.hand
    BY <1>1, <2>1 DEF Call
  <2>3. \A e \in Engagement : Has(e, "marker")' <=> Has(e, "marker")
    BY <1>1, <2>1 DEF Has
  <2>4. CountOK'
    BY <1>1, <2>1, <2>2, <2>3, CountKept
  <2>5. ListOK(call[1])'
    BY <1>1, <2>1, <2>2 DEF ListOK, Filing
  <2>6. OwnOK(call[1])'
    <3>1. digest[c.own] = "none"
      BY <1>1, <2>1, InHand, Bounds DEF SeatOK, HandOK
    <3>. QED BY <2>1, <2>2, <3>1 DEF OwnOK, Filing
  <2>7. SessionOK(call[1])'
    <3>1. \A u \in Unfinalized' : u \in Unfinalized \/ u = c.own
      BY <1>1, <2>1 DEF Unfinalized, Registered, Has
    <3>2. \A u \in Unfinalized : root[u] # root[c.own]
      BY <1>1, <2>1 DEF SessionOK
    <3>. QED BY <1>1, <2>1, <2>2, <3>1, <3>2 DEF SessionOK
  <2>. QED BY <2>4, <2>5, <2>6, <2>7
<1>. QED BY <1>2, <1>3, <1>4, <1>5 DEF LaunchStep

\* With one call at a time, a sweep keeps files, records and sessions in agreement.
LEMMA AloneSweep ==
    ASSUME IInv, scale.calls = 1, Single, CallStep(1) \/ Ask(1), SweepStep(1)
    PROVE  /\ ListOK(call[1])' /\ OwnOK(call[1])' /\ CountOK' /\ SessionOK(call[1])'
<1>. DEFINE c == call[1]
            d == call'[1]
            G == /\ ListOK(call[1])' /\ OwnOK(call[1])' /\ CountOK' /\ SessionOK(call[1])'
<1>. USE DEF At, Is, Go, Return, Visit, dirVars, seatVars
<1>1. /\ c \in Call /\ ShapeOK(c) /\ HandOK(c) /\ TypeOK /\ SeatOK /\ 1 \in Threads
      /\ ListOK(c) /\ OwnOK(c) /\ CountOK /\ SessionOK(c)
      /\ call \in [Threads -> Call] /\ digest \in [Engagement -> Digests]
  BY Bounds DEF IInv, TypeOK, Single
<1>2. /\ c.at \in {"await", "sweep"} /\ UNCHANGED <<files, digest, rows, heard, turn, stops>>
  BY DEF SweepStep, Await, SweepDone, SweepRunning, SweepLate, SweepExited, Reap
<1>3. \A e \in Engagement : Has(e, "marker")' <=> Has(e, "marker")
  BY <1>2 DEF Has
<1>4. ASSUME d.hand = c.hand PROVE CountOK'
  BY <1>1, <1>2, <1>3, <1>4, CountKept
<1>5. ASSUME d.at \notin {"launch", "spawn", "register"} PROVE SessionOK(call[1])'
  BY <1>1, <1>2, <1>5, SessionKept DEF Starting
<1>6. ASSUME Await(1) PROVE G
  <2>1. \/ d = [c EXCEPT !.at = "take", !.todo = {c.own}] /\ digest[c.own] # "none"
        \/ d = [c EXCEPT !.at = "sweep", !.todo = Unfinalized]
    BY <1>1, <1>6 DEF Await
  <2>2. /\ d.verb = c.verb /\ d.own = c.own /\ d.hand = c.hand
        /\ \/ d.at = "take" /\ d.todo = {c.own} /\ digest[c.own] # "none"
           \/ d.at = "sweep" /\ d.todo = Unfinalized
    BY <1>1, <2>1 DEF Call
  <2>3. c.at = "await" /\ c.verb = "launch" /\ c.own \in Engagement
    BY <1>1, <1>6, InHand DEF Await, ShapeOK
  <2>4. digest[c.own] # "torn" /\ ~Has(c.own, "marker")
    BY <1>1, <2>3 DEF OwnOK
  <2>5. ListOK(call[1])'
    BY <1>1, <1>2, <2>2, <2>3 DEF ListOK, Filing, Unfinalized
  <2>6. digest[c.own] # "none" => Readable(c.own)
    BY <1>1, <2>3, <2>4 DEF Readable, Digests
  <2>7. OwnOK(call[1])'
    BY <1>2, <1>3, <2>2, <2>3, <2>4, <2>6 DEF OwnOK, Filing, Readable
  <2>. QED BY <1>4, <1>5, <2>2, <2>5, <2>7
<1>7. ASSUME SweepDone(1) PROVE G
  <2>1. /\ c.at = "sweep"
        /\ \/ c.verb = "launch" /\ d = [c EXCEPT !.at = "await"]
           \/ /\ c.verb \in {"poll", "wait"}
              /\ d = [c EXCEPT !.at = "take", !.todo = Engagement]
           \/ d = [c EXCEPT !.at = "returned"]
           \/ c.verb = "wait" /\ d = [c EXCEPT !.todo = Unfinalized]
    BY <1>1, <1>7 DEF SweepDone
  <2>2. /\ d.verb = c.verb /\ d.own = c.own /\ d.hand = c.hand
        /\ \/ d.at = "await" /\ c.verb = "launch"
           \/ d.at = "take" /\ c.verb \in {"poll", "wait"}
           \/ d.at = "returned"
           \/ d.at = "sweep" /\ d.todo = Unfinalized /\ c.verb = "wait"
    BY <1>1, <2>1 DEF Call
  <2>3. ListOK(call[1])'
    BY <1>1, <1>2, <2>2 DEF ListOK, Filing, Unfinalized
  <2>4. OwnOK(call[1])'
    <3>1. c.verb = "launch" => /\ ~Has(c.own, "marker") /\ digest[c.own] # "torn"
                               /\ c.own \in Engagement
      BY <1>1, <2>1, InHand DEF OwnOK
    <3>2. c.verb = "launch" => d.at \in {"await", "returned"}
      BY <2>2
    <3>. QED BY <1>2, <1>3, <2>2, <3>1, <3>2 DEF OwnOK, Filing
  <2>. QED BY <1>4, <1>5, <2>2, <2>3, <2>4
<1>8. ASSUME NEW e \in Engagement,
             SweepRunning(1, e) \/ SweepLate(1, e) \/ SweepExited(1, e) \/ Reap(1, e)
      PROVE  G
  <2>1. /\ c.at = "sweep" /\ e \in c.todo
        /\ \/ d = [c EXCEPT !.todo = @ \ {e}]
           \/ \E h : d = [c EXCEPT !.at = "collect", !.eng = e, !.todo = @ \ {e}, !.hint = h]
    <3>1. CASE SweepRunning(1, e)
      BY <1>1, <3>1 DEF SweepRunning
    <3>2. CASE SweepLate(1, e)
      BY <1>1, <3>2 DEF SweepLate
    <3>3. CASE SweepExited(1, e)
      BY <1>1, <3>3 DEF SweepExited
    <3>4. CASE Reap(1, e)
      BY <1>1, <3>4 DEF Reap
    <3>. QED BY <1>8, <3>1, <3>2, <3>3, <3>4
  <2>2. /\ d.verb = c.verb /\ d.own = c.own /\ d.hand = c.hand /\ d.todo = c.todo \ {e}
        /\ d.at = "sweep" \/ (d.at = "collect" /\ d.eng = e)
    BY <1>1, <2>1 DEF Call
  <2>3. digest[e] = "none"
    BY <1>1, <2>1 DEF ListOK
  <2>4. heard[e] = 0 /\ e \notin c.hand /\ ~Has(e, "marker")
    BY <1>1, <2>3 DEF CountOK
  <2>5. ListOK(call[1])'
    BY <1>1, <1>2, <1>3, <2>1, <2>2, <2>3, <2>4 DEF ListOK, Filing
  <2>6. OwnOK(call[1])'
    <3>1. c.verb = "launch" => /\ ~Has(c.own, "marker") /\ digest[c.own] # "torn"
                               /\ c.own \in Engagement
      BY <1>1, <2>1, InHand DEF OwnOK
    <3>. QED BY <1>2, <1>3, <2>2, <3>1 DEF OwnOK, Filing
  <2>. QED BY <1>4, <1>5, <2>2, <2>5, <2>6
<1>. HIDE DEF G
<1>9. G
  BY <1>6, <1>7, <1>8 DEF SweepStep
<1>. QED BY <1>9 DEF G

\* With one call at a time, filing a report keeps files, records and sessions in agreement.
LEMMA AloneFile ==
    ASSUME IInv, scale.calls = 1, Single, CallStep(1) \/ Ask(1), FileStep(1)
    PROVE  /\ ListOK(call[1])' /\ OwnOK(call[1])' /\ CountOK' /\ SessionOK(call[1])'
<1>. DEFINE c == call[1]
            d == call'[1]
            G == /\ ListOK(call[1])' /\ OwnOK(call[1])' /\ CountOK' /\ SessionOK(call[1])'
<1>. USE DEF At, Is, Go, Return, dirVars, seatVars
<1>1. /\ c \in Call /\ ShapeOK(c) /\ HandOK(c) /\ TypeOK /\ SeatOK /\ TurnOK /\ 1 \in Threads
      /\ ListOK(c) /\ OwnOK(c) /\ CountOK /\ SessionOK(c)
      /\ call \in [Threads -> Call] /\ digest \in [Engagement -> Digests]
      /\ files \in [Engagement -> SUBSET FileNames]
      /\ rows \in [Engagement -> Nat] /\ heard \in [Engagement -> Nat] /\ stops \in Nat
  BY Bounds DEF IInv, TypeOK, Single
<1>2. c.at \in Filing /\ c.eng \in Engagement
  <2>1. c.at \in Filing
    BY DEF FileStep, CollectFiled, CollectOpen, Record, OpenDigest, WriteDigest, Filing
  <2>. QED BY <1>1, <2>1, InHand
<1>3. /\ heard[c.eng] = 0 /\ c.eng \notin c.hand /\ ~Has(c.eng, "marker")
      /\ \A e \in c.todo : digest[e] = "none" /\ e # c.eng
      /\ c.todo \subseteq Engagement /\ c.verb # "answer"
      /\ c.verb = "launch" => c.own \in Engagement /\ ~Has(c.own, "marker")
  BY <1>1, <1>2, InHand DEF ListOK, OwnOK, Call
<1>4. ~CollectFiled(1)
  BY <1>1 DEF CollectFiled, ListOK, Readable, Statuses, Hints
<1>5. ASSUME d.at \notin {"launch", "spawn", "register"} PROVE SessionOK(call[1])'
  BY <1>1, <1>2, <1>5, SessionKept DEF Starting, Filing
<1>6. ASSUME CollectOpen(1) PROVE G
  <2>1. /\ c.at = "collect" /\ d = [c EXCEPT !.at = "record"]
        /\ files' = [files EXCEPT ![c.eng] = @ \ {"pid"}]
        /\ UNCHANGED <<digest, rows, heard, turn, stops>>
    BY <1>1, <1>6 DEF CollectOpen
  <2>2. /\ d.at = "record" /\ d.verb = c.verb /\ d.own = c.own /\ d.hand = c.hand
        /\ d.todo = c.todo /\ d.eng = c.eng
    BY <1>1, <2>1 DEF Call
  <2>3. \A e \in Engagement : Has(e, "marker")' <=> Has(e, "marker")
    BY <1>1, <2>1 DEF Has
  <2>4. CountOK'
    BY <1>1, <2>1, <2>2, <2>3, CountKept
  <2>5. ListOK(call[1])'
    BY <1>1, <1>2, <1>3, <2>1, <2>2, <2>3 DEF ListOK, Filing
  <2>6. OwnOK(call[1])'
    BY <1>1, <1>2, <1>3, <2>1, <2>2, <2>3 DEF OwnOK, Filing
  <2>. QED BY <1>5, <2>2, <2>4, <2>5, <2>6
<1>7. ASSUME Record(1) PROVE G
  <2>1. /\ c.at = "record" /\ d = [c EXCEPT !.at = "open"]
        /\ rows' = [rows EXCEPT ![c.eng] = @ + 1]
        /\ UNCHANGED <<files, digest, heard, turn, stops>>
    BY <1>1, <1>7 DEF Record
  <2>2. /\ d.at = "open" /\ d.verb = c.verb /\ d.own = c.own /\ d.hand = c.hand
        /\ d.todo = c.todo /\ d.eng = c.eng
    BY <1>1, <2>1 DEF Call
  <2>3. \A e \in Engagement : Has(e, "marker")' <=> Has(e, "marker")
    BY <2>1 DEF Has
  <2>4. digest[c.eng] = "none"
    BY <1>1, <2>1 DEF ListOK
  <2>5. ASSUME NEW e \in Engagement
        PROVE  rows'[e] <= stops' + (IF \/ Readable(e)'
                                        \/ d.eng = e /\ d.at \in {"open", "write"}
                                     THEN 1 ELSE 0)
    <3>1. rows[e] <= stops + (IF Readable(e) THEN 1 ELSE 0)
      BY <1>1, <2>1 DEF CountOK
    <3>2. CASE e = c.eng
      <4>1. rows[e] <= stops
        BY <1>1, <2>4, <3>1, <3>2 DEF Readable, Statuses, Hints
      <4>2. rows'[e] = rows[e] + 1
        BY <1>1, <2>1, <3>2
      <4>. QED BY <1>1, <2>1, <2>2, <3>2, <4>1, <4>2
    <3>3. CASE e # c.eng
      BY <1>1, <2>1, <2>2, <3>1, <3>3 DEF Readable
    <3>. QED BY <3>2, <3>3
  <2>6. CountOK'
    BY <1>1, <2>1, <2>2, <2>3, <2>5 DEF CountOK
  <2>7. ListOK(call[1])'
    BY <1>1, <1>2, <1>3, <2>1, <2>2, <2>3, <2>4 DEF ListOK, Filing
  <2>8. OwnOK(call[1])'
    BY <1>1, <1>2, <1>3, <2>1, <2>2, <2>3 DEF OwnOK, Filing
  <2>. QED BY <1>5, <2>2, <2>6, <2>7, <2>8
<1>8. ASSUME OpenDigest(1) PROVE G
  <2>1. /\ c.at = "open" /\ d = [c EXCEPT !.at = "write"]
        /\ digest' = [digest EXCEPT ![c.eng] = "torn"]
        /\ UNCHANGED <<files, rows, heard, turn, stops>>
    BY <1>1, <1>8 DEF OpenDigest
  <2>2. /\ d.at = "write" /\ d.verb = c.verb /\ d.own = c.own /\ d.hand = c.hand
        /\ d.todo = c.todo /\ d.eng = c.eng
    BY <1>1, <2>1 DEF Call
  <2>3. \A e \in Engagement : Has(e, "marker")' <=> Has(e, "marker")
    BY <2>1 DEF Has
  <2>4. /\ digest'[c.eng] = "torn" /\ digest[c.eng] = "none"
        /\ \A e \in Engagement : e # c.eng => digest'[e] = digest[e]
    BY <1>1, <1>2, <2>1 DEF ListOK
  <2>5. \A e \in Engagement : Readable(e)' <=> Readable(e)
    BY <2>4 DEF Readable, Statuses, Hints
  <2>6. ASSUME NEW e \in Engagement
        PROVE  /\ rows'[e] <= stops' + (IF \/ Readable(e)'
                                           \/ d.eng = e /\ d.at \in {"open", "write"}
                                        THEN 1 ELSE 0)
               /\ digest'[e] = "none" => /\ heard'[e] = 0 /\ e \notin d.hand
                                         /\ ~Has(e, "marker")'
    <3>1. rows[e] <= stops + (IF \/ Readable(e)
                                 \/ c.eng = e /\ c.at \in {"open", "write"}
                              THEN 1 ELSE 0)
      BY <1>1 DEF CountOK
    <3>2. rows'[e] <= stops' + (IF \/ Readable(e)'
                                   \/ d.eng = e /\ d.at \in {"open", "write"}
                                THEN 1 ELSE 0)
      BY <2>1, <2>2, <2>5, <3>1
    <3>3. digest'[e] = "none" => /\ heard'[e] = 0 /\ e \notin d.hand
                                 /\ ~Has(e, "marker")'
      BY <1>1, <2>1, <2>2, <2>3, <2>4 DEF CountOK
    <3>. QED BY <3>2, <3>3
  <2>7. CountOK'
    <3>1. \A e \in Engagement :
              heard'[e] + (IF e \in d.hand THEN 1 ELSE 0)
                <= IF stops' > 0 THEN IF Has(e, "marker")' THEN 2 ELSE 1
                   ELSE IF Has(e, "marker")' \/ turn' \in {"close", "ended"} THEN 1 ELSE 0
      BY <1>1, <2>1, <2>2, <2>3 DEF CountOK
    <3>. QED BY <2>6, <3>1 DEF CountOK
  <2>8. ListOK(call[1])'
    BY <1>1, <1>2, <1>3, <2>1, <2>2, <2>3, <2>4 DEF ListOK, Filing
  <2>9. OwnOK(call[1])'
    BY <1>1, <1>2, <1>3, <2>1, <2>2, <2>3, <2>4 DEF OwnOK, Filing
  <2>. QED BY <1>5, <2>2, <2>7, <2>8, <2>9
<1>9. ASSUME WriteDigest(1) PROVE G
  <2>1. /\ c.at = "write" /\ d = Collected(1)
        /\ \E s \in Statuses : digest' = [digest EXCEPT ![c.eng] = s]
        /\ UNCHANGED <<files, rows, heard, turn, stops>>
    <3>1. c.hint \in Hints \cup {"none"}
      BY <1>1 DEF Call
    <3>. QED BY <1>1, <1>9, <3>1 DEF WriteDigest, Statuses
  <2>2. /\ d.verb = c.verb /\ d.own = c.own
        /\ \/ c.verb \in Sweepers /\ d.at = "sweep" /\ d.hand = c.hand /\ d.todo = c.todo
           \/ /\ c.verb \in Reapers /\ d.at = "sweep" /\ d.hand = c.hand \cup {c.eng}
              /\ d.todo = c.todo
           \/ c.verb = "cancel" /\ d.at = "take" /\ d.hand = c.hand
    <3>1. \/ /\ c.verb \in Sweepers
             /\ d = [c EXCEPT !.at = "sweep"]
          \/ /\ c.verb \in Reapers
             /\ d = [c EXCEPT !.at = "sweep", !.hand = @ \cup {c.eng}]
          \/ /\ c.verb = "cancel"
             /\ d = [c EXCEPT !.at = "take", !.todo = {c.eng}]
      BY <1>1, <1>2, <1>3, <2>1, CollectedIs
    <3>2. CASE c.verb \in Sweepers /\ d = [c EXCEPT !.at = "sweep"]
      BY <1>1, <3>2 DEF Call
    <3>3. CASE /\ c.verb \in Reapers
               /\ d = [c EXCEPT !.at = "sweep", !.hand = @ \cup {c.eng}]
      BY <1>1, <3>3 DEF Call
    <3>4. CASE c.verb = "cancel" /\ d = [c EXCEPT !.at = "take", !.todo = {c.eng}]
      BY <1>1, <3>4 DEF Call
    <3>. QED BY <3>1, <3>2, <3>3, <3>4
  <2>3. \A e \in Engagement : Has(e, "marker")' <=> Has(e, "marker")
    BY <2>1 DEF Has
  <2>4. /\ digest'[c.eng] \in Statuses /\ digest[c.eng] = "torn"
        /\ \A e \in Engagement : e # c.eng => digest'[e] = digest[e]
    BY <1>1, <1>2, <2>1 DEF ListOK
  <2>5. "none" \notin Statuses /\ "torn" \notin Statuses
    BY DEF Statuses, Hints
  <2>6. ASSUME NEW e \in Engagement
        PROVE  rows'[e] <= stops' + (IF \/ Readable(e)'
                                        \/ d.eng = e /\ d.at \in {"open", "write"}
                                     THEN 1 ELSE 0)
    <3>1. rows[e] <= stops + (IF \/ Readable(e)
                                 \/ c.eng = e /\ c.at \in {"open", "write"}
                              THEN 1 ELSE 0)
      BY <1>1 DEF CountOK
    <3>2. CASE e = c.eng
      BY <1>1, <2>1, <2>4, <3>1, <3>2 DEF Readable
    <3>3. CASE e # c.eng
      BY <1>1, <2>1, <2>4, <3>1, <3>3 DEF Readable
    <3>. QED BY <3>2, <3>3
  <2>7. ASSUME NEW e \in Engagement
        PROVE  digest'[e] = "none" => heard'[e] = 0 /\ e \notin d.hand /\ ~Has(e, "marker")'
    BY <1>1, <2>1, <2>2, <2>3, <2>4, <2>5 DEF CountOK
  <2>8. ASSUME NEW e \in Engagement
        PROVE  heard'[e] + (IF e \in d.hand THEN 1 ELSE 0)
                <= IF stops' > 0 THEN IF Has(e, "marker")' THEN 2 ELSE 1
                   ELSE IF Has(e, "marker")' \/ turn' \in {"close", "ended"} THEN 1 ELSE 0
    <3>1. heard[e] + (IF e \in c.hand THEN 1 ELSE 0)
                <= IF stops > 0 THEN IF Has(e, "marker") THEN 2 ELSE 1
                   ELSE IF Has(e, "marker") \/ turn \in {"close", "ended"} THEN 1 ELSE 0
      BY <1>1 DEF CountOK
    <3>2. CASE c.verb \in Reapers /\ e = c.eng
      <4>1. stops > 0 \/ turn = "close"
        BY <1>1, <3>2 DEF TurnOK
      <4>2. heard'[e] = 0
        BY <1>3, <2>1, <3>2
      <4>. QED BY <1>1, <2>1, <4>1, <4>2
    <3>3. CASE ~(c.verb \in Reapers /\ e = c.eng)
      <4>1. e \in d.hand <=> e \in c.hand
        BY <2>2, <3>3
      <4>. QED BY <1>1, <2>1, <2>3, <3>1, <4>1
    <3>. QED BY <3>2, <3>3
  <2>9. CountOK'
    BY <2>6, <2>7, <2>8, Zenon DEF CountOK
  <2>10. ListOK(call[1])'
    BY <1>1, <1>2, <1>3, <2>1, <2>2, <2>4 DEF ListOK, Filing
  <2>11. OwnOK(call[1])'
    <3>1. c.verb = "launch" => digest'[c.own] # "torn" /\ d.at = "sweep"
      <4>1. c.verb = "launch" => d.at = "sweep"
        BY <2>2 DEF Reapers
      <4>2. c.verb = "launch" /\ c.own # c.eng => digest[c.own] # "torn"
        BY <1>1, <2>1 DEF OwnOK
      <4>. QED BY <1>3, <2>4, <2>5, <4>1, <4>2
    <3>. QED BY <1>3, <2>2, <2>3, <3>1 DEF OwnOK, Filing
  <2>. QED BY <1>5, <2>2, <2>9, <2>10, <2>11
<1>. HIDE DEF G
<1>10. G
  BY <1>4, <1>6, <1>7, <1>8, <1>9 DEF FileStep
<1>. QED BY <1>10 DEF G

\* With one call at a time, taking reports keeps files, records and sessions in agreement.
LEMMA AloneTake ==
    ASSUME IInv, scale.calls = 1, Single, CallStep(1) \/ Ask(1), TakeStep(1)
    PROVE  /\ ListOK(call[1])' /\ OwnOK(call[1])' /\ CountOK' /\ SessionOK(call[1])'
<1>. DEFINE c == call[1]
            d == call'[1]
            G == /\ ListOK(call[1])' /\ OwnOK(call[1])' /\ CountOK' /\ SessionOK(call[1])'
<1>. USE DEF At, Is, Go, Return, dirVars, seatVars
<1>1. /\ c \in Call /\ ShapeOK(c) /\ HandOK(c) /\ TypeOK /\ SeatOK /\ TurnOK /\ 1 \in Threads
      /\ ListOK(c) /\ OwnOK(c) /\ CountOK /\ SessionOK(c)
      /\ call \in [Threads -> Call] /\ digest \in [Engagement -> Digests]
      /\ files \in [Engagement -> SUBSET FileNames]
      /\ rows \in [Engagement -> Nat] /\ heard \in [Engagement -> Nat] /\ stops \in Nat
  BY Bounds DEF IInv, TypeOK, Single
<1>2. /\ c.at \in {"take", "mark"} /\ UNCHANGED <<digest, rows, heard, turn, stops>>
  BY DEF TakeStep, Mark, TakeDone, TakeSkip, TakeRead
<1>3. ASSUME d.at \notin {"launch", "spawn", "register"} PROVE SessionOK(call[1])'
  BY <1>1, <1>2, <1>3, SessionKept DEF Starting
<1>4. ASSUME UNCHANGED files, d.hand = c.hand PROVE CountOK'
  BY <1>1, <1>2, <1>4, CountKept DEF Has
<1>5. c.verb = "launch" => c.own \in Engagement
  BY <1>2, InHand, Bounds
<1>6. ASSUME Mark(1) PROVE G
  <2>1. /\ c.at = "mark" /\ d = [c EXCEPT !.at = "take", !.hand = @ \cup {c.eng}]
        /\ files' = [files EXCEPT ![c.eng] = @ \cup {"marker"}]
    BY <1>1, <1>6 DEF Mark
  <2>2. /\ d.at = "take" /\ d.verb = c.verb /\ d.own = c.own /\ d.hand = c.hand \cup {c.eng}
        /\ d.todo = c.todo /\ d.eng = c.eng
    BY <1>1, <2>1 DEF Call
  <2>3. c.eng \in Engagement /\ digest[c.eng] # "none" /\ ~Has(c.eng, "marker")
    BY <1>1, <2>1, InHand, Bounds DEF HandOK, ListOK
  <2>4. \A e \in Engagement : /\ e = c.eng => Has(e, "marker")'
                              /\ e # c.eng => (Has(e, "marker")' <=> Has(e, "marker"))
    BY <1>1, <2>1, <2>3 DEF Has, FileNames
  <2>5. turn \notin {"close", "ended"}
    BY <1>1, <2>1 DEF TurnOK, Resting, Idle, Filing
  <2>6. ASSUME NEW e \in Engagement
        PROVE  heard'[e] + (IF e \in d.hand THEN 1 ELSE 0)
                <= IF stops' > 0 THEN IF Has(e, "marker")' THEN 2 ELSE 1
                   ELSE IF Has(e, "marker")' \/ turn' \in {"close", "ended"} THEN 1 ELSE 0
    <3>1. heard[e] + (IF e \in c.hand THEN 1 ELSE 0)
                <= IF stops > 0 THEN IF Has(e, "marker") THEN 2 ELSE 1
                   ELSE IF Has(e, "marker") \/ turn \in {"close", "ended"} THEN 1 ELSE 0
      BY <1>1 DEF CountOK
    <3>2. CASE e = c.eng
      <4>1. heard[e] <= IF stops > 0 THEN 1 ELSE 0
        BY <1>1, <2>3, <2>5, <3>1, <3>2
      <4>2. heard'[e] = heard[e] /\ heard[e] \in Nat /\ stops' = stops /\ Has(e, "marker")'
        <5>1. Has(e, "marker")'
          BY <2>4, <3>2 DEF Has
        <5>2. heard'[e] = heard[e] /\ heard[e] \in Nat /\ stops' = stops
          BY <1>1, <1>2
        <5>. QED BY <5>1, <5>2
      <4>3. heard'[e] + (IF e \in d.hand THEN 1 ELSE 0) <= IF stops > 0 THEN 2 ELSE 1
        BY <1>1, <4>1, <4>2
      <4>. QED BY <4>2, <4>3
    <3>3. CASE e # c.eng
      <4>1. e \in d.hand <=> e \in c.hand
        BY <2>2, <3>3
      <4>. QED BY <1>1, <1>2, <2>4, <3>1, <3>3, <4>1
    <3>. QED BY <3>2, <3>3
  <2>7. ASSUME NEW e \in Engagement
        PROVE  /\ rows'[e] <= stops' + (IF \/ Readable(e)'
                                           \/ d.eng = e /\ d.at \in {"open", "write"}
                                        THEN 1 ELSE 0)
               /\ digest'[e] = "none" => heard'[e] = 0 /\ e \notin d.hand /\ ~Has(e, "marker")'
    <3>1. rows[e] <= stops + (IF Readable(e) THEN 1 ELSE 0)
      BY <1>1, <2>1 DEF CountOK
    <3>2. digest[e] = "none" => heard[e] = 0 /\ e \notin c.hand /\ ~Has(e, "marker")
      BY <1>1 DEF CountOK
    <3>3. rows'[e] <= stops' + (IF \/ Readable(e)'
                                   \/ d.eng = e /\ d.at \in {"open", "write"}
                                THEN 1 ELSE 0)
      BY <1>1, <1>2, <2>2, <3>1 DEF Readable
    <3>4. digest'[e] = "none" => heard'[e] = 0 /\ e \notin d.hand /\ ~Has(e, "marker")'
      BY <1>2, <2>2, <2>3, <2>4, <3>2
    <3>. QED BY <3>3, <3>4
  <2>8. CountOK'
    BY <2>6, <2>7, Zenon DEF CountOK
  <2>9. ListOK(call[1])'
    BY <1>1, <2>2 DEF ListOK, Filing
  <2>10. OwnOK(call[1])'
    <3>1. c.verb = "launch" => c.eng = c.own /\ c.todo \subseteq {c.own}
      BY <1>1, <2>1 DEF OwnOK
    <3>. QED BY <2>2, <3>1 DEF OwnOK, Filing
  <2>. QED BY <1>3, <2>2, <2>8, <2>9, <2>10
<1>7. ASSUME TakeDone(1) PROVE G
  <2>1. c.at = "take" /\ c.todo = {} /\ UNCHANGED files
    BY <1>7 DEF TakeDone
  <2>2. c.verb = "launch" => c.hand # {}
    BY <1>1, <2>1 DEF OwnOK
  <2>3. d = [c EXCEPT !.at = "returned"]
    BY <1>1, <1>7, <2>2 DEF TakeDone
  <2>4. d.at = "returned" /\ d.verb = c.verb /\ d.hand = c.hand
    BY <1>1, <2>3 DEF Call
  <2>5. ListOK(call[1])' /\ OwnOK(call[1])'
    BY <1>1, <2>4 DEF ListOK, OwnOK, Filing
  <2>. QED BY <1>3, <1>4, <2>1, <2>4, <2>5
<1>8. ASSUME NEW e \in Engagement, TakeSkip(1, e) PROVE G
  <2>1. /\ c.at = "take" /\ UNCHANGED files /\ e \in c.todo
        /\ ~Readable(e) \/ Has(e, "marker")
        /\ d = [c EXCEPT !.todo = @ \ {e}]
    BY <1>1, <1>8 DEF TakeSkip
  <2>2. /\ d.at = "take" /\ d.verb = c.verb /\ d.hand = c.hand /\ d.own = c.own
        /\ d.todo = c.todo \ {e}
    BY <1>1, <2>1 DEF Call
  <2>3. ListOK(call[1])'
    BY <1>1, <2>2 DEF ListOK, Filing
  <2>4. OwnOK(call[1])'
    <3>1. c.verb = "launch" => c.own \in c.hand /\ c.todo \subseteq {c.own}
      BY <1>1, <2>1 DEF OwnOK
    <3>. QED BY <2>2, <3>1 DEF OwnOK, Filing
  <2>. QED BY <1>3, <1>4, <2>1, <2>2, <2>3, <2>4
<1>9. ASSUME NEW e \in Engagement, TakeRead(1, e) PROVE G
  <2>1. /\ c.at = "take" /\ UNCHANGED files /\ e \in c.todo /\ ~Has(e, "marker")
        /\ d = [c EXCEPT !.at = "mark", !.eng = e, !.todo = @ \ {e}]
    BY <1>1, <1>9 DEF TakeRead
  <2>2. /\ d.at = "mark" /\ d.verb = c.verb /\ d.hand = c.hand /\ d.own = c.own
        /\ d.todo = c.todo \ {e} /\ d.eng = e
    BY <1>1, <2>1 DEF Call
  <2>3. ListOK(call[1])'
    BY <1>1, <2>1, <2>2 DEF ListOK, Filing, Has
  <2>4. OwnOK(call[1])'
    <3>1. c.verb = "launch" => e = c.own /\ c.todo \subseteq {c.own}
      BY <1>1, <2>1 DEF OwnOK
    <3>. QED BY <2>2, <3>1 DEF OwnOK, Filing
  <2>. QED BY <1>3, <1>4, <2>1, <2>2, <2>3, <2>4
<1>. HIDE DEF G
<1>10. G
  BY <1>6, <1>7, <1>8, <1>9 DEF TakeStep
<1>. QED BY <1>10 DEF G

\* With one call at a time, asking for one keeps files, records and sessions in agreement.
LEMMA AloneAsk ==
    ASSUME IInv, scale.calls = 1, Single, CallStep(1) \/ Ask(1),
           ContinueCheck(1) \/ CancelCheck(1) \/ Ask(1)
    PROVE  /\ ListOK(call[1])' /\ OwnOK(call[1])' /\ CountOK' /\ SessionOK(call[1])'
<1>. DEFINE c == call[1]
            d == call'[1]
            G == /\ ListOK(call[1])' /\ OwnOK(call[1])' /\ CountOK' /\ SessionOK(call[1])'
<1>. USE DEF At, Is, Go, Return, dirVars, seatVars
<1>1. /\ c \in Call /\ ShapeOK(c) /\ HandOK(c) /\ TypeOK /\ SeatOK /\ TurnOK /\ 1 \in Threads
      /\ ListOK(c) /\ OwnOK(c) /\ CountOK /\ SessionOK(c)
      /\ call \in [Threads -> Call]
  BY Bounds DEF IInv, TypeOK, Single
<1>2. UNCHANGED <<files, root, digest, rows, heard, turn, stops>>
  BY DEF ContinueCheck, CancelCheck, Ask
<1>3. c.at \in {"check", "idle"}
  BY DEF ContinueCheck, CancelCheck, Ask, Idle
<1>4. ASSUME d.hand = c.hand PROVE CountOK'
  BY <1>1, <1>2, <1>3, <1>4, CountKept DEF Has
<1>5. Unfinalized' = Unfinalized
  BY <1>2 DEF Unfinalized, Registered, Has
<1>6. ASSUME ContinueCheck(1) PROVE G
  <2>1. /\ c.verb = "continue"
        /\ \/ d = [c EXCEPT !.at = "launch"] /\ MayContinue(c.eng)
           \/ d = [c EXCEPT !.at = "returned"]
    BY <1>1, <1>6 DEF ContinueCheck
  <2>2. /\ d.verb = "continue" /\ d.hand = c.hand /\ d.eng = c.eng
        /\ \/ d.at = "launch" /\ MayContinue(c.eng)
           \/ d.at = "returned"
    BY <1>1, <2>1 DEF Call
  <2>3. SessionOK(call[1])'
    BY <1>1, <1>2, <1>5, <2>2 DEF SessionOK, MayContinue
  <2>4. ListOK(call[1])' /\ OwnOK(call[1])'
    BY <2>2 DEF ListOK, OwnOK, Filing
  <2>. QED BY <1>4, <2>2, <2>3, <2>4
<1>7. ASSUME CancelCheck(1) PROVE G
  <2>1. /\ c.verb = "cancel" /\ c.at = "check"
        /\ \/ /\ d = [c EXCEPT !.at = "collect", !.hint = "cancelled"]
              /\ c.eng \in Unfinalized
           \/ d = [c EXCEPT !.at = "returned"]
    BY <1>1, <1>7 DEF CancelCheck
  <2>2. /\ d.verb = "cancel" /\ d.hand = c.hand /\ d.eng = c.eng /\ d.todo = c.todo
        /\ \/ d.at = "collect" /\ c.eng \in Unfinalized
           \/ d.at = "returned"
    BY <1>1, <2>1 DEF Call
  <2>3. SessionOK(call[1])'
    BY <1>1, <1>2, <1>5, <2>2 DEF SessionOK
  <2>4. ListOK(call[1])'
    <3>1. c.todo = {}
      BY <1>1, <2>1 DEF ListOK
    <3>2. d.at = "collect" => /\ c.eng \in Engagement /\ digest[c.eng] = "none"
                              /\ heard[c.eng] = 0 /\ c.eng \notin c.hand
                              /\ ~Has(c.eng, "marker")
      BY <1>1, <2>2 DEF Unfinalized, CountOK
    <3>. QED BY <1>2, <2>2, <3>1, <3>2 DEF ListOK, Filing, Has
  <2>5. OwnOK(call[1])'
    BY <2>2 DEF OwnOK
  <2>. QED BY <1>4, <2>2, <2>3, <2>4, <2>5
<1>8. ASSUME Ask(1) PROVE G
  <2>0. c = Idle
    BY <1>8 DEF Ask
  <2>1. \/ d = [c EXCEPT !.verb = "launch", !.at = "launch"]
        \/ d = [c EXCEPT !.verb = "wait", !.at = "sweep", !.todo = Unfinalized]
        \/ \E e, v : /\ v \in {"continue", "cancel"}
                     /\ d = [c EXCEPT !.verb = v, !.at = "check", !.eng = e]
    BY <1>1, <1>8 DEF Ask
  <2>2. /\ d.hand = c.hand
        /\ \/ d.verb = "launch" /\ d.at = "launch"
           \/ d.verb = "wait" /\ d.at = "sweep" /\ d.todo = Unfinalized
           \/ d.verb \in {"continue", "cancel"} /\ d.at = "check" /\ d.todo = c.todo
    BY <1>1, <2>1 DEF Call
  <2>3. SessionOK(call[1])'
    BY <1>1, <1>2, <1>5, <2>2 DEF SessionOK
  <2>4. ListOK(call[1])'
    <3>1. c.todo = {}
      BY <2>0 DEF Idle
    <3>. QED BY <1>2, <2>2, <3>1 DEF ListOK, Filing, Unfinalized
  <2>5. OwnOK(call[1])'
    BY <2>2 DEF OwnOK, Filing
  <2>. QED BY <1>4, <2>2, <2>3, <2>4, <2>5
<1>. HIDE DEF G
<1>9. G
  BY <1>6, <1>7, <1>8
<1>. QED BY <1>9 DEF G

\* The steps of the loop and the stops: what was in hand is on the wire or lost.
LEMMA AloneFresh ==
    ASSUME IInv, Single, UNCHANGED <<files, digest, root, rows, heard>>,
           NEW v \in {"poll", "shutdown", "reconcile"}, Fresh(v),
           \/ stops' = stops + 1
           \/ stops' = stops /\ (Settled \/ Resting),
           turn \in {"close", "ended"} => (turn' \in {"close", "ended"} \/ stops' > 0)
    PROVE  Single'
<1>1. /\ TypeOK /\ CountOK /\ SessionOK(call[1]) /\ 1 \in Threads /\ stops \in Nat
      /\ rows \in [Engagement -> Nat] /\ heard \in [Engagement -> Nat]
  BY Bounds DEF IInv, TypeOK, Single
<1>2. \A u \in Threads \ {1} : call'[u] = Idle
  BY DEF Fresh
<1>3. /\ call'[1].hand = {} /\ call'[1].at \in {"idle", "sweep"}
      /\ call'[1].verb \in {"none", v}
      /\ call'[1].at = "sweep" => call'[1].todo = Unfinalized
  <2>1. \/ call'[1] = Idle
        \/ call'[1] = [Idle EXCEPT !.verb = v, !.at = "sweep", !.todo = Unfinalized]
    BY <1>1 DEF Fresh
  <2>2. CASE call'[1] = Idle
    BY <2>2 DEF Idle
  <2>3. CASE call'[1] = [Idle EXCEPT !.verb = v, !.at = "sweep", !.todo = Unfinalized]
    BY <2>3 DEF Idle
  <2>. QED BY <2>1, <2>2, <2>3
<1>4. ListOK(call[1])' /\ OwnOK(call[1])'
  BY <1>3 DEF ListOK, OwnOK, Filing, Unfinalized
<1>5. SessionOK(call[1])'
  <2>1. Unfinalized' = Unfinalized
    BY DEF Unfinalized, Registered, Has
  <2>. QED BY <1>1, <1>3, <2>1 DEF SessionOK
<1>6. ASSUME NEW e \in Engagement PROVE rows'[e] <= stops' + (IF Readable(e)' THEN 1 ELSE 0)
  <2>1. rows[e] <= stops + (IF \/ Readable(e)
                               \/ call[1].eng = e /\ call[1].at \in {"open", "write"}
                            THEN 1 ELSE 0)
    BY <1>1 DEF CountOK
  <2>2. CASE stops' = stops + 1
    BY <1>1, <2>1, <2>2 DEF Readable
  <2>3. CASE stops' = stops /\ (Settled \/ Resting)
    <3>1. call[1].at \notin {"open", "write"}
      BY <1>1, <2>3 DEF Settled, Resting, Idle
    <3>. QED BY <1>1, <2>1, <2>3, <3>1 DEF Readable
  <2>. QED BY <2>2, <2>3
<1>7. ASSUME NEW e \in Engagement
      PROVE  rows'[e] <= stops' + (IF \/ Readable(e)'
                                      \/ call'[1].eng = e /\ call'[1].at \in {"open", "write"}
                                   THEN 1 ELSE 0)
  BY <1>3, <1>6
<1>8. ASSUME NEW e \in Engagement
      PROVE  digest'[e] = "none" => /\ heard'[e] = 0 /\ e \notin call'[1].hand
                                    /\ ~Has(e, "marker")'
  BY <1>1, <1>3 DEF CountOK, Has
<1>9. ASSUME NEW e \in Engagement
      PROVE  heard'[e] + (IF e \in call'[1].hand THEN 1 ELSE 0)
                <= IF stops' > 0 THEN IF Has(e, "marker")' THEN 2 ELSE 1
                   ELSE IF Has(e, "marker")' \/ turn' \in {"close", "ended"} THEN 1 ELSE 0
  <2>1. heard[e] + (IF e \in call[1].hand THEN 1 ELSE 0)
                <= IF stops > 0 THEN IF Has(e, "marker") THEN 2 ELSE 1
                   ELSE IF Has(e, "marker") \/ turn \in {"close", "ended"} THEN 1 ELSE 0
    BY <1>1 DEF CountOK
  <2>2. heard[e] <= IF stops > 0 THEN IF Has(e, "marker") THEN 2 ELSE 1
                    ELSE IF Has(e, "marker") \/ turn \in {"close", "ended"} THEN 1 ELSE 0
    BY <1>1, <2>1
  <2>3. Has(e, "marker")' <=> Has(e, "marker")
    BY DEF Has
  <2>4. stops > 0 => stops' > 0
    BY <1>1
  <2>. QED BY <1>1, <1>3, <2>2, <2>3, <2>4
<1>10. CountOK'
  BY <1>7, <1>8, <1>9, Zenon DEF CountOK
<1>. QED BY <1>2, <1>4, <1>5, <1>10 DEF Single

\* With one call at a time, the agent's loop keeps files, records and sessions in agreement.
LEMMA AloneLoop ==
    ASSUME IInv, Single, \/ TurnTop \/ Conclude \/ Resume \/ TurnOver \/ Crash
                         \/ \E t \in Threads : Interrupt(t)
    PROVE  Single'
<1>. USE DEF dirVars, seatVars
<1>1. TypeOK /\ TurnOK /\ 1 \in Threads /\ stops \in Nat
  BY Bounds DEF IInv, TypeOK
<1>2. UNCHANGED <<files, digest, root, rows, heard>>
  BY DEF TurnTop, Conclude, Resume, TurnOver, Crash, Interrupt
<1>3. ASSUME NEW v \in {"poll", "shutdown", "reconcile"}, call' = Visiting(1, v), Resting
      PROVE  Fresh(v)
  <2>1. v \in Verbs
    BY <1>3 DEF Verbs
  <2>2. Visiting(1, v)[1] = [Idle EXCEPT !.verb = v, !.at = "sweep", !.todo = Unfinalized]
    BY <1>1, <1>3, <2>1, VisitingType DEF Resting
  <2>3. \A u \in Threads \ {1} : Visiting(1, v)[u] = call[u]
    BY <1>1, <2>1, VisitingType
  <2>4. \A u \in Threads \ {1} : call'[u] = Idle
    BY <1>3, <2>3 DEF Resting
  <2>. QED BY <1>3, <2>2, <2>4 DEF Fresh
<1>4. CASE TurnTop
  BY <1>2, <1>3, <1>4, AloneFresh DEF TurnTop
<1>5. CASE Conclude
  BY <1>2, <1>3, <1>5, AloneFresh DEF Conclude
<1>6. CASE Resume
  <2>1. Resting /\ Fresh("reconcile") /\ stops' = stops /\ turn = "down"
    BY <1>1, <1>3, <1>6 DEF Resume, TurnOK
  <2>. QED BY <1>2, <2>1, AloneFresh
<1>7. CASE TurnOver
  <2>1. Fresh("poll") /\ stops' = stops /\ Settled
    BY <1>7 DEF TurnOver, Fresh
  <2>2. turn \in {"close", "ended"} => turn' \in {"close", "ended"}
    BY <1>7 DEF TurnOver
  <2>. QED BY <1>2, <2>1, <2>2, AloneFresh
<1>8. CASE Crash
  <2>1. Fresh("poll") /\ stops' = stops + 1
    BY <1>8 DEF Crash, Fresh
  <2>. QED BY <1>1, <1>2, <2>1, AloneFresh
<1>9. CASE \E t \in Threads : Interrupt(t)
  <2>1. Visiting(1, "shutdown")[1] =
            [Idle EXCEPT !.verb = "shutdown", !.at = "sweep", !.todo = Unfinalized]
    BY <1>1, VisitingType DEF Verbs
  <2>2. Fresh("shutdown") /\ stops' = stops + 1
    BY <1>9, <2>1 DEF Interrupt, Fresh
  <2>. QED BY <1>1, <1>2, <2>2, AloneFresh
<1>. QED BY <1>4, <1>5, <1>6, <1>7, <1>8, <1>9

\* With one call at a time, what goes on outside the calls keeps that agreement.
LEMMA AloneRest ==
    ASSUME IInv, Single,
           \/ RunActions \/ Rest \/ UNCHANGED vars
           \/ \E e \in Engagement : SeatExits(e) \/ BoxPasses(e) \/ WorldAges(e)
    PROVE  Single'
<1>. USE DEF dirVars, seatVars
<1>1. /\ UNCHANGED <<files, digest, root, rows, heard, stops, call>>
      /\ turn' = turn \/ (turn = "choose" /\ turn' = "act")
  BY DEF RunActions, Rest, vars, SeatExits, BoxPasses, WorldAges
<1>2. TypeOK /\ ListOK(call[1]) /\ OwnOK(call[1]) /\ CountOK /\ SessionOK(call[1])
      /\ \A u \in Threads \ {1} : call[u] = Idle
  BY DEF IInv, Single
<1>3. \A e \in Engagement : Has(e, "marker")' <=> Has(e, "marker")
  BY <1>1 DEF Has
<1>4. ListOK(call[1])' /\ OwnOK(call[1])'
  BY <1>1, <1>2 DEF ListOK, OwnOK, Has, Readable
<1>5. SessionOK(call[1])'
  <2>1. Unfinalized' = Unfinalized
    BY <1>1 DEF Unfinalized, Registered, Has
  <2>. QED BY <1>1, <1>2, <2>1 DEF SessionOK
<1>6. CountOK'
  BY <1>1, <1>2, <1>3 DEF CountOK, Readable
<1>. QED BY <1>1, <1>2, <1>4, <1>5, <1>6 DEF Single

\* With one call at a time, a running seat that reports keeps that agreement.
LEMMA AloneEmit ==
    ASSUME IInv, Single, NEW t \in Threads, NEW e \in Engagement, Emit(t, e)
    PROVE  Single'
<1>. USE DEF dirVars, seatVars
<1>. DEFINE c == call[1]
            d == call'[1]
<1>1. /\ TypeOK /\ TurnOK /\ CountOK /\ SessionOK(c) /\ ListOK(c) /\ 1 \in Threads
      /\ stops \in Nat /\ c \in Call
      /\ call \in [Threads -> Call] /\ ShapeOK(c)
      /\ rows \in [Engagement -> Nat] /\ heard \in [Engagement -> Nat]
      /\ \A u \in Threads \ {1} : call[u] = Idle
  BY Bounds DEF IInv, TypeOK, Single
<1>2. t = 1 /\ c.at = "returned" /\ e \in c.hand
  <2>1. e \in call[t].hand /\ call[t].at \in {"idle", "returned"}
    BY DEF Emit, Settled
  <2>2. Idle.hand = {}
    BY DEF Idle
  <2>. QED BY <1>1, <2>1, <2>2 DEF ShapeOK
<1>3. /\ call' = [call EXCEPT ![1] = [c EXCEPT !.hand = @ \ {e}]]
      /\ heard' = [heard EXCEPT ![e] = @ + 1]
      /\ UNCHANGED <<files, digest, root, rows, turn, stops>>
  BY <1>1, <1>2 DEF Emit
<1>4. /\ \A u \in Threads \ {1} : call'[u] = Idle
      /\ d = [c EXCEPT !.hand = @ \ {e}]
  BY <1>1, <1>3
<1>5. d.at = "returned" /\ d.verb = c.verb /\ d.hand = c.hand \ {e} /\ d.own = c.own
  BY <1>1, <1>2, <1>4 DEF Call
<1>6. ListOK(call[1])' /\ OwnOK(call[1])'
  BY <1>1, <1>5 DEF ListOK, OwnOK, Filing
<1>7. SessionOK(call[1])'
  <2>1. Unfinalized' = Unfinalized
    BY <1>3 DEF Unfinalized, Registered, Has
  <2>. QED BY <1>1, <1>3, <1>5, <2>1 DEF SessionOK
<1>8. ASSUME NEW x \in Engagement
      PROVE  rows'[x] <= stops' + (IF \/ Readable(x)'
                                      \/ d.eng = x /\ d.at \in {"open", "write"}
                                   THEN 1 ELSE 0)
  <2>1. rows[x] <= stops + (IF Readable(x) THEN 1 ELSE 0)
    BY <1>1, <1>2 DEF CountOK
  <2>. QED BY <1>1, <1>3, <1>5, <2>1 DEF Readable
<1>9. ASSUME NEW x \in Engagement
      PROVE  digest'[x] = "none" => heard'[x] = 0 /\ x \notin d.hand /\ ~Has(x, "marker")'
  BY <1>1, <1>2, <1>3, <1>5 DEF CountOK, Has
<1>10. ASSUME NEW x \in Engagement
      PROVE  heard'[x] + (IF x \in d.hand THEN 1 ELSE 0)
                <= IF stops' > 0 THEN IF Has(x, "marker")' THEN 2 ELSE 1
                   ELSE IF Has(x, "marker")' \/ turn' \in {"close", "ended"} THEN 1 ELSE 0
  <2>1. heard[x] + (IF x \in c.hand THEN 1 ELSE 0)
                <= IF stops > 0 THEN IF Has(x, "marker") THEN 2 ELSE 1
                   ELSE IF Has(x, "marker") \/ turn \in {"close", "ended"} THEN 1 ELSE 0
    BY <1>1 DEF CountOK
  <2>2. Has(x, "marker")' <=> Has(x, "marker")
    BY <1>3 DEF Has
  <2>3. heard'[x] + (IF x \in d.hand THEN 1 ELSE 0) = heard[x] + (IF x \in c.hand THEN 1 ELSE 0)
    <3>1. CASE x = e
      BY <1>1, <1>2, <1>3, <1>5, <3>1
    <3>2. CASE x # e
      BY <1>1, <1>3, <1>5, <3>2
    <3>. QED BY <3>1, <3>2
  <2>. QED BY <1>3, <2>1, <2>2, <2>3
<1>11. CountOK'
  BY <1>8, <1>9, <1>10, Zenon DEF CountOK
<1>. QED BY <1>4, <1>6, <1>7, <1>11 DEF Single

\* The invariant of one call at a time holds initially.
LEMMA InitAlone == Init => AloneInv
<1>. SUFFICES ASSUME Init PROVE AloneInv
  OBVIOUS
<1>1. /\ 1 \in Threads /\ call[1] = Idle /\ \A u \in Threads : call[u] = Idle
      /\ \A e \in Engagement : files[e] = {} /\ rows[e] = 0 /\ heard[e] = 0
      /\ stops = 0 /\ Unfinalized = {}
  BY Bounds DEF Init, Unfinalized, Registered, Has
<1>2. Idle.at = "idle" /\ Idle.verb = "none" /\ Idle.hand = {}
  BY DEF Idle
<1>3. ListOK(call[1]) /\ OwnOK(call[1]) /\ SessionOK(call[1])
  BY <1>1, <1>2 DEF ListOK, OwnOK, SessionOK, Filing
<1>4. CountOK
  BY <1>1, <1>2 DEF CountOK, Has
<1>. QED BY <1>1, <1>3, <1>4, InitInv DEF AloneInv, Single

\* Every step keeps the invariant of one call at a time.
LEMMA AloneStep == AloneInv /\ [Next]_vars => AloneInv'
<1>. SUFFICES ASSUME AloneInv, [Next]_vars PROVE AloneInv'
  OBVIOUS
<1>1. IInv /\ IInv' /\ (scale.calls = 1 => Single)
  BY StepInv DEF AloneInv
<1>2. ASSUME scale.calls = 1, NEW t \in Threads, CallStep(t) \/ Ask(t)
      PROVE  Single'
  <2>1. t = 1 /\ Single /\ 1 \in Threads
    BY <1>1, <1>2, OneThread
  <2>2. CallStep(1) \/ Ask(1)
    BY <1>2, <2>1
  <2>3. \A u \in Threads \ {1} : call'[u] = Idle
    BY <1>1, <2>1, <2>2, Others DEF Single
  <2>4. LaunchStep(1) \/ SweepStep(1) \/ FileStep(1) \/ TakeStep(1)
        \/ (ContinueCheck(1) \/ CancelCheck(1) \/ Ask(1))
    BY <2>2, Zenon DEF CallStep
  <2>5. ListOK(call[1])' /\ OwnOK(call[1])' /\ CountOK' /\ SessionOK(call[1])'
    BY <1>1, <1>2, <2>1, <2>2, <2>4, AloneLaunch, AloneSweep, AloneFile, AloneTake, AloneAsk
  <2>. QED BY <2>3, <2>5 DEF Single
<1>3. ASSUME scale.calls = 1 PROVE Single'
  <2>1. Single
    BY <1>1, <1>3
  <2>2. \A t \in Threads : CallStep(t) \/ Ask(t) => Single'
    BY <1>2, <1>3
  <2>3. (TurnTop \/ Conclude \/ Resume \/ TurnOver \/ Crash \/ \E t \in Threads : Interrupt(t))
        => Single'
    BY <1>1, <2>1, AloneLoop
  <2>4. (\/ RunActions \/ Rest \/ UNCHANGED vars
         \/ \E e \in Engagement : SeatExits(e) \/ BoxPasses(e) \/ WorldAges(e))
        => Single'
    BY <1>1, <2>1, AloneRest
  <2>5. \A t \in Threads, e \in Engagement : Emit(t, e) => Single'
    BY <1>1, <2>1, AloneEmit
  <2>. QED BY <2>2, <2>3, <2>4, <2>5, Zenon DEF Next, Scientist, LoopStep, Stopping
<1>4. scale' = scale
  <2>1. \A t \in Threads : CallStep(t) \/ Ask(t) => scale' = scale
    BY CallsAreStill DEF Still
  <2>2. (TurnTop \/ Conclude \/ Resume \/ TurnOver \/ Crash \/ \E t \in Threads : Interrupt(t))
        => scale' = scale
    BY DEF TurnTop, Conclude, Resume, TurnOver, Crash, Interrupt
  <2>3. (\/ RunActions \/ Rest \/ UNCHANGED vars
         \/ \E e \in Engagement : SeatExits(e) \/ BoxPasses(e) \/ WorldAges(e))
        => scale' = scale
    BY DEF RunActions, Rest, vars, SeatExits, BoxPasses, WorldAges
  <2>4. \A t \in Threads, e \in Engagement : Emit(t, e) => scale' = scale
    BY DEF Emit
  <2>. QED BY <2>1, <2>2, <2>3, <2>4, Zenon DEF Next, Scientist, LoopStep, Stopping
<1>. QED BY <1>1, <1>3, <1>4 DEF AloneInv

\* Whatever the number of calls, of engagements and of stops: no seat works behind its
\* report (collect) and an episode that has ended has none (run_episode); and with one
\* call a turn no report is recorded or heard twice in one life of the process
\* (_register_record, _take_reports) and no session has two seats (continue_engagement).
THEOREM Sound == Spec => []Consistent
<1>1. AloneInv => Consistent
  <2>. SUFFICES ASSUME AloneInv PROVE Consistent
    OBVIOUS
  <2>1. TypeOK /\ NoSeatAfterReport /\ NothingLeftRunning
    BY DEF AloneInv, IInv, SeatOK, TurnOK, NoSeatAfterReport
  <2>2. /\ stops \in Nat /\ rows \in [Engagement -> Nat] /\ heard \in [Engagement -> Nat]
    BY <2>1, Bounds DEF TypeOK
  <2>3. RecordedOncePerLife
    BY <2>2 DEF AloneInv, Single, CountOK, RecordedOncePerLife
  <2>4. HeardOncePerLife
    BY <2>2 DEF AloneInv, Single, CountOK, HeardOncePerLife
  <2>5. OneSeatPerSession
    BY DEF AloneInv, Single, SessionOK, OneSeatPerSession
  <2>. QED BY <2>1, <2>3, <2>4, <2>5 DEF Consistent
<1>. QED BY <1>1, InitAlone, AloneStep, PTL DEF Spec
--------------------------------------------------------------------------------
(* The harness implements the engagement protocol.                         *)

\* What the protocol sees of the harness.
Phases == [e \in Engagement |-> Phase(e)]
Working == {e \in Engagement : seat[e] = "running"}

\* Phases that stay engagement by engagement stay.
LEMMA NoPhase ==
    ASSUME \A e \in Engagement : Phases'[e] = Phases[e]
    PROVE  Phases' = Phases
BY DEF Phases

\* Every step is a step of the protocol or leaves it alone.
LEMMA StepRefines == IInv /\ [Next]_vars => [Protocol!Next]_(Protocol!vars)
<1>. SUFFICES ASSUME IInv, [Next]_vars PROVE [Protocol!Next]_(Protocol!vars)
  OBVIOUS
<1>. DEFINE Same == Phases' = Phases /\ Working' = Working
<1>. USE DEF dirVars, seatVars
<1>1. /\ TypeOK /\ SeatOK
      /\ files \in [Engagement -> SUBSET FileNames] /\ digest \in [Engagement -> Digests]
      /\ seat \in [Engagement -> {"none", "running", "exited"}]
      /\ Phases = [e \in Engagement |-> Phase(e)]
      /\ Working = {e \in Engagement : seat[e] = "running"}
      /\ \A e \in Engagement : Phases[e] = Phase(e)
  BY DEF IInv, TypeOK, Phases, Working
<1>2. Same => [Protocol!Next]_(Protocol!vars)
  BY DEF Protocol!vars, Phases, Working
<1>3. ASSUME NEW e \in Engagement,
             \/ /\ Phases[e] = "unopened" /\ Working' = Working \cup {e} /\ Phases' = Phases
             \/ /\ Phases[e] = "unopened" /\ Phases' = [Phases EXCEPT ![e] = "open"]
                /\ Working' = Working
             \/ /\ Working' = Working \ {e} /\ Phases' = Phases
             \/ /\ Phases[e] = "open" /\ e \notin Working /\ Working' = Working
                /\ Phases' = [Phases EXCEPT ![e] = "filed"]
             \/ /\ Phases[e] = "filed" /\ Working' = Working
                /\ Phases' = [Phases EXCEPT ![e] = "handed"]
      PROVE  [Protocol!Next]_(Protocol!vars)
  BY <1>3 DEF Protocol!Next, Protocol!Start, Protocol!Register, Protocol!Stop, Protocol!File,
              Protocol!Hand, Phases, Working
<1>4. ASSUME UNCHANGED <<files, digest>> PROVE Phases' = Phases
  BY <1>4 DEF Phases, Phase, Has, Registered
<1>5. ASSUME UNCHANGED seat PROVE Working' = Working
  BY <1>5 DEF Working
<1>6. ASSUME NEW t \in Threads, CallStep(t) \/ Ask(t)
      PROVE  [Protocol!Next]_(Protocol!vars)
  <2>. DEFINE c == call[t]
  <2>1. HandOK(c)
    BY DEF IInv
  <2>2. CASE Quiet \/ Feed(t) \/ Record(t)
    BY <1>2, <1>4, <1>5, <2>2 DEF Quiet, Feed, Record
  <2>3. CASE LaunchOpen(t) \/ LaunchRefuse(t) \/ CollectOpen(t)
    <3>1. /\ UNCHANGED <<digest, seat>>
          /\ \E e, F : /\ F \in {files[e] \cup {"dir"}, files[e] \ {"pid"}, files[e]}
                       /\ files' = [files EXCEPT ![e] = F]
      <4>1. files' = files => files' = [files EXCEPT ![1] = files[1]]
        BY <1>1
      <4>. QED BY <2>3, <4>1 DEF LaunchOpen, LaunchRefuse, CollectOpen
    <3>2. \A e \in Engagement : /\ "manifest" \in files'[e] <=> "manifest" \in files[e]
                                /\ "marker" \in files'[e] <=> "marker" \in files[e]
      BY <1>1, <3>1
    <3>3. Phases' = Phases
      BY <3>1, <3>2 DEF Phases, Phase, Has, Registered
    <3>. QED BY <1>2, <1>5, <3>1, <3>3
  <2>4. CASE Spawn(t)
    <3>1. /\ c.at = "spawn" /\ seat' = [seat EXCEPT ![c.own] = "running"]
          /\ UNCHANGED <<files, digest>>
      BY <2>4 DEF Spawn, At
    <3>2. c.own \in Engagement /\ ~Registered(c.own)
      BY <2>1, <3>1, InHand DEF HandOK
    <3>3. Phases[c.own] = "unopened"
      BY <1>1, <3>2 DEF Phase
    <3>4. Working' = Working \cup {c.own}
      BY <1>1, <3>1, <3>2 DEF Working
    <3>. QED BY <1>3, <1>4, <3>1, <3>2, <3>3, <3>4
  <2>5. CASE Register(t)
    <3>1. /\ c.at = "register" /\ files' = [files EXCEPT ![c.own] = @ \cup {"pid", "manifest"}]
          /\ UNCHANGED <<seat, digest>>
      BY <2>5 DEF Register, At
    <3>2. c.own \in Engagement /\ ~Registered(c.own)
      BY <2>1, <3>1, InHand DEF HandOK
    <3>3. Phases[c.own] = "unopened"
      BY <1>1, <3>2 DEF Phase
    <3>4. \A e \in Engagement \ {c.own} : Phases'[e] = Phases[e]
      BY <1>1, <3>1 DEF Phases, Phase, Has, Registered
    <3>5. \A e \in Engagement : e = c.own => Phase(e)' = "open"
      <4>1. digest[c.own] = "none"
        BY <1>1, <3>2 DEF SeatOK
      <4>2. "manifest" \in files'[c.own]
        BY <1>1, <3>1, <3>2
      <4>. QED BY <3>1, <4>1, <4>2 DEF Phase, Has, Registered
    <3>6. Phases' = [Phases EXCEPT ![c.own] = "open"]
      BY <3>2, <3>4, <3>5 DEF Phases
    <3>. QED BY <1>3, <1>5, <3>1, <3>2, <3>3, <3>6
  <2>6. CASE (\E e \in Engagement : SweepLate(t, e) \/ Reap(t, e)) \/ CancelCheck(t)
    <3>1. /\ UNCHANGED <<files, digest>>
          /\ seat' = seat \/ \E e \in Engagement : seat' = Killed({e})
      BY <2>6 DEF SweepLate, Reap, CancelCheck, Unfinalized
    <3>2. ASSUME NEW e \in Engagement, seat' = Killed({e})
          PROVE  Working' = Working \/ Working' = Working \ {e}
      <4>1. CASE Alive(e)
        BY <1>1, <3>2, <4>1 DEF Killed, Working
      <4>2. CASE ~Alive(e)
        BY <1>1, <3>2, <4>2 DEF Killed, Working
      <4>. QED BY <4>1, <4>2
    <3>. QED BY <1>2, <1>3, <1>4, <1>5, <3>1, <3>2
  <2>7. CASE OpenDigest(t)
    <3>1. /\ c.at = "open" /\ digest' = [digest EXCEPT ![c.eng] = "torn"]
          /\ UNCHANGED <<seat, files>>
      BY <2>7 DEF OpenDigest, At
    <3>2. c.eng \in Engagement /\ Registered(c.eng) /\ seat[c.eng] # "running"
      BY <2>1, <3>1, InHand DEF HandOK, Filing
    <3>3. \A e \in Engagement \ {c.eng} : Phases'[e] = Phases[e]
      BY <1>1, <3>1 DEF Phases, Phase, Has, Registered
    <3>4. digest'[c.eng] = "torn"
      BY <1>1, <3>1, <3>2
    <3>5. CASE digest[c.eng] = "none"
      <4>1. ~Has(c.eng, "marker")
        BY <1>1, <3>2, <3>5 DEF SeatOK
      <4>2. Phases[c.eng] = "open"
        BY <1>1, <3>2, <3>5 DEF Phase
      <4>3. \A e \in Engagement : e = c.eng => Phase(e)' = "filed"
        BY <3>1, <3>2, <3>4, <4>1 DEF Phase, Has, Registered
      <4>4. Phases' = [Phases EXCEPT ![c.eng] = "filed"]
        BY <3>2, <3>3, <4>3 DEF Phases
      <4>5. c.eng \notin Working
        BY <3>2 DEF Working
      <4>. QED BY <1>3, <1>5, <3>1, <3>2, <4>2, <4>4, <4>5
    <3>6. CASE digest[c.eng] # "none"
      <4>1. \A e \in Engagement : e = c.eng => Phases'[e] = Phases[e]
        BY <3>1, <3>4, <3>6 DEF Phases, Phase, Has, Registered
      <4>. QED BY <1>2, <1>5, <3>1, <3>3, <4>1, NoPhase
    <3>. QED BY <3>5, <3>6
  <2>8. CASE WriteDigest(t)
    <3>1. /\ c.at = "write" /\ \E s \in Statuses : digest' = [digest EXCEPT ![c.eng] = s]
          /\ UNCHANGED <<seat, files>>
      <4>1. c.hint \in Hints \cup {"none"}
        BY InHand DEF Call
      <4>. QED BY <2>8, <4>1 DEF WriteDigest, At, Statuses
    <3>2. digest[c.eng] # "none"
      BY <2>1, <3>1 DEF HandOK
    <3>3. \A e \in Engagement : digest'[e] = "none" <=> digest[e] = "none"
      BY <1>1, <3>1, <3>2 DEF Statuses, Hints
    <3>4. Phases' = Phases
      BY <3>1, <3>3 DEF Phases, Phase, Has, Registered
    <3>. QED BY <1>2, <1>5, <3>1, <3>4
  <2>9. CASE Mark(t)
    <3>1. /\ c.at = "mark" /\ files' = [files EXCEPT ![c.eng] = @ \cup {"marker"}]
          /\ UNCHANGED <<seat, digest>>
      BY <2>9 DEF Mark, At
    <3>2. c.eng \in Engagement /\ digest[c.eng] # "none"
      BY <2>1, <3>1, InHand DEF HandOK
    <3>3. Registered(c.eng)
      BY <1>1, <3>2 DEF SeatOK
    <3>4. \A e \in Engagement \ {c.eng} : Phases'[e] = Phases[e]
      BY <1>1, <3>1 DEF Phases, Phase, Has, Registered
    <3>5. \A e \in Engagement : e = c.eng => Phase(e)' = "handed"
      BY <1>1, <3>1, <3>2, <3>3 DEF Phase, Has, Registered
    <3>6. Phases' = [Phases EXCEPT ![c.eng] = "handed"]
      BY <3>2, <3>4, <3>5 DEF Phases
    <3>7. CASE Has(c.eng, "marker")
      <4>1. \A e \in Engagement : e = c.eng => Phases'[e] = Phases[e]
        BY <1>1, <3>2, <3>3, <3>6, <3>7 DEF Phase
      <4>. QED BY <1>2, <1>5, <3>1, <3>4, <4>1, NoPhase
    <3>8. CASE ~Has(c.eng, "marker")
      <4>1. Phases[c.eng] = "filed"
        BY <1>1, <3>2, <3>3, <3>8 DEF Phase
      <4>. QED BY <1>3, <1>5, <3>1, <3>2, <3>6, <4>1
    <3>. QED BY <3>7, <3>8
  <2>. HIDE DEF Same
  <2>. QED BY <1>6, <2>2, <2>3, <2>4, <2>5, <2>6, <2>7, <2>8, <2>9, Moves
<1>7. ASSUME \/ TurnTop \/ Conclude \/ Resume \/ TurnOver \/ Crash \/ RunActions \/ Rest
             \/ UNCHANGED vars
             \/ (\E t \in Threads : Interrupt(t))
             \/ (\E t \in Threads, e \in Engagement : Emit(t, e))
             \/ (\E e \in Engagement : BoxPasses(e) \/ WorldAges(e))
      PROVE  [Protocol!Next]_(Protocol!vars)
  <2>1. UNCHANGED <<files, digest, seat>>
    BY <1>7 DEF TurnTop, Conclude, Resume, TurnOver, Crash, RunActions, Rest, vars, Interrupt,
                Emit, BoxPasses, WorldAges
  <2>. QED BY <1>2, <1>4, <1>5, <2>1
<1>8. ASSUME NEW e \in Engagement, SeatExits(e) PROVE [Protocol!Next]_(Protocol!vars)
  <2>1. UNCHANGED <<files, digest>> /\ seat' = [seat EXCEPT ![e] = "exited"]
    BY <1>8 DEF SeatExits
  <2>2. Working' = Working \ {e}
    BY <1>1, <2>1 DEF Working
  <2>. QED BY <1>3, <1>4, <2>1, <2>2
<1>. HIDE DEF Same
<1>. QED BY <1>6, <1>7, <1>8, Zenon DEF Next, Scientist, LoopStep, Stopping

\* The scientist starts as the protocol does.
LEMMA InitRefines == Init => Protocol!Init
BY DEF Init, Protocol!Init, Phase, Registered, Has

\* The harness implements EngagementProtocol: an engagement is registered, then filed when
\* nothing runs behind it, then handed, and none other and never back.
THEOREM Implements == Spec => RefinesProtocol
<1>. QED BY InitRefines, InitInv, StepInv, StepRefines, PTL
         DEF Spec, RefinesProtocol, Protocol!Spec
================================================================================
