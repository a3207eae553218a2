------------------------- MODULE LeaseLifecycleProofs -------------------------
(***************************************************************************)
(* What holds of LeaseLifecycle for every number of leases, every          *)
(* configuration, both backends and every combination of faults.           *)
(***************************************************************************)
EXTENDS LeaseLifecycle, TLAPS

AttemptTable == [Work -> Seq(AttemptStatus)]

(***************************************************************************)
(* Helpers.                                                                *)
(***************************************************************************)

\* A seat is no delivery: their second components differ.
LEMMA WorkFacts ==
    /\ Seats \cap Delivery = {}
    /\ Seats \subseteq Work /\ Delivery \subseteq Work
    /\ \A l \in Lease : Seat(l) \in Seats /\ Seat(l)[1] = l
    /\ \A w \in Work : w[1] \in Lease /\ w # NoWork
    /\ \A w \in Work : w \in Seats \/ w \in Delivery
    /\ \A w \in Seats : w = Seat(w[1])
BY DEF Seats, Seat, Work, Delivery, NoWork

\* The delivery a lease is working towards exists: the reopen count is bounded.
LEMMA CurrentFacts ==
    ASSUME NEW l \in Lease, reopens \in [Lease -> 0..MaxReopens]
    PROVE  /\ Current(l) \in Delivery
           /\ Current(l)[1] = l /\ Current(l)[2] = reopens[l] + 1
BY ConfigAssumption DEF Current, Delivery, ConfigAssumption

\* Every way to rewrite the attempts table yields an attempts table.
LEMMA TableTypes ==
    ASSUME NEW T \in AttemptTable, NEW w \in Work, NEW status \in AttemptStatus
    PROVE  /\ Marked(T, w, status) \in AttemptTable
           /\ Started(T, w) \in AttemptTable
<1>1. Marked(T, w, status) \in AttemptTable
  <2>1. T[w] \in Seq(AttemptStatus)
    BY DEF AttemptTable
  <2>2. CASE T[w] = <<>>
    BY <2>2 DEF Marked
  <2>3. CASE T[w] # <<>>
    <3>1. [T[w] EXCEPT ![Len(T[w])] = status] \in Seq(AttemptStatus)
      BY <2>1, <2>3
    <3>. QED BY <2>3, <3>1 DEF Marked, AttemptTable
  <2>. QED BY <2>2, <2>3
<1>2. Started(T, w) \in AttemptTable
  BY DEF Started, AttemptTable, AttemptStatus
<1>. QED BY <1>1, <1>2

\* Ending attempts keeps the attempts table well typed.
LEMMA EndedType ==
    ASSUME NEW T \in AttemptTable, NEW W, NEW status \in AttemptStatus
    PROVE  Ended(T, W, status) \in AttemptTable
<1>. DEFINE stop(v) == [n \in DOMAIN T[v] |->
                          IF T[v][n] = "running" THEN status ELSE T[v][n]]
<1>1. \A v \in Work : stop(v) \in Seq(AttemptStatus)
  <2>. SUFFICES ASSUME NEW v \in Work PROVE stop(v) \in Seq(AttemptStatus)
    OBVIOUS
  <2>1. T[v] \in Seq(AttemptStatus) /\ DOMAIN T[v] = 1..Len(T[v]) /\ Len(T[v]) \in Nat
    BY DEF AttemptTable
  <2>2. stop(v) \in [1..Len(T[v]) -> AttemptStatus]
    BY <2>1
  <2>. QED BY <2>1, <2>2, SMT
<1>2. \A v \in Work : T[v] \in Seq(AttemptStatus)
  BY DEF AttemptTable
<1>3. Ended(T, W, status) = [v \in Work |-> IF v \in W THEN stop(v) ELSE T[v]]
  BY DEF Ended
<1>. HIDE DEF stop
<1>. QED BY <1>1, <1>2, <1>3 DEF AttemptTable

\* Marking the latest attempt with a final status ends the only attempt that
\* can run, and starts none.
LEMMA MarkedStops ==
    ASSUME NEW T \in AttemptTable, OneRunIn(T),
           NEW w \in Work, NEW status \in AttemptStatus \ {"running"}
    PROVE  /\ OneRunIn(Marked(T, w, status))
           /\ ~RunsIn(Marked(T, w, status), w)
           /\ \A v \in Work \ {w} : Marked(T, w, status)[v] = T[v]
           /\ \A v \in Work : RunsIn(Marked(T, w, status), v) => RunsIn(T, v)
<1>. DEFINE s == T[w]
            M == Marked(T, w, status)
<1>1. CASE s = <<>>
  BY <1>1 DEF Marked, RunsIn
<1>2. CASE s # <<>>
  <2>1. s \in Seq(AttemptStatus) /\ Len(s) \in DOMAIN s /\ Len(s) \in Nat
    BY <1>2 DEF AttemptTable
  <2>2. M = [T EXCEPT ![w] = [s EXCEPT ![Len(s)] = status]]
    BY <1>2 DEF Marked, AttemptTable
  <2>3. /\ [s EXCEPT ![Len(s)] = status] \in Seq(AttemptStatus)
        /\ Len([s EXCEPT ![Len(s)] = status]) = Len(s)
        /\ DOMAIN [s EXCEPT ![Len(s)] = status] = DOMAIN s
    BY <2>1
  <2>4. M \in AttemptTable /\ \A v \in Work \ {w} : M[v] = T[v]
    BY <2>2, <2>3 DEF AttemptTable
  <2>5. M[w] = [s EXCEPT ![Len(s)] = status]
    BY <2>2 DEF AttemptTable
  <2>6. \A n \in DOMAIN M[w] : M[w][n] # "running"
    BY <2>1, <2>3, <2>5 DEF OneRunIn
  <2>7. ~RunsIn(M, w) /\ \A v \in Work : RunsIn(M, v) => RunsIn(T, v)
    BY <2>4, <2>6 DEF RunsIn
  <2>8. OneRunIn(M)
    BY <2>4, <2>6 DEF OneRunIn
  <2>. QED BY <2>4, <2>7, <2>8
<1>. QED BY <1>1, <1>2

\* A new attempt of work that has none running is the only one that runs.
LEMMA StartedRuns ==
    ASSUME NEW T \in AttemptTable, OneRunIn(T), NEW w \in Work, ~RunsIn(T, w)
    PROVE  /\ OneRunIn(Started(T, w))
           /\ \A v \in Work : RunsIn(Started(T, w), v) => v = w \/ RunsIn(T, v)
<1>. DEFINE s == T[w]
            N == Started(T, w)
<1>1. s \in Seq(AttemptStatus) /\ "running" \in AttemptStatus
  BY DEF AttemptTable, AttemptStatus
<1>2. /\ Append(s, "running") \in Seq(AttemptStatus)
      /\ DOMAIN Append(s, "running") = 1..Len(s) + 1
      /\ Len(Append(s, "running")) = Len(s) + 1
      /\ \A n \in 1..Len(s) : Append(s, "running")[n] = s[n]
  BY <1>1
<1>3. N \in AttemptTable /\ \A v \in Work \ {w} : N[v] = T[v]
  BY <1>2 DEF AttemptTable, Started
<1>4. N[w] = Append(s, "running")
  BY DEF AttemptTable, Started
<1>5. \A n \in 1..Len(s) : s[n] # "running"
  BY <1>1 DEF RunsIn
<1>6. \A n \in DOMAIN N[w] : N[w][n] = "running" => n = Len(N[w])
  BY <1>1, <1>2, <1>4, <1>5
<1>7. OneRunIn(N)
  BY <1>3, <1>6 DEF OneRunIn
<1>8. \A v \in Work : RunsIn(N, v) => v = w \/ RunsIn(T, v)
  BY <1>3 DEF RunsIn
<1>. QED BY <1>3, <1>7, <1>8

\* Ending every running attempt of some works starts none elsewhere.
LEMMA EndedStops ==
    ASSUME NEW T \in AttemptTable, OneRunIn(T),
           NEW W, NEW status \in AttemptStatus \ {"running"}
    PROVE  /\ OneRunIn(Ended(T, W, status))
           /\ \A v \in Work : RunsIn(Ended(T, W, status), v) => RunsIn(T, v)
           /\ \A v \in Work \cap W : ~RunsIn(Ended(T, W, status), v)
<1>. DEFINE E == Ended(T, W, status)
            stop(w) == [n \in DOMAIN T[w] |->
                          IF T[w][n] = "running" THEN status ELSE T[w][n]]
<1>2. \A w \in Work : DOMAIN stop(w) = DOMAIN T[w] /\ \A n \in DOMAIN T[w] : stop(w)[n] # "running"
  OBVIOUS
<1>3. \A w \in Work : E[w] = IF w \in W THEN stop(w) ELSE T[w]
  BY DEF Ended
<1>. HIDE DEF stop
<1>5. OneRunIn(E)
  BY <1>2, <1>3 DEF OneRunIn
<1>6. /\ \A v \in Work : RunsIn(E, v) => RunsIn(T, v)
      /\ \A v \in Work \cap W : ~RunsIn(E, v)
  BY <1>2, <1>3 DEF RunsIn
<1>. QED BY <1>5, <1>6

(***************************************************************************)
(* Type correctness: Init => TypeOK, and every action preserves it.        *)
(***************************************************************************)

\* The fresh run database is well typed.
LEMMA TypeInit == Init => TypeOK
<1>. SUFFICES ASSUME Init PROVE TypeOK
  OBVIOUS
<1>1. NoFile \in Files /\ <<>> \in Seq(AttemptStatus) /\ 0 \in 0..MaxReopens
  BY ConfigAssumption DEF Files, ConfigAssumption
<1>. QED BY <1>1 DEF Init, TypeOK, States, Phases, Stages, NoWork

\* A scheduler step leaves the volatile state well formed.
SchedTypeOK == /\ phase \in Phases /\ capped \in BOOLEAN
               /\ todo \subseteq Work /\ retry \subseteq Work
               /\ pc \in Stages /\ cur \in Work \cup {NoWork}
               /\ pc = "none" <=> cur = NoWork

\* The scheduler's volatile state stays well typed when a handler goes on,
LEMMA GotoType == ASSUME TypeOK, NEW w \in Work, NEW s \in Stages \ {"none"}, Goto(s, w)
                  PROVE  SchedTypeOK'
BY WorkFacts DEF TypeOK, SchedTypeOK, Goto

\* ... when it is over,
LEMMA DoneType == ASSUME TypeOK, NEW w, Done(w) PROVE SchedTypeOK'
BY DEF TypeOK, SchedTypeOK, Done, Stages

\* ... and when the process ends.
LEMMA StopType == ASSUME TypeOK, NEW why \in Phases, Stop(why) PROVE SchedTypeOK'
BY DEF TypeOK, SchedTypeOK, Stop, Stages

\* Concluding a lease leaves well-typed leases.
LEMMA ConcludeType == ASSUME state \in [Lease -> States], NEW l, NEW outcome \in Concluded
                      PROVE  Conclude(l, outcome) \in [Lease -> States]
BY DEF Conclude, States

\* The work of the handler in hand.
LEMMA CurFacts ==
    ASSUME TypeOK, pc # "none"
    PROVE  cur \in Work /\ cur[1] \in Lease
BY WorkFacts DEF TypeOK

\* The ingest of a seat's conclusion writes well-typed rows.
LEMMA SeatType == ASSUME TypeOK, NEW l \in Lease, SeatHandler(l) PROVE TypeOK'
<1>0. /\ Seat(l) \in Work /\ Current(l) \in Delivery /\ Current(l) \in Work
      /\ attempts \in AttemptTable
      /\ {"adjudicate", "rejected", "archive"} \subseteq Stages \ {"none"}
  BY WorkFacts, CurrentFacts DEF TypeOK, AttemptTable, Stages
<1>. USE DEF TypeOK, SchedTypeOK, AttemptTable, envVars
<1>1. CASE SeatInfraFailed(l)
  <2>1. attempts' \in AttemptTable
    BY <1>0, <1>1, TableTypes DEF SeatInfraFailed, AttemptStatus
  <2>. QED BY <1>0, <1>1, <2>1, GotoType DEF SeatInfraFailed
<1>2. CASE SeatAlreadyConcluded(l)
  BY <1>0, <1>2, GotoType DEF SeatAlreadyConcluded, dbVars
<1>3. CASE SeatExits(l)
  <2>1. attempts' \in AttemptTable
    BY <1>0, <1>3, TableTypes DEF SeatExits, AttemptStatus
  <2>2. state' \in [Lease -> States]
    BY <1>3, ConcludeType DEF SeatExits, Concluded
  <2>. QED BY <1>0, <1>3, <2>1, <2>2, GotoType DEF SeatExits
<1>4. CASE SeatDelivers(l)
  <2>1. attempts' \in AttemptTable
    BY <1>0, <1>4, TableTypes DEF SeatDelivers, AttemptStatus
  <2>2. state' \in [Lease -> States]
    BY <1>4 DEF SeatDelivers, States
  <2>3. verdict' \in [Delivery -> {"none", "open"} \cup Verdicts]
    BY <1>4 DEF SeatDelivers
  <2>. QED BY <1>0, <1>4, <2>1, <2>2, <2>3, GotoType DEF SeatDelivers
<1>5. CASE SeatRejected(l)
  <2>1. rejections' \in [Lease -> Nat]
    BY <1>5 DEF SeatRejected
  <2>. QED BY <1>0, <1>5, <2>1, GotoType DEF SeatRejected
<1>. QED BY <1>1, <1>2, <1>3, <1>4, <1>5 DEF SeatHandler

\* So does the ingest of an experiment's result.
LEMMA ExpType == ASSUME TypeOK, NEW d \in Delivery, ExpHandler(d) PROVE TypeOK'
<1>0. /\ d \in Work /\ attempts \in AttemptTable
      /\ {"exhausted", "judged", "archive"} \subseteq Stages \ {"none"}
      /\ "down" \in Phases
  BY WorkFacts DEF TypeOK, AttemptTable, Stages, Phases
<1>. USE DEF TypeOK, SchedTypeOK, AttemptTable, envVars
<1>1. CASE IngestRaises(d)
  BY <1>0, <1>1, StopType DEF IngestRaises, dbVars
<1>2. CASE ExpInfraFailed(d)
  <2>1. attempts' \in AttemptTable
    BY <1>0, <1>2, TableTypes DEF ExpInfraFailed, AttemptStatus
  <2>2. verdict' \in [Delivery -> {"none", "open"} \cup Verdicts]
    BY <1>2 DEF ExpInfraFailed
  <2>. QED BY <1>0, <1>2, <2>1, <2>2, GotoType DEF ExpInfraFailed
<1>3. CASE ExpExhausted(d)
  <2>1. verdict' \in [Delivery -> {"none", "open"} \cup Verdicts]
    BY <1>3 DEF ExpExhausted, Verdicts
  <2>. QED BY <1>0, <1>3, <2>1, GotoType DEF ExpExhausted
<1>4. CASE ExpJudged(d)
  <2>1. verdict' \in [Delivery -> {"none", "open"} \cup Verdicts]
    BY <1>4 DEF ExpJudged, ExpResult
  <2>2. nodes' \subseteq Delivery
    BY <1>4 DEF ExpJudged, WithNode
  <2>. QED BY <1>0, <1>4, <2>1, <2>2, GotoType DEF ExpJudged
<1>. QED BY <1>1, <1>2, <1>3, <1>4 DEF ExpHandler

\* Spawning a worker, for work that exists.
LEMMA SpawnType ==
    ASSUME TypeOK, NEW w \in Work, Spawn(w)
    PROVE  workers' \subseteq Work \X Nat /\ ledger' \in [Work -> Nat]
<1>1. Len(attempts[w]) \in Nat
  BY DEF TypeOK
<1>. QED BY <1>1 DEF Spawn, TypeOK

\* The later stages of a handler write well-typed rows.
LEMMA StageType == ASSUME TypeOK, HandlerStage PROVE TypeOK'
<1>0. /\ pc # "none" => cur \in Work /\ cur[1] \in Lease
      /\ attempts \in AttemptTable
      /\ {"cut_off", "resolve", "close", "archive"} \subseteq Stages \ {"none"}
      /\ NoFile \in Files
  BY CurFacts DEF TypeOK, AttemptTable, Stages, Files
<1>. USE DEF TypeOK, SchedTypeOK, AttemptTable, envVars
<1>1. CASE LaunchAdjudication
  <2>1. Current(cur[1]) \in Work
    BY <1>0, <1>1, CurrentFacts, WorkFacts DEF LaunchAdjudication
  <2>. QED BY <1>0, <1>1, <2>1, SpawnType, GotoType DEF LaunchAdjudication, dbVars
<1>2. CASE SeatCorrected
  <2>1. attempts' \in AttemptTable
    BY <1>0, <1>2, TableTypes DEF SeatCorrected, AttemptStatus
  <2>. QED BY <1>0, <1>2, <2>1, GotoType DEF SeatCorrected
<1>3. CASE SeatCutOff
  <2>1. state' \in [Lease -> States]
    BY <1>3, ConcludeType DEF SeatCutOff, Concluded
  <2>. QED BY <1>0, <1>3, <2>1, GotoType DEF SeatCutOff
<1>4. CASE CutOffSucceeded
  <2>1. attempts' \in AttemptTable
    BY <1>0, <1>4, TableTypes DEF CutOffSucceeded, AttemptStatus
  <2>. QED BY <1>0, <1>4, <2>1, GotoType DEF CutOffSucceeded
<1>5. CASE ExpSucceeded
  <2>1. attempts' \in AttemptTable
    BY <1>0, <1>5, TableTypes DEF ExpSucceeded, AttemptStatus
  <2>. QED BY <1>0, <1>5, <2>1, GotoType DEF ExpSucceeded
<1>6. CASE CloseExhausted
  <2>1. state' \in [Lease -> States]
    BY <1>6, ConcludeType DEF CloseExhausted, Concluded
  <2>. QED BY <1>0, <1>6, <2>1, GotoType DEF CloseExhausted
<1>7. CASE ResolveAccepted
  <2>1. state' \in [Lease -> States]
    BY <1>7, ConcludeType DEF ResolveAccepted, Concluded
  <2>. QED BY <1>0, <1>7, <2>1, GotoType DEF ResolveAccepted, Resolving, Resolved
<1>8. CASE ResolveParked
  BY <1>0, <1>8, GotoType DEF ResolveParked, Resolving, Resolved
<1>9. CASE ResolveBudget
  <2>1. state' \in [Lease -> States]
    BY <1>9, ConcludeType DEF ResolveBudget, Concluded
  <2>. QED BY <1>0, <1>9, <2>1, GotoType DEF ResolveBudget, WriteBack, Resolving, Resolved
<1>10. CASE ResolveReopened
  <2>1. state' \in [Lease -> States]
    BY <1>10 DEF ResolveReopened, States
  <2>2. reopens' \in [Lease -> 0..MaxReopens]
    <3>1. cur[1] \in Lease /\ reopens[cur[1]] + 1 \in 0..MaxReopens
      BY <1>0, <1>10, ConfigAssumption
         DEF ResolveReopened, WriteBack, Resolving, SentBack, ConfigAssumption
    <3>. QED BY <1>10, <3>1 DEF ResolveReopened
  <2>. QED BY <1>0, <1>10, <2>1, <2>2, GotoType
           DEF ResolveReopened, WriteBack, Resolving, Resolved
<1>11. CASE ResolveRejected
  <2>1. state' \in [Lease -> States]
    BY <1>11, ConcludeType DEF ResolveRejected, Concluded
  <2>. QED BY <1>0, <1>11, <2>1, GotoType DEF ResolveRejected, WriteBack, Resolving, Resolved
<1>12. CASE Archive
  BY <1>0, <1>12, DoneType DEF Archive, dbVars
<1>13. CASE Submit
  BY <1>0, <1>13, SpawnType, DoneType DEF Submit, dbVars
<1>. QED BY <1>1, <1>2, <1>3, <1>4, <1>5, <1>6, <1>7, <1>8, <1>9, <1>10, <1>11,
            <1>12, <1>13 DEF HandlerStage

\* So does starting an attempt.
LEMMA StartType == ASSUME TypeOK, Start PROVE TypeOK'
<1>0. {"record", "submit"} \subseteq Stages \ {"none"} /\ attempts \in AttemptTable
  BY DEF Stages, TypeOK, AttemptTable
<1>. USE DEF TypeOK, SchedTypeOK, AttemptTable, envVars
<1>1. ASSUME NEW l \in Lease, Allocate(l) PROVE TypeOK'
  <2>1. state' \in [Lease -> States]
    BY <1>1 DEF Allocate, States
  <2>. QED BY <1>0, <1>1, <2>1, WorkFacts, GotoType DEF Allocate
<1>2. ASSUME NEW l \in Lease, Reactivate(l) PROVE TypeOK'
  <2>1. state' \in [Lease -> States]
    BY <1>2 DEF Reactivate, States
  <2>. QED BY <1>0, <1>2, <2>1, WorkFacts, GotoType DEF Reactivate
<1>3. ASSUME NEW w \in Work, ResubmitSkipped(w) PROVE TypeOK'
  BY <1>3, DoneType DEF ResubmitSkipped, dbVars
<1>4. ASSUME NEW w \in Work, RecordAttempt(w) PROVE TypeOK'
  <2>1. attempts' \in AttemptTable
    BY <1>0, <1>4, TableTypes DEF RecordAttempt, AttemptStatus
  <2>. QED BY <1>0, <1>4, <2>1, GotoType DEF RecordAttempt
<1>. QED BY <1>1, <1>2, <1>3, <1>4 DEF Start

\* Going from phase to phase writes no row.
LEMMA PhaseType == ASSUME TypeOK, PhaseStep PROVE TypeOK'
<1>. USE DEF TypeOK, SchedTypeOK, envVars, dbVars
<1>0. /\ Phases = Phases \cup {"retry", "allocate", "pollSeats", "pollExps", "reopen",
                               "idle", "capped", "quiesced"}
      /\ RunningIn(Seats) \subseteq Work /\ RunningIn(Delivery) \subseteq Work
      /\ \A l \in Lease : Seat(l) \in Work
      /\ CapReached \in BOOLEAN
  BY WorkFacts DEF Phases, RunningIn, CapReached
<1>1. CASE EnterRetry
  BY <1>0, <1>1 DEF EnterRetry, Enter
<1>2. CASE EnterAllocate
  BY <1>0, <1>2 DEF EnterAllocate, Enter
<1>3. CASE EnterPollSeats
  BY <1>0, <1>3 DEF EnterPollSeats, Enter
<1>4. CASE EnterPollExps
  BY <1>0, <1>4 DEF EnterPollExps, Enter
<1>5. CASE EnterReopen
  BY <1>0, <1>5 DEF EnterReopen, Enter
<1>6. CASE EndStep
  BY <1>0, <1>6, StopType DEF EndStep
<1>7. ASSUME NEW w \in Work, PollMiss(w) \/ ResultUnread(w) PROVE TypeOK'
  BY <1>7, DoneType DEF PollMiss, ResultUnread
<1>. QED BY <1>1, <1>2, <1>3, <1>4, <1>5, <1>6, <1>7 DEF PhaseStep

\* Reconciliation ends attempts and drops ledger entries, nothing else.
LEMMA ReconcileType == ASSUME TypeOK, NEW gone, Reconcile(gone), faults' \in Nat PROVE TypeOK'
<1>. USE DEF TypeOK, AttemptTable
<1>1. attempts' \in AttemptTable
  BY EndedType DEF Reconcile, AttemptStatus
<1>2. Known \subseteq Work /\ {"ingest"} \subseteq Phases
  BY WorkFacts DEF Known, Phases
<1>3. ledger' \in [Work -> Nat] /\ todo' \subseteq Work /\ retry' \subseteq Work
  BY <1>2 DEF Reconcile
<1>. QED BY <1>1, <1>2, <1>3 DEF Reconcile

\* Workers, crashes and restarts keep the files and tables well typed.
LEMMA EnvironmentType == ASSUME TypeOK, Environment PROVE TypeOK'
<1>. USE DEF TypeOK, SchedTypeOK, schedVars, dbVars
<1>0. \A kind : Fault(kind) => faults' \in Nat
  BY DEF Fault
<1>1. ASSUME NEW w \in Work, NEW n \in 1..Len(attempts[w]), WorkerEnds(w, n)
      PROVE  TypeOK'
  <2>1. \A kind \in Kinds(w) : [kind |-> kind, by |-> n] \in Files
    BY <1>1 DEF Kinds, Files
  <2>2. file' \in [Work -> Files] /\ faults' \in Nat
    BY <1>0, <1>1, <2>1 DEF WorkerEnds
  <2>. QED BY <1>1, <2>2 DEF WorkerEnds
<1>2. ASSUME NEW job \in workers, WorkerDies(job[1], job[2]) PROVE TypeOK'
  BY <1>0, <1>2 DEF WorkerDies
<1>3. CASE Interrupt
  BY <1>0, <1>3, StopType DEF Interrupt, Phases
<1>4. CASE Crash
  BY <1>0, <1>4, StopType DEF Crash, Phases
<1>5. CASE Restart
  <2>1. faults' \in Nat
    BY <1>0, <1>5 DEF Restart
  <2>2. attempts' \in AttemptTable /\ workers' \subseteq Work \X Nat
    <3>1. attempts \in AttemptTable
      BY DEF AttemptTable
    <3>2. CASE Backend = "local"
      BY <1>5, <3>1, <3>2, EndedType DEF Restart, Reset, AttemptStatus
    <3>3. CASE Backend # "local"
      BY <1>5, <3>1, <3>3 DEF Restart, Reset
    <3>. QED BY <3>2, <3>3
  <2>3. phase' \in Phases /\ limit' \in EvalLimits \cup {NoLimit}
    BY <1>5 DEF Restart, Phases
  <2>. QED BY <1>5, <2>1, <2>2, <2>3 DEF Restart, AttemptTable
<1>. QED BY <1>1, <1>2, <1>3, <1>4, <1>5 DEF Environment, WorkerStep

\* The run database, the run directory and the scheduler's state stay well typed,
\* whatever the workers report and wherever the scheduler is stopped.
THEOREM TypeCorrect == Spec => []TypeOK
<1>1. TypeOK /\ [Next]_vars => TypeOK'
  <2>. SUFFICES ASSUME TypeOK, [Next]_vars PROVE TypeOK'
    OBVIOUS
  <2>1. CASE SchedulerStep
    BY <2>1, SeatType, ExpType, StageType, StartType, PhaseType DEF SchedulerStep
  <2>2. CASE ReconcileAll \/ ReconcileSome \/ ReconcileGhost
    <3>1. faults' \in Nat
      <4>1. UNCHANGED faults \/ Fault("ghost")
        BY <2>2 DEF ReconcileAll, ReconcileSome, ReconcileGhost
      <4>. QED BY <4>1 DEF Fault, TypeOK
    <3>. QED BY <2>2, <3>1, ReconcileType DEF ReconcileAll, ReconcileSome, ReconcileGhost
  <2>3. CASE Environment
    BY <2>3, EnvironmentType
  <2>4. CASE Rest \/ UNCHANGED vars
    BY <2>4 DEF Rest, vars, dbVars, envVars, schedVars, TypeOK
  <2>. QED BY <2>1, <2>2, <2>3, <2>4 DEF Next
<1>. QED BY TypeInit, <1>1, PTL DEF Spec

(***************************************************************************)
(* Safety.  LeaseMatchesVerdicts and OnlyTheDeliveryRuns are not inductive *)
(* by themselves: a handler acts on a list and a stage that an earlier     *)
(* transaction chose, and only ListsStayTrue says that the choice is still *)
(* right.  They are proved together.                                       *)
(***************************************************************************)

Inv == /\ TypeOK
       /\ SingleFlight
       /\ LeaseMatchesVerdicts
       /\ OnlyTheDeliveryRuns
       /\ ListsStayTrue

LeaseOK(l) == MatchesVerdicts(l) /\ RunsOnlyDelivery(l)

\* A run that has bought no lease satisfies the invariant.
LEMMA InvInit == Init => Inv
<1>. SUFFICES ASSUME Init PROVE Inv
  OBVIOUS
<1>1. TypeOK
  BY TypeInit
<1>2. \A w \in Work : ~Running(w)
  BY DEF Init, Running, RunsIn
<1>3. SingleFlight
  BY DEF Init, SingleFlight, OneRunIn
<1>4. LeaseMatchesVerdicts
  <2>1. \A d \in Delivery : verdict[d] = "none"
    BY DEF Init
  <2>2. \A l \in Lease : Current(l) \in Delivery /\ reopens[l] = 0 /\ state[l] = "unallocated"
    BY <1>1, CurrentFacts DEF Init, TypeOK
  <2>3. \A l \in Lease, i \in 1..MaxReopens + 1 : <<l, i>> \in Delivery
    BY DEF Delivery
  <2>. QED BY <2>1, <2>2, <2>3
           DEF LeaseMatchesVerdicts, MatchesVerdicts, RejectedUpTo
<1>5. OnlyTheDeliveryRuns
  BY <1>2, WorkFacts DEF OnlyTheDeliveryRuns, RunsOnlyDelivery, Init, Delivery
<1>6. ListsStayTrue
  BY DEF Init, ListsStayTrue, StageOK, TodoOK
<1>. QED BY <1>1, <1>3, <1>4, <1>5, <1>6 DEF Inv

\* A lease whose row and experiments a step leaves alone stays consistent, as
\* long as the step starts no attempt for it.
LEMMA LeaseFrame ==
    ASSUME TypeOK, NEW l \in Lease, LeaseOK(l),
           state'[l] = state[l], reopens'[l] = reopens[l],
           \A d \in Delivery : d[1] = l => verdict'[d] = verdict[d],
           \A w \in Work : w[1] = l /\ Running(w)' => Running(w)
    PROVE  LeaseOK(l)'
<1>1. Current(l)' = Current(l) /\ Current(l) \in Delivery /\ Current(l)[1] = l
  BY CurrentFacts DEF Current, TypeOK
<1>2. \A i \in 1..MaxReopens + 1 : <<l, i>> \in Delivery /\ <<l, i>> \in Work /\ <<l, i>>[1] = l
  BY WorkFacts DEF Delivery
<1>3. MatchesVerdicts(l)'
  BY <1>1, <1>2 DEF LeaseOK, MatchesVerdicts, RejectedUpTo
<1>4. RunsOnlyDelivery(l)'
  BY <1>2, WorkFacts DEF LeaseOK, RunsOnlyDelivery
<1>. QED BY <1>3, <1>4 DEF LeaseOK

\* What the invariant says of the tables, lease by lease.
LEMMA AllLeases == LeaseMatchesVerdicts /\ OnlyTheDeliveryRuns <=> \A l \in Lease : LeaseOK(l)
BY DEF LeaseMatchesVerdicts, OnlyTheDeliveryRuns, LeaseOK

\* A step that leaves the rows of every lease alone and starts nothing.
LEMMA DatabaseFrame ==
    ASSUME Inv, UNCHANGED <<state, reopens, verdict>>,
           \A w \in Work : Running(w)' => Running(w)
    PROVE  (LeaseMatchesVerdicts /\ OnlyTheDeliveryRuns)'
<1>1. \A l \in Lease : LeaseOK(l)'
  BY AllLeases, LeaseFrame DEF Inv
<1>. QED BY <1>1 DEF LeaseMatchesVerdicts, OnlyTheDeliveryRuns, LeaseOK

\* In an ingest phase no two works of the list belong to the same lease, the
\* work in hand included: a lease waits for its seat or for its delivery.
LEMMA OneWorkPerLease ==
    ASSUME Inv, phase \in IngestPhases, NEW w \in Work, NEW v \in todo \ {cur}, v # w,
           \/ w \in todo /\ pc = "none"
           \/ w = cur /\ pc \in {"rejected", "judged", "exhausted", "resolve", "close"}
    PROVE  v[1] # w[1]
<1>1. v \in Work /\ (v \in Seats => state[v[1]] # "awaiting_adjudication")
      /\ (v \in Delivery => Deciding(v))
  BY WorkFacts DEF Inv, TypeOK, ListsStayTrue, TodoOK
<1>2. /\ w \in Seats => state[w[1]] # "awaiting_adjudication"
      /\ w \in Delivery => Deciding(w)
  <2>1. CASE w \in todo /\ pc = "none"
    <3>1. w \in todo \ {cur}
      BY <2>1, WorkFacts DEF Inv, TypeOK
    <3>. QED BY <3>1, WorkFacts DEF Inv, ListsStayTrue, TodoOK
  <2>2. CASE w = cur /\ pc = "rejected"
    BY <2>2, WorkFacts DEF Inv, ListsStayTrue, StageOK
  <2>3. CASE w = cur /\ pc \in {"judged", "exhausted", "resolve", "close"}
    BY <2>3, WorkFacts DEF Inv, ListsStayTrue, StageOK, Deciding
  <2>. QED BY <2>1, <2>2, <2>3
<1>3. CASE w \in Seats
  BY <1>1, <1>2, <1>3, WorkFacts DEF Deciding
<1>4. CASE w \in Delivery
  BY <1>1, <1>2, <1>4, WorkFacts DEF Deciding
<1>. QED BY <1>3, <1>4, WorkFacts

\* The list of a phase survives a step that changes one lease, when none of its
\* works but the one in hand belongs to that lease.
LEMMA TodoFrame ==
    ASSUME Inv, NEW l \in Lease, phase' = phase, todo' \ {cur'} \subseteq todo \ {cur},
           phase \in IngestPhases => \A v \in todo' \ {cur'} : v[1] # l,
           \A k \in Lease \ {l} : state'[k] = state[k] /\ reopens'[k] = reopens[k]
    PROVE  TodoOK'
<1>. SUFFICES ASSUME phase \in IngestPhases, NEW v \in todo' \ {cur'}
              PROVE  IF v \in Seats THEN state'[v[1]] # "awaiting_adjudication"
                                    ELSE Deciding(v)'
  BY DEF TodoOK
<1>1. v \in Work /\ v[1] \in Lease \ {l} /\ v \in todo \ {cur}
  BY WorkFacts DEF Inv, TypeOK
<1>. QED BY <1>1 DEF Inv, ListsStayTrue, TodoOK, Deciding, Current

\* ... or a step that changes no lease.
LEMMA TodoKept ==
    ASSUME Inv, phase' = phase, todo' \ {cur'} \subseteq todo \ {cur},
           UNCHANGED <<state, reopens>>
    PROVE  TodoOK'
BY DEF Inv, ListsStayTrue, TodoOK, Deciding, Current

\* The ingest of a seat's conclusion: parking, closing or correcting one lease.
LEMMA SeatSafe ==
    ASSUME Inv, TypeOK', NEW l \in Lease, SeatHandler(l)
    PROVE  (SingleFlight /\ LeaseMatchesVerdicts /\ OnlyTheDeliveryRuns /\ ListsStayTrue)'
<1>. DEFINE w == Seat(l)
            d == Current(l)
<1>0. /\ w \in Work /\ w \in Seats /\ w[1] = l /\ w \notin Delivery
      /\ d \in Delivery /\ d \in Work /\ d[1] = l /\ d[2] = reopens[l] + 1
      /\ attempts \in AttemptTable /\ OneRunIn(attempts)
      /\ LeaseOK(l)
  BY WorkFacts, CurrentFacts DEF Inv, TypeOK, AttemptTable, SingleFlight,
     LeaseMatchesVerdicts, OnlyTheDeliveryRuns, LeaseOK
<1>1. /\ phase \in IngestPhases /\ w \in todo /\ pc = "none" /\ cur = NoWork
      /\ phase' = phase /\ todo' = todo /\ cur' = w /\ pc' # "none"
      /\ pc' \in {"archive", "adjudicate", "rejected"}
  BY DEF SeatHandler, SeatInfraFailed, SeatAlreadyConcluded, SeatExits, SeatDelivers,
         SeatRejected, SeatResult, Take, InHand, First, Goto, Inv, TypeOK
<1>a. todo' \ {cur'} \subseteq todo \ {cur} /\ todo' \ {cur'} = todo \ {w}
  BY <1>1, WorkFacts DEF Inv, TypeOK
<1>2. state[l] # "awaiting_adjudication"
  BY <1>0, <1>1, WorkFacts DEF Inv, ListsStayTrue, TodoOK
<1>3. \A v \in todo \ {w} : v[1] # l
  BY <1>0, <1>1, OneWorkPerLease, WorkFacts DEF Inv, TypeOK
<1>4. \A v \in Work : v[1] = l /\ v \in Delivery => ~Running(v)
  <2>. SUFFICES ASSUME NEW v \in Delivery, v[1] = l PROVE ~Running(v)
    OBVIOUS
  <2>1. v = <<l, v[2]>> /\ v[2] \in 1..MaxReopens + 1
    BY DEF Delivery
  <2>. QED BY <1>0, <1>2, <2>1 DEF LeaseOK, RunsOnlyDelivery
<1>5. CASE SeatInfraFailed(l)
  <2>1. SingleFlight' /\ \A v \in Work : Running(v)' => Running(v)
    BY <1>0, <1>5, MarkedStops DEF SeatInfraFailed, AttemptStatus, SingleFlight, Running
  <2>2. (LeaseMatchesVerdicts /\ OnlyTheDeliveryRuns)'
    BY <1>5, <2>1, DatabaseFrame DEF SeatInfraFailed
  <2>3. ListsStayTrue'
    BY <1>1, <1>a, <1>5, TodoKept DEF SeatInfraFailed, ListsStayTrue, StageOK, Goto
  <2>. QED BY <2>1, <2>2, <2>3
<1>6. CASE SeatAlreadyConcluded(l)
  <2>1. SingleFlight' /\ \A v \in Work : Running(v)' => Running(v)
    BY <1>0, <1>6 DEF SeatAlreadyConcluded, dbVars, SingleFlight, Running
  <2>2. (LeaseMatchesVerdicts /\ OnlyTheDeliveryRuns)'
    BY <1>6, <2>1, DatabaseFrame DEF SeatAlreadyConcluded, dbVars
  <2>3. ListsStayTrue'
    BY <1>1, <1>a, <1>6, TodoKept DEF SeatAlreadyConcluded, dbVars, ListsStayTrue, StageOK, Goto
  <2>. QED BY <2>1, <2>2, <2>3
<1>7. CASE SeatRejected(l)
  <2>1. SingleFlight' /\ \A v \in Work : Running(v)' => Running(v)
    BY <1>0, <1>7 DEF SeatRejected, SingleFlight, Running
  <2>2. (LeaseMatchesVerdicts /\ OnlyTheDeliveryRuns)'
    BY <1>7, <2>1, DatabaseFrame DEF SeatRejected
  <2>3. StageOK'
    BY <1>0, <1>1, <1>2, <1>7 DEF SeatRejected, StageOK, Goto
  <2>4. TodoOK'
    BY <1>1, <1>a, <1>7, TodoKept DEF SeatRejected
  <2>. QED BY <2>1, <2>2, <2>3, <2>4 DEF ListsStayTrue
<1>8. CASE SeatExits(l)
  <2>1. SingleFlight' /\ \A v \in Work : Running(v)' => Running(v)
    BY <1>0, <1>8, MarkedStops DEF SeatExits, AttemptStatus, SingleFlight, Running
  <2>2. \A k \in Lease \ {l} : LeaseOK(k)'
    BY <1>8, <2>1, AllLeases, LeaseFrame DEF Inv, SeatExits, Conclude, TypeOK
  <2>3. LeaseOK(l)'
    <3>1. state'[l] \in {"concluded_abstain", "concluded_cut_off"}
      BY <1>8 DEF SeatExits, Conclude, Inv, TypeOK
    <3>2. verdict[d] = "none"
      BY <1>0, <1>2, <1>8 DEF SeatExits, OpenLease, LeaseOK, MatchesVerdicts, Inv, TypeOK, States
    <3>3. MatchesVerdicts(l)'
      BY <1>0, <1>8, <3>1, <3>2
         DEF SeatExits, LeaseOK, MatchesVerdicts, RejectedUpTo, Current
    <3>4. RunsOnlyDelivery(l)'
      BY <1>4, <2>1, <3>1, WorkFacts DEF RunsOnlyDelivery, Delivery
    <3>. QED BY <3>3, <3>4 DEF LeaseOK
  <2>4. TodoOK'
    BY <1>1, <1>a, <1>3, <1>8, TodoFrame DEF SeatExits, Conclude, Inv, TypeOK
  <2>5. StageOK'
    BY <1>8 DEF SeatExits, StageOK, Goto
  <2>. QED BY <2>1, <2>2, <2>3, <2>4, <2>5
           DEF LeaseMatchesVerdicts, OnlyTheDeliveryRuns, LeaseOK, ListsStayTrue
<1>9. CASE SeatDelivers(l)
  <2>. DEFINE ended == Marked(attempts, w, "succeeded")
  <2>1. /\ ended \in AttemptTable /\ OneRunIn(ended) /\ ~RunsIn(ended, w)
        /\ \A v \in Work : RunsIn(ended, v) => Running(v)
    BY <1>0, MarkedStops, TableTypes DEF AttemptStatus, Running
  <2>2. ~RunsIn(ended, d)
    BY <1>0, <1>4, <2>1
  <2>3. attempts' = ended \/ attempts' = Started(ended, d)
    BY <1>9 DEF SeatDelivers
  <2>. HIDE DEF ended
  <2>4. SingleFlight' /\ \A v \in Work : Running(v)' => v = d \/ RunsIn(ended, v)
    BY <1>0, <2>1, <2>2, <2>3, StartedRuns DEF SingleFlight, Running
  <2>5. \A k \in Lease \ {l} : LeaseOK(k)'
    <3>. SUFFICES ASSUME NEW k \in Lease \ {l} PROVE LeaseOK(k)'
      OBVIOUS
    <3>1. LeaseOK(k) /\ TypeOK
      BY AllLeases DEF Inv
    <3>2. \A v \in Work : v[1] = k /\ Running(v)' => Running(v)
      BY <1>0, <2>1, <2>4
    <3>3. state'[k] = state[k] /\ reopens'[k] = reopens[k]
          /\ \A e \in Delivery : e[1] = k => verdict'[e] = verdict[e]
      BY <1>0, <1>9 DEF SeatDelivers, Inv, TypeOK
    <3>. QED BY <3>1, <3>2, <3>3, LeaseFrame
  <2>6. LeaseOK(l)'
    <3>1. /\ state'[l] = "awaiting_adjudication" /\ reopens' = reopens
          /\ verdict'[d] # "none" /\ \A e \in Delivery \ {d} : verdict'[e] = verdict[e]
      BY <1>0, <1>9 DEF SeatDelivers, Inv, TypeOK
    <3>2. MatchesVerdicts(l)'
      <4>1. /\ RejectedUpTo(l, reopens[l]) /\ Current(l)' = d
            /\ reopens[l] \in 0..MaxReopens /\ MaxReopens \in Nat
        BY <1>0, <3>1, ConfigAssumption
           DEF LeaseOK, MatchesVerdicts, Current, Inv, TypeOK, ConfigAssumption
      <4>2. \A i \in 1..MaxReopens + 1 :
               <<l, i>> \in Delivery /\ (i # reopens[l] + 1 => <<l, i>> # d)
        BY <1>0 DEF Delivery
      <4>3. RejectedUpTo(l, reopens[l])'
        BY <3>1, <4>1, <4>2 DEF RejectedUpTo
      <4>. QED BY <3>1, <4>1, <4>3 DEF MatchesVerdicts
    <3>3. ~Running(w)'
      BY <1>0, <2>1, <2>4
    <3>4. \A i \in 1..MaxReopens + 1 : Running(<<l, i>>)' => i = reopens[l] + 1
      BY <1>0, <1>4, <2>1, <2>4, WorkFacts DEF Delivery
    <3>. QED BY <3>1, <3>2, <3>3, <3>4 DEF LeaseOK, RunsOnlyDelivery
  <2>7. TodoOK'
    BY <1>1, <1>a, <1>3, <1>9, TodoFrame DEF SeatDelivers, Inv, TypeOK
  <2>8. StageOK'
    BY <1>0, <1>9 DEF SeatDelivers, StageOK, Goto
  <2>. QED BY <2>4, <2>5, <2>6, <2>7, <2>8
           DEF LeaseMatchesVerdicts, OnlyTheDeliveryRuns, LeaseOK, ListsStayTrue
<1>. QED BY <1>5, <1>6, <1>7, <1>8, <1>9 DEF SeatHandler

\* The ingest of an experiment's result: deciding the delivery of a parked lease.
LEMMA ExpSafe ==
    ASSUME Inv, TypeOK', NEW d \in Delivery, ExpHandler(d)
    PROVE  (SingleFlight /\ LeaseMatchesVerdicts /\ OnlyTheDeliveryRuns /\ ListsStayTrue)'
<1>. DEFINE l == d[1]
<1>0. /\ d \in Work /\ d \notin Seats /\ l \in Lease
      /\ attempts \in AttemptTable /\ OneRunIn(attempts) /\ LeaseOK(l)
  BY WorkFacts DEF Inv, TypeOK, AttemptTable, SingleFlight, LeaseMatchesVerdicts,
     OnlyTheDeliveryRuns, LeaseOK
<1>1. phase \in IngestPhases /\ d \in todo /\ pc = "none" /\ cur = NoWork
  BY DEF ExpHandler, IngestRaises, ExpInfraFailed, ExpExhausted, ExpJudged,
         ExpResult, Take, InHand, First, Inv, TypeOK
<1>2. Deciding(d)
  BY <1>0, <1>1, WorkFacts DEF Inv, ListsStayTrue, TodoOK
<1>3. CASE IngestRaises(d)
  <2>1. SingleFlight' /\ \A v \in Work : Running(v)' => Running(v)
    BY <1>0, <1>3 DEF IngestRaises, dbVars, SingleFlight, Running
  <2>2. (LeaseMatchesVerdicts /\ OnlyTheDeliveryRuns)'
    BY <1>3, <2>1, DatabaseFrame DEF IngestRaises, dbVars
  <2>3. ListsStayTrue'
    BY <1>3 DEF IngestRaises, Stop, ListsStayTrue, StageOK, TodoOK, IngestPhases
  <2>. QED BY <2>1, <2>2, <2>3
<1>4. CASE ExpInfraFailed(d) \/ ExpExhausted(d) \/ ExpJudged(d)
  <2>1. SingleFlight' /\ \A v \in Work : Running(v)' => Running(v)
    <3>1. attempts' = Marked(attempts, d, "failed") \/ attempts' = attempts
      BY <1>4 DEF ExpInfraFailed, ExpExhausted, ExpJudged
    <3>. QED BY <1>0, <3>1, MarkedStops DEF AttemptStatus, SingleFlight, Running
  <2>2. /\ UNCHANGED <<state, reopens>>
        /\ verdict'[d] # "none" /\ \A e \in Delivery \ {d} : verdict'[e] = verdict[e]
    BY <1>4 DEF ExpInfraFailed, ExpExhausted, ExpJudged, ExpResult, Verdicts, Inv, TypeOK
  <2>3. \A k \in Lease \ {l} : LeaseOK(k)'
    BY <2>1, <2>2, AllLeases, LeaseFrame DEF Inv
  <2>4. LeaseOK(l)'
    <3>1. Current(l)' = d /\ Current(l) = d /\ d = <<l, reopens[l] + 1>>
          /\ state'[l] = "awaiting_adjudication" /\ state[l] = "awaiting_adjudication"
      BY <1>2, <2>2 DEF Deciding, Current
    <3>2. \A i \in 1..MaxReopens + 1 :
             <<l, i>> \in Delivery /\ (i # reopens[l] + 1 => <<l, i>> # d)
      BY <1>0, <3>1 DEF Delivery
    <3>3. RejectedUpTo(l, reopens[l])'
      <4>1. RejectedUpTo(l, reopens[l]) /\ reopens[l] \in 0..MaxReopens /\ MaxReopens \in Nat
        BY <1>0, ConfigAssumption DEF LeaseOK, MatchesVerdicts, Inv, TypeOK, ConfigAssumption
      <4>. QED BY <2>2, <3>2, <4>1 DEF RejectedUpTo
    <3>4. MatchesVerdicts(l)'
      BY <2>2, <3>1, <3>3 DEF MatchesVerdicts
    <3>5. RunsOnlyDelivery(l)'
      BY <1>0, <2>1, <2>2, <3>2, WorkFacts DEF LeaseOK, RunsOnlyDelivery
    <3>. QED BY <3>4, <3>5 DEF LeaseOK
  <2>5. \/ Goto("archive", d)
        \/ Goto("exhausted", d) /\ verdict'[d] = "gate_rejected"
        \/ Goto("judged", d) /\ verdict'[d] \in Verdicts
    BY <1>4 DEF ExpInfraFailed, ExpExhausted, ExpJudged, ExpResult, Inv, TypeOK
  <2>6. StageOK'
    BY <1>2, <2>2, <2>5 DEF StageOK, Goto, Deciding, Current, Verdicts
  <2>7. TodoOK'
    BY <1>1, <2>2, <2>5, TodoKept, WorkFacts DEF Goto, Inv, TypeOK
  <2>. QED BY <2>1, <2>3, <2>4, <2>6, <2>7
           DEF LeaseMatchesVerdicts, OnlyTheDeliveryRuns, LeaseOK, ListsStayTrue
<1>. QED BY <1>3, <1>4 DEF ExpHandler

\* The stages of a handler that only touch the attempts of the work in hand, or
\* nothing of the database.
LEMMA MarkingSafe ==
    ASSUME Inv, TypeOK', LaunchAdjudication \/ SeatCorrected \/ CutOffSucceeded
                           \/ ExpSucceeded \/ ResolveParked \/ Archive \/ Submit
    PROVE  (SingleFlight /\ LeaseMatchesVerdicts /\ OnlyTheDeliveryRuns /\ ListsStayTrue)'
<1>1. /\ UNCHANGED <<state, reopens, verdict>> /\ phase' = phase
      /\ attempts' = attempts \/ attempts' = Marked(attempts, cur, "failed")
                              \/ attempts' = Marked(attempts, cur, "succeeded")
  BY DEF LaunchAdjudication, SeatCorrected, CutOffSucceeded, ExpSucceeded, ResolveParked,
         Resolved, Archive, Submit, dbVars, Goto, Done
<1>2. cur \in Work /\ attempts \in AttemptTable /\ OneRunIn(attempts)
  BY CurFacts DEF LaunchAdjudication, SeatCorrected, CutOffSucceeded, ExpSucceeded,
     ResolveParked, Resolving, Archive, Submit, Inv, TypeOK, SingleFlight, AttemptTable
<1>3. SingleFlight' /\ \A v \in Work : Running(v)' => Running(v)
  BY <1>1, <1>2, MarkedStops DEF AttemptStatus, SingleFlight, Running
<1>4. (LeaseMatchesVerdicts /\ OnlyTheDeliveryRuns)'
  BY <1>1, <1>3, DatabaseFrame
<1>5. StageOK'
  <2>1. CASE ExpSucceeded
    <3>0. cur' = cur /\ pc' = (IF pc = "judged" THEN "resolve" ELSE "close")
      BY <2>1 DEF ExpSucceeded, Goto
    <3>1. ~RunsIn(attempts', cur)
      BY <1>2, <2>1, MarkedStops DEF ExpSucceeded, AttemptStatus
    <3>2. /\ Deciding(cur) /\ verdict[cur] \in Verdicts
          /\ pc = "exhausted" => verdict[cur] = "gate_rejected"
      BY <2>1 DEF ExpSucceeded, Inv, ListsStayTrue, StageOK
    <3>3. Deciding(cur)'
      BY <1>1, <3>0, <3>2 DEF Deciding, Current
    <3>. QED BY <1>1, <2>1, <3>0, <3>1, <3>2, <3>3 DEF ExpSucceeded, StageOK, Running
  <2>2. CASE ~ExpSucceeded
    <3>1. pc' \in {"archive", "none"}
      BY <2>2 DEF LaunchAdjudication, SeatCorrected, CutOffSucceeded, ResolveParked,
         Resolved, Archive, Submit, Goto, Done
    <3>. QED BY <3>1 DEF StageOK
  <2>. QED BY <2>1, <2>2
<1>6. TodoOK'
  <2>1. todo' \ {cur'} \subseteq todo \ {cur}
    BY WorkFacts, <1>2 DEF LaunchAdjudication, SeatCorrected, CutOffSucceeded, ExpSucceeded,
       ResolveParked, Resolved, Archive, Submit, Goto, Done
  <2>. QED BY <1>1, <2>1, TodoKept
<1>. QED BY <1>3, <1>4, <1>5, <1>6 DEF ListsStayTrue

\* The stages that write a verdict or an exit to the row of one lease.
Closing == \/ SeatCutOff      \/ CloseExhausted  \/ ResolveAccepted
           \/ ResolveBudget   \/ ResolveReopened \/ ResolveRejected

\* The stages that close or reopen the lease of the handler in hand.
LEMMA ClosingSafe ==
    ASSUME Inv, TypeOK', Closing,
           NEW l \in Lease, l = cur[1], NEW k \in Nat, k = reopens[l]
    PROVE  (SingleFlight /\ LeaseMatchesVerdicts /\ OnlyTheDeliveryRuns /\ ListsStayTrue)'
<1>1. /\ UNCHANGED <<verdict, attempts, phase, todo>> /\ cur' = cur
      /\ pc \in {"rejected", "close", "resolve"} /\ pc' \in {"archive", "cut_off"}
  BY DEF Closing, SeatCutOff, CloseExhausted, ResolveAccepted, ResolveBudget, ResolveReopened,
         ResolveRejected, WriteBack, Resolving, Resolved, Goto
<1>2. cur \in Work /\ LeaseOK(l) /\ reopens[l] \in 0..MaxReopens
  BY <1>1, CurFacts, AllLeases DEF Inv, TypeOK
<1>3. SingleFlight' /\ \A v \in Work : Running(v)' <=> Running(v)
  BY <1>1 DEF SingleFlight, Running, Inv
<1>4. \A j \in Lease \ {l} : state'[j] = state[j] /\ reopens'[j] = reopens[j]
  BY <1>2 DEF Closing, SeatCutOff, CloseExhausted, ResolveAccepted, ResolveBudget,
         ResolveReopened, ResolveRejected, Conclude, Inv, TypeOK
<1>5. \A j \in Lease \ {l} : LeaseOK(j)'
  BY <1>1, <1>3, <1>4, AllLeases, LeaseFrame DEF Inv
<1>6. /\ pc = "rejected" => state[l] # "awaiting_adjudication" /\ cur \in Seats
      /\ pc \in {"close", "resolve"} => Deciding(cur) /\ verdict[cur] \in Verdicts /\ ~Running(cur)
      /\ pc = "close" => verdict[cur] = "gate_rejected"
  BY <1>1 DEF Inv, ListsStayTrue, StageOK
<1>7. CASE SeatCutOff
  <2>1. CASE ~OpenLease(l)
    <3>1. LeaseOK(l)'
      BY <1>1, <1>2, <1>3, <1>7, <2>1, LeaseFrame DEF SeatCutOff, Conclude, Inv
    <3>2. LeaseMatchesVerdicts' /\ OnlyTheDeliveryRuns'
      BY <1>5, <3>1 DEF LeaseMatchesVerdicts, OnlyTheDeliveryRuns, LeaseOK
    <3>3. TodoOK'
      BY <1>1, <1>7, <2>1, TodoKept DEF SeatCutOff, Conclude
    <3>4. StageOK'
      BY <1>1, <1>6, <1>7 DEF SeatCutOff, StageOK, Goto
    <3>. QED BY <1>3, <3>2, <3>3, <3>4 DEF ListsStayTrue
  <2>2. CASE OpenLease(l)
    <3>1. /\ state[l] \in {"researching", "reopen"} /\ state'[l] = "concluded_cut_off"
          /\ reopens' = reopens
      BY <1>1, <1>2, <1>6, <1>7, <2>2 DEF SeatCutOff, Conclude, OpenLease, Inv, TypeOK, States
    <3>2. LeaseOK(l)'
      BY <1>1, <1>2, <1>3, <3>1, WorkFacts
         DEF LeaseOK, MatchesVerdicts, RejectedUpTo, RunsOnlyDelivery, Current, Delivery
    <3>3. TodoOK'
      BY <1>1, <1>2, <1>4, <1>7, OneWorkPerLease, TodoFrame DEF SeatCutOff
    <3>4. StageOK'
      BY <1>1, <1>6, <1>7 DEF SeatCutOff, StageOK, Goto
    <3>. QED BY <1>3, <1>5, <3>2, <3>3, <3>4
             DEF LeaseMatchesVerdicts, OnlyTheDeliveryRuns, LeaseOK, ListsStayTrue
  <2>. QED BY <2>1, <2>2
<1>8. CASE pc \in {"close", "resolve"} /\ pc' = "archive"
  <2>1. /\ cur = Current(l) /\ cur = <<l, k + 1>> /\ cur \in Delivery
        /\ state[l] = "awaiting_adjudication" /\ verdict[cur] \in Verdicts
        /\ k \in 0..MaxReopens /\ MaxReopens \in Nat
    BY <1>2, <1>6, <1>8, ConfigAssumption DEF Deciding, Current, ConfigAssumption
  <2>2. \A i \in 1..MaxReopens + 1 : ~Running(<<l, i>>)'
    BY <1>2, <1>3, <1>6, <1>8, <2>1, WorkFacts DEF LeaseOK, RunsOnlyDelivery, Delivery
  <2>3. MatchesVerdicts(l)' /\ state'[l] \notin {"unallocated", "awaiting_adjudication"}
    <3>1. CASE /\ reopens' = reopens
               /\ \/ verdict[cur] = "completed" /\ state'[l] = "concluded_delivered"
                  \/ verdict[cur] = "gate_rejected" /\ state'[l] = "concluded_cut_off"
                  \/ /\ verdict[cur] = "gate_rejected" /\ state'[l] = "concluded_rejected"
                     /\ k = MaxReopens
      BY <1>1, <1>2, <2>1, <3>1 DEF LeaseOK, MatchesVerdicts, RejectedUpTo, Current
    <3>2. CASE /\ verdict[cur] = "gate_rejected" /\ state'[l] = "reopen"
               /\ k < MaxReopens /\ reopens'[l] = k + 1
      <4>1. RejectedUpTo(l, k)
        BY <1>2 DEF LeaseOK, MatchesVerdicts
      <4>2. RejectedUpTo(l, k + 1)' /\ verdict'[<<l, k + 2>>] = "none"
        BY <1>1, <2>1, <3>2, <4>1 DEF RejectedUpTo
      <4>3. Current(l)' = <<l, k + 2>>
        BY <2>1, <3>2 DEF Current
      <4>. QED BY <3>2, <4>2, <4>3 DEF MatchesVerdicts
    <3>3. OpenLease(cur[1]) /\ state \in [Lease -> States]
      BY <2>1 DEF OpenLease, Concluded, Inv, TypeOK
    <3>4. CASE CloseExhausted \/ ResolveAccepted \/ ResolveBudget
      <4>1. reopens' = reopens
        BY <3>4 DEF CloseExhausted, ResolveAccepted, ResolveBudget
      <4>2. \/ /\ verdict[cur] = "completed"
               /\ state' = [state EXCEPT ![cur[1]] = "concluded_delivered"]
            \/ /\ verdict[cur] = "gate_rejected"
               /\ state' = [state EXCEPT ![cur[1]] = "concluded_cut_off"]
        BY <1>6, <3>3, <3>4 DEF CloseExhausted, ResolveAccepted, ResolveBudget, WriteBack,
                                Resolving, Conclude
      <4>. QED BY <3>1, <3>3, <4>1, <4>2
    <3>5. CASE ResolveReopened
      BY <2>1, <3>2, <3>3, <3>5 DEF ResolveReopened, WriteBack, Resolving, SentBack, Inv, TypeOK
    <3>6. CASE ResolveRejected
      <4>1. verdict[cur] = "gate_rejected" /\ reopens' = reopens /\ k = MaxReopens
        BY <2>1, <3>6 DEF ResolveRejected, WriteBack, Resolving, SentBack
      <4>2. state' = [state EXCEPT ![cur[1]] = "concluded_rejected"]
        BY <3>3, <3>6 DEF ResolveRejected, Conclude
      <4>. QED BY <3>1, <3>3, <4>1, <4>2
    <3>7. ~SeatCutOff
      BY <1>8 DEF SeatCutOff
    <3>. QED BY <3>4, <3>5, <3>6, <3>7 DEF Closing
  <2>4. LeaseOK(l)'
    BY <2>2, <2>3 DEF LeaseOK, RunsOnlyDelivery
  <2>5. TodoOK'
    BY <1>1, <1>2, <1>4, <1>8, OneWorkPerLease, TodoFrame
  <2>6. StageOK'
    BY <1>8 DEF StageOK
  <2>. QED BY <1>3, <1>5, <2>4, <2>5, <2>6
           DEF LeaseMatchesVerdicts, OnlyTheDeliveryRuns, LeaseOK, ListsStayTrue
<1>9. SeatCutOff \/ (pc \in {"close", "resolve"} /\ pc' = "archive")
  BY DEF Closing, CloseExhausted, ResolveAccepted, ResolveBudget, ResolveReopened,
         ResolveRejected, WriteBack, Resolving, Resolved, Goto
<1>. QED BY <1>7, <1>8, <1>9

\* Every later stage of a handler preserves the invariant.
LEMMA StageSafe ==
    ASSUME Inv, TypeOK', HandlerStage
    PROVE  (SingleFlight /\ LeaseMatchesVerdicts /\ OnlyTheDeliveryRuns /\ ListsStayTrue)'
<1>1. CASE Closing
  <2>1. pc # "none"
    BY <1>1 DEF Closing, SeatCutOff, CloseExhausted, ResolveAccepted, ResolveBudget,
           ResolveReopened, ResolveRejected, WriteBack, Resolving
  <2>2. PICK l \in Lease : l = cur[1]
    BY <2>1, CurFacts DEF Inv
  <2>3. PICK k \in Nat : k = reopens[l]
    BY DEF Inv, TypeOK
  <2>. QED BY <1>1, <2>2, <2>3, ClosingSafe
<1>. QED BY <1>1, MarkingSafe DEF HandlerStage, Closing

\* An undecided experiment decides: its lease is parked and waits for it.
LEMMA OpenDecides ==
    ASSUME Inv, NEW d \in Delivery, verdict[d] = "open"
    PROVE  Deciding(d)
<1>1. d = <<d[1], d[2]>> /\ d[1] \in Lease /\ d[2] \in 1..MaxReopens + 1
  BY DEF Delivery
<1>2. MatchesVerdicts(d[1]) /\ reopens[d[1]] \in 0..MaxReopens /\ state[d[1]] \in States
  BY <1>1 DEF Inv, LeaseMatchesVerdicts, TypeOK
<1>3. d = Current(d[1])
  <2>1. ~(d[2] <= reopens[d[1]]) /\ ~(d[2] > reopens[d[1]] + 1)
    BY <1>1, <1>2 DEF MatchesVerdicts, RejectedUpTo
  <2>2. d[2] = reopens[d[1]] + 1
    BY <1>1, <1>2, <2>1, ConfigAssumption DEF ConfigAssumption
  <2>. QED BY <1>1, <2>2 DEF Current
<1>. QED BY <1>2, <1>3 DEF MatchesVerdicts, Deciding, States, Concluded

\* Every way to start an attempt does: what it starts neither runs nor is parked.
LEMMA StartSafe ==
    ASSUME Inv, TypeOK', Start
    PROVE  (SingleFlight /\ LeaseMatchesVerdicts /\ OnlyTheDeliveryRuns /\ ListsStayTrue)'
<1>1. ASSUME NEW l \in Lease, Allocate(l) \/ Reactivate(l)
      PROVE  (SingleFlight /\ LeaseMatchesVerdicts /\ OnlyTheDeliveryRuns /\ ListsStayTrue)'
  <2>1. /\ state' = [state EXCEPT ![l] = "researching"]
        /\ UNCHANGED <<reopens, verdict, attempts, phase>>
        /\ phase \notin IngestPhases /\ pc' = "record" /\ cur' = Seat(l)
    BY <1>1 DEF Allocate, Reactivate, Take, InHand, ResubmitPhases, IngestPhases, Goto
  <2>2. LeaseOK(l) /\ state[l] \in {"unallocated", "reopen"} /\ ~Running(Seat(l))
    BY <1>1, AllLeases, WorkFacts
       DEF Inv, Allocate, Reactivate, Startable, OnlyTheDeliveryRuns, RunsOnlyDelivery
  <2>3. \A v \in Work : Running(v)' <=> Running(v)
    BY <2>1 DEF Running
  <2>4. \A j \in Lease \ {l} : LeaseOK(j)'
    BY <2>1, <2>3, AllLeases, LeaseFrame DEF Inv, TypeOK
  <2>5. LeaseOK(l)'
    BY <2>1, <2>2, <2>3, WorkFacts
       DEF LeaseOK, MatchesVerdicts, RejectedUpTo, RunsOnlyDelivery, Current, Delivery, Inv, TypeOK
  <2>6. StageOK'
    <3>1. Seat(l) \in Seats /\ Seat(l)[1] = l /\ Seat(l) \in Work /\ state'[l] = "researching"
      BY <2>1, WorkFacts DEF Inv, TypeOK
    <3>2. ~RunsIn(attempts', Seat(l))
      BY <2>1, <2>2 DEF Running
    <3>. QED BY <2>1, <3>1, <3>2 DEF StageOK, Running
  <2>7. TodoOK' /\ SingleFlight'
    BY <2>1 DEF TodoOK, SingleFlight, Inv
  <2>. QED BY <2>4, <2>5, <2>6, <2>7
           DEF LeaseMatchesVerdicts, OnlyTheDeliveryRuns, LeaseOK, ListsStayTrue
<1>2. ASSUME NEW w \in Work, ResubmitSkipped(w)
      PROVE  (SingleFlight /\ LeaseMatchesVerdicts /\ OnlyTheDeliveryRuns /\ ListsStayTrue)'
  <2>1. UNCHANGED <<state, reopens, verdict, attempts, phase>> /\ pc' = "none"
        /\ phase \notin IngestPhases
    BY <1>2 DEF ResubmitSkipped, Done, dbVars, Take, InHand, ResubmitPhases, IngestPhases
  <2>2. SingleFlight' /\ \A v \in Work : Running(v)' => Running(v)
    BY <2>1 DEF SingleFlight, Running, Inv
  <2>3. (LeaseMatchesVerdicts /\ OnlyTheDeliveryRuns)'
    BY <2>1, <2>2, DatabaseFrame
  <2>. QED BY <2>1, <2>2, <2>3 DEF ListsStayTrue, StageOK, TodoOK
<1>3. ASSUME NEW w \in Work, RecordAttempt(w)
      PROVE  (SingleFlight /\ LeaseMatchesVerdicts /\ OnlyTheDeliveryRuns /\ ListsStayTrue)'
  <2>1. /\ UNCHANGED <<state, reopens, verdict, phase, todo>> /\ attempts' = Started(attempts, w)
        /\ pc' = "submit" /\ cur' = w
        /\ w = cur \/ phase \notin IngestPhases
    BY <1>3 DEF RecordAttempt, Goto, Take, InHand, ResubmitPhases, IngestPhases
  <2>2. /\ ~RunsIn(attempts, w)
        /\ w \in Seats => state[w[1]] \notin {"unallocated", "awaiting_adjudication"}
        /\ w \notin Seats => Deciding(w)
    BY <1>3, OpenDecides, WorkFacts
       DEF RecordAttempt, Startable, Running, Inv, ListsStayTrue, StageOK
  <2>3. SingleFlight' /\ \A v \in Work : Running(v)' => v = w \/ Running(v)
    BY <2>1, <2>2, StartedRuns DEF Inv, TypeOK, SingleFlight, AttemptTable, Running
  <2>4. \A j \in Lease \ {w[1]} : LeaseOK(j)'
    BY <2>1, <2>3, AllLeases, LeaseFrame DEF Inv
  <2>5. LeaseOK(w[1])'
    <3>1. w[1] \in Lease /\ LeaseOK(w[1])
      BY AllLeases, WorkFacts DEF Inv
    <3>2. MatchesVerdicts(w[1])'
      BY <2>1, <3>1 DEF LeaseOK, MatchesVerdicts, RejectedUpTo, Current
    <3>3. RunsOnlyDelivery(w[1])'
      <4>1. \A i \in 1..MaxReopens + 1 : <<w[1], i>> \in Delivery
        BY <3>1 DEF Delivery
      <4>2. Seat(w[1]) = w <=> w \in Seats
        BY WorkFacts
      <4>. QED BY <2>1, <2>2, <2>3, <3>1, <4>1, <4>2, WorkFacts
               DEF LeaseOK, RunsOnlyDelivery, Deciding, Current
    <3>. QED BY <3>2, <3>3 DEF LeaseOK
  <2>6. TodoOK'
    <3>1. CASE w = cur
      BY <2>1, <3>1, TodoKept
    <3>2. CASE phase \notin IngestPhases
      BY <2>1, <3>2 DEF TodoOK
    <3>. QED BY <2>1, <3>1, <3>2
  <2>7. StageOK'
    BY <2>1 DEF StageOK
  <2>. QED BY <2>3, <2>4, <2>5, <2>6, <2>7, WorkFacts
           DEF LeaseMatchesVerdicts, OnlyTheDeliveryRuns, LeaseOK, ListsStayTrue
<1>. QED BY <1>1, <1>2, <1>3 DEF Start

\* A phase lists work that needs a decision, so its list is true when it is made.
LEMMA PhaseSafe ==
    ASSUME Inv, TypeOK', PhaseStep
    PROVE  (SingleFlight /\ LeaseMatchesVerdicts /\ OnlyTheDeliveryRuns /\ ListsStayTrue)'
<1>1. /\ UNCHANGED <<state, reopens, verdict, attempts>> /\ pc = "none" /\ pc' = "none"
      /\ cur' = NoWork
  BY DEF PhaseStep, EnterRetry, EnterAllocate, EnterPollSeats, EnterPollExps, EnterReopen, Enter,
         EndStep, Stop, PollMiss, ResultUnread, Take, InHand, Done, dbVars, Inv, TypeOK
<1>2. SingleFlight' /\ \A v \in Work : Running(v)' => Running(v)
  BY <1>1 DEF SingleFlight, Running, Inv
<1>3. (LeaseMatchesVerdicts /\ OnlyTheDeliveryRuns)'
  BY <1>1, <1>2, DatabaseFrame
<1>4. StageOK'
  BY <1>1 DEF StageOK
<1>5. TodoOK'
  <2>1. CASE EnterPollSeats
    <3>1. todo' = RunningIn(Seats)
      BY <2>1 DEF EnterPollSeats, Enter
    <3>2. \A w \in todo' : w \in Seats /\ state'[w[1]] # "awaiting_adjudication"
      BY <1>1, <3>1, WorkFacts
         DEF RunningIn, Inv, OnlyTheDeliveryRuns, RunsOnlyDelivery, Inv
    <3>. QED BY <3>2 DEF TodoOK
  <2>2. CASE EnterPollExps
    <3>1. todo' = RunningIn(Delivery)
      BY <2>2 DEF EnterPollExps, Enter
    <3>2. \A d \in Delivery : Running(d) => Deciding(d)
      BY DEF Delivery, Deciding, Current, Inv, OnlyTheDeliveryRuns, RunsOnlyDelivery
    <3>3. \A d \in Delivery : Deciding(d) => Deciding(d)'
      BY <1>1 DEF Deciding, Current
    <3>4. \A d \in todo' : d \notin Seats /\ Deciding(d)'
      BY <3>1, <3>2, <3>3, WorkFacts DEF RunningIn
    <3>. QED BY <3>4 DEF TodoOK
  <2>3. CASE \E w \in Work : PollMiss(w) \/ ResultUnread(w)
    <3>1. phase' = phase /\ todo' \subseteq todo /\ cur = NoWork
      BY <1>1, <2>3 DEF PollMiss, ResultUnread, Done, Inv, TypeOK
    <3>. QED BY <1>1, <3>1, TodoKept, WorkFacts DEF Inv, TypeOK
  <2>4. CASE EnterRetry \/ EnterAllocate \/ EnterReopen \/ EndStep
    BY <2>4 DEF EnterRetry, EnterAllocate, EnterReopen, Enter, EndStep, Stop, TodoOK, IngestPhases
  <2>. QED BY <2>1, <2>2, <2>3, <2>4 DEF PhaseStep
<1>. QED BY <1>2, <1>3, <1>4, <1>5 DEF ListsStayTrue

\* Reconciliation only ends attempts, and lists the running ones it knows.
LEMMA ReconcileSafe ==
    ASSUME Inv, TypeOK', NEW gone, Reconcile(gone)
    PROVE  (SingleFlight /\ LeaseMatchesVerdicts /\ OnlyTheDeliveryRuns /\ ListsStayTrue)'
<1>1. /\ UNCHANGED <<state, reopens, verdict>> /\ pc' = "none" /\ cur' = NoWork
      /\ todo' \subseteq Known
  BY DEF Reconcile, InHand, Inv, TypeOK
<1>2. SingleFlight' /\ \A v \in Work : Running(v)' => Running(v)
  BY EndedStops DEF Reconcile, AttemptStatus, Inv, TypeOK, AttemptTable, SingleFlight, Running
<1>3. (LeaseMatchesVerdicts /\ OnlyTheDeliveryRuns)'
  BY <1>1, <1>2, DatabaseFrame
<1>4. \A w \in Known : IF w \in Seats THEN state'[w[1]] # "awaiting_adjudication"
                                     ELSE Deciding(w)'
  BY <1>1, OpenDecides, WorkFacts DEF Known, Deciding, Current
<1>. QED BY <1>1, <1>2, <1>3, <1>4 DEF ListsStayTrue, StageOK, TodoOK

\* Workers, crashes and restarts write no lease and no experiment: they only
\* end attempts.
LEMMA EnvironmentSafe ==
    ASSUME Inv, TypeOK', Environment
    PROVE  (SingleFlight /\ LeaseMatchesVerdicts /\ OnlyTheDeliveryRuns /\ ListsStayTrue)'
<1>1. UNCHANGED <<state, reopens, verdict>>
  BY DEF Environment, WorkerStep, WorkerEnds, WorkerDies, Interrupt, Crash, Restart, dbVars
<1>2. SingleFlight' /\ \A v \in Work : Running(v)' => Running(v)
  <2>1. CASE UNCHANGED attempts
    BY <2>1 DEF SingleFlight, Running, Inv
  <2>2. CASE Restart
    <3>1. attempts' = attempts \/ attempts' = Ended(attempts, Work, "lost")
      BY <2>2 DEF Restart, Reset
    <3>2. CASE attempts' = Ended(attempts, Work, "lost")
      BY <3>2, EndedStops DEF AttemptStatus, Inv, TypeOK, AttemptTable, SingleFlight, Running
    <3>. QED BY <2>1, <3>1, <3>2
  <2>. QED BY <2>1, <2>2
           DEF Environment, WorkerStep, WorkerEnds, WorkerDies, Interrupt, Crash, dbVars
<1>3. (LeaseMatchesVerdicts /\ OnlyTheDeliveryRuns)'
  BY <1>1, <1>2, DatabaseFrame
<1>4. ASSUME phase' \notin IngestPhases, pc' = "none" \/ UNCHANGED <<pc, cur>>
      PROVE  ListsStayTrue'
  <2>1. CASE pc' = "none"
    BY <1>4, <2>1 DEF ListsStayTrue, StageOK, TodoOK
  <2>2. CASE UNCHANGED <<pc, cur>>
    <3>1. StageOK /\ (pc # "none" => cur \in Work) /\ Deciding(cur)' = Deciding(cur)
      BY <1>1, <2>2, CurFacts DEF Inv, ListsStayTrue, Deciding, Current
    <3>2. pc # "none" => (Running(cur)' => Running(cur))
      BY <1>2, <2>2, <3>1 DEF Running
    <3>. QED BY <1>1, <1>4, <2>2, <3>1, <3>2 DEF ListsStayTrue, StageOK, TodoOK
  <2>. QED BY <1>4, <2>1, <2>2
<1>5. ASSUME UNCHANGED schedVars, UNCHANGED attempts
      PROVE  ListsStayTrue'
  BY <1>1, <1>5 DEF schedVars, Inv, ListsStayTrue, StageOK, TodoOK, Deciding, Current, Running
<1>. QED BY <1>2, <1>3, <1>4, <1>5
         DEF Environment, WorkerStep, WorkerEnds, WorkerDies, Interrupt, Crash, Restart, Stop,
             dbVars, IngestPhases

\* Inv is inductive.
LEMMA InvStep == Inv /\ TypeOK' /\ [Next]_vars => Inv'
<1>. SUFFICES ASSUME Inv, TypeOK', [Next]_vars
              PROVE  (SingleFlight /\ LeaseMatchesVerdicts /\ OnlyTheDeliveryRuns /\ ListsStayTrue)'
  BY DEF Inv
<1>1. CASE SchedulerStep
  BY <1>1, SeatSafe, ExpSafe, StageSafe, StartSafe, PhaseSafe DEF SchedulerStep
<1>2. CASE ReconcileAll \/ ReconcileSome \/ ReconcileGhost
  BY <1>2, ReconcileSafe DEF ReconcileAll, ReconcileSome, ReconcileGhost
<1>3. CASE Environment
  BY <1>3, EnvironmentSafe
<1>4. CASE UNCHANGED vars
  <2>1. UNCHANGED <<state, reopens, verdict, attempts, schedVars>>
    BY <1>4 DEF vars, dbVars
  <2>2. SingleFlight' /\ \A v \in Work : Running(v)' => Running(v)
    BY <2>1 DEF SingleFlight, Running, Inv
  <2>3. ListsStayTrue'
    BY <2>1 DEF schedVars, Inv, ListsStayTrue, StageOK, TodoOK, Deciding, Current, Running
  <2>. QED BY <2>1, <2>2, <2>3, DatabaseFrame
<1>. QED BY <1>1, <1>2, <1>3, <1>4 DEF Next, Rest

\* Between any two transactions, file renames and spawned workers the leases, the
\* experiments, the attempts and the scheduler's lists agree.
THEOREM Safety == Spec => []Inv
<1>1. Inv /\ TypeOK' /\ [Next]_vars => Inv'
  BY InvStep
<1>. QED BY InvInit, TypeCorrect, <1>1, PTL DEF Spec

\* No work ever has two attempts in flight: whichever of the mint, the
\* reconciler's retry, the reopen or the purchase starts one, none runs.
THEOREM OneAttemptInFlight == Spec => []SingleFlight
BY Safety, PTL DEF Inv

\* The row of a lease and the rows of its experiments agree between any two
\* transactions, whatever crashes, ghosts and bad results come between them.
THEOREM LeasesMatchVerdicts == Spec => []LeaseMatchesVerdicts
BY Safety, PTL DEF Inv

\* A seat never works on a world that is being judged, and only the experiment
\* of the delivery in hand runs.
THEOREM DeliveriesRunAlone == Spec => []OnlyTheDeliveryRuns
BY Safety, PTL DEF Inv

\* What a phase listed and a handler read stays true of the tables until the
\* handler writes.
THEOREM ListsHold == Spec => []ListsStayTrue
BY Safety, PTL DEF Inv

--------------------------------------------------------------------------------
(***************************************************************************)
(* The scheduler implements LeaseProtocol - the state, the reopen count    *)
(* and the verdicts of a lease only change the way the contract of the     *)
(* lease says - as long as no verdict is taken back.                       *)
(*                                                                         *)
(* mark_experiment_infra_failed does take one back, when the scheduler     *)
(* stopped between a verdict and the end of its attempt ("crash"), and a   *)
(* worker presumed dead ("ghost") reports a failure ("fail", or an         *)
(* "unknown" outcome) of the experiment, whose attempt still runs because  *)
(* the backend is a cluster.                                               *)
(* All four are needed.  What keeps a result from being one of a settled   *)
(* experiment differs with the one that is missing: SettledIsDone on the   *)
(* local backend and without crashes, OneWorker without ghosts.            *)
(***************************************************************************)

\* The faults that, together and on the cluster only, take a verdict back.
VerdictsAreSafe == \/ Backend = "local" \/ Faults \cap {"fail", "unknown"} = {}
                   \/ ~({"crash", "ghost"} \subseteq Faults)

\* A handler is not between the verdict of an experiment and its attempt.
Between == pc \notin {"judged", "exhausted"}

\* A step that settles nothing and starts no settled experiment.
LEMMA SettledFrame ==
    ASSUME SettledIsDone, Between, phase' = phase,
           todo' \ {cur'} \subseteq todo \ {cur},
           \A d \in Delivery : verdict'[d] \in Verdicts /\ Running(d)'
                                  => verdict[d] \in Verdicts /\ Running(d),
           \A d \in Delivery \ {cur'} : verdict[d] = "open" => verdict'[d] = "open"
    PROVE  SettledIsDone'
BY DEF SettledIsDone, Between

\* A step between two phases, or between two steps of the scheduler.
LEMMA SettledPhase ==
    ASSUME SettledIsDone, Between, phase # "down", verdict' = verdict,
           \A d \in Delivery : Running(d)' => Running(d),
           phase' \in IngestPhases =>
              \A d \in Delivery \cap todo' : verdict[d] = "open"
    PROVE  SettledIsDone'
BY DEF SettledIsDone, Between

\* A run that has bought no lease has settled nothing.
LEMMA SettledInit == Init => SettledIsDone
BY DEF Init, SettledIsDone, Verdicts, IngestPhases

\* The ingest of a seat's conclusion settles no experiment.
LEMMA SettledSeat ==
    ASSUME Inv, SettledIsDone, NEW l \in Lease, SeatHandler(l)
    PROVE  SettledIsDone'
<1>1. /\ Seat(l) \in Work /\ Seat(l) \notin Delivery /\ Current(l) \in Delivery
      /\ Current(l) \in Work /\ attempts \in AttemptTable /\ OneRunIn(attempts)
  BY WorkFacts, CurrentFacts DEF Inv, TypeOK, AttemptTable, SingleFlight
<1>2. /\ phase' = phase /\ Between /\ cur' = Seat(l)
      /\ todo' \ {cur'} \subseteq todo \ {cur}
  BY WorkFacts DEF SeatHandler, SeatInfraFailed, SeatAlreadyConcluded, SeatExits, SeatDelivers,
         SeatRejected, SeatResult, Take, InHand, Goto, Between, Inv, TypeOK
<1>3. CASE SeatDelivers(l)
  <2>. DEFINE ended == Marked(attempts, Seat(l), "succeeded")
  <2>0. PICK d \in Delivery : d = Current(l)
    BY <1>1
  <2>. DEFINE fresh == verdict[d] = "none"
  <2>1. \A v \in Delivery : RunsIn(ended, v) <=> Running(v)
    BY <1>1, MarkedStops, WorkFacts DEF AttemptStatus, Running, RunsIn
  <2>2. verdict' = [verdict EXCEPT ![d] = IF fresh THEN "open" ELSE @]
    BY <1>3, <2>0 DEF SeatDelivers
  <2>3. attempts' = ended \/ (attempts' = Started(ended, d) /\ fresh)
    BY <1>3, <2>0 DEF SeatDelivers
  <2>4. \A v \in Delivery \ {d} : Running(v)' => Running(v)
    BY <1>1, <2>1, <2>3, WorkFacts, SMTT(30) DEF Started, RunsIn, Running, Marked, AttemptTable
  <2>5. verdict'[d] \in Verdicts => ~fresh
    BY <1>1, <2>2 DEF Verdicts, Inv, TypeOK
  <2>6. ~fresh => (Running(d)' => Running(d)) /\ verdict'[d] = verdict[d]
    BY <2>1, <2>2, <2>3 DEF Inv, TypeOK, Running
  <2>7. \A v \in Delivery : v # d => verdict'[v] = verdict[v]
    BY <2>2 DEF Inv, TypeOK
  <2>8. \A v \in Delivery : verdict[v] = "open" => verdict'[v] = "open"
    BY <2>2 DEF Inv, TypeOK
  <2>. QED BY <1>2, <2>4, <2>5, <2>6, <2>7, <2>8, SettledFrame
<1>4. CASE ~SeatDelivers(l)
  <2>1. verdict' = verdict
    BY <1>4 DEF SeatHandler, SeatInfraFailed, SeatAlreadyConcluded, SeatExits, SeatRejected, dbVars
  <2>2. \A v \in Work : Running(v)' => Running(v)
    <3>1. \/ attempts' = attempts
          \/ attempts' = Marked(attempts, Seat(l), "failed")
          \/ attempts' = Marked(attempts, Seat(l), "succeeded")
      BY <1>4 DEF SeatHandler, SeatInfraFailed, SeatAlreadyConcluded, SeatExits, SeatRejected, dbVars
    <3>. QED BY <1>1, <3>1, MarkedStops DEF AttemptStatus, Running
  <2>. QED BY <1>2, <2>1, <2>2, SettledFrame, WorkFacts
<1>. QED BY <1>3, <1>4

\* The ingest of a result settles the experiment in hand, whose attempt ends next.
LEMMA SettledExp ==
    ASSUME Inv, SettledIsDone, NEW d \in Delivery, ExpHandler(d)
    PROVE  SettledIsDone' /\ (ExpInfraFailed(d) => verdict' = verdict)
<1>1. /\ d \in Work /\ attempts \in AttemptTable /\ OneRunIn(attempts)
      /\ phase \in IngestPhases /\ d \in todo /\ pc = "none" /\ cur = NoWork /\ d # NoWork
  BY WorkFacts DEF Inv, TypeOK, AttemptTable, SingleFlight, ExpHandler, IngestRaises,
         ExpInfraFailed, ExpExhausted, ExpJudged, ExpResult, Take, InHand, First
<1>2. verdict[d] = "open"
  BY <1>1 DEF SettledIsDone
<1>3. CASE IngestRaises(d)
  <2>1. ~ExpInfraFailed(d)
    BY <1>1, <1>3 DEF IngestRaises, ExpInfraFailed, Stop, Goto
  <2>2. verdict' = verdict /\ attempts' = attempts /\ phase' \notin IngestPhases
    BY <1>3 DEF IngestRaises, Stop, IngestPhases, dbVars
  <2>3. \A v \in Delivery : ~(verdict[v] \in Verdicts /\ Running(v))
    BY <1>1 DEF SettledIsDone, IngestPhases
  <2>. QED BY <2>1, <2>2, <2>3 DEF SettledIsDone, Running
<1>4. CASE ExpInfraFailed(d)
  <2>1. verdict' = verdict
    BY <1>2, <1>4 DEF ExpInfraFailed, Inv, TypeOK
  <2>2. \A v \in Work : Running(v)' => Running(v)
    BY <1>1, <1>4, MarkedStops DEF ExpInfraFailed, AttemptStatus, Running
  <2>3. Between /\ phase' = phase /\ todo' \ {cur'} \subseteq todo \ {cur}
    BY <1>1, <1>4, WorkFacts DEF ExpInfraFailed, Goto, Between, Inv, TypeOK
  <2>. QED BY <2>1, <2>2, <2>3, SettledFrame, WorkFacts
<1>5. CASE ExpExhausted(d) \/ ExpJudged(d)
  <2>1. /\ phase' = phase /\ todo' = todo /\ cur' = d /\ pc' \in {"exhausted", "judged"}
        /\ attempts' = attempts
        /\ \A v \in Delivery \ {d} : verdict'[v] = verdict[v]
    BY <1>5 DEF ExpExhausted, ExpJudged, Goto, Inv, TypeOK
  <2>2. \A v \in Delivery : Running(v)' <=> Running(v)
    BY <2>1 DEF Running
  <2>3. ~ExpInfraFailed(d)
    BY <1>1, <1>5 DEF ExpExhausted, ExpJudged, ExpInfraFailed, ExpResult, Verdicts
  <2>. QED BY <1>1, <2>1, <2>2, <2>3, WorkFacts DEF SettledIsDone
<1>. QED BY <1>3, <1>4, <1>5 DEF ExpHandler

\* The later stages end that attempt before the handler is over.
LEMMA SettledStage ==
    ASSUME Inv, SettledIsDone, HandlerStage
    PROVE  SettledIsDone' /\ verdict' = verdict
<1>1. /\ verdict' = verdict /\ phase' = phase
      /\ pc # "none" /\ cur \in Work /\ attempts \in AttemptTable /\ OneRunIn(attempts)
      /\ todo' \ {cur'} \subseteq todo \ {cur}
  BY CurFacts, WorkFacts
     DEF HandlerStage, LaunchAdjudication, SeatCorrected, SeatCutOff, CutOffSucceeded,
         ExpSucceeded, CloseExhausted, ResolveAccepted, ResolveParked, ResolveBudget,
         ResolveReopened, ResolveRejected, WriteBack, Resolving, Resolved, Archive, Submit,
         Goto, Done, dbVars, Inv, TypeOK, AttemptTable, SingleFlight
<1>2. /\ attempts' \in {attempts, Marked(attempts, cur, "failed"), Marked(attempts, cur, "succeeded")}
  BY DEF HandlerStage, LaunchAdjudication, SeatCorrected, SeatCutOff, CutOffSucceeded,
         ExpSucceeded, CloseExhausted, ResolveAccepted, ResolveParked, ResolveBudget,
         ResolveReopened, ResolveRejected, WriteBack, Resolving, Resolved, Archive, Submit, dbVars
<1>3. \A v \in Work : Running(v)' => Running(v)
  BY <1>1, <1>2, MarkedStops DEF AttemptStatus, Running
<1>4. CASE ExpSucceeded
  <2>1. cur' = cur /\ ~RunsIn(attempts', cur)
    BY <1>1, <1>4, MarkedStops DEF ExpSucceeded, AttemptStatus, Goto
  <2>. QED BY <1>1, <1>3, <2>1, WorkFacts DEF SettledIsDone, Running
<1>5. CASE ~ExpSucceeded
  <2>1. Between
    BY <1>5 DEF Between, HandlerStage, LaunchAdjudication, SeatCorrected, SeatCutOff,
           CutOffSucceeded, CloseExhausted, ResolveAccepted, ResolveParked, ResolveBudget,
           ResolveReopened, ResolveRejected, WriteBack, Resolving, Archive, Submit
  <2>. QED BY <1>1, <1>3, <2>1, SettledFrame, WorkFacts
<1>. QED BY <1>4, <1>5

\* No attempt of a settled experiment is started.
LEMMA SettledStart ==
    ASSUME Inv, SettledIsDone, Start
    PROVE  SettledIsDone' /\ verdict' = verdict
<1>1. ASSUME NEW l \in Lease, Allocate(l) \/ Reactivate(l)
      PROVE  SettledIsDone' /\ verdict' = verdict
  <2>1. /\ UNCHANGED <<verdict, attempts, phase, todo>> /\ phase \notin IngestPhases /\ Between
    BY <1>1 DEF Allocate, Reactivate, Take, InHand, ResubmitPhases, IngestPhases, Goto, Between
  <2>. QED BY <2>1 DEF SettledIsDone, Between, Running
<1>2. ASSUME NEW w \in Work, ResubmitSkipped(w)
      PROVE  SettledIsDone' /\ verdict' = verdict
  <2>1. UNCHANGED <<verdict, attempts, phase>> /\ phase \notin IngestPhases /\ Between
    BY <1>2 DEF ResubmitSkipped, Done, dbVars, Take, InHand, ResubmitPhases, IngestPhases, Between
  <2>. QED BY <2>1 DEF SettledIsDone, Between, Running
<1>3. ASSUME NEW w \in Work, RecordAttempt(w)
      PROVE  SettledIsDone' /\ verdict' = verdict
  <2>1. /\ UNCHANGED <<verdict, phase, todo>> /\ attempts' = Started(attempts, w) /\ Between
        /\ cur' = w /\ (w = cur \/ phase \notin IngestPhases)
    BY <1>3 DEF RecordAttempt, Goto, Take, InHand, ResubmitPhases, IngestPhases, Between
  <2>2. \A d \in Delivery : Running(d)' /\ verdict'[d] \in Verdicts => Running(d)
    <3>1. w \in Delivery => verdict[w] = "open"
      BY <1>3, WorkFacts DEF RecordAttempt, Startable, Inv, ListsStayTrue, StageOK
    <3>2. \A v \in Work \ {w} : Running(v)' => Running(v)
      BY <2>1 DEF Started, Running, RunsIn, Inv, TypeOK
    <3>. QED BY <2>1, <3>1, <3>2, WorkFacts DEF Verdicts
  <2>. QED BY <2>1, <2>2 DEF SettledIsDone, Between
<1>. QED BY <1>1, <1>2, <1>3 DEF Start

\* The lists of the phases hold undecided experiments only.
LEMMA SettledSteps ==
    ASSUME Inv, SettledIsDone, PhaseStep
    PROVE  SettledIsDone' /\ verdict' = verdict
<1>1. /\ UNCHANGED <<verdict, attempts>> /\ pc = "none" /\ Between /\ phase # "down" /\ cur = NoWork
  <2>1. UNCHANGED <<verdict, attempts>> /\ pc = "none" /\ phase # "down"
    BY DEF PhaseStep, EnterRetry, EnterAllocate, EnterPollSeats, EnterPollExps, EnterReopen, Enter,
           EndStep, PollMiss, ResultUnread, Take, InHand, IngestPhases, dbVars
  <2>. QED BY <2>1 DEF Between, Inv, TypeOK
<1>2. \A d \in Delivery : Running(d)' <=> Running(d)
  BY <1>1 DEF Running
<1>3. CASE EnterPollSeats \/ EnterPollExps
  <2>1. \A d \in Delivery \cap todo' : Running(d)
    BY <1>3, WorkFacts DEF EnterPollSeats, EnterPollExps, Enter, RunningIn
  <2>2. \A d \in Delivery : Running(d) => verdict[d] = "open"
    <3>. SUFFICES ASSUME NEW d \in Delivery, Running(d) PROVE verdict[d] = "open"
      OBVIOUS
    <3>1. verdict[d] \notin Verdicts
      BY <1>1 DEF SettledIsDone, Between
    <3>2. verdict[d] # "none"
      <4>1. d[1] \in Lease /\ d = <<d[1], d[2]>> /\ d[2] \in 1..MaxReopens + 1
        BY DEF Delivery
      <4>2. d = Current(d[1]) /\ state[d[1]] = "awaiting_adjudication"
        BY <4>1 DEF Inv, OnlyTheDeliveryRuns, RunsOnlyDelivery, Current
      <4>. QED BY <4>1, <4>2 DEF Inv, LeaseMatchesVerdicts, MatchesVerdicts
    <3>. QED BY <3>1, <3>2 DEF Inv, TypeOK
  <2>. QED BY <1>1, <1>2, <2>1, <2>2, SettledPhase
<1>4. CASE \E w \in Work : PollMiss(w) \/ ResultUnread(w)
  <2>1. phase' = phase /\ todo' \subseteq todo
    BY <1>4 DEF PollMiss, ResultUnread, Done
  <2>. QED BY <1>1, <1>2, <2>1, WorkFacts DEF SettledIsDone, Between
<1>5. CASE EnterRetry \/ EnterAllocate \/ EnterReopen \/ EndStep
  <2>1. phase' \notin IngestPhases
    BY <1>5 DEF EnterRetry, EnterAllocate, EnterReopen, Enter, EndStep, Stop, IngestPhases
  <2>. QED BY <1>1, <1>2, <2>1, SettledPhase
<1>. QED BY <1>3, <1>4, <1>5 DEF PhaseStep

\* Reconciliation lists running experiments, which are undecided.
LEMMA SettledReconcile ==
    ASSUME Inv, SettledIsDone, NEW gone, Reconcile(gone)
    PROVE  SettledIsDone' /\ verdict' = verdict
<1>1. verdict' = verdict /\ Between /\ phase # "down" /\ todo' \subseteq Known
  BY DEF Reconcile, InHand, Between
<1>2. \A d \in Delivery : Running(d)' => Running(d)
  BY EndedStops, WorkFacts
     DEF Reconcile, AttemptStatus, Inv, TypeOK, AttemptTable, SingleFlight, Running
<1>3. \A d \in Delivery \cap todo' : verdict[d] = "open"
  BY <1>1, WorkFacts DEF Known
<1>. QED BY <1>1, <1>2, <1>3, SettledPhase

\* Only here the backend counts: a local process ends every running attempt when
\* it starts, so that none of them belongs to a settled experiment.
LEMMA SettledEnvironment ==
    ASSUME Backend = "local" \/ "crash" \notin Faults, Inv, SettledIsDone, Environment
    PROVE  SettledIsDone' /\ verdict' = verdict
<1>1. verdict' = verdict
  BY DEF Environment, WorkerStep, WorkerEnds, WorkerDies, Interrupt, Crash, Restart, dbVars
<1>2. CASE Restart
  <2>1. phase' \notin IngestPhases /\ UNCHANGED <<pc, cur>>
    BY <1>2 DEF Restart, IngestPhases
  <2>2. CASE Backend = "local"
    <3>1. attempts' = Ended(attempts, Work, "lost")
      BY <1>2, <2>2 DEF Restart, Reset
    <3>2. \A v \in Work \cap Work : ~RunsIn(attempts', v)
      BY <3>1, EndedStops DEF AttemptStatus, Inv, TypeOK, AttemptTable, SingleFlight
    <3>. QED BY <1>1, <2>1, <3>2, WorkFacts DEF SettledIsDone, Running
  <2>3. CASE Backend # "local"
    <3>1. attempts' = attempts /\ "crash" \notin Faults
      BY <1>2, <2>3 DEF Restart, Reset
    <3>. QED BY <1>1, <2>1, <3>1 DEF SettledIsDone, Running
  <2>. QED BY <2>2, <2>3
<1>3. CASE Crash
  <2>1. "crash" \in Faults /\ phase' = "down" /\ phase' \notin IngestPhases
    BY <1>3 DEF Crash, Fault, Stop, IngestPhases
  <2>. QED BY <1>1, <2>1 DEF SettledIsDone
<1>4. CASE Interrupt
  <2>1. /\ pc = "none" /\ phase = "idle" /\ attempts' = attempts /\ phase' \notin IngestPhases
    BY <1>4 DEF Interrupt, Stop, InHand, IngestPhases, dbVars
  <2>2. \A d \in Delivery : ~(verdict[d] \in Verdicts /\ Running(d))
    BY <2>1 DEF SettledIsDone
  <2>. QED BY <1>1, <2>1, <2>2 DEF SettledIsDone, Running
<1>5. CASE UNCHANGED schedVars /\ UNCHANGED attempts
  BY <1>1, <1>5 DEF schedVars, SettledIsDone, Running
<1>. QED BY <1>2, <1>3, <1>4, <1>5
         DEF Environment, WorkerStep, WorkerEnds, WorkerDies, dbVars

\* Every step of such a run keeps it.
LEMMA SettledStep ==
    ASSUME Backend = "local" \/ "crash" \notin Faults, Inv, SettledIsDone, [Next]_vars
    PROVE  SettledIsDone'
<1>1. CASE SchedulerStep
  BY <1>1, SettledSeat, SettledExp, SettledStage, SettledStart, SettledSteps DEF SchedulerStep
<1>2. CASE ReconcileAll \/ ReconcileSome \/ ReconcileGhost
  BY <1>2, SettledReconcile DEF ReconcileAll, ReconcileSome, ReconcileGhost
<1>3. CASE Environment
  BY <1>3, SettledEnvironment
<1>4. CASE UNCHANGED vars
  BY <1>4 DEF vars, dbVars, schedVars, SettledIsDone, Running
<1>. QED BY <1>1, <1>2, <1>3, <1>4 DEF Next, Rest

\* A local scheduler, and one on the cluster that is never stopped inside a step,
\* never meets a settled experiment with a running attempt, although it settles
\* one and ends the other in different transactions.
THEOREM SettledAreDone ==
    ASSUME Backend = "local" \/ "crash" \notin Faults
    PROVE  Spec => []SettledIsDone
<1>1. Inv /\ SettledIsDone /\ [Next]_vars => SettledIsDone'
  BY SettledStep
<1>. QED BY SettledInit, Safety, <1>1, PTL DEF Spec

(***************************************************************************)
(* No verdict is taken back.                                               *)
(***************************************************************************)

\* The result about to be ingested for a settled experiment is no failure that
\* would reopen it.
VerdictsStand ==
    phase \in IngestPhases =>
       \A d \in Delivery \cap (todo \ {cur}) :
          verdict[d] \in Verdicts /\ file[d].kind \in {"failed", "unknown"}
             => file[d].kind = "failed" /\ Exhausted(d)

\* A reported failure then changes no verdict: it is one of an open experiment.
LEMMA FailureKeeps ==
    ASSUME Inv, VerdictsStand, NEW d \in Delivery, ExpInfraFailed(d)
    PROVE  verdict' = verdict
<1>1. /\ phase \in IngestPhases /\ d \in todo \ {cur} /\ file[d].kind \in {"failed", "unknown"}
      /\ file[d].kind = "failed" => ~Exhausted(d)
  BY WorkFacts DEF ExpInfraFailed, ExpResult, Take, InHand, First, Inv, TypeOK
<1>2. verdict[d] \notin Verdicts /\ Deciding(d)
  BY <1>1, WorkFacts DEF VerdictsStand, Inv, ListsStayTrue, TodoOK
<1>3. verdict[d] # "none"
  <2>1. d[1] \in Lease /\ d = Current(d[1]) /\ state[d[1]] = "awaiting_adjudication"
    BY <1>2, WorkFacts DEF Deciding
  <2>. QED BY <2>1 DEF Inv, LeaseMatchesVerdicts, MatchesVerdicts
<1>4. verdict[d] = "open"
  BY <1>2, <1>3 DEF Inv, TypeOK
<1>. QED BY <1>4 DEF ExpInfraFailed, Inv, TypeOK

\* Without reported failures: no result is one.
NoFailure == \A w \in Work : file[w].kind \notin {"failed", "unknown"}

\* A fresh run has no result at all.
LEMMA NoFailureInit == Init => NoFailure
BY DEF Init, NoFailure, NoFile

\* Only workers write results.
LEMMA NoFailureStep ==
    ASSUME Faults \cap {"fail", "unknown"} = {}, TypeOK, NoFailure, [Next]_vars
    PROVE  NoFailure'
<1>1. CASE \E w \in Work : WorkerStep(w)
  <2>1. PICK w \in Work, n \in Nat : WorkerEnds(w, n)
    <3>1. \A w \in Work : 1..Len(attempts[w]) \subseteq Nat
      BY DEF TypeOK
    <3>. QED BY <1>1, <3>1 DEF WorkerStep
  <2>2. PICK kind \in Kinds(w) : /\ file' = [file EXCEPT ![w] = [kind |-> kind, by |-> n]]
                                 /\ kind \notin {"failed", "unknown"}
    BY <2>1 DEF WorkerEnds, Honest, Fault, Repeated
  <2>. QED BY <2>2 DEF NoFailure, TypeOK
<1>2. CASE Archive
  BY <1>2 DEF Archive, NoFailure, NoFile, TypeOK
<1>3. CASE UNCHANGED file
  BY <1>3 DEF NoFailure
<1>4. CASE SchedulerStep
  BY <1>2, <1>3, <1>4
     DEF SchedulerStep, SeatHandler, SeatInfraFailed, SeatAlreadyConcluded, SeatExits, SeatDelivers,
         SeatRejected, ExpHandler, IngestRaises, ExpInfraFailed, ExpExhausted, ExpJudged,
         HandlerStage, LaunchAdjudication, SeatCorrected, SeatCutOff, CutOffSucceeded,
         ExpSucceeded, CloseExhausted, ResolveAccepted, ResolveParked, ResolveBudget,
         ResolveReopened, ResolveRejected, Resolved, Submit, Start, Allocate, Reactivate,
         ResubmitSkipped, RecordAttempt, PhaseStep, EnterRetry, EnterAllocate, EnterPollSeats,
         EnterPollExps, EnterReopen, Enter, EndStep, PollMiss, ResultUnread, envVars
<1>5. CASE ReconcileAll \/ ReconcileSome \/ ReconcileGhost
  BY <1>3, <1>5 DEF ReconcileAll, ReconcileSome, ReconcileGhost, Reconcile
<1>6. CASE Environment
  BY <1>1, <1>3, <1>6 DEF Environment, WorkerDies, Interrupt, Crash, Restart
<1>7. CASE UNCHANGED vars
  BY <1>3, <1>7 DEF vars, envVars
<1>. QED BY <1>4, <1>5, <1>6, <1>7 DEF Next, Rest

(***************************************************************************)
(* Without ghosts: at most one worker serves an experiment at a time, for  *)
(* its latest attempt, which runs and has no result.  A result is then     *)
(* never overwritten, and a settled experiment keeps the one it was        *)
(* settled by.                                                             *)
(***************************************************************************)

Unserved(d)   == Running(d) /\ file[d] = NoFile /\ verdict[d] = "open"
NoWorker(d)   == \A n \in Nat : <<d, n>> \notin workers
AboutToRun(d) == Unserved(d) /\ NoWorker(d)

\* A worker works on an open experiment, for the attempt that runs.
Tended(d) == /\ \A n \in Nat : <<d, n>> \in workers =>
                   n = Len(attempts[d]) /\ ledger[d] = n /\ Unserved(d)
             /\ verdict[d] = "none" => file[d] = NoFile

\* The failure that an experiment was closed on was its last.
LastFailure(d) ==
    /\ verdict[d] \in Verdicts /\ file[d].kind \in {"failed", "unknown"}
    /\ Running(d) \/ (phase \in IngestPhases /\ d \in todo \ {cur})
    => file[d].kind = "failed" /\ Exhausted(d)

\* What the reconciler kept for the retry phase runs, or has still no result.
Kept == CASE phase = "ingest" -> retry
          [] phase = "retry"  -> todo \ {cur}
          [] OTHER -> {}
Waits(d)     == verdict[d] # "none" /\ (Running(d) \/ file[d] = NoFile)
Retryable(d) == d \in Kept => Waits(d)

StagesServe == /\ pc = "submit" /\ cur \in Delivery => AboutToRun(cur)
               /\ pc = "adjudicate" => AboutToRun(Current(cur[1]))
ListsApart  == /\ phase = "ingest" => retry \cap (todo \cup {cur}) = {}
               /\ phase = "reopen" => todo \subseteq Seats

OneWorker == /\ \A d \in Delivery : Tended(d) /\ LastFailure(d) /\ Retryable(d)
             /\ StagesServe
             /\ ListsApart

\* A fresh run has no workers and no results.
LEMMA OneWorkerInit == Init => OneWorker
BY WorkFacts DEF Init, OneWorker, Tended, LastFailure, Retryable, Kept, StagesServe, ListsApart,
                 Verdicts

\* A step that has nothing to do with an experiment.
Untouched(d) ==
    /\ verdict'[d] = verdict[d] /\ attempts'[d] = attempts[d]
    /\ file'[d] = file[d] /\ ledger'[d] = ledger[d]
    /\ \A n \in Nat : <<d, n>> \in workers' => <<d, n>> \in workers

\* A step that takes at most the work in hand from the lists of its phase.
ListsShrink == /\ phase' = phase /\ retry' = retry /\ todo' \subseteq todo
               /\ todo' \ {cur'} \subseteq todo \ {cur}

\* What such a step leaves of what is known of an experiment.
LEMMA UntouchedKept ==
    ASSUME NEW d \in Delivery, Tended(d), LastFailure(d), Retryable(d), Untouched(d),
           phase' \in IngestPhases /\ d \in todo' \ {cur'} =>
               Running(d) \/ (phase \in IngestPhases /\ d \in todo \ {cur}) \/ verdict[d] = "open",
           d \in Kept' => d \in Kept \/ Waits(d)
    PROVE  Tended(d)' /\ LastFailure(d)' /\ Retryable(d)'
<1>1. Running(d)' = Running(d) /\ Exhausted(d)' = Exhausted(d)
  BY DEF Untouched, Running, RunsIn, Exhausted
<1>2. Tended(d)'
  BY <1>1 DEF Tended, Untouched, Unserved
<1>3. LastFailure(d)'
  BY <1>1 DEF LastFailure, Untouched, Verdicts
<1>4. Retryable(d)'
  BY <1>1 DEF Retryable, Waits, Untouched
<1>. QED BY <1>2, <1>3, <1>4

\* The lists of a phase while one of its handlers runs.
LEMMA ListsKept ==
    ASSUME TypeOK, OneWorker, ListsShrink, phase = "ingest" => cur' \notin retry
    PROVE  /\ ListsApart' /\ Kept' \subseteq Kept
           /\ \A d \in Delivery : phase' \in IngestPhases /\ d \in todo' \ {cur'} =>
                 phase \in IngestPhases /\ d \in todo \ {cur}
<1>1. ListsApart'
  BY DEF ListsShrink, OneWorker, ListsApart
<1>2. Kept' \subseteq Kept
  BY DEF ListsShrink, Kept
<1>3. \A d \in Delivery : phase' \in IngestPhases /\ d \in todo' \ {cur'} =>
                 phase \in IngestPhases /\ d \in todo \ {cur}
  BY DEF ListsShrink
<1>. QED BY <1>1, <1>2, <1>3

\* A handler that touches one experiment at most.
LEMMA HandlerKeeps ==
    ASSUME TypeOK, OneWorker, ListsShrink, phase = "ingest" => cur' \notin retry,
           NEW D, \A d \in Delivery \ D : Untouched(d),
           \A d \in Delivery \cap D : Tended(d)' /\ LastFailure(d)' /\ Retryable(d)',
           StagesServe'
    PROVE  OneWorker'
<1>1. \A d \in Delivery \ D : Tended(d)' /\ LastFailure(d)' /\ Retryable(d)'
  <2>. SUFFICES ASSUME NEW d \in Delivery \ D PROVE Tended(d)' /\ LastFailure(d)' /\ Retryable(d)'
    OBVIOUS
  <2>1. Tended(d) /\ LastFailure(d) /\ Retryable(d) /\ Untouched(d)
    BY DEF OneWorker
  <2>. QED BY <2>1, ListsKept, UntouchedKept
<1>2. ListsApart'
  BY ListsKept
<1>. QED BY <1>1, <1>2 DEF OneWorker

\* A handler that touches none.
LEMMA NothingTouched ==
    ASSUME TypeOK, OneWorker, ListsShrink, phase = "ingest" => cur' \notin retry,
           \A d \in Delivery : Untouched(d), StagesServe'
    PROVE  OneWorker'
<1>1. /\ \A d \in Delivery \ {} : Untouched(d)
      /\ \A d \in Delivery \cap {} : Tended(d)' /\ LastFailure(d)' /\ Retryable(d)'
  OBVIOUS
<1>. QED BY <1>1, HandlerKeeps

\* The handler at work, its lists and the work it was taken from.
LEMMA TakenIs ==
    ASSUME TypeOK, OneWorker, NEW w \in Work, NEW P, Take(w, P)
    PROVE  /\ pc = "none" /\ cur = NoWork /\ phase \in P /\ w \in todo /\ w \in todo \ {cur}
           /\ phase = "ingest" => w \notin retry
           /\ todo \ {w} \subseteq todo \ {cur}
BY WorkFacts DEF Take, InHand, First, TypeOK, OneWorker, ListsApart

\* The end of a handler, and its next stage.
LEMMA HandlerMoves ==
    ASSUME TypeOK, OneWorker, NEW w \in Work, w = cur \/ pc = "none",
           phase = "ingest" => w \notin retry, (\E s : Goto(s, w)) \/ Done(w)
    PROVE  ListsShrink /\ (phase = "ingest" => cur' \notin retry)
<1>1. NoWork \notin Work /\ todo \subseteq Work /\ retry \subseteq Work /\ (pc = "none" => cur = NoWork)
  BY WorkFacts DEF TypeOK
<1>2. CASE \E s : Goto(s, w)
  BY <1>1, <1>2 DEF Goto, ListsShrink
<1>3. CASE Done(w)
  BY <1>1, <1>3 DEF Done, ListsShrink
<1>. QED BY <1>2, <1>3

\* The ingest of a seat's conclusion mints the next experiment, and its attempt.
LEMMA OneWorkerSeat ==
    ASSUME Inv, OneWorker, NEW l \in Lease, SeatHandler(l),
           NEW d \in Delivery, d = Current(l)
    PROVE  OneWorker'
<1>. DEFINE ended == Marked(attempts, Seat(l), "succeeded")
<1>1. /\ Seat(l) \in Work /\ Seat(l) \notin Delivery /\ d \in Work
      /\ attempts \in AttemptTable /\ OneRunIn(attempts) /\ Seat(l)[1] = l
      /\ verdict \in [Delivery -> {"none", "open"} \cup Verdicts] /\ TypeOK
  BY WorkFacts, CurrentFacts DEF Inv, TypeOK, AttemptTable, SingleFlight
<1>2. Take(Seat(l), IngestPhases) /\ UNCHANGED <<envVars, reopens>>
  BY DEF SeatHandler, SeatInfraFailed, SeatAlreadyConcluded, SeatExits, SeatDelivers,
         SeatRejected, SeatResult, dbVars
<1>3. PICK s \in {"archive", "rejected", "adjudicate"} : Goto(s, Seat(l)) /\
         (s = "adjudicate" => SeatDelivers(l) /\ verdict[d] = "none" /\ ExpCapacity > 0 /\ ~capped)
  BY DEF SeatHandler, SeatInfraFailed, SeatAlreadyConcluded, SeatExits, SeatDelivers, SeatRejected
<1>4. ListsShrink /\ (phase = "ingest" => cur' \notin retry)
  BY <1>1, <1>2, <1>3, TakenIs, HandlerMoves
<1>5. \A v \in Delivery \ {d} : Untouched(v)
  <2>1. \A v \in Delivery : Marked(attempts, Seat(l), "succeeded")[v] = attempts[v]
                         /\ Marked(attempts, Seat(l), "failed")[v] = attempts[v]
    BY <1>1, MarkedStops, WorkFacts DEF AttemptStatus
  <2>2. ended \in AttemptTable
    BY <1>1, TableTypes DEF AttemptStatus
  <2>. HIDE DEF ended
  <2>3. \A v \in Delivery \ {d} : Started(ended, d)[v] = ended[v]
    BY <2>2, WorkFacts DEF Started, AttemptTable
  <2>4. \A v \in Delivery \ {d} : attempts'[v] = attempts[v] /\ verdict'[v] = verdict[v]
    <3>1. CASE SeatDelivers(l)
      <4>1. attempts' \in {ended, Started(ended, d)}
            /\ \E x : verdict' = [verdict EXCEPT ![d] = x]
        BY <3>1 DEF SeatDelivers, ended
      <4>2. \A v \in Delivery \ {d} : attempts'[v] = ended[v]
        BY <4>1, <2>3
      <4>3. \A v \in Delivery \ {d} : verdict'[v] = verdict[v]
        BY <4>1, <1>1
      <4>. QED BY <4>2, <4>3, <2>1 DEF ended
    <3>2. CASE ~SeatDelivers(l)
      <4>1. verdict' = verdict
            /\ attempts' \in {attempts, Marked(attempts, Seat(l), "failed"), Marked(attempts, Seat(l), "succeeded")}
        BY <3>2 DEF SeatHandler, SeatInfraFailed, SeatAlreadyConcluded, SeatExits, SeatRejected, dbVars
      <4>. QED BY <4>1, <2>1
    <3>. QED BY <3>1, <3>2
  <2>. QED BY <1>2, <2>4 DEF Untouched, envVars
<1>6. CASE SeatDelivers(l) /\ verdict[d] = "none"
  <2>1. /\ file[d] = NoFile /\ NoWorker(d) /\ d \notin Kept
    BY <1>1, <1>6 DEF OneWorker, Tended, Unserved, NoWorker, Retryable, Waits
  <2>2. verdict'[d] = "open" /\ file'[d] = NoFile /\ NoWorker(d)'
    BY <1>1, <1>2, <1>6, <2>1 DEF SeatDelivers, NoWorker, envVars
  <2>3. Kept' \subseteq Kept
    BY <1>1, <1>4, ListsKept
  <2>4. Tended(d)' /\ LastFailure(d)' /\ Retryable(d)'
    BY <2>1, <2>2, <2>3 DEF Tended, LastFailure, Retryable, NoWorker, Verdicts
  <2>5. StagesServe'
    <3>1. CASE s = "adjudicate"
      <4>1. /\ attempts' = Started(ended, d) /\ pc' = "adjudicate"
            /\ cur' = Seat(l) /\ Current(cur[1])' = d
        BY <1>1, <1>2, <1>3, <1>6, <3>1 DEF SeatDelivers, Goto, Current
      <4>2. ended \in AttemptTable
        BY <1>1, TableTypes DEF AttemptStatus
      <4>. HIDE DEF ended
      <4>3. attempts'[d] = Append(ended[d], "running") /\ ended[d] \in Seq(AttemptStatus)
        BY <1>1, <4>1, <4>2 DEF Started, AttemptTable
      <4>4. Running(d)'
        <5>1. Len(ended[d]) + 1 \in DOMAIN attempts'[d] /\ attempts'[d][Len(ended[d]) + 1] = "running"
          BY <4>3
        <5>. QED BY <5>1 DEF Running, RunsIn
      <4>5. AboutToRun(d)'
        BY <2>2, <4>4 DEF AboutToRun, Unserved, NoWorker, Running
      <4>6. AboutToRun(Current(cur[1]))'
        BY <4>1, <4>5 DEF AboutToRun, Unserved, NoWorker, Running
      <4>. QED BY <4>1, <4>6 DEF StagesServe
    <3>2. CASE s # "adjudicate"
      BY <1>1, <1>3, <3>2 DEF StagesServe, Goto
    <3>. QED BY <3>1, <3>2
  <2>6. \A v \in Delivery \cap {d} : Tended(v)' /\ LastFailure(v)' /\ Retryable(v)'
    BY <2>4
  <2>. QED BY <1>1, <1>4, <1>5, <2>5, <2>6, HandlerKeeps
<1>7. CASE ~(SeatDelivers(l) /\ verdict[d] = "none")
  <2>1. Untouched(d)
    <3>1. \A v \in Delivery : Marked(attempts, Seat(l), "succeeded")[v] = attempts[v]
                         /\ Marked(attempts, Seat(l), "failed")[v] = attempts[v]
      BY <1>1, MarkedStops, WorkFacts DEF AttemptStatus
    <3>2. verdict' = verdict
          /\ attempts' \in {attempts, Marked(attempts, Seat(l), "failed"), Marked(attempts, Seat(l), "succeeded")}
      BY <1>1, <1>7 DEF SeatHandler, SeatInfraFailed, SeatAlreadyConcluded, SeatExits, SeatDelivers,
             SeatRejected, dbVars
    <3>. QED BY <1>1, <1>2, <3>1, <3>2 DEF Untouched, envVars
  <2>2. StagesServe'
    BY <1>3, <1>7 DEF StagesServe, Goto
  <2>3. \A v \in Delivery : Untouched(v)
    BY <1>5, <2>1
  <2>. QED BY <1>1, <1>4, <2>2, <2>3, NothingTouched
<1>. QED BY <1>6, <1>7

\* A result that is ingested has no worker beside it, and a failure closes an
\* experiment only as its last.
LEMMA OneWorkerExp ==
    ASSUME Inv, OneWorker, NEW d \in Delivery, ExpHandler(d)
    PROVE  OneWorker'
<1>1. /\ d \in Work /\ TypeOK /\ attempts \in AttemptTable /\ OneRunIn(attempts)
      /\ verdict \in [Delivery -> {"none", "open"} \cup Verdicts]
      /\ Take(d, IngestPhases) /\ file[d].kind \in ExpKinds
  <2>1. Take(d, IngestPhases) /\ file[d].kind \in ExpKinds
    BY DEF ExpHandler, IngestRaises, ExpInfraFailed, ExpExhausted, ExpJudged, ExpResult, ExpKinds
  <2>. QED BY <2>1, WorkFacts DEF Inv, TypeOK, AttemptTable, SingleFlight
<1>2. file[d] # NoFile /\ NoWorker(d)
  <2>1. file[d] # NoFile
    BY <1>1 DEF NoFile, ExpKinds, Verdicts
  <2>. QED BY <2>1 DEF OneWorker, Tended, Unserved, NoWorker
<1>3. CASE IngestRaises(d)
  <2>1. /\ UNCHANGED <<verdict, attempts, file, ledger, workers>>
        /\ phase' = "down" /\ pc' = "none" /\ Kept' = {}
    BY <1>3 DEF IngestRaises, Stop, dbVars, envVars, Kept
  <2>2. \A v \in Delivery : Tended(v)' /\ LastFailure(v)' /\ Retryable(v)'
    <3>. SUFFICES ASSUME NEW v \in Delivery PROVE Tended(v)' /\ LastFailure(v)' /\ Retryable(v)'
      OBVIOUS
    <3>1. Tended(v) /\ LastFailure(v) /\ Retryable(v) /\ Untouched(v) /\ phase' \notin IngestPhases
      BY <2>1 DEF OneWorker, Untouched, IngestPhases
    <3>. QED BY <2>1, <3>1, UntouchedKept
  <2>. QED BY <2>1, <2>2 DEF OneWorker, StagesServe, ListsApart
<1>4. CASE ~IngestRaises(d)
  <2>1. PICK s \in {"archive", "exhausted", "judged"} : Goto(s, d)
    BY <1>4 DEF ExpHandler, ExpInfraFailed, ExpExhausted, ExpJudged
  <2>2. ListsShrink /\ (phase = "ingest" => cur' \notin retry)
    BY <1>1, <2>1, TakenIs, HandlerMoves
  <2>3. /\ UNCHANGED <<file, ledger, workers>>
        /\ \A v \in Delivery \ {d} : attempts'[v] = attempts[v] /\ verdict'[v] = verdict[v]
        /\ verdict'[d] \in {"open"} \cup Verdicts
    <3>1. CASE ExpInfraFailed(d)
      <4>1. attempts' = Marked(attempts, d, "failed") /\ verdict' = [verdict EXCEPT ![d] = "open"]
            /\ UNCHANGED envVars
        BY <3>1 DEF ExpInfraFailed
      <4>. QED BY <1>1, <4>1, MarkedStops, WorkFacts DEF AttemptStatus, envVars
    <3>2. CASE ExpExhausted(d) \/ ExpJudged(d)
      BY <1>1, <3>2 DEF ExpExhausted, ExpJudged, ExpResult, envVars, Verdicts
    <3>. QED BY <1>4, <3>1, <3>2 DEF ExpHandler
  <2>4. Tended(d)'
    BY <1>2, <2>3 DEF Tended, NoWorker, Verdicts
  <2>5. LastFailure(d)'
    <3>1. CASE ExpInfraFailed(d)
      <4>1. verdict'[d] = "open"
        BY <1>1, <3>1 DEF ExpInfraFailed
      <4>. QED BY <4>1 DEF LastFailure, Verdicts
    <3>2. CASE ExpExhausted(d)
      BY <2>3, <3>2 DEF ExpExhausted, ExpResult, LastFailure, Exhausted
    <3>3. CASE ExpJudged(d)
      BY <2>3, <3>3 DEF ExpJudged, ExpResult, LastFailure, Verdicts
    <3>. QED BY <1>4, <3>1, <3>2, <3>3 DEF ExpHandler
  <2>6. Retryable(d)'
    <3>1. d \notin Kept
      BY <1>1, TakenIs DEF Kept, IngestPhases
    <3>. QED BY <1>1, <2>2, <3>1, ListsKept DEF Retryable
  <2>7. \A v \in Delivery \ {d} : Untouched(v)
    BY <2>3 DEF Untouched
  <2>8. StagesServe'
    BY <2>1 DEF StagesServe, Goto
  <2>9. \A v \in Delivery \cap {d} : Tended(v)' /\ LastFailure(v)' /\ Retryable(v)'
    BY <2>4, <2>5, <2>6
  <2>. QED BY <1>1, <2>2, <2>7, <2>8, <2>9, HandlerKeeps
<1>. QED BY <1>3, <1>4

\* A worker of an experiment that is about to run is the first of its attempt.
LEMMA SpawnKeeps ==
    ASSUME Backend = "condor", TypeOK, OneWorker, NEW w \in Work, Spawn(w),
           w \in Delivery => AboutToRun(w), UNCHANGED <<verdict, attempts, file>>,
           ListsShrink, phase = "ingest" => cur' \notin retry, StagesServe'
    PROVE  OneWorker'
<1>1. /\ workers' = workers \cup {<<w, Len(attempts[w])>>}
      /\ ledger' = [ledger EXCEPT ![w] = Len(attempts[w])]
  BY DEF Spawn
<1>2. \A d \in Delivery \ {w} : Untouched(d)
  <2>1. \A d \in Delivery \ {w} : ledger'[d] = ledger[d]
    BY <1>1, WorkFacts DEF TypeOK
  <2>2. \A d \in Delivery \ {w} : \A n \in Nat : <<d, n>> \in workers' => <<d, n>> \in workers
    BY <1>1
  <2>. QED BY <2>1, <2>2 DEF Untouched
<1>3. \A d \in Delivery \cap {w} : Tended(d)' /\ LastFailure(d)' /\ Retryable(d)'
  <2>. SUFFICES ASSUME w \in Delivery PROVE Tended(w)' /\ LastFailure(w)' /\ Retryable(w)'
    OBVIOUS
  <2>1. ledger'[w] = Len(attempts[w])
    BY <1>1 DEF TypeOK
  <2>2. \A n \in Nat : <<w, n>> \in workers' => n = Len(attempts[w])
    BY <1>1 DEF AboutToRun, NoWorker
  <2>3. Running(w)' /\ file'[w] = NoFile /\ verdict'[w] = "open"
    BY DEF AboutToRun, Unserved, Running, RunsIn
  <2>4. Tended(w)'
    BY <2>1, <2>2, <2>3 DEF Tended, Unserved
  <2>5. LastFailure(w)' /\ Retryable(w)'
    BY <2>3 DEF LastFailure, Retryable, Waits, Verdicts
  <2>. QED BY <2>4, <2>5
<1>. QED BY <1>2, <1>3, HandlerKeeps

\* The later stages of a handler settle an experiment, archive its result or
\* start its worker.
LEMMA OneWorkerStage ==
    ASSUME Backend = "condor", Inv, OneWorker, HandlerStage
    PROVE  OneWorker'
<1>1. /\ TypeOK /\ attempts \in AttemptTable /\ OneRunIn(attempts)
      /\ pc # "none" /\ cur \in Work /\ cur[1] \in Lease
  <2>1. TypeOK /\ attempts \in AttemptTable /\ OneRunIn(attempts)
    BY DEF Inv, TypeOK, AttemptTable, SingleFlight
  <2>2. pc # "none"
    BY DEF HandlerStage, LaunchAdjudication, SeatCorrected, SeatCutOff, CutOffSucceeded,
           ExpSucceeded, CloseExhausted, ResolveAccepted, ResolveParked, ResolveBudget,
           ResolveReopened, ResolveRejected, WriteBack, Resolving, Archive, Submit
  <2>. QED BY <2>1, <2>2, CurFacts
<1>2. (\E s \in {"archive", "cut_off", "resolve", "close"} : Goto(s, cur)) \/ Done(cur)
  BY DEF HandlerStage, LaunchAdjudication, SeatCorrected, SeatCutOff, CutOffSucceeded,
         ExpSucceeded, CloseExhausted, ResolveAccepted, ResolveParked, ResolveBudget,
         ResolveReopened, ResolveRejected, Resolved, Archive, Submit
<1>3. ListsShrink /\ (phase = "ingest" => cur' \notin retry)
  <2>1. phase = "ingest" => cur \notin retry
    BY DEF OneWorker, ListsApart
  <2>. QED BY <1>1, <1>2, <2>1, HandlerMoves
<1>4. StagesServe'
  BY <1>2 DEF StagesServe, Goto, Done
<1>5. CASE LaunchAdjudication
  <2>1. /\ Current(cur[1]) \in Delivery /\ Current(cur[1]) \in Work
        /\ AboutToRun(Current(cur[1]))
    BY <1>1, <1>5, CurrentFacts, WorkFacts
       DEF LaunchAdjudication, OneWorker, StagesServe, TypeOK
  <2>. QED BY <1>1, <1>3, <1>4, <1>5, <2>1, SpawnKeeps DEF LaunchAdjudication, dbVars
<1>6. CASE Submit
  BY <1>1, <1>3, <1>4, <1>6, SpawnKeeps DEF Submit, dbVars, OneWorker, StagesServe
<1>7. CASE Archive
  <2>1. /\ file' = [file EXCEPT ![cur] = NoFile]
        /\ UNCHANGED <<verdict, attempts, ledger, workers>>
    BY <1>7 DEF Archive, dbVars
  <2>2. \A d \in Delivery \ {cur} : Untouched(d)
    BY <1>1, <2>1, WorkFacts DEF Untouched, TypeOK
  <2>3. \A d \in Delivery \cap {cur} : Tended(d)' /\ LastFailure(d)' /\ Retryable(d)'
    <3>. SUFFICES ASSUME NEW d \in Delivery, d = cur
                  PROVE  Tended(d)' /\ LastFailure(d)' /\ Retryable(d)'
      OBVIOUS
    <3>1. Tended(d) /\ LastFailure(d) /\ Retryable(d) /\ file'[d] = NoFile
      BY <1>1, <2>1 DEF OneWorker, TypeOK
    <3>2. Running(d)' = Running(d) /\ Kept' \subseteq Kept
      BY <1>1, <1>3, <2>1, ListsKept DEF Running, RunsIn
    <3>3. Tended(d)'
      BY <2>1, <3>1, <3>2 DEF Tended, Unserved
    <3>4. LastFailure(d)'
      BY <3>1 DEF LastFailure, NoFile
    <3>5. Retryable(d)'
      BY <2>1, <3>1, <3>2 DEF Retryable, Waits
    <3>. QED BY <3>3, <3>4, <3>5
  <2>. QED BY <1>1, <1>3, <1>4, <2>2, <2>3, HandlerKeeps
<1>8. CASE SeatCorrected \/ CutOffSucceeded \/ ExpSucceeded
  <2>1. /\ UNCHANGED <<verdict, file, ledger, workers>> /\ cur' = cur
        /\ attempts' \in {Marked(attempts, cur, "failed"), Marked(attempts, cur, "succeeded")}
    BY <1>8 DEF SeatCorrected, CutOffSucceeded, ExpSucceeded, Goto, envVars
  <2>2. /\ \A d \in Delivery \ {cur} : attempts'[d] = attempts[d]
        /\ ~RunsIn(attempts', cur)
    BY <1>1, <2>1, MarkedStops, WorkFacts DEF AttemptStatus
  <2>3. \A d \in Delivery \ {cur} : Untouched(d)
    BY <2>1, <2>2 DEF Untouched
  <2>4. ASSUME cur \in Delivery PROVE verdict[cur] \in Verdicts
    BY <1>8, <2>4, WorkFacts
       DEF SeatCorrected, CutOffSucceeded, ExpSucceeded, Inv, ListsStayTrue, StageOK
  <2>5. \A d \in Delivery \cap {cur} : Tended(d)' /\ LastFailure(d)' /\ Retryable(d)'
    <3>. SUFFICES ASSUME NEW d \in Delivery, d = cur
                  PROVE  Tended(d)' /\ LastFailure(d)' /\ Retryable(d)'
      OBVIOUS
    <3>1. Tended(d) /\ verdict[d] \in Verdicts /\ ~Running(d)' /\ d = cur'
      BY <2>1, <2>2, <2>4 DEF OneWorker, Running
    <3>2. Tended(d)'
      BY <2>1, <3>1 DEF Tended, Unserved, Verdicts
    <3>3. LastFailure(d)'
      BY <3>1 DEF LastFailure
    <3>4. d \notin Kept'
      <4>1. phase' = phase /\ retry' = retry /\ (phase = "ingest" => d \notin retry)
        BY <1>3, <3>1 DEF ListsShrink
      <4>. QED BY <3>1, <4>1 DEF Kept
    <3>. QED BY <3>2, <3>3, <3>4 DEF Retryable
  <2>. QED BY <1>1, <1>3, <1>4, <2>3, <2>5, HandlerKeeps
<1>9. CASE SeatCutOff \/ CloseExhausted \/ ResolveAccepted \/ ResolveParked \/ ResolveBudget
             \/ ResolveReopened \/ ResolveRejected
  <2>1. UNCHANGED <<verdict, attempts, file, ledger, workers>>
    BY <1>9 DEF SeatCutOff, CloseExhausted, ResolveAccepted, ResolveParked, ResolveBudget,
                ResolveReopened, ResolveRejected, Resolved, envVars
  <2>2. \A d \in Delivery : Untouched(d)
    BY <2>1 DEF Untouched
  <2>. QED BY <1>1, <1>3, <1>4, <2>2, NothingTouched
<1>. QED BY <1>5, <1>6, <1>7, <1>8, <1>9 DEF HandlerStage

\* An experiment is started again only when its attempt is over and has no
\* result: it was kept for the retry phase by the reconciler.
LEMMA OneWorkerStart ==
    ASSUME Inv, OneWorker, Start
    PROVE  OneWorker'
<1>1. /\ TypeOK /\ attempts \in AttemptTable /\ \A l \in Lease : Seat(l) \in Work
      /\ \A l \in Lease : Seat(l) \notin Delivery
  BY WorkFacts DEF Inv, TypeOK, AttemptTable
<1>2. ASSUME NEW w \in Work, pc = "none", phase # "ingest",
             Goto("record", w) \/ Done(w), UNCHANGED <<verdict, attempts, envVars>>
      PROVE  OneWorker'
  <2>1. ListsShrink /\ (phase = "ingest" => cur' \notin retry)
    BY <1>1, <1>2, HandlerMoves
  <2>2. \A d \in Delivery : Untouched(d)
    BY <1>2 DEF Untouched, envVars
  <2>3. StagesServe'
    BY <1>2 DEF StagesServe, Goto, Done
  <2>. QED BY <1>1, <2>1, <2>2, <2>3, NothingTouched
<1>3. CASE \E l \in Lease : Allocate(l) \/ Reactivate(l)
  BY <1>1, <1>2, <1>3 DEF Allocate, Reactivate, Take, InHand, ResubmitPhases
<1>4. CASE \E w \in Work : ResubmitSkipped(w)
  BY <1>2, <1>4 DEF ResubmitSkipped, Take, InHand, ResubmitPhases, dbVars
<1>5. CASE \E w \in Work : RecordAttempt(w)
  <2>1. PICK w \in Work : RecordAttempt(w)
    BY <1>5
  <2>2. /\ attempts' = Started(attempts, w) /\ Goto("submit", w)
        /\ UNCHANGED <<verdict, file, ledger, workers>>
    BY <2>1 DEF RecordAttempt, envVars
  <2>3. ListsShrink /\ (phase = "ingest" => cur' \notin retry)
    <3>1. (w = cur \/ pc = "none") /\ (phase = "ingest" => w \notin retry)
      BY <2>1 DEF RecordAttempt, Take, InHand, ResubmitPhases, OneWorker, ListsApart
    <3>. QED BY <1>1, <2>2, <3>1, HandlerMoves
  <2>4. \A d \in Delivery \ {w} : Untouched(d)
    <3>1. \A d \in Delivery \ {w} : attempts'[d] = attempts[d]
      BY <1>1, <2>2, WorkFacts DEF Started, AttemptTable
    <3>. QED BY <2>2, <3>1 DEF Untouched
  <2>5. ASSUME w \in Delivery PROVE AboutToRun(w)'
    <3>1. Take(w, ResubmitPhases) /\ Startable(w)
      BY <2>1, <2>5, WorkFacts DEF RecordAttempt, Inv, ListsStayTrue, StageOK
    <3>2. phase = "retry" /\ w \in todo \ {cur}
      BY <1>1, <2>5, <3>1, WorkFacts
         DEF Take, InHand, First, ResubmitPhases, OneWorker, ListsApart, TypeOK
    <3>3. ~Running(w) /\ verdict[w] = "open" /\ file[w] = NoFile
      <4>1. w \in Kept
        BY <3>2 DEF Kept
      <4>2. Waits(w)
        BY <2>5, <4>1 DEF OneWorker, Retryable
      <4>3. ~Running(w) /\ verdict[w] = "open"
        BY <2>5, <3>1, WorkFacts DEF Startable
      <4>. QED BY <4>2, <4>3 DEF Waits
    <3>4. NoWorker(w)
      BY <2>5, <3>3 DEF OneWorker, Tended, Unserved, NoWorker
    <3>5. attempts'[w] = Append(attempts[w], "running") /\ attempts[w] \in Seq(AttemptStatus)
      BY <1>1, <2>2 DEF Started, AttemptTable
    <3>6. Len(attempts[w]) + 1 \in DOMAIN attempts'[w] /\ attempts'[w][Len(attempts[w]) + 1] = "running"
      BY <3>5
    <3>7. Running(w)'
      BY <3>6 DEF Running, RunsIn
    <3>. QED BY <2>2, <3>3, <3>4, <3>7 DEF AboutToRun, Unserved, NoWorker
  <2>6. \A d \in Delivery \cap {w} : Tended(d)' /\ LastFailure(d)' /\ Retryable(d)'
    <3>. SUFFICES ASSUME w \in Delivery PROVE Tended(w)' /\ LastFailure(w)' /\ Retryable(w)'
      OBVIOUS
    <3>1. AboutToRun(w)'
      BY <2>5
    <3>2. Running(w)' /\ verdict'[w] = "open" /\ \A n \in Nat : <<w, n>> \notin workers'
      BY <3>1 DEF AboutToRun, Unserved, NoWorker
    <3>. QED BY <3>2 DEF Tended, LastFailure, Retryable, Waits, Verdicts
  <2>7. StagesServe'
    <3>1. cur' = w /\ pc' = "submit"
      BY <2>2 DEF Goto
    <3>2. cur' \in Delivery => AboutToRun(cur)'
      BY <2>5, <3>1 DEF AboutToRun, Unserved, NoWorker, Running
    <3>. QED BY <3>1, <3>2 DEF StagesServe
  <2>. QED BY <1>1, <2>3, <2>4, <2>6, <2>7, HandlerKeeps
<1>. QED BY <1>3, <1>4, <1>5 DEF Start

\* The next phase: what it polls runs, what it retries was kept for it.
LEMMA PhaseKeeps ==
    ASSUME OneWorker, \A d \in Delivery : Untouched(d),
           phase' \in IngestPhases => \A d \in Delivery \cap todo' : Running(d),
           Kept' \subseteq Kept, ListsApart', StagesServe'
    PROVE  OneWorker'
<1>1. \A d \in Delivery : Tended(d)' /\ LastFailure(d)' /\ Retryable(d)'
  <2>. SUFFICES ASSUME NEW d \in Delivery PROVE Tended(d)' /\ LastFailure(d)' /\ Retryable(d)'
    OBVIOUS
  <2>1. Tended(d) /\ LastFailure(d) /\ Retryable(d) /\ Untouched(d)
    BY DEF OneWorker
  <2>2. phase' \in IngestPhases /\ d \in todo' \ {cur'} => Running(d)
    OBVIOUS
  <2>3. d \in Kept' => d \in Kept
    OBVIOUS
  <2>. QED BY <2>1, <2>2, <2>3, UntouchedKept
<1>. QED BY <1>1 DEF OneWorker

\* The phases of a step.
LEMMA OneWorkerPhase ==
    ASSUME Inv, OneWorker, PhaseStep
    PROVE  OneWorker'
<1>1. TypeOK /\ \A l \in Lease : Seat(l) \in Seats
  BY WorkFacts DEF Inv
<1>2. pc = "none" /\ pc' = "none" /\ UNCHANGED <<verdict, attempts, file, ledger, workers>>
  BY DEF PhaseStep, EnterRetry, EnterAllocate, EnterPollSeats, EnterPollExps, EnterReopen, Enter,
         EndStep, Stop, PollMiss, ResultUnread, Take, InHand, Done, dbVars, envVars
<1>3. StagesServe' /\ \A d \in Delivery : Untouched(d)
  BY <1>2 DEF StagesServe, Untouched
<1>4. CASE \E w \in Work : PollMiss(w) \/ ResultUnread(w)
  <2>1. PICK w \in Work : Done(w)
    BY <1>4 DEF PollMiss, ResultUnread
  <2>2. NoWork \notin Work /\ retry \subseteq Work /\ cur = NoWork
    BY <1>1, <1>2, WorkFacts DEF TypeOK
  <2>3. ListsShrink /\ (phase = "ingest" => cur' \notin retry)
    BY <2>1, <2>2 DEF Done, ListsShrink
  <2>. QED BY <1>1, <1>3, <2>3, NothingTouched
<1>5. CASE EnterRetry
  <2>1. Kept' \subseteq Kept /\ ListsApart' /\ phase' = "retry"
    BY <1>5 DEF EnterRetry, Enter, InHand, Kept, ListsApart
  <2>. QED BY <1>3, <2>1, PhaseKeeps DEF IngestPhases
<1>6. CASE EnterPollSeats \/ EnterPollExps
  <2>1. phase' \in {"pollSeats", "pollExps"} /\ todo' \subseteq RunningIn(Work)
    BY <1>6 DEF EnterPollSeats, EnterPollExps, Enter, RunningIn, Work
  <2>2. Kept' = {} /\ ListsApart'
    BY <2>1 DEF Kept, ListsApart
  <2>3. \A d \in Delivery \cap todo' : Running(d)
    BY <2>1 DEF RunningIn
  <2>. QED BY <1>3, <2>2, <2>3, PhaseKeeps
<1>7. CASE EnterAllocate \/ EnterReopen \/ EndStep
  <2>1. /\ phase' \in {"allocate", "reopen", "idle", "capped", "quiesced"}
        /\ phase' = "reopen" => todo' \subseteq Seats
    BY <1>1, <1>7 DEF EnterAllocate, EnterReopen, Enter, EndStep, Stop
  <2>2. Kept' = {} /\ ListsApart' /\ phase' \notin IngestPhases
    BY <2>1 DEF Kept, ListsApart, IngestPhases
  <2>. QED BY <1>3, <2>2, PhaseKeeps
<1>. QED BY <1>4, <1>5, <1>6, <1>7 DEF PhaseStep

\* A reconciliation ends the attempts of jobs whose workers are gone.
LEMMA OneWorkerReconcile ==
    ASSUME Inv, OneWorker, NEW gone \in SUBSET DeadJobs, Reconcile(gone)
    PROVE  OneWorker'
<1>1. /\ attempts' = Ended(attempts, gone, "failed")
      /\ ledger' = [w \in Work |-> IF w \in gone THEN 0 ELSE ledger[w]]
      /\ UNCHANGED <<verdict, file, workers>>
      /\ phase' = "ingest" /\ pc' = "none" /\ cur' = NoWork
      /\ todo' = {w \in Known : Unreaped(w)} /\ retry' = {w \in Known : ~Unreaped(w)}
  BY DEF Reconcile, InHand, Inv, TypeOK
<1>2. \A d \in Delivery \cap Known : verdict[d] = "open"
  BY WorkFacts DEF Known
<1>3. NoWork \notin Known
  BY WorkFacts DEF Known
<1>4. ASSUME NEW d \in Delivery PROVE Tended(d)' /\ LastFailure(d)' /\ Retryable(d)'
  <2>1. Tended(d) /\ LastFailure(d) /\ Retryable(d) /\ d \in Work
    BY WorkFacts DEF OneWorker
  <2>2. CASE d \in gone
    <3>1. /\ verdict[d] = "open" /\ file[d] = NoFile /\ <<d, ledger[d]>> \notin workers
      BY <1>2, <2>2 DEF DeadJobs, Unreaped
    <3>2. \A n \in Nat : <<d, n>> \notin workers
      BY <2>1, <3>1 DEF Tended
    <3>. QED BY <1>1, <3>1, <3>2 DEF Tended, LastFailure, Retryable, Waits, Verdicts
  <2>3. CASE d \notin gone
    <3>1. Untouched(d)
      BY <1>1, <2>1, <2>3 DEF Untouched, Ended
    <3>2. d \in todo' => verdict[d] = "open"
      BY <1>1, <1>2
    <3>3. d \in Kept' => Waits(d)
      BY <1>1, <1>2 DEF Kept, Waits, Unreaped
    <3>. QED BY <2>1, <3>1, <3>2, <3>3, UntouchedKept
  <2>. QED BY <2>2, <2>3
<1>5. StagesServe' /\ ListsApart'
  BY <1>1, <1>3 DEF StagesServe, ListsApart
<1>. QED BY <1>4, <1>5 DEF OneWorker

\* The stages of a handler, while the world changes around it.
LEMMA StagesStay ==
    ASSUME TypeOK, OneWorker, UNCHANGED <<pc, cur, reopens>>,
           \A d \in Delivery : AboutToRun(d) => Untouched(d)
    PROVE  StagesServe'
<1>1. ASSUME NEW d \in Delivery, AboutToRun(d) PROVE AboutToRun(d)'
  <2>1. Untouched(d)
    BY <1>1
  <2>. QED BY <1>1, <2>1 DEF AboutToRun, Untouched, Unserved, NoWorker, Running, RunsIn
<1>2. pc = "submit" /\ cur \in Delivery => AboutToRun(cur)'
  <2>. SUFFICES ASSUME NEW d \in Delivery, d = cur, pc = "submit" PROVE AboutToRun(cur)'
    OBVIOUS
  <2>1. AboutToRun(d)'
    BY <1>1 DEF OneWorker, StagesServe
  <2>2. cur' = d
    OBVIOUS
  <2>. QED BY <2>1, <2>2 DEF AboutToRun, Unserved, NoWorker, Running
<1>3. pc = "adjudicate" => AboutToRun(Current(cur[1]))'
  <2>. SUFFICES ASSUME pc = "adjudicate" PROVE AboutToRun(Current(cur[1]))'
    OBVIOUS
  <2>1. PICK d \in Delivery : d = Current(cur[1])
    BY CurFacts, CurrentFacts DEF TypeOK
  <2>2. AboutToRun(d)'
    BY <1>1, <2>1 DEF OneWorker, StagesServe
  <2>3. Current(cur[1])' = d
    BY <2>1 DEF Current
  <2>. QED BY <2>2, <2>3 DEF AboutToRun, Unserved, NoWorker, Running
<1>. QED BY <1>2, <1>3 DEF StagesServe

\* Workers and the cluster scheduler's own end: a worker that reports is the only
\* one of its experiment, and its result the only one.
LEMMA OneWorkerEnvironment ==
    ASSUME Backend = "condor", Inv, OneWorker, Environment \/ UNCHANGED vars
    PROVE  OneWorker'
<1>1. TypeOK
  BY DEF Inv
<1>2. ASSUME UNCHANGED schedVars
      PROVE  ListsShrink /\ (phase = "ingest" => cur' \notin retry)
  BY <1>2 DEF schedVars, ListsShrink, OneWorker, ListsApart
<1>3. CASE \E w \in Work : WorkerStep(w)
  <2>1. PICK w \in Work, n \in Nat : WorkerEnds(w, n)
    <3>1. \A w \in Work : 1..Len(attempts[w]) \subseteq Nat
      BY <1>1 DEF TypeOK
    <3>. QED BY <1>3, <3>1 DEF WorkerStep
  <2>2. /\ <<w, n>> \in workers /\ workers' = workers \ {<<w, n>>}
        /\ \E kind : file' = [file EXCEPT ![w] = [kind |-> kind, by |-> n]]
        /\ UNCHANGED <<verdict, attempts, ledger, reopens, schedVars>>
    BY <2>1 DEF WorkerEnds, dbVars
  <2>3. \A d \in Delivery \ {w} : Untouched(d)
    BY <1>1, <2>2, WorkFacts DEF Untouched, TypeOK
  <2>4. w \in Delivery => ~AboutToRun(w)
    BY <2>2 DEF AboutToRun, NoWorker
  <2>5. \A d \in Delivery \cap {w} : Tended(d)' /\ LastFailure(d)' /\ Retryable(d)'
    <3>. SUFFICES ASSUME w \in Delivery PROVE Tended(w)' /\ LastFailure(w)' /\ Retryable(w)'
      OBVIOUS
    <3>1. Tended(w)
      BY DEF OneWorker
    <3>2. n = Len(attempts[w]) /\ Running(w) /\ verdict[w] = "open"
      BY <2>2, <3>1 DEF Tended, Unserved
    <3>3. \A k \in Nat : <<w, k>> \notin workers'
      BY <2>2, <3>1, <3>2 DEF Tended
    <3>4. Running(w)' /\ verdict'[w] = "open"
      BY <2>2, <3>2 DEF Running, RunsIn
    <3>. QED BY <3>3, <3>4 DEF Tended, LastFailure, Retryable, Waits, Verdicts
  <2>6. StagesServe'
    BY <1>1, <2>2, <2>3, <2>4, StagesStay DEF schedVars
  <2>. QED BY <1>1, <1>2, <2>2, <2>3, <2>5, <2>6, HandlerKeeps
<1>4. CASE (\E job \in workers : WorkerDies(job[1], job[2])) \/ UNCHANGED vars
  <2>1. /\ workers' \subseteq workers
        /\ UNCHANGED <<verdict, attempts, file, ledger, reopens, schedVars>>
    BY <1>4 DEF WorkerDies, dbVars, vars, envVars, schedVars
  <2>2. \A d \in Delivery : Untouched(d)
    BY <2>1 DEF Untouched
  <2>3. StagesServe'
    BY <1>1, <2>1, <2>2, StagesStay DEF schedVars
  <2>. QED BY <1>1, <1>2, <2>1, <2>2, <2>3, NothingTouched
<1>5. CASE Interrupt \/ Crash
  <2>1. /\ UNCHANGED <<verdict, attempts, file, ledger, workers>>
        /\ phase' = "down" /\ pc' = "none"
    BY <1>5 DEF Interrupt, Crash, Stop, dbVars
  <2>2. (\A d \in Delivery : Untouched(d)) /\ StagesServe' /\ ListsApart' /\ Kept' = {}
    BY <2>1 DEF Untouched, StagesServe, ListsApart, Kept
  <2>. QED BY <2>1, <2>2, PhaseKeeps DEF IngestPhases
<1>6. CASE Restart
  <2>1. /\ UNCHANGED <<verdict, attempts, file, ledger, workers, reopens, pc, cur>>
        /\ phase' = "idle"
    BY <1>6 DEF Restart, Reset
  <2>2. (\A d \in Delivery : Untouched(d)) /\ ListsApart' /\ Kept' = {}
    BY <2>1 DEF Untouched, ListsApart, Kept
  <2>3. StagesServe'
    BY <1>1, <2>1, <2>2, StagesStay
  <2>. QED BY <2>1, <2>2, <2>3, PhaseKeeps DEF IngestPhases
<1>. QED BY <1>3, <1>4, <1>5, <1>6 DEF Environment

\* On a cluster that never takes a live job for a dead one.
LEMMA OneWorkerStep ==
    ASSUME Backend = "condor", "ghost" \notin Faults, Inv, OneWorker, [Next]_vars
    PROVE  OneWorker'
<1>1. CASE \E l \in Lease : SeatHandler(l)
  <2>1. PICK l \in Lease : SeatHandler(l)
    BY <1>1
  <2>2. PICK d \in Delivery : d = Current(l)
    BY CurrentFacts DEF Inv, TypeOK
  <2>. QED BY <2>1, <2>2, OneWorkerSeat
<1>2. CASE \E d \in Delivery : ExpHandler(d)
  BY <1>2, OneWorkerExp
<1>3. CASE HandlerStage
  BY <1>3, OneWorkerStage
<1>4. CASE Start
  BY <1>4, OneWorkerStart
<1>5. CASE PhaseStep
  BY <1>5, OneWorkerPhase
<1>6. CASE ReconcileAll \/ ReconcileSome
  BY <1>6, OneWorkerReconcile DEF ReconcileAll, ReconcileSome
<1>7. CASE Environment \/ Rest \/ UNCHANGED vars
  BY <1>7, OneWorkerEnvironment DEF Rest
<1>8. ~ReconcileGhost
  BY DEF ReconcileGhost, Fault
<1>. QED BY <1>1, <1>2, <1>3, <1>4, <1>5, <1>6, <1>7, <1>8 DEF Next, SchedulerStep

\* Whichever of the four is missing, no verdict is taken back.
THEOREM NoVerdictTakenBack ==
    ASSUME VerdictsAreSafe
    PROVE  Spec => []VerdictsStand
<1>1. CASE Backend = "local" \/ "crash" \notin Faults
  <2>1. SettledIsDone => VerdictsStand
    BY DEF SettledIsDone, VerdictsStand, Verdicts
  <2>2. Spec => []SettledIsDone
    BY <1>1, SettledAreDone
  <2>. QED BY <2>1, <2>2, PTL
<1>2. CASE Faults \cap {"fail", "unknown"} = {}
  <2>1. TypeOK /\ NoFailure /\ [Next]_vars => NoFailure'
    BY <1>2, NoFailureStep
  <2>2. TypeOK /\ NoFailure => VerdictsStand
    BY WorkFacts DEF NoFailure, VerdictsStand
  <2>. QED BY <2>1, <2>2, NoFailureInit, TypeCorrect, PTL DEF Spec
<1>3. CASE Backend = "condor" /\ "ghost" \notin Faults
  <2>1. Inv /\ OneWorker /\ [Next]_vars => OneWorker'
    BY <1>3, OneWorkerStep
  <2>2. OneWorker => VerdictsStand
    BY DEF OneWorker, LastFailure, VerdictsStand
  <2>. QED BY <2>1, <2>2, OneWorkerInit, Safety, PTL DEF Spec
<1>. QED BY <1>1, <1>2, <1>3, ConfigAssumption DEF VerdictsAreSafe, ConfigAssumption

(***************************************************************************)
(* Refinement: every step of the scheduler is a step of the protocol, for  *)
(* one lease, or a stutter.                                                *)
(***************************************************************************)

\* The fresh run database is an initial state of the protocol.
LEMMA InitRefines == Init => Protocol!Init
BY DEF Init, Protocol!Init, Delivery, Protocol!Delivery

\* The ingest of a seat's conclusion is an Exit, a Deliver or a stutter.
LEMMA SeatRefines ==
    ASSUME Inv, NEW l \in Lease, SeatHandler(l)
    PROVE  Protocol!LeaseStep(l) \/ UNCHANGED <<state, reopens, verdict>>
<1>1. CASE SeatExits(l)
  <2>1. state[l] \in {"researching", "reopen"}
    <3>1. state[l] # "awaiting_adjudication"
      BY <1>1, WorkFacts
         DEF SeatExits, SeatResult, Take, InHand, First, Inv, TypeOK, ListsStayTrue, TodoOK
    <3>. QED BY <1>1, <3>1 DEF SeatExits, OpenLease, Inv, TypeOK, States
  <2>2. Protocol!Exit(l)
    BY <1>1, <2>1 DEF SeatExits, Conclude, Protocol!Exit
  <2>. QED BY <2>2 DEF Protocol!LeaseStep
<1>2. CASE SeatDelivers(l)
  <2>1. state[l] \in {"researching", "reopen"}
    <3>1. state[l] # "awaiting_adjudication"
      BY <1>2, WorkFacts
         DEF SeatDelivers, SeatResult, Take, InHand, First, Inv, TypeOK, ListsStayTrue, TodoOK
    <3>. QED BY <1>2, <3>1 DEF SeatDelivers, OpenLease, Inv, TypeOK, States
  <2>2. verdict[Current(l)] = "none"
    BY <2>1 DEF Inv, LeaseMatchesVerdicts, MatchesVerdicts
  <2>3. Protocol!Deliver(l)
    BY <1>2, <2>1, <2>2 DEF SeatDelivers, Protocol!Deliver, Protocol!Current, Current
  <2>. QED BY <2>3 DEF Protocol!LeaseStep
<1>. QED BY <1>1, <1>2
         DEF SeatHandler, SeatInfraFailed, SeatAlreadyConcluded, SeatRejected, dbVars

\* The ingest of an experiment's result is a Judge or a stutter.
LEMMA ExpRefines ==
    ASSUME Inv, VerdictsStand, NEW d \in Delivery, ExpHandler(d)
    PROVE  Protocol!LeaseStep(d[1]) \/ UNCHANGED <<state, reopens, verdict>>
<1>1. CASE ExpExhausted(d) \/ ExpJudged(d)
  <2>1. Deciding(d) /\ verdict[d] = "open"
    <3>1. phase \in IngestPhases /\ d \in todo \ {cur} /\ verdict[d] = "open"
      BY <1>1, WorkFacts
         DEF ExpExhausted, ExpJudged, ExpResult, Ingestible, Take, InHand, First, Inv, TypeOK
    <3>. QED BY <3>1, WorkFacts DEF Inv, ListsStayTrue, TodoOK
  <2>2. \E v \in Verdicts : verdict' = [verdict EXCEPT ![d] = v]
    BY <1>1 DEF ExpExhausted, ExpJudged, ExpResult, Verdicts
  <2>3. UNCHANGED <<state, reopens>>
    BY <1>1 DEF ExpExhausted, ExpJudged
  <2>4. Protocol!Judge(d[1])
    BY <2>1, <2>2, <2>3
       DEF Deciding, Current, Protocol!Judge, Protocol!Current, Protocol!Verdicts, Verdicts
  <2>. QED BY <2>4 DEF Protocol!LeaseStep
<1>2. CASE IngestRaises(d)
  BY <1>2 DEF IngestRaises, dbVars
<1>3. CASE ExpInfraFailed(d)
  BY <1>3, FailureKeeps DEF ExpInfraFailed
<1>. QED BY <1>1, <1>2, <1>3 DEF ExpHandler

\* The write-back of a verdict is an Accept, a SendBack or a CloseRejected.
LEMMA ClosingRefines ==
    ASSUME Inv, Closing, NEW l \in Lease, l = cur[1]
    PROVE  Protocol!LeaseStep(l) \/ UNCHANGED <<state, reopens, verdict>>
<1>1. verdict' = verdict
  BY DEF Closing, SeatCutOff, CloseExhausted, ResolveAccepted, ResolveBudget, ResolveReopened,
         ResolveRejected, Resolved
<1>2. CASE SeatCutOff
  <2>1. reopens' = reopens /\ state' = Conclude(l, "concluded_cut_off")
        /\ state[l] # "awaiting_adjudication"
    BY <1>2 DEF SeatCutOff, Inv, ListsStayTrue, StageOK
  <2>2. CASE ~OpenLease(l)
    BY <1>1, <2>1, <2>2 DEF Conclude
  <2>3. CASE OpenLease(l)
    <3>1. Protocol!Exit(l)
      BY <1>1, <2>1, <2>3 DEF Conclude, OpenLease, Protocol!Exit, Inv, TypeOK, States
    <3>. QED BY <3>1 DEF Protocol!LeaseStep
  <2>. QED BY <2>2, <2>3
<1>3. CASE ~SeatCutOff
  <2>1. /\ cur = Current(l) /\ state[l] = "awaiting_adjudication" /\ OpenLease(l)
        /\ pc = "close" => verdict[cur] = "gate_rejected"
        /\ reopens[l] \in 0..MaxReopens /\ MaxReopens \in Nat
    BY <1>3, ConfigAssumption
       DEF Closing, CloseExhausted, ResolveAccepted, ResolveBudget, ResolveReopened,
           ResolveRejected, WriteBack, Resolving, Inv, ListsStayTrue, StageOK, Deciding,
           OpenLease, Concluded, TypeOK, ConfigAssumption
  <2>2. CASE ResolveAccepted
    <3>1. Protocol!Accept(l)
      BY <1>1, <2>1, <2>2
         DEF ResolveAccepted, Resolving, Conclude, Protocol!Accept, Protocol!Current, Current
    <3>. QED BY <3>1 DEF Protocol!LeaseStep
  <2>3. CASE ResolveReopened
    <3>1. Protocol!SendBack(l)
      BY <1>1, <2>1, <2>3
         DEF ResolveReopened, WriteBack, Resolving, SentBack, Protocol!SendBack,
             Protocol!Current, Current
    <3>. QED BY <3>1 DEF Protocol!LeaseStep
  <2>4. CASE CloseExhausted \/ ResolveBudget \/ ResolveRejected
    <3>1. /\ verdict[cur] = "gate_rejected" /\ reopens' = reopens
          /\ \/ state' = [state EXCEPT ![l] = "concluded_cut_off"]
             \/ /\ reopens[l] = MaxReopens
                /\ state' = [state EXCEPT ![l] = "concluded_rejected"]
      BY <2>1, <2>4
         DEF CloseExhausted, ResolveBudget, ResolveRejected, WriteBack, Resolving, SentBack, Conclude
    <3>2. Protocol!CloseRejected(l)
      BY <1>1, <2>1, <3>1 DEF Protocol!CloseRejected, Protocol!Current, Current
    <3>. QED BY <3>2 DEF Protocol!LeaseStep
  <2>. QED BY <1>3, <2>2, <2>3, <2>4 DEF Closing
<1>. QED BY <1>2, <1>3

\* Starting an attempt is a Buy, a Reactivate or a stutter.
LEMMA StartRefines ==
    ASSUME Start
    PROVE  (\E l \in Lease : Protocol!LeaseStep(l)) \/ UNCHANGED <<state, reopens, verdict>>
<1>1. ASSUME NEW l \in Lease, Allocate(l) PROVE Protocol!LeaseStep(l)
  BY <1>1 DEF Allocate, Protocol!LeaseStep, Protocol!Buy
<1>2. ASSUME NEW l \in Lease, Reactivate(l) PROVE Protocol!LeaseStep(l)
  BY <1>2 DEF Reactivate, Protocol!LeaseStep, Protocol!Reactivate
<1>. QED BY <1>1, <1>2 DEF Start, ResubmitSkipped, RecordAttempt, dbVars

\* Every step of a run whose verdicts stand is a step of the protocol or a stutter.
LEMMA StepRefines ==
    ASSUME Inv, VerdictsStand, [Next]_vars
    PROVE  [Protocol!Next]_(Protocol!vars)
<1>1. SUFFICES (\E l \in Lease : Protocol!LeaseStep(l)) \/ UNCHANGED <<state, reopens, verdict>>
  BY DEF Protocol!Next, Protocol!vars
<1>2. CASE \E l \in Lease : SeatHandler(l)
  BY <1>2, SeatRefines
<1>3. CASE \E d \in Delivery : ExpHandler(d)
  BY <1>3, ExpRefines, WorkFacts
<1>4. CASE HandlerStage
  <2>1. CASE Closing
    <3>1. pc # "none"
      BY <2>1 DEF Closing, SeatCutOff, CloseExhausted, ResolveAccepted, ResolveBudget,
             ResolveReopened, ResolveRejected, WriteBack, Resolving
    <3>2. PICK l \in Lease : l = cur[1]
      BY <3>1, CurFacts DEF Inv
    <3>. QED BY <2>1, <3>2, ClosingRefines
  <2>2. CASE ~Closing
    BY <1>4, <2>2
       DEF HandlerStage, Closing, LaunchAdjudication, SeatCorrected, CutOffSucceeded,
           ExpSucceeded, ResolveParked, Resolved, Archive, Submit, dbVars
  <2>. QED BY <2>1, <2>2
<1>5. CASE Start
  BY <1>5, StartRefines
<1>6. CASE PhaseStep
  BY <1>6 DEF PhaseStep, EnterRetry, EnterAllocate, EnterPollSeats, EnterPollExps, EnterReopen,
              Enter, EndStep, PollMiss, ResultUnread, dbVars
<1>7. CASE ReconcileAll \/ ReconcileSome \/ ReconcileGhost
  BY <1>7 DEF ReconcileAll, ReconcileSome, ReconcileGhost, Reconcile
<1>8. CASE Environment
  BY <1>8 DEF Environment, WorkerStep, WorkerEnds, WorkerDies, Interrupt, Crash, Restart, dbVars
<1>9. CASE UNCHANGED vars
  BY <1>9 DEF vars, dbVars
<1>. QED BY <1>2, <1>3, <1>4, <1>5, <1>6, <1>7, <1>8, <1>9 DEF Next, Rest, SchedulerStep

\* The scheduler implements the protocol of the lease, whatever its workers
\* report and wherever it is stopped, on the local backend and on the cluster,
\* unless all of VerdictsAreSafe is against it.
THEOREM RefinesTheProtocol ==
    ASSUME VerdictsAreSafe
    PROVE  Spec => RefinesProtocol
<1>1. Inv /\ VerdictsStand /\ [Next]_vars => [Protocol!Next]_(Protocol!vars)
  BY StepRefines
<1>. QED BY InitRefines, NoVerdictTakenBack, Safety, <1>1, PTL
         DEF Spec, RefinesProtocol, Protocol!Spec

\* No step of the protocol touches a closed lease or a verdict.
LEMMA ProtocolFinal ==
    ASSUME TypeOK, [Protocol!Next]_(Protocol!vars)
    PROVE  /\ \A l \in Lease : state[l] \in Concluded => state'[l] = state[l]
           /\ \A d \in Delivery : verdict[d] \in Verdicts => verdict'[d] = verdict[d]
<1>1. CASE UNCHANGED Protocol!vars
  BY <1>1 DEF Protocol!vars
<1>2. ASSUME NEW k \in Lease, Protocol!LeaseStep(k)
      PROVE  /\ \A l \in Lease : state[l] \in Concluded => state'[l] = state[l]
             /\ \A d \in Delivery : verdict[d] \in Verdicts => verdict'[d] = verdict[d]
  <2>. USE DEF Protocol!Current, TypeOK
  <2>1. CASE Protocol!Judge(k)
    BY <2>1 DEF Protocol!Judge, Verdicts
  <2>2. CASE Protocol!Deliver(k)
    BY <2>2 DEF Protocol!Deliver, Concluded, Verdicts
  <2>3. CASE ~Protocol!Judge(k) /\ ~Protocol!Deliver(k)
    <3>1. verdict' = verdict
      BY <1>2, <2>3
         DEF Protocol!LeaseStep, Protocol!Buy, Protocol!Exit, Protocol!Accept, Protocol!SendBack,
             Protocol!CloseRejected, Protocol!Reactivate
    <3>2. state[k] \notin Concluded
      BY <1>2, <2>3
         DEF Protocol!LeaseStep, Protocol!Buy, Protocol!Exit, Protocol!Accept, Protocol!SendBack,
             Protocol!CloseRejected, Protocol!Reactivate, Concluded
    <3>3. \A l \in Lease \ {k} : state'[l] = state[l]
      BY <1>2, <2>3
         DEF Protocol!LeaseStep, Protocol!Buy, Protocol!Exit, Protocol!Accept, Protocol!SendBack,
             Protocol!CloseRejected, Protocol!Reactivate
    <3>. QED BY <3>1, <3>2, <3>3
  <2>. QED BY <2>1, <2>2, <2>3
<1>. QED BY <1>1, <1>2 DEF Protocol!Next

\* A closed lease stays closed and a verdict stands, under the same premise.
THEOREM FinalityHolds ==
    ASSUME VerdictsAreSafe
    PROVE  Spec => Final
<1>1. Inv /\ VerdictsStand /\ [Next]_vars
        => [/\ \A l \in Lease : state[l] \in Concluded => state'[l] = state[l]
            /\ \A d \in Delivery : verdict[d] \in Verdicts => verdict'[d] = verdict[d]]_vars
  BY StepRefines, ProtocolFinal DEF Inv
<1>. QED BY NoVerdictTakenBack, Safety, <1>1, PTL DEF Spec, Final

\* A failed attempt reopens no judged experiment, under the same premise: all three
\* faults together break it.
THEOREM FailuresAreNoVerdict ==
    ASSUME VerdictsAreSafe
    PROVE  Spec => FailureIsNoVerdict
<1>1. Inv /\ VerdictsStand /\ [Next]_vars
        => [\A d \in Delivery : ExpInfraFailed(d) => verdict' = verdict]_vars
  BY FailureKeeps
<1>. QED BY NoVerdictTakenBack, Safety, <1>1, PTL DEF Spec, FailureIsNoVerdict

(***************************************************************************)
(* Nodes.                                                                  *)
(***************************************************************************)

\* The node is created in the transaction of the verdict, and nothing takes
\* the verdict back.
NodesAreCompleted == \A d \in Delivery : d \in nodes <=> verdict[d] = "completed"

\* A fresh run has no child node.
LEMMA NodesInit == Init => NodesAreCompleted
BY DEF Init, NodesAreCompleted

\* The node is created with the verdict, and neither is taken back.
LEMMA NodesStep ==
    ASSUME Inv, VerdictsStand, NodesAreCompleted, [Next]_vars
    PROVE  NodesAreCompleted'
<1>1. CASE UNCHANGED <<nodes, verdict>>
  BY <1>1 DEF NodesAreCompleted
<1>2. CASE \E l \in Lease : SeatDelivers(l)
  BY <1>2 DEF SeatDelivers, NodesAreCompleted, Inv, TypeOK
<1>3. ASSUME NEW d \in Delivery, ExpHandler(d) PROVE NodesAreCompleted'
  <2>1. CASE ExpInfraFailed(d)
    BY <1>1, <2>1, FailureKeeps DEF ExpInfraFailed
  <2>2. CASE IngestRaises(d)
    BY <1>1, <2>2 DEF IngestRaises, dbVars
  <2>3. CASE ExpExhausted(d) \/ ExpJudged(d)
    <3>1. verdict[d] = "open"
      BY <2>3 DEF ExpExhausted, ExpJudged, Ingestible
    <3>. QED BY <2>3, <3>1
             DEF ExpExhausted, ExpJudged, ExpResult, WithNode, NodesAreCompleted, Inv, TypeOK,
                 Verdicts
  <2>. QED BY <1>3, <2>1, <2>2, <2>3 DEF ExpHandler
<1>4. CASE SchedulerStep
  <2>1. CASE HandlerStage
    <3>1. UNCHANGED <<nodes, verdict>>
      BY <2>1 DEF HandlerStage, LaunchAdjudication, SeatCorrected, SeatCutOff, CutOffSucceeded,
             ExpSucceeded, CloseExhausted, ResolveAccepted, ResolveParked, ResolveBudget,
             ResolveReopened, ResolveRejected, Resolved, Archive, Submit, dbVars
    <3>. QED BY <1>1, <3>1
  <2>2. CASE Start \/ PhaseStep
    <3>1. UNCHANGED <<nodes, verdict>>
      BY <2>2 DEF Start, Allocate, Reactivate, ResubmitSkipped, RecordAttempt, PhaseStep,
             EnterRetry, EnterAllocate, EnterPollSeats, EnterPollExps, EnterReopen, Enter,
             EndStep, PollMiss, ResultUnread, dbVars
    <3>. QED BY <1>1, <3>1
  <2>3. CASE \E l \in Lease : SeatHandler(l)
    BY <1>1, <1>2, <2>3
       DEF SeatHandler, SeatInfraFailed, SeatAlreadyConcluded, SeatExits, SeatRejected, dbVars
  <2>. QED BY <1>3, <1>4, <2>1, <2>2, <2>3 DEF SchedulerStep
<1>5. CASE ReconcileAll \/ ReconcileSome \/ ReconcileGhost
  BY <1>1, <1>5 DEF ReconcileAll, ReconcileSome, ReconcileGhost, Reconcile
<1>6. CASE Environment
  BY <1>1, <1>6 DEF Environment, WorkerStep, WorkerEnds, WorkerDies, Interrupt, Crash, Restart, dbVars
<1>7. CASE UNCHANGED vars
  BY <1>1, <1>7 DEF vars, dbVars
<1>. QED BY <1>4, <1>5, <1>6, <1>7 DEF Next, Rest

\* A completed delivery is the last of a lease that waits for it or delivered it.
LEMMA NodesDelivered ==
    ASSUME Inv, NodesAreCompleted
    PROVE  NodeMeansDelivered
<1>. SUFFICES ASSUME NEW l \in Lease, NEW i \in 1..MaxReopens + 1
              PROVE  /\ <<l, i>> \in nodes =>
                           i = reopens[l] + 1
                           /\ state[l] \in {"awaiting_adjudication", "concluded_delivered"}
                     /\ verdict[<<l, i>>] = "completed" => <<l, i>> \in nodes
  BY DEF NodeMeansDelivered
<1>1. <<l, i>> \in Delivery
  BY DEF Delivery
<1>2. ASSUME verdict[<<l, i>>] = "completed"
      PROVE  i = reopens[l] + 1 /\ state[l] \in {"awaiting_adjudication", "concluded_delivered"}
  <2>1. /\ RejectedUpTo(l, reopens[l]) /\ MatchesVerdicts(l)
        /\ reopens[l] \in 0..MaxReopens /\ state[l] \in States
    BY DEF Inv, LeaseMatchesVerdicts, MatchesVerdicts, TypeOK
  <2>2. ~(i <= reopens[l]) /\ ~(i > reopens[l] + 1)
    BY <1>2, <2>1 DEF RejectedUpTo
  <2>3. i = reopens[l] + 1
    BY <2>1, <2>2, ConfigAssumption DEF ConfigAssumption
  <2>. QED BY <1>2, <2>1, <2>3 DEF MatchesVerdicts, Current, States, Concluded
<1>. QED BY <1>1, <1>2 DEF NodesAreCompleted

\* A child node exists for a delivery exactly when its experiment completed, and
\* then its lease can only close as delivered: a run whose verdicts stand has no
\* world without a lease that accounts for it.
THEOREM NodesMeanDelivered ==
    ASSUME VerdictsAreSafe
    PROVE  Spec => []NodeMeansDelivered
<1>1. Inv /\ VerdictsStand /\ NodesAreCompleted /\ [Next]_vars => NodesAreCompleted'
  BY NodesStep
<1>2. Inv /\ NodesAreCompleted => NodeMeansDelivered
  BY NodesDelivered
<1>. QED BY NodesInit, NoVerdictTakenBack, Safety, <1>1, <1>2, PTL DEF Spec
================================================================================
