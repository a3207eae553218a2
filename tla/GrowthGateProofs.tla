--------------------------- MODULE GrowthGateProofs ---------------------------
(***************************************************************************)
(* What holds of GrowthGate for every set of worlds and lenses, every      *)
(* configuration and every combination of faults.                          *)
(***************************************************************************)
EXTENDS GrowthGate, TLAPS

(***************************************************************************)
(* Helpers.                                                                *)
(***************************************************************************)

\* What a judgment is made of.
LEMMA JudgmentFacts ==
    /\ NoFile \in [judgment : Judgments, minted : Nat]
    /\ \A j \in Judgments :
         /\ j.buys \in SUBSET Seat
         /\ j.kind \in {"promote", "retain"} => j.on \in Work
         /\ j.kind \in {"failed"} \cup Kinds
BY DEF Judgments, NoFile, Failed, Growth, OnRequest

\* Ending attempts keeps their table well typed, and starts none.
LEMMA EndedFacts ==
    ASSUME attempts \in [Work -> Seq(AttemptStatus)],
           NEW W, NEW status \in AttemptStatus
    PROVE  /\ Ended(W, status) \in [Work -> Seq(AttemptStatus)]
           /\ \A w \in Work : /\ DOMAIN Ended(W, status)[w] = DOMAIN attempts[w]
                              /\ Len(Ended(W, status)[w]) = Len(attempts[w])
           /\ \A w \in Work : \A n \in DOMAIN attempts[w] :
                status # "running" /\ Ended(W, status)[w][n] = "running" =>
                    attempts[w][n] = "running" /\ w \notin W
<1>. DEFINE stop(w) == [n \in DOMAIN attempts[w] |->
                          IF attempts[w][n] = "running" THEN status ELSE attempts[w][n]]
<1>1. \A w \in Work : /\ stop(w) \in Seq(AttemptStatus)
                      /\ Len(stop(w)) = Len(attempts[w])
  <2>. SUFFICES ASSUME NEW w \in Work
                PROVE  stop(w) \in Seq(AttemptStatus) /\ Len(stop(w)) = Len(attempts[w])
    OBVIOUS
  <2>1. attempts[w] \in Seq(AttemptStatus)
    OBVIOUS
  <2>2. DOMAIN attempts[w] = 1..Len(attempts[w]) /\ Len(attempts[w]) \in Nat
    BY <2>1
  <2>3. \A n \in 1..Len(attempts[w]) : stop(w)[n] \in AttemptStatus
    BY <2>1, <2>2
  <2>4. stop(w) = [n \in 1..Len(attempts[w]) |-> stop(w)[n]]
    BY <2>2
  <2>. QED BY <2>2, <2>3, <2>4
<1>2. \A w \in Work : Ended(W, status)[w] = IF w \in W THEN stop(w) ELSE attempts[w]
  BY DEF Ended
<1>. HIDE DEF stop
<1>3. Ended(W, status) = [w \in Work |-> IF w \in W THEN stop(w) ELSE attempts[w]]
  BY DEF Ended, stop
<1>4. Ended(W, status) \in [Work -> Seq(AttemptStatus)]
  BY <1>1, <1>3
<1>5. \A w \in Work : DOMAIN stop(w) = DOMAIN attempts[w]
  BY DEF stop
<1>6. \A w \in Work : \A n \in DOMAIN attempts[w] :
        status # "running" => stop(w)[n] # "running"
  BY DEF stop
<1>. QED BY <1>1, <1>2, <1>4, <1>5, <1>6

\* Recording an attempt adds a running one at the end of its work.
LEMMA StartedFacts ==
    ASSUME attempts \in [Work -> Seq(AttemptStatus)], NEW w \in Work
    PROVE  /\ Started(w) \in [Work -> Seq(AttemptStatus)]
           /\ \A v \in Work \ {w} : Started(w)[v] = attempts[v]
           /\ Len(Started(w)[w]) = Len(attempts[w]) + 1
           /\ DOMAIN Started(w)[w] = 1..(Len(attempts[w]) + 1)
           /\ \A n \in 1..Len(attempts[w]) : Started(w)[w][n] = attempts[w][n]
<1>1. attempts[w] \in Seq(AttemptStatus) /\ "running" \in AttemptStatus
  BY DEF AttemptStatus
<1>2. Started(w)[w] = Append(attempts[w], "running")
  BY DEF Started
<1>3. Append(attempts[w], "running") \in Seq(AttemptStatus)
  BY <1>1
<1>. QED BY <1>1, <1>2, <1>3 DEF Started

\* A node is born under another with everything above it, once.
LEMMA GrownFacts ==
    ASSUME lineage \in [Node -> SUBSET Node], NEW p \in Node, NEW L \in Grown(p)
    PROVE  /\ L \in [Node -> SUBSET Node]
           /\ \A n \in Nodes : L[n] = lineage[n]
BY DEF Grown, Nodes

\* A fault takes a natural number of the budget.
LEMMA FaultFacts ==
    ASSUME faults \in Nat, NEW kind, Fault(kind)
    PROVE  faults' \in Nat
<1>1. kind \in FaultKinds
  BY GateAssumption DEF Fault, GateAssumption
<1>2. Cost[kind] \in Nat
  BY <1>1, CostAssumption DEF CostAssumption
<1>. QED BY <1>2 DEF Fault

(***************************************************************************)
(* Types.                                                                  *)
(***************************************************************************)

\* Only the types of what an event changes are disturbed by evidence.
LEMMA EvidenceTypes == TypeOK /\ Evidence => TypeOK'
<1>. SUFFICES ASSUME TypeOK, Evidence PROVE TypeOK'
  OBVIOUS
<1>. USE GateAssumption DEF GateAssumption, TypeOK, Unattended, envVars, schedVars, Open, Pending,
         Silent, RequestStatus
<1>1. Wake => head' \in 0..MaxEvents
  BY DEF Wake
<1>2. CASE \E s \in Seat : SeatDelivers(s)
  BY <1>2 DEF SeatDelivers
<1>3. CASE \E s \in Seat : SeatJudged(s)
  <2>. PICK s \in Seat : SeatJudged(s)
    BY <1>3
  <2>1. lineage' \in [Node -> SUBSET Node]
    BY GrownFacts DEF SeatJudged, Seat
  <2>2. seat' \in [Seat -> {"none", "closed"} \cup Open]
    BY ZenonT(30) DEF SeatJudged, WrittenBack
  <2>. QED BY <1>1, <2>1, <2>2, SMTT(30) DEF SeatJudged
<1>4. CASE \E s \in Seat : SeatCloses(s)
  BY <1>1, <1>4 DEF SeatCloses
<1>5. CASE \E w \in Work : IntegratorAnswers(w)
  BY <1>5 DEF IntegratorAnswers
<1>6. CASE \E w \in Work : IntegrationJudged(w)
  <2>. PICK w \in Work : IntegrationJudged(w)
    BY <1>6
  <2>1. lineage' \in [Node -> SUBSET Node]
    BY GrownFacts DEF IntegrationJudged, Nodes
  <2>2. request' \in [Work -> RequestStatus]
    BY DEF IntegrationJudged
  <2>3. head' \in 0..MaxEvents /\ evals' \in Nat
    BY <1>1 DEF IntegrationJudged
  <2>. QED BY <2>1, <2>2, <2>3 DEF IntegrationJudged
<1>7. CASE \E w \in Work : IntegrationOverflows(w)
  BY <1>7 DEF IntegrationOverflows
<1>. QED BY <1>2, <1>3, <1>4, <1>5, <1>6, <1>7 DEF Evidence

\* Workers write files that carry a judgment and the attempt it was minted for.
LEMMA WorkerTypes == TypeOK /\ Worker => TypeOK'
<1>. SUFFICES ASSUME TypeOK, Worker PROVE TypeOK'
  OBVIOUS
<1>. USE DEF TypeOK, runVars, gateVars, schedVars
<1>1. CASE \E w \in Work : WorkerAnswers(w)
  <2>. PICK w \in Work : WorkerAnswers(w)
    BY <1>1
  <2>. PICK job \in workers : job[1] = w /\ workers' = workers \ {job}
                             /\ \E j \in Judgments : file' = [file EXCEPT ![w] = [judgment |-> j, minted |-> job[3]]]
    BY DEF WorkerAnswers
  <2>1. job[3] \in Nat
    OBVIOUS
  <2>2. file' \in [Work -> [judgment : Judgments, minted : Nat]]
    BY <2>1
  <2>. QED BY <2>2 DEF WorkerAnswers
<1>2. CASE \E job \in workers : WorkerDies(job)
  <2>1. workers' \subseteq workers /\ faults' \in Nat
    BY <1>2, FaultFacts DEF WorkerDies
  <2>. QED BY <1>2, <2>1 DEF WorkerDies
<1>. QED BY <1>1, <1>2 DEF Worker

\* The gate's handler, step by step.
LEMMA PassTypes == TypeOK /\ PassStep => TypeOK'
<1>. SUFFICES ASSUME TypeOK, PassStep PROVE TypeOK'
  OBVIOUS
<1>. USE GateAssumption DEF GateAssumption, TypeOK, runVars, gateVars, envVars, Enter, Goto, Retried
<1>0. 0 \in 0..MaxEvents /\ \A w \in Work : w \in 0..MaxEvents
  BY DEF Work
<1>1. CASE RootReady
  BY <1>1 DEF RootReady, Wake, Unattended, schedVars
<1>2. CASE SyncLimits
  BY <1>2, SMTT(30) DEF SyncLimits, CapOf, InstalledLimit
<1>3. CASE \E w \in Work : RetrySkipped(w)
  BY <1>3 DEF RetrySkipped
<1>4. CASE \E w \in Work : RetryStalls(w)
  BY <1>0, <1>4 DEF RetryStalls
<1>5. CASE \E w \in Work : RetryRecords(w)
  BY <1>0, <1>5, StartedFacts DEF RetryRecords
<1>6. CASE Resubmit
  <2>1. cur \in Work /\ manifest[cur] \in Nat /\ Len(attempts[cur]) \in Nat
    BY <1>6 DEF Resubmit
  <2>2. workers' \subseteq Work \X Nat \X Nat /\ ledger' \in [Work -> Nat]
    BY <1>6, <2>1 DEF Resubmit, Spawn
  <2>. QED BY <1>0, <1>6, <2>2 DEF Resubmit
<1>7. CASE GateWaits \/ GateRests
  BY <1>0, <1>7 DEF GateWaits, GateRests, Passed
<1>8. CASE GateStalls
  BY <1>0, <1>8 DEF GateStalls, Passed
<1>9. CASE GateRecords
  <2>1. head \in Work
    BY <1>9 DEF GateRecords, Unread, Work
  <2>. QED BY <1>9, <2>1, StartedFacts DEF GateRecords
<1>10. CASE Submit
  <2>1. cur \in Work /\ Len(attempts[cur]) \in Nat
    BY <1>10 DEF Submit
  <2>2. /\ manifest' \in [Work -> Nat] /\ ledger' \in [Work -> Nat]
        /\ workers' \subseteq Work \X Nat \X Nat
    BY <1>10, <2>1 DEF Submit, Spawn
  <2>. QED BY <1>0, <1>10, <2>2 DEF Submit, Passed
<1>11. CASE \E w \in Work : GateDiscards(w) \/ GateRejects(w) \/ GateFindsStale(w)
  <2>1. "succeeded" \in AttemptStatus /\ "failed" \in AttemptStatus
    BY DEF AttemptStatus
  <2>2. attempts' \in [Work -> Seq(AttemptStatus)]
    BY <1>11, <2>1, EndedFacts, SMTT(30) DEF GateDiscards, GateRejects, GateFindsStale
  <2>. QED BY <1>0, <1>11, <2>2 DEF GateDiscards, GateRejects, GateFindsStale
<1>12. CASE \E w \in Work : GateReplays(w)
  BY <1>0, <1>12 DEF GateReplays
<1>13. CASE \E w \in Work : GateCommits(w)
  <2>. PICK w \in Work : GateCommits(w)
    BY <1>13
  <2>. DEFINE j == Judgment(w)
  <2>1. j \in Judgments /\ file[w].minted \in Nat
    BY DEF Judgment
  <2>2. /\ j.buys \in SUBSET Seat
        /\ j.kind \in {"promote", "retain"} => j.on \in Work
    BY <2>1, JudgmentFacts
  <2>3. decisions' \in Seq([work : Work, minted : Nat, own : BOOLEAN, buys : SUBSET Seat])
    BY <2>1, <2>2 DEF GateCommits
  <2>4. seat' \in [Seat -> {"none", "closed"} \cup Open]
    BY DEF GateCommits, Apply, Open
  <2>5. request' \in [Work -> RequestStatus]
    <3>. DEFINE S == RequestStatus
    <3>1. "open" \in S /\ "promoted" \in S /\ "closed" \in S
      BY DEF Pending, RequestStatus
    <3>2. request \in [Work -> S]
      OBVIOUS
    <3>. HIDE DEF S
    <3>3. request' \in [Work -> S]
      BY <3>1, <3>2, <2>2 DEF GateCommits, Apply
    <3>. QED BY <3>3 DEF S
  <2>6. base' \in [Work -> Nat] /\ epoch' \in Nat
    <3>1. base' \in {base, [base EXCEPT ![w] = epoch]} 
      BY DEF GateCommits, Apply
    <3>2. base' \in [Work -> Nat]
      BY <3>1
    <3>3. epoch' = epoch \/ epoch' = epoch + 1
      BY DEF GateCommits, Apply
    <3>. QED BY <3>2, <3>3
  <2>. QED BY <1>0, <2>3, <2>4, <2>5, <2>6 DEF GateCommits, Consume
<1>14. CASE MarkSucceeded
  BY <1>14, EndedFacts DEF MarkSucceeded, AttemptStatus
<1>15. CASE Archive
  <2>1. file' \in [Work -> [judgment : Judgments, minted : Nat]]
    BY <1>15, JudgmentFacts DEF Archive
  <2>. QED BY <1>0, <1>15, <2>1 DEF Archive, Passed
<1>16. CASE EndStep
  BY <1>0, <1>16 DEF EndStep, Stop
<1>. QED BY <1>1, <1>2, <1>3, <1>4, <1>5, <1>6, <1>7, <1>8, <1>9, <1>10,
            <1>11, <1>12, <1>13, <1>14, <1>15, <1>16 DEF PassStep

\* Everything stays well typed, whatever is evidence, faults or restarts.
LEMMA TypesStep == TypeOK /\ [Next]_vars => TypeOK'
<1>. SUFFICES ASSUME TypeOK, [Next]_vars PROVE TypeOK'
  OBVIOUS
<1>. USE DEF runVars, gateVars, envVars, schedVars
<1>1. CASE ReconcileSome \/ ReconcileGhost
  <2>1. /\ \E gone : Reconcile(gone)
        /\ faults' \in Nat
    <3>1. CASE ReconcileSome
      BY <3>1 DEF ReconcileSome, TypeOK
    <3>2. CASE ReconcileGhost
      <4>1. PICK w \in Waiting : Reconcile({w}) /\ Fault("ghost")
        BY <3>2 DEF ReconcileGhost
      <4>. QED BY <4>1, FaultFacts DEF TypeOK
    <3>. QED BY <1>1, <3>1, <3>2
  <2>2. PICK gone : Reconcile(gone)
    BY <2>1
  <2>3. attempts' \in [Work -> Seq(AttemptStatus)]
    BY <2>2, EndedFacts DEF Reconcile, TypeOK, AttemptStatus
  <2>4. ledger' \in [Work -> Nat] /\ retry' \subseteq Work
    BY <2>2 DEF Reconcile, TypeOK, Waiting, RunningWork
  <2>. QED BY <2>1, <2>2, <2>3, <2>4 DEF Reconcile, TypeOK
<1>2. CASE Interrupt \/ Crash
  <2>1. 0 \in 0..MaxEvents
    BY GateAssumption DEF GateAssumption
  <2>2. faults' \in Nat
    BY <1>2, FaultFacts DEF Interrupt, Crash, TypeOK
  <2>3. \E why \in {"down"} : Stop(why)
    BY <1>2 DEF Interrupt, Crash
  <2>. QED BY <1>2, <2>1, <2>2, <2>3 DEF Interrupt, Crash, Stop, TypeOK
<1>3. CASE Restart
  <2>1. attempts' \in [Work -> Seq(AttemptStatus)]
    BY <1>3, EndedFacts DEF Restart, TypeOK, AttemptStatus
  <2>2. workers' \subseteq workers /\ faults' \in Nat
    BY <1>3, FaultFacts DEF Restart, TypeOK
  <2>. QED BY <1>3, <2>1, <2>2 DEF Restart, TypeOK
<1>4. CASE Rest \/ UNCHANGED vars
  BY <1>4 DEF Rest, vars, TypeOK
<1>. QED BY <1>1, <1>2, <1>3, <1>4, EvidenceTypes, WorkerTypes, PassTypes DEF Next

\* The initial state is of its types.
LEMMA TypesInit == Init => TypeOK
<1>. SUFFICES ASSUME Init PROVE TypeOK
  OBVIOUS
<1>1. 0 \in 0..MaxEvents /\ 0 \in Nat
  BY GateAssumption DEF GateAssumption
<1>2. /\ attempts \in [Work -> Seq(AttemptStatus)]
      /\ decisions \in Seq([work : Work, minted : Nat, own : BOOLEAN, buys : SUBSET Seat])
  BY DEF Init
<1>3. /\ file \in [Work -> [judgment : Judgments, minted : Nat]]
      /\ lineage \in [Node -> SUBSET Node]
  BY JudgmentFacts, GateAssumption DEF Init, GateAssumption
<1>4. request \in [Work -> RequestStatus]
  BY DEF Init, RequestStatus
<1>. QED BY <1>1, <1>2, <1>3, <1>4 DEF Init, TypeOK

\* All tables, files and volatile state stay well typed, and a judgment never
\* consumes an event that does not exist.
THEOREM TypeCorrect == Spec => []TypeOK
BY TypesInit, TypesStep, PTL DEF Spec


(***************************************************************************)
(* One supervisor at a time.                                               *)
(***************************************************************************)

\* Three things happen to the attempts of the gate: nothing, some end, or one
\* starts while none is running.
LEMMA AttemptSteps ==
    ASSUME TypeOK, [Next]_vars
    PROVE  \/ attempts' = attempts
           \/ \E W : \E status \in AttemptStatus \ {"running"} : attempts' = Ended(W, status)
           \/ \E w \in Work : RunningWork = {} /\ attempts' = Started(w)
<1>. USE DEF runVars, gateVars, envVars, schedVars
<1>0. /\ "succeeded" \in AttemptStatus \ {"running"} /\ "failed" \in AttemptStatus \ {"running"}
      /\ "lost" \in AttemptStatus \ {"running"}
  BY DEF AttemptStatus
<1>1. CASE Evidence \/ Worker
  BY <1>1 DEF Evidence, Worker, SeatDelivers, SeatJudged, SeatCloses, IntegratorAnswers,
              IntegrationOverflows, IntegrationJudged, Unattended, WorkerAnswers, WorkerDies
<1>2. CASE PassStep
  <2>1. CASE \E w \in Work : RetryRecords(w)
    BY <2>1 DEF RetryRecords, Resubmittable
  <2>2. CASE GateRecords
    <3>1. head \in Work
      BY <2>2 DEF GateRecords, Unread, Work, TypeOK
    <3>. QED BY <2>2, <3>1 DEF GateRecords
  <2>3. CASE MarkSucceeded
    BY <1>0, <2>3 DEF MarkSucceeded
  <2>4. CASE \E w \in Work : GateDiscards(w) \/ GateRejects(w) \/ GateFindsStale(w)
    BY <1>0, <2>4 DEF GateDiscards, GateRejects, GateFindsStale
  <2>5. CASE \E w \in Work : GateReplays(w) \/ GateCommits(w) \/ RetrySkipped(w) \/ RetryStalls(w)
    BY <2>5 DEF GateReplays, GateCommits, RetrySkipped, RetryStalls
  <2>6. CASE \/ RootReady \/ SyncLimits \/ Resubmit \/ GateWaits \/ GateRests \/ GateStalls
             \/ Submit \/ Archive \/ EndStep
    BY <2>6 DEF RootReady, Unattended, SyncLimits, Resubmit, GateWaits, GateRests,
                GateStalls, Submit, Archive, EndStep
  <2>. QED BY <1>2, <2>1, <2>2, <2>3, <2>4, <2>5, <2>6 DEF PassStep
<1>3. CASE ReconcileSome \/ ReconcileGhost
  BY <1>0, <1>3 DEF ReconcileSome, ReconcileGhost, Reconcile
<1>4. CASE Restart
  BY <1>0, <1>4 DEF Restart
<1>5. CASE Interrupt \/ Crash \/ Rest \/ UNCHANGED vars
  BY <1>5 DEF Interrupt, Crash, Rest, vars
<1>. QED BY <1>1, <1>2, <1>3, <1>4, <1>5 DEF Next

\* Over all batches at most one attempt of the gate is running, and it is the
\* last of its batch: no path that starts one does so beside another.
THEOREM OneGate == Spec => []SingleGate
<1>1. Init => SingleGate
  BY DEF Init, SingleGate
<1>2. TypeOK /\ SingleGate /\ [Next]_vars => SingleGate'
  <2>. SUFFICES ASSUME TypeOK, SingleGate, [Next]_vars PROVE SingleGate'
    OBVIOUS
  <2>1. attempts \in [Work -> Seq(AttemptStatus)]
    BY DEF TypeOK
  <2>2. CASE attempts' = attempts
    BY <2>2 DEF SingleGate
  <2>3. CASE \E W : \E status \in AttemptStatus \ {"running"} : attempts' = Ended(W, status)
    <3>. PICK W : \E status \in AttemptStatus \ {"running"} : attempts' = Ended(W, status)
      BY <2>3
    <3>. PICK status \in AttemptStatus \ {"running"} : attempts' = Ended(W, status)
      OBVIOUS
    <3>1. /\ \A w \in Work : /\ DOMAIN attempts'[w] = DOMAIN attempts[w]
                             /\ Len(attempts'[w]) = Len(attempts[w])
          /\ \A w \in Work : \A n \in DOMAIN attempts[w] :
               attempts'[w][n] = "running" => attempts[w][n] = "running"
      BY <2>1, EndedFacts
    <3>. QED BY <3>1 DEF SingleGate
  <2>4. CASE \E w \in Work : RunningWork = {} /\ attempts' = Started(w)
    <3>. PICK w \in Work : RunningWork = {} /\ attempts' = Started(w)
      BY <2>4
    <3>1. \A v \in Work : \A n \in DOMAIN attempts[v] : attempts[v][n] # "running"
      BY DEF RunningWork, Running
    <3>2. DOMAIN attempts[w] = 1..Len(attempts[w]) /\ Len(attempts[w]) \in Nat
      BY <2>1
    <3>3. \A v \in Work \ {w} : \A n \in DOMAIN attempts'[v] : attempts'[v][n] # "running"
      BY <2>1, <3>1, StartedFacts
    <3>4. \A n \in DOMAIN attempts'[w] : attempts'[w][n] = "running" => n = Len(attempts'[w])
      <4>1. /\ Len(attempts'[w]) = Len(attempts[w]) + 1
            /\ DOMAIN attempts'[w] = 1..(Len(attempts[w]) + 1)
            /\ \A n \in 1..Len(attempts[w]) : attempts'[w][n] = attempts[w][n]
        BY <2>1, StartedFacts
      <4>2. \A n \in 1..Len(attempts[w]) : attempts[w][n] # "running"
        BY <3>1, <3>2
      <4>. QED BY <3>2, <4>1, <4>2
    <3>. QED BY <3>3, <3>4 DEF SingleGate
  <2>. QED BY <2>2, <2>3, <2>4, AttemptSteps
<1>. QED BY <1>1, <1>2, TypeCorrect, PTL DEF Spec

(***************************************************************************)
(* What is bought.                                                         *)
(***************************************************************************)

\* A log of decisions and what appending to it does.
LEMMA AppendedDecision ==
    ASSUME TypeOK, NEW d, decisions' = Append(decisions, d)
    PROVE  /\ DOMAIN decisions = 1..Len(decisions) /\ Len(decisions) \in Nat
           /\ DOMAIN decisions' = 1..(Len(decisions) + 1)
           /\ decisions'[Len(decisions) + 1] = d
           /\ \A i \in DOMAIN decisions : decisions'[i] = decisions[i]
<1>. DEFINE R == [work : Work, minted : Nat, own : BOOLEAN, buys : SUBSET Seat]
<1>1. decisions \in Seq(R)
  BY DEF TypeOK
<1>. HIDE DEF R
<1>. QED BY <1>1

\* Decisions are only appended by a commit; no step sells a seat or moves a
\* world in the tree.
LEMMA TreeSteps ==
    ASSUME TypeOK, [Next]_vars
    PROVE  /\ \A s \in Seat : seat[s] # "none" => seat'[s] # "none"
           /\ \A n \in Node : lineage[n] # {} => lineage'[n] = lineage[n]
           /\ decisions' = decisions \/ \E w \in Work : GateCommits(w)
<1>. USE DEF runVars, gateVars, envVars, schedVars
<1>1. CASE \E s \in Seat : SeatDelivers(s) \/ SeatJudged(s) \/ SeatCloses(s)
  <2>. PICK s \in Seat : SeatDelivers(s) \/ SeatJudged(s) \/ SeatCloses(s)
    BY <1>1
  <2>1. \E to \in {"awaiting", "parked", "researching", "rejected", "accepted", "closed"} :
          seat' = [seat EXCEPT ![s] = to]
    BY DEF SeatDelivers, SeatJudged, SeatCloses, WrittenBack
  <2>2. lineage' = lineage \/ lineage' \in Grown(s[1])
    BY DEF SeatDelivers, SeatJudged, SeatCloses
  <2>3. \A n \in Node : lineage[n] # {} => lineage'[n] = lineage[n]
    BY <2>2, GrownFacts DEF TypeOK, Seat, Nodes
  <2>. QED BY <2>1, <2>3 DEF SeatDelivers, SeatJudged, SeatCloses, Unattended, TypeOK
<1>2. CASE \E w \in Work : \/ IntegratorAnswers(w) \/ IntegrationOverflows(w)
                           \/ IntegrationJudged(w)
  <2>1. lineage' = lineage \/ \E p \in Nodes : lineage' \in Grown(p)
    BY <1>2 DEF IntegratorAnswers, IntegrationOverflows, IntegrationJudged
  <2>2. \A n \in Node : lineage[n] # {} => lineage'[n] = lineage[n]
    BY <2>1, GrownFacts DEF TypeOK, Nodes
  <2>. QED BY <1>2, <2>2 DEF IntegratorAnswers, IntegrationOverflows, IntegrationJudged, Unattended
<1>3. CASE Worker
  BY <1>3 DEF Worker, WorkerAnswers, WorkerDies
<1>4. CASE PassStep
  <2>1. CASE \E w \in Work : GateCommits(w)
    <3>. PICK w \in Work : GateCommits(w)
      BY <2>1
    <3>1. seat' = [s \in Seat |-> IF s \in Judgment(w).buys THEN "researching" ELSE seat[s]]
          /\ lineage' = lineage
      BY DEF GateCommits, Apply
    <3>. QED BY <3>1 DEF TypeOK
  <2>2. CASE \E w \in Work : \/ GateDiscards(w) \/ GateRejects(w) \/ GateFindsStale(w)
                             \/ GateReplays(w) \/ RetrySkipped(w) \/ RetryStalls(w)
                             \/ RetryRecords(w)
    BY <2>2 DEF GateDiscards, GateRejects, GateFindsStale, GateReplays, RetrySkipped,
                RetryStalls, RetryRecords
  <2>3. CASE \/ RootReady \/ SyncLimits \/ Resubmit \/ GateWaits \/ GateRests \/ GateStalls
             \/ GateRecords \/ Submit \/ MarkSucceeded \/ Archive \/ EndStep
    BY <2>3 DEF RootReady, Unattended, SyncLimits, Resubmit, GateWaits, GateRests,
                GateStalls, GateRecords, Submit, MarkSucceeded, Archive, EndStep
  <2>. QED BY <1>4, <2>1, <2>2, <2>3 DEF PassStep
<1>5. CASE ReconcileSome \/ ReconcileGhost
  BY <1>5 DEF ReconcileSome, ReconcileGhost, Reconcile
<1>6. CASE Interrupt \/ Crash \/ Restart \/ Rest \/ UNCHANGED vars
  BY <1>6 DEF Interrupt, Crash, Restart, Rest, vars
<1>. QED BY <1>1, <1>2, <1>3, <1>4, <1>5, <1>6 DEF Next, Evidence

\* What a decision bought stays bought, on a world of the tree.
BoughtStays == \A i \in DOMAIN decisions : \A s \in decisions[i].buys :
                  s \in Seat /\ seat[s] # "none" /\ lineage[s[1]] # {}

\* A lens is never bought twice along a lineage, neither by two judgments nor
\* by two purchases of one.
THEOREM LineageDedup == Spec => []AskedOnce
<1>1. Init => BoughtStays /\ AskedOnce
  BY DEF Init, BoughtStays, AskedOnce
<1>2. TypeOK /\ BoughtStays /\ AskedOnce /\ [Next]_vars => BoughtStays' /\ AskedOnce'
  <2>. SUFFICES ASSUME TypeOK, BoughtStays, AskedOnce, [Next]_vars
                PROVE  BoughtStays' /\ AskedOnce'
    OBVIOUS
  <2>1. \A i \in DOMAIN decisions : \A s \in decisions[i].buys :
          /\ s \in Seat /\ s[1] \in Node
          /\ seat'[s] # "none" /\ lineage'[s[1]] # {} /\ lineage'[s[1]] = lineage[s[1]]
    BY TreeSteps DEF BoughtStays, Seat
  <2>2. CASE decisions' = decisions
    BY <2>1, <2>2 DEF BoughtStays, AskedOnce
  <2>3. CASE \E w \in Work : GateCommits(w)
    <3>. PICK w \in Work : GateCommits(w)
      BY <2>3
    <3>. DEFINE j   == Judgment(w)
                new == [work |-> w, minted |-> file[w].minted,
                       own |-> file[w].minted = manifest[w], buys |-> j.buys]
                k   == Len(decisions) + 1
    <3>1. /\ decisions' = Append(decisions, new) /\ lineage' = lineage
          /\ j \in Judgments /\ Valid(j)
          /\ seat' = [s \in Seat |-> IF s \in j.buys THEN "researching" ELSE seat[s]]
      BY DEF GateCommits, Apply, Judgment, TypeOK
    <3>2. j.buys \in SUBSET Seat
      BY <3>1, JudgmentFacts
    <3>3. /\ DOMAIN decisions = 1..Len(decisions) /\ Len(decisions) \in Nat
          /\ DOMAIN decisions' = 1..k
          /\ decisions'[k] = new
          /\ \A i \in DOMAIN decisions : decisions'[i] = decisions[i]
      BY <3>1, <3>2, AppendedDecision
    <3>4. /\ \A s \in j.buys : s[1] \in Nodes /\ s[2] \notin Burned(s[1])
          /\ \A s, t \in j.buys : s # t /\ s[2] = t[2] => s[1] \notin lineage[t[1]]
      <4>1. j.buys # {} => LegalSeats(j.buys)
        BY <3>1 DEF Valid, Judgments, Failed, Growth, OnRequest
      <4>. QED BY <4>1 DEF LegalSeats, OneLineEach, Related
    <3>5. BoughtStays'
      BY <2>1, <3>1, <3>2, <3>3, <3>4 DEF BoughtStays, Nodes
    <3>6. \A i \in DOMAIN decisions : \A s \in decisions[i].buys, t \in j.buys :
            s[2] = t[2] => s[1] \notin lineage[t[1]]
      <4>. SUFFICES ASSUME NEW i \in DOMAIN decisions, NEW s \in decisions[i].buys,
                           NEW t \in j.buys, s[2] = t[2], s[1] \in lineage[t[1]]
                    PROVE  FALSE
        OBVIOUS
      <4>1. s \in Seat /\ seat[s] # "none" /\ s = <<s[1], s[2]>> /\ s[2] \in Lens
        BY DEF BoughtStays, Seat
      <4>2. t[2] \in Burned(t[1])
        BY <4>1 DEF Burned
      <4>. QED BY <3>4, <4>2
    <3>7. AskedOnce'
      <4>. SUFFICES ASSUME NEW i \in 1..k, NEW n \in 1..k,
                           NEW s \in decisions'[i].buys, NEW t \in decisions'[n].buys,
                           i <= n, s[2] = t[2], i = n => s # t
                    PROVE  s[1] \notin lineage[t[1]]
        BY <3>1, <3>3 DEF AskedOnce
      <4>1. CASE n \in DOMAIN decisions
        <5>1. i \in DOMAIN decisions
          BY <3>3, <4>1
        <5>. QED BY <3>3, <4>1, <5>1 DEF AskedOnce
      <4>2. CASE n = k /\ i \in DOMAIN decisions
        BY <3>3, <3>6, <4>2
      <4>3. CASE n = k /\ i = k
        BY <3>3, <3>4, <4>3
      <4>. QED BY <3>3, <4>1, <4>2, <4>3
    <3>. QED BY <3>5, <3>7
  <2>. QED BY <2>2, <2>3, TreeSteps
<1>. QED BY <1>1, <1>2, TypeCorrect, PTL DEF Spec

(***************************************************************************)
(* Each batch is decided once.                                             *)
(***************************************************************************)

\* A decided batch has no attempt left but the one being marked - or, after a
\* crash of a local scheduler, one that the restart will declare lost.
Decided(w)  == \E i \in DOMAIN decisions : decisions[i].work = w
AttemptOver ==
    /\ cursor <= head
    /\ pc # "none" => phase = "retry"
    /\ \A i \in DOMAIN decisions : decisions[i].work <= cursor
    /\ \A w \in Work : Decided(w) =>
         /\ w \notin retry
         /\ Running(w) => \/ pc = "mark" /\ cur = w
                          \/ phase = "down" /\ Backend = "local"

BatchInv == AttemptOver /\ NeverTwice

\* Decisions are about batches.
LEMMA DecisionWorks ==
    ASSUME TypeOK
    PROVE  \A i \in DOMAIN decisions : decisions[i].work \in Work
<1>. DEFINE R == [work : Work, minted : Nat, own : BOOLEAN, buys : SUBSET Seat]
<1>1. decisions \in Seq(R) /\ \A d \in R : d.work \in Work
  BY DEF TypeOK
<1>. HIDE DEF R
<1>. QED BY <1>1

\* Steps that leave the decisions alone keep the batches apart.
LEMMA SameDecisions ==
    ASSUME decisions' = decisions, NeverTwice
    PROVE  NeverTwice' /\ \A w \in Work : Decided(w)' <=> Decided(w)
BY DEF NeverTwice, Decided

\* Ending attempts and leaving them alone starts none.
LEMMA RunningShrinks ==
    ASSUME TypeOK,
           attempts' = attempts \/
           \E W : \E status \in AttemptStatus \ {"running"} : attempts' = Ended(W, status)
    PROVE  \A w \in Work : Running(w)' => Running(w)
<1>1. CASE attempts' = attempts
  BY <1>1 DEF Running
<1>2. CASE \E W : \E status \in AttemptStatus \ {"running"} : attempts' = Ended(W, status)
  <2>. PICK W : \E status \in AttemptStatus \ {"running"} : attempts' = Ended(W, status)
    BY <1>2
  <2>. PICK status \in AttemptStatus \ {"running"} : attempts' = Ended(W, status)
    OBVIOUS
  <2>0. attempts \in [Work -> Seq(AttemptStatus)]
    BY DEF TypeOK
  <2>1. /\ \A w \in Work : DOMAIN attempts'[w] = DOMAIN attempts[w]
        /\ \A w \in Work : \A n \in DOMAIN attempts[w] :
             attempts'[w][n] = "running" => attempts[w][n] = "running"
    BY <2>0, EndedFacts
  <2>. QED BY <2>1 DEF Running
<1>. QED BY <1>1, <1>2

\* Ending the running attempts of some works leaves them none.
LEMMA RunningStops ==
    ASSUME TypeOK, NEW W, NEW status \in AttemptStatus \ {"running"}, attempts' = Ended(W, status)
    PROVE  \A w \in Work \cap W : ~Running(w)'
<1>1. /\ \A w \in Work : DOMAIN attempts'[w] = DOMAIN attempts[w]
      /\ \A w \in Work : \A n \in DOMAIN attempts[w] :
           attempts'[w][n] = "running" => w \notin W
  BY EndedFacts DEF TypeOK
<1>. QED BY <1>1 DEF Running

\* Recording an attempt makes no other work run.
LEMMA RunningGrows ==
    ASSUME TypeOK, NEW w \in Work, attempts' = Started(w)
    PROVE  \A v \in Work \ {w} : Running(v)' => Running(v)
BY StartedFacts DEF TypeOK, Running

\* Evidence, workers and the handlers without effect on the gate's tables.
LEMMA QuietSteps ==
    ASSUME TypeOK, BatchInv, decisions' = decisions, cursor' = cursor,
           head' \in {head, head + 1}, attempts' = attempts,
           retry' \subseteq retry, pc' = pc, cur' = cur, phase' = phase
    PROVE  BatchInv'
<1>1. head' >= head /\ head \in Nat /\ cursor \in Nat
  BY DEF TypeOK
<1>2. \A w \in Work : Running(w)' <=> Running(w)
  BY DEF Running
<1>3. cursor' <= head'
  BY <1>1 DEF BatchInv, AttemptOver
<1>. QED BY <1>2, <1>3, SameDecisions DEF BatchInv, AttemptOver

\* Between two sub-steps of a handler nothing runs that is decided.
LEMMA IdleGate ==
    ASSUME BatchInv, pc = "none", phase # "down", NEW w \in Work, Decided(w)
    PROVE  ~Running(w) /\ w \notin retry
BY DEF BatchInv, AttemptOver

\* The gate's handler decides a batch while it has the only running attempt,
\* and marks it before anything else happens to it.
LEMMA BatchPass == TypeOK /\ BatchInv /\ PassStep => BatchInv'
<1>. SUFFICES ASSUME TypeOK, BatchInv, PassStep PROVE BatchInv'
  OBVIOUS
<1>. USE DEF runVars, gateVars, envVars, schedVars
<1>0. /\ head \in Nat /\ cursor \in Nat /\ \A w \in Work : w \in Nat
      /\ "succeeded" \in AttemptStatus \ {"running"} /\ "failed" \in AttemptStatus \ {"running"}
  BY DEF TypeOK, Work, AttemptStatus
<1>1. CASE RootReady
  BY <1>1, QuietSteps DEF RootReady, Unattended, Wake
<1>2. CASE SyncLimits
  <2>1. /\ head' \in {head, head + 1} /\ phase # "down" /\ pc = "none"
        /\ decisions' = decisions /\ cursor' = cursor /\ attempts' = attempts
        /\ retry' = retry /\ pc' = "none"
    BY <1>0, <1>2 DEF SyncLimits, InHand
  <2>2. \A w \in Work : Running(w)' <=> Running(w)
    BY <2>1 DEF Running
  <2>3. cursor' <= head'
    BY <1>0, <2>1 DEF BatchInv, AttemptOver
  <2>. QED BY <2>1, <2>2, <2>3, SameDecisions, IdleGate DEF BatchInv, AttemptOver
<1>3. CASE \E w \in Work : RetrySkipped(w) \/ RetryStalls(w)
  BY <1>3, QuietSteps DEF RetrySkipped, RetryStalls, Retried
<1>4. CASE \E w \in Work : RetryRecords(w)
  <2>. PICK w \in Work : RetryRecords(w)
    BY <1>4
  <2>1. /\ attempts' = Started(w) /\ w \in retry /\ phase = "retry" /\ pc = "none"
        /\ UNCHANGED <<head, cursor, decisions, phase, retry>>
    BY DEF RetryRecords, Resubmittable, InHand, Goto
  <2>2. ~Decided(w)
    BY <2>1, IdleGate
  <2>. QED BY <2>1, <2>2, RunningGrows, SameDecisions, IdleGate DEF BatchInv, AttemptOver
<1>5. CASE Resubmit
  <2>1. /\ UNCHANGED <<head, cursor, decisions, attempts, phase>>
        /\ retry' \subseteq retry /\ pc = "resubmit" /\ pc' = "none"
    BY <1>5 DEF Resubmit
  <2>2. \A w \in Work : Running(w)' <=> Running(w)
    BY <2>1 DEF Running
  <2>. QED BY <2>1, <2>2, SameDecisions DEF BatchInv, AttemptOver
<1>6. CASE GateWaits \/ GateRests \/ GateStalls \/ EndStep
  <2>1. /\ UNCHANGED <<head, cursor, decisions, attempts>> /\ retry' \subseteq retry
        /\ pc = "none" /\ pc' = "none" /\ phase # "down"
    BY <1>6 DEF GateWaits, GateRests, GateStalls, EndStep, Passed, Enter, Stop, AtGate, InHand
  <2>2. \A w \in Work : Running(w)' <=> Running(w)
    BY <2>1 DEF Running
  <2>. QED BY <2>1, <2>2, SameDecisions, IdleGate DEF BatchInv, AttemptOver
<1>7. CASE GateRecords
  <2>1. /\ attempts' = Started(head) /\ phase = "retry" /\ pc = "none" /\ head > cursor
        /\ UNCHANGED <<head, cursor, decisions, phase, retry>>
    BY <1>7 DEF GateRecords, AtGate, InHand, Goto, Unread
  <2>2. head \in Work /\ ~Decided(head)
    <3>1. head \in Work
      BY <1>0, <2>1 DEF Work, TypeOK
    <3>2. \A i \in DOMAIN decisions : decisions[i].work \in Nat /\ decisions[i].work <= cursor
      BY <1>0, DecisionWorks DEF BatchInv, AttemptOver
    <3>. QED BY <1>0, <2>1, <3>1, <3>2 DEF Decided
  <2>. QED BY <2>1, <2>2, RunningGrows, SameDecisions, IdleGate DEF BatchInv, AttemptOver
<1>8. CASE Submit \/ Archive
  <2>1. /\ UNCHANGED <<head, cursor, decisions, attempts>> /\ retry' = retry
        /\ pc \notin {"none", "mark"} /\ pc' = "none"
    BY <1>8 DEF Submit, Archive, Passed, Enter
  <2>2. \A w \in Work : Running(w)' <=> Running(w)
    BY <2>1 DEF Running
  <2>. QED BY <2>1, <2>2, SameDecisions DEF BatchInv, AttemptOver
<1>9. CASE \E w \in Work : GateDiscards(w) \/ GateRejects(w) \/ GateFindsStale(w)
  <2>1. /\ UNCHANGED <<head, cursor, decisions, phase, retry>>
        /\ phase = "retry" /\ pc = "none"
        /\ \E W : \E status \in AttemptStatus \ {"running"} : attempts' = Ended(W, status)
    BY <1>0, <1>9 DEF GateDiscards, GateRejects, GateFindsStale, Answered, AtGate, InHand, Goto
  <2>. QED BY <2>1, RunningShrinks, SameDecisions, IdleGate DEF BatchInv, AttemptOver
<1>10. CASE \E w \in Work : GateReplays(w)
  <2>1. /\ UNCHANGED <<head, cursor, decisions, phase, retry, attempts>>
        /\ phase = "retry" /\ pc = "none"
    BY <1>10 DEF GateReplays, Answered, AtGate, InHand, Goto
  <2>2. \A w \in Work : Running(w)' <=> Running(w)
    BY <2>1 DEF Running
  <2>. QED BY <2>1, <2>2, SameDecisions, IdleGate DEF BatchInv, AttemptOver
<1>11. CASE \E w \in Work : GateCommits(w)
  <2>. PICK w \in Work : GateCommits(w)
    BY <1>11
  <2>. DEFINE new == [work |-> w, minted |-> file[w].minted,
                       own |-> file[w].minted = manifest[w], buys |-> Judgment(w).buys]
  <2>1. /\ decisions' = Append(decisions, new) /\ cursor' = w /\ head = w
        /\ Running(w) /\ phase = "retry" /\ pc = "none" /\ retry = {}
        /\ UNCHANGED <<head, attempts, phase, retry>> /\ pc' = "mark" /\ cur' = w
    BY DEF GateCommits, Answered, AtGate, InHand, Goto, Consume, Stale
  <2>2. /\ DOMAIN decisions' = 1..(Len(decisions) + 1) /\ Len(decisions) \in Nat
        /\ DOMAIN decisions = 1..Len(decisions)
        /\ decisions'[Len(decisions) + 1].work = w
        /\ \A i \in DOMAIN decisions : decisions'[i] = decisions[i]
    BY <2>1, AppendedDecision
  <2>3. \A i \in DOMAIN decisions : decisions[i].work < w
    <3>1. ~Decided(w)
      BY <2>1, IdleGate
    <3>2. \A i \in DOMAIN decisions : decisions[i].work \in Nat
      BY <1>0, DecisionWorks
    <3>. QED BY <1>0, <2>1, <3>1, <3>2 DEF Decided, BatchInv, AttemptOver
  <2>4. \A v \in Work : Decided(v)' => v = w \/ Decided(v)
    BY <2>2 DEF Decided
  <2>5. \A v \in Work : Running(v)' <=> Running(v)
    BY <2>1 DEF Running
  <2>6. AttemptOver'
    <3>1. \A i \in DOMAIN decisions' : decisions'[i].work <= w
      <4>1. \A i \in DOMAIN decisions : decisions[i].work \in Nat
        BY <1>0, DecisionWorks
      <4>. QED BY <1>0, <2>2, <2>3, <4>1
    <3>. QED BY <1>0, <2>1, <2>4, <2>5, <3>1, IdleGate DEF AttemptOver
  <2>7. NeverTwice'
    BY <2>2, <2>3 DEF BatchInv, NeverTwice
  <2>. QED BY <2>6, <2>7 DEF BatchInv
<1>12. CASE MarkSucceeded
  <2>1. /\ UNCHANGED <<head, cursor, decisions, phase, retry>>
        /\ pc = "mark" /\ phase = "retry"
        /\ attempts' = Ended({cur}, "succeeded")
    BY <1>12 DEF MarkSucceeded, Goto, BatchInv, AttemptOver
  <2>2. \A w \in Work : /\ Running(w)' => Running(w)
                        /\ w = cur => ~Running(w)'
    BY <1>0, <2>1, RunningShrinks, RunningStops
  <2>. QED BY <2>1, <2>2, SameDecisions DEF BatchInv, AttemptOver
<1>. QED BY <1>1, <1>2, <1>3, <1>4, <1>5, <1>6, <1>7, <1>8, <1>9, <1>10,
            <1>11, <1>12 DEF PassStep

\* Where a restart finds no local scheduler's leftovers or no crash happens, a
\* batch is judged once and batches are judged in order.
THEOREM NeverDecidedTwice ==
    ASSUME Backend = "local" \/ "crash" \notin Faults
    PROVE  Spec => []NeverTwice
<1>. USE DEF runVars, gateVars, envVars, schedVars
<1>1. Init => BatchInv
  BY DEF Init, BatchInv, AttemptOver, NeverTwice, Decided
<1>2. TypeOK /\ BatchInv /\ [Next]_vars => BatchInv'
  <2>. SUFFICES ASSUME TypeOK, BatchInv, [Next]_vars PROVE BatchInv'
    OBVIOUS
  <2>0. /\ "failed" \in AttemptStatus \ {"running"} /\ "lost" \in AttemptStatus \ {"running"}
    BY DEF AttemptStatus
  <2>1. CASE Evidence \/ Worker
    <3>1. /\ UNCHANGED <<cursor, decisions, attempts, schedVars>> /\ head' \in {head, head + 1}
      BY <2>1 DEF Evidence, Worker, SeatDelivers, SeatJudged, SeatCloses, IntegratorAnswers,
                  IntegrationOverflows, IntegrationJudged, Unattended, Wake, WorkerAnswers, WorkerDies
    <3>. QED BY <3>1, QuietSteps
  <2>2. CASE ReconcileSome \/ ReconcileGhost
    <3>1. PICK gone : Reconcile(gone)
      BY <2>2 DEF ReconcileSome, ReconcileGhost
    <3>2. /\ UNCHANGED <<head, cursor, decisions, pc>> /\ pc = "none" /\ phase = "idle"
          /\ attempts' = Ended(gone, "failed") /\ retry' = Waiting
      BY <3>1 DEF Reconcile, InHand
    <3>3. \A w \in Work : Running(w)' => Running(w)
      BY <2>0, <3>2, RunningShrinks
    <3>4. \A w \in retry' : w \in Work /\ Running(w)
      BY <3>2 DEF Waiting, RunningWork
    <3>. QED BY <3>2, <3>3, <3>4, SameDecisions, IdleGate DEF BatchInv, AttemptOver
  <2>3. CASE Interrupt \/ Crash
    <3>1. /\ UNCHANGED <<head, cursor, decisions, attempts>>
          /\ retry' = {} /\ pc' = "none" /\ phase' = "down" /\ phase # "down"
          /\ pc = "none" \/ Backend = "local"
      BY <2>3 DEF Interrupt, Crash, Stop, InHand, Fault, Alive
    <3>2. \A w \in Work : Running(w)' <=> Running(w)
      BY <3>1 DEF Running
    <3>. QED BY <3>1, <3>2, SameDecisions, IdleGate DEF BatchInv, AttemptOver
  <2>4. CASE Restart
    <3>1. /\ UNCHANGED <<head, cursor, decisions, retry, pc>> /\ phase # "retry"
          /\ attempts' = IF Backend = "local" THEN Ended(Work, "lost") ELSE attempts
      BY <2>4 DEF Restart, Alive
    <3>2. pc = "none"
      BY <3>1 DEF BatchInv, AttemptOver
    <3>3. CASE Backend = "local"
      <4>1. \A w \in Work : ~Running(w)'
        BY <2>0, <3>1, <3>3, RunningStops
      <4>. QED BY <3>1, <3>2, <4>1, SameDecisions DEF BatchInv, AttemptOver
    <3>4. CASE Backend # "local"
      <4>1. \A w \in Work : Running(w)' <=> Running(w)
        BY <3>1, <3>4 DEF Running
      <4>. QED BY <3>1, <3>2, <3>4, <4>1, SameDecisions DEF BatchInv, AttemptOver
    <3>. QED BY <3>3, <3>4
  <2>5. CASE Rest \/ UNCHANGED vars
    <3>1. UNCHANGED vars
      BY <2>5 DEF Rest
    <3>. QED BY <3>1, QuietSteps DEF vars
  <2>. QED BY <2>1, <2>2, <2>3, <2>4, <2>5, BatchPass DEF Next
<1>3. BatchInv => NeverTwice
  BY DEF BatchInv
<1>. QED BY <1>1, <1>2, <1>3, TypeCorrect, PTL DEF Spec

\* What decisions are about, and what is handed out for them: no fresh payload is
\* minted for a batch that the cursor has passed.
HandedOut ==
    /\ cursor <= head
    /\ pc = "submit" => cur > cursor
    /\ \A i \in DOMAIN decisions :
         /\ decisions[i].work <= cursor
         /\ decisions[i].own => decisions[i].minted = manifest[decisions[i].work]

\* Only three steps touch decisions, cursor or payloads, or prepare one.
LEMMA PayloadSteps ==
    ASSUME TypeOK, [Next]_vars
    PROVE  \/ \E w \in Work : GateCommits(w)
           \/ Submit \/ GateRecords
           \/ /\ UNCHANGED <<decisions, cursor, manifest>> /\ head' \in {head, head + 1}
              /\ pc' = "submit" => pc = "submit" /\ cur' = cur
<1>. USE DEF runVars, gateVars, envVars, schedVars
<1>1. CASE Evidence
  BY <1>1 DEF Evidence, SeatDelivers, SeatJudged, SeatCloses, IntegratorAnswers,
              IntegrationOverflows, IntegrationJudged, Unattended, Wake
<1>2. CASE Worker
  BY <1>2 DEF Worker, WorkerAnswers, WorkerDies
<1>3. CASE \E w \in Work : RetrySkipped(w) \/ RetryStalls(w) \/ RetryRecords(w)
  BY <1>3 DEF RetrySkipped, RetryStalls, RetryRecords, Retried, Goto
<1>4. CASE \E w \in Work : GateDiscards(w) \/ GateRejects(w) \/ GateFindsStale(w) \/ GateReplays(w)
  BY <1>4 DEF GateDiscards, GateRejects, GateFindsStale, GateReplays, Goto
<1>5. CASE RootReady \/ SyncLimits
  BY <1>5 DEF RootReady, SyncLimits, Unattended, Wake, InHand
<1>6. CASE Resubmit \/ GateWaits \/ GateRests \/ GateStalls \/ MarkSucceeded \/ Archive \/ EndStep
  BY <1>6 DEF Resubmit, GateWaits, GateRests, GateStalls, MarkSucceeded, Archive, EndStep,
              Passed, Enter, Stop, Goto
<1>7. CASE ReconcileSome \/ ReconcileGhost \/ Interrupt \/ Crash \/ Restart \/ Rest \/ UNCHANGED vars
  BY <1>7 DEF ReconcileSome, ReconcileGhost, Reconcile, Interrupt, Crash, Restart, Rest, Stop,
              InHand, vars
<1>. QED BY <1>1, <1>2, <1>3, <1>4, <1>5, <1>6, <1>7 DEF Next, PassStep

\* On both backends and under all faults batches are judged in order, no decision
\* id is committed twice, and of the answers to the payload handed out last for a
\* batch only one is.
THEOREM DecidedOnce == Spec => []BatchDecidedOnce
<1>1. Init => HandedOut /\ BatchDecidedOnce
  BY DEF Init, HandedOut, BatchDecidedOnce
<1>2. TypeOK /\ HandedOut /\ BatchDecidedOnce /\ [Next]_vars => HandedOut' /\ BatchDecidedOnce'
  <2>. SUFFICES ASSUME TypeOK, HandedOut, BatchDecidedOnce, [Next]_vars
                PROVE  HandedOut' /\ BatchDecidedOnce'
    OBVIOUS
  <2>0. /\ head \in Nat /\ cursor \in Nat /\ manifest \in [Work -> Nat]
        /\ \A i \in DOMAIN decisions : decisions[i].work \in Work /\ decisions[i].work \in Nat
    <3>1. \A w \in Work : w \in Nat
      BY DEF Work
    <3>2. head \in Nat /\ cursor \in Nat /\ manifest \in [Work -> Nat]
      BY DEF TypeOK
    <3>. QED BY <3>1, <3>2, DecisionWorks
  <2>1. CASE \E w \in Work : GateCommits(w)
    <3>. PICK w \in Work : GateCommits(w)
      BY <2>1
    <3>. DEFINE new == [work |-> w, minted |-> file[w].minted,
                        own |-> file[w].minted = manifest[w], buys |-> Judgment(w).buys]
                k == Len(decisions) + 1
    <3>1. /\ decisions' = Append(decisions, new) /\ cursor' = w /\ head' = w /\ head = w
          /\ manifest' = manifest /\ pc' = "mark" /\ ~Replayed(w)
      BY DEF GateCommits, Goto, Consume, Stale, envVars
    <3>2. /\ DOMAIN decisions' = 1..k /\ Len(decisions) \in Nat
          /\ DOMAIN decisions = 1..Len(decisions)
          /\ decisions'[k] = new
          /\ \A i \in DOMAIN decisions : decisions'[i] = decisions[i]
      BY <3>1, AppendedDecision
    <3>3. \A i \in DOMAIN decisions : /\ decisions[i].work <= w
                                      /\ decisions[i].work = w => decisions[i].minted # file[w].minted
      BY <2>0, <3>1 DEF HandedOut, Replayed, Committed
    <3>4. \A i \in DOMAIN decisions : decisions[i].own => decisions[i].minted = manifest[decisions[i].work]
      BY DEF HandedOut
    <3>5. \A i \in 1..k : i \in DOMAIN decisions \/ i = k
      BY <3>2
    <3>6. /\ w <= w
          /\ new.work = w /\ new.minted = file[w].minted
          /\ new.own => new.minted = manifest[w]
      <4>1. w \in Nat
        BY <2>0, <3>1
      <4>2. w <= w
        BY <4>1
      <4>3. new.own <=> file[w].minted = manifest[w]
        OBVIOUS
      <4>. QED BY <4>2, <4>3
    <3>. HIDE DEF new, k
    <3>7. HandedOut'
      <4>1. \A i \in 1..k :
              /\ decisions'[i].work <= w
              /\ decisions'[i].own => decisions'[i].minted = manifest[decisions'[i].work]
        <5>. TAKE i \in 1..k
        <5>1. CASE i \in DOMAIN decisions
          BY <3>2, <3>3, <3>4, <5>1
        <5>2. CASE i = k
          BY <3>2, <3>6, <5>2
        <5>. QED BY <3>5, <5>1, <5>2
      <4>2. DOMAIN decisions' = 1..k
        BY <3>2
      <4>. QED BY <3>1, <3>6, <4>1, <4>2 DEF HandedOut
    <3>8. BatchDecidedOnce'
      <4>. SUFFICES ASSUME NEW i \in 1..k, NEW n \in 1..k, i < n
                    PROVE  \/ decisions'[i].work < decisions'[n].work
                           \/ /\ decisions'[i].work = decisions'[n].work
                              /\ decisions'[i].minted # decisions'[n].minted
                              /\ ~(decisions'[i].own /\ decisions'[n].own)
        BY <3>2 DEF BatchDecidedOnce
      <4>0. i \in Nat /\ n \in Nat
        OBVIOUS
      <4>1. i \in DOMAIN decisions
        BY <3>2, <4>0 DEF k
      <4>2. CASE n \in DOMAIN decisions
        BY <3>2, <4>1, <4>2 DEF BatchDecidedOnce
      <4>3. CASE n = k
        <5>1. decisions'[n] = new /\ decisions'[i] = decisions[i]
          BY <3>2, <4>1, <4>3
        <5>2. CASE decisions[i].work = w
          BY <3>3, <3>4, <3>6, <4>1, <5>1, <5>2
        <5>3. CASE decisions[i].work # w
          <6>1. decisions[i].work < w
            BY <2>0, <3>1, <3>3, <4>1, <5>3
          <6>. QED BY <3>6, <5>1, <6>1
        <5>. QED BY <5>2, <5>3
      <4>. QED BY <3>5, <4>2, <4>3
    <3>. QED BY <3>7, <3>8
  <2>2. CASE Submit
    <3>1. /\ UNCHANGED <<decisions, cursor, head>> /\ pc' = "none" /\ pc = "submit"
          /\ manifest' = [manifest EXCEPT ![cur] = Len(attempts[cur])]
      BY <2>2 DEF Submit, Passed, Enter, gateVars
    <3>2. \A i \in DOMAIN decisions : decisions[i].work # cur
      BY <2>0, <3>1 DEF HandedOut
    <3>3. \A i \in DOMAIN decisions : manifest'[decisions[i].work] = manifest[decisions[i].work]
      BY <2>0, <3>1, <3>2
    <3>. QED BY <3>1, <3>3 DEF HandedOut, BatchDecidedOnce
  <2>3. CASE GateRecords
    BY <2>3 DEF GateRecords, Goto, Unread, HandedOut, BatchDecidedOnce, runVars, envVars
  <2>4. CASE /\ UNCHANGED <<decisions, cursor, manifest>> /\ head' \in {head, head + 1}
             /\ pc' = "submit" => pc = "submit" /\ cur' = cur
    <3>1. cursor' <= head'
      BY <2>0, <2>4 DEF HandedOut
    <3>. QED BY <2>4, <3>1 DEF HandedOut, BatchDecidedOnce
  <2>. QED BY <2>1, <2>2, <2>3, <2>4, PayloadSteps
<1>. QED BY <1>1, <1>2, TypeCorrect, PTL DEF Spec

(***************************************************************************)
(* The cap, the epochs, and rest.                                          *)
(***************************************************************************)

\* While the gate works it knows of a limit that is reached.
CapKnown == phase = "retry" /\ CapReached => capped

\* No judgment is committed once an evaluation limit is reached: evaluations and
\* limits are settled before the cap is derived, and stay put until the gate.
THEOREM CapHolds == Spec => CappedDecidesNothing
<1>. USE DEF runVars, gateVars, envVars, schedVars
<1>1. Init => CapKnown
  BY DEF Init, CapKnown
<1>2. CapKnown /\ [Next]_vars => CapKnown'
  <2>. SUFFICES ASSUME CapKnown, [Next]_vars, phase' = "retry" PROVE CapReached' => capped'
    BY DEF CapKnown
  <2>1. CASE Evidence \/ Worker
    <3>1. UNCHANGED <<phase, capped, limit>> /\ (phase = "retry" => evals' = evals)
      BY <2>1 DEF Evidence, Worker, SeatDelivers, SeatJudged, SeatCloses, IntegratorAnswers,
                  IntegrationOverflows, IntegrationJudged, Unattended, Harvesting, InHand, WorkerAnswers, WorkerDies
    <3>. QED BY <3>1 DEF CapKnown, CapReached
  <2>2. CASE SyncLimits
    BY <2>2 DEF SyncLimits, CapOf, CapReached
  <2>3. CASE RootReady
    BY <2>3 DEF RootReady, InHand, Unattended
  <2>4. CASE \E w \in Work : \/ RetrySkipped(w) \/ RetryStalls(w) \/ RetryRecords(w)
                             \/ GateDiscards(w) \/ GateRejects(w) \/ GateFindsStale(w)
                             \/ GateReplays(w) \/ GateCommits(w)
    <3>1. UNCHANGED <<phase, capped, limit, evals>>
      BY <2>4 DEF RetrySkipped, RetryStalls, RetryRecords, GateDiscards, GateRejects,
                  GateFindsStale, GateReplays, GateCommits, Goto, Retried
    <3>. QED BY <3>1 DEF CapKnown, CapReached
  <2>5. CASE Resubmit \/ GateRecords \/ MarkSucceeded
    <3>1. UNCHANGED <<phase, capped, limit, evals>>
      BY <2>5 DEF Resubmit, GateRecords, MarkSucceeded, Goto
    <3>. QED BY <3>1 DEF CapKnown, CapReached
  <2>6. CASE GateWaits \/ GateRests \/ GateStalls \/ Submit \/ Archive \/ EndStep
    BY <2>6 DEF GateWaits, GateRests, GateStalls, Submit, Archive, EndStep, Passed, Enter, Stop
  <2>7. CASE ReconcileSome \/ ReconcileGhost \/ Interrupt \/ Crash \/ Restart
    BY <2>7 DEF ReconcileSome, ReconcileGhost, Reconcile, Interrupt, Crash, Restart, Stop
  <2>8. CASE Rest \/ UNCHANGED vars
    BY <2>8 DEF Rest, vars, CapKnown, CapReached
  <2>. QED BY <2>1, <2>2, <2>3, <2>4, <2>5, <2>6, <2>7, <2>8 DEF Next, PassStep
<1>3. TypeOK /\ CapKnown /\ [Next]_vars => [CapReached => decisions' = decisions]_vars
  <2>1. ASSUME CapKnown, NEW w \in Work, GateCommits(w) PROVE ~CapReached
    BY <2>1 DEF GateCommits, Answered, AtGate, InHand, CapKnown
  <2>. QED BY <2>1, TreeSteps
<1>. QED BY <1>1, <1>2, <1>3, TypeCorrect, PTL DEF Spec, CappedDecidesNothing

\* A promoted candidate belongs to an epoch that is over.
Superseded == \A w \in Work : request[w] = "promoted" => base[w] < epoch

\* Requests change when integrators answer, when they are judged and when a
\* judgment is committed.
LEMMA RequestSteps ==
    ASSUME [Next]_vars
    PROVE  \/ UNCHANGED <<request, base, epoch>>
           \/ /\ UNCHANGED <<base, epoch>>
              /\ \E w \in Work : \E to \in {"abstained", "submitted", "dormant", "closed", "passed"} :
                   request' = [request EXCEPT ![w] = to]
           \/ \E w \in Work : GateCommits(w)
<1>. USE DEF runVars, gateVars, envVars, schedVars
<1>1. CASE Evidence
  BY <1>1 DEF Evidence, SeatDelivers, SeatJudged, SeatCloses, IntegratorAnswers,
              IntegrationOverflows, IntegrationJudged, Unattended
<1>2. CASE Worker
  BY <1>2 DEF Worker, WorkerAnswers, WorkerDies
<1>3. CASE \E w \in Work : \/ RetrySkipped(w) \/ RetryStalls(w) \/ RetryRecords(w)
                           \/ GateDiscards(w) \/ GateRejects(w) \/ GateFindsStale(w)
                           \/ GateReplays(w)
  BY <1>3 DEF RetrySkipped, RetryStalls, RetryRecords, GateDiscards, GateRejects,
              GateFindsStale, GateReplays
<1>4. CASE \/ RootReady \/ SyncLimits \/ Resubmit \/ GateWaits \/ GateRests \/ GateStalls
           \/ GateRecords \/ Submit \/ MarkSucceeded \/ Archive \/ EndStep
  BY <1>4 DEF RootReady, Unattended, SyncLimits, Resubmit, GateWaits, GateRests,
              GateStalls, GateRecords, Submit, MarkSucceeded, Archive, EndStep
<1>5. CASE ReconcileSome \/ ReconcileGhost \/ Interrupt \/ Crash \/ Restart \/ Rest
           \/ UNCHANGED vars
  BY <1>5 DEF ReconcileSome, ReconcileGhost, Reconcile, Interrupt, Crash, Restart, Rest, vars
<1>. QED BY <1>1, <1>2, <1>3, <1>4, <1>5 DEF Next, PassStep

\* Two candidates of the same epoch are never both promoted.
THEOREM ChainHolds == Spec => []EpochsChain
<1>1. Init => Superseded /\ EpochsChain
  BY DEF Init, Superseded, EpochsChain
<1>2. TypeOK /\ Superseded /\ EpochsChain /\ [Next]_vars => Superseded' /\ EpochsChain'
  <2>. SUFFICES ASSUME TypeOK, Superseded, EpochsChain, [Next]_vars
                PROVE  Superseded' /\ EpochsChain'
    OBVIOUS
  <2>0. epoch \in Nat /\ base \in [Work -> Nat] /\ DOMAIN request = Work
    BY DEF TypeOK
  <2>1. CASE UNCHANGED <<request, base, epoch>>
    BY <2>1 DEF Superseded, EpochsChain
  <2>2. CASE /\ UNCHANGED <<base, epoch>>
             /\ \E w \in Work : \E to \in {"abstained", "submitted", "dormant", "closed", "passed"} :
                  request' = [request EXCEPT ![w] = to]
    <3>1. \A w \in Work : request'[w] = "promoted" => request[w] = "promoted"
      BY <2>0, <2>2
    <3>. QED BY <2>2, <3>1 DEF Superseded, EpochsChain
  <2>3. CASE \E w \in Work : GateCommits(w)
    <3>. PICK w \in Work : GateCommits(w)
      BY <2>3
    <3>. DEFINE j == Judgment(w)
    <3>1. j \in Judgments
      BY DEF Judgment, TypeOK
    <3>2. CASE j.kind = "promote"
      <4>1. j.on \in Work /\ request[j.on] = "passed" /\ base[j.on] = epoch
        BY <3>1, <3>2, JudgmentFacts DEF GateCommits, Committable, Current
      <4>2. /\ request' = [request EXCEPT ![j.on] = "promoted"]
            /\ base' = base /\ epoch' = epoch + 1
        BY <3>2 DEF GateCommits, Apply, Opens
      <4>3. \A v \in Work : request'[v] = "promoted" => v = j.on \/ base[v] < epoch
        BY <2>0, <4>1, <4>2 DEF Superseded
      <4>4. Superseded'
        BY <2>0, <4>1, <4>2, <4>3 DEF Superseded
      <4>5. \A v \in Work \ {j.on} : request'[v] = request[v]
        BY <2>0, <4>2
      <4>. QED BY <2>0, <4>1, <4>2, <4>3, <4>4, <4>5 DEF EpochsChain
    <3>3. CASE j.kind # "promote"
      <4>1. epoch' = epoch
        BY <3>3 DEF GateCommits, Apply
      <4>2. \A v \in Work : request'[v] = "promoted" =>
              request[v] = "promoted" /\ base'[v] = base[v]
        <5>1. CASE Opens(w, j)
          <6>1. /\ request' = [request EXCEPT ![w] = "open"]
                /\ base' = [base EXCEPT ![w] = epoch]
            BY <5>1 DEF GateCommits, Apply, Opens
          <6>. QED BY <2>0, <6>1
        <5>2. CASE ~Opens(w, j)
          <6>1. /\ request' \in {request, [request EXCEPT ![j.on] = "closed"]}
                /\ base' = base
            BY <3>3, <5>2 DEF GateCommits, Apply
          <6>. QED BY <2>0, <6>1
        <5>. QED BY <5>1, <5>2
      <4>. QED BY <4>1, <4>2 DEF Superseded, EpochsChain
    <3>. QED BY <3>2, <3>3
  <2>. QED BY <2>1, <2>2, <2>3, RequestSteps
<1>. QED BY <1>1, <1>2, TypeCorrect, PTL DEF Spec

\* An integration abstained or left dormant: no event, and nothing to wait for.
GivenUp == \E w \in Work : request[w] \in Silent

\* When all evidence has been judged, there is a lease or an integration left to
\* wait for, or no lens to buy, or an integration was given up in the meantime.
\* A request is made at the head of its batch, and one that is over has moved it.
WaitIsHonest ==
    /\ cursor <= head
    /\ phase \in {"retry", "poll"} \/ pc # "none" => head > 0
    /\ \A w \in Work : /\ request[w] # "none" => w <= head
                       /\ request[w] \in {"passed", "promoted", "closed"} => w < head
    /\ head > 0 /\ cursor = head => ~Untried \/ WorkInFlight \/ GivenUp

\* Steps that read the tree and the seats, and append evidence at most.
LEMMA HonestyKept ==
    ASSUME TypeOK, WaitIsHonest, cursor' = cursor, head' \in {head, head + 1},
           UNCHANGED <<seat, request, lineage>> \/ head' = head + 1,
           request' = request, phase' \in {"retry", "poll"} \/ pc' # "none" => head' > 0
    PROVE  WaitIsHonest'
<1>1. head \in Nat /\ cursor \in Nat /\ \A w \in Work : w \in Nat
  BY GateAssumption DEF TypeOK, Work
<1>2. cursor' <= head' /\ (head' = head + 1 => cursor' # head')
  BY <1>1 DEF WaitIsHonest
<1>3. UNCHANGED <<seat, request, lineage>> =>
          Untried' = Untried /\ WorkInFlight' = WorkInFlight /\ GivenUp' = GivenUp
  BY DEF Untried, WorkInFlight, Nodes, Burned, GivenUp
<1>4. \A w \in Work : /\ request'[w] # "none" => w <= head'
                      /\ request'[w] \in {"passed", "promoted", "closed"} => w < head'
  BY <1>1 DEF WaitIsHonest
<1>. QED BY <1>1, <1>2, <1>3, <1>4 DEF WaitIsHonest

\* A request whose experiment is judged, or whose integrator answers, keeps the
\* promise, as one that overflows the queue: the first is evidence, and after the
\* others it is pending or given up.
LEMMA RequestsHonest ==
    ASSUME TypeOK, WaitIsHonest, NEW w \in Work,
           IntegratorAnswers(w) \/ IntegrationOverflows(w) \/ IntegrationJudged(w)
    PROVE  WaitIsHonest'
<1>1. /\ head \in Nat /\ cursor \in Nat /\ \A v \in Work : v \in Nat
      /\ request \in [Work -> RequestStatus]
  BY GateAssumption DEF TypeOK, Work
<1>2. CASE IntegratorAnswers(w) \/ IntegrationOverflows(w)
  <2>1. /\ UNCHANGED <<head, cursor, seat, lineage, phase, pc>> /\ request[w] # "none"
        /\ request' \in {[request EXCEPT ![w] = a] : a \in {"abstained", "submitted", "dormant"}}
    BY <1>2 DEF IntegratorAnswers, IntegrationOverflows, Unattended, schedVars
  <2>2. \A v \in Work : IF v = w THEN request'[v] \in {"abstained", "submitted", "dormant"}
                                 ELSE request'[v] = request[v]
    BY <1>1, <2>1
  <2>3. GivenUp' \/ WorkInFlight'
    BY <2>2 DEF GivenUp, WorkInFlight, Pending, Silent
  <2>4. \A v \in Work : /\ request'[v] # "none" => v <= head'
                        /\ request'[v] \in {"passed", "promoted", "closed"} => v < head'
    BY <2>1, <2>2 DEF WaitIsHonest
  <2>. QED BY <2>1, <2>3, <2>4 DEF WaitIsHonest
<1>3. CASE IntegrationJudged(w)
  <2>1. /\ UNCHANGED <<cursor, phase, pc>> /\ head' = head + 1 /\ request[w] = "submitted"
        /\ request' \in {[request EXCEPT ![w] = a] : a \in {"closed", "passed"}}
    BY <1>3 DEF IntegrationJudged, Unattended, Wake, schedVars
  <2>2. \A v \in Work : IF v = w THEN request'[v] \in {"closed", "passed"}
                                 ELSE request'[v] = request[v]
    BY <1>1, <2>1
  <2>3. \A v \in Work : /\ request'[v] # "none" => v <= head'
                        /\ request'[v] \in {"passed", "promoted", "closed"} => v < head'
    BY <1>1, <2>1, <2>2 DEF WaitIsHonest
  <2>4. cursor' <= head' /\ cursor' # head' /\ head' > 0
    BY <1>1, <2>1 DEF WaitIsHonest
  <2>. QED BY <2>3, <2>4 DEF WaitIsHonest
<1>. QED BY <1>2, <1>3

\* A judgment that waits has something to wait for when it is committed, and a
\* request is such a thing.
LEMMA CommitHonest ==
    ASSUME TypeOK, WaitIsHonest, Kinds \cap {"promote", "retain"} = {},
           NEW w \in Work, GateCommits(w)
    PROVE  WaitIsHonest'
<1>. DEFINE j == Judgment(w)
<1>0. /\ head \in Nat /\ \A v \in Work : v \in Nat /\ v > 0
      /\ request \in [Work -> RequestStatus]
  BY GateAssumption DEF TypeOK, Work
<1>1. j \in Judgments
  BY DEF Judgment, TypeOK
<1>2. j.kind \in {"growth", "integration_request"} /\ j.buys \in SUBSET Seat
      /\ (j.kind = "growth" => HonestWait(j.buys))
      /\ (j.kind = "integration_request" => j.buys = {})
  <2>1. j.kind \notin {"promote", "retain", "failed"}
    BY <1>1, JudgmentFacts DEF GateCommits, Valid, DecisionKinds
  <2>2. j.kind = "integration_request" => j.buys = {}
    BY <1>1 DEF Judgments, Failed, Growth, OnRequest
  <2>. QED BY <1>1, <2>1, <2>2, JudgmentFacts DEF GateCommits, Valid
<1>3. /\ cursor' = w /\ head' = w /\ head = w /\ lineage' = lineage
      /\ seat' = [s \in Seat |-> IF s \in j.buys THEN "researching" ELSE seat[s]]
      /\ request' = IF Opens(w, j) THEN [request EXCEPT ![w] = "open"] ELSE request
  BY <1>2 DEF GateCommits, Apply, Consume, Stale
<1>. HIDE DEF j
<1>4. head' > 0 /\ cursor' <= head'
  BY <1>0, <1>3
<1>5. \A v \in Work : /\ request'[v] # "none" => v <= head'
                      /\ request'[v] \in {"passed", "promoted", "closed"} => v < head'
  <2>1. \A v \in Work : request'[v] = request[v] \/ (v = w /\ request'[v] = "open")
    BY <1>0, <1>3
  <2>2. w <= head'
    BY <1>0, <1>3
  <2>. QED BY <1>3, <2>1, <2>2 DEF WaitIsHonest
<1>6. j.buys = {} => seat' = seat
  BY <1>3 DEF TypeOK
<1>7. CASE j.kind = "growth" /\ j.buys = {}
  <2>1. UNCHANGED <<seat, request, lineage>>
    BY <1>3, <1>6, <1>7 DEF Opens
  <2>2. (Untried' <=> Untried) /\ (WorkInFlight' <=> WorkInFlight)
    BY <2>1 DEF Untried, WorkInFlight, Nodes, Burned
  <2>3. ~Untried \/ WorkInFlight
    BY <1>2, <1>7 DEF HonestWait
  <2>. QED BY <1>4, <1>5, <2>2, <2>3 DEF WaitIsHonest
<1>8. CASE j.buys # {}
  <2>1. WorkInFlight'
    BY <1>2, <1>3, <1>8 DEF WorkInFlight, Open
  <2>. QED BY <1>4, <1>5, <2>1 DEF WaitIsHonest
<1>9. CASE j.kind = "integration_request"
  <2>1. request'[w] \in {"open", "submitted", "abstained", "dormant"}
    <3>1. CASE request[w] = "none"
      <4>1. Opens(w, j)
        BY <1>9, <3>1 DEF Opens
      <4>. QED BY <1>0, <1>3, <4>1
    <3>2. CASE request[w] # "none"
      <4>1. request' = request
        BY <1>3, <3>2 DEF Opens
      <4>2. request[w] \notin {"passed", "promoted", "closed"}
        BY <1>0, <1>3 DEF WaitIsHonest
      <4>. QED BY <1>0, <3>2, <4>1, <4>2 DEF Pending, Silent, RequestStatus
    <3>. QED BY <3>1, <3>2
  <2>2. WorkInFlight' \/ GivenUp'
    BY <2>1 DEF WorkInFlight, GivenUp, Pending, Silent
  <2>. QED BY <1>4, <1>5, <2>2 DEF WaitIsHonest
<1>. QED BY <1>2, <1>7, <1>8, <1>9

\* A supervisor that buys seats and asks for integrations, on either backend and
\* under every fault, lets a run rest only when no world has a lens left to buy
\* or an integration was abstained or left dormant; a review, which consumes its batch without
\* asking what is left, is what breaks this.
THEOREM HonestWithoutReviews ==
    ASSUME Kinds \cap {"promote", "retain"} = {}
    PROVE  Spec => []HonestQuiescence
<1>. USE DEF runVars, gateVars, envVars, schedVars
<1>1. Init => WaitIsHonest /\ HonestQuiescence
  BY DEF Init, WaitIsHonest, HonestQuiescence
<1>2. TypeOK /\ WaitIsHonest /\ HonestQuiescence /\ [Next]_vars => WaitIsHonest' /\ HonestQuiescence'
  <2>. SUFFICES ASSUME TypeOK, WaitIsHonest, HonestQuiescence, [Next]_vars
                PROVE  WaitIsHonest' /\ HonestQuiescence'
    OBVIOUS
  <2>0. /\ head \in Nat /\ cursor \in Nat
        /\ \A w \in Work : w \in Nat /\ w > 0
    BY GateAssumption DEF TypeOK, Work
  <2>1. CASE \E s \in Seat : SeatDelivers(s)
    <3>. PICK s \in Seat : SeatDelivers(s)
      BY <2>1
    <3>1. seat'[s] = "awaiting" /\ UNCHANGED <<cursor, head, request, phase, pc>>
          /\ phase # "quiesced"
      BY DEF SeatDelivers, Unattended, Harvesting, InHand, TypeOK
    <3>2. WorkInFlight'
      BY <3>1 DEF WorkInFlight, Open
    <3>. QED BY <3>1, <3>2 DEF WaitIsHonest, HonestQuiescence
  <2>2. CASE \/ \E s \in Seat : SeatJudged(s) \/ SeatCloses(s)
             \/ RootReady
    <3>1. /\ cursor' = cursor /\ head' = head + 1 /\ request' = request
          /\ phase' = phase /\ phase # "quiesced"
      BY <2>2 DEF SeatJudged, SeatCloses, RootReady, Unattended, Wake, Harvesting, InHand
    <3>2. head' > 0
      BY <2>0, <3>1
    <3>. QED BY <3>1, <3>2, HonestyKept DEF HonestQuiescence
  <2>3. CASE \E w \in Work : \/ IntegratorAnswers(w) \/ IntegrationOverflows(w)
                             \/ IntegrationJudged(w)
    <3>1. phase' # "quiesced"
      BY <2>3 DEF IntegratorAnswers, IntegrationOverflows, IntegrationJudged, Unattended,
                  Harvesting, InHand
    <3>. QED BY <2>3, <3>1, RequestsHonest DEF HonestQuiescence
  <2>4. CASE Worker
    <3>1. UNCHANGED <<cursor, head, seat, request, lineage, phase, pc>>
      BY <2>4 DEF Worker, WorkerAnswers, WorkerDies
    <3>. QED BY <3>1, HonestyKept DEF HonestQuiescence, WaitIsHonest, Untried, Nodes, Burned
  <2>5. CASE SyncLimits
    <3>1. /\ cursor' = cursor /\ head' \in {head, head + 1} /\ phase' = "retry" /\ head > 0
          /\ UNCHANGED <<seat, request, lineage>>
      BY <2>5 DEF SyncLimits
    <3>2. head' > 0
      BY <2>0, <3>1
    <3>. QED BY <3>1, <3>2, HonestyKept DEF HonestQuiescence
  <2>6. CASE \E w \in Work : GateCommits(w)
    <3>1. PICK w \in Work : GateCommits(w)
      BY <2>6
    <3>2. phase' = "retry"
      BY <3>1 DEF GateCommits, Answered, AtGate, InHand, Goto
    <3>. QED BY <3>1, <3>2, CommitHonest DEF HonestQuiescence
  <2>7. CASE \/ \E w \in Work : \/ RetrySkipped(w) \/ RetryStalls(w) \/ RetryRecords(w)
                                \/ GateDiscards(w) \/ GateRejects(w) \/ GateFindsStale(w)
                                \/ GateReplays(w)
             \/ GateRecords
    <3>1. UNCHANGED <<cursor, head, seat, request, lineage, phase>> /\ phase = "retry"
      <4>1. CASE \E w \in Work : RetrySkipped(w) \/ RetryStalls(w) \/ RetryRecords(w)
        BY <4>1 DEF RetrySkipped, RetryStalls, RetryRecords, InHand, Retried, Goto
      <4>2. CASE \E w \in Work : \/ GateDiscards(w) \/ GateRejects(w)
                                 \/ GateFindsStale(w) \/ GateReplays(w)
        BY <4>2 DEF GateDiscards, GateRejects, GateFindsStale, GateReplays, Answered,
                    AtGate, InHand, Goto
      <4>3. CASE GateRecords
        BY <4>3 DEF GateRecords, AtGate, InHand, Goto
      <4>. QED BY <2>7, <4>1, <4>2, <4>3
    <3>. QED BY <3>1, HonestyKept DEF HonestQuiescence, WaitIsHonest
  <2>8. CASE \/ Resubmit \/ MarkSucceeded \/ Submit \/ Archive
             \/ GateWaits \/ GateRests \/ GateStalls
    <3>1. /\ UNCHANGED <<cursor, head, seat, request, lineage>>
          /\ pc # "none" \/ phase = "retry"
          /\ phase' \in {phase, "poll"}
      BY <2>8 DEF Resubmit, MarkSucceeded, Submit, Archive, GateWaits, GateRests, GateStalls,
                  Passed, Enter, Goto, AtGate, InHand
    <3>2. head' > 0
      BY <3>1 DEF WaitIsHonest
    <3>3. (Untried' <=> Untried)
      BY <3>1 DEF Untried, Nodes, Burned
    <3>. QED BY <3>1, <3>2, <3>3, HonestyKept DEF HonestQuiescence
  <2>9. CASE EndStep
    <3>1. /\ UNCHANGED <<cursor, head, seat, request, lineage>> /\ phase = "poll"
          /\ phase' \in {"stalled", "capped", "quiesced", "idle"} /\ pc' = "none"
          /\ phase' = "quiesced" => ~Unread /\ ~WorkInFlight
      BY <2>9 DEF EndStep, Stop, Enter, InHand, Quiescent
    <3>2. phase' = "quiesced" => ~Untried \/ GivenUp
      <4>1. head > 0 /\ (~Unread => cursor = head)
        BY <2>0, <3>1 DEF WaitIsHonest, Unread
      <4>. QED BY <3>1, <4>1 DEF WaitIsHonest
    <3>3. Untried' <=> Untried
      BY <3>1 DEF Untried, Nodes, Burned
    <3>. QED BY <3>1, <3>2, <3>3, HonestyKept DEF HonestQuiescence, GivenUp
  <2>10. CASE ReconcileSome \/ ReconcileGhost \/ Interrupt \/ Crash \/ Restart
    <3>1. /\ UNCHANGED <<cursor, head, seat, request, lineage>>
          /\ phase' \in {"harvest", "down", "idle"} /\ (pc' = "none" \/ pc' = pc)
      BY <2>10 DEF ReconcileSome, ReconcileGhost, Reconcile, Interrupt, Crash, Restart, Stop
    <3>. QED BY <3>1, HonestyKept DEF HonestQuiescence, WaitIsHonest
  <2>11. CASE Rest \/ UNCHANGED vars
    BY <2>11 DEF Rest, vars, WaitIsHonest, HonestQuiescence, Untried, WorkInFlight, Nodes, Burned,
                     GivenUp
  <2>. QED BY <2>1, <2>2, <2>3, <2>4, <2>5, <2>6, <2>7, <2>8, <2>9, <2>10, <2>11
           DEF Next, Evidence, PassStep
<1>. QED BY <1>1, <1>2, TypeCorrect, PTL DEF Spec
================================================================================
