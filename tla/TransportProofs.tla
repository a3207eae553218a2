---------------------------- MODULE TransportProofs ----------------------------
(***************************************************************************)
(* What the program sends out, and how it comes back.  First the attempts  *)
(* of a work: how they are launched, watched and given up, and how a       *)
(* result comes back (JobTransport), for every number of works, attempts,  *)
(* cores and faults, on either backend.  Then a call of a chat model       *)
(* (ModelCall): the clock of a call, its retries, and the reply put        *)
(* together from the pieces of a stream, for every timeout, number of      *)
(* retries, backoff, transport, answer and behaviour of the provider.  The *)
(* names of the two are apart, and neither says anything of the other.     *)
(***************************************************************************)
EXTENDS JobTransport, ModelCall, TLAPS, FiniteSetTheorems, SequenceTheorems,
        WellFoundedInduction

\* What the scheduler does for a work between the record of an attempt and the
\* end of its launch.
Launching(w) == sched \in {For("stage", w), For("launch", w), For("note", w)}

\* Locally there is no ledger; what is being launched is on record, and an entry
\* that an answer lacked counts it.
BoardOK ==
    /\ \A w \in Work : /\ Launching(w) => last[w] > 0
                       /\ backend = "local" => ledger[w] = NoEntry
                       /\ ledger[w].gone # "no" => unseen[w] >= 1
    /\ backend = "local" => /\ sched.do \notin {"note", "mark"}
                            /\ \A j \in Jobs : job[j].pc # "held"

\* A work nobody crashed upon or failed to remove has one worker, of its latest
\* attempt, which is on record as running until it has answered.
OneWorker(w) ==
    /\ w \notin twins
    /\ \A n \in Attempts :
           /\ job[<<w, n>>].claim \in {0, n}
           /\ job[<<w, n>>].pc \in InQueue =>
                  /\ n = last[w] /\ att[<<w, n>>] = "running" /\ file[w] = 0 /\ status[w] = "open"
                  /\ sched \notin {For("stage", w), For("launch", w), For("mark", w)}
                  /\ backend = "local" => leases[w] = n
    /\ sched # For("stage", w) => manifest[w] = last[w]
    /\ Launching(w) => att[<<w, last[w]>>] = "running" /\ status[w] = "open"
    /\ sched \in {For("stage", w), For("launch", w), For("mark", w)} => file[w] = 0
    /\ file[w] # 0 => last[w] > 0 /\ att[<<w, last[w]>>] = "running" /\ status[w] = "open"
    /\ ledger[w].job # 0 /\ ~Launching(w) => ledger[w].job = last[w]

\* A work that never had two live workers: what has the temporary name is what
\* its worker writes, and it is not what has the other.
OneWriter(w) ==
    /\ \A m, n \in Attempts : job[<<w, m>>].pc \in Live /\ job[<<w, n>>].pc \in Live => m = n
    /\ \A n \in Attempts :
           /\ job[<<w, n>>].pc # "raised"
           /\ job[<<w, n>>].pc \in {"fill", "replace"} =>
                  tmp[w] # 0 /\ job[<<w, n>>].on = tmp[w]
           /\ job[<<w, n>>].pc = "fill" => content[w][tmp[w]] = Empty
           /\ job[<<w, n>>].pc = "replace" => content[w][tmp[w]].whole
    /\ tmp[w] # 0 => tmp[w] # file[w]
    /\ file[w] # 0 => content[w][file[w]].whole

\* A core that was leased has had a worker, and works that nobody crashed upon
\* have cores of their own.
CoresOK ==
    backend = "local" =>
        /\ \A w \in Work : leases[w] # 0 => job[<<w, leases[w]>>].pc # "none"
        /\ Cores >= Cardinality(Work) =>
               \A j, k \in Jobs : /\ j[1] # k[1] /\ {j[1], k[1]} \cap hurt = {}
                                  /\ job[j].pc \in InQueue /\ job[k].pc \in InQueue
                                  => job[j].pin # job[k].pin

IInv == /\ TypeOK /\ BoardOK /\ CoresOK
        /\ \A w \in Work \ hurt : OneWorker(w)
        /\ \A w \in Work \ twins : OneWriter(w)

--------------------------------------------------------------------------------
\* A job is named by its work and its attempt, and the name gives both back.
LEMMA JobIs ==
    /\ \A w \in Work, n \in Attempts : <<w, n>> \in Jobs /\ <<w, n>>[1] = w /\ <<w, n>>[2] = n
    /\ \A j \in Jobs : j[1] \in Work /\ j[2] \in Attempts /\ j = <<j[1], j[2]>>
BY DEF Jobs

\* What the constants' assumption says of attempts, cores and inodes, as numbers.
LEMMA NumbersAre ==
    /\ MaxAttempts \in Nat /\ Cores \in Nat \ {0}
    /\ \A n \in Attempts : n \in 1..MaxAttempts /\ n \in 0..MaxAttempts /\ n # 0
    /\ \A n \in 0..MaxAttempts : n # 0 => n \in Attempts
    /\ \A i \in Inodes : i # 0
BY TransportAssumption DEF TransportConstants, Attempts, Inodes

JobRecord == [pc : {"none", "queued", "run", "fill", "replace", "raised", "held", "gone"},
              claim : 0 .. MaxAttempts, pin : 0 .. Cores,
              says : {"none", "ok", "failed"}, on : {0} \union Inodes]

\* The records a job, a board entry and a file start from or end as are of their types.
LEMMA RecordsAre ==
    /\ NoJob.pc = "none" /\ NoJob.claim = 0 /\ NoJob \in JobRecord
    /\ Gone.pc = "gone" /\ Gone.claim = 0 /\ Gone \in JobRecord
    /\ \A to \in {"gone", "held"} : /\ [NoJob EXCEPT !.pc = to].pc = to
                                    /\ [NoJob EXCEPT !.pc = to].claim = 0
                                    /\ [NoJob EXCEPT !.pc = to] \in JobRecord
    /\ \A p \in 0..Cores : /\ [NoJob EXCEPT !.pc = "queued", !.pin = p].pc = "queued"
                           /\ [NoJob EXCEPT !.pc = "queued", !.pin = p].claim = 0
                           /\ [NoJob EXCEPT !.pc = "queued", !.pin = p].pin = p
                           /\ [NoJob EXCEPT !.pc = "queued", !.pin = p] \in JobRecord
    /\ NoEntry.job = 0 /\ NoEntry.gone = "no"
    /\ Empty.whole = FALSE /\ Empty.says = "none"
<1>1. NoJob.pc = "none" /\ NoJob.claim = 0 /\ NoJob \in JobRecord
  BY NumbersAre DEF NoJob, JobRecord
<1>2. Gone.pc = "gone" /\ Gone.claim = 0 /\ Gone \in JobRecord
  BY NumbersAre DEF NoJob, Gone, JobRecord
<1>3. \A to \in {"gone", "held"} : /\ [NoJob EXCEPT !.pc = to].pc = to
                                   /\ [NoJob EXCEPT !.pc = to].claim = 0
                                   /\ [NoJob EXCEPT !.pc = to] \in JobRecord
  BY NumbersAre DEF NoJob, JobRecord
<1>4. \A p \in 0..Cores : /\ [NoJob EXCEPT !.pc = "queued", !.pin = p].pc = "queued"
                          /\ [NoJob EXCEPT !.pc = "queued", !.pin = p].claim = 0
                          /\ [NoJob EXCEPT !.pc = "queued", !.pin = p].pin = p
                          /\ [NoJob EXCEPT !.pc = "queued", !.pin = p] \in JobRecord
  <2>1. \A r \in JobRecord, p \in 0..Cores : /\ [r EXCEPT !.pc = "queued", !.pin = p].pc = "queued"
                         /\ [r EXCEPT !.pc = "queued", !.pin = p].claim = r.claim
                         /\ [r EXCEPT !.pc = "queued", !.pin = p].pin = p
                         /\ [r EXCEPT !.pc = "queued", !.pin = p] \in JobRecord
    BY DEF JobRecord
  <2>. QED BY <1>1, <2>1
<1>5. NoEntry.job = 0 /\ NoEntry.gone = "no" /\ Empty.whole = FALSE /\ Empty.says = "none"
  BY DEF NoEntry, Empty
<1>. QED BY <1>1, <1>2, <1>3, <1>4, <1>5

\* A live job is in its queue, and a job that is only queued or held is not live.
LEMMA StagesAre ==
    /\ \A x \in InQueue : x \notin {"none", "gone"}
    /\ \A x \in Live : x \in InQueue /\ x \notin {"none", "gone", "queued", "held"}
    /\ \A x \in Waiting \cup Live : x \in InQueue
    /\ Waiting = {"queued"} /\ {"queued", "held"} \subseteq InQueue
    /\ {"run", "fill", "replace", "raised"} \subseteq Live
BY DEF InQueue, Live, Waiting

\* What a step of a worker leaves of its record.
Booted(r, c) == [r EXCEPT !.pc = "run", !.claim = c]
Opened(r, i, x) == [r EXCEPT !.pc = "fill", !.on = i, !.says = x]

\* A job that boots runs on the claim it read and keeps its pin (the worker's main).
LEMMA BootedIs ==
    ASSUME NEW r \in JobRecord, NEW c \in 0..MaxAttempts
    PROVE  /\ Booted(r, c) \in JobRecord /\ Booted(r, c).pc = "run"
           /\ Booted(r, c).claim = c /\ Booted(r, c).pin = r.pin
BY DEF JobRecord, Booted

\* A job that opens its temporary file keeps its claim and its pin (_atomic_json).
LEMMA OpenedIs ==
    ASSUME NEW r \in JobRecord, NEW i \in Inodes, NEW x \in {"ok", "failed"}
    PROVE  /\ Opened(r, i, x) \in JobRecord /\ Opened(r, i, x).pc = "fill"
           /\ Opened(r, i, x).claim = r.claim /\ Opened(r, i, x).pin = r.pin
           /\ Opened(r, i, x).on = i
BY DEF JobRecord, Opened

\* Replacing the report and raising leave a job's claim and pin alone.
LEMMA UpdatesAre ==
    /\ \A r \in JobRecord :
           LET q == [r EXCEPT !.pc = "replace"] IN
           q \in JobRecord /\ q.pc = "replace" /\ q.claim = r.claim /\ q.pin = r.pin /\ q.on = r.on
    /\ \A r \in JobRecord :
           LET q == [r EXCEPT !.pc = "raised", !.on = 0] IN
           q \in JobRecord /\ q.pc = "raised" /\ q.claim = r.claim /\ q.pin = r.pin /\ q.on = 0
BY DEF JobRecord

\* What the scheduler is in the middle of.
LEMMA SchedIs ==
    /\ Idle.do = "idle"
    /\ \A x, v : For(x, v).do = x /\ For(x, v).work = v
    /\ \A x, v : Idle # For(x, v)
    /\ \A x, y, v, w : For(x, v) = For(y, w) <=> x = y /\ v = w
<1>1. Idle.do = "idle" /\ \A x, v : For(x, v).do = x /\ For(x, v).work = v
  BY DEF Idle, For
<1>2. \A x, v : DOMAIN For(x, v) = {"do", "work"}
  BY DEF For
<1>3. DOMAIN Idle = {"do"}
  BY DEF Idle
<1>4. \A x, v : Idle # For(x, v)
  BY <1>2, <1>3
<1>5. \A x, y, v, w : For(x, v) = For(y, w) <=> x = y /\ v = w
  <2>1. ASSUME NEW x, NEW y, NEW v, NEW w, For(x, v) = For(y, w) PROVE x = y /\ v = w
    <3>1. For(x, v).do = For(y, w).do /\ For(x, v).work = For(y, w).work
      BY <2>1
    <3>. QED BY <1>1, <3>1
  <2>. QED BY <2>1
<1>. QED BY <1>1, <1>4, <1>5

\* Whatever the scheduler is in the middle of, it is so for one piece of work.
LEMMA SchedType ==
    /\ \A x \in {"stage", "launch", "note", "mark"}, w \in Work :
           For(x, w) \in [do : {"stage", "launch", "note", "mark"}, work : Work]
    /\ TypeOK => \A x \in {"stage", "launch", "note", "mark"} :
                     sched.do = x => sched.work \in Work /\ sched = For(x, sched.work)
    /\ TypeOK /\ sched # Idle => /\ sched.work \in Work
                                 /\ sched.do \in {"stage", "launch", "note", "mark"}
<1>1. \A s \in [do : {"stage", "launch", "note", "mark"}, work : Work] : s = For(s.do, s.work)
  BY DEF For
<1>2. \A x \in {"stage", "launch", "note", "mark"}, w \in Work :
           For(x, w) \in [do : {"stage", "launch", "note", "mark"}, work : Work]
  BY DEF For
<1>3. TypeOK /\ sched # Idle => sched \in [do : {"stage", "launch", "note", "mark"}, work : Work]
  BY DEF TypeOK
<1>. QED BY <1>1, <1>2, <1>3, SchedIs

\* Of two files that have a name and those that are open one is left to be had.
LEMMA FreshIs ==
    ASSUME TypeOK, NEW w \in Work
    PROVE  /\ Fresh(w) \in Inodes /\ Fresh(w) # tmp[w] /\ Fresh(w) # file[w]
           /\ \A n \in Attempts : job[<<w, n>>].on # Fresh(w)
<1>. DEFINE F(i) == i # tmp[w] /\ i # file[w] /\ \A n \in Attempts : job[<<w, n>>].on # i
<1>1. \E i \in Inodes : F(i)
  <2>1. SUFFICES ASSUME \A i \in Inodes : ~F(i) PROVE FALSE
    OBVIOUS
  <2>. DEFINE H(i) == CHOOSE n \in Attempts : job[<<w, n>>].on = i
              T == 1 .. (MaxAttempts + 2)
              f == [i \in Inodes |-> IF i = tmp[w] THEN MaxAttempts + 1
                                     ELSE IF i = file[w] THEN MaxAttempts + 2 ELSE H(i)]
  <2>2. ASSUME NEW i \in Inodes, i # tmp[w], i # file[w]
        PROVE  H(i) \in Attempts /\ job[<<w, H(i)>>].on = i
    BY <2>1, <2>2
  <2>3. \A i \in Inodes : f[i] \in T
    <3>1. MaxAttempts + 1 \in T /\ MaxAttempts + 2 \in T /\ \A n \in Attempts : n \in T
      BY NumbersAre DEF Attempts
    <3>. HIDE DEF H, T
    <3>. QED BY <2>2, <3>1
  <2>4. IsFiniteSet(Inodes) /\ IsFiniteSet(T) /\ Cardinality(T) < Cardinality(Inodes)
    <3>1. MaxAttempts + 2 \in Int /\ MaxAttempts + 3 \in Int /\ 1 \in Int
      BY NumbersAre
    <3>2. /\ IsFiniteSet(1 .. (MaxAttempts + 2)) /\ Cardinality(1 .. (MaxAttempts + 2)) = MaxAttempts + 2
          /\ IsFiniteSet(1 .. (MaxAttempts + 3)) /\ Cardinality(1 .. (MaxAttempts + 3)) = MaxAttempts + 3
      BY <3>1, FS_Interval, NumbersAre
    <3>. QED BY <3>2, NumbersAre DEF Inodes
  <2>5. f \in [Inodes -> T]
    <3>. HIDE DEF H, T
    <3>. QED BY <2>3
  <2>. HIDE DEF f, T
  <2>6. PICK x, y \in Inodes : x # y /\ f[x] = f[y]
    BY <2>4, <2>5, FS_PigeonHole
  <2>7. \A i \in Inodes : /\ i = tmp[w] => f[i] = MaxAttempts + 1
                          /\ i # tmp[w] /\ i = file[w] => f[i] = MaxAttempts + 2
                          /\ i # tmp[w] /\ i # file[w] => f[i] \in 1..MaxAttempts /\ job[<<w, f[i]>>].on = i
    <3>1. \A i \in Inodes : i # tmp[w] /\ i # file[w] => f[i] = H(i)
      BY DEF f
    <3>2. \A i \in Inodes : /\ i = tmp[w] => f[i] = MaxAttempts + 1
                            /\ i # tmp[w] /\ i = file[w] => f[i] = MaxAttempts + 2
      BY DEF f
    <3>. HIDE DEF H
    <3>. QED BY <2>2, <3>1, <3>2, NumbersAre
  <2>8. f[x] # MaxAttempts + 1 /\ f[x] # MaxAttempts + 2
    <3>1. MaxAttempts + 2 # MaxAttempts + 1
          /\ MaxAttempts + 1 \notin 1..MaxAttempts /\ MaxAttempts + 2 \notin 1..MaxAttempts
      BY NumbersAre
    <3>2. ASSUME NEW i \in Inodes, f[i] = MaxAttempts + 1 PROVE i = tmp[w]
      BY <2>7, <3>1, <3>2
    <3>3. ASSUME NEW i \in Inodes, f[i] = MaxAttempts + 2 PROVE i = file[w]
      BY <2>7, <3>1, <3>3
    <3>. QED BY <2>6, <3>2, <3>3
  <2>9. job[<<w, f[x]>>].on = x /\ job[<<w, f[y]>>].on = y
    BY <2>6, <2>7, <2>8
  <2>. QED BY <2>6, <2>9
<1>. QED BY <1>1 DEF Fresh

--------------------------------------------------------------------------------
FileRecord == [whole : BOOLEAN, says : {"none", "ok", "failed", "torn"}]

\* What the type invariant says of the rows and files of one piece of work.
LEMMA TypesAre ==
    ASSUME TypeOK, NEW w \in Work
    PROVE  /\ last[w] \in 0..MaxAttempts /\ leases[w] \in 0..MaxAttempts
           /\ last[w] # 0 => last[w] \in Attempts
           /\ leases[w] # 0 => leases[w] \in Attempts
           /\ ledger[w].job \in 0..MaxAttempts /\ ledger[w].gone \in {"no", "since", "over"}
           /\ ledger[w].job # 0 => ledger[w].job \in Attempts
           /\ tmp[w] # 0 => tmp[w] \in Inodes
           /\ file[w] # 0 => file[w] \in Inodes
           /\ content[w] \in [Inodes -> FileRecord]
           /\ \A n \in Attempts : job[<<w, n>>] \in JobRecord
BY NumbersAre, JobIs DEF TypeOK, JobRecord, FileRecord

\* A work's own state, when a step is about another, or only its job gets on.
Undertaken(w) == sched \in {For("stage", w), For("launch", w), For("note", w), For("mark", w)}

\* A step that leaves the rows of a work alone, and starts no job of it, keeps its one worker.
LEMMA WorkerFrame ==
    ASSUME TypeOK, BoardOK, NEW w \in Work, OneWorker(w), w \notin twins', backend' = backend,
           last'[w] = last[w], manifest'[w] = manifest[w], ledger'[w].job = ledger[w].job,
           file'[w] = file[w], status'[w] = status[w],
           leases'[w] = leases[w] \/ leases[w] = 0 \/ job[<<w, leases[w]>>].pc \notin InQueue,
           \A n \in Attempts : /\ att'[<<w, n>>] = att[<<w, n>>]
                               /\ job'[<<w, n>>].claim \in {0, job[<<w, n>>].claim}
                               /\ job'[<<w, n>>].pc \in InQueue => job[<<w, n>>].pc \in InQueue,
           sched' = sched \/ (~Undertaken(w) /\ ~Undertaken(w)')
    PROVE  OneWorker(w)'
<1>1. last[w] # 0 => last[w] \in Attempts
  BY TypesAre
<1>2. Launching(w) => last[w] # 0
  BY TypesAre DEF BoardOK
<1>3. Launching(w)' = Launching(w)
      /\ \A x \in {"stage", "launch", "note", "mark"} : (sched' = For(x, w)) = (sched = For(x, w))
  <2>1. Launching(w) => Undertaken(w)
    BY DEF Launching, Undertaken
  <2>2. Launching(w)' => Undertaken(w)'
    BY DEF Launching, Undertaken
  <2>. QED BY <2>1, <2>2 DEF Launching, Undertaken
<1>4. last[w] # 0 => att'[<<w, last[w]>>] = att[<<w, last[w]>>]
  BY <1>1
<1>5. ASSUME NEW n \in Attempts
      PROVE  /\ job'[<<w, n>>].claim \in {0, n}
             /\ job'[<<w, n>>].pc \in InQueue =>
                  /\ n = last[w] /\ att'[<<w, n>>] = "running" /\ file'[w] = 0 /\ status'[w] = "open"
                  /\ sched' \notin {For("stage", w), For("launch", w), For("mark", w)}
                  /\ backend' = "local" => leases'[w] = n
  <2>1. job'[<<w, n>>].claim \in {0, n}
    BY DEF OneWorker
  <2>2. ASSUME job'[<<w, n>>].pc \in InQueue
        PROVE  /\ n = last[w] /\ att'[<<w, n>>] = "running" /\ file'[w] = 0 /\ status'[w] = "open"
               /\ sched' \notin {For("stage", w), For("launch", w), For("mark", w)}
               /\ backend' = "local" => leases'[w] = n
    <3>1. /\ n = last[w] /\ att[<<w, n>>] = "running" /\ file[w] = 0 /\ status[w] = "open"
          /\ sched \notin {For("stage", w), For("launch", w), For("mark", w)}
          /\ backend = "local" => leases[w] = n
          /\ job[<<w, n>>].pc \in InQueue
      BY <2>2 DEF OneWorker
    <3>2. backend' = "local" => leases'[w] = n
      BY <3>1, NumbersAre
    <3>. QED BY <1>3, <3>1, <3>2
  <2>. QED BY <2>1, <2>2
<1>6. sched' # For("stage", w) => manifest'[w] = last'[w]
  BY <1>3 DEF OneWorker
<1>7. Launching(w)' => att'[<<w, last'[w]>>] = "running" /\ status'[w] = "open"
  BY <1>2, <1>3, <1>4 DEF OneWorker
<1>8. sched' \in {For("stage", w), For("launch", w), For("mark", w)} => file'[w] = 0
  BY <1>3 DEF OneWorker
<1>9. file'[w] # 0 => last'[w] > 0 /\ att'[<<w, last'[w]>>] = "running" /\ status'[w] = "open"
  <2>1. file[w] # 0 => last[w] > 0 /\ last[w] # 0
    BY DEF OneWorker
  <2>. QED BY <1>4, <2>1 DEF OneWorker
<1>10. ledger'[w].job # 0 /\ ~Launching(w)' => ledger'[w].job = last'[w]
  BY <1>3 DEF OneWorker
<1>. QED BY <1>5, <1>6, <1>7, <1>8, <1>9, <1>10 DEF OneWorker

\* A step that leaves the files of a work alone, and starts no writer, keeps its one writer.
LEMMA WriterFrame ==
    ASSUME NEW w \in Work, OneWriter(w),
           tmp'[w] = tmp[w], file'[w] = file[w], content'[w] = content[w],
           \A n \in Attempts : job'[<<w, n>>] = job[<<w, n>>] \/ job'[<<w, n>>].pc \notin Live
    PROVE  OneWriter(w)'
<1>1. \A n \in Attempts : job'[<<w, n>>].pc \in Live => job'[<<w, n>>] = job[<<w, n>>]
  OBVIOUS
<1>2. \A x \in {"fill", "replace", "raised"} : x \in Live
  BY StagesAre
<1>3. \A m, n \in Attempts : job'[<<w, m>>].pc \in Live /\ job'[<<w, n>>].pc \in Live => m = n
  BY <1>1 DEF OneWriter
<1>4. ASSUME NEW n \in Attempts
      PROVE  /\ job'[<<w, n>>].pc # "raised"
             /\ job'[<<w, n>>].pc \in {"fill", "replace"} =>
                  tmp'[w] # 0 /\ job'[<<w, n>>].on = tmp'[w]
             /\ job'[<<w, n>>].pc = "fill" => content'[w][tmp'[w]] = Empty
             /\ job'[<<w, n>>].pc = "replace" => content'[w][tmp'[w]].whole
  <2>1. CASE job'[<<w, n>>].pc \notin Live
    BY <1>2, <2>1
  <2>2. CASE job'[<<w, n>>] = job[<<w, n>>]
    BY <2>2 DEF OneWriter
  <2>. QED BY <2>1, <2>2
<1>. QED BY <1>3, <1>4 DEF OneWriter

\* A step that only ends jobs and leases keeps the pins of the local pool apart.
LEMMA CoresFrame ==
    ASSUME TypeOK, CoresOK, backend' = backend, hurt \subseteq hurt',
           \A w \in Work : leases'[w] \in {0, leases[w]},
           backend = "local" =>
               \A j \in Jobs : /\ job'[j].pc \in InQueue => job[j].pc \in InQueue /\ job'[j].pin = job[j].pin
                               /\ job[j].pc # "none" => job'[j].pc # "none"
    PROVE  CoresOK'
<1>. SUFFICES ASSUME backend = "local" PROVE CoresOK'
  BY DEF CoresOK
<1>1. ASSUME NEW w \in Work, leases'[w] # 0 PROVE job'[<<w, leases'[w]>>].pc # "none"
  <2>1. leases'[w] = leases[w] /\ <<w, leases[w]>> \in Jobs
    BY <1>1, TypesAre, JobIs
  <2>. QED BY <1>1, <2>1 DEF CoresOK
<1>2. ASSUME Cores >= Cardinality(Work), NEW j \in Jobs, NEW k \in Jobs, j[1] # k[1],
             {j[1], k[1]} \cap hurt' = {}, job'[j].pc \in InQueue, job'[k].pc \in InQueue
      PROVE  job'[j].pin # job'[k].pin
  <2>1. {j[1], k[1]} \cap hurt = {}
    BY <1>2
  <2>. QED BY <1>2, <2>1 DEF CoresOK
<1>. QED BY <1>1, <1>2 DEF CoresOK

--------------------------------------------------------------------------------
\* A step of one worker, or the end of one.
LEMMA JobStep ==
    ASSUME IInv, NEW w \in Work, NEW n \in Attempts, job[<<w, n>>].pc \in InQueue,
           NEW r \in JobRecord, job' = [job EXCEPT ![<<w, n>>] = r],
           r.pc # "none", r.pc = "held" => backend = "condor",
           backend = "local" /\ r.pc \in InQueue => r.pin = job[<<w, n>>].pin,
           tmp' \in [Work -> {0} \cup Inodes], file' \in [Work -> {0} \cup Inodes],
           content' \in [Work -> [Inodes -> FileRecord]],
           \A v \in Work \ {w} : tmp'[v] = tmp[v] /\ file'[v] = file[v] /\ content'[v] = content[v],
           twins \subseteq twins', twins' \subseteq twins \cup {w}, left' \in Nat,
           UNCHANGED <<backend, board, manifest, leases, ledger, hurt, unseen>>,
           w \notin hurt => OneWorker(w)',
           w \notin twins' => OneWriter(w)'
    PROVE  IInv'
<1>. USE DEF board
<1>1. TypeOK /\ BoardOK /\ CoresOK /\ <<w, n>> \in Jobs
  BY JobIs DEF IInv
<1>2. /\ \A j \in Jobs : j # <<w, n>> => job'[j] = job[j]
      /\ job'[<<w, n>>] = r
  BY <1>1 DEF TypeOK
<1>3. TypeOK'
  <2>1. job' \in [Jobs -> JobRecord]
    BY <1>1 DEF TypeOK, JobRecord
  <2>2. twins' \subseteq Work
    BY <1>1 DEF TypeOK
  <2>. QED BY <1>1, <2>1, <2>2 DEF TypeOK, JobRecord, FileRecord
<1>4. BoardOK'
  <2>1. backend = "local" => \A j \in Jobs : job'[j].pc # "held"
    BY <1>1, <1>2 DEF BoardOK
  <2>. QED BY <1>1, <2>1 DEF BoardOK, Launching
<1>5. CoresOK'
  <2>1. backend = "local" =>
            \A j \in Jobs : /\ job'[j].pc \in InQueue => job[j].pc \in InQueue /\ job'[j].pin = job[j].pin
                            /\ job[j].pc # "none" => job'[j].pc # "none"
    BY <1>2
  <2>. QED BY <1>1, <2>1, CoresFrame
<1>6. ASSUME NEW v \in Work \ hurt PROVE OneWorker(v)'
  <2>1. CASE v = w
    BY <1>6, <2>1
  <2>2. CASE v # w
    <3>1. OneWorker(v) /\ v \notin twins'
      BY <1>6, <2>2 DEF IInv, OneWorker
    <3>2. \A m \in Attempts : job'[<<v, m>>] = job[<<v, m>>]
      BY <1>2, <2>2, JobIs
    <3>. QED BY <1>1, <2>2, <3>1, <3>2, WorkerFrame
  <2>. QED BY <2>1, <2>2
<1>7. ASSUME NEW v \in Work \ twins' PROVE OneWriter(v)'
  <2>1. CASE v = w
    BY <1>7, <2>1
  <2>2. CASE v # w
    <3>1. \A m \in Attempts : job'[<<v, m>>] = job[<<v, m>>]
      BY <1>2, <2>2, JobIs
    <3>. QED BY <1>7, <2>2, <3>1, WriterFrame DEF IInv
  <2>. QED BY <2>1, <2>2
<1>. QED BY <1>3, <1>4, <1>5, <1>6, <1>7 DEF IInv

\* A worker of a work that was left alone is that of its latest attempt.
LEMMA OnlyWorker ==
    ASSUME IInv, NEW w \in Work \ hurt, NEW m \in Attempts, NEW n \in Attempts,
           job[<<w, m>>].pc \in InQueue, job[<<w, n>>].pc \in InQueue
    PROVE  m = n
<1>1. OneWorker(w)
  BY DEF IInv
<1>2. m = last[w]
  BY <1>1 DEF OneWorker
<1>3. n = last[w]
  BY <1>1 DEF OneWorker
<1>. QED BY <1>2, <1>3

\* A worker that boots and reads the claim keeps the invariant.
LEMMA BootKeeps == ASSUME IInv, NEW w \in Work, NEW n \in Attempts, Boot(w, n) PROVE IInv'
<1>. DEFINE r == Booted(job[<<w, n>>], manifest[w])
<1>1. /\ TypeOK /\ BoardOK /\ job[<<w, n>>] \in JobRecord /\ <<w, n>> \in Jobs
      /\ manifest[w] \in 0..MaxAttempts
  BY TypesAre, JobIs DEF IInv, TypeOK
<1>2. /\ r \in JobRecord /\ r.pc = "run" /\ r.claim = manifest[w] /\ r.pin = job[<<w, n>>].pin
      /\ job' = [job EXCEPT ![<<w, n>>] = r]
      /\ job[<<w, n>>].pc = "queued" /\ job[<<w, n>>].pc \in InQueue /\ "run" \in Live
      /\ UNCHANGED <<backend, board, manifest, leases, ledger, disk, hurt, unseen, left>>
      /\ twins' = IF LiveOf(w) = {} THEN twins ELSE twins \cup {w}
  <2>1. r \in JobRecord /\ r.pc = "run" /\ r.claim = manifest[w] /\ r.pin = job[<<w, n>>].pin
    BY <1>1, BootedIs
  <2>2. job' = [job EXCEPT ![<<w, n>>] = r]
    <3>1. <<w, n>> \in DOMAIN job
      BY <1>1 DEF TypeOK
    <3>. QED BY <3>1 DEF Boot, Booted
  <2>3. /\ job[<<w, n>>].pc = "queued"
        /\ UNCHANGED <<backend, board, manifest, leases, ledger, disk, hurt, unseen, left>>
        /\ twins' = IF LiveOf(w) = {} THEN twins ELSE twins \cup {w}
    BY DEF Boot
  <2>. HIDE DEF r
  <2>. QED BY <2>1, <2>2, <2>3, StagesAre
<1>. HIDE DEF r
<1>3. /\ job'[<<w, n>>] = r /\ \A m \in Attempts \ {n} : job'[<<w, m>>] = job[<<w, m>>]
  BY <1>1, <1>2, JobIs DEF TypeOK
<1>4. ASSUME w \notin hurt PROVE OneWorker(w)'
  <2>1. OneWorker(w)
    BY <1>4 DEF IInv
  <2>2. n = last[w] /\ sched # For("stage", w)
    BY <1>2, <2>1 DEF OneWorker
  <2>3. manifest[w] = n
    BY <2>1, <2>2 DEF OneWorker
  <2>4. LiveOf(w) = {}
    <3>1. ASSUME NEW m \in Attempts, job[<<w, m>>].pc \in Live PROVE FALSE
      BY <1>2, <1>4, <3>1, OnlyWorker, StagesAre
    <3>. QED BY <3>1 DEF LiveOf
  <2>5. w \notin twins'
    BY <1>2, <2>1, <2>4 DEF OneWorker
  <2>6. ASSUME NEW m \in Attempts
        PROVE  /\ job'[<<w, m>>].claim \in {0, m}
               /\ job'[<<w, m>>].pc \in InQueue => job[<<w, m>>].pc \in InQueue
    BY <1>2, <1>3, <2>1, <2>3 DEF OneWorker
  <2>. QED BY <1>2, <2>1, <2>5, <2>6 DEF OneWorker, board, disk, Launching
<1>5. ASSUME w \notin twins' PROVE OneWriter(w)'
  <2>1. OneWriter(w) /\ LiveOf(w) = {}
    BY <1>2, <1>5 DEF IInv
  <2>2. \A m \in Attempts \ {n} : job'[<<w, m>>].pc \notin Live
    BY <1>3, <2>1 DEF LiveOf
  <2>3. \A x \in {"fill", "replace", "raised"} : x \in Live /\ x # "run"
    BY StagesAre
  <2>4. \A m \in Attempts : job'[<<w, m>>].pc \notin {"fill", "replace", "raised"}
    BY <1>2, <1>3, <2>2, <2>3
  <2>. QED BY <1>2, <2>1, <2>2, <2>4 DEF OneWriter, disk
<1>6. /\ tmp' \in [Work -> {0} \cup Inodes] /\ file' \in [Work -> {0} \cup Inodes]
      /\ content' \in [Work -> [Inodes -> FileRecord]] /\ left' \in Nat
  BY <1>1, <1>2 DEF TypeOK, disk, FileRecord
<1>. QED BY <1>2, <1>4, <1>5, <1>6, JobStep DEF disk

\* A worker that opens its temporary file keeps the invariant (_atomic_json).
LEMMA OpenKeeps == ASSUME IInv, NEW w \in Work, NEW n \in Attempts, Open(w, n) PROVE IInv'
<1>. DEFINE i == IF tmp[w] = 0 THEN Fresh(w) ELSE tmp[w]
<1>1. /\ TypeOK /\ BoardOK /\ job[<<w, n>>] \in JobRecord /\ <<w, n>> \in Jobs
      /\ content[w] \in [Inodes -> FileRecord] /\ i \in Inodes /\ i # 0 /\ Empty \in FileRecord
  <2>1. Empty \in FileRecord
    BY DEF Empty, FileRecord
  <2>. QED BY <2>1, TypesAre, JobIs, FreshIs, NumbersAre DEF IInv
<1>2. PICK says \in {"ok", "failed"} :
         /\ tmp' = [tmp EXCEPT ![w] = i]
         /\ content' = [content EXCEPT ![w][i] = Empty]
         /\ job' = [job EXCEPT ![<<w, n>>] = [@ EXCEPT !.pc = "fill", !.on = i, !.says = says]]
  BY DEF Open, Says
<1>. DEFINE r == Opened(job[<<w, n>>], i, says)
<1>3. /\ job[<<w, n>>].pc \in {"run", "raised"}
      /\ UNCHANGED <<backend, board, manifest, leases, ledger, file, history>>
  BY DEF Open
<1>4. (i # file[w] /\ ((tmp[w] # 0 /\ tmp[w] # file[w]) \/ i = Fresh(w))) \/ w \in twins
  BY <1>1, FreshIs DEF IInv, OneWriter
<1>. HIDE DEF i
<1>5. /\ r \in JobRecord /\ r.pc = "fill" /\ r.claim = job[<<w, n>>].claim
      /\ r.pin = job[<<w, n>>].pin /\ r.on = i /\ job' = [job EXCEPT ![<<w, n>>] = r]
  <2>1. /\ r \in JobRecord /\ r.pc = "fill" /\ r.claim = job[<<w, n>>].claim
        /\ r.pin = job[<<w, n>>].pin /\ r.on = i
    BY <1>1, OpenedIs
  <2>2. job' = [job EXCEPT ![<<w, n>>] = r]
    <3>1. <<w, n>> \in DOMAIN job
      BY <1>1 DEF TypeOK
    <3>. QED BY <1>2, <3>1 DEF Opened
  <2>. QED BY <2>1, <2>2
<1>. HIDE DEF r
<1>6. job[<<w, n>>].pc \in InQueue /\ job[<<w, n>>].pc \in Live /\ "fill" \in InQueue /\ "fill" \in Live
  BY <1>3, StagesAre
<1>7. /\ job'[<<w, n>>] = r /\ \A m \in Attempts \ {n} : job'[<<w, m>>] = job[<<w, m>>]
      /\ tmp'[w] = i /\ content'[w][i] = Empty
      /\ \A k \in Inodes \ {i} : content'[w][k] = content[w][k]
      /\ \A v \in Work \ {w} : tmp'[v] = tmp[v] /\ content'[v] = content[v]
  BY <1>1, <1>2, <1>5, JobIs DEF TypeOK
<1>8. ASSUME w \notin hurt PROVE OneWorker(w)'
  <2>1. OneWorker(w) /\ w \notin twins'
    BY <1>3, <1>8 DEF IInv, OneWorker, history
  <2>2. \A m \in Attempts : /\ job'[<<w, m>>].claim \in {0, job[<<w, m>>].claim}
                            /\ job'[<<w, m>>].pc \in InQueue => job[<<w, m>>].pc \in InQueue
    BY <1>5, <1>6, <1>7
  <2>. QED BY <1>1, <1>3, <2>1, <2>2, WorkerFrame DEF board
<1>9. ASSUME w \notin twins' PROVE OneWriter(w)'
  <2>1. OneWriter(w) /\ i # file[w]
    BY <1>3, <1>4, <1>9 DEF IInv, history
  <2>2. \A m \in Attempts \ {n} : job'[<<w, m>>].pc \notin Live
    BY <1>6, <1>7, <2>1 DEF OneWriter
  <2>3. \A x \in {"fill", "replace", "raised"} : x \in Live
    BY StagesAre
  <2>4. file[w] # 0 => content'[w][file[w]] = content[w][file[w]]
    BY <1>1, <1>7, <2>1, TypesAre
  <2>5. \A m \in Attempts \ {n} : job'[<<w, m>>].pc \notin {"fill", "replace", "raised"}
    BY <2>2, <2>3
  <2>6. \A m, k \in Attempts : job'[<<w, m>>].pc \in Live /\ job'[<<w, k>>].pc \in Live => m = k
    BY <2>2
  <2>. QED BY <1>1, <1>3, <1>5, <1>7, <2>1, <2>4, <2>5, <2>6 DEF OneWriter
<1>10. /\ tmp' \in [Work -> {0} \cup Inodes] /\ file' \in [Work -> {0} \cup Inodes]
       /\ content' \in [Work -> [Inodes -> FileRecord]] /\ left' \in Nat
       /\ twins' = twins /\ hurt' = hurt /\ unseen' = unseen
  <2>1. tmp' \in [Work -> {0} \cup Inodes]
    BY <1>1, <1>2 DEF TypeOK
  <2>2. content' \in [Work -> [Inodes -> FileRecord]]
    BY <1>1, <1>2 DEF TypeOK, FileRecord
  <2>. QED BY <1>1, <1>3, <2>1, <2>2 DEF TypeOK, history
<1>. QED BY <1>3, <1>5, <1>6, <1>7, <1>8, <1>9, <1>10, JobStep

\* A worker that fills its temporary file keeps the invariant (_atomic_json).
LEMMA FillKeeps == ASSUME IInv, NEW w \in Work, NEW n \in Attempts, Fill(w, n) PROVE IInv'
<1>. DEFINE i == job[<<w, n>>].on
            r == [job[<<w, n>>] EXCEPT !.pc = "replace"]
<1>1. /\ TypeOK /\ BoardOK /\ job[<<w, n>>] \in JobRecord /\ <<w, n>> \in Jobs
      /\ content[w] \in [Inodes -> FileRecord] /\ i \in {0} \cup Inodes
      /\ job[<<w, n>>].says \in {"none", "ok", "failed"}
  BY TypesAre, JobIs DEF IInv, JobRecord
<1>2. PICK whole \in BOOLEAN :
         /\ content[w][i] = Empty => whole
         /\ content' = [content EXCEPT ![w][i] =
                            [whole |-> whole, says |-> IF whole THEN job[<<w, n>>].says ELSE "torn"]]
  BY DEF Fill
<1>3. /\ job[<<w, n>>].pc = "fill"
      /\ job' = [job EXCEPT ![<<w, n>>] = r]
      /\ UNCHANGED <<backend, board, manifest, leases, ledger, tmp, file, history>>
  BY <1>1 DEF Fill, TypeOK
<1>4. /\ r \in JobRecord /\ r.pc = "replace" /\ r.claim = job[<<w, n>>].claim
      /\ r.pin = job[<<w, n>>].pin /\ r.on = i
  BY <1>1, UpdatesAre
<1>. DEFINE f == [whole |-> whole, says |-> IF whole THEN job[<<w, n>>].says ELSE "torn"]
<1>5. f \in FileRecord /\ f.whole = whole /\ content' = [content EXCEPT ![w][i] = f]
  BY <1>1, <1>2 DEF FileRecord
<1>. HIDE DEF r, i, f
<1>6. job[<<w, n>>].pc \in InQueue /\ job[<<w, n>>].pc \in Live /\ "replace" \in InQueue /\ "replace" \in Live
  BY <1>3, StagesAre
<1>7. /\ job'[<<w, n>>] = r /\ \A m \in Attempts \ {n} : job'[<<w, m>>] = job[<<w, m>>]
      /\ i \in Inodes => content'[w][i] = f
      /\ \A k \in Inodes \ {i} : content'[w][k] = content[w][k]
      /\ \A v \in Work \ {w} : content'[v] = content[v]
  BY <1>1, <1>3, <1>5, JobIs DEF TypeOK
<1>8. ASSUME w \notin hurt PROVE OneWorker(w)'
  <2>1. OneWorker(w) /\ w \notin twins'
    BY <1>3, <1>8 DEF IInv, OneWorker, history
  <2>2. \A m \in Attempts : /\ job'[<<w, m>>].claim \in {0, job[<<w, m>>].claim}
                            /\ job'[<<w, m>>].pc \in InQueue => job[<<w, m>>].pc \in InQueue
    BY <1>4, <1>6, <1>7
  <2>. QED BY <1>1, <1>3, <2>1, <2>2, WorkerFrame DEF board
<1>9. ASSUME w \notin twins' PROVE OneWriter(w)'
  <2>1. OneWriter(w)
    BY <1>3, <1>9 DEF IInv, history
  <2>2. i = tmp[w] /\ tmp[w] # 0 /\ tmp[w] \in Inodes /\ content[w][i] = Empty /\ i # file[w]
    BY <1>1, <1>3, <2>1, TypesAre DEF OneWriter, i
  <2>3. content'[w][tmp[w]].whole
    BY <1>2, <1>5, <1>7, <2>2
  <2>4. \A m \in Attempts \ {n} : job'[<<w, m>>].pc \notin Live
    BY <1>6, <1>7, <2>1 DEF OneWriter
  <2>5. \A x \in {"fill", "replace", "raised"} : x \in Live
    BY StagesAre
  <2>6. file[w] # 0 => content'[w][file[w]] = content[w][file[w]]
    BY <1>1, <1>7, <2>2, TypesAre
  <2>7. \A m \in Attempts \ {n} : job'[<<w, m>>].pc \notin {"fill", "replace", "raised"}
    BY <2>4, <2>5
  <2>8. \A m, k \in Attempts : job'[<<w, m>>].pc \in Live /\ job'[<<w, k>>].pc \in Live => m = k
    BY <2>4
  <2>. QED BY <1>3, <1>4, <1>7, <2>1, <2>2, <2>3, <2>6, <2>7, <2>8 DEF OneWriter
<1>10. /\ tmp' \in [Work -> {0} \cup Inodes] /\ file' \in [Work -> {0} \cup Inodes]
       /\ content' \in [Work -> [Inodes -> FileRecord]] /\ left' \in Nat
       /\ twins' = twins /\ hurt' = hurt /\ unseen' = unseen
  <2>1. content' \in [Work -> [Inodes -> FileRecord]]
    <3>1. content \in [Work -> [Inodes -> FileRecord]]
      BY <1>1 DEF TypeOK, FileRecord
    <3>2. [content[w] EXCEPT ![i] = f] \in [Inodes -> FileRecord]
      BY <1>1, <1>5
    <3>. QED BY <1>5, <3>1, <3>2
  <2>. QED BY <1>1, <1>3, <2>1 DEF TypeOK, history
<1>. QED BY <1>3, <1>4, <1>6, <1>7, <1>8, <1>9, <1>10, JobStep

\* The rename over the report keeps the invariant (_atomic_json).
LEMMA ReplaceKeeps == ASSUME IInv, NEW w \in Work, NEW n \in Attempts, Replace(w, n) PROVE IInv'
<1>1. /\ TypeOK /\ BoardOK /\ job[<<w, n>>] \in JobRecord /\ <<w, n>> \in Jobs
      /\ tmp[w] # 0 => tmp[w] \in Inodes
  BY TypesAre, JobIs DEF IInv
<1>2. /\ job[<<w, n>>].pc = "replace" /\ job[<<w, n>>].pc \in InQueue /\ job[<<w, n>>].pc \in Live
      /\ "gone" \notin InQueue /\ "gone" \notin Live
      /\ UNCHANGED <<backend, board, manifest, leases, ledger, content, history>>
  BY StagesAre DEF Replace
<1>3. CASE tmp[w] # 0
  <2>1. /\ file' = [file EXCEPT ![w] = tmp[w]] /\ tmp' = [tmp EXCEPT ![w] = 0]
        /\ job' = [job EXCEPT ![<<w, n>>] = Gone]
    BY <1>3 DEF Replace
  <2>2. /\ job'[<<w, n>>] = Gone /\ \A m \in Attempts \ {n} : job'[<<w, m>>] = job[<<w, m>>]
        /\ file'[w] = tmp[w] /\ tmp'[w] = 0
        /\ \A v \in Work \ {w} : tmp'[v] = tmp[v] /\ file'[v] = file[v]
    BY <1>1, <2>1, JobIs DEF TypeOK
  <2>3. ASSUME w \notin hurt PROVE OneWorker(w)'
    <3>1. OneWorker(w)
      BY <2>3 DEF IInv
    <3>2. /\ n = last[w] /\ att[<<w, n>>] = "running" /\ status[w] = "open"
          /\ sched \notin {For("stage", w), For("launch", w), For("mark", w)}
      BY <1>2, <3>1 DEF OneWorker
    <3>3. ASSUME NEW m \in Attempts
          PROVE  job'[<<w, m>>].claim \in {0, m} /\ job'[<<w, m>>].pc \notin InQueue
      <4>1. CASE m = n
        BY <1>2, <2>2, <4>1, RecordsAre
      <4>2. CASE m # n
        <5>1. job'[<<w, m>>] = job[<<w, m>>]
          BY <2>2, <4>2
        <5>2. job[<<w, m>>].pc \notin InQueue
          BY <1>2, <2>3, <4>2, OnlyWorker
        <5>3. job[<<w, m>>].claim \in {0, m}
          BY <3>1 DEF OneWorker
        <5>. QED BY <5>1, <5>2, <5>3
      <4>. QED BY <4>1, <4>2
    <3>4. n > 0
      BY NumbersAre
    <3>. QED BY <1>2, <3>1, <3>2, <3>3, <3>4 DEF OneWorker, board, history, Launching
  <2>4. ASSUME w \notin twins' PROVE OneWriter(w)'
    <3>1. OneWriter(w)
      BY <1>2, <2>4 DEF IInv, history
    <3>2. content[w][tmp[w]].whole
      BY <1>2, <3>1 DEF OneWriter
    <3>3. \A m \in Attempts : job'[<<w, m>>].pc \notin Live
      <4>1. ASSUME NEW m \in Attempts, m # n PROVE job'[<<w, m>>].pc \notin Live
        BY <1>2, <2>2, <3>1, <4>1 DEF OneWriter
      <4>2. Gone.pc = "gone"
        BY RecordsAre
      <4>3. job'[<<w, n>>].pc \notin Live
        BY <1>2, <2>2, <4>2
      <4>. QED BY <4>1, <4>3
    <3>4. \A x \in {"fill", "replace", "raised"} : x \in Live
      BY StagesAre
    <3>5. \A m \in Attempts : job'[<<w, m>>].pc \notin {"fill", "replace", "raised"}
      BY <3>3, <3>4
    <3>. QED BY <1>2, <2>2, <3>2, <3>3, <3>5 DEF OneWriter
  <2>5. /\ tmp' \in [Work -> {0} \cup Inodes] /\ file' \in [Work -> {0} \cup Inodes]
        /\ content' \in [Work -> [Inodes -> FileRecord]] /\ left' \in Nat
        /\ twins' = twins /\ hurt' = hurt /\ unseen' = unseen /\ content' = content
    BY <1>1, <1>2, <1>3, <2>1 DEF TypeOK, FileRecord, history
  <2>6. Gone \in JobRecord /\ Gone.pc = "gone"
    BY RecordsAre
  <2>. QED BY <1>2, <2>1, <2>2, <2>3, <2>4, <2>5, <2>6, JobStep
<1>4. CASE tmp[w] = 0
  <2>. DEFINE raised == [job[<<w, n>>] EXCEPT !.pc = "raised", !.on = 0]
  <2>1. PICK r \in {Gone, raised} : job' = [job EXCEPT ![<<w, n>>] = r]
    <3>1. job' = [job EXCEPT ![<<w, n>>] = IF job[<<w, n>>].says = "failed" THEN Gone ELSE raised]
      BY <1>1, <1>4 DEF Replace, TypeOK
    <3>. QED BY <3>1
  <2>2. /\ r \in JobRecord /\ r.pc \in {"gone", "raised"} /\ r.claim \in {0, job[<<w, n>>].claim}
        /\ r.pc = "raised" => r.pin = job[<<w, n>>].pin
    <3>1. CASE r = Gone
      BY <3>1, RecordsAre
    <3>2. CASE r = raised
      <4>1. /\ raised \in JobRecord /\ raised.pc = "raised" /\ raised.claim = job[<<w, n>>].claim
            /\ raised.pin = job[<<w, n>>].pin
        BY <1>1, UpdatesAre
      <4>. HIDE DEF raised
      <4>. QED BY <3>2, <4>1
    <3>. QED BY <2>1, <3>1, <3>2
  <2>. HIDE DEF raised
  <2>3. w \in twins /\ tmp' = tmp /\ file' = file
    BY <1>2, <1>4 DEF IInv, OneWriter, Replace
  <2>4. w \in hurt
    BY <2>3 DEF IInv, OneWorker
  <2>5. /\ tmp' \in [Work -> {0} \cup Inodes] /\ file' \in [Work -> {0} \cup Inodes]
        /\ content' \in [Work -> [Inodes -> FileRecord]] /\ left' \in Nat
        /\ twins' = twins /\ hurt' = hurt /\ unseen' = unseen /\ content' = content
    BY <1>1, <1>2, <2>3 DEF TypeOK, FileRecord, history
  <2>6. r.pc # "none" /\ r.pc # "held" /\ (r.pc \in InQueue => r.pin = job[<<w, n>>].pin)
    BY <1>2, <2>2
  <2>. QED BY <1>2, <2>1, <2>2, <2>3, <2>4, <2>5, <2>6, JobStep
<1>. QED BY <1>3, <1>4

\* A job killed, or put on hold by the queue, keeps the invariant.
LEMMA EndKeeps ==
    ASSUME IInv, NEW w \in Work, NEW n \in Attempts, Kill(w, n) \/ Hold(w, n)
    PROVE  IInv'
<1>1. TypeOK /\ BoardOK /\ <<w, n>> \in Jobs
  BY JobIs DEF IInv
<1>2. PICK to \in {"gone", "held"} :
         /\ job' = [job EXCEPT ![<<w, n>>] = [NoJob EXCEPT !.pc = to]]
         /\ to = "held" => backend = "condor"
  BY DEF Kill, Hold, Ended
<1>3. /\ job[<<w, n>>].pc \in InQueue /\ left' \in Nat
      /\ UNCHANGED <<backend, board, manifest, leases, ledger, disk, hurt, twins, unseen>>
  <2>1. left > 0 /\ left' = left - 1 /\ left \in Nat
    BY <1>1 DEF Kill, Hold, Spends, TypeOK
  <2>2. job[<<w, n>>].pc \in InQueue
    BY StagesAre DEF Kill, Hold
  <2>. QED BY <2>1, <2>2 DEF Kill, Hold
<1>. DEFINE r == [NoJob EXCEPT !.pc = to]
<1>4. r \in JobRecord /\ r.pc = to /\ r.claim = 0 /\ job' = [job EXCEPT ![<<w, n>>] = r]
  BY <1>2, RecordsAre
<1>. HIDE DEF r
<1>5. job'[<<w, n>>] = r /\ \A m \in Attempts \ {n} : job'[<<w, m>>] = job[<<w, m>>]
  BY <1>1, <1>4, JobIs DEF TypeOK
<1>6. ASSUME w \notin hurt PROVE OneWorker(w)'
  <2>1. OneWorker(w) /\ w \notin twins'
    BY <1>3, <1>6 DEF IInv, OneWorker
  <2>2. \A m \in Attempts : /\ job'[<<w, m>>].claim \in {0, job[<<w, m>>].claim}
                            /\ job'[<<w, m>>].pc \in InQueue => job[<<w, m>>].pc \in InQueue
    BY <1>3, <1>4, <1>5
  <2>. QED BY <1>1, <1>3, <2>1, <2>2, WorkerFrame DEF board, disk
<1>7. ASSUME w \notin twins' PROVE OneWriter(w)'
  <2>1. r.pc \notin Live
    BY <1>4, StagesAre
  <2>. QED BY <1>3, <1>5, <1>7, <2>1, WriterFrame DEF IInv, disk
<1>8. /\ tmp' \in [Work -> {0} \cup Inodes] /\ file' \in [Work -> {0} \cup Inodes]
      /\ content' \in [Work -> [Inodes -> FileRecord]]
  BY <1>1, <1>3 DEF TypeOK, disk, FileRecord
<1>9. backend = "local" /\ r.pc \in InQueue => r.pin = job[<<w, n>>].pin
  BY <1>2, <1>4, StagesAre
<1>. QED BY <1>2, <1>3, <1>4, <1>6, <1>7, <1>8, <1>9, JobStep DEF disk

--------------------------------------------------------------------------------
\* A step of the scheduler about one work.
LEMMA WorkStep ==
    ASSUME IInv, TypeOK', BoardOK', CoresOK', NEW w \in Work,
           backend' = backend, twins' = twins, hurt \subseteq hurt',
           \A v \in Work \ {w} :
               /\ last'[v] = last[v] /\ manifest'[v] = manifest[v] /\ status'[v] = status[v]
               /\ ledger'[v].job = ledger[v].job /\ tmp'[v] = tmp[v] /\ file'[v] = file[v]
               /\ content'[v] = content[v]
               /\ leases'[v] = leases[v] \/ leases[v] = 0 \/ job[<<v, leases[v]>>].pc \notin InQueue
               /\ \A n \in Attempts : att'[<<v, n>>] = att[<<v, n>>] /\ job'[<<v, n>>] = job[<<v, n>>]
               /\ sched' = sched \/ (~Undertaken(v) /\ ~Undertaken(v)'),
           w \notin hurt' => OneWorker(w)',
           w \notin twins => OneWriter(w)'
    PROVE  IInv'
<1>1. TypeOK /\ BoardOK
  BY DEF IInv
<1>2. ASSUME NEW v \in Work \ hurt' PROVE OneWorker(v)'
  <2>1. CASE v = w
    BY <1>2, <2>1
  <2>2. CASE v # w
    <3>1. OneWorker(v) /\ v \notin twins'
      BY <1>2, <2>2 DEF IInv, OneWorker
    <3>. QED BY <1>1, <2>2, <3>1, WorkerFrame
  <2>. QED BY <2>1, <2>2
<1>3. ASSUME NEW v \in Work \ twins' PROVE OneWriter(v)'
  <2>1. CASE v = w
    BY <1>3, <2>1
  <2>2. CASE v # w
    BY <1>3, <2>2, WriterFrame DEF IInv
  <2>. QED BY <2>1, <2>2
<1>. QED BY <1>2, <1>3 DEF IInv

\* A step that leaves every work as it is, but for what was answered about it.
LEMMA Unmoved ==
    ASSUME IInv, todo' \subseteq Work, left' \in Nat,
           ledger' \in [Work -> [job : 0 .. MaxAttempts, gone : {"no", "since", "over"}]],
           unseen' \in [Work -> 0..2],
           \A w \in Work : /\ ledger'[w].job = ledger[w].job
                           /\ ledger'[w].gone # "no" => unseen'[w] >= 1,
           backend = "local" => ledger' = ledger,
           UNCHANGED <<backend, sched, status, last, att, manifest, job, leases, disk, hurt, twins>>
    PROVE  IInv'
<1>1. TypeOK /\ BoardOK /\ CoresOK
  BY DEF IInv
<1>2. TypeOK'
  BY <1>1 DEF TypeOK, disk
<1>3. BoardOK'
  BY <1>1 DEF BoardOK, Launching
<1>4. CoresOK'
  BY <1>1 DEF CoresOK
<1>5. ASSUME NEW w \in Work \ hurt' PROVE OneWorker(w)'
  <2>1. OneWorker(w) /\ w \notin twins'
    BY <1>5 DEF IInv, OneWorker
  <2>. QED BY <1>1, <2>1, WorkerFrame DEF disk
<1>6. ASSUME NEW w \in Work \ twins' PROVE OneWriter(w)'
  BY <1>6, WriterFrame DEF IInv, disk
<1>. QED BY <1>2, <1>3, <1>4, <1>5, <1>6 DEF IInv

\* Recording a new attempt of idle work keeps the invariant.
LEMMA RecordKeeps ==
    ASSUME IInv, NEW w \in Work, sched = Idle, Record(w),
           status[w] = "queued" \/ (status[w] = "open" /\ Running(w) = {}),
           todo' \subseteq Work,
           UNCHANGED <<backend, manifest, job, leases, ledger, disk, history>>
    PROVE  IInv'
<1>. DEFINE n == last[w] + 1
<1>1. /\ TypeOK /\ BoardOK /\ CoresOK /\ n \in Attempts /\ n > 0 /\ n \in 0..MaxAttempts
      /\ <<w, n>> \in Jobs
  <2>1. TypeOK /\ BoardOK /\ CoresOK
    BY DEF IInv
  <2>2. last[w] \in 0..MaxAttempts /\ last[w] < MaxAttempts
    BY <2>1, TypesAre DEF Record, Launchable
  <2>3. n \in Attempts /\ n > 0 /\ n \in 0..MaxAttempts
    BY <2>2, NumbersAre DEF Attempts
  <2>. QED BY <2>1, <2>3, JobIs
<1>. HIDE DEF n
<1>2. /\ last' = [last EXCEPT ![w] = n] /\ att' = [att EXCEPT ![<<w, n>>] = "running"]
      /\ status' = [status EXCEPT ![w] = "open"] /\ sched' = For("stage", w)
  <2>1. last' = [last EXCEPT ![w] = n]
    BY <1>1 DEF Record, n, TypeOK
  <2>. QED BY <2>1 DEF Record, n
<1>3. /\ last'[w] = n /\ att'[<<w, n>>] = "running" /\ status'[w] = "open"
      /\ \A v \in Work \ {w} : /\ last'[v] = last[v] /\ status'[v] = status[v]
                               /\ \A m \in Attempts : att'[<<v, m>>] = att[<<v, m>>]
  BY <1>1, <1>2, JobIs DEF TypeOK
<1>4. TypeOK'
  <2>1. sched' \in [do : {"stage", "launch", "note", "mark"}, work : Work]
    BY <1>2, SchedType
  <2>2. last' \in [Work -> 0..MaxAttempts]
    BY <1>1, <1>2 DEF TypeOK
  <2>3. att' \in [Jobs -> {"none", "running", "failed", "lost", "succeeded"}]
    BY <1>1, <1>2 DEF TypeOK
  <2>4. status' \in [Work -> {"queued", "open", "done"}]
    BY <1>1, <1>2 DEF TypeOK
  <2>. QED BY <1>1, <2>1, <2>2, <2>3, <2>4 DEF TypeOK, disk, history
<1>5. \A v \in Work \ {w} : ~Undertaken(v) /\ ~Undertaken(v)' /\ ~Launching(v)'
  BY <1>2, SchedIs DEF Undertaken, Launching
<1>6. BoardOK'
  <2>1. \A v \in Work : Launching(v)' => last'[v] > 0
    BY <1>1, <1>3, <1>5
  <2>2. sched'.do \notin {"note", "mark"}
    BY <1>2, SchedIs
  <2>. QED BY <1>1, <2>1, <2>2 DEF BoardOK, history
<1>7. CoresOK'
  BY <1>1 DEF CoresOK, history
<1>8. ASSUME w \notin hurt' PROVE OneWorker(w)'
  <2>1. OneWorker(w)
    BY <1>8 DEF IInv, history
  <2>2. ASSUME NEW m \in Attempts, status[w] = "open" PROVE att[<<w, m>>] # "running"
    BY <2>2 DEF Running
  <2>3. last[w] > 0 => last[w] \in Attempts
    BY <1>1, TypesAre
  <2>4. file[w] = 0 /\ \A m \in Attempts : job[<<w, m>>].pc \notin InQueue
    BY <2>1, <2>2, <2>3 DEF OneWorker
  <2>5. Launching(w)'
    BY <1>2 DEF Launching
  <2>. QED BY <1>1, <1>2, <1>3, <2>1, <2>4, <2>5 DEF OneWorker, history, disk
<1>9. ASSUME w \notin twins PROVE OneWriter(w)'
  BY <1>9, WriterFrame DEF IInv, disk
<1>. QED BY <1>3, <1>4, <1>5, <1>6, <1>7, <1>8, <1>9, WorkStep DEF disk, history

\* Beginning work, or submitting it once more, keeps the invariant.
LEMMA BeginKeeps == ASSUME IInv, NEW w \in Work, Begin(w) \/ Resubmit(w) PROVE IInv'
<1>1. TypeOK
  BY DEF IInv
<1>2. CASE Begin(w)
  BY <1>1, <1>2, RecordKeeps DEF Begin, TypeOK
<1>3. CASE Resubmit(w) /\ status[w] = "open" /\ Running(w) = {} /\ Launchable(w)
  BY <1>1, <1>3, RecordKeeps DEF Resubmit, TypeOK
<1>4. CASE Resubmit(w) /\ ~(status[w] = "open" /\ Running(w) = {} /\ Launchable(w))
  <2>1. /\ todo' \subseteq Work
        /\ UNCHANGED <<sched, last, att, status>>
        /\ UNCHANGED <<backend, manifest, job, leases, ledger, disk, history>>
    BY <1>1, <1>4 DEF Resubmit, TypeOK
  <2>2. /\ ledger' = ledger /\ unseen' = unseen /\ left' = left /\ hurt' = hurt /\ twins' = twins
        /\ \A v \in Work : ledger[v].gone # "no" => unseen[v] >= 1
    BY <2>1 DEF history, IInv, BoardOK
  <2>. QED BY <1>1, <2>1, <2>2, Unmoved DEF TypeOK
<1>. QED BY <1>2, <1>3, <1>4

\* What the scheduler is in the middle of is about one work.
LEMMA About ==
    ASSUME TypeOK, NEW x \in {"stage", "launch", "note", "mark"}, sched.do = x
    PROVE  /\ sched.work \in Work /\ sched = For(x, sched.work) /\ Undertaken(sched.work)
           /\ Launching(sched.work) <=> x # "mark"
           /\ \A v \in Work \ {sched.work} : ~Undertaken(v) /\ ~Launching(v)
<1>1. sched.work \in Work /\ sched = For(x, sched.work)
  BY SchedType
<1>. DEFINE w == sched.work
<1>2. sched = For(x, w) /\ w \in Work
  BY <1>1
<1>. HIDE DEF w
<1>3. /\ Undertaken(w) /\ (Launching(w) <=> x # "mark")
      /\ \A v \in Work \ {w} : ~Undertaken(v) /\ ~Launching(v)
  BY <1>2, SchedIs DEF Undertaken, Launching
<1>. QED BY <1>1, <1>3 DEF w

\* What it has left behind it is about none.
LEMMA AboutNone ==
    /\ sched = Idle => \A v \in Work : ~Undertaken(v) /\ ~Launching(v)
    /\ sched' = Idle => \A v \in Work : ~Undertaken(v)' /\ ~Launching(v)'
BY SchedIs DEF Undertaken, Launching

\* Writing the manifest of an attempt keeps the invariant.
LEMMA StageKeeps == ASSUME IInv, Stage PROVE IInv'
<1>1. PICK w \in Work :
         /\ TypeOK /\ BoardOK /\ CoresOK /\ w = sched.work /\ sched = For("stage", w) /\ Launching(w)
         /\ \A v \in Work \ {w} : ~Undertaken(v)
  BY About DEF IInv, Stage
<1>2. /\ manifest' = [manifest EXCEPT ![w] = last[w]] /\ sched' = For("launch", w)
      /\ UNCHANGED <<backend, todo, status, last, att, job, leases, ledger, disk, history>>
  BY <1>1 DEF Stage
<1>3. /\ sched'.do = "launch" /\ manifest'[w] = last[w] /\ last[w] \in 0..MaxAttempts
      /\ \A v \in Work \ {w} : manifest'[v] = manifest[v]
  BY <1>1, <1>2, SchedIs, TypesAre DEF TypeOK
<1>4. TypeOK'
  <2>1. sched' \in [do : {"stage", "launch", "note", "mark"}, work : Work]
    BY <1>1, <1>2, SchedType
  <2>2. manifest' \in [Work -> 0..MaxAttempts]
    BY <1>1, <1>2, <1>3 DEF TypeOK
  <2>. QED BY <1>1, <1>2, <2>1, <2>2 DEF TypeOK, disk, history
<1>5. /\ Launching(w)' /\ sched' # For("stage", w)
      /\ \A v \in Work \ {w} : ~Undertaken(v)' /\ ~Launching(v)'
  BY <1>2, SchedIs DEF Undertaken, Launching
<1>6. BoardOK'
  <2>1. \A v \in Work : Launching(v)' => last'[v] > 0
    BY <1>1, <1>2, <1>5 DEF BoardOK
  <2>. QED BY <1>1, <1>2, <1>3, <2>1 DEF BoardOK, history
<1>7. CoresOK'
  BY <1>1, <1>2 DEF CoresOK, history
<1>8. ASSUME w \notin hurt' PROVE OneWorker(w)'
  <2>1. OneWorker(w)
    BY <1>1, <1>2, <1>8 DEF IInv, history
  <2>2. /\ file[w] = 0 /\ \A m \in Attempts : job[<<w, m>>].pc \notin InQueue
        /\ att[<<w, last[w]>>] = "running" /\ status[w] = "open"
    BY <1>1, <2>1 DEF OneWorker
  <2>. QED BY <1>2, <1>3, <1>5, <2>1, <2>2 DEF OneWorker, history, disk
<1>9. ASSUME w \notin twins PROVE OneWriter(w)'
  BY <1>1, <1>2, <1>9, WriterFrame DEF IInv, disk
<1>. QED BY <1>1, <1>2, <1>3, <1>4, <1>5, <1>6, <1>7, <1>8, <1>9, WorkStep DEF disk, history

\* Writing down the job's number after its launch keeps the invariant.
LEMMA RecordJobKeeps == ASSUME IInv, RecordJob PROVE IInv'
<1>1. PICK w \in Work :
         /\ TypeOK /\ BoardOK /\ CoresOK /\ w = sched.work /\ sched = For("note", w) /\ Launching(w)
         /\ backend # "local" /\ \A v \in Work \ {w} : ~Undertaken(v)
  BY About DEF IInv, RecordJob, BoardOK
<1>. DEFINE e == [job |-> last[w], gone |-> "no"]
<1>2. /\ ledger' = [ledger EXCEPT ![w] = e] /\ unseen' = [unseen EXCEPT ![w] = 0] /\ sched' = Idle
      /\ UNCHANGED <<backend, todo, status, last, att, manifest, job, leases, disk, hurt, twins,
                     left>>
  BY <1>1 DEF RecordJob
<1>3. e \in [job : 0 .. MaxAttempts, gone : {"no", "since", "over"}] /\ e.job = last[w] /\ e.gone = "no"
  BY <1>1, TypesAre
<1>. HIDE DEF e
<1>4. /\ ledger'[w] = e /\ unseen'[w] = 0
      /\ \A v \in Work \ {w} : ledger'[v] = ledger[v] /\ unseen'[v] = unseen[v]
  BY <1>1, <1>2 DEF TypeOK
<1>5. TypeOK'
  <2>1. ledger' \in [Work -> [job : 0 .. MaxAttempts, gone : {"no", "since", "over"}]]
    BY <1>1, <1>2, <1>3 DEF TypeOK
  <2>2. unseen' \in [Work -> 0..2]
    <3>1. unseen \in [Work -> 0..2] /\ 0 \in 0..2
      BY <1>1 DEF TypeOK
    <3>. QED BY <1>2, <3>1
  <2>. QED BY <1>1, <1>2, <2>1, <2>2 DEF TypeOK, disk
<1>6. \A v \in Work : ~Undertaken(v)' /\ ~Launching(v)'
  BY <1>2, AboutNone
<1>7. BoardOK'
  <2>1. \A v \in Work : ledger'[v].gone # "no" => unseen'[v] >= 1
    BY <1>1, <1>3, <1>4 DEF BoardOK
  <2>. QED BY <1>1, <1>2, <1>6, <2>1 DEF BoardOK
<1>8. CoresOK'
  BY <1>1, <1>2 DEF CoresOK
<1>9. ASSUME w \notin hurt' PROVE OneWorker(w)'
  <2>1. OneWorker(w) /\ sched # For("stage", w)
    BY <1>1, <1>2, <1>9, SchedIs DEF IInv
  <2>2. sched' \notin {For("stage", w), For("launch", w), For("mark", w)}
    BY <1>6 DEF Undertaken
  <2>. QED BY <1>1, <1>2, <1>3, <1>4, <1>6, <2>1, <2>2 DEF OneWorker, disk
<1>10. ASSUME w \notin twins PROVE OneWriter(w)'
  BY <1>1, <1>2, <1>10, WriterFrame DEF IInv, disk
<1>. QED BY <1>1, <1>2, <1>4, <1>5, <1>6, <1>7, <1>8, <1>9, <1>10, WorkStep DEF disk

\* Marking failed the attempt in hand, for the experiment to be tried again, keeps the invariant.
LEMMA MarkKeeps == ASSUME IInv, MarkFailed PROVE IInv'
<1>1. PICK w \in Work :
         /\ TypeOK /\ BoardOK /\ CoresOK /\ w = sched.work /\ sched = For("mark", w)
         /\ ~Launching(w) /\ \A v \in Work \ {w} : ~Undertaken(v)
  BY About DEF IInv, MarkFailed
<1>2. /\ att' = [j \in Jobs |-> IF j[1] = w /\ j[2] = last[w] /\ att[j] = "running"
                                THEN "failed" ELSE att[j]]
      /\ todo' \subseteq Work /\ sched' = Idle
      /\ UNCHANGED <<backend, status, last, manifest, job, leases, ledger, disk, history>>
  BY <1>1 DEF MarkFailed, TypeOK
<1>3. /\ att' \in [Jobs -> {"none", "running", "failed", "lost", "succeeded"}]
      /\ \A v \in Work \ {w}, n \in Attempts : att'[<<v, n>>] = att[<<v, n>>]
  <2>1. att' \in [Jobs -> {"none", "running", "failed", "lost", "succeeded"}]
    BY <1>1, <1>2 DEF TypeOK
  <2>2. \A v \in Work \ {w}, n \in Attempts : att'[<<v, n>>] = att[<<v, n>>]
    BY <1>2, JobIs
  <2>. QED BY <2>1, <2>2
<1>4. TypeOK'
  BY <1>1, <1>2, <1>3 DEF TypeOK, disk, history
<1>5. \A v \in Work : ~Undertaken(v)' /\ ~Launching(v)'
  BY <1>2, AboutNone
<1>6. BoardOK'
  <2>1. sched'.do \notin {"note", "mark"}
    BY <1>2, SchedIs
  <2>. QED BY <1>1, <1>2, <1>5, <2>1 DEF BoardOK, history
<1>7. CoresOK'
  BY <1>1, <1>2 DEF CoresOK, history
<1>8. ASSUME w \notin hurt' PROVE OneWorker(w)'
  <2>1. OneWorker(w) /\ sched # For("stage", w)
    BY <1>1, <1>2, <1>8, SchedIs DEF IInv, history
  <2>2. file[w] = 0 /\ \A m \in Attempts : job[<<w, m>>].pc \notin InQueue
    BY <1>1, <2>1 DEF OneWorker
  <2>3. sched' \notin {For("stage", w), For("launch", w), For("mark", w)}
    BY <1>5 DEF Undertaken
  <2>. QED BY <1>1, <1>2, <1>5, <2>1, <2>2, <2>3 DEF OneWorker, disk, history
<1>9. ASSUME w \notin twins PROVE OneWriter(w)'
  BY <1>1, <1>2, <1>9, WriterFrame DEF IInv, disk
<1>. QED BY <1>1, <1>2, <1>3, <1>4, <1>5, <1>6, <1>7, <1>8, <1>9, WorkStep DEF disk, history

\* Taking in a report keeps the invariant.
LEMMA IngestKeeps == ASSUME IInv, NEW w \in Work, Ingest(w) PROVE IInv'
<1>1. PICK verdict \in {"succeeded", "failed"}, now \in {"done", "open"} :
         /\ att' = [att EXCEPT ![<<w, last[w]>>] = verdict]
         /\ status' = [status EXCEPT ![w] = now]
  BY DEF Ingest
<1>2. /\ TypeOK /\ BoardOK /\ CoresOK /\ sched = Idle /\ file[w] # 0 /\ file[w] \in Inodes
      /\ file' = [file EXCEPT ![w] = 0]
      /\ content' = [content EXCEPT ![w][file[w]] = Empty]
      /\ UNCHANGED <<backend, sched, todo, last, manifest, job, leases, ledger, tmp, history>>
      /\ Empty \in FileRecord
  <2>1. Empty \in FileRecord
    BY DEF Empty, FileRecord
  <2>. QED BY <2>1, TypesAre DEF Ingest, IInv
<1>3. /\ file'[w] = 0 /\ \A i \in Inodes \ {file[w]} : content'[w][i] = content[w][i]
      /\ \A v \in Work \ {w} : /\ file'[v] = file[v] /\ content'[v] = content[v] /\ status'[v] = status[v]
                               /\ \A n \in Attempts : att'[<<v, n>>] = att[<<v, n>>]
  <2>1. \A v \in Work \ {w}, n \in Attempts : att'[<<v, n>>] = att[<<v, n>>]
    BY <1>1, <1>2, JobIs DEF TypeOK
  <2>2. \A v \in Work \ {w} : file'[v] = file[v] /\ content'[v] = content[v] /\ status'[v] = status[v]
    BY <1>1, <1>2 DEF TypeOK
  <2>3. file'[w] = 0 /\ \A i \in Inodes \ {file[w]} : content'[w][i] = content[w][i]
    BY <1>2 DEF TypeOK
  <2>. QED BY <2>1, <2>2, <2>3
<1>4. TypeOK'
  <2>1. att' \in [Jobs -> {"none", "running", "failed", "lost", "succeeded"}]
    BY <1>1, <1>2 DEF TypeOK
  <2>2. status' \in [Work -> {"queued", "open", "done"}]
    BY <1>1, <1>2 DEF TypeOK
  <2>3. content' \in [Work -> [Inodes -> FileRecord]]
    BY <1>2 DEF TypeOK, FileRecord
  <2>4. file' \in [Work -> {0} \cup Inodes]
    BY <1>2 DEF TypeOK
  <2>. QED BY <1>2, <2>1, <2>2, <2>3, <2>4 DEF TypeOK, FileRecord, history
<1>5. \A v \in Work : /\ ~Undertaken(v) /\ ~Undertaken(v)' /\ ~Launching(v) /\ ~Launching(v)'
  BY <1>2, AboutNone
<1>6. BoardOK'
  BY <1>2, <1>5 DEF BoardOK, history
<1>7. CoresOK'
  BY <1>2 DEF CoresOK, history
<1>8. ASSUME w \notin hurt' PROVE OneWorker(w)'
  <2>1. OneWorker(w)
    BY <1>2, <1>8 DEF IInv, history
  <2>2. \A m \in Attempts : job[<<w, m>>].pc \notin InQueue
    BY <1>2, <2>1 DEF OneWorker
  <2>3. sched' \notin {For("stage", w), For("launch", w), For("mark", w)}
        /\ sched \notin {For("stage", w), For("launch", w), For("mark", w)}
    BY <1>5 DEF Undertaken
  <2>. QED BY <1>2, <1>3, <1>5, <2>1, <2>2, <2>3 DEF OneWorker, history
<1>9. ASSUME w \notin twins PROVE OneWriter(w)'
  <2>1. OneWriter(w)
    BY <1>9 DEF IInv
  <2>2. tmp[w] # 0 => content'[w][tmp[w]] = content[w][tmp[w]]
    BY <1>2, <1>3, <2>1, TypesAre DEF OneWriter
  <2>. QED BY <1>2, <1>3, <2>1, <2>2 DEF OneWriter
<1>. QED BY <1>2, <1>3, <1>4, <1>5, <1>6, <1>7, <1>8, <1>9, WorkStep DEF history

--------------------------------------------------------------------------------
\* Every set of cores that are free has a first one.
LEMMA FirstIs ==
    ASSUME NEW free \in SUBSET (1..Cores), free # {}
    PROVE  \E p \in free : \A q \in free : p <= q
<1>1. free \subseteq Nat
  BY NumbersAre
<1>2. PICK p \in free : \A q \in free : <<q, p>> \notin OpToRel(<, Nat)
  BY <1>1, NatLessThanWellFounded, WFMin
<1>3. \A q \in free : ~(q < p)
  BY <1>1, <1>2 DEF OpToRel
<1>. QED BY <1>1, <1>3

\* The pin is a core of the pool, and a free one when one is free (_bench_pin_for).
LEMMA PinIs ==
    /\ Pin \in 1..Cores
    /\ (1..Cores) \ Busy # {} => Pin \notin Busy
<1>. DEFINE free == (1 .. Cores) \ Busy
            First(p) == \A q \in free : p <= q
<1>1. CASE free = {}
  BY <1>1, NumbersAre DEF Pin
<1>2. CASE free # {}
  <2>1. \E p \in free : First(p)
    BY <1>2, FirstIs
  <2>2. Pin = CHOOSE p \in free : First(p)
    BY <1>2 DEF Pin
  <2>. HIDE DEF First
  <2>3. Pin \in free
    BY <2>1, <2>2
  <2>. QED BY <2>3
<1>. QED BY <1>1, <1>2

\* With a core for every work, one that has no worker finds a core free.
LEMMA CoreLeft ==
    ASSUME TypeOK, NEW w \in Work, ~Held(w), Cores >= Cardinality(Work)
    PROVE  (1..Cores) \ Busy # {}
<1>1. SUFFICES ASSUME \A p \in 1..Cores : p \in Busy PROVE FALSE
  OBVIOUS
<1>. DEFINE Of(p) == CHOOSE v \in Work : Held(v) /\ job[<<v, leases[v]>>].pin = p
            T == Work \ {w}
            S == 1..Cores
            f == [p \in S |-> Of(p)]
<1>2. ASSUME NEW p \in 1..Cores
      PROVE  Of(p) \in T /\ job[<<Of(p), leases[Of(p)]>>].pin = p
  <2>1. \E v \in Work : Held(v) /\ job[<<v, leases[v]>>].pin = p
    BY <1>1 DEF Busy
  <2>2. Of(p) \in Work /\ Held(Of(p)) /\ job[<<Of(p), leases[Of(p)]>>].pin = p
    BY <2>1
  <2>. HIDE DEF Of
  <2>. QED BY <2>2
<1>. HIDE DEF Of
<1>3. f \in [S -> T]
  BY <1>2
<1>4. /\ IsFiniteSet(S) /\ Cardinality(S) = Cores
      /\ IsFiniteSet(T) /\ Cardinality(T) = Cardinality(Work) - 1 /\ Cardinality(Work) \in Nat
  <2>1. IsFiniteSet(Work)
    BY TransportAssumption DEF TransportConstants
  <2>2. IsFiniteSet(T) /\ Cardinality(T) = Cardinality(Work) - 1 /\ Cardinality(Work) \in Nat
    BY <2>1, FS_RemoveElement, FS_CardinalityType
  <2>3. 1 \in Int /\ Cores \in Int
    BY NumbersAre
  <2>4. IsFiniteSet(1..Cores) /\ Cardinality(1..Cores) = Cores
    BY <2>3, FS_Interval, NumbersAre
  <2>. QED BY <2>2, <2>4
<1>5. Cardinality(T) < Cardinality(S)
  BY <1>4, NumbersAre
<1>. HIDE DEF T, S, f
<1>6. PICK p, q \in S : p # q /\ f[p] = f[q]
  BY <1>3, <1>4, <1>5, FS_PigeonHole
<1>7. Of(p) = Of(q) /\ p \in 1..Cores /\ q \in 1..Cores
  BY <1>6 DEF f, S
<1>. QED BY <1>2, <1>6, <1>7

\* A worker is started for the latest attempt.
LEMMA LaunchSets ==
    ASSUME IInv, NEW w \in Work, sched = For("launch", w), NEW p \in 0..Cores,
           job' = [job EXCEPT ![<<w, last[w]>>] = [NoJob EXCEPT !.pc = "queued", !.pin = p]]
    PROVE  /\ last[w] \in Attempts /\ last[w] > 0 /\ <<w, last[w]>> \in Jobs
           /\ Launching(w) /\ \A v \in Work \ {w} : ~Undertaken(v) /\ ~Launching(v)
           /\ job' \in [Jobs -> JobRecord]
           /\ /\ job'[<<w, last[w]>>].pc = "queued" /\ job'[<<w, last[w]>>].pin = p
              /\ job'[<<w, last[w]>>].claim = 0
           /\ \A j \in Jobs : j # <<w, last[w]>> => job'[j] = job[j]
           /\ w \notin hurt => \A m \in Attempts : job[<<w, m>>].pc \notin InQueue
<1>1. TypeOK /\ BoardOK
  BY DEF IInv
<1>2. Launching(w) /\ \A v \in Work \ {w} : ~Undertaken(v) /\ ~Launching(v)
  BY SchedIs DEF Undertaken, Launching
<1>3. last[w] \in Attempts /\ last[w] > 0 /\ <<w, last[w]>> \in Jobs
  BY <1>1, <1>2, TypesAre, JobIs DEF BoardOK
<1>. DEFINE r == [NoJob EXCEPT !.pc = "queued", !.pin = p]
<1>4. r \in JobRecord /\ r.pc = "queued" /\ r.pin = p /\ r.claim = 0
  BY RecordsAre
<1>. HIDE DEF r
<1>5. job' = [job EXCEPT ![<<w, last[w]>>] = r] /\ job \in [Jobs -> JobRecord]
  BY <1>1 DEF r, TypeOK, JobRecord
<1>6. /\ job' \in [Jobs -> JobRecord] /\ job'[<<w, last[w]>>] = r
      /\ \A j \in Jobs : j # <<w, last[w]>> => job'[j] = job[j]
  BY <1>3, <1>4, <1>5
<1>7. w \notin hurt => \A m \in Attempts : job[<<w, m>>].pc \notin InQueue
  BY DEF IInv, OneWorker
<1>. QED BY <1>2, <1>3, <1>4, <1>6, <1>7

\* A launch into the batch queue keeps the invariant.
LEMMA LaunchCondorKeeps == ASSUME IInv, LaunchCondor PROVE IInv'
<1>1. PICK w \in Work :
         /\ TypeOK /\ BoardOK /\ CoresOK /\ w = sched.work /\ sched = For("launch", w)
         /\ backend # "local"
  BY About DEF IInv, LaunchCondor
<1>2. /\ job' = [job EXCEPT ![<<w, last[w]>>] = [NoJob EXCEPT !.pc = "queued", !.pin = 0]]
      /\ sched' = For("note", w)
      /\ UNCHANGED <<backend, todo, status, last, att, manifest, leases, ledger, disk, history>>
  BY <1>1 DEF LaunchCondor, Enqueued
<1>3. 0 \in 0..Cores
  BY NumbersAre
<1>4. /\ last[w] \in Attempts /\ last[w] > 0 /\ <<w, last[w]>> \in Jobs
      /\ Launching(w) /\ \A v \in Work \ {w} : ~Undertaken(v) /\ ~Launching(v)
      /\ job' \in [Jobs -> JobRecord]
      /\ job'[<<w, last[w]>>].pc = "queued" /\ job'[<<w, last[w]>>].claim = 0
      /\ \A j \in Jobs : j # <<w, last[w]>> => job'[j] = job[j]
      /\ w \notin hurt => \A m \in Attempts : job[<<w, m>>].pc \notin InQueue
  BY <1>1, <1>2, <1>3, LaunchSets
<1>5. /\ \A v \in Work \ {w}, m \in Attempts : job'[<<v, m>>] = job[<<v, m>>]
      /\ \A m \in Attempts \ {last[w]} : job'[<<w, m>>] = job[<<w, m>>]
  BY <1>4, JobIs
<1>6. TypeOK'
  <2>1. sched' \in [do : {"stage", "launch", "note", "mark"}, work : Work]
    BY <1>2, SchedType
  <2>. QED BY <1>1, <1>2, <1>4, <2>1 DEF TypeOK, JobRecord, disk, history
<1>7. /\ Launching(w)' /\ sched' \notin {For("stage", w), For("launch", w), For("mark", w)}
      /\ \A v \in Work \ {w} : ~Undertaken(v)' /\ ~Launching(v)'
  BY <1>2, SchedIs DEF Undertaken, Launching
<1>8. BoardOK'
  <2>1. \A v \in Work : Launching(v)' => last'[v] > 0
    BY <1>2, <1>4, <1>7
  <2>. QED BY <1>1, <1>2, <2>1 DEF BoardOK, history
<1>9. CoresOK'
  BY <1>1, <1>2 DEF CoresOK
<1>10. ASSUME w \notin hurt' PROVE OneWorker(w)'
  <2>1. OneWorker(w) /\ w \notin hurt
    BY <1>2, <1>10 DEF IInv, history
  <2>2. /\ file[w] = 0 /\ att[<<w, last[w]>>] = "running" /\ status[w] = "open"
        /\ sched # For("stage", w)
    BY <1>1, <1>4, <2>1, SchedIs DEF OneWorker
  <2>3. \A m \in Attempts : job'[<<w, m>>].pc \in InQueue => m = last[w]
    BY <1>4, <1>5, <2>1
  <2>4. \A m \in Attempts : job'[<<w, m>>].claim \in {0, m}
    BY <1>4, <1>5, <2>1 DEF OneWorker
  <2>. QED BY <1>1, <1>2, <1>4, <1>7, <2>1, <2>2, <2>3, <2>4 DEF OneWorker, disk, history
<1>11. ASSUME w \notin twins PROVE OneWriter(w)'
  <2>1. "queued" \notin Live
    BY StagesAre
  <2>. QED BY <1>1, <1>2, <1>4, <1>5, <1>11, <2>1, WriterFrame DEF IInv, disk
<1>. QED BY <1>1, <1>2, <1>4, <1>5, <1>6, <1>7, <1>8, <1>9, <1>10, <1>11, WorkStep DEF disk, history

\* A launch on the local pool, where the pin is chosen, keeps the invariant.
LEMMA LaunchLocalKeeps == ASSUME IInv, LaunchLocal PROVE IInv'
<1>1. PICK w \in Work :
         /\ TypeOK /\ BoardOK /\ CoresOK /\ w = sched.work /\ sched = For("launch", w)
         /\ backend = "local"
  BY About DEF IInv, LaunchLocal
<1>. DEFINE pin == Pin
<1>2. /\ job' = [job EXCEPT ![<<w, last[w]>>] = [NoJob EXCEPT !.pc = "queued", !.pin = pin]]
      /\ leases' = [v \in Work |-> IF v = w THEN last[w] ELSE IF Held(v) THEN leases[v] ELSE 0]
      /\ sched' = Idle
      /\ UNCHANGED <<backend, todo, status, last, att, manifest, ledger, disk, history>>
  BY <1>1 DEF LaunchLocal, Enqueued
<1>3. pin \in 1..Cores /\ pin \in 0..Cores
  BY PinIs, NumbersAre
<1>. HIDE DEF pin
<1>4. /\ last[w] \in Attempts /\ last[w] > 0 /\ <<w, last[w]>> \in Jobs
      /\ Launching(w) /\ \A v \in Work \ {w} : ~Undertaken(v) /\ ~Launching(v)
      /\ job' \in [Jobs -> JobRecord]
      /\ job'[<<w, last[w]>>].pc = "queued" /\ job'[<<w, last[w]>>].claim = 0
      /\ job'[<<w, last[w]>>].pin = pin
      /\ \A j \in Jobs : j # <<w, last[w]>> => job'[j] = job[j]
      /\ w \notin hurt => \A m \in Attempts : job[<<w, m>>].pc \notin InQueue
  BY <1>1, <1>2, <1>3, LaunchSets
<1>5. /\ \A v \in Work \ {w}, m \in Attempts : job'[<<v, m>>] = job[<<v, m>>]
      /\ \A m \in Attempts \ {last[w]} : job'[<<w, m>>] = job[<<w, m>>]
  BY <1>4, JobIs
<1>6. /\ leases'[w] = last[w]
      /\ \A v \in Work \ {w} : /\ leases'[v] \in {0, leases[v]}
                               /\ \/ leases'[v] = leases[v] \/ leases[v] = 0
                                  \/ job[<<v, leases[v]>>].pc \notin InQueue
  BY <1>2, StagesAre DEF Held
<1>7. TypeOK'
  <2>1. \A v \in Work : leases'[v] \in 0..MaxAttempts
    <3>1. last[w] \in 0..MaxAttempts /\ 0 \in 0..MaxAttempts /\ \A v \in Work : leases[v] \in 0..MaxAttempts
      BY <1>1, TypesAre, NumbersAre
    <3>. QED BY <1>6, <3>1
  <2>2. leases' \in [Work -> 0..MaxAttempts]
    <3>1. leases' = [v \in Work |-> leases'[v]]
      BY <1>2
    <3>. QED BY <2>1, <3>1
  <2>. QED BY <1>1, <1>2, <1>4, <2>2 DEF TypeOK, JobRecord, disk, history
<1>8. \A v \in Work : ~Undertaken(v)' /\ ~Launching(v)'
  BY <1>2, AboutNone
<1>9. BoardOK'
  <2>1. \A j \in Jobs : job'[j].pc # "held"
    BY <1>1, <1>4 DEF BoardOK
  <2>2. sched'.do \notin {"note", "mark"}
    BY <1>2, SchedIs
  <2>. QED BY <1>1, <1>2, <1>8, <2>1, <2>2 DEF BoardOK, history
<1>10. ASSUME w \notin hurt, Cores >= Cardinality(Work), NEW v \in Work \ {w}, NEW m \in Attempts,
              v \notin hurt, job[<<v, m>>].pc \in InQueue
       PROVE  job[<<v, m>>].pin # pin
  <2>1. ~Held(w)
    <3>1. ASSUME leases[w] # 0, job[<<w, leases[w]>>].pc # "gone" PROVE FALSE
      <4>1. leases[w] \in Attempts /\ <<w, leases[w]>> \in Jobs
        BY <1>1, <3>1, TypesAre, JobIs
      <4>2. job[<<w, leases[w]>>].pc \notin {"none", "held", "gone"}
        BY <1>1, <3>1, <4>1 DEF CoresOK, BoardOK
      <4>3. job[<<w, leases[w]>>].pc \in {"none", "queued", "run", "fill", "replace", "raised", "held", "gone"}
        BY <1>1, <4>1, TypesAre DEF JobRecord
      <4>4. job[<<w, leases[w]>>].pc \in InQueue
        BY <4>2, <4>3, StagesAre
      <4>. QED BY <1>4, <1>10, <4>1, <4>4
    <3>. QED BY <3>1 DEF Held
  <2>2. Pin \notin Busy
    BY <1>1, <1>10, <2>1, CoreLeft, PinIs
  <2>3. leases[v] = m /\ m # 0
    BY <1>1, <1>10, NumbersAre DEF IInv, OneWorker
  <2>4. Held(v)
    BY <1>10, <2>3, StagesAre DEF Held
  <2>5. job[<<v, m>>].pin \in Busy
    BY <2>3, <2>4 DEF Busy
  <2>. QED BY <2>2, <2>5 DEF pin
<1>11. CoresOK'
  <2>1. ASSUME NEW v \in Work, leases'[v] # 0 PROVE job'[<<v, leases'[v]>>].pc # "none"
    <3>1. CASE v = w
      BY <1>4, <1>6, <3>1
    <3>2. CASE v # w
      <4>1. leases'[v] = leases[v] /\ leases[v] \in Attempts
        BY <1>1, <1>6, <2>1, <3>2, TypesAre
      <4>. QED BY <1>1, <1>5, <2>1, <3>2, <4>1 DEF CoresOK
    <3>. QED BY <3>1, <3>2
  <2>2. ASSUME Cores >= Cardinality(Work), NEW j \in Jobs, NEW k \in Jobs, j[1] # k[1],
               {j[1], k[1]} \cap hurt = {}, job'[j].pc \in InQueue, job'[k].pc \in InQueue
        PROVE  job'[j].pin # job'[k].pin
    <3>1. /\ j[1] \in Work /\ j[2] \in Attempts /\ j = <<j[1], j[2]>>
          /\ k[1] \in Work /\ k[2] \in Attempts /\ k = <<k[1], k[2]>>
          /\ j[1] \notin hurt /\ k[1] \notin hurt
      BY <2>2, JobIs
    <3>2. CASE j = <<w, last[w]>>
      <4>1. k[1] # w /\ job'[k] = job[k] /\ w \notin hurt
        BY <1>4, <2>2, <3>1, <3>2
      <4>2. job[k].pin # pin
        BY <1>10, <2>2, <3>1, <4>1
      <4>. QED BY <1>4, <3>2, <4>1, <4>2
    <3>3. CASE k = <<w, last[w]>>
      <4>1. j[1] # w /\ job'[j] = job[j] /\ w \notin hurt
        BY <1>4, <2>2, <3>1, <3>3
      <4>2. job[j].pin # pin
        BY <1>10, <2>2, <3>1, <4>1
      <4>. QED BY <1>4, <3>3, <4>1, <4>2
    <3>4. CASE j # <<w, last[w]>> /\ k # <<w, last[w]>>
      BY <1>1, <1>4, <2>2, <3>4 DEF CoresOK
    <3>. QED BY <3>2, <3>3, <3>4
  <2>3. hurt' = hurt
    BY <1>2 DEF history
  <2>. QED BY <2>1, <2>2, <2>3 DEF CoresOK
<1>12. ASSUME w \notin hurt' PROVE OneWorker(w)'
  <2>1. OneWorker(w) /\ w \notin hurt
    BY <1>2, <1>12 DEF IInv, history
  <2>2. /\ file[w] = 0 /\ att[<<w, last[w]>>] = "running" /\ status[w] = "open"
        /\ sched # For("stage", w)
    BY <1>1, <1>4, <2>1, SchedIs DEF OneWorker
  <2>3. \A m \in Attempts : job'[<<w, m>>].pc \in InQueue => m = last[w]
    BY <1>4, <1>5, <2>1
  <2>4. \A m \in Attempts : job'[<<w, m>>].claim \in {0, m}
    BY <1>4, <1>5, <2>1 DEF OneWorker
  <2>5. sched' \notin {For("stage", w), For("launch", w), For("mark", w)}
    BY <1>8 DEF Undertaken
  <2>6. ledger'[w].job = 0
    BY <1>1, <1>2, RecordsAre DEF BoardOK
  <2>. QED BY <1>2, <1>4, <1>6, <1>8, <2>1, <2>2, <2>3, <2>4, <2>5, <2>6 DEF OneWorker, disk, history
<1>13. ASSUME w \notin twins PROVE OneWriter(w)'
  <2>1. "queued" \notin Live
    BY StagesAre
  <2>. QED BY <1>1, <1>2, <1>4, <1>5, <1>13, <2>1, WriterFrame DEF IInv, disk
<1>. QED BY <1>1, <1>2, <1>4, <1>5, <1>6, <1>7, <1>8, <1>9, <1>11, <1>12, <1>13, WorkStep
         DEF disk, history

--------------------------------------------------------------------------------
\* An answer about a work that is let stand.
LEMMA AnswerKeeps ==
    ASSUME IInv, NEW w \in Work,
           Waits(w) \/ Vague(w) \/ Seen(w) \/ Misses(w) \/ Grace(w)
    PROVE  IInv'
<1>. DEFINE Entry == [job : 0 .. MaxAttempts, gone : {"no", "since", "over"}]
            Whole == /\ todo' \subseteq Work /\ left' \in Nat
                     /\ ledger' \in [Work -> Entry] /\ unseen' \in [Work -> 0..2]
            Counted == \A v \in Work : /\ ledger'[v].job = ledger[v].job
                                       /\ ledger'[v].gone # "no" => unseen'[v] >= 1
            Else == UNCHANGED <<backend, sched, status, last, att, manifest, job, leases, disk, hurt,
                                twins>>
<1>1. /\ TypeOK /\ BoardOK /\ todo \subseteq Work /\ left \in Nat /\ ledger \in [Work -> Entry]
      /\ unseen \in [Work -> 0..2] /\ ledger[w] \in Entry
      /\ \A v \in Work : ledger[v].gone # "no" => unseen[v] >= 1
  BY DEF IInv, TypeOK, BoardOK
<1>2. ledger[w].job # 0 \/ ledger[w].gone # "no" => backend # "local"
  BY <1>1, RecordsAre DEF BoardOK
<1>3. CASE Waits(w) \/ Vague(w)
  <2>1. Whole /\ Counted /\ Else /\ ledger' = ledger
    BY <1>1, <1>3 DEF Waits, Vague, Spends, history
  <2>. QED BY <2>1, Unmoved
<1>. DEFINE Marked(gone) == [ledger[w] EXCEPT !.gone = gone]
<1>4. \A gone \in {"no", "since", "over"} :
          Marked(gone) \in Entry /\ Marked(gone).job = ledger[w].job /\ Marked(gone).gone = gone
  <2>1. \A e \in Entry, gone \in {"no", "since", "over"} :
            /\ [e EXCEPT !.gone = gone] \in Entry
            /\ [e EXCEPT !.gone = gone].job = e.job /\ [e EXCEPT !.gone = gone].gone = gone
    OBVIOUS
  <2>. QED BY <1>1, <2>1, Zenon
<1>. HIDE DEF Marked, Entry
<1>5. CASE Seen(w)
  <2>1. /\ ledger' = [ledger EXCEPT ![w] = Marked("no")] /\ unseen' = [unseen EXCEPT ![w] = 0]
        /\ todo' \subseteq Work /\ left' = left /\ Else /\ ledger[w].job # 0
    BY <1>1, <1>5 DEF Seen, Marked
  <2>2. /\ ledger'[w] = Marked("no")
        /\ \A v \in Work \ {w} : ledger'[v] = ledger[v] /\ unseen'[v] = unseen[v]
    BY <1>1, <2>1
  <2>3. Counted
    BY <1>1, <1>4, <2>2
  <2>4. Whole
    <3>1. 0 \in 0..2 /\ Marked("no") \in Entry
      BY <1>4
    <3>. QED BY <1>1, <2>1, <3>1
  <2>. QED BY <1>2, <2>1, <2>3, <2>4, Unmoved DEF Entry
<1>6. CASE Misses(w)
  <2>1. PICK gone \in {"since", "over"} : ledger' = [ledger EXCEPT ![w] = Marked(gone)]
    <3>1. ledger[w].gone \in {"no", "since", "over"}
      BY <1>1 DEF Entry
    <3>2. ledger' = [ledger EXCEPT ![w] = Marked(IF ledger[w].gone = "no" THEN "since" ELSE ledger[w].gone)]
      BY <1>1, <1>6 DEF Misses, Marked
    <3>. QED BY <3>1, <3>2
  <2>2. /\ todo' \subseteq Work /\ left' \in Nat /\ Else /\ ledger[w].job # 0
    BY <1>1, <1>6 DEF Misses, Blindness
  <2>3. PICK u \in 1..2 : unseen' = [unseen EXCEPT ![w] = u]
    <3>1. unseen[w] \in 0..2
      BY <1>1
    <3>2. unseen' = [unseen EXCEPT ![w] = IF unseen[w] < 2 THEN unseen[w] + 1 ELSE unseen[w]]
      BY <1>1, <1>6 DEF Misses, MissedAgain
    <3>3. (IF unseen[w] < 2 THEN unseen[w] + 1 ELSE unseen[w]) \in 1..2
      BY <3>1
    <3>. QED BY <3>2, <3>3
  <2>4. /\ ledger'[w] = Marked(gone) /\ unseen'[w] = u
        /\ \A v \in Work \ {w} : ledger'[v] = ledger[v] /\ unseen'[v] = unseen[v]
    BY <1>1, <2>1, <2>3
  <2>5. Counted
    BY <1>1, <1>4, <2>4
  <2>6. Whole
    <3>1. u \in 0..2 /\ Marked(gone) \in Entry
      BY <1>4
    <3>. QED BY <1>1, <2>1, <2>2, <2>3, <3>1
  <2>. QED BY <1>2, <2>2, <2>5, <2>6, Unmoved DEF Entry
<1>7. CASE Grace(w)
  <2>1. /\ ledger' = [ledger EXCEPT ![w] = Marked("over")] /\ unseen' = unseen
        /\ todo' = todo /\ left' = left /\ Else /\ ledger[w].gone # "no"
    BY <1>1, <1>7 DEF Grace, Marked, history, board
  <2>2. /\ ledger'[w] = Marked("over") /\ \A v \in Work \ {w} : ledger'[v] = ledger[v]
    BY <1>1, <2>1
  <2>3. Counted
    BY <1>1, <1>4, <2>1, <2>2
  <2>4. Whole
    <3>1. Marked("over") \in Entry
      BY <1>4
    <3>. QED BY <1>1, <2>1, <3>1
  <2>. QED BY <1>2, <2>1, <2>3, <2>4, Unmoved DEF Entry
<1>. QED BY <1>3, <1>5, <1>6, <1>7

\* One that is not: the job is removed, unless its removal is refused.
LEMMA GivesUpKeeps ==
    ASSUME IInv, NEW w \in Work, GivesUpGone(w) \/ GivesUpHeld(w)
    PROVE  IInv'
<1>. DEFINE n == ledger[w].job
<1>1. /\ TypeOK /\ BoardOK /\ CoresOK /\ Asks(w) /\ n # 0 /\ n \in Attempts /\ <<w, n>> \in Jobs
      /\ backend # "local"
  <2>1. TypeOK /\ BoardOK /\ CoresOK /\ Asks(w) /\ n # 0
    BY DEF IInv, GivesUpGone, GivesUpHeld
  <2>2. backend # "local"
    BY <2>1, RecordsAre DEF BoardOK
  <2>. QED BY <2>1, <2>2, TypesAre, JobIs
<1>. HIDE DEF n
<1>2. PICK cost \in 0..1 : Removes(w, cost)
  BY DEF GivesUpGone, GivesUpHeld, Blindness
<1>3. /\ unseen' \in [Work -> 0..2]
      /\ \A v \in Work \ {w} : unseen'[v] = unseen[v]
  <2>1. unseen \in [Work -> 0..2]
    BY <1>1 DEF TypeOK
  <2>2. unseen[w] \in 0..2
    BY <2>1
  <2>3. PICK u \in 0..2 : unseen' = [unseen EXCEPT ![w] = u]
    <3>1. CASE GivesUpHeld(w)
      BY <2>1, <2>2, <3>1 DEF GivesUpHeld
    <3>2. CASE GivesUpGone(w)
      <4>1. unseen' = [unseen EXCEPT ![w] = IF unseen[w] < 2 THEN unseen[w] + 1 ELSE unseen[w]]
        BY <2>1, <3>2 DEF GivesUpGone, MissedAgain
      <4>2. (IF unseen[w] < 2 THEN unseen[w] + 1 ELSE unseen[w]) \in 0..2
        BY <2>2
      <4>. QED BY <4>1, <4>2
    <3>. QED BY <3>1, <3>2
  <2>. QED BY <2>1, <2>3
<1>4. /\ UNCHANGED <<backend, todo, status, last, att, manifest, leases, disk, twins>>
      /\ ledger' = [ledger EXCEPT ![w] = NoEntry] /\ sched' = For("mark", w)
      /\ left' \in Nat /\ hurt \subseteq hurt' /\ hurt' \subseteq Work
  <2>1. UNCHANGED <<backend, todo, status, last, att, manifest, leases, disk, twins>>
    BY DEF GivesUpGone, GivesUpHeld
  <2>2. left' \in Nat /\ hurt \subseteq hurt' /\ hurt' \subseteq Work
    BY <1>1, <1>2 DEF Removes, TypeOK
  <2>. QED BY <1>2, <2>1, <2>2 DEF Removes
<1>. DEFINE r == [NoJob EXCEPT !.pc = "gone"]
<1>5. /\ r \in JobRecord /\ r.pc = "gone" /\ r.claim = 0 /\ r.pc \notin InQueue
  BY RecordsAre, StagesAre
<1>6. job' = job \/ (job' = [job EXCEPT ![<<w, n>>] = r])
  BY <1>2 DEF Removes, Ended, n
<1>7. w \notin hurt' => job' = IF job[<<w, n>>].pc \in InQueue THEN [job EXCEPT ![<<w, n>>] = r] ELSE job
  BY <1>2 DEF Removes, Ended, n
<1>. HIDE DEF r
<1>8. /\ job' \in [Jobs -> JobRecord]
      /\ \A m \in Attempts : job'[<<w, m>>] = job[<<w, m>>] \/ job'[<<w, m>>] = r
      /\ \A v \in Work \ {w}, m \in Attempts : job'[<<v, m>>] = job[<<v, m>>]
      /\ w \notin hurt' => job'[<<w, n>>].pc \notin InQueue
  <2>1. job \in [Jobs -> JobRecord]
    BY <1>1 DEF TypeOK, JobRecord
  <2>2. job' \in [Jobs -> JobRecord]
    BY <1>5, <1>6, <2>1
  <2>3. \A j \in Jobs : j # <<w, n>> => job'[j] = job[j]
    BY <1>6, <2>1
  <2>4. job'[<<w, n>>] = job[<<w, n>>] \/ job'[<<w, n>>] = r
    BY <1>1, <1>6, <2>1
  <2>5. w \notin hurt' => job'[<<w, n>>].pc \notin InQueue
    BY <1>1, <1>5, <1>7, <2>1
  <2>6. \A m \in Attempts : job'[<<w, m>>] = job[<<w, m>>] \/ job'[<<w, m>>] = r
    BY <2>3, <2>4, JobIs
  <2>7. \A v \in Work \ {w}, m \in Attempts : job'[<<v, m>>] = job[<<v, m>>]
    BY <2>3, JobIs
  <2>. QED BY <2>2, <2>5, <2>6, <2>7
<1>9. /\ ledger'[w] = NoEntry /\ \A v \in Work \ {w} : ledger'[v] = ledger[v]
      /\ ledger' \in [Work -> [job : 0 .. MaxAttempts, gone : {"no", "since", "over"}]]
  <2>1. NoEntry \in [job : 0 .. MaxAttempts, gone : {"no", "since", "over"}]
    BY NumbersAre DEF NoEntry
  <2>2. ledger \in [Work -> [job : 0 .. MaxAttempts, gone : {"no", "since", "over"}]]
    BY <1>1 DEF TypeOK
  <2>. QED BY <1>4, <2>1, <2>2
<1>10. TypeOK'
  <2>1. sched' \in [do : {"stage", "launch", "note", "mark"}, work : Work]
    BY <1>4, SchedType
  <2>. QED BY <1>1, <1>3, <1>4, <1>8, <1>9, <2>1 DEF TypeOK, JobRecord, disk
<1>11. /\ \A v \in Work : ~Launching(v)' /\ ~Undertaken(v) /\ ~Launching(v)
       /\ \A v \in Work \ {w} : ~Undertaken(v)'
       /\ sched' # For("stage", w) /\ sched # For("stage", w)
  <2>1. sched = Idle
    BY <1>1 DEF Asks
  <2>. QED BY <1>4, <2>1, SchedIs, AboutNone DEF Undertaken, Launching
<1>12. BoardOK'
  <2>1. \A v \in Work : ledger'[v].gone # "no" => unseen'[v] >= 1
    BY <1>1, <1>3, <1>9, RecordsAre DEF BoardOK
  <2>. QED BY <1>1, <1>4, <1>11, <2>1 DEF BoardOK
<1>13. CoresOK'
  BY <1>1, <1>4 DEF CoresOK
<1>14. ASSUME w \notin hurt' PROVE OneWorker(w)'
  <2>1. OneWorker(w) /\ w \notin hurt
    BY <1>4, <1>14 DEF IInv
  <2>2. last[w] = n
    BY <1>1, <1>11, <2>1 DEF OneWorker, n
  <2>3. ASSUME NEW m \in Attempts PROVE job'[<<w, m>>].pc \notin InQueue
    <3>1. CASE m = n
      BY <1>8, <1>14, <3>1
    <3>2. CASE m # n
      BY <1>5, <1>8, <2>1, <2>2, <3>2 DEF OneWorker
    <3>. QED BY <3>1, <3>2
  <2>4. \A m \in Attempts : job'[<<w, m>>].claim \in {0, m}
    BY <1>5, <1>8, <2>1 DEF OneWorker
  <2>5. file[w] = 0
    BY <1>1 DEF Asks
  <2>. QED BY <1>4, <1>9, <1>11, <2>1, <2>3, <2>4, <2>5, RecordsAre DEF OneWorker, disk
<1>15. ASSUME w \notin twins PROVE OneWriter(w)'
  <2>1. r.pc \notin Live
    BY <1>5, StagesAre
  <2>. QED BY <1>4, <1>8, <1>15, <2>1, WriterFrame DEF IInv, disk
<1>. QED BY <1>4, <1>8, <1>9, <1>10, <1>11, <1>12, <1>13, <1>14, <1>15, WorkStep DEF disk

\* A scheduler that stops anywhere and starts again keeps the invariant.
LEMMA CrashKeeps == ASSUME IInv, Crash PROVE IInv'
<1>1. /\ TypeOK /\ BoardOK /\ CoresOK /\ left' \in Nat
  BY DEF IInv, Crash, Spends, TypeOK
<1>2. /\ sched' = Idle /\ todo' = {} /\ leases' = [w \in Work |-> 0]
      /\ UNCHANGED <<backend, status, last, manifest, ledger, disk, twins, unseen>>
  BY DEF Crash
<1>3. \A v \in Work : ~Undertaken(v)' /\ ~Launching(v)'
  BY <1>2, AboutNone
<1>4. /\ att' \in [Jobs -> {"none", "running", "failed", "lost", "succeeded"}]
      /\ job' \in [Jobs -> JobRecord]
      /\ \A j \in Jobs : job'[j] = job[j] \/ (job'[j] = Gone /\ job[j].pc \in InQueue)
      /\ hurt \subseteq hurt' /\ hurt' \subseteq Work
      /\ backend # "local" => att' = att
  <2>1. CASE backend = "local"
    <3>1. PICK die \in BOOLEAN :
             job' = [j \in Jobs |-> IF die /\ job[j].pc \in Waiting \cup Live THEN Gone ELSE job[j]]
      BY <2>1 DEF Crash
    <3>2. /\ \A j \in Jobs : job'[j] = job[j] \/ (job'[j] = Gone /\ job[j].pc \in InQueue)
          /\ job' \in [Jobs -> JobRecord]
      BY <1>1, <3>1, RecordsAre, StagesAre DEF TypeOK, JobRecord
    <3>3. /\ att' = [j \in Jobs |-> IF att[j] = "running" THEN "lost" ELSE att[j]]
          /\ hurt' = hurt \cup {w \in Work : Running(w) # {}}
      BY <2>1 DEF Crash
    <3>4. att' \in [Jobs -> {"none", "running", "failed", "lost", "succeeded"}]
      BY <1>1, <3>3 DEF TypeOK
    <3>. QED BY <1>1, <2>1, <3>2, <3>3, <3>4 DEF TypeOK
  <2>2. CASE backend # "local"
    <3>1. att' = att /\ job' = job /\ hurt' = IF sched = Idle THEN hurt ELSE hurt \cup {sched.work}
      BY <2>2 DEF Crash
    <3>. QED BY <1>1, <3>1, SchedType DEF TypeOK, JobRecord
  <2>. QED BY <2>1, <2>2
<1>5. TypeOK'
  <2>1. leases' \in [Work -> 0..MaxAttempts]
    BY <1>2, NumbersAre
  <2>. QED BY <1>1, <1>2, <1>4, <2>1 DEF TypeOK, JobRecord, disk
<1>6. BoardOK'
  <2>1. backend = "local" => \A j \in Jobs : job'[j].pc # "held"
    <3>1. backend = "local" => \A j \in Jobs : job[j].pc # "held"
      BY <1>1 DEF BoardOK
    <3>2. Gone.pc # "held"
      BY RecordsAre
    <3>. QED BY <1>4, <3>1, <3>2
  <2>2. sched'.do \notin {"note", "mark"}
    BY <1>2, SchedIs
  <2>. QED BY <1>1, <1>2, <1>3, <2>1, <2>2 DEF BoardOK
<1>7. CoresOK'
  <2>1. \A j \in Jobs : /\ job'[j].pc \in InQueue => job[j].pc \in InQueue /\ job'[j].pin = job[j].pin
                        /\ job[j].pc # "none" => job'[j].pc # "none"
    BY <1>4, RecordsAre, StagesAre
  <2>. QED BY <1>1, <1>2, <1>4, <2>1, CoresFrame
<1>8. ASSUME NEW w \in Work \ hurt' PROVE OneWorker(w)'
  <2>1. OneWorker(w) /\ w \notin twins
    BY <1>4, <1>8 DEF IInv, OneWorker
  <2>2. \A n \in Attempts : /\ job'[<<w, n>>].claim \in {0, job[<<w, n>>].claim}
                            /\ job'[<<w, n>>].pc \in InQueue => job[<<w, n>>].pc \in InQueue
    BY <1>4, JobIs, RecordsAre, StagesAre, ZenonT(30)
  <2>3. CASE backend = "local"
    <3>1. Running(w) = {}
      BY <1>8, <2>3 DEF Crash
    <3>2. \A n \in Attempts : att[<<w, n>>] # "running"
      BY <3>1 DEF Running
    <3>3. last[w] > 0 => last[w] \in Attempts
      BY <1>1, TypesAre
    <3>4. file[w] = 0 /\ ~Launching(w) /\ \A n \in Attempts : job[<<w, n>>].pc \notin InQueue
      BY <1>1, <2>1, <3>2, <3>3 DEF OneWorker, BoardOK
    <3>5. manifest[w] = last[w]
      BY <2>1, <3>4 DEF OneWorker, Launching
    <3>6. sched' \notin {For("stage", w), For("launch", w), For("mark", w)}
      BY <1>3 DEF Undertaken
    <3>. QED BY <1>2, <1>3, <2>1, <2>2, <3>4, <3>5, <3>6 DEF OneWorker, disk
  <2>4. CASE backend # "local"
    <3>1. sched = Idle \/ (sched # Idle /\ sched.work # w)
      BY <1>8, <2>4 DEF Crash
    <3>2. ~Undertaken(w)
      BY <3>1, SchedIs DEF Undertaken
    <3>3. \A n \in Attempts : att'[<<w, n>>] = att[<<w, n>>]
      BY <1>4, <2>4
    <3>4. ASSUME NEW n \in Attempts, job'[<<w, n>>].pc \in InQueue
          PROVE  /\ n = last[w] /\ att'[<<w, n>>] = "running" /\ file'[w] = 0 /\ status'[w] = "open"
                 /\ sched' \notin {For("stage", w), For("launch", w), For("mark", w)}
      BY <1>2, <1>3, <2>1, <2>2, <3>3, <3>4 DEF OneWorker, disk, Undertaken
    <3>5. last[w] > 0 => att'[<<w, last[w]>>] = att[<<w, last[w]>>]
      BY <1>1, <3>3, TypesAre
    <3>6. ~Launching(w) /\ sched # For("stage", w)
      BY <3>2 DEF Undertaken, Launching
    <3>7. \A n \in Attempts : job'[<<w, n>>].claim \in {0, n}
      BY <2>1, <2>2 DEF OneWorker
    <3>8. sched' \notin {For("stage", w), For("launch", w), For("mark", w)}
      BY <1>3 DEF Undertaken
    <3>9. file'[w] # 0 => last'[w] > 0 /\ att'[<<w, last'[w]>>] = "running" /\ status'[w] = "open"
      BY <1>2, <2>1, <3>5 DEF OneWorker, disk
    <3>. QED BY <1>2, <1>3, <2>1, <2>4, <3>4, <3>6, <3>7, <3>8, <3>9 DEF OneWorker, disk
  <2>. QED BY <2>3, <2>4
<1>9. ASSUME NEW w \in Work \ twins' PROVE OneWriter(w)'
  <2>1. Gone.pc \notin Live
    BY RecordsAre, StagesAre
  <2>. QED BY <1>2, <1>4, <1>9, <2>1, JobIs, WriterFrame DEF IInv, disk
<1>. QED BY <1>5, <1>6, <1>7, <1>8, <1>9 DEF IInv

--------------------------------------------------------------------------------
\* A run begins with the invariant, and every step keeps it.
LEMMA Begins == Init => IInv
<1>1. SUFFICES ASSUME Init PROVE IInv
  OBVIOUS
<1>2. /\ sched = Idle /\ todo = {} /\ hurt = {} /\ twins = {}
      /\ \A w \in Work : /\ last[w] = 0 /\ manifest[w] = 0 /\ leases[w] = 0 /\ ledger[w] = NoEntry
                         /\ tmp[w] = 0 /\ file[w] = 0 /\ unseen[w] = 0
      /\ \A j \in Jobs : job[j] = NoJob
  BY <1>1 DEF Init
<1>3. TypeOK
  <2>1. PICK run \in Runs : /\ backend = run.backend /\ left = run.faults
                            /\ status = [w \in Work |-> IF w \in run.work THEN "queued" ELSE "done"]
    BY <1>1 DEF Init
  <2>2. run \in RunOf
    BY TransportAssumption DEF TransportConstants
  <2>3. backend \in {"local", "condor"} /\ left \in Nat
    BY <2>1, <2>2 DEF RunOf
  <2>4. status \in [Work -> {"queued", "open", "done"}]
    BY <2>1
  <2>5. /\ 0 \in 0..MaxAttempts /\ 0 \in 0..2
        /\ NoEntry \in [job : 0 .. MaxAttempts, gone : {"no", "since", "over"}]
        /\ Empty \in FileRecord
    BY NumbersAre DEF NoEntry, Empty, FileRecord
  <2>6. /\ last = [w \in Work |-> 0] /\ att = [j \in Jobs |-> "none"]
        /\ manifest = [w \in Work |-> 0] /\ job = [j \in Jobs |-> NoJob]
        /\ leases = [w \in Work |-> 0] /\ ledger = [w \in Work |-> NoEntry]
        /\ tmp = [w \in Work |-> 0] /\ file = [w \in Work |-> 0]
        /\ content = [w \in Work |-> [i \in Inodes |-> Empty]]
        /\ unseen = [w \in Work |-> 0]
    BY <1>1 DEF Init
  <2>7. job \in [Jobs -> JobRecord]
    BY <2>6, RecordsAre
  <2>8. /\ last \in [Work -> 0 .. MaxAttempts] /\ manifest \in [Work -> 0 .. MaxAttempts]
        /\ leases \in [Work -> 0 .. MaxAttempts] /\ unseen \in [Work -> 0 .. 2]
        /\ ledger \in [Work -> [job : 0 .. MaxAttempts, gone : {"no", "since", "over"}]]
    BY <2>5, <2>6
  <2>9. /\ att \in [Jobs -> {"none", "running", "failed", "lost", "succeeded"}]
        /\ tmp \in [Work -> {0} \cup Inodes] /\ file \in [Work -> {0} \cup Inodes]
        /\ content \in [Work -> [Inodes -> FileRecord]]
    BY <2>5, <2>6
  <2>. QED BY <1>2, <2>3, <2>4, <2>7, <2>8, <2>9 DEF TypeOK, JobRecord, FileRecord
<1>4. \A w \in Work : ~Undertaken(w) /\ ~Launching(w)
  BY <1>2, AboutNone
<1>5. BoardOK
  <2>1. sched.do \notin {"note", "mark"}
    BY <1>2, SchedIs
  <2>. QED BY <1>2, <1>4, <2>1, RecordsAre DEF BoardOK
<1>6. "none" \notin InQueue /\ "none" \notin Live
  BY StagesAre
<1>7. CoresOK
  BY <1>2, <1>6, RecordsAre, ZenonT(30) DEF CoresOK
<1>8. ASSUME NEW w \in Work PROVE OneWorker(w) /\ OneWriter(w)
  <2>1. \A n \in Attempts : job[<<w, n>>].pc = "none" /\ job[<<w, n>>].claim = 0
    <3>1. \A n \in Attempts : job[<<w, n>>] = NoJob
      BY <1>2, JobIs
    <3>. QED BY <3>1, RecordsAre
  <2>2. sched \notin {For("stage", w), For("launch", w), For("mark", w)}
    BY <1>4 DEF Undertaken
  <2>3. OneWorker(w)
    <3>1. ledger[w].job = 0
      BY <1>2, RecordsAre
    <3>2. \A n \in Attempts : job[<<w, n>>].claim \in {0, n} /\ job[<<w, n>>].pc \notin InQueue
      BY <1>6, <2>1
    <3>. QED BY <1>2, <1>4, <2>2, <3>1, <3>2 DEF OneWorker
  <2>4. OneWriter(w)
    BY <1>2, <1>6, <2>1 DEF OneWriter
  <2>. QED BY <2>3, <2>4
<1>. QED BY <1>3, <1>5, <1>7, <1>8 DEF IInv

\* Every step keeps the invariant.
LEMMA Keeps == IInv /\ [Next]_vars => IInv'
<1>1. SUFFICES ASSUME IInv, [Next]_vars PROVE IInv'
  OBVIOUS
<1>2. CASE UNCHANGED vars
  BY <1>1, <1>2, Unmoved DEF vars, board, history, IInv, TypeOK, BoardOK
<1>3. CASE \E w \in Work : Begin(w) \/ Resubmit(w) \/ Reconcile(w) \/ Ingest(w) \/ Grace(w)
  BY <1>1, <1>3, BeginKeeps, AnswerKeeps, GivesUpKeeps, IngestKeeps DEF Reconcile
<1>4. CASE Scheduler
  BY <1>1, <1>4, StageKeeps, LaunchLocalKeeps, LaunchCondorKeeps, RecordJobKeeps, MarkKeeps
     DEF Scheduler
<1>5. CASE Crash
  BY <1>1, <1>5, CrashKeeps
<1>6. CASE \E w \in Work, n \in Attempts : Serve(w, n) \/ Kill(w, n) \/ Hold(w, n)
  BY <1>1, <1>6, BootKeeps, OpenKeeps, FillKeeps, ReplaceKeeps, EndKeeps DEF Serve
<1>. QED BY <1>1, <1>2, <1>3, <1>4, <1>5, <1>6 DEF Next

\* The invariant is Undisturbed and more.
LEMMA Suffices == IInv => Undisturbed
<1>1. SUFFICES ASSUME IInv PROVE Undisturbed
  OBVIOUS
<1>2. AloneUnlessHurt
  BY <1>1 DEF IInv, OneWorker, AloneUnlessHurt
<1>3. WholeUnlessTwins
  BY <1>1 DEF IInv, OneWriter, WholeUnlessTwins
<1>4. PinsExclusive
  <2>1. ASSUME backend = "local", Cores >= Cardinality(Work), NEW j \in Jobs, NEW k \in Jobs, j # k,
               {j[1], k[1]} \cap hurt = {}, job[j].pc \in Live, job[k].pc \in Live
        PROVE  job[j].pin # job[k].pin
    <3>1. /\ j[1] \in Work /\ j[2] \in Attempts /\ j = <<j[1], j[2]>>
          /\ k[1] \in Work /\ k[2] \in Attempts /\ k = <<k[1], k[2]>>
      BY JobIs
    <3>2. job[j].pc \in InQueue /\ job[k].pc \in InQueue
      BY <2>1, StagesAre
    <3>3. ASSUME j[1] = k[1] PROVE FALSE
      <4>1. PICK w \in Work \ hurt : w = j[1]
        BY <2>1, <3>1
      <4>2. PICK m \in Attempts, n \in Attempts : m = j[2] /\ n = k[2]
        BY <3>1
      <4>3. j = <<w, m>> /\ k = <<w, n>>
        BY <3>1, <3>3, <4>1, <4>2
      <4>4. m = n
        BY <1>1, <3>2, <4>3, OnlyWorker
      <4>. QED BY <2>1, <4>3, <4>4
    <3>. QED BY <1>1, <2>1, <3>2, <3>3 DEF IInv, CoresOK
  <2>. QED BY <2>1 DEF PinsExclusive
<1>. QED BY <1>1, <1>2, <1>3, <1>4 DEF IInv, Undisturbed

\* A job leaves the ledger when it is held, or when two answers lacked it.
LEMMA StepTakesTwo ==
    ASSUME IInv, [Next]_vars, NEW w \in Work, ledger[w].job # 0, ledger'[w].job = 0
    PROVE  OnRecord(w) = "held" \/ unseen'[w] >= 2
<1>1. /\ TypeOK /\ BoardOK /\ ledger \in [Work -> [job : 0 .. MaxAttempts, gone : {"no", "since", "over"}]]
      /\ unseen \in [Work -> 0..2]
  BY DEF IInv, TypeOK
<1>2. ledger' # ledger
  OBVIOUS
<1>3. ASSUME NEW v \in Work, NEW e, ledger' = [ledger EXCEPT ![v] = e], e.job # 0 \/ v # w
      PROVE  FALSE
  BY <1>1, <1>3
<1>4. ASSUME NEW v \in Work, NEW gone, ledger' = [ledger EXCEPT ![v].gone = gone] PROVE FALSE
  <2>1. \A e \in [job : 0 .. MaxAttempts, gone : {"no", "since", "over"}] :
            [e EXCEPT !.gone = gone].job = e.job
    OBVIOUS
  <2>2. ledger' = [ledger EXCEPT ![v] = [ledger[v] EXCEPT !.gone = gone]]
    BY <1>1, <1>4
  <2>3. ledger'[v] = [ledger[v] EXCEPT !.gone = gone] /\ (v # w => ledger'[w] = ledger[w])
    BY <1>1, <2>2
  <2>4. ledger'[v].job = ledger[v].job
    BY <1>1, <2>1, <2>3, Zenon
  <2>. QED BY <2>3, <2>4
<1>5. CASE GivesUpHeld(w)
  BY <1>5 DEF GivesUpHeld
<1>6. CASE GivesUpGone(w)
  <2>1. unseen[w] >= 1 /\ unseen[w] \in 0..2
    BY <1>1, <1>6 DEF GivesUpGone, BoardOK
  <2>2. unseen'[w] = IF unseen[w] < 2 THEN unseen[w] + 1 ELSE unseen[w]
    BY <1>1, <1>6 DEF GivesUpGone, MissedAgain
  <2>. QED BY <2>1, <2>2
<1>7. ASSUME NEW v \in Work, v # w, GivesUpHeld(v) \/ GivesUpGone(v) PROVE FALSE
  <2>1. ledger' = [ledger EXCEPT ![v] = NoEntry]
    BY <1>7 DEF GivesUpHeld, GivesUpGone, Removes
  <2>. QED BY <1>3, <1>7, <2>1
<1>8. CASE RecordJob
  <2>1. PICK v \in Work : v = sched.work /\ Launching(v)
    BY <1>1, <1>8, About DEF RecordJob
  <2>2. ledger' = [ledger EXCEPT ![v] = [job |-> last[v], gone |-> "no"]] /\ last[v] > 0
    BY <1>1, <1>8, <2>1 DEF RecordJob, BoardOK
  <2>3. [job |-> last[v], gone |-> "no"].job # 0
    BY <1>1, <2>2, TypesAre
  <2>. QED BY <1>3, <2>2, <2>3
<1>9. ASSUME NEW v \in Work, Seen(v) \/ Misses(v) \/ Grace(v) PROVE FALSE
  <2>1. CASE Seen(v)
    BY <1>4, <2>1 DEF Seen
  <2>2. CASE Misses(v)
    <3>1. ledger' = [ledger EXCEPT ![v].gone = IF ledger[v].gone = "no" THEN "since" ELSE ledger[v].gone]
      BY <1>1, <2>2 DEF Misses
    <3>. QED BY <1>4, <3>1
  <2>3. CASE Grace(v)
    BY <1>4, <2>3 DEF Grace
  <2>. QED BY <1>9, <2>1, <2>2, <2>3
<1>10. ASSUME NEW v \in Work, Begin(v) \/ Resubmit(v) \/ Waits(v) \/ Vague(v) \/ Ingest(v) PROVE FALSE
  BY <1>2, <1>10 DEF Begin, Resubmit, Waits, Vague, Ingest
<1>11. CASE Stage \/ LaunchLocal \/ LaunchCondor \/ MarkFailed \/ Crash \/ UNCHANGED vars
  BY <1>2, <1>11 DEF Stage, LaunchLocal, LaunchCondor, MarkFailed, Crash, vars
<1>12. ASSUME NEW v \in Work, NEW n \in Attempts, Serve(v, n) \/ Kill(v, n) \/ Hold(v, n) PROVE FALSE
  BY <1>2, <1>12 DEF Serve, Boot, Open, Fill, Replace, Kill, Hold
<1>. QED BY <1>5, <1>6, <1>7, <1>8, <1>9, <1>10, <1>11, <1>12 DEF Next, Scheduler, Reconcile

\* However the scheduler, the workers, the queue's answers, crashes and faults
\* interleave, a work that nobody crashed upon or failed to remove has one
\* worker, one report of it at a time is written, and whole, and it measures on
\* a core of its own; for every number of works, attempts, cores and faults
\* (probe_job, _wait_or_retry, _atomic_json, _bench_pin_for).
THEOREM Transport == Spec => []Undisturbed
<1>1. Spec => []IInv
  BY Begins, Keeps, PTL DEF Spec
<1>. QED BY <1>1, Suffices, PTL

\* A job is given up when it is held, or when two answers lacked it with none
\* between that showed it idle or running (probe_job).
THEOREM GivesUp == Spec => GoneTakesTwo
<1>1. Spec => []IInv
  BY Begins, Keeps, PTL DEF Spec
<1>2. IInv /\ [Next]_vars
      => [\A w \in Work : ledger[w].job # 0 /\ ledger'[w].job = 0
                          => OnRecord(w) = "held" \/ unseen'[w] >= 2]_vars
  BY StepTakesTwo
<1>. QED BY <1>1, <1>2, PTL DEF Spec, GoneTakesTwo

--------------------------------------------------------------------------------
(***************************************************************************)
(* A call of the model: one deadline, some attempts, a stream of pieces.   *)
(***************************************************************************)
InCreate == {"connect", "head", "pause"}

TimesOK ==
    /\ clock \in Nat /\ remaining \in 0..Timeout /\ waited \in Nat
    /\ posts \in Nat /\ pause \in 0..SdkPause
    /\ attempt \in Nat /\ spoke \in BOOLEAN
    /\ pc \in {"idle", "attempt", "stream"} \cup InCreate

\* One post and the pause after it.
Cycle == 2 * Allowance + SdkPause

\* While the provider is silent an attempt has used, of the call, what the posts
\* before took and what the read timer shows.
OnTime ==
    /\ pc = "attempt" => clock <= Timeout
    /\ pc = "stream" => spoke
    /\ pc \in InCreate => remaining > 0 /\ posts <= Reposts
    /\ pc \in {"connect", "head"} => waited <= Allowance
    /\ pc = "pause" => waited = 0
    /\ ~spoke =>
        /\ pc = "connect" => clock + remaining <= Timeout + posts * Cycle + waited
        /\ pc = "head" => clock + remaining <= Timeout + posts * Cycle + Allowance + waited
        /\ pc = "pause" => clock + remaining + pause <= Timeout + posts * Cycle
        /\ pc = "idle" => clock <= Longest

TimeInv == TimesOK /\ OnTime

--------------------------------------------------------------------------------
\* A product grows with its factors.
LEMMA TimesGrows ==
    ASSUME NEW a \in Nat, NEW b \in Nat, NEW c \in Nat, a <= b
    PROVE  a * c <= b * c /\ c * a <= c * b
<1>1. PICK d \in Nat : b = a + d
  <2>1. b - a \in Nat /\ b = a + (b - a)
    OBVIOUS
  <2>. QED BY <2>1
<1>2. b * c = a * c + d * c /\ d * c \in Nat /\ a * c \in Nat
  BY <1>1
<1>3. c * b = c * a + c * d /\ c * d \in Nat /\ c * a \in Nat
  BY <1>1
<1>. QED BY <1>2, <1>3

\* The numbers a call is measured with.
LEMMA AllowanceIs ==
    ASSUME TimesOK
    PROVE  /\ Timeout \in Nat /\ Second \in Nat \ {0} /\ SdkPause \in Nat
           /\ Allowance \in Nat /\ Reposts \in Nat /\ Cycle \in Nat
           /\ Allowance = remaining \/ (remaining < Second /\ Allowance = Second)
BY TimesAreNats, SdkIsBounded DEF Allowance, Reposts, Cycle, TimesOK

\* The timeouts and pauses of a call that began with so much of its deadline.
LEMMA LongestIs ==
    ASSUME NEW t \in Nat
    PROVE  LongestOf(t) = 2 * t + Reposts * (2 * t + SdkPause) /\ LongestOf(t) \in Nat
<1>1. Reposts \in Nat /\ SdkPause \in Nat
  BY SdkIsBounded DEF Reposts
<1>2. t * 2 * (Reposts + 1) = t * 2 * Reposts + t * 2
  BY <1>1
<1>3. Reposts * (2 * t + SdkPause) = Reposts * (2 * t) + Reposts * SdkPause
  BY <1>1
<1>4. t * 2 * Reposts = Reposts * (2 * t) /\ SdkPause * Reposts = Reposts * SdkPause
  BY <1>1
<1>5. Reposts * (2 * t) \in Nat /\ Reposts * SdkPause \in Nat
  BY <1>1
<1>. QED BY <1>1, <1>2, <1>3, <1>4, <1>5 DEF LongestOf

\* The deadline itself lies within the longest call.
LEMMA DeadlineIsShort == Timeout <= Longest /\ Longest \in Nat
<1>1. LongestOf(Timeout) \in Nat /\ LongestOf(Second) \in Nat /\ Timeout \in Nat
  BY LongestIs, TimesAreNats
<1>2. LongestOf(Timeout) = 2 * Timeout + Reposts * (2 * Timeout + SdkPause)
  BY LongestIs, TimesAreNats
<1>3. Reposts * (2 * Timeout + SdkPause) \in Nat
  BY <1>1, SdkIsBounded DEF Reposts
<1>. QED BY <1>1, <1>2, <1>3 DEF Longest

\* An attempt that began in time has used up its last wait within the longest call.
LEMMA AttemptIsShort ==
    ASSUME TimesOK, remaining > 0, posts <= Reposts,
           clock + remaining <= Timeout + posts * Cycle + 2 * Allowance
    PROVE  clock <= Longest
<1>. DEFINE r == remaining
            A == Allowance
<1>1. /\ Timeout \in Nat /\ Second \in Nat /\ SdkPause \in Nat /\ A \in Nat /\ Reposts \in Nat
      /\ Cycle \in Nat /\ Cycle = 2 * A + SdkPause /\ r \in 1..Timeout /\ clock \in Nat
      /\ posts \in Nat
  BY AllowanceIs DEF TimesOK, Cycle
<1>2. posts * Cycle <= Reposts * Cycle /\ posts * Cycle \in Nat /\ Reposts * Cycle \in Nat
  BY <1>1, TimesGrows
<1>3. LongestOf(A) = 2 * A + Reposts * Cycle /\ LongestOf(A) \in Nat
  BY <1>1, LongestIs
<1>4. clock + r <= Timeout + LongestOf(A)
  BY <1>1, <1>2, <1>3
<1>5. CASE A = r
  <2>. DEFINE k == Timeout - r
  <2>1. k \in Nat /\ Timeout = r + k
    BY <1>1
  <2>2. LongestOf(Timeout) = 2 * Timeout + Reposts * (2 * Timeout + SdkPause)
        /\ LongestOf(Timeout) \in Nat
    BY <1>1, LongestIs
  <2>3. Reposts * Cycle <= Reposts * (2 * Timeout + SdkPause)
        /\ Reposts * (2 * Timeout + SdkPause) \in Nat
    <3>1. Cycle <= 2 * Timeout + SdkPause /\ 2 * Timeout + SdkPause \in Nat
      BY <1>1, <1>5
    <3>. HIDE DEF A, r, k
    <3>. QED BY <1>1, <3>1, TimesGrows
  <2>. HIDE DEF A, r
  <2>4. clock <= LongestOf(Timeout)
    BY <1>1, <1>2, <1>3, <1>4, <1>5, <2>1, <2>2, <2>3
  <2>5. LongestOf(Second) \in Nat
    BY <1>1, LongestIs
  <2>. QED BY <1>1, <2>2, <2>4, <2>5 DEF Longest
<1>6. CASE A = Second
  <2>1. LongestOf(Second) \in Nat /\ LongestOf(Timeout) \in Nat
    BY <1>1, LongestIs
  <2>2. clock <= Timeout + LongestOf(Second)
    BY <1>1, <1>4, <1>6, <2>1
  <2>. QED BY <1>1, <2>1, <2>2 DEF Longest
<1>. QED BY <1>5, <1>6, AllowanceIs

\* Silent so far, no wait of the attempt has taken the call past that.
LEMMA SilentSoFar ==
    ASSUME TimeInv, pc \in {"connect", "head"}, ~spoke
    PROVE  clock + remaining <= Timeout + posts * Cycle + 2 * Allowance /\ clock <= Longest
<1>1. /\ TimesOK /\ remaining > 0 /\ posts <= Reposts /\ waited <= Allowance
      /\ \/ clock + remaining <= Timeout + posts * Cycle + waited
         \/ clock + remaining <= Timeout + posts * Cycle + Allowance + waited
  BY DEF TimeInv, OnTime, InCreate
<1>2. /\ posts * Cycle \in Nat /\ Allowance \in Nat /\ Timeout \in Nat
      /\ clock \in Nat /\ remaining \in Nat /\ waited \in Nat
  BY <1>1, AllowanceIs DEF TimesOK
<1>3. clock + remaining <= Timeout + posts * Cycle + 2 * Allowance
  BY <1>1, <1>2
<1>. QED BY <1>1, <1>3, AttemptIsShort

\* What Caught leaves behind: the end of the call, or another attempt in time.
LEMMA CaughtOnTime ==
    ASSUME TimesOK, NEW k \in CallFaults, Caught(k), spoke' \in BOOLEAN,
           ~spoke' => clock <= Longest
    PROVE  TimeInv'
<1>1. UNCHANGED <<transport, clock, remaining, posts, pause>> /\ waited' = 0 /\ Longest' = Longest
  BY DEF Caught, Longest, LongestOf, Reposts
<1>2. PICK mark \in Marks(k) :
         IF Retriable(mark)
         THEN pc' = "attempt" /\ attempt' = attempt + 1
         ELSE pc' = "idle" /\ UNCHANGED attempt
  BY Zenon DEF Caught
<1>3. CASE pc' = "idle" /\ attempt' = attempt
  BY <1>1, <1>3 DEF TimeInv, TimesOK, OnTime, InCreate
<1>4. CASE pc' = "attempt" /\ attempt' = attempt + 1 /\ Retriable(mark)
  <2>1. clock <= Timeout
    BY <1>4, TimesAreNats DEF Retriable, TimesOK
  <2>. QED BY <1>1, <1>4, <2>1 DEF TimeInv, TimesOK, OnTime, InCreate
<1>. QED BY <1>2, <1>3, <1>4

\* Nothing that time is measured with depends on anything else.
LEMMA MeasuresStay ==
    ASSUME UNCHANGED <<transport, remaining>>
    PROVE  /\ Allowance' = Allowance /\ Reposts' = Reposts /\ Cycle' = Cycle /\ Longest' = Longest
BY DEF Allowance, Reposts, Cycle, Longest, LongestOf

\* Every step keeps the bounds on what a call has waited.
LEMMA TimeStep == TimeInv /\ [CallNext]_clientVars => TimeInv'
<1>. SUFFICES ASSUME TimeInv, [CallNext]_clientVars PROVE TimeInv'
  OBVIOUS
<1>0. /\ TimesOK /\ OnTime /\ Timeout \in Nat /\ Timeout <= Longest /\ Longest \in Nat
      /\ SdkPause \in Nat /\ Allowance \in Nat /\ Reposts \in Nat /\ Cycle \in Nat
  <2>1. TimesOK /\ OnTime
    BY DEF TimeInv
  <2>2. Timeout <= Longest /\ Longest \in Nat
    BY DeadlineIsShort
  <2>3. /\ Timeout \in Nat /\ SdkPause \in Nat /\ Allowance \in Nat /\ Reposts \in Nat
        /\ Cycle \in Nat
    BY <2>1, AllowanceIs
  <2>. QED BY <2>1, <2>2, <2>3, Zenon
<1>. USE <1>0
<1>1. ASSUME NEW t \in BOOLEAN, Complete(t) PROVE TimeInv'
  <2>1. /\ pc' = "attempt" /\ attempt' = 0 /\ clock' = 0 /\ remaining' = 0 /\ posts' = 0
        /\ waited' = 0 /\ pause' = 0 /\ spoke' = FALSE
    BY <1>1 DEF Complete
  <2>2. 0 \in 0..Timeout /\ 0 \in 0..SdkPause /\ 0 \in Nat /\ 0 <= Timeout
    OBVIOUS
  <2>3. TimesOK'
    BY <2>1, <2>2, Zenon DEF TimesOK
  <2>. QED BY <2>1, <2>2, <2>3, Zenon DEF TimeInv, OnTime, InCreate
<1>2. CASE OutOfTime
  <2>1. clock <= Longest /\ Longest' = Longest
    BY <1>2, MeasuresStay DEF OutOfTime, OnTime, timeVars, TimesOK
  <2>. QED BY <1>2, <2>1 DEF OutOfTime, TimeInv, TimesOK, OnTime, InCreate, timeVars, wireVars
<1>3. CASE StartAttempt
  <2>1. /\ clock < Timeout /\ remaining' = Timeout - clock /\ posts' = 0 /\ waited' = 0
        /\ pc' = "connect" /\ spoke' = FALSE /\ UNCHANGED <<clock, pause, attempt, transport>>
    BY <1>3 DEF StartAttempt, TimesOK
  <2>2. remaining' \in 1..Timeout /\ clock' + remaining' = Timeout
    BY <2>1 DEF TimesOK
  <2>3. TimesOK'
    <3>1. clock' \in Nat /\ remaining' \in 0..Timeout /\ waited' \in Nat /\ posts' \in Nat
      BY <2>1, <2>2 DEF TimesOK
    <3>2. pause' \in 0..SdkPause /\ attempt' \in Nat /\ spoke' \in BOOLEAN /\ pc' = "connect"
      BY <2>1, Zenon DEF TimesOK
    <3>. QED BY <3>1, <3>2 DEF TimesOK, InCreate
  <2>4. Allowance' \in Nat /\ Reposts' \in Nat /\ Cycle' \in Nat
    <3>1. Allowance' \in {Second, remaining'} /\ Reposts' \in {0, SdkReposts}
      BY DEF Allowance, Reposts
    <3>2. Second \in Nat /\ SdkReposts \in Nat /\ SdkPause \in Nat /\ remaining' \in Nat
      BY <2>2, TimesAreNats, SdkIsBounded
    <3>3. Allowance' \in Nat /\ Reposts' \in Nat
      BY <3>1, <3>2
    <3>. DEFINE A == Allowance'
    <3>4. 2 * A + SdkPause \in Nat
      <4>1. A \in Nat
        BY <3>3
      <4>. HIDE DEF A
      <4>. QED BY <3>2, <4>1
    <3>5. Cycle' = 2 * A + SdkPause
      BY Zenon DEF Cycle
    <3>. QED BY <3>3, <3>4, <3>5, Zenon
  <2>5. posts' * Cycle' = 0
    <3>1. \A n \in Nat : 0 * n = 0
      OBVIOUS
    <3>. QED BY <2>1, <2>4, <3>1, Zenon
  <2>6. clock' + remaining' <= Timeout + posts' * Cycle' + waited'
    BY <2>1, <2>2, <2>5
  <2>7. remaining' > 0 /\ posts' <= Reposts' /\ waited' <= Allowance'
    BY <2>1, <2>2, <2>4
  <2>8. pc' = "connect"
    BY <2>1
  <2>. QED BY <2>3, <2>6, <2>7, <2>8 DEF TimeInv, OnTime, InCreate
<1>4. CASE RefuseTools
  <2>1. Caught("no_tools") /\ spoke' = spoke /\ pc = "connect"
    BY <1>4 DEF RefuseTools, wireVars
  <2>. QED BY <2>1, SilentSoFar, CaughtOnTime DEF CallFaults, TimesOK
<1>5. CASE Expire
  <2>1. Caught("silence") /\ spoke' = spoke /\ pc \in {"connect", "head", "stream"}
    BY <1>5 DEF Expire, Listening, Connecting, Posting, wireVars
  <2>2. ~spoke => clock <= Longest
    BY <2>1, SilentSoFar DEF OnTime
  <2>. QED BY <2>1, <2>2, CaughtOnTime DEF CallFaults, TimesOK
<1>6. CASE SdkWakes
  <2>1. /\ pc = "pause" /\ pause = 0 /\ pc' = "connect"
        /\ UNCHANGED <<transport, attempt, clock, remaining, posts, waited, pause, spoke>>
    BY <1>6 DEF SdkWakes, timeVars, wireVars
  <2>. QED BY <2>1, MeasuresStay DEF TimeInv, TimesOK, OnTime, InCreate
<1>7. CASE DropStreamOptions
  <2>1. /\ pc = "head" /\ pc' = "connect" /\ posts' = 0 /\ waited' = 0 /\ spoke' = TRUE
        /\ UNCHANGED <<transport, attempt, clock, remaining, pause>>
    BY <1>7 DEF DropStreamOptions, Posting
  <2>. QED BY <2>1, MeasuresStay DEF TimeInv, TimesOK, OnTime, InCreate
<1>8. ASSUME NEW k \in CallFaults, PostFails(k) \/ StreamDies(k) PROVE TimeInv'
  <2>1. Caught(k) /\ spoke' = spoke /\ pc \in {"connect", "head", "stream"}
    BY <1>8 DEF PostFails, Failing, StreamDies, Connecting, Posting, wireVars
  <2>2. ~spoke => clock <= Longest
    BY <2>1, SilentSoFar DEF OnTime
  <2>. QED BY <2>1, <2>2, CaughtOnTime DEF TimesOK
<1>9. ASSUME NEW k \in CallFaults, PostAgain(k) PROVE TimeInv'
  <2>1. /\ pc \in {"connect", "head"} /\ posts < Reposts /\ posts' = posts + 1 /\ waited' = 0
        /\ pc' = "pause" /\ pause' \in 0..SdkPause /\ spoke' \in BOOLEAN /\ (spoke => spoke')
        /\ UNCHANGED <<transport, attempt, clock, remaining>>
    BY <1>9 DEF PostAgain, Failing, Connecting, Posting, TimesOK
  <2>2. Cycle = 2 * Allowance + SdkPause /\ (posts + 1) * Cycle = posts * Cycle + Cycle
    <3>1. posts \in Nat /\ Cycle \in Nat
      BY DEF TimesOK
    <3>. QED BY <3>1 DEF Cycle
  <2>3. ~spoke => clock + remaining <= Timeout + posts * Cycle + 2 * Allowance
    BY <2>1, SilentSoFar
  <2>4. ~spoke' => clock + remaining + pause' <= Timeout + (posts + 1) * Cycle
    <3>. DEFINE p == posts * Cycle
    <3>1. /\ p \in Nat /\ clock \in Nat /\ remaining \in Nat
          /\ pause' \in Nat /\ pause' <= SdkPause
      <4>1. posts \in Nat /\ clock \in Nat /\ remaining \in Nat
        BY DEF TimesOK
      <4>. QED BY <2>1, <4>1
    <3>2. SUFFICES ASSUME ~spoke PROVE clock + remaining + pause' <= Timeout + (p + Cycle)
      BY <2>1, <2>2
    <3>3. clock + remaining <= Timeout + p + 2 * Allowance
      BY <2>3, <3>2
    <3>. DEFINE q == pause'
    <3>4. clock + remaining + q <= Timeout + (p + (2 * Allowance + SdkPause))
      <4>1. q \in Nat /\ q <= SdkPause
        BY <3>1
      <4>. HIDE DEF p, q
      <4>. QED BY <3>1, <3>3, <4>1
    <3>. HIDE DEF p
    <3>. QED BY <2>2, <3>4
  <2>5. remaining > 0
    BY <2>1 DEF OnTime, InCreate
  <2>6. TimesOK' /\ posts' <= Reposts
    BY <2>1 DEF TimesOK, InCreate
  <2>. QED BY <2>1, <2>4, <2>5, <2>6, MeasuresStay DEF TimeInv, OnTime, InCreate
<1>10. ASSUME NEW a \in Answers, StreamOpens(a) PROVE TimeInv'
  BY <1>10 DEF StreamOpens, Posting, TimeInv, TimesOK, OnTime, InCreate
<1>11. ASSUME NEW t \in BOOLEAN, WholeReply(t) PROVE TimeInv'
  <2>1. spoke' = TRUE
    BY <1>11 DEF WholeReply
  <2>2. CASE Caught("empty")
    BY <2>1, <2>2, CaughtOnTime DEF CallFaults
  <2>3. CASE pc' = "idle" /\ UNCHANGED <<attempt, timeVars>>
    BY <2>1, <2>3 DEF TimeInv, TimesOK, OnTime, InCreate, timeVars
  <2>. QED BY <1>11, <2>2, <2>3 DEF WholeReply
<1>12. CASE TextDelta \/ Skipped \/ \E c \in Calls : Fragment(c)
  <2>1. /\ pc = "stream" /\ pc' = "stream" /\ waited' = 0
        /\ UNCHANGED <<transport, attempt, clock, remaining, posts, pause, spoke>>
    BY <1>12 DEF TextDelta, Skipped, Fragment, wireVars
  <2>. QED BY <2>1 DEF TimeInv, TimesOK, OnTime, InCreate
<1>13. CASE StreamEnds
  <2>1. spoke = TRUE /\ spoke' = spoke
    BY <1>13 DEF StreamEnds, wireVars, OnTime, TimesOK
  <2>2. CASE Caught("empty")
    BY <2>1, <2>2, CaughtOnTime DEF CallFaults
  <2>3. CASE pc' = "idle" /\ UNCHANGED <<attempt, timeVars>>
    BY <2>1, <2>3 DEF TimeInv, TimesOK, OnTime, InCreate, timeVars
  <2>. QED BY <1>13, <2>2, <2>3 DEF StreamEnds
<1>14. CASE Connected
  <2>1. /\ pc = "connect" /\ pc' = "head" /\ waited' = 0
        /\ UNCHANGED <<transport, attempt, clock, remaining, posts, pause, spoke>>
    BY <1>14 DEF Connected, Connecting, wireVars
  <2>2. waited <= Allowance /\ waited \in Nat
    BY <2>1 DEF OnTime, TimesOK
  <2>3. TimesOK'
    BY <2>1 DEF TimesOK, InCreate
  <2>4. ~spoke => clock + remaining <= Timeout + posts * Cycle + Allowance + 0
    BY <2>1, <2>2 DEF OnTime, TimesOK
  <2>. QED BY <2>1, <2>2, <2>3, <2>4, MeasuresStay DEF TimeInv, OnTime, InCreate
<1>15. CASE Tick
  <2>1. /\ clock' \in {clock, clock + 1}
        /\ UNCHANGED <<transport, pc, attempt, remaining, posts, spoke>>
    BY <1>15 DEF Tick, Later, wireVars
  <2>2. CASE pc = "attempt" /\ clock < Timeout /\ waited' = waited + 1 /\ UNCHANGED pause
    BY <2>1, <2>2 DEF TimeInv, TimesOK, OnTime, InCreate
  <2>3. CASE Listening /\ waited < Allowance /\ waited' = waited + 1 /\ UNCHANGED pause
    <3>1. pc \in {"connect", "head", "stream"}
      BY <2>3 DEF Listening, Connecting, Posting
    <3>2. TimesOK'
      BY <2>1, <2>3 DEF TimesOK
    <3>3. waited' <= Allowance
      BY <2>3 DEF TimesOK
    <3>4. spoke' \/ (waited' = waited + 1 /\ clock' <= clock + 1)
      BY <2>1, <2>3 DEF TimesOK
    <3>5. SUFFICES ASSUME ~spoke'
                   PROVE  /\ pc = "connect" => clock' + remaining <= Timeout + posts * Cycle + waited'
                          /\ pc = "head" =>
                               clock' + remaining <= Timeout + posts * Cycle + Allowance + waited'
      BY <2>1, <3>1, <3>2, <3>3, MeasuresStay DEF TimeInv, OnTime, InCreate
    <3>. DEFINE p == posts * Cycle
    <3>6. p \in Nat /\ clock \in Nat /\ remaining \in Nat /\ waited \in Nat /\ clock' \in Nat
      <4>1. posts \in Nat /\ clock \in Nat /\ remaining \in Nat /\ waited \in Nat /\ clock' \in Nat
        BY <3>2 DEF TimesOK
      <4>. QED BY <4>1
    <3>7. /\ pc = "connect" => clock + remaining <= Timeout + p + waited
          /\ pc = "head" => clock + remaining <= Timeout + p + Allowance + waited
      BY <2>1, <3>5 DEF OnTime
    <3>. HIDE DEF p
    <3>8. /\ pc = "connect" => clock' + remaining <= Timeout + p + waited'
          /\ pc = "head" => clock' + remaining <= Timeout + p + Allowance + waited'
      BY <3>4, <3>5, <3>6, <3>7
    <3>. QED BY <3>8 DEF p
  <2>4. CASE pc = "pause" /\ pause > 0 /\ pause' = pause - 1 /\ UNCHANGED waited
    <3>1. TimesOK'
      BY <2>1, <2>4 DEF TimesOK
    <3>2. SUFFICES ASSUME ~spoke'
                   PROVE  clock' + remaining + pause' <= Timeout + posts * Cycle
      BY <2>1, <2>4, <3>1, MeasuresStay DEF TimeInv, OnTime, InCreate
    <3>. DEFINE p == posts * Cycle
    <3>3. /\ p \in Nat /\ clock \in Nat /\ remaining \in Nat /\ pause \in Nat /\ clock' \in Nat
          /\ pause' + 1 <= pause /\ clock' <= clock + 1
      <4>1. /\ posts \in Nat /\ clock \in Nat /\ remaining \in Nat /\ pause \in Nat
            /\ clock' \in Nat /\ pause' + 1 <= pause /\ clock' <= clock + 1
        BY <2>1, <2>4, <3>1 DEF TimesOK
      <4>. QED BY <4>1
    <3>4. clock + remaining + pause <= Timeout + p
      BY <2>1, <2>4, <3>2 DEF OnTime
    <3>. DEFINE c == clock'
                q == pause'
    <3>5. c + remaining + q <= Timeout + p
      <4>1. c \in Nat /\ q \in Nat /\ q + 1 <= pause /\ c <= clock + 1
        BY <2>4, <3>1, <3>3 DEF TimesOK
      <4>. HIDE DEF p, c, q
      <4>. QED BY <3>3, <3>4, <4>1
    <3>. QED BY <3>5
  <2>. QED BY <1>15, <2>2, <2>3, <2>4 DEF Tick
<1>16. CASE UNCHANGED clientVars
  <2>1. UNCHANGED <<transport, pc, attempt, clock, remaining, posts, waited, pause, spoke>>
    BY <1>16 DEF clientVars, timeVars, wireVars
  <2>. QED BY <2>1, MeasuresStay DEF TimeInv, TimesOK, OnTime, InCreate
<1>. QED BY <1>1, <1>2, <1>3, <1>4, <1>5, <1>6, <1>7, <1>8, <1>9, <1>10, <1>11,
            <1>12, <1>13, <1>14, <1>15, <1>16 DEF CallNext, Program, Provider

\* No call has been made yet.
LEMMA TimeBegins == CallInit => TimeInv
<1>. SUFFICES ASSUME CallInit PROVE TimesOK /\ OnTime
  BY DEF TimeInv
<1>1. /\ pc = "idle" /\ attempt = 0 /\ clock = 0 /\ remaining = 0 /\ posts = 0
      /\ waited = 0 /\ pause = 0 /\ spoke = FALSE
  BY DEF CallInit
<1>2. 0 \in 0..Timeout /\ 0 \in 0..SdkPause /\ 0 \in Nat /\ 0 <= Longest
  BY TimesAreNats, SdkIsBounded, DeadlineIsShort
<1>3. TimesOK
  BY <1>1, <1>2, Zenon DEF TimesOK
<1>. QED BY <1>1, <1>2, <1>3, Zenon DEF OnTime, InCreate

\* However many retries there are, a call that the provider says nothing to lasts
\* no longer than one attempt with the whole deadline, or one that began just
\* before it with the second it is given at least (ChatModel.complete, _create).
THEOREM SilenceShared == CallSpec => []SilenceIsShared
<1>1. CallInit => TimeInv
  BY TimeBegins
<1>2. TimeInv => SilenceIsShared
  <2>1. SUFFICES ASSUME TimeInv, ~spoke PROVE clock <= Longest
    BY DEF SilenceIsShared
  <2>2. TimesOK /\ OnTime /\ Timeout <= Longest /\ Longest \in Nat /\ Timeout \in Nat
    BY <2>1, DeadlineIsShort, TimesAreNats DEF TimeInv
  <2>3. CASE pc = "pause"
    <3>1. /\ remaining > 0 /\ posts <= Reposts
          /\ clock + remaining + pause <= Timeout + posts * Cycle
      BY <2>1, <2>2, <2>3 DEF OnTime, InCreate
    <3>2. posts * Cycle \in Nat /\ Allowance \in Nat
      BY <2>2, AllowanceIs DEF TimesOK
    <3>3. clock + remaining <= Timeout + posts * Cycle + 2 * Allowance
      BY <2>2, <3>1, <3>2 DEF TimesOK
    <3>. QED BY <2>2, <3>1, <3>3, AttemptIsShort
  <2>4. CASE pc \in {"connect", "head"}
    BY <2>1, <2>4, SilentSoFar
  <2>. QED BY <2>1, <2>2, <2>3, <2>4 DEF TimesOK, OnTime, InCreate
<1>. QED BY <1>1, <1>2, TimeStep, PTL DEF CallSpec

--------------------------------------------------------------------------------
Transient == {"gateway", "silence", "empty"}

\* Every mark that a transient failure leaves is recognised as transient (_is_transient).
LEMMA TransientMarks ==
    ASSUME NEW k \in Transient, NEW mark \in Marks(k)
    PROVE  IsTransient(mark)
BY DEF Transient, Marks, IsTransient

\* However an attempt fails, what ends the call was not to be retried.
LEMMA CaughtIsRetried ==
    ASSUME TimesOK, NEW k, Caught(k)
    PROVE  TransientIsRetried'
<1>1. clock' = clock /\ fault' = k
  BY DEF Caught
<1>2. SUFFICES ASSUME pc' = "idle", k \in Transient PROVE ~RetriesLeft'
  BY <1>1 DEF TransientIsRetried, GaveUp, Transient
<1>3. PICK mark \in Marks(k) :
         IF Retriable(mark)
         THEN pc' = "attempt" /\ attempt' = attempt + 1
         ELSE pc' = "idle" /\ UNCHANGED attempt
  BY Zenon DEF Caught
<1>4. ~Retriable(mark) /\ attempt' = attempt
  BY <1>2, <1>3
<1>5. ~(attempt < MaxRetries /\ Timeout - clock - Second > 0)
  BY <1>2, <1>4, TransientMarks DEF Retriable
<1>. QED BY <1>1, <1>4, <1>5, TimesAreNats DEF RetriesLeft, TimesOK

\* Every step keeps a transient failure from being raised with retries left.
LEMMA RetryStep == TimesOK /\ TransientIsRetried /\ [CallNext]_clientVars => TransientIsRetried'
<1>. SUFFICES ASSUME TimesOK, TransientIsRetried, [CallNext]_clientVars
              PROVE  TransientIsRetried'
  OBVIOUS
<1>. USE DEF TransientIsRetried, GaveUp
<1>1. CASE pc' # "idle" \/ fault' = "none" \/ reply' # NoReply \/ fault' = "deadline"
  BY <1>1
<1>2. CASE UNCHANGED <<pc, fault, reply, attempt, clock>>
  BY <1>2 DEF RetriesLeft
<1>3. ASSUME NEW t \in BOOLEAN, Complete(t) PROVE TransientIsRetried'
  BY <1>1, <1>3 DEF Complete
<1>4. CASE OutOfTime \/ StartAttempt \/ SdkWakes \/ Connected
  BY <1>1, <1>4 DEF OutOfTime, StartAttempt, SdkWakes, Connected
<1>5. CASE RefuseTools \/ Expire
  BY <1>5, CaughtIsRetried DEF RefuseTools, Expire
<1>6. ASSUME NEW k \in CallFaults, PostFails(k) \/ StreamDies(k) PROVE TransientIsRetried'
  BY <1>6, CaughtIsRetried DEF PostFails, StreamDies
<1>7. ASSUME NEW t \in BOOLEAN, WholeReply(t) PROVE TransientIsRetried'
  <2>1. CASE t
    BY <1>1, <1>7, <2>1 DEF WholeReply, NoReply
  <2>2. CASE ~t
    BY <1>7, <2>2, CaughtIsRetried DEF WholeReply
  <2>. QED BY <2>1, <2>2
<1>8. CASE StreamEnds
  <2>1. CASE Assembled.text \/ Assembled.calls # <<>>
    <3>1. reply' = Assembled
      BY <1>8, <2>1 DEF StreamEnds
    <3>2. Assembled # NoReply
      <4>1. NoReply.text = FALSE /\ NoReply.calls = <<>>
        BY DEF NoReply
      <4>. QED BY <2>1, <4>1, Zenon
    <3>. QED BY <1>1, <3>1, <3>2
  <2>2. CASE Caught("empty")
    BY <2>2, CaughtIsRetried
  <2>. QED BY <1>8, <2>1, <2>2 DEF StreamEnds
<1>9. CASE DropStreamOptions \/ TextDelta \/ Skipped \/ \E k \in CallFaults : PostAgain(k)
  BY <1>1, <1>9 DEF DropStreamOptions, TextDelta, Skipped, PostAgain
<1>10. ASSUME NEW a \in Answers, StreamOpens(a) PROVE TransientIsRetried'
  BY <1>1, <1>10 DEF StreamOpens
<1>11. ASSUME NEW c \in Calls, Fragment(c) PROVE TransientIsRetried'
  BY <1>1, <1>11 DEF Fragment
<1>12. CASE Tick
  BY <1>1, <1>12 DEF Tick, Listening, Connecting, Posting
<1>13. CASE UNCHANGED clientVars
  BY <1>2, <1>13 DEF clientVars, timeVars
<1>. QED BY <1>3, <1>4, <1>5, <1>6, <1>7, <1>8, <1>9, <1>10, <1>11, <1>12, <1>13
         DEF CallNext, Program, Provider

\* Whatever the transport, a gateway status, silence or an empty reply ends a call
\* only when its retries or its time are used up (ChatModel.complete,
\* _is_transient).
THEOREM TransientRetried == CallSpec => []TransientIsRetried
<1>1. CallInit => TimeInv /\ TransientIsRetried
  BY TimeBegins DEF CallInit, TransientIsRetried, GaveUp
<1>2. TimeInv => TimesOK
  BY DEF TimeInv
<1>. QED BY <1>1, <1>2, TimeStep, RetryStep, PTL DEF CallSpec

--------------------------------------------------------------------------------
(* The assembly of a reply from its fragments.                             *)

\* What the fragments of a call come to that have arrived so far.
Pieced(c, n)  == [k \in 1..n |-> <<c, k>>]
Received(c)   == [name |-> IF sent[c] = 0 THEN <<>> ELSE <<c>>,
                  arguments |-> Pieced(c, sent[c] - 1)]

\* Each call of the answer has a slot of its own that holds what arrived of it,
\* and no other slot holds anything.
SlotsOK ==
    /\ ~answer.indexed => \E c \in Calls : answer.calls = {c}
    /\ \A c \in answer.calls : sent[c] <= Pieces[c] + 1 /\ slots[Slot(c)] = Received(c)
    /\ \A i \in Indices : (\A c \in answer.calls : Slot(c) # i) => slots[i] = EmptySlot
    /\ text => answer.text

\* Before an attempt has heard anything it holds nothing of earlier ones.
Blank == /\ answer = NoAnswer /\ sent = [c \in Calls |-> 0]
         /\ ~text /\ slots = NoSlots

ReplyInv ==
    /\ CallTypeOK
    /\ pc \in InCreate => Blank
    /\ pc = "stream" => SlotsOK
    /\ pc # "idle" => reply = NoReply
    /\ ReplyIsTheAnswer

\* Before its first piece a call has no arguments.
LEMMA NothingYet == \A c : Pieced(c, 0 - 1) = <<>> /\ Pieced(c, 0) = <<>>
<1>1. \A c, n : DOMAIN Pieced(c, n) = 1..n
  BY DEF Pieced
<1>2. 1..(0 - 1) = {} /\ 1..0 = {}
  OBVIOUS
<1>3. \A c, n : n \in {0 - 1, 0} => Pieced(c, n) = [k \in {} |-> <<c, k>>]
  BY <1>2 DEF Pieced
<1>4. \A c : [k \in {} |-> <<c, k>>] = <<>>
  OBVIOUS
<1>. QED BY <1>3, <1>4

\* A piece of an argument text is appended to the pieces before it.
LEMMA OnePieceMore ==
    ASSUME NEW c \in Calls, NEW n \in Nat \ {0}
    PROVE  /\ Pieced(c, n) \in Seq(Calls \X Nat)
           /\ Append(Pieced(c, n - 1), <<c, n>>) = Pieced(c, n)
<1>1. \A m \in Nat : Pieced(c, m) \in [1..m -> Calls \X Nat]
  BY DEF Pieced
<1>2. \A m \in Nat : Pieced(c, m) \in Seq(Calls \X Nat) /\ Len(Pieced(c, m)) = m
  BY <1>1, IsASeq, LenProperties
<1>3. n - 1 \in Nat /\ <<c, n>> \in Calls \X Nat
  OBVIOUS
<1>. DEFINE s == Pieced(c, n - 1)
            u == Append(s, <<c, n>>)
<1>4. s \in Seq(Calls \X Nat) /\ Len(s) = n - 1 /\ \A k \in 1..(n - 1) : s[k] = <<c, k>>
  BY <1>2, <1>3 DEF Pieced
<1>. HIDE DEF s
<1>5. u \in Seq(Calls \X Nat) /\ Len(u) = n /\ u[n] = <<c, n>>
      /\ \A k \in 1..(n - 1) : u[k] = s[k]
  BY <1>3, <1>4
<1>6. \A k \in 1..n : u[k] = <<c, k>>
  BY <1>3, <1>4, <1>5
<1>7. \A k \in 1..n : Pieced(c, n)[k] = <<c, k>>
  BY DEF Pieced
<1>8. u = Pieced(c, n)
  BY <1>2, <1>5, <1>6, <1>7, SeqEqual
<1>. QED BY <1>2, <1>8 DEF s

\* A text that parses is that of its own call, whole.
LEMMA WholeOnly ==
    ASSUME NEW c \in Calls, NEW n \in Int, Pieced(c, n) # <<>>,
           NEW d \in Calls, Pieced(c, n) = WholeText(d)
    PROVE  d = c /\ n = Pieces[c]
<1>1. n > 0
  <2>1. n <= 0 => 1..n = {}
    OBVIOUS
  <2>2. 1..n = {} => Pieced(c, n) = [k \in {} |-> <<c, k>>]
    BY DEF Pieced
  <2>3. [k \in {} |-> <<c, k>>] = <<>>
    OBVIOUS
  <2>. QED BY <2>1, <2>2, <2>3
<1>2. DOMAIN Pieced(c, n) = 1..n /\ DOMAIN WholeText(d) = 1..Pieces[d]
  BY DEF Pieced, WholeText
<1>3. 1..n = 1..Pieces[d] /\ Pieces[d] \in Nat
  BY <1>2, CallsAreIndices
<1>4. n = Pieces[d]
  BY <1>1, <1>3
<1>5. Pieced(c, n)[1] = <<c, 1>> /\ WholeText(d)[1] = <<d, 1>>
  BY <1>1, <1>4 DEF Pieced, WholeText
<1>. QED BY <1>4, <1>5

\* An answer nothing has arrived of has its slots in order.
LEMMA BlankIsOrdered == ASSUME Blank PROVE SlotsOK
BY DEF Blank, SlotsOK, NoAnswer, NoSlots

\* A call of the answer sits in a slot that the stream numbered.
LEMMA SlotIsIndex ==
    ASSUME CallTypeOK
    PROVE  \A c \in answer.calls : c \in Calls /\ Slot(c) \in Indices
BY DEF CallTypeOK, Slot, Indices

\* A stream that has been read to its end hands over what arrived.
LEMMA AssembledIsAnswer ==
    ASSUME CallTypeOK, SlotsOK, reply' = Assembled,
           UNCHANGED <<answer, sent, text, slots>>
    PROVE  ReplyIsTheAnswer'
<1>. DEFINE r == Assembled
<1>1. /\ r.text = text
      /\ DOMAIN r.calls = {j \in Indices : slots[j].name # <<>>}
      /\ \A i \in DOMAIN r.calls : r.calls[i] = ToolCall(slots[i])
  BY DEF Assembled
<1>. HIDE DEF r
<1>2. \A c \in answer.calls : c \in Calls /\ Slot(c) \in Indices /\ sent[c] \in Nat
  BY SlotIsIndex DEF CallTypeOK
<1>3. \A i \in DOMAIN r.calls : \E c \in answer.calls : Slot(c) = i
  BY <1>1 DEF SlotsOK, EmptySlot
<1>4. ASSUME NEW c \in answer.calls
      PROVE  /\ slots[Slot(c)].name = (IF sent[c] = 0 THEN <<>> ELSE <<c>>)
             /\ slots[Slot(c)].arguments = Pieced(c, sent[c] - 1)
  <2>1. slots[Slot(c)] = Received(c)
    BY DEF SlotsOK
  <2>2. /\ Received(c).name = (IF sent[c] = 0 THEN <<>> ELSE <<c>>)
        /\ Received(c).arguments = Pieced(c, sent[c] - 1)
    BY Zenon DEF Received
  <2>. QED BY <2>1, <2>2, Zenon
<1>5. ASSUME NEW c \in answer.calls, Slot(c) \in DOMAIN r.calls
      PROVE  /\ r.calls[Slot(c)].name = <<c>>
             /\ r.calls[Slot(c)].arguments = "object" => Sent(c)
  <2>1. r.calls[Slot(c)] = ToolCall(slots[Slot(c)]) /\ slots[Slot(c)].name # <<>>
    BY <1>1, <1>5
  <2>2. slots[Slot(c)].name = <<c>>
    BY <1>4, <2>1
  <2>3. r.calls[Slot(c)].name = <<c>>
    <3>1. ToolCall(slots[Slot(c)]).name = slots[Slot(c)].name
      BY Zenon DEF ToolCall
    <3>. QED BY <2>1, <2>2, <3>1, Zenon
  <2>4. ASSUME r.calls[Slot(c)].arguments = "object" PROVE Sent(c)
    <3>1. PICK d \in Calls : Pieced(c, sent[c] - 1) = WholeText(d) /\ Pieced(c, sent[c] - 1) # <<>>
      <4>1. ToolCall(slots[Slot(c)]).arguments =
               IF slots[Slot(c)].arguments = <<>> THEN "{}"
               ELSE IF \E d \in Calls : slots[Slot(c)].arguments = WholeText(d) THEN "object"
               ELSE "raw"
        BY Zenon DEF ToolCall
      <4>2. "{}" # "object" /\ "raw" # "object"
        OBVIOUS
      <4>. QED BY <1>4, <2>1, <2>4, <4>1, <4>2, Zenon
    <3>2. sent[c] - 1 = Pieces[c]
      BY <1>2, <3>1, WholeOnly
    <3>. QED BY <1>2, <3>2, CallsAreIndices DEF Sent
  <2>. QED BY <2>3, <2>4
<1>6. ASSUME NEW i \in DOMAIN r.calls, r.calls[i].arguments = "object"
      PROVE  \E c \in answer.calls : Slot(c) = i /\ Sent(c) /\ r.calls[i].name = <<c>>
  BY <1>3, <1>5, <1>6
<1>7. ASSUME AllOfIt
      PROVE  /\ r.text = answer.text
             /\ DOMAIN r.calls = {Slot(c) : c \in answer.calls}
             /\ \A c \in answer.calls :
                  r.calls[Slot(c)] =
                    [name |-> <<c>>,
                     arguments |-> IF Pieces[c] = 0 THEN "{}" ELSE "object"]
  <2>1. r.text = answer.text
    BY <1>1, <1>7 DEF AllOfIt, SlotsOK, CallTypeOK
  <2>2. \A c \in answer.calls : sent[c] = Pieces[c] + 1 /\ Pieces[c] \in Nat
    BY <1>2, <1>7, CallsAreIndices DEF AllOfIt, Sent
  <2>3. \A c \in answer.calls : slots[Slot(c)].name = <<c>> /\ Slot(c) \in DOMAIN r.calls
    <3>1. ASSUME NEW c \in answer.calls
          PROVE  slots[Slot(c)].name = <<c>> /\ Slot(c) \in DOMAIN r.calls
      <4>1. sent[c] # 0
        BY <2>2
      <4>2. slots[Slot(c)].name = <<c>>
        BY <1>4, <4>1, Zenon
      <4>3. <<c>> # <<>> /\ Slot(c) \in Indices
        BY <1>2
      <4>. QED BY <1>1, <4>2, <4>3, Zenon
    <3>. QED BY <3>1, Zenon
  <2>4. DOMAIN r.calls = {Slot(c) : c \in answer.calls}
    BY <1>3, <2>3
  <2>5. ASSUME NEW c \in answer.calls
        PROVE  r.calls[Slot(c)] = [name |-> <<c>>,
                                   arguments |-> IF Pieces[c] = 0 THEN "{}" ELSE "object"]
    <3>1. slots[Slot(c)].arguments = WholeText(c)
      <4>1. sent[c] - 1 = Pieces[c]
        BY <2>2
      <4>2. Pieced(c, Pieces[c]) = WholeText(c)
        BY DEF Pieced, WholeText
      <4>. QED BY <1>4, <4>1, <4>2, Zenon
    <3>2. Pieces[c] = 0 <=> WholeText(c) = <<>>
      <4>1. DOMAIN WholeText(c) = 1..Pieces[c] /\ WholeText(c) = Pieced(c, Pieces[c])
        BY DEF WholeText, Pieced
      <4>2. Pieces[c] # 0 => 1 \in 1..Pieces[c]
        BY <2>2
      <4>3. Pieces[c] = 0 => WholeText(c) = <<>>
        BY <4>1, NothingYet
      <4>4. 1 \in DOMAIN WholeText(c) => WholeText(c) # <<>>
        <5>1. DOMAIN << >> = {}
          OBVIOUS
        <5>. QED BY <5>1, Zenon
      <4>. QED BY <4>1, <4>2, <4>3, <4>4, Zenon
    <3>3. r.calls[Slot(c)] = ToolCall(slots[Slot(c)])
      BY <1>1, <2>3
    <3>. QED BY <1>2, <2>3, <3>1, <3>2, <3>3 DEF ToolCall
  <2>. QED BY <2>1, <2>4, <2>5
<1>8. /\ AllOfIt' = AllOfIt
      /\ \A c : Slot(c)' = Slot(c) /\ Sent(c)' = Sent(c)
      /\ reply' = r /\ answer' = answer
  BY DEF AllOfIt, Slot, Sent, r
<1>. QED BY <1>6, <1>7, <1>8 DEF ReplyIsTheAnswer

\* Caught keeps the books: it ends the call without a reply or goes round again
\* with a retry left.
LEMMA CaughtKeepsReply ==
    ASSUME ReplyInv, NEW k \in CallFaults, Caught(k), pc # "idle",
           streamOptions' = streamOptions, spoke' \in BOOLEAN, text' \in BOOLEAN,
           answer' \in [text : BOOLEAN, calls : SUBSET Calls, indexed : BOOLEAN],
           UNCHANGED <<sent, slots>>
    PROVE  ReplyInv'
<1>1. /\ UNCHANGED <<transport, made, tools, clock, remaining, posts, pause, reply>>
      /\ waited' = 0 /\ fault' = k
  BY DEF Caught, callVars
<1>2. reply = NoReply
  BY DEF ReplyInv
<1>3. PICK mark \in Marks(k) :
         IF Retriable(mark)
         THEN pc' = "attempt" /\ attempt' = attempt + 1
         ELSE pc' = "idle" /\ UNCHANGED attempt
  BY Zenon DEF Caught
<1>4. pc' \in {"idle", "attempt"} /\ attempt' \in 0..MaxRetries
  BY <1>3, TimesAreNats DEF Retriable, ReplyInv, CallTypeOK
<1>5. CallTypeOK'
  BY <1>1, <1>4 DEF ReplyInv, CallTypeOK
<1>. QED BY <1>1, <1>2, <1>4, <1>5 DEF ReplyInv, ReplyIsTheAnswer, InCreate

\* The next fragment goes to the slot of its call and to no other.
LEMMA FragmentKeepsReply ==
    ASSUME ReplyInv, NEW c \in Calls, Fragment(c)
    PROVE  ReplyInv'
<1>. DEFINE n == sent[c]
<1>1. /\ pc = "stream" /\ pc' = pc /\ c \in answer.calls /\ n <= Pieces[c]
      /\ UNCHANGED <<transport, streamOptions, made, tools, attempt, clock, remaining, posts,
                     pause, spoke, answer, text, fault, reply>>
      /\ sent' = [sent EXCEPT ![c] = @ + 1] /\ waited' = 0
      /\ CallTypeOK /\ SlotsOK /\ n \in Nat /\ reply = NoReply
  BY DEF Fragment, callVars, ReplyInv, CallTypeOK
<1>2. Slot(c) \in Indices /\ slots[Slot(c)] = Received(c)
      /\ slots \in [Indices -> [name : Seq(Calls), arguments : Seq(Calls \X Nat)]]
  BY <1>1, SlotIsIndex DEF SlotsOK, CallTypeOK
<1>3. sent' \in [Calls -> Nat] /\ sent'[c] = n + 1 /\ \A d \in Calls \ {c} : sent'[d] = sent[d]
  BY <1>1 DEF CallTypeOK
<1>4. /\ slots'[Slot(c)] = [name |-> <<c>>, arguments |-> Pieced(c, n)]
      /\ slots' = [slots EXCEPT ![Slot(c)] = [name |-> <<c>>, arguments |-> Pieced(c, n)]]
      /\ Pieced(c, n) \in Seq(Calls \X Nat)
  <2>1. slots[Slot(c)] = [name |-> IF n = 0 THEN <<>> ELSE <<c>>, arguments |-> Pieced(c, n - 1)]
    BY <1>2, Zenon DEF Received
  <2>2. \A s, x, y, z : s = [name |-> x, arguments |-> y] =>
                          /\ [s EXCEPT !.name = z] = [name |-> z, arguments |-> y]
                          /\ [s EXCEPT !.arguments = z] = [name |-> x, arguments |-> z]
    OBVIOUS
  <2>3. Pieced(c, n) \in Seq(Calls \X Nat)
    <3>1. CASE n = 0
      <4>1. Pieced(c, n) = <<>>
        BY <3>1, NothingYet
      <4>2. <<>> \in Seq(Calls \X Nat)
        OBVIOUS
      <4>. QED BY <4>1, <4>2, Zenon
    <3>2. CASE n # 0
      <4>1. n \in Nat \ {0}
        BY <1>1, <3>2
      <4>. QED BY <4>1, OnePieceMore, Zenon
    <3>. QED BY <3>1, <3>2
  <2>4. slots' = [slots EXCEPT ![Slot(c)] = [name |-> <<c>>, arguments |-> Pieced(c, n)]]
    <3>1. CASE n = 0
      <4>1. slots' = [slots EXCEPT ![Slot(c)].name = Append(@, c)]
        BY <3>1 DEF Fragment
      <4>2. slots[Slot(c)] = [name |-> <<>>, arguments |-> Pieced(c, n)]
        <5>1. Pieced(c, n - 1) = <<>> /\ Pieced(c, n) = <<>>
          BY <3>1, NothingYet
        <5>. QED BY <2>1, <3>1, <5>1, Zenon
      <4>3. Append(slots[Slot(c)].name, c) = <<c>>
        BY <4>2
      <4>4. slots' = [slots EXCEPT ![Slot(c)] = [slots[Slot(c)] EXCEPT !.name = Append(slots[Slot(c)].name, c)]]
        BY <4>1
      <4>5. [slots[Slot(c)] EXCEPT !.name = Append(slots[Slot(c)].name, c)]
               = [name |-> <<c>>, arguments |-> Pieced(c, n)]
        BY <2>2, <4>2, <4>3
      <4>. QED BY <4>4, <4>5, Zenon
    <3>2. CASE n # 0
      <4>1. slots' = [slots EXCEPT ![Slot(c)].arguments = Append(@, <<c, n>>)]
        BY <3>2 DEF Fragment
      <4>2. slots[Slot(c)] = [name |-> <<c>>, arguments |-> Pieced(c, n - 1)]
        BY <2>1, <3>2, Zenon
      <4>3. slots[Slot(c)].arguments = Pieced(c, n - 1)
        BY <4>2
      <4>4. Append(slots[Slot(c)].arguments, <<c, n>>) = Pieced(c, n)
        <5>1. n \in Nat \ {0}
          BY <1>1, <3>2
        <5>2. Append(Pieced(c, n - 1), <<c, n>>) = Pieced(c, n)
          BY <5>1, OnePieceMore, Zenon
        <5>. QED BY <4>3, <5>2, Zenon
      <4>5. slots' = [slots EXCEPT ![Slot(c)] = [slots[Slot(c)] EXCEPT !.arguments = Append(slots[Slot(c)].arguments, <<c, n>>)]]
        BY <4>1
      <4>6. [slots[Slot(c)] EXCEPT !.arguments = Append(slots[Slot(c)].arguments, <<c, n>>)]
               = [name |-> <<c>>, arguments |-> Pieced(c, n)]
        <5>1. \A z : [slots[Slot(c)] EXCEPT !.arguments = z] = [name |-> <<c>>, arguments |-> z]
          BY <2>2, <4>2
        <5>. QED BY <4>4, <5>1, Zenon
      <4>. QED BY <4>5, <4>6, Zenon
    <3>. QED BY <3>1, <3>2
  <2>. QED BY <1>2, <2>3, <2>4
<1>5. \A d \in answer.calls : Slot(d)' = Slot(d) /\ (d # c => Slot(d) # Slot(c))
  BY <1>1 DEF Slot, SlotsOK
<1>6. ASSUME NEW d \in answer.calls PROVE sent'[d] <= Pieces[d] + 1 /\ slots'[Slot(d)] = Received(d)'
  <2>1. CASE d = c
    <3>1. Received(c)' = [name |-> <<c>>, arguments |-> Pieced(c, n)]
      <4>1. sent'[c] # 0 /\ sent'[c] - 1 = n
        BY <1>1, <1>3
      <4>. QED BY <4>1, Zenon DEF Received
    <3>. QED BY <1>1, <1>3, <1>4, <2>1, <3>1, CallsAreIndices
  <2>2. CASE d # c
    <3>1. d \in Calls /\ Slot(d) \in Indices /\ sent'[d] = sent[d]
      BY <1>1, <1>3, <2>2, SlotIsIndex
    <3>2. slots'[Slot(d)] = slots[Slot(d)]
      BY <1>2, <1>4, <1>5, <2>2, <3>1
    <3>. QED BY <1>1, <3>1, <3>2 DEF SlotsOK, Received
  <2>. QED BY <2>1, <2>2
<1>7. ASSUME NEW i \in Indices, \A d \in answer.calls : Slot(d) # i PROVE slots'[i] = EmptySlot
  BY <1>1, <1>2, <1>4, <1>7 DEF SlotsOK
<1>8. SlotsOK'
  BY <1>1, <1>5, <1>6, <1>7 DEF SlotsOK
<1>9. CallTypeOK'
  <2>1. [name |-> <<c>>, arguments |-> Pieced(c, n)] \in [name : Seq(Calls), arguments : Seq(Calls \X Nat)]
    BY <1>4
  <2>2. slots' \in [Indices -> [name : Seq(Calls), arguments : Seq(Calls \X Nat)]]
    BY <1>2, <1>4, <2>1
  <2>. QED BY <1>1, <1>3, <2>2 DEF CallTypeOK
<1>. QED BY <1>1, <1>8, <1>9 DEF ReplyInv, ReplyIsTheAnswer, InCreate

\* Every step keeps a fresh attempt blank, its slots in order and the reply the answer's.
LEMMA ReplyStep == ReplyInv /\ [CallNext]_clientVars => ReplyInv'
<1>. SUFFICES ASSUME ReplyInv, [CallNext]_clientVars PROVE ReplyInv'
  OBVIOUS
<1>. USE DEF callVars, timeVars, wireVars, InCreate
<1>0. /\ CallTypeOK /\ ReplyIsTheAnswer
      /\ pc \in InCreate => Blank
      /\ pc = "stream" => SlotsOK
      /\ pc # "idle" => reply = NoReply
  BY DEF ReplyInv
<1>1. NoSlots \in [Indices -> [name : Seq(Calls), arguments : Seq(Calls \X Nat)]]
      /\ [c \in Calls |-> 0] \in [Calls -> Nat]
      /\ NoAnswer \in [text : BOOLEAN, calls : SUBSET Calls, indexed : BOOLEAN]
  BY DEF NoSlots, EmptySlot, NoAnswer
<1>2. reply' = NoReply => ReplyIsTheAnswer'
  BY DEF ReplyIsTheAnswer
<1>3. ASSUME NEW t \in BOOLEAN, Complete(t) PROVE ReplyInv'
  <2>1. CallTypeOK'
    <3>1. /\ slots' \in [Indices -> [name : Seq(Calls), arguments : Seq(Calls \X Nat)]]
          /\ sent' \in [Calls -> Nat]
          /\ answer' \in [text : BOOLEAN, calls : SUBSET Calls, indexed : BOOLEAN]
      BY <1>1, <1>3, Zenon DEF Complete
    <3>2. /\ transport' \in Transports /\ streamOptions' \in BOOLEAN
          /\ made' \in 0..MaxCalls /\ tools' \in BOOLEAN /\ pc' = "attempt"
          /\ attempt' \in 0..MaxRetries
          /\ clock' \in Nat /\ remaining' \in 0..Timeout /\ waited' \in Nat
          /\ posts' \in 0..SdkReposts /\ pause' \in 0..SdkPause /\ fault' = "none"
      <4>1. /\ made < MaxCalls /\ made' = made + 1 /\ tools' = t /\ pc' = "attempt" /\ attempt' = 0
            /\ clock' = 0 /\ remaining' = 0 /\ waited' = 0 /\ posts' = 0 /\ pause' = 0
            /\ fault' = "none" /\ UNCHANGED <<transport, streamOptions>>
        BY <1>3, Zenon DEF Complete
      <4>. QED BY <1>0, <4>1, TimesAreNats, SdkIsBounded, BoundIsNat DEF CallTypeOK
    <3>3. spoke' \in BOOLEAN /\ text' \in BOOLEAN
      BY <1>3, Zenon DEF Complete
    <3>. QED BY <3>1, <3>2, <3>3 DEF CallTypeOK
  <2>. QED BY <1>2, <1>3, <2>1 DEF Complete, ReplyInv
<1>4. CASE OutOfTime
  <2>1. CallTypeOK' /\ reply' = NoReply /\ pc' = "idle"
    BY <1>0, <1>4 DEF OutOfTime, CallTypeOK, CallFaults
  <2>. QED BY <1>2, <2>1 DEF ReplyInv
<1>5. CASE StartAttempt
  <2>1. CallTypeOK' /\ reply' = NoReply /\ pc' = "connect"
    <3>1. /\ slots' \in [Indices -> [name : Seq(Calls), arguments : Seq(Calls \X Nat)]]
          /\ sent' \in [Calls -> Nat]
          /\ answer' \in [text : BOOLEAN, calls : SUBSET Calls, indexed : BOOLEAN]
      BY <1>1, <1>5, Zenon DEF StartAttempt
    <3>2. /\ remaining' \in 0..Timeout /\ waited' \in Nat /\ posts' \in 0..SdkReposts
          /\ pc' = "connect"
      BY <1>0, <1>5, TimesAreNats, SdkIsBounded DEF StartAttempt, CallTypeOK
    <3>3. /\ spoke' \in BOOLEAN /\ text' \in BOOLEAN /\ pc = "attempt"
          /\ UNCHANGED <<transport, streamOptions, made, tools, attempt, clock, pause,
                         fault, reply>>
      BY <1>5, Zenon DEF StartAttempt
    <3>. QED BY <1>0, <3>1, <3>2, <3>3 DEF CallTypeOK
  <2>2. Blank'
    BY <1>5 DEF StartAttempt, Blank, NoSlots, NoAnswer, Indices
  <2>. QED BY <1>2, <2>1, <2>2 DEF ReplyInv
<1>6. CASE RefuseTools \/ Expire
  <2>1. pc # "idle" /\ \E k \in CallFaults : Caught(k)
    BY <1>6 DEF RefuseTools, Expire, Listening, Connecting, Posting, CallFaults
  <2>2. UNCHANGED <<streamOptions, wireVars>>
    BY <1>6 DEF RefuseTools, Expire
  <2>. QED BY <1>0, <2>1, <2>2, CaughtKeepsReply DEF CallTypeOK
<1>7. ASSUME NEW k \in CallFaults, PostFails(k) \/ StreamDies(k) PROVE ReplyInv'
  <2>1. pc # "idle" /\ Caught(k) /\ UNCHANGED <<streamOptions, wireVars>>
    BY <1>7 DEF PostFails, Failing, StreamDies, Connecting, Posting
  <2>. QED BY <1>0, <2>1, CaughtKeepsReply DEF CallTypeOK
<1>8. CASE SdkWakes \/ Connected
  <2>1. /\ pc \in InCreate /\ pc' \in {"connect", "head"} /\ waited' \in Nat
        /\ UNCHANGED <<transport, streamOptions, made, tools, attempt, clock, remaining, posts,
                       pause, wireVars, fault, reply>>
    BY <1>0, <1>8 DEF SdkWakes, Connected, Connecting, CallTypeOK
  <2>2. CallTypeOK' /\ Blank' /\ reply' = NoReply
    BY <1>0, <2>1 DEF CallTypeOK, Blank
  <2>. QED BY <1>2, <2>1, <2>2 DEF ReplyInv
<1>9. CASE DropStreamOptions \/ \E k \in CallFaults : PostAgain(k)
  <2>1. /\ pc \in InCreate /\ pc' \in {"connect", "pause"} /\ posts' \in 0..SdkReposts
        /\ pause' \in 0..SdkPause /\ waited' = 0 /\ spoke' \in BOOLEAN
        /\ streamOptions' \in BOOLEAN
        /\ UNCHANGED <<transport, made, tools, attempt, clock, remaining, answer, sent, text,
                       slots, fault, reply>>
    <3>1. CASE DropStreamOptions
      <4>1. pause \in 0..SdkPause /\ 0 \in 0..SdkReposts
        BY <1>0, SdkIsBounded DEF CallTypeOK
      <4>2. /\ pc = "head" /\ pc' = "connect" /\ posts' = 0 /\ waited' = 0 /\ spoke' = TRUE
            /\ streamOptions' = FALSE
            /\ UNCHANGED <<transport, made, tools, attempt, clock, remaining, pause, answer, sent,
                           text, slots, fault, reply>>
        BY <3>1 DEF DropStreamOptions, Posting
      <4>. QED BY <4>1, <4>2, Zenon
    <3>2. CASE \E k \in CallFaults : PostAgain(k)
      <4>1. PICK k \in CallFaults : PostAgain(k)
        BY <3>2
      <4>2. posts \in Nat /\ posts < Reposts /\ Reposts \in {0, SdkReposts} /\ SdkReposts \in Nat
        BY <1>0, <4>1, SdkIsBounded DEF PostAgain, Reposts, CallTypeOK
      <4>3. posts + 1 \in 0..SdkReposts
        BY <4>2
      <4>4. posts' \in 0..SdkReposts
        BY <4>1, <4>3 DEF PostAgain
      <4>5. spoke' \in BOOLEAN /\ streamOptions' \in BOOLEAN
        BY <1>0, <4>1, Zenon DEF PostAgain, CallTypeOK
      <4>6. pc \in InCreate /\ pc' = "pause"
        BY <4>1 DEF PostAgain, Failing, Connecting, Posting
      <4>. QED BY <4>1, <4>4, <4>5, <4>6 DEF PostAgain
    <3>. QED BY <1>9, <3>1, <3>2
  <2>2. CallTypeOK' /\ Blank' /\ reply' = NoReply
    BY <1>0, <2>1 DEF CallTypeOK, Blank
  <2>. QED BY <1>2, <2>1, <2>2 DEF ReplyInv
<1>10. ASSUME NEW a \in Answers, StreamOpens(a) PROVE ReplyInv'
  <2>1. CallTypeOK' /\ pc = "head" /\ pc' = "stream" /\ reply' = NoReply /\ answer' = a
        /\ UNCHANGED <<sent, slots, text>> /\ Blank
    BY <1>0, <1>10 DEF StreamOpens, Posting, CallTypeOK, Answers
  <2>2. SlotsOK'
    <3>1. a.calls \subseteq Calls /\ (~a.indexed => \E c \in Calls : a.calls = {c})
      BY DEF Answers
    <3>2. \A i \in Indices : slots'[i] = EmptySlot
      BY <2>1 DEF Blank, NoSlots
    <3>3. \A c \in answer'.calls : c \in Calls /\ Slot(c)' \in Indices /\ sent'[c] = 0
      BY <2>1, <3>1 DEF Slot, Indices, Blank
    <3>4. \A c \in answer'.calls : Received(c)' = EmptySlot
      <4>1. \A c \in answer'.calls : Received(c)' = [name |-> <<>>, arguments |-> Pieced(c, 0 - 1)]
        BY <3>3 DEF Received
      <4>. QED BY <4>1, NothingYet DEF EmptySlot
    <3>5. \A c \in answer'.calls : sent'[c] <= Pieces[c] + 1
      <4>1. \A c \in Calls : 0 <= Pieces[c] + 1
        BY CallsAreIndices
      <4>. QED BY <3>3, <4>1
    <3>6. \A c \in answer'.calls : slots'[Slot(c)'] = Received(c)'
      BY <3>2, <3>3, <3>4
    <3>7. ~text' /\ answer' = a
      BY <2>1 DEF Blank
    <3>. QED BY <3>1, <3>2, <3>5, <3>6, <3>7 DEF SlotsOK
  <2>. QED BY <1>2, <2>1, <2>2 DEF ReplyInv
<1>11. ASSUME NEW t \in BOOLEAN, WholeReply(t) PROVE ReplyInv'
  <2>1. /\ pc = "head" /\ spoke' = TRUE /\ text' = t /\ answer' = [NoAnswer EXCEPT !.text = t]
        /\ UNCHANGED <<streamOptions, sent, slots>>
    BY <1>11 DEF WholeReply, Posting
  <2>2. /\ answer' \in [text : BOOLEAN, calls : SUBSET Calls, indexed : BOOLEAN]
        /\ answer'.text = t /\ answer'.calls = {}
    BY <2>1 DEF NoAnswer
  <2>3. CASE t
    <3>1. /\ pc' = "idle" /\ reply' = [text |-> TRUE, calls |-> <<>>]
          /\ UNCHANGED <<transport, callVars, attempt, timeVars, fault>>
      BY <1>11, <2>3 DEF WholeReply
    <3>2. CallTypeOK'
      BY <1>0, <2>1, <2>2, <3>1 DEF CallTypeOK
    <3>3. reply'.text = TRUE /\ DOMAIN reply'.calls = {}
      BY <3>1
    <3>4. {Slot(c) : c \in answer.calls}' = {}
      BY <2>2
    <3>5. ReplyIsTheAnswer'
      BY <2>2, <2>3, <3>3, <3>4 DEF ReplyIsTheAnswer
    <3>. QED BY <3>1, <3>2, <3>5 DEF ReplyInv
  <2>4. CASE ~t
    <3>1. Caught("empty") /\ "empty" \in CallFaults
      BY <1>11, <2>4 DEF WholeReply, CallFaults
    <3>. QED BY <2>1, <2>2, <3>1, CaughtKeepsReply
  <2>. QED BY <2>3, <2>4
<1>12. CASE TextDelta
  <2>1. CallTypeOK' /\ pc = "stream" /\ pc' = pc /\ reply' = NoReply
    BY <1>0, <1>12 DEF TextDelta, CallTypeOK
  <2>2. SlotsOK'
    BY <1>0, <1>12 DEF TextDelta, SlotsOK, Slot, Received
  <2>. QED BY <1>2, <2>1, <2>2 DEF ReplyInv
<1>13. ASSUME NEW c \in Calls, Fragment(c) PROVE ReplyInv'
  BY <1>13, FragmentKeepsReply
<1>14. CASE Skipped
  <2>1. CallTypeOK' /\ pc = "stream" /\ pc' = pc /\ reply' = NoReply
    BY <1>0, <1>14 DEF Skipped, CallTypeOK
  <2>2. SlotsOK'
    BY <1>0, <1>14 DEF Skipped, SlotsOK, Slot, Received
  <2>. QED BY <1>2, <2>1, <2>2 DEF ReplyInv
<1>15. CASE StreamEnds
  <2>1. pc = "stream" /\ UNCHANGED <<streamOptions, wireVars>>
    BY <1>15 DEF StreamEnds
  <2>2. CASE Assembled.text \/ Assembled.calls # <<>>
    <3>1. /\ pc' = "idle" /\ reply' = Assembled
          /\ UNCHANGED <<transport, callVars, attempt, timeVars, fault>>
      BY <1>15, <2>2 DEF StreamEnds
    <3>2. CallTypeOK'
      BY <1>0, <2>1, <3>1 DEF CallTypeOK
    <3>3. ReplyIsTheAnswer'
      BY <1>0, <2>1, <3>1, AssembledIsAnswer
    <3>. QED BY <3>1, <3>2, <3>3 DEF ReplyInv
  <2>3. CASE Caught("empty")
    <3>1. "empty" \in CallFaults
      BY DEF CallFaults
    <3>. QED BY <1>0, <2>1, <2>3, <3>1, CaughtKeepsReply DEF CallTypeOK
  <2>. QED BY <1>15, <2>2, <2>3 DEF StreamEnds
<1>16. CASE Tick
  <2>1. /\ CallTypeOK' /\ pc # "idle"
        /\ UNCHANGED <<pc, attempt, reply, answer, sent, text, slots>>
    <3>1. /\ pc # "idle"
          /\ UNCHANGED <<transport, streamOptions, made, tools, pc, attempt, remaining, posts, spoke,
                         answer, sent, text, slots, fault, reply>>
      BY <1>16 DEF Tick, Listening, Connecting, Posting
    <3>2. clock' \in Nat /\ waited' \in Nat
      BY <1>0, <1>16 DEF Tick, Later, CallTypeOK
    <3>3. pause' \in 0..SdkPause
      <4>1. pause \in 0..SdkPause /\ SdkPause \in Nat
        BY <1>0, SdkIsBounded DEF CallTypeOK
      <4>2. pause > 0 => pause - 1 \in 0..SdkPause
        BY <4>1
      <4>. QED BY <1>16, <4>1, <4>2, Zenon DEF Tick
    <3>. QED BY <1>0, <3>1, <3>2, <3>3 DEF CallTypeOK
  <2>2. (Blank => Blank') /\ (SlotsOK => SlotsOK')
    BY <2>1 DEF Blank, SlotsOK, Slot, Received
  <2>. QED BY <1>0, <1>2, <2>1, <2>2 DEF ReplyInv
<1>17. CASE UNCHANGED clientVars
  <2>1. CallTypeOK'
    BY <1>0, <1>17 DEF clientVars, CallTypeOK
  <2>2. (Blank => Blank') /\ (SlotsOK => SlotsOK')
    BY <1>17 DEF clientVars, Blank, SlotsOK, Slot, Received
  <2>3. ReplyIsTheAnswer'
    <3>1. /\ AllOfIt' = AllOfIt /\ reply' = reply /\ answer' = answer
          /\ \A c : Slot(c)' = Slot(c) /\ Sent(c)' = Sent(c)
      BY <1>17 DEF clientVars, AllOfIt, Sent, Slot
    <3>. QED BY <1>0, <3>1 DEF ReplyIsTheAnswer
  <2>. QED BY <1>0, <1>17, <2>1, <2>2, <2>3 DEF clientVars, ReplyInv
<1>. QED BY <1>3, <1>4, <1>5, <1>6, <1>7, <1>8, <1>9, <1>10, <1>11, <1>12, <1>13, <1>14,
            <1>15, <1>16, <1>17 DEF CallNext, Program, Provider

\* Whatever the transport, the order of the fragments and the attempts before, a
\* call hands over the provider's answer (_to_reply, _assemble_stream_reply) or has
\* tried as often as its retries and its deadline allow (ChatModel.complete).
THEOREM Answered == CallSpec => []AnsweredOrTried
<1>1. CallInit => ReplyInv
  <2>. SUFFICES ASSUME CallInit PROVE ReplyInv
    OBVIOUS
  <2>1. CallTypeOK
    <3>1. slots = NoSlots /\ sent = [c \in Calls |-> 0] /\ answer = NoAnswer
      BY DEF CallInit
    <3>2. NoSlots \in [Indices -> [name : Seq(Calls), arguments : Seq(Calls \X Nat)]]
          /\ [c \in Calls |-> 0] \in [Calls -> Nat]
          /\ NoAnswer \in [text : BOOLEAN, calls : SUBSET Calls, indexed : BOOLEAN]
      BY DEF NoSlots, EmptySlot, NoAnswer
    <3>3. /\ made \in 0..MaxCalls /\ attempt \in 0..MaxRetries
          /\ clock \in Nat /\ remaining \in 0..Timeout /\ waited \in Nat
          /\ posts \in 0..SdkReposts /\ pause \in 0..SdkPause
      <4>1. /\ made = 0 /\ attempt = 0 /\ posts = 0 /\ pause = 0
            /\ clock = 0 /\ remaining = 0 /\ waited = 0
        BY Zenon DEF CallInit
      <4>. QED BY <4>1, TimesAreNats, SdkIsBounded, BoundIsNat
    <3>4. /\ transport \in Transports /\ streamOptions \in BOOLEAN /\ tools \in BOOLEAN
          /\ pc = "idle" /\ fault = "none" /\ spoke \in BOOLEAN /\ text \in BOOLEAN
      BY Zenon DEF CallInit
    <3>. QED BY <3>1, <3>2, <3>3, <3>4 DEF CallTypeOK
  <2>. QED BY <2>1 DEF CallInit, ReplyInv, ReplyIsTheAnswer, InCreate
<1>2. ReplyInv => CallTypeOK /\ ReplyIsTheAnswer
  BY DEF ReplyInv
<1>3. CallTypeOK /\ ReplyIsTheAnswer /\ TransientIsRetried <=> AnsweredOrTried
  BY DEF AnsweredOrTried
<1>. QED BY <1>1, <1>2, <1>3, ReplyStep, TransientRetried, PTL DEF CallSpec
================================================================================
