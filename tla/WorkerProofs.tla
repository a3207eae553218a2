---------------------------- MODULE WorkerProofs ----------------------------
(***************************************************************************)
(* The worker of a seat: what an attempt leaves behind and what a seat     *)
(* promises, for every number of attempts, every fault, budget, reply of   *)
(* the model and origin: Accounted, the refinement of SeatProtocol, and    *)
(* the session that is never replaced.                                     *)
(***************************************************************************)
EXTENDS SeatEpisode, TLAPS

\* An attempt that runs has not concluded.
RunOK == pc # "off" => attempt \in Attempts /\ exit = NoExit

\* The hand that is out is the tool the batch waits for.
HandOK == pc \in {"hand", "ledger", "close"} =>
              mem.todo # <<>> /\ mem.call = Now /\ mem.call \in Hands

\* The model concludes only after it has said what it knows, and the
\* statement's row is written before anything else of the end.
EndOK ==
    /\ mem.end \in Terminals => mem.known
    /\ pc \in {"suspend", "note", "conclude"} => <<attempt, FALSE>> \in expected
    /\ exit.kind \in {"deliver", "abstain", "cut_off"} => <<attempt, FALSE>> \in expected

\* A call that is on the ledger has a transcript, and one that is about to be
\* answered was not on it when it began.
BooksOK ==
    /\ \A c \in calls : \E r \in raw : r[1] = c
    /\ \A a \in answered : a[2] \in calls
    /\ \A a, b \in answered : a[2] = b[2] => a = b
    /\ pc = "ledger" => <<Mine, attempt>> \in raw
    /\ pc = "close" => Mine \in calls /\ \A a \in answered : a[2] # Mine

IInv == TypeOK /\ RunOK /\ HandOK /\ EndOK /\ BooksOK

--------------------------------------------------------------------------------
\* A reply is a terminal alone or a batch of tools.
LEMMA ReplyIs ==
    ASSUME NEW reply \in Replies
    PROVE  IF reply[1] \in Terminals THEN TRUE
           ELSE reply \in Seq(Tools) /\ reply # <<>>
BY SeatAssumption DEF Reply, Terminals

\* The tool at the head of a batch, and what the memory keeps once it returned.
LEMMA Batch ==
    ASSUME NEW m \in Memory, m.todo # <<>>
    PROVE  m.todo[1] \in Tools /\ Tail(m.todo) \in Seq(Tools)
<1>1. m.todo \in Seq(Tools)
  BY DEF Memory
<1>. QED BY <1>1

\* mem is the memory m after the tool at the head of its own batch returned.
LEMMA ReturnedIs ==
    ASSUME mem \in Memory, mem.todo # <<>>, NEW m \in Memory, m.todo = mem.todo
    PROVE  /\ Returned(m) \in Memory
           /\ Returned(m).known = m.known /\ Returned(m).end = m.end
<1>. DEFINE t == Tail(m.todo)
<1>1. t \in Seq(Tools)
  BY Batch
<1>2. Returned(m) = [m EXCEPT !.todo = t, !.call = "none"]
  BY DEF Returned
<1>. HIDE DEF t
<1>. QED BY <1>1, <1>2 DEF Memory

\* The invariant holds initially.
LEMMA InitInv == Init => IInv
<1>. SUFFICES ASSUME Init PROVE IInv
  OBVIOUS
<1>. USE SeatAssumption DEF Init
<1>1. mem \in Memory /\ exit \in Exits
  BY DEF Fresh, Memory, Exits, NoExit, Edit
<1>2. TypeOK
  <2>1. attempt \in 0 .. MaxAttempts /\ spent \in Nat /\ pc \in Points
    BY DEF Points
  <2>2. origin \in Origin /\ rejected \in BOOLEAN /\ lab \in {"none", "half", "whole"}
    OBVIOUS
  <2>. QED BY <1>1, <2>1, <2>2, Zenon DEF TypeOK
<1>3. RunOK /\ HandOK /\ EndOK /\ BooksOK
  BY DEF RunOK, HandOK, EndOK, BooksOK, Fresh, NoExit, Terminals
<1>. QED BY <1>2, <1>3 DEF IInv

\* What a step may do to the memory, the result file, the disk and the books.
LEMMA TypeStep == IInv /\ [Next]_vars => TypeOK'
<1>. SUFFICES ASSUME IInv, [Next]_vars PROVE TypeOK'
  OBVIOUS
<1>. USE SeatAssumption DEF vars, given, durable, world, session, books
<1>a. /\ attempt \in 0 .. MaxAttempts /\ pc \in Points /\ spent \in Nat
      /\ origin \in Origin /\ rejected \in BOOLEAN
      /\ lab \in {"none", "half", "whole"} /\ work \subseteq Edit
      /\ trail \subseteq {Parent} \union Attempts
      /\ note \in {"none", "parent", "seat"}
      /\ expected \subseteq Attempts \X BOOLEAN
      /\ head \in {"none", "placeholder", "model"}
      /\ calls \subseteq Id /\ opened \subseteq Id /\ raw \subseteq Id \X Attempts
      /\ exit \in Exits /\ mem \in Memory
      /\ answered \subseteq Attempts \X Id
  BY DEF IInv, TypeOK
<1>b. pc # "off" => attempt \in Attempts
  BY DEF IInv, RunOK
<1>1. attempt' \in 0 .. MaxAttempts /\ origin' \in Origin /\ rejected' \in BOOLEAN
  <2>1. CASE Start
    <3>1. attempt' = attempt + 1 /\ attempt < MaxAttempts /\ MaxAttempts \in Nat
          /\ origin' = origin /\ rejected' = (rejected \/ exit.kind = "deliver")
      BY <2>1 DEF Start
    <3>2. rejected' \in BOOLEAN
      BY <3>1, Zenon
    <3>. QED BY <1>a, <3>1, <3>2
  <2>2. CASE ~Start
    <3>1. UNCHANGED <<attempt, origin, rejected>>
      BY <2>2 DEF Next, Worker, Wake, Turn, Tool, Finish, AdoptLab, CreateLab,
         Checkout, CopyNotebook, CopyTrail, CopyRest, Resume, OpenHead, Assemble, CutOff,
         Think, ModelFails, Repair, Act, Conclude, RunCommand, Register, HandRefused,
         CallHand, HandFails, PersistRaw, Ledger, LedgerFails, CloseRow, ArchiveTurn,
         Expect, Capture, WriteNotebook, SkipNotebook, Deliver, WriteResult, Tick,
         HandEdits, Kill
    <3>. QED BY <1>a, <3>1
  <2>. QED BY <2>1, <2>2
<1>2. pc' \in Points
  BY <1>a DEF Start, Next, Worker, Wake, Turn, Tool, Finish, AdoptLab, CreateLab,
     Checkout, CopyNotebook, CopyTrail, CopyRest, Resume, OpenHead, Assemble, CutOff,
     Think, ModelFails, Repair, Act, Conclude, RunCommand, Register, HandRefused,
     CallHand, HandFails, PersistRaw, Ledger, LedgerFails, CloseRow, ArchiveTurn,
     Expect, Capture, WriteNotebook, SkipNotebook, Deliver, WriteResult, Tick,
     HandEdits, Kill, Fail, Raise, Points
<1>3. spent' \in Nat
  <2>1. spent' \in {spent, spent + 1}
    BY DEF Start, Next, Worker, Wake, Turn, Tool, Finish, AdoptLab, CreateLab,
     Checkout, CopyNotebook, CopyTrail, CopyRest, Resume, OpenHead, Assemble, CutOff,
     Think, ModelFails, Repair, Act, Conclude, RunCommand, Register, HandRefused,
     CallHand, HandFails, PersistRaw, Ledger, LedgerFails, CloseRow, ArchiveTurn,
     Expect, Capture, WriteNotebook, SkipNotebook, Deliver, WriteResult, Tick,
     HandEdits, Kill, Fail, Raise, Spend
  <2>. QED BY <1>a, <2>1
<1>4. lab' \in {"none", "half", "whole"} /\ note' \in {"none", "parent", "seat"}
      /\ head' \in {"none", "placeholder", "model"}
  BY <1>a DEF Start, Next, Worker, Wake, Turn, Tool, Finish, AdoptLab, CreateLab,
     Checkout, CopyNotebook, CopyTrail, CopyRest, Resume, OpenHead, Assemble, CutOff,
     Think, ModelFails, Repair, Act, Conclude, RunCommand, Register, HandRefused,
     CallHand, HandFails, PersistRaw, Ledger, LedgerFails, CloseRow, ArchiveTurn,
     Expect, Capture, WriteNotebook, SkipNotebook, Deliver, WriteResult, Tick,
     HandEdits, Kill, Fail, Raise
<1>5. trail' \subseteq {Parent} \union Attempts
  BY <1>a, <1>b DEF Start, Next, Worker, Wake, Turn, Tool, Finish, AdoptLab, CreateLab,
     Checkout, CopyNotebook, CopyTrail, CopyRest, Resume, OpenHead, Assemble, CutOff,
     Think, ModelFails, Repair, Act, Conclude, RunCommand, Register, HandRefused,
     CallHand, HandFails, PersistRaw, Ledger, LedgerFails, CloseRow, ArchiveTurn,
     Expect, Capture, WriteNotebook, SkipNotebook, Deliver, WriteResult, Tick,
     HandEdits, Kill, Fail, Raise
<1>6. expected' \subseteq Attempts \X BOOLEAN
  <2>1. \/ UNCHANGED expected
        \/ pc # "off" /\ \E b \in BOOLEAN : expected' = expected \union {<<attempt, b>>}
    BY <1>a DEF Start, Next, Worker, Wake, Turn, Tool, Finish, AdoptLab, CreateLab,
       Checkout, CopyNotebook, CopyTrail, CopyRest, Resume, OpenHead, Assemble, CutOff,
       Think, ModelFails, Repair, Act, Conclude, RunCommand, Register, HandRefused,
       CallHand, HandFails, PersistRaw, Ledger, LedgerFails, CloseRow, ArchiveTurn,
       Expect, Capture, WriteNotebook, SkipNotebook, Deliver, WriteResult, Tick,
       HandEdits, Kill
  <2>. QED BY <1>a, <1>b, <2>1
<1>7. work' \subseteq Edit
  <2>1. \/ UNCHANGED work
        \/ pc # "off" /\ \E k \in Marks : work' = work \union {<<attempt, k>>}
    BY <1>a DEF Start, Next, Worker, Wake, Turn, Tool, Finish, AdoptLab, CreateLab,
       Checkout, CopyNotebook, CopyTrail, CopyRest, Resume, OpenHead, Assemble, CutOff,
       Think, ModelFails, Repair, Act, Conclude, RunCommand, Register, HandRefused,
       CallHand, HandFails, PersistRaw, Ledger, LedgerFails, CloseRow, ArchiveTurn,
       Expect, Capture, WriteNotebook, SkipNotebook, Deliver, WriteResult, Tick,
       HandEdits, Kill, Marks
  <2>. QED BY <1>a, <1>b, <2>1 DEF Edit
<1>8. exit' \in Exits
  <2>1. CASE Deliver
    BY <1>a, <2>1 DEF Deliver, Fail, Exits
  <2>2. CASE ~Deliver
    <3>1. \/ UNCHANGED exit
          \/ \E k \in {"none", "abstain", "cut_off", "failed", "lost"} :
                 exit' = [kind |-> k, world |-> {}]
      BY <1>a, <2>2 DEF Start, Next, Worker, Wake, Turn, Tool, Finish, AdoptLab, CreateLab,
         Checkout, CopyNotebook, CopyTrail, CopyRest, Resume, OpenHead, Assemble, CutOff,
         Think, ModelFails, Repair, Act, Conclude, RunCommand, Register, HandRefused,
         CallHand, HandFails, PersistRaw, Ledger, LedgerFails, CloseRow, ArchiveTurn,
         Expect, Capture, WriteNotebook, SkipNotebook, WriteResult, Tick,
         HandEdits, Kill, Fail, Raise, NoExit
    <3>. QED BY <1>a, <3>1 DEF Exits
  <2>. QED BY <2>1, <2>2
<1>9. mem' \in Memory
  <2>0. HandOK
    BY DEF IInv
  <2>1. CASE Start
    BY <2>1 DEF Start, Fresh, Memory
  <2>2. CASE \/ CutOff \/ Think \/ Tick \/ Repair \/ HandFails \/ LedgerFails \/ PersistRaw
             \/ ArchiveTurn
    <3>0. CASE HandFails \/ LedgerFails
      BY <1>a, <3>0 DEF HandFails, LedgerFails, Raise, Memory
    <3>1. CASE CutOff
      BY <1>a, <3>1 DEF CutOff, Memory
    <3>6. CASE Think
      BY <1>a, <3>6 DEF Think, Memory
    <3>2. CASE Tick
      <4>1. PICK c \in {"margin", "over"} : mem' = [mem EXCEPT !.clock = c]
        BY <3>2 DEF Tick
      <4>. QED BY <1>a, <4>1 DEF Memory
    <3>3. CASE Repair
      <4>. DEFINE r == mem.repair + 1
      <4>1. r \in Nat
        BY <1>a DEF Memory
      <4>2. mem' = mem \/ mem' = [mem EXCEPT !.repair = r]
        BY <3>3 DEF Repair
      <4>. HIDE DEF r
      <4>. QED BY <1>a, <4>1, <4>2 DEF Memory
    <3>4. CASE PersistRaw
      <4>. DEFINE c == mem.consults + 1
                  w == mem.works + 1
      <4>1. c \in Nat /\ w \in Nat
        BY <1>a DEF Memory
      <4>2. mem' \in {[mem EXCEPT !.consults = c], [mem EXCEPT !.works = w]}
        BY <3>4 DEF PersistRaw
      <4>. HIDE DEF c, w
      <4>. QED BY <1>a, <4>1, <4>2 DEF Memory
    <3>5. CASE ArchiveTurn
      <4>. DEFINE k == mem.step + 1
      <4>1. k \in Nat /\ mem' = [mem EXCEPT !.step = k]
        BY <1>a, <3>5 DEF ArchiveTurn, Memory
      <4>. HIDE DEF k
      <4>. QED BY <1>a, <4>1 DEF Memory
    <3>. QED BY <2>2, <3>0, <3>6, <3>1, <3>2, <3>3, <3>4, <3>5
  <2>3. ASSUME NEW reply \in Replies, Act(reply) PROVE mem' \in Memory
    <3>1. reply \in Seq(Tools)
      BY <2>3, ReplyIs DEF Act
    <3>. QED BY <1>a, <2>3, <3>1 DEF Act, Memory
  <2>4. ASSUME NEW reply \in Replies, Conclude(reply) PROVE mem' \in Memory
    BY <1>a, <2>4 DEF Conclude, Memory, Terminals
  <2>5. CASE RunCommand
    <3>1. PICK m \in {mem, [mem EXCEPT !.seen = TRUE]} : mem' = Returned(m)
      BY <2>5 DEF RunCommand
    <3>2. m \in Memory /\ m.todo = mem.todo
      BY <1>a, <3>1 DEF Memory
    <3>. QED BY <1>a, <2>5, <3>1, <3>2, ReturnedIs DEF RunCommand
  <2>6. CASE Register
    <3>1. PICK m \in {mem, [mem EXCEPT !.known = TRUE]} : mem' = Returned(m)
      BY <2>6 DEF Register
    <3>2. m \in Memory /\ m.todo = mem.todo
      BY <1>a, <3>1 DEF Memory
    <3>. QED BY <1>a, <2>6, <3>1, <3>2, ReturnedIs DEF Register
  <2>7. CASE HandRefused \/ CloseRow
    <3>1. mem.todo # <<>> /\ mem' = Returned(mem)
      BY <2>0, <2>7 DEF HandRefused, CloseRow, HandOK
    <3>. QED BY <1>a, <3>1, ReturnedIs
  <2>8. CASE CallHand
    <3>. DEFINE k == mem.n + 1
    <3>1. PICK h \in Hands : mem' = [mem EXCEPT !.n = k, !.call = h]
      BY <2>8 DEF CallHand, Hands
    <3>2. k \in Nat /\ h \in Hands \union {"none"}
      BY <1>a DEF Memory
    <3>. HIDE DEF k
    <3>. QED BY <1>a, <3>1, <3>2 DEF Memory
  <2>9. CASE \/ Wake \/ Finish \/ ModelFails \/ Ledger \/ HandEdits \/ Kill
    BY <1>a, <2>9 DEF Wake, AdoptLab, CreateLab, Checkout, CopyNotebook, CopyTrail,
       CopyRest, Resume, OpenHead, Assemble, Finish, Expect, Capture, WriteNotebook,
       SkipNotebook, Deliver, WriteResult, ModelFails, Ledger, HandEdits, Kill
  <2>10. CASE UNCHANGED vars
    BY <1>a, <2>10
  <2>. QED BY <2>1, <2>2, <2>3, <2>4, <2>5, <2>6, <2>7, <2>8, <2>9, <2>10
           DEF Next, Worker, Turn, Tool
<1>10. calls' \subseteq Id /\ opened' \subseteq Id /\ raw' \subseteq Id \X Attempts
       /\ answered' \subseteq Attempts \X Id
  <2>1. pc \in {"hand", "ledger", "close"} => Mine \in Id /\ attempt \in Attempts
    BY <1>a, <1>b DEF IInv, HandOK, Mine, CallId, Id, Hands, Memory
  <2>2. CASE CallHand
    <3>1. CallId(Now, mem.n + 1) \in Id
      BY <1>a, <2>2 DEF CallHand, CallId, Id, Memory
    <3>. QED BY <1>a, <2>2, <3>1 DEF CallHand
  <2>3. CASE PersistRaw \/ Ledger \/ CloseRow
    BY <1>a, <2>1, <2>3 DEF PersistRaw, Ledger, CloseRow
  <2>4. CASE ~(CallHand \/ PersistRaw \/ Ledger \/ CloseRow)
    <3>1. UNCHANGED <<books, answered>>
      BY <2>4 DEF Start, Next, Worker, Wake, Turn, Tool, Finish, AdoptLab, CreateLab,
         Checkout, CopyNotebook, CopyTrail, CopyRest, Resume, OpenHead, Assemble, CutOff,
         Think, ModelFails, Repair, Act, Conclude, RunCommand, Register, HandRefused,
         HandFails, LedgerFails, ArchiveTurn, Expect, Capture, WriteNotebook,
         SkipNotebook, Deliver, WriteResult, Tick, HandEdits, Kill
    <3>. QED BY <1>a, <3>1
  <2>. QED BY <2>2, <2>3, <2>4
<1>. QED BY <1>1, <1>2, <1>3, <1>4, <1>5, <1>6, <1>7, <1>8, <1>9, <1>10, Zenon
         DEF TypeOK

\* Every step keeps the run and its hand as they should be.
LEMMA RunStep == IInv /\ [Next]_vars => RunOK' /\ HandOK'
<1>. SUFFICES ASSUME IInv, [Next]_vars PROVE RunOK' /\ HandOK'
  OBVIOUS
<1>. USE SeatAssumption DEF vars, given, durable, world, session, books
<1>1. attempt \in 0 .. MaxAttempts /\ mem \in Memory /\ RunOK /\ HandOK
  BY DEF IInv, TypeOK
<1>2. RunOK'
  <2>1. CASE Start
    BY <1>1, <2>1 DEF Start, RunOK, Attempts
  <2>2. CASE ~Start
    <3>1. /\ attempt' = attempt
          /\ pc # "off" \/ UNCHANGED vars
          /\ pc' = "off" \/ exit' = exit
      BY <2>2 DEF Next, Worker, Wake, Turn, Tool, Finish, AdoptLab, CreateLab,
         Checkout, CopyNotebook, CopyTrail, CopyRest, Resume, OpenHead, Assemble, CutOff,
         Think, ModelFails, Repair, Act, Conclude, RunCommand, Register, HandRefused,
         CallHand, HandFails, PersistRaw, Ledger, LedgerFails, CloseRow, ArchiveTurn,
         Expect, Capture, WriteNotebook, SkipNotebook, Deliver, WriteResult, Tick,
         HandEdits, Kill, Fail, Raise
    <3>. QED BY <1>1, <3>1 DEF RunOK
  <2>. QED BY <2>1, <2>2
<1>3. HandOK'
  <2>1. CASE CallHand
    BY <1>1, <2>1 DEF CallHand, HandOK, Memory, Hands, Now
  <2>2. CASE PersistRaw
    BY <1>1, <2>2 DEF PersistRaw, HandOK, Memory, Now
  <2>3. CASE Tick
    BY <1>1, <2>3 DEF Tick, HandOK, Memory, Now
  <2>4. CASE Ledger \/ HandEdits \/ UNCHANGED vars
    BY <1>1, <2>4 DEF Ledger, HandEdits, HandOK, Now
  <2>5. CASE ~(CallHand \/ PersistRaw \/ Tick \/ Ledger \/ HandEdits \/ UNCHANGED vars)
    <3>1. pc' \notin {"hand", "ledger", "close"}
      BY <2>5 DEF Start, Next, Worker, Wake, Turn, Tool, Finish, AdoptLab, CreateLab,
         Checkout, CopyNotebook, CopyTrail, CopyRest, Resume, OpenHead, Assemble, CutOff,
         Think, ModelFails, Repair, Act, Conclude, RunCommand, Register, HandRefused,
         HandFails, LedgerFails, CloseRow, ArchiveTurn, Expect, Capture, WriteNotebook,
         SkipNotebook, Deliver, WriteResult, Kill, Fail, Raise
    <3>. QED BY <3>1 DEF HandOK
  <2>. QED BY <2>1, <2>2, <2>3, <2>4, <2>5
<1>. QED BY <1>2, <1>3

\* A conclusion follows what was said and written in the same attempt.
LEMMA EndStep == IInv /\ [Next]_vars => EndOK'
<1>. SUFFICES ASSUME IInv, [Next]_vars PROVE EndOK'
  OBVIOUS
<1>. USE DEF vars, given, durable, world, session, books
<1>1. mem \in Memory /\ EndOK /\ RunOK
  BY DEF IInv, TypeOK
<1>2. mem'.end \in Terminals => mem'.known
  <2>1. CASE Start
    BY <2>1 DEF Start, Fresh, Terminals
  <2>2. ASSUME NEW reply \in Replies, Conclude(reply)
        PROVE  mem'.end \in Terminals => mem'.known
    <3>1. mem.known /\ mem' = [mem EXCEPT !.end = reply[1]]
      BY <2>2 DEF Conclude, Refused
    <3>. QED BY <1>1, <3>1 DEF Memory
  <2>3. CASE RunCommand \/ Register \/ HandRefused \/ CloseRow
    <3>1. PICK m \in {mem, [mem EXCEPT !.seen = TRUE], [mem EXCEPT !.known = TRUE]} :
              mem' = Returned(m)
      BY <2>3 DEF RunCommand, Register, HandRefused, CloseRow
    <3>2. mem'.known = m.known /\ mem'.end = m.end
      BY <1>1, <3>1 DEF Returned, Memory
    <3>3. m.end = mem.end /\ (mem.known => m.known)
      BY <1>1, <3>1 DEF Memory
    <3>. QED BY <1>1, <3>2, <3>3 DEF EndOK
  <2>4. CASE CutOff
    BY <1>1, <2>4 DEF CutOff, Memory, Terminals
  <2>5. CASE \/ Think \/ Tick \/ Repair \/ HandFails \/ LedgerFails \/ PersistRaw
             \/ ArchiveTurn \/ CallHand \/ \E reply \in Replies : Act(reply)
    <3>1. mem'.known = mem.known /\ mem'.end = mem.end
      BY <1>1, <2>5 DEF Think, Tick, Repair, HandFails, LedgerFails, PersistRaw,
         ArchiveTurn, CallHand, Act, Raise, Memory
    <3>. QED BY <1>1, <3>1 DEF EndOK
  <2>6. CASE \/ Wake \/ Finish \/ ModelFails \/ Ledger \/ HandEdits \/ Kill \/ UNCHANGED vars
    <3>1. mem' = mem
      BY <2>6 DEF Wake, AdoptLab, CreateLab, Checkout, CopyNotebook, CopyTrail,
         CopyRest, Resume, OpenHead, Assemble, Finish, Expect, Capture, WriteNotebook,
         SkipNotebook, Deliver, WriteResult, ModelFails, Ledger, HandEdits, Kill
    <3>. QED BY <1>1, <3>1 DEF EndOK
  <2>. QED BY <2>1, <2>2, <2>3, <2>4, <2>5, <2>6 DEF Next, Worker, Turn, Tool
<1>3. (pc' \in {"suspend", "note", "conclude"} => <<attempt', FALSE>> \in expected')
      /\ (exit'.kind \in {"deliver", "abstain", "cut_off"} => <<attempt', FALSE>> \in expected')
  <2>1. CASE Start
    BY <2>1 DEF Start, NoExit
  <2>2. CASE Expect
    BY <1>1, <2>2 DEF Expect, RunOK, NoExit
  <2>3. CASE Capture \/ WriteNotebook \/ SkipNotebook \/ Deliver \/ WriteResult
    BY <1>1, <2>3 DEF Capture, WriteNotebook, SkipNotebook, Deliver, WriteResult, EndOK,
       Fail
  <2>4. CASE HandEdits \/ Kill \/ UNCHANGED vars
    <3>1. /\ UNCHANGED <<attempt, expected>>
          /\ pc' = "off" \/ UNCHANGED pc
          /\ exit'.kind = "lost" \/ UNCHANGED exit
      BY <2>4 DEF HandEdits, Kill
    <3>. QED BY <1>1, <3>1 DEF EndOK
  <2>5. CASE Wake \/ Turn \/ Tool \/ Tick
    <3>1. UNCHANGED <<attempt, expected>> /\ pc # "off"
          /\ pc' \notin {"suspend", "note", "conclude"}
      BY <2>5 DEF Wake, Turn, Tool, AdoptLab, CreateLab,
         Checkout, CopyNotebook, CopyTrail, CopyRest, Resume, OpenHead, Assemble, CutOff,
         Think, ModelFails, Repair, Act, Conclude, RunCommand, Register, HandRefused,
         CallHand, HandFails, PersistRaw, Ledger, LedgerFails, CloseRow, ArchiveTurn,
         Tick, Fail, Raise
    <3>2. exit' = exit \/ exit'.kind = "failed"
      BY <2>5 DEF Wake, Turn, Tool, AdoptLab, CreateLab,
         Checkout, CopyNotebook, CopyTrail, CopyRest, Resume, OpenHead, Assemble, CutOff,
         Think, ModelFails, Repair, Act, Conclude, RunCommand, Register, HandRefused,
         CallHand, HandFails, PersistRaw, Ledger, LedgerFails, CloseRow, ArchiveTurn,
         Tick, Fail, Raise
    <3>. QED BY <1>1, <3>1, <3>2 DEF EndOK
  <2>. QED BY <2>1, <2>2, <2>3, <2>4, <2>5 DEF Next, Worker, Finish
<1>. QED BY <1>2, <1>3 DEF EndOK

\* The ledger, the transcripts and the answers keep step.
LEMMA BooksStep == IInv /\ [Next]_vars => BooksOK'
<1>. SUFFICES ASSUME IInv, [Next]_vars PROVE BooksOK'
  OBVIOUS
<1>. USE DEF vars, given, durable, world, session, books
<1>1. mem \in Memory /\ BooksOK /\ HandOK
  BY DEF IInv, TypeOK
<1>2. CASE PersistRaw
  <2>1. mem'.call = mem.call /\ mem'.n = mem.n
    BY <1>1, <1>2 DEF PersistRaw, Memory
  <2>2. Mine' = Mine
    BY <2>1 DEF Mine, CallId
  <2>3. /\ UNCHANGED <<calls, answered, attempt>> /\ pc' = "ledger"
        /\ raw' = {r \in raw : r[1] # Mine} \union {<<Mine, attempt>>}
    BY <1>2 DEF PersistRaw
  <2>4. \A c \in calls : \E r \in raw' : r[1] = c
    <3>1. SUFFICES ASSUME NEW c \in calls PROVE \E r \in raw' : r[1] = c
      OBVIOUS
    <3>2. CASE c = Mine
      <4>1. <<Mine, attempt>> \in raw' /\ <<Mine, attempt>>[1] = c
        BY <2>3, <3>2
      <4>. QED BY <4>1
    <3>3. CASE c # Mine
      BY <1>1, <2>3, <3>3 DEF BooksOK
    <3>. QED BY <3>2, <3>3
  <2>. QED BY <1>1, <2>2, <2>3, <2>4 DEF BooksOK
<1>3. CASE Ledger
  <2>1. Mine' = Mine
    BY <1>3 DEF Ledger, Mine
  <2>. QED BY <1>1, <1>3, <2>1 DEF Ledger, BooksOK
<1>4. CASE CloseRow
  <2>1. /\ UNCHANGED <<calls, raw>> /\ pc' = "tool" /\ pc = "close"
        /\ answered' = answered \union {<<attempt, Mine>>}
    BY <1>4 DEF CloseRow
  <2>. QED BY <1>1, <2>1 DEF BooksOK
<1>5. CASE ~(PersistRaw \/ Ledger \/ CloseRow)
  <2>1. /\ UNCHANGED <<calls, raw, answered>>
        /\ pc' \notin {"ledger", "close"} \/ UNCHANGED <<vars>>
    BY <1>5 DEF Start, Next, Worker, Wake, Turn, Tool, Finish, AdoptLab, CreateLab,
       Checkout, CopyNotebook, CopyTrail, CopyRest, Resume, OpenHead, Assemble, CutOff,
       Think, ModelFails, Repair, Act, Conclude, RunCommand, Register, HandRefused,
       CallHand, HandFails, LedgerFails, ArchiveTurn, Expect, Capture, WriteNotebook,
       SkipNotebook, Deliver, WriteResult, Tick, HandEdits, Kill, Fail, Raise
  <2>. QED BY <1>1, <2>1 DEF BooksOK, Mine
<1>. QED BY <1>2, <1>3, <1>4, <1>5

\* What the seat's run, its hand, its ending and its books say agrees in every reachable
\* state (AgentRuntime.run, AssistantHands._ledger).
THEOREM Invariant == Spec => []IInv
<1>1. IInv /\ [Next]_vars => IInv'
  BY TypeStep, RunStep, EndStep, BooksStep DEF IInv
<1>. QED BY InitInv, <1>1, PTL DEF Spec

\* Whether an attempt concludes, fails or is killed, what it stated is on file
\* before its conclusion, and what reached the model is on the ledger with a
\* transcript, under an id of its own (append_expectations,
\* AssistantHands._ledger).
THEOREM Accounting == Spec => []Accounted
<1>1. IInv => Accounted
  <2>. SUFFICES ASSUME IInv PROVE NoSilentExit /\ AnsweredIsLedgered
    BY DEF IInv, Accounted
  <2>2. NoSilentExit
    <3>1. SUFFICES ASSUME exit.kind \in {"deliver", "abstain", "cut_off"}
                   PROVE  \E captured \in BOOLEAN : <<attempt, captured>> \in expected
      BY DEF NoSilentExit
    <3>2. <<attempt, FALSE>> \in expected
      BY <3>1 DEF IInv, EndOK
    <3>. QED BY <3>2
  <2>3. AnsweredIsLedgered
    <3>1. BooksOK
      BY DEF IInv
    <3>2. ASSUME NEW a \in answered PROVE a[2] \in calls /\ \E r \in raw : r[1] = a[2]
      BY <3>1 DEF BooksOK
    <3>3. \A a, b \in answered : a[2] = b[2] => a = b
      BY <3>1 DEF BooksOK
    <3>. QED BY <3>2, <3>3, Zenon DEF AnsweredIsLedgered
  <2>. QED BY <2>2, <2>3
<1>. QED BY <1>1, Invariant, PTL

--------------------------------------------------------------------------------
\* The seat starts as its protocol does.
LEMMA InitImplements == Init => Protocol!Init
BY DEF Init, Protocol!Init, Fresh, NoExit, Protocol!NoExit

\* Every step of the worker, of its tools and of its death is one that the seat
\* promised, or none.
LEMMA StepImplements == IInv /\ [Next]_vars => [Protocol!Next]_(Protocol!vars)
<1>. SUFFICES ASSUME IInv, [Next]_vars PROVE Protocol!Next \/ UNCHANGED Protocol!vars
  OBVIOUS
<1>. DEFINE filed == IF exit.kind = "lost" THEN NoExit ELSE exit
<1>. USE DEF vars, given, durable, world, session, books
<1>1. mem \in Memory /\ EndOK /\ RunOK /\ TypeOK
  BY DEF IInv, TypeOK
<1>2. pc # "off" => filed = NoExit /\ exit = NoExit
  BY <1>1 DEF RunOK
<1>3. CASE Start
  <2>1. work' = work /\ mem'.known = FALSE /\ exit' = NoExit
    BY <1>3 DEF Start, Fresh
  <2>2. filed' = NoExit
    BY <2>1 DEF NoExit
  <2>. QED BY <2>1, <2>2 DEF Protocol!Next, Protocol!Begin, Protocol!NoExit, NoExit
<1>4. CASE RunCommand
  <2>1. mem'.known = mem.known
    <3>1. PICK m \in {mem, [mem EXCEPT !.seen = TRUE]} : mem' = Returned(m)
      BY <1>4 DEF RunCommand
    <3>. QED BY <1>1, <3>1 DEF Returned, Memory
  <2>2. exit' = exit /\ pc # "off" /\ work' \in {work, work \union {<<attempt, "run">>}}
    BY <1>4 DEF RunCommand
  <2>3. <<attempt, "run">> \in Edit
    BY <1>1, <2>2 DEF RunOK, Edit, Marks
  <2>. QED BY <1>2, <2>1, <2>2, <2>3
           DEF Protocol!Next, Protocol!Toil, Protocol!vars, Protocol!NoExit, NoExit
<1>5. CASE HandEdits
  <2>1. mem' = mem /\ exit' = exit /\ pc # "off" /\ work' = work \union {<<attempt, "work">>}
    BY <1>5 DEF HandEdits
  <2>2. <<attempt, "work">> \in Edit
    BY <1>1, <2>1 DEF RunOK, Edit, Marks
  <2>. QED BY <1>2, <2>1, <2>2
           DEF Protocol!Next, Protocol!Toil, Protocol!NoExit, NoExit
<1>6. CASE Kill
  <2>1. /\ mem' = mem /\ exit'.kind = "lost" /\ pc # "off"
        /\ work' \in {work, work \union {<<attempt, "hole">>}}
    BY <1>6 DEF Kill
  <2>2. <<attempt, "hole">> \in Edit
    BY <1>1, <2>1 DEF RunOK, Edit, Marks
  <2>3. filed' = NoExit
    BY <2>1
  <2>. QED BY <1>2, <2>1, <2>2, <2>3
           DEF Protocol!Next, Protocol!Toil, Protocol!vars, Protocol!NoExit, NoExit
<1>7. CASE Register
  <2>1. mem'.known \in {mem.known, TRUE}
    <3>1. PICK m \in {mem, [mem EXCEPT !.known = TRUE]} : mem' = Returned(m)
      BY <1>7 DEF Register
    <3>. QED BY <1>1, <3>1 DEF Returned, Memory
  <2>2. exit' = exit /\ pc # "off" /\ work' = work
    BY <1>7 DEF Register
  <2>. QED BY <1>2, <2>1, <2>2
           DEF Protocol!Next, Protocol!Say, Protocol!vars, Protocol!NoExit, NoExit
<1>8. CASE Deliver
  <2>1. /\ mem' = mem /\ work' = work /\ pc # "off" /\ mem.known
        /\ \/ work = {} /\ exit' = [kind |-> "failed", world |-> {}]
           \/ work # {} /\ exit' = [kind |-> "deliver", world |-> work]
    BY <1>1, <1>8 DEF Deliver, Fail, EndOK, Terminals
  <2>2. filed' = exit'
    BY <2>1
  <2>. QED BY <1>2, <2>1, <2>2
           DEF Protocol!Next, Protocol!Stop, Protocol!Deliver, Protocol!NoExit, NoExit
<1>9. CASE WriteResult
  <2>1. /\ mem' = mem /\ work' = work /\ pc # "off"
        /\ \/ mem.known /\ exit' = [kind |-> "abstain", world |-> {}]
           \/ exit' = [kind |-> "cut_off", world |-> {}]
    BY <1>1, <1>9 DEF WriteResult, EndOK, Terminals
  <2>2. filed' = exit'
    BY <2>1
  <2>. QED BY <1>2, <2>1, <2>2
           DEF Protocol!Next, Protocol!Stop, Protocol!Abstain, Protocol!NoExit, NoExit
<1>10. CASE HandFails \/ LedgerFails \/ Repair \/ ModelFails
  <2>1. /\ mem'.known = mem.known /\ work' = work /\ pc # "off"
        /\ exit' = exit \/ exit' = [kind |-> "failed", world |-> {}]
    BY <1>1, <1>10 DEF HandFails, LedgerFails, Repair, ModelFails, Raise, Fail, Memory
  <2>2. exit' # exit => filed' = exit'
    BY <2>1
  <2>. QED BY <1>2, <2>1, <2>2
           DEF Protocol!Next, Protocol!Stop, Protocol!vars, Protocol!NoExit, NoExit
<1>11. CASE HandRefused \/ CloseRow
  <2>1. mem' = Returned(mem) /\ work' = work /\ exit' = exit
    BY <1>11 DEF HandRefused, CloseRow
  <2>2. mem'.known = mem.known
    BY <1>1, <2>1 DEF Returned, Memory
  <2>. QED BY <2>1, <2>2 DEF Protocol!vars
<1>12. CASE \/ CutOff \/ Think \/ Tick \/ PersistRaw \/ ArchiveTurn \/ CallHand
            \/ \E reply \in Replies : Act(reply) \/ Conclude(reply)
  <2>1. mem'.known = mem.known /\ work' = work /\ exit' = exit
    BY <1>1, <1>12 DEF CutOff, Think, Tick, PersistRaw, ArchiveTurn, CallHand, Act,
       Conclude, Memory
  <2>. QED BY <2>1 DEF Protocol!vars
<1>13. CASE \/ Wake \/ Expect \/ Capture \/ WriteNotebook \/ SkipNotebook \/ Ledger
            \/ UNCHANGED vars
  <2>1. mem' = mem /\ work' = work /\ exit' = exit
    BY <1>13 DEF Wake, AdoptLab, CreateLab, Checkout, CopyNotebook, CopyTrail,
       CopyRest, Resume, OpenHead, Assemble, Expect, Capture, WriteNotebook,
       SkipNotebook, Ledger
  <2>. QED BY <2>1 DEF Protocol!vars
<1>. QED BY <1>3, <1>4, <1>5, <1>6, <1>7, <1>8, <1>9, <1>10, <1>11, <1>12, <1>13
         DEF Next, Worker, Turn, Tool, Finish

\* Whatever the model, its tools, the faults and the deaths of the processes do,
\* the worker keeps the seat's promises (SeatProtocol): the laboratory only gains
\* work, and what an attempt delivers is all of it, after it said what it knows
\* (ProposerOrchestrator.run, AgentRuntime.run).
THEOREM Implements == Spec => RefinesProtocol
<1>1. Spec => Protocol!Init /\ [][Protocol!Next]_(Protocol!vars)
  BY InitImplements, StepImplements, Invariant, PTL DEF Spec
<1>. QED BY <1>1 DEF RefinesProtocol, Protocol!Spec

\* A life's own rows are never lost from its session, and a parent's rows come
\* first or not at all (_inherit_parent_session).
THEOREM Lived == Spec => LivedIsKept
<1>1. IInv /\ [Next]_vars =>
          [/\ trail \subseteq trail'
           /\ Parent \in trail' \ trail => trail = {} /\ ~origin.seeded]_trail
  <2>. SUFFICES ASSUME IInv, [Next]_vars, trail' # trail
                PROVE  /\ trail \subseteq trail'
                       /\ Parent \in trail' \ trail => trail = {} /\ ~origin.seeded
    OBVIOUS
  <2>1. \/ trail = {} /\ ~origin.seeded
        \/ pc # "off" /\ trail' = trail \union {attempt}
    BY DEF vars, given, durable, world, session, books, Inherits, Start, Next, Worker, Wake, Turn, Tool, Finish, AdoptLab, CreateLab,
       Checkout, CopyNotebook, CopyTrail, CopyRest, Resume, OpenHead, Assemble, CutOff,
       Think, ModelFails, Repair, Act, Conclude, RunCommand, Register, HandRefused,
       CallHand, HandFails, PersistRaw, Ledger, LedgerFails, CloseRow, ArchiveTurn,
       Expect, Capture, WriteNotebook, SkipNotebook, Deliver, WriteResult, Tick,
       HandEdits, Kill, Fail, Raise
  <2>2. pc # "off" => attempt # Parent
    BY SeatAssumption DEF IInv, RunOK, Attempts, Parent
  <2>. QED BY <2>1, <2>2
<1>. QED BY <1>1, Invariant, PTL DEF Spec, LivedIsKept
================================================================================
