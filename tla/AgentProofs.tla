------------------------------ MODULE AgentProofs ------------------------------
(***************************************************************************)
(* The two agents that the program asks outside a seat.  First the         *)
(* supervisor (SupervisorTurn): what a judgment was drawn from and what it *)
(* is judged by, for every tree, set of lenses, number of seats, evidence, *)
(* workers and deaths.  Then the Scientist (Conversation): its episodes    *)
(* keep the conversation whole on file and before the model, name each     *)
(* item once, show the view of the day and deliver what was listened to,   *)
(* for every size of run, bound of the loop and number of stops.  The      *)
(* names of the two are apart, and neither says anything of the other.     *)
(***************************************************************************)
EXTENDS SupervisorTurn, Conversation, TLAPS, FiniteSetTheorems, WellFoundedInduction

--------------------------------------------------------------------------------
(* The order of the reads.                                                 *)

\* The reads of a turn's facts follow one another in the order the code makes them.
LEMMA ReadsInOrder ==
    /\ {Reads[i] : i \in 1..9} = {"refusal", "events", "nodes", "ledger", "known", "bought", "untried",
                                  "stats", "free"}
    /\ {Reads[i] : i \in DOMAIN Reads} = {"refusal", "events", "nodes", "ledger", "known", "bought",
                                          "untried", "stats", "free", "wake"}
    /\ After("refusal") = "events" /\ After("events") = "nodes" /\ After("nodes") = "ledger"
    /\ After("ledger") = "known" /\ After("known") = "bought" /\ After("bought") = "untried"
    /\ After("untried") = "stats" /\ After("stats") = "free" /\ After("free") = "wake"
    /\ Reads[1] = "refusal"
<1>1. DOMAIN Reads = 1..10
  BY DEF Reads
<1>2. /\ Reads[1] = "refusal" /\ Reads[2] = "events" /\ Reads[3] = "nodes" /\ Reads[4] = "ledger"
      /\ Reads[5] = "known" /\ Reads[6] = "bought" /\ Reads[7] = "untried" /\ Reads[8] = "stats"
      /\ Reads[9] = "free" /\ Reads[10] = "wake"
  BY DEF Reads
<1>3. \A i \in 1..10 : \/ i = 1 \/ i = 2 \/ i = 3 \/ i = 4 \/ i = 5
                       \/ i = 6 \/ i = 7 \/ i = 8 \/ i = 9 \/ i = 10
  OBVIOUS
<1>4. \A i \in 1..10, j \in 1..10 : Reads[i] = Reads[j] => i = j
  BY <1>2, <1>3
<1>5. \A k \in 1..10 : (CHOOSE i \in DOMAIN Reads : Reads[i] = Reads[k]) = k
  BY <1>1, <1>4
<1>6. \A k \in 1..10 : After(Reads[k]) = Reads[1 + k]
  BY <1>5 DEF After
<1>7. /\ After("refusal") = "events" /\ After("events") = "nodes" /\ After("nodes") = "ledger"
      /\ After("ledger") = "known" /\ After("known") = "bought" /\ After("bought") = "untried"
      /\ After("untried") = "stats" /\ After("stats") = "free" /\ After("free") = "wake"
  BY <1>6, <1>2
<1>8. {Reads[i] : i \in 1..9} = {"refusal", "events", "nodes", "ledger", "known", "bought", "untried",
                                "stats", "free"}
  BY <1>2, <1>3
<1>9. {Reads[i] : i \in DOMAIN Reads} = {"refusal", "events", "nodes", "ledger", "known", "bought",
                                        "untried", "stats", "free", "wake"}
  BY <1>1, <1>2, <1>3
<1>. QED BY <1>2, <1>7, <1>8, <1>9

--------------------------------------------------------------------------------
(* The invariant.                                                          *)

ReadNames == {"refusal", "events", "nodes", "ledger", "known", "bought", "untried",
              "stats", "free", "wake"}
Working   == ReadNames \cup {"think", "note", "answer"}

\* The stages at which each query has been answered.
HasRefusal == Working \ {"refusal"}
HasEvents  == HasRefusal \ {"events"}
HasNodes   == HasEvents \ {"nodes"}
HasLedger  == HasNodes \ {"ledger"}
HasMenu    == HasLedger \ {"known", "bought", "untried"}
HasStats   == HasMenu \ {"stats"}
HasFree    == HasStats \ {"free"}

\* The workers there are, their batches and their answers.
HiresOK ==
    /\ \A h \in Hire : turn[h].at # "off" => /\ h <= hired
                                             /\ turn[h].work \in 1..head
                                             /\ turn[h].from < turn[h].work
    /\ running # 0 => turn[running].at # "off" /\ cursor < turn[running].work
    /\ \A w \in Work : file[w] # NoFile => /\ file[w].by \in Hire
                                           /\ turn[file[w].by].work = w
                                           /\ turn[file[w].by].at = "done"

\* What a worker has in hand, or has left in an answer that nobody has read.
Knows(h, stages) == \/ turn[h].at \in stages
                    \/ turn[h].at = "done" /\ file[turn[h].work].by = h

\* As long as the batch of a worker is the newest evidence and is not decided,
\* what it was shown is the world as it is.
Fresh(h) == turn[h].work = head /\ cursor < head

\* What the three queries of the menu return at this moment.
Worlds    == OfWorlds(nodes)
NowBurned == BurnedIn(Worlds)

UpToDate(h) ==
    LET t == turn[h]
    IN Fresh(h) =>
        /\ t.at # "off" => t.from = cursor
        /\ Knows(h, HasEvents) => t.heard = {e \in Work : cursor < e /\ e <= head}
        /\ Knows(h, HasNodes) => t.nodes = nodes
        /\ Knows(h, HasLedger) => \A s \in Seat : t.ledger[s] = "open" => seat[s] \in Open
        /\ t.at = "bought" => t.burned = Worlds
        /\ t.at = "untried" => t.burned = NowBurned
        /\ Knows(h, HasMenu) => t.menu = Menu
        /\ Knows(h, HasFree) => t.base <= reopened /\ (t.base = reopened => t.free <= Capacity)
ShownAsItIs == \A h \in Hire : UpToDate(h)

\* A seat on a worker's ledger is a seat for ever, the menu is read after the ledger
\* and the statistics after both; a world born since it listed the worlds came with
\* evidence.
Consistently(h) ==
    LET t == turn[h]
    IN /\ t.at \in {"off", "refusal", "events", "nodes", "ledger", "known", "bought", "untried"}
             => t.menu = {}
       /\ t.nodes \subseteq nodes
       /\ t.at \in HasNodes \/ t.menu # {} => (t.work = head => t.nodes = nodes)
       /\ \A m \in t.menu : m[1] \in nodes
       /\ t.at = "bought" => OfWorlds(t.nodes) \subseteq t.burned
       /\ \A s \in Seat : t.ledger[s] # "none" =>
            /\ s \in Bought
            /\ t.at \notin {"known", "bought", "untried", "stats"} => s \in t.counted
            /\ t.at = "untried" =>
                 \A m \in OfWorlds(t.nodes) : m[2] = s[2] /\ s[1] \in Above[m[1]] => m \in t.burned
            /\ \A m \in t.menu : m[2] = s[2] /\ s[1] \in Above[m[1]] => m[1] \notin t.nodes
FactsHold == \A h \in Hire : Consistently(h)

TInv == TypeOK /\ HiresOK /\ ShownAsItIs /\ FactsHold /\ RetryIsTold

--------------------------------------------------------------------------------
\* A worker is before its turn, in one of its reads, at its answer or over.
LEMMA StageNames == Stages = ReadNames \cup {"off", "dead", "think", "note", "answer", "done"}
BY ReadsInOrder DEF Stages, ReadNames

\* What the type invariant says of the counters, as numbers.
LEMMA Bounds ==
    ASSUME TypeOK
    PROVE  /\ head \in Nat /\ head <= MaxEvents /\ MaxEvents \in Nat
           /\ 1..head \subseteq Work /\ \A w \in 1..head : w \in Work /\ w \in 0..MaxEvents
           /\ cursor \in Nat /\ cursor <= head
           /\ hired \in Nat /\ hired <= MaxHires /\ MaxHires \in Nat
           /\ running # 0 => running \in Hire
BY TurnAssumption DEF TypeOK, Work, Hire

\* A worker not yet hired is of its type.
LEMMA UnbornType == Unborn \in TurnType
BY TurnAssumption, StageNames DEF Unborn, TurnType, None

\* A worker whose turn is over is of its type.
LEMMA OverType ==
    ASSUME NEW h \in Hire, turn[h] \in TurnType, NEW at \in Stages
    PROVE  Over(h, at) \in TurnType
<1>1. turn[h].work \in 0..MaxEvents /\ turn[h].from \in 0..MaxEvents
  BY DEF TurnType
<1>. QED BY <1>1, UnbornType DEF Over, TurnType

\* The capacity that is left is an integer.
LEMMA CapacityType == Capacity \in Int /\ Capacity' \in Int
<1>1. IsFiniteSet(Seat)
  BY TurnAssumption, FS_Product DEF Seat
<1>2. IsFiniteSet(Researching) /\ IsFiniteSet(Researching')
  BY <1>1, FS_Subset DEF Researching
<1>. QED BY <1>2, FS_CardinalityType, TurnAssumption DEF Capacity

\* With fewer seats researching there is no less room.
LEMMA MoreRoom ==
    ASSUME Researching' \subseteq Researching
    PROVE  Capacity <= Capacity'
<1>1. IsFiniteSet(Researching)
  BY TurnAssumption, FS_Product, FS_Subset DEF Seat, Researching
<1>2. IsFiniteSet(Researching') /\ Cardinality(Researching') <= Cardinality(Researching)
  BY <1>1, FS_Subset
<1>3. Cardinality(Researching) \in Nat /\ Cardinality(Researching') \in Nat
  BY <1>1, <1>2, FS_CardinalityType
<1>. QED BY <1>2, <1>3, TurnAssumption DEF Capacity

\* The invariant holds initially.
LEMMA Initially == Init => TInv
<1>. SUFFICES ASSUME Init PROVE TInv
  OBVIOUS
<1>1. TypeOK
  BY UnbornType, TurnAssumption DEF Init, TypeOK, Work, Hire, NoFile, Failed, None
<1>2. HiresOK
  BY DEF Init, HiresOK, Unborn, Hire
<1>3. ShownAsItIs
  BY DEF Init, ShownAsItIs, UpToDate, Fresh
<1>4. FactsHold
  <2>1. ASSUME NEW h \in Hire
        PROVE  /\ turn[h].at = "off" /\ turn[h].nodes = {} /\ turn[h].menu = {}
               /\ \A s \in Seat : turn[h].ledger[s] = "none"
    BY DEF Init, Unborn
  <2>2. "off" \notin HasNodes
    BY DEF HasNodes, HasEvents, HasRefusal, Working, ReadNames
  <2>. QED BY <2>1, <2>2 DEF FactsHold, Consistently
<1>5. RetryIsTold
  BY DEF Init, RetryIsTold
<1>. QED BY <1>1, <1>2, <1>3, <1>4, <1>5 DEF TInv

--------------------------------------------------------------------------------
(* The world moves.                                                        *)

\* Evidence arrives, or nothing a judgment depends on is taken away.
Moves == \/ head' = head + 1
         \/ /\ head' = head /\ nodes' = nodes
            /\ \A s \in Seat : seat[s] \in Open => seat'[s] \in Open
            /\ reopened <= reopened'
            /\ reopened' = reopened => Researching' \subseteq Researching

\* A step of the world alone that moves it on, or takes nothing away, keeps the invariant.
LEMMA WorldStep ==
    ASSUME TInv, TypeOK', Elsewhere, Bought' = Bought, nodes \subseteq nodes', Moves
    PROVE  TInv'
<1>. USE DEF Elsewhere, gateVars
<1>1. HiresOK'
  BY DEF TInv, HiresOK, Moves, TypeOK
<1>2. ASSUME NEW h \in Hire PROVE UpToDate(h)'
  <2>1. CASE turn[h].at = "off"
    BY <2>1 DEF UpToDate, Knows, Working, HasEvents, HasNodes, HasLedger, HasMenu, HasFree,
       HasRefusal, HasStats, ReadNames
  <2>2. CASE turn[h].at # "off" /\ head' = head + 1
    <3>1. turn[h].work <= head /\ head \in Nat /\ turn[h].work \in Nat
      BY <2>2 DEF TInv, HiresOK, TypeOK
    <3>. QED BY <3>1, <2>2 DEF UpToDate, Fresh
  <2>3. CASE head' = head /\ Moves
    <3>1. UpToDate(h)
      BY DEF TInv, ShownAsItIs
    <3>2. (Menu' = Menu /\ Worlds' = Worlds /\ NowBurned' = NowBurned) \/ head' = head + 1
      BY <2>3 DEF Moves, Menu, Worlds, NowBurned, OfWorlds, BurnedIn, Burned
    <3>3. head' # head + 1
      BY <2>3 DEF TInv, TypeOK
    <3>4. reopened' = reopened => Capacity <= Capacity'
      BY <2>3, <3>3, MoreRoom DEF Moves
    <3>5. Capacity \in Int /\ Capacity' \in Int /\ turn[h].free \in Int /\ turn[h].base \in Nat
          /\ reopened \in Nat /\ reopened' \in Nat
      BY CapacityType DEF TInv, TypeOK, TurnType
    <3>6. Fresh(h)' => Fresh(h)
      BY <2>3 DEF Fresh
    <3>7. \A S : Knows(h, S)' <=> Knows(h, S)
      BY DEF Knows
    <3>. QED BY <2>3, <3>1, <3>2, <3>3, <3>4, <3>5, <3>6, <3>7 DEF UpToDate, Moves
  <2>. QED BY <2>1, <2>2, <2>3 DEF Moves
<1>3. ASSUME NEW h \in Hire PROVE Consistently(h)'
  <2>1. Consistently(h)
    BY DEF TInv, FactsHold
  <2>2. (head' = head /\ nodes' = nodes) \/ (turn[h].at # "off" => turn[h].work # head')
    BY DEF TInv, HiresOK, TypeOK, Moves
  <2>3. turn[h].at \in HasNodes \/ turn[h].menu # {} => turn[h].at # "off"
    BY <2>1 DEF Consistently, HasNodes, HasEvents, HasRefusal, Working, ReadNames
  <2>. QED BY <2>1, <2>2, <2>3 DEF Consistently, OfWorlds
<1>4. RetryIsTold'
  BY DEF TInv, RetryIsTold
<1>. QED BY <1>1, <1>2, <1>3, <1>4 DEF TInv, ShownAsItIs, FactsHold

\* The root's readiness and the seats' deliveries keep the invariant.
LEMMA SeatSteps == TInv /\ (RootReady \/ Seats) => TInv'
<1>. SUFFICES ASSUME TInv, RootReady \/ Seats PROVE TInv'
  OBVIOUS
<1>. USE DEF Elsewhere, gateVars, Bought, Researching, Moves
<1>0. TypeOK
  BY DEF TInv
<1>1. CASE RootReady
  <2>1. TypeOK'
    BY <1>0, <1>1, TurnAssumption DEF RootReady, Wake, TypeOK
  <2>. QED BY <1>1, <2>1, WorldStep DEF RootReady, Wake
<1>2. ASSUME NEW s \in Seat, SeatDelivers(s) PROVE TInv'
  <2>1. TypeOK'
    BY <1>0, <1>2 DEF SeatDelivers, Becomes, TypeOK, Open
  <2>. QED BY <1>0, <1>2, <2>1, WorldStep DEF SeatDelivers, Becomes, Open, TypeOK
<1>3. ASSUME NEW s \in Seat, SeatJudged(s) PROVE TInv'
  <2>1. TypeOK'
    BY <1>0, <1>3, TurnAssumption DEF SeatJudged, Becomes, Children, Wake, TypeOK, Open
  <2>2. Bought' = Bought
    BY <1>0, <1>3 DEF SeatJudged, Becomes, TypeOK, Open
  <2>. QED BY <1>3, <2>1, <2>2, WorldStep DEF SeatJudged, Wake
<1>4. ASSUME NEW s \in Seat, SeatCloses(s) PROVE TInv'
  <2>1. TypeOK'
    BY <1>0, <1>4, TurnAssumption DEF SeatCloses, Becomes, Wake, TypeOK, Open
  <2>2. Bought' = Bought
    BY <1>0, <1>4 DEF SeatCloses, Becomes, TypeOK
  <2>. QED BY <1>4, <2>1, <2>2, WorldStep DEF SeatCloses, Wake
<1>5. ASSUME NEW s \in Seat, SeatFails(s) \/ SeatRetried(s) PROVE TInv'
  <2>1. TypeOK'
    BY <1>0, <1>5 DEF SeatFails, SeatRetried, TypeOK
  <2>. QED BY <1>0, <1>5, <2>1, WorldStep DEF SeatFails, SeatRetried, TypeOK
<1>6. ASSUME NEW s \in Seat, SeatReopens(s) PROVE TInv'
  <2>1. TypeOK'
    BY <1>0, <1>6 DEF SeatReopens, Becomes, TypeOK, Open
  <2>2. reopened' = reopened + 1 /\ reopened \in Nat /\ head' = head /\ nodes' = nodes
    BY <1>0, <1>6 DEF SeatReopens, TypeOK
  <2>3. Bought' = Bought /\ \A t \in Seat : seat[t] \in Open => seat'[t] \in Open
    BY <1>0, <1>6 DEF SeatReopens, Becomes, TypeOK, Open
  <2>. QED BY <1>6, <2>1, <2>2, <2>3, WorldStep DEF SeatReopens
<1>. QED BY <1>1, <1>2, <1>3, <1>4, <1>5, <1>6 DEF Seats

\* The gate's opening and resting, and the scheduler's step around it, keep the invariant.
LEMMA PhaseSteps ==
    TInv /\ (GateOpens \/ StepEnds \/ StepBegins \/ GateRests \/ UNCHANGED vars) => TInv'
<1>. SUFFICES ASSUME TInv, GateOpens \/ StepEnds \/ StepBegins \/ GateRests \/ UNCHANGED vars
              PROVE  TInv'
  OBVIOUS
<1>1. /\ UNCHANGED <<worldVars, gateVars, file, session, turn, faults>>
      /\ phase' = phase \/ phase' \in {"early", "gate", "late", "reopen"}
  BY DEF GateOpens, StepEnds, StepBegins, GateRests, Passed, vars
<1>2. TypeOK'
  BY <1>1 DEF TInv, TypeOK, worldVars, gateVars
<1>3. HiresOK' /\ FactsHold' /\ RetryIsTold'
  BY <1>1 DEF TInv, worldVars, gateVars, HiresOK, FactsHold, Consistently, OfWorlds, RetryIsTold, Bought
<1>4. Menu' = Menu /\ Worlds' = Worlds /\ NowBurned' = NowBurned /\ Capacity' = Capacity
  BY <1>1 DEF worldVars, Menu, Worlds, NowBurned, OfWorlds, BurnedIn, Burned, Bought, Capacity, Researching
<1>5. ShownAsItIs'
  BY <1>1, <1>4 DEF TInv, worldVars, gateVars, ShownAsItIs, UpToDate, Fresh, Knows
<1>. QED BY <1>2, <1>3, <1>5 DEF TInv

--------------------------------------------------------------------------------
(* A worker moves.                                                         *)

\* One worker at work changes what it knows.
OneTurn(h, t) == /\ turn' = [turn EXCEPT ![h] = t]
                 /\ t.work = turn[h].work /\ t.from = turn[h].from
                 /\ UNCHANGED <<worldVars, gateVars, phase, file>>

\* One worker's own step keeps the invariant if what it read is current and it is told the truth.
LEMMA TurnStep ==
    ASSUME TInv, TypeOK', NEW h \in Hire, NEW t \in TurnType, OneTurn(h, t),
           turn[h].at \in Working, t.at \in Working \cup {"dead"},
           UpToDate(h)', Consistently(h)',
           t.at \in HasRefusal => \/ t.told = refused[t.work]
                                  \/ (t.told = turn[h].told /\ turn[h].at \in HasRefusal)
    PROVE  TInv'
<1>. USE DEF OneTurn, worldVars, gateVars
<1>1. /\ turn \in [Hire -> TurnType] /\ turn'[h] = t
      /\ \A g \in Hire \ {h} : turn'[g] = turn[g]
  BY DEF TInv, TypeOK
<1>2. HiresOK'
  <2>1. \A w \in Work : file[w] # NoFile => file[w].by # h
    BY DEF TInv, HiresOK, Working, ReadNames
  <2>. QED BY <1>1, <2>1 DEF TInv, HiresOK, Working, ReadNames, TypeOK, Hire
<1>3. ASSUME NEW g \in Hire \ {h} PROVE UpToDate(g)' /\ Consistently(g)'
  <2>1. Menu' = Menu /\ Worlds' = Worlds /\ NowBurned' = NowBurned /\ Capacity' = Capacity
    BY DEF Menu, Worlds, NowBurned, OfWorlds, BurnedIn, Burned, Bought, Capacity, Researching
  <2>. QED BY <1>1, <2>1 DEF TInv, ShownAsItIs, FactsHold, UpToDate, Consistently, Fresh, Knows,
              Bought, OfWorlds
<1>4. RetryIsTold'
  BY <1>1, ReadsInOrder DEF TInv, RetryIsTold, TypeOK, Hire, HasRefusal, Working, ReadNames
<1>. QED BY <1>2, <1>3, <1>4 DEF TInv, ShownAsItIs, FactsHold

\* What one query changes of a worker's memory keeps it well formed.
LEMMA ReadType ==
    ASSUME NEW r \in TurnType
    PROVE  /\ \A x \in Nat : [r EXCEPT !.told = x, !.at = "events"] \in TurnType
           /\ \A x \in SUBSET Work : [r EXCEPT !.heard = x, !.at = "nodes"] \in TurnType
           /\ \A x \in SUBSET Node : [r EXCEPT !.nodes = x, !.at = "ledger"] \in TurnType
           /\ \A x \in [Seat -> {"none", "open", "finished"}] :
                [r EXCEPT !.ledger = x, !.at = "known"] \in TurnType
           /\ \A x \in SUBSET Seat : [r EXCEPT !.burned = x, !.at = "bought"] \in TurnType
           /\ \A x \in SUBSET Seat : [r EXCEPT !.burned = x, !.at = "untried"] \in TurnType
           /\ \A x \in SUBSET Seat : [r EXCEPT !.menu = x, !.burned = {}, !.at = "stats"] \in TurnType
           /\ \A x \in SUBSET Seat : [r EXCEPT !.counted = x, !.at = "free"] \in TurnType
           /\ \A x \in Int, b \in Nat : [r EXCEPT !.free = x, !.base = b, !.at = "wake"] \in TurnType
<1>. DEFINE Ledgers == [Seat -> {"none", "open", "finished"}]
            Says == Judgments \cup {Failed, None}
<1>1. {"events", "nodes", "ledger", "known", "bought", "untried", "stats", "free", "wake"} \subseteq Stages
  BY StageNames DEF ReadNames
<1>2. TurnType = [at : Stages, work : 0..MaxEvents, from : 0..MaxEvents, told : Nat,
             heard : SUBSET Work, nodes : SUBSET Node, ledger : Ledgers,
             burned : SUBSET Seat, menu : SUBSET Seat, counted : SUBSET Seat, free : Int, base : Nat,
             steps : 0..MaxSteps, repairs : 0..MaxRepairs, says : Says]
  BY DEF TurnType
<1>. HIDE DEF Ledgers, Says
<1>3. \A x \in Nat : [r EXCEPT !.told = x, !.at = "events"] \in TurnType
  BY <1>1, <1>2
<1>4. \A x \in SUBSET Work : [r EXCEPT !.heard = x, !.at = "nodes"] \in TurnType
  BY <1>1, <1>2
<1>5. \A x \in SUBSET Node : [r EXCEPT !.nodes = x, !.at = "ledger"] \in TurnType
  BY <1>1, <1>2
<1>6. \A x \in Ledgers : [r EXCEPT !.ledger = x, !.at = "known"] \in TurnType
  BY <1>1, <1>2
<1>6a. \A x \in SUBSET Seat : [r EXCEPT !.burned = x, !.at = "bought"] \in TurnType
  BY <1>1, <1>2
<1>6b. \A x \in SUBSET Seat : [r EXCEPT !.burned = x, !.at = "untried"] \in TurnType
  BY <1>1, <1>2
<1>7. \A x \in SUBSET Seat : [r EXCEPT !.menu = x, !.burned = {}, !.at = "stats"] \in TurnType
  BY <1>1, <1>2
<1>8. \A x \in SUBSET Seat : [r EXCEPT !.counted = x, !.at = "free"] \in TurnType
  BY <1>1, <1>2
<1>9. \A x \in Int, b \in Nat : [r EXCEPT !.free = x, !.base = b, !.at = "wake"] \in TurnType
  BY <1>1, <1>2
<1>. QED BY <1>3, <1>4, <1>5, <1>6, <1>6a, <1>6b, <1>7, <1>8, <1>9 DEF Ledgers

\* The three queries of the menu, asked of one world, are the menu.
LEMMA MenuIs == Worlds \ NowBurned = Menu
BY DEF Worlds, NowBurned, OfWorlds, BurnedIn, Menu, Burned, Seat

\* Each query, as it is answered.
LEMMA ReadStep == ASSUME TInv, NEW h \in Hire, Read(h) PROVE TInv'
<1>. DEFINE t == turn[h]
            a == [Answered(h) EXCEPT !.at = After(t.at)]
<1>. USE DEF worldVars, gateVars
<1>0. /\ turn \in [Hire -> TurnType] /\ t \in TurnType /\ TypeOK /\ UpToDate(h) /\ Consistently(h)
      /\ t.work \in 1..head /\ head \in Nat /\ head <= MaxEvents /\ MaxEvents \in Nat /\ cursor \in Nat /\ reopened \in Nat
      /\ turn' = [turn EXCEPT ![h] = a] /\ turn'[h] = a
      /\ UNCHANGED <<worldVars, gateVars, phase, faults, file, session>>
  BY TurnAssumption DEF TInv, TypeOK, ShownAsItIs, FactsHold, HiresOK, Read, Worker, Keeps
<1>1. t.at \in ReadNames \ {"wake"}
  BY ReadsInOrder DEF Read, ReadNames
<1>. USE DEF Working, ReadNames, HasRefusal, HasEvents, HasNodes, HasLedger, HasMenu, HasStats, HasFree
<1>2. Menu' = Menu /\ Worlds' = Worlds /\ NowBurned' = NowBurned /\ Capacity' = Capacity /\ Bought' = Bought
  BY <1>0 DEF Menu, Worlds, NowBurned, OfWorlds, BurnedIn, Burned, Bought, Capacity, Researching
<1>3. CASE t.at = "refusal"
  <2>1. a = [t EXCEPT !.told = refused[t.work], !.at = "events"]
    BY <1>3, ReadsInOrder DEF Answered, Told
  <2>2. /\ turn'[h].at = "events" /\ turn'[h].from = t.from /\ turn'[h].heard = t.heard
        /\ turn'[h].nodes = t.nodes /\ turn'[h].ledger = t.ledger /\ turn'[h].menu = t.menu
        /\ turn'[h].counted = t.counted /\ turn'[h].free = t.free /\ turn'[h].base = t.base
        /\ turn'[h].told = refused[t.work] /\ turn'[h].work = t.work /\ turn'[h].burned = t.burned
    BY <1>0, <2>1 DEF TurnType
  <2>3. refused[t.work] \in Nat
    BY <1>0 DEF TypeOK, Work
  <2>4. a \in TurnType
    BY <1>0, <2>1, <2>3, ReadType
  <2>5. UpToDate(h)'
    BY <1>0, <1>2, <1>3, <2>2 DEF UpToDate, Fresh, Knows
  <2>6. Consistently(h)'
    BY <1>0, <1>2, <1>3, <2>2 DEF Consistently
  <2>7. a.told = refused[a.work] /\ a.work = t.work /\ a.from = t.from /\ a.at = "events"
    BY <1>0, <2>2
  <2>8. TypeOK'
    BY <1>0, <2>4 DEF TypeOK
  <2>9. OneTurn(h, a)
    BY <1>0, <2>7 DEF OneTurn
  <2>10. turn[h].at \in Working /\ a.at \in Working \cup {"dead"}
    BY <1>3, <2>7
  <2>11. a.at \in HasRefusal => \/ a.told = refused[a.work]
                                \/ (a.told = turn[h].told /\ turn[h].at \in HasRefusal)
    BY <2>7
  <2>. HIDE DEF a, t, Working, HasRefusal
  <2>. QED BY <2>4, <2>5, <2>6, <2>8, <2>9, <2>10, <2>11, TurnStep
<1>4. CASE t.at = "events"
  <2>1. a = [t EXCEPT !.heard = Heard(h), !.at = "nodes"]
    BY <1>4, ReadsInOrder DEF Answered
  <2>2. /\ turn'[h].at = "nodes" /\ turn'[h].from = t.from /\ turn'[h].heard = Heard(h)
        /\ turn'[h].nodes = t.nodes /\ turn'[h].ledger = t.ledger /\ turn'[h].menu = t.menu
        /\ turn'[h].counted = t.counted /\ turn'[h].free = t.free /\ turn'[h].base = t.base
        /\ turn'[h].told = t.told /\ turn'[h].work = t.work /\ turn'[h].burned = t.burned
    BY <1>0, <2>1 DEF TurnType
  <2>3. Heard(h) \subseteq Work
    BY <1>0 DEF Heard, Work
  <2>4. a \in TurnType
    BY <1>0, <2>1, <2>3, ReadType
  <2>5. UpToDate(h)'
    <3>1. Fresh(h) => Heard(h) = {e \in Work : cursor < e /\ e <= head}
      BY <1>0, <1>4 DEF UpToDate, Fresh, Heard, Work
    <3>2. {e \in Work : cursor < e /\ e <= head}' = {e \in Work : cursor < e /\ e <= head}
      BY <1>0
    <3>. QED BY <1>0, <1>2, <1>4, <2>2, <3>1, <3>2 DEF UpToDate, Fresh, Knows
  <2>6. Consistently(h)'
    BY <1>0, <1>2, <1>4, <2>2 DEF Consistently
  <2>. HIDE DEF a
  <2>. QED BY <1>0, <1>4, <2>2, <2>4, <2>5, <2>6, TurnStep DEF OneTurn, TypeOK
<1>5. CASE t.at = "nodes"
  <2>1. a = [t EXCEPT !.nodes = nodes, !.at = "ledger"]
    BY <1>5, ReadsInOrder DEF Answered, Allocatable
  <2>2. /\ turn'[h].at = "ledger" /\ turn'[h].from = t.from /\ turn'[h].heard = t.heard
        /\ turn'[h].nodes = nodes /\ turn'[h].ledger = t.ledger /\ turn'[h].menu = t.menu
        /\ turn'[h].counted = t.counted /\ turn'[h].free = t.free /\ turn'[h].base = t.base
        /\ turn'[h].told = t.told /\ turn'[h].work = t.work /\ turn'[h].burned = t.burned
    BY <1>0, <2>1 DEF TurnType
  <2>3. nodes \subseteq Node
    BY <1>0 DEF TypeOK
  <2>4. a \in TurnType
    BY <1>0, <2>1, <2>3, ReadType
  <2>5. UpToDate(h)'
    BY <1>0, <1>2, <1>5, <2>2 DEF UpToDate, Fresh, Knows
  <2>6. Consistently(h)'
    BY <1>0, <1>2, <1>5, <2>2 DEF Consistently
  <2>. HIDE DEF a
  <2>. QED BY <1>0, <1>5, <2>2, <2>4, <2>5, <2>6, TurnStep DEF OneTurn, TypeOK
<1>6. CASE t.at = "ledger"
  <2>1. a = [t EXCEPT !.ledger = Ledger, !.at = "known"]
    BY <1>6, ReadsInOrder DEF Answered
  <2>2. /\ turn'[h].at = "known" /\ turn'[h].from = t.from /\ turn'[h].heard = t.heard
        /\ turn'[h].nodes = t.nodes /\ turn'[h].ledger = Ledger /\ turn'[h].menu = t.menu
        /\ turn'[h].counted = t.counted /\ turn'[h].free = t.free /\ turn'[h].base = t.base
        /\ turn'[h].told = t.told /\ turn'[h].work = t.work /\ turn'[h].burned = t.burned
    BY <1>0, <2>1 DEF TurnType
  <2>3. Ledger \in [Seat -> {"none", "open", "finished"}]
    BY DEF Ledger
  <2>4. a \in TurnType
    BY <1>0, <2>1, <2>3, ReadType
  <2>5. UpToDate(h)'
    BY <1>0, <1>2, <1>6, <2>2 DEF UpToDate, Fresh, Knows, Ledger
  <2>6. Consistently(h)'
    BY <1>0, <1>2, <1>6, <2>2 DEF Consistently, Ledger, Bought
  <2>. HIDE DEF a
  <2>. QED BY <1>0, <1>6, <2>2, <2>4, <2>5, <2>6, TurnStep DEF OneTurn, TypeOK
<1>6a. CASE t.at = "known"
  <2>1. a = [t EXCEPT !.burned = Worlds, !.at = "bought"]
    BY <1>6a, ReadsInOrder DEF Answered, Worlds
  <2>2. /\ turn'[h].at = "bought" /\ turn'[h].from = t.from /\ turn'[h].heard = t.heard
        /\ turn'[h].nodes = t.nodes /\ turn'[h].ledger = t.ledger /\ turn'[h].menu = t.menu
        /\ turn'[h].counted = t.counted /\ turn'[h].free = t.free /\ turn'[h].base = t.base
        /\ turn'[h].told = t.told /\ turn'[h].work = t.work /\ turn'[h].burned = Worlds
    BY <1>0, <2>1 DEF TurnType
  <2>3. Worlds \subseteq Seat
    BY DEF Worlds, OfWorlds
  <2>4. a \in TurnType
    BY <1>0, <2>1, <2>3, ReadType
  <2>5. UpToDate(h)'
    BY <1>0, <1>2, <1>6a, <2>2 DEF UpToDate, Fresh, Knows
  <2>6. Consistently(h)'
    BY <1>0, <1>2, <1>6a, <2>2 DEF Consistently, Worlds, OfWorlds
  <2>. HIDE DEF a
  <2>. QED BY <1>0, <1>6a, <2>2, <2>4, <2>5, <2>6, TurnStep DEF OneTurn, TypeOK
<1>6b. CASE t.at = "bought"
  <2>1. a = [t EXCEPT !.burned = BurnedIn(t.burned), !.at = "untried"]
    BY <1>0, <1>6b, ReadsInOrder DEF Answered
  <2>2. /\ turn'[h].at = "untried" /\ turn'[h].from = t.from /\ turn'[h].heard = t.heard
        /\ turn'[h].nodes = t.nodes /\ turn'[h].ledger = t.ledger /\ turn'[h].menu = t.menu
        /\ turn'[h].counted = t.counted /\ turn'[h].free = t.free /\ turn'[h].base = t.base
        /\ turn'[h].told = t.told /\ turn'[h].work = t.work /\ turn'[h].burned = BurnedIn(t.burned)
    BY <1>0, <2>1 DEF TurnType
  <2>3. BurnedIn(t.burned) \subseteq Seat
    BY <1>0 DEF BurnedIn, TurnType
  <2>4. a \in TurnType
    BY <1>0, <2>1, <2>3, ReadType
  <2>5. UpToDate(h)'
    BY <1>0, <1>2, <1>6b, <2>2 DEF UpToDate, Fresh, Knows, NowBurned
  <2>6. Consistently(h)'
    <3>1. ASSUME NEW s \in Seat, t.ledger[s] # "none", NEW m \in OfWorlds(t.nodes),
                 m[2] = s[2], s[1] \in Above[m[1]]
          PROVE  m \in BurnedIn(t.burned)
      <4>1. s \in Bought /\ m \in t.burned /\ m \in Seat
        BY <1>0, <1>6b, <3>1 DEF Consistently, OfWorlds
      <4>2. s = <<s[1], m[2]>> /\ m[2] \in Lens
        BY <3>1, <4>1 DEF Seat
      <4>. QED BY <3>1, <4>1, <4>2 DEF BurnedIn, Burned
    <3>. QED BY <1>0, <1>2, <1>6b, <2>2, <3>1 DEF Consistently, OfWorlds
  <2>. HIDE DEF a
  <2>. QED BY <1>0, <1>6b, <2>2, <2>4, <2>5, <2>6, TurnStep DEF OneTurn, TypeOK
<1>7. CASE t.at = "untried"
  <2>1. a = [t EXCEPT !.menu = Offered(h), !.burned = {}, !.at = "stats"]
    BY <1>7, ReadsInOrder DEF Answered
  <2>2. /\ turn'[h].at = "stats" /\ turn'[h].from = t.from /\ turn'[h].heard = t.heard
        /\ turn'[h].nodes = t.nodes /\ turn'[h].ledger = t.ledger /\ turn'[h].menu = Offered(h)
        /\ turn'[h].counted = t.counted /\ turn'[h].free = t.free /\ turn'[h].base = t.base
        /\ turn'[h].told = t.told /\ turn'[h].work = t.work /\ turn'[h].burned = {}
    BY <1>0, <2>1 DEF TurnType
  <2>3. Offered(h) \subseteq Seat
    BY DEF Offered, OfWorlds
  <2>4. a \in TurnType
    BY <1>0, <2>1, <2>3, ReadType
  <2>5. UpToDate(h)'
    <3>1. Fresh(h) => Offered(h) = Menu
      BY <1>0, <1>7, MenuIs DEF UpToDate, Offered, Worlds
    <3>. QED BY <1>0, <1>2, <1>7, <2>2, <3>1 DEF UpToDate, Fresh, Knows
  <2>6. Consistently(h)'
    <3>1. ASSUME NEW s \in Seat, t.ledger[s] # "none", NEW m \in Offered(h),
                 m[2] = s[2], s[1] \in Above[m[1]]
          PROVE  m[1] \notin t.nodes
      BY <1>0, <1>7, <3>1 DEF Consistently, Offered, OfWorlds
    <3>2. \A m \in Offered(h) : m[1] \in nodes
      BY DEF Offered, OfWorlds
    <3>. QED BY <1>0, <1>2, <1>7, <2>2, <3>1, <3>2 DEF Consistently
  <2>. HIDE DEF a
  <2>. QED BY <1>0, <1>7, <2>2, <2>4, <2>5, <2>6, TurnStep DEF OneTurn, TypeOK
<1>8. CASE t.at = "stats"
  <2>1. a = [t EXCEPT !.counted = Bought, !.at = "free"]
    BY <1>8, ReadsInOrder DEF Answered, Counted
  <2>2. /\ turn'[h].at = "free" /\ turn'[h].from = t.from /\ turn'[h].heard = t.heard
        /\ turn'[h].nodes = t.nodes /\ turn'[h].ledger = t.ledger /\ turn'[h].menu = t.menu
        /\ turn'[h].counted = Bought /\ turn'[h].free = t.free /\ turn'[h].base = t.base
        /\ turn'[h].told = t.told /\ turn'[h].work = t.work /\ turn'[h].burned = t.burned
    BY <1>0, <2>1 DEF TurnType
  <2>3. Bought \subseteq Seat
    BY DEF Bought
  <2>4. a \in TurnType
    BY <1>0, <2>1, <2>3, ReadType
  <2>5. UpToDate(h)'
    BY <1>0, <1>2, <1>8, <2>2 DEF UpToDate, Fresh, Knows
  <2>6. Consistently(h)'
    BY <1>0, <1>2, <1>8, <2>2 DEF Consistently
  <2>. HIDE DEF a
  <2>. QED BY <1>0, <1>8, <2>2, <2>4, <2>5, <2>6, TurnStep DEF OneTurn, TypeOK
<1>9. CASE t.at = "free"
  <2>1. a = [t EXCEPT !.free = Capacity, !.base = reopened, !.at = "wake"]
    BY <1>9, ReadsInOrder DEF Answered, Free
  <2>2. /\ turn'[h].at = "wake" /\ turn'[h].from = t.from /\ turn'[h].heard = t.heard
        /\ turn'[h].nodes = t.nodes /\ turn'[h].ledger = t.ledger /\ turn'[h].menu = t.menu
        /\ turn'[h].counted = t.counted /\ turn'[h].free = Capacity /\ turn'[h].base = reopened
        /\ turn'[h].told = t.told /\ turn'[h].work = t.work /\ turn'[h].burned = t.burned
    BY <1>0, <2>1 DEF TurnType
  <2>3. Capacity \in Int /\ reopened \in Nat
    BY <1>0, CapacityType
  <2>4. a \in TurnType
    <3>1. [t EXCEPT !.free = Capacity, !.base = reopened, !.at = "wake"] \in TurnType
      BY <1>0, <2>3, ReadType, Zenon
    <3>. QED BY <2>1, <3>1, Zenon
  <2>5. UpToDate(h)'
    BY <1>0, <1>2, <1>9, <2>2, CapacityType DEF UpToDate, Fresh, Knows
  <2>6. Consistently(h)'
    BY <1>0, <1>2, <1>9, <2>2 DEF Consistently
  <2>. HIDE DEF a
  <2>. QED BY <1>0, <1>9, <2>2, <2>4, <2>5, <2>6, TurnStep DEF OneTurn, TypeOK
<1>. QED BY <1>1, <1>3, <1>4, <1>5, <1>6, <1>6a, <1>6b, <1>7, <1>8, <1>9

\* Thinking changes nothing of what was read.
LEMMA ThinkTurn ==
    ASSUME TInv, NEW h \in Hire, NEW t \in TurnType, turn' = [turn EXCEPT ![h] = t],
           turn[h].at \in {"wake", "think", "note"}, t.at \in {"think", "note", "answer"},
           t.work = turn[h].work, t.from = turn[h].from, t.told = turn[h].told,
           t.heard = turn[h].heard, t.nodes = turn[h].nodes, t.ledger = turn[h].ledger,
           t.menu = turn[h].menu, t.counted = turn[h].counted, t.free = turn[h].free,
           t.base = turn[h].base,
           UNCHANGED <<worldVars, gateVars, phase, faults, file>>,
           session' \in [begun : BOOLEAN, notes : 0..MaxHires]
    PROVE  TInv'
<1>. USE DEF worldVars, gateVars
<1>1. turn \in [Hire -> TurnType] /\ turn'[h] = t /\ TypeOK /\ UpToDate(h) /\ Consistently(h)
  BY DEF TInv, TypeOK, ShownAsItIs, FactsHold
<1>2. TypeOK'
  BY <1>1 DEF TypeOK
<1>3. Menu' = Menu /\ Worlds' = Worlds /\ NowBurned' = NowBurned /\ Capacity' = Capacity /\ Bought' = Bought
  BY DEF Menu, Worlds, NowBurned, OfWorlds, BurnedIn, Burned, Bought, Capacity, Researching
<1>4. /\ turn[h].at \in Working /\ turn[h].at \in HasRefusal /\ turn[h].at \in HasEvents
      /\ turn[h].at \in HasNodes /\ turn[h].at \in HasLedger /\ turn[h].at \in HasMenu
      /\ turn[h].at \in HasFree /\ turn[h].at # "off" /\ t.at \in Working /\ t.at # "done"
  BY DEF Working, HasRefusal, HasEvents, HasNodes, HasLedger, HasMenu, HasStats, HasFree, ReadNames
<1>5. UpToDate(h)'
  BY <1>1, <1>3, <1>4 DEF UpToDate, Fresh, Knows
<1>6. Consistently(h)'
  BY <1>1, <1>3, <1>4 DEF Consistently
<1>7. OneTurn(h, t)
  BY DEF OneTurn
<1>. QED BY <1>2, <1>4, <1>5, <1>6, <1>7, TurnStep

\* Thinking, looking further, repairing, noting, submitting and giving up keep the invariant.
LEMMA ThinkStep ==
    ASSUME TInv, NEW h \in Hire,
           \/ Wakes(h) \/ Looks(h) \/ Repairs(h) \/ Raises(h)
           \/ Submits(h) \/ Exhausts(h) \/ Notes(h)
    PROVE  TInv'
<1>. DEFINE t == turn[h]
<1>1. /\ turn \in [Hire -> TurnType] /\ t \in TurnType
      /\ session \in [begun : BOOLEAN, notes : 0..MaxHires] /\ h \in 0..MaxHires
  BY TurnAssumption DEF TInv, TypeOK, Hire
<1>2. /\ t.steps \in 0..MaxSteps /\ t.repairs \in 0..MaxRepairs /\ MaxSteps \in Nat /\ MaxRepairs \in Nat
  BY <1>1, TurnAssumption DEF TurnType
<1>3. {"think", "note", "answer"} \subseteq Stages
  BY StageNames
<1>4. /\ turn' = [turn EXCEPT ![h] = turn'[h]]
      /\ \/ turn'[h] = [t EXCEPT !.at = "think"]
         \/ turn'[h] = [t EXCEPT !.at = "answer"]
         \/ turn'[h] = [t EXCEPT !.steps = t.steps + 1, !.repairs = 0] /\ t.steps < MaxSteps /\ t.at = "think"
         \/ turn'[h] = [t EXCEPT !.repairs = t.repairs + 1] /\ t.repairs < MaxRepairs /\ t.at = "think"
         \/ \E at \in {"note", "answer"}, says \in Judgments \cup {Failed} :
               turn'[h] = [t EXCEPT !.at = at, !.says = says]
  <2>1. CASE Wakes(h) \/ Notes(h)
    BY <1>1, <2>1 DEF Wakes, Notes
  <2>2. CASE Looks(h)
    BY <1>1, <2>2 DEF Looks, Thinking, HasStep
  <2>3. CASE Repairs(h)
    BY <1>1, <2>3 DEF Repairs, Thinking, HasStep
  <2>4. CASE Raises(h) \/ Exhausts(h)
    BY <1>1, <2>4 DEF Raises, Exhausts, Concludes
  <2>5. CASE Submits(h)
    BY <1>1, <2>5 DEF Submits, Concludes
  <2>. QED BY <2>1, <2>2, <2>3, <2>4, <2>5
<1>5. session' \in [begun : BOOLEAN, notes : 0..MaxHires]
  BY <1>1 DEF Wakes, Looks, Repairs, Raises, Submits, Exhausts, Notes, Keeps
<1>6. t.at \in {"wake", "think", "note"} /\ UNCHANGED <<worldVars, gateVars, phase, faults, file>>
  BY DEF Wakes, Looks, Repairs, Raises, Submits, Exhausts, Notes, Keeps, Thinking, Worker
<1>7. ASSUME NEW u \in {turn'[h]}
      PROVE  /\ u \in TurnType /\ u.at \in {"think", "note", "answer"}
             /\ u.work = t.work /\ u.from = t.from /\ u.told = t.told /\ u.heard = t.heard
             /\ u.nodes = t.nodes /\ u.ledger = t.ledger /\ u.menu = t.menu
             /\ u.counted = t.counted /\ u.free = t.free /\ u.base = t.base
  <2>. DEFINE Ledgers == [Seat -> {"none", "open", "finished"}]
              Sayings == Judgments \cup {Failed, None}
              Steps   == 0..MaxSteps
              Tries   == 0..MaxRepairs
  <2>1. TurnType = [at : Stages, work : 0..MaxEvents, from : 0..MaxEvents, told : Nat,
             heard : SUBSET Work, nodes : SUBSET Node, ledger : Ledgers,
             burned : SUBSET Seat, menu : SUBSET Seat, counted : SUBSET Seat, free : Int, base : Nat,
             steps : Steps, repairs : Tries, says : Sayings]
    BY DEF TurnType
  <2>2. /\ t.steps < MaxSteps => t.steps + 1 \in Steps
        /\ t.repairs < MaxRepairs => t.repairs + 1 \in Tries
        /\ 0 \in Tries /\ \A j \in Judgments \cup {Failed} : j \in Sayings
    BY <1>2
  <2>. HIDE DEF Ledgers, Sayings, Steps, Tries
  <2>3. CASE u = [t EXCEPT !.at = "think"] \/ u = [t EXCEPT !.at = "answer"]
    BY <1>1, <1>3, <2>1, <2>3
  <2>4. CASE u = [t EXCEPT !.steps = t.steps + 1, !.repairs = 0] /\ t.steps < MaxSteps /\ t.at = "think"
    BY <1>1, <2>1, <2>2, <2>4
  <2>5. CASE u = [t EXCEPT !.repairs = t.repairs + 1] /\ t.repairs < MaxRepairs /\ t.at = "think"
    BY <1>1, <2>1, <2>2, <2>5
  <2>6. ASSUME NEW at \in {"note", "answer"}, NEW says \in Judgments \cup {Failed},
               u = [t EXCEPT !.at = at, !.says = says]
        PROVE  /\ u \in TurnType /\ u.at \in {"think", "note", "answer"}
               /\ u.work = t.work /\ u.from = t.from /\ u.told = t.told /\ u.heard = t.heard
               /\ u.nodes = t.nodes /\ u.ledger = t.ledger /\ u.menu = t.menu
               /\ u.counted = t.counted /\ u.free = t.free /\ u.base = t.base
    <3>1. says \in Sayings /\ at \in Stages
      BY <1>3, <2>2
    <3>. QED BY <1>1, <2>1, <2>6, <3>1
  <2>. QED BY <1>4, <2>3, <2>4, <2>5, <2>6
<1>8. turn' = [turn EXCEPT ![h] = turn'[h]]
  BY <1>4
<1>. QED BY <1>5, <1>6, <1>7, <1>8, ThinkTurn

\* What a worker knew ends with it.
LEMMA DeathStep == ASSUME TInv, NEW h \in Hire, Dies(h) PROVE TInv'
<1>. USE DEF worldVars, gateVars
<1>. DEFINE u == Over(h, "dead")
<1>1. /\ turn \in [Hire -> TurnType] /\ turn[h] \in TurnType /\ TypeOK /\ UpToDate(h)
  BY DEF TInv, TypeOK, ShownAsItIs
<1>2. u \in TurnType
  BY <1>1, OverType, StageNames
<1>3. /\ u.at = "dead" /\ u.work = turn[h].work /\ u.from = turn[h].from /\ u.menu = {} /\ u.nodes = {}
      /\ u.ledger = [s \in Seat |-> "none"]
  BY DEF Over, Unborn
<1>4. turn' = [turn EXCEPT ![h] = u] /\ turn'[h] = u /\ UNCHANGED <<worldVars, gateVars, phase, file>>
  BY <1>1 DEF Dies
<1>5. TypeOK'
  <2>1. faults' \in Nat /\ session' = session
    BY <1>1 DEF Dies, Fault, TypeOK
  <2>. HIDE DEF u
  <2>. QED BY <1>1, <1>2, <1>4, <2>1 DEF TypeOK
<1>6. turn[h].at \in Working
  <2>1. turn[h].at \in Stages
    BY <1>1 DEF TurnType
  <2>. QED BY <2>1, StageNames DEF Dies, Working
<1>. HIDE DEF u
<1>7. UpToDate(h)'
  BY <1>1, <1>3, <1>4, <1>6 DEF UpToDate, Fresh, Knows, Working, HasRefusal, HasEvents, HasNodes,
     HasLedger, HasMenu, HasStats, HasFree, ReadNames
<1>8. Consistently(h)'
  <2>1. "dead" \notin HasNodes
    BY DEF HasNodes, HasEvents, HasRefusal, Working, ReadNames
  <2>. QED BY <1>3, <1>4, <2>1 DEF Consistently
<1>. QED BY <1>2, <1>3, <1>4, <1>5, <1>6, <1>7, <1>8, TurnStep
     DEF OneTurn, HasRefusal, Working, ReadNames

\* What a worker has read is left in its answer.
LEMMA AnswerStep == ASSUME TInv, NEW h \in Hire, Answers(h) PROVE TInv'
<1>. USE DEF worldVars, gateVars
<1>. DEFINE t == turn[h]
<1>1. /\ turn \in [Hire -> TurnType] /\ t \in TurnType /\ TypeOK /\ t.at = "answer"
      /\ t.work \in Work /\ t.work \in 1..head /\ MaxHires \in Nat
  <2>1. TypeOK /\ turn \in [Hire -> TurnType] /\ t \in TurnType /\ t.at = "answer"
    BY DEF TInv, TypeOK, Answers
  <2>2. t.work \in 1..head
    BY <2>1 DEF TInv, HiresOK
  <2>. QED BY <2>1, <2>2, Bounds
<1>2. /\ turn' = [turn EXCEPT ![h] = [t EXCEPT !.at = "done"]]
      /\ turn'[h] = [t EXCEPT !.at = "done"]
      /\ \A g \in Hire \ {h} : turn'[g] = turn[g]
      /\ UNCHANGED <<worldVars, gateVars, phase, faults, session>>
  BY <1>1 DEF Answers, Worker
<1>3. /\ turn'[h].at = "done" /\ turn'[h].from = t.from /\ turn'[h].heard = t.heard
      /\ turn'[h].nodes = t.nodes /\ turn'[h].ledger = t.ledger /\ turn'[h].menu = t.menu
      /\ turn'[h].counted = t.counted /\ turn'[h].free = t.free /\ turn'[h].base = t.base
      /\ turn'[h].told = t.told /\ turn'[h].work = t.work
  BY <1>1, <1>2 DEF TurnType
<1>4. /\ file'[t.work] = [by |-> h, says |-> t.says]
      /\ \A w \in Work \ {t.work} : file'[w] = file[w]
  BY <1>1 DEF Answers, TypeOK
<1>5. TypeOK'
  <2>1. turn'[h] \in TurnType
    BY <1>1, <1>2, StageNames DEF TurnType
  <2>2. turn' \in [Hire -> TurnType]
    BY <1>1, <1>2, <2>1
  <2>. DEFINE Sayings == Judgments \cup {Failed, None}
              Files   == [by : 0..MaxHires, says : Sayings]
  <2>3. t.says \in Sayings
    BY <1>1 DEF TurnType
  <2>4. h \in 0..MaxHires /\ file \in [Work -> Files]
    BY <1>1 DEF Hire, TypeOK
  <2>. HIDE DEF Sayings
  <2>5. [by |-> h, says |-> t.says] \in Files
    BY <2>3, <2>4
  <2>. HIDE DEF Files
  <2>6. file' \in [Work -> Files]
    BY <1>1, <2>4, <2>5 DEF Answers
  <2>. USE DEF Files, Sayings
  <2>. QED BY <1>1, <1>2, <2>2, <2>6 DEF TypeOK
<1>6. HiresOK'
  <2>1. \A w \in Work : file[w] # NoFile => file[w].by # h
    BY <1>1 DEF TInv, HiresOK
  <2>. QED BY <1>1, <1>2, <1>3, <1>4, <2>1 DEF TInv, HiresOK, TypeOK
<1>7. Menu' = Menu /\ Worlds' = Worlds /\ NowBurned' = NowBurned /\ Capacity' = Capacity /\ Bought' = Bought
  BY <1>2 DEF Menu, Worlds, NowBurned, OfWorlds, BurnedIn, Burned, Bought, Capacity, Researching
<1>8. ASSUME NEW g \in Hire PROVE UpToDate(g)'
  <2>1. CASE g = h
    <3>1. /\ turn[h].at \in HasEvents /\ turn[h].at \in HasNodes /\ turn[h].at \in HasLedger
          /\ turn[h].at \in HasMenu /\ turn[h].at \in HasFree
      BY <1>1 DEF Working, HasRefusal, HasEvents, HasNodes, HasLedger, HasMenu, HasStats, HasFree, ReadNames
    <3>2. UpToDate(h)
      BY DEF TInv, ShownAsItIs
    <3>. QED BY <1>1, <1>2, <1>3, <1>7, <2>1, <3>1, <3>2 DEF UpToDate, Fresh, Knows
  <2>2. CASE g # h
    <3>1. UpToDate(g) /\ turn'[g] = turn[g]
      BY <1>2, <2>2 DEF TInv, ShownAsItIs
    <3>2. turn[g].at # "off" => turn[g].work \in Work
      BY <1>1, Bounds DEF TInv, HiresOK
    <3>3. turn[g].at = "done" /\ file'[turn[g].work].by = g => file[turn[g].work].by = g
      BY <1>1, <1>4, <2>2, <3>2
    <3>. QED BY <1>2, <1>7, <3>1, <3>3 DEF UpToDate, Fresh, Knows
  <2>. QED BY <2>1, <2>2
<1>9. FactsHold'
  <2>1. "answer" \in HasNodes
    BY DEF HasNodes, HasEvents, HasRefusal, Working, ReadNames
  <2>2. Consistently(h)'
    <3>1. Consistently(h)
      BY DEF TInv, FactsHold
    <3>. QED BY <1>1, <1>2, <1>3, <1>7, <2>1, <3>1 DEF Consistently
  <2>3. ASSUME NEW g \in Hire \ {h} PROVE Consistently(g)'
    <3>1. Consistently(g) /\ turn'[g] = turn[g]
      BY <1>2 DEF TInv, FactsHold
    <3>. QED BY <1>2, <1>7, <3>1 DEF Consistently
  <2>. QED BY <2>2, <2>3 DEF FactsHold
<1>10. RetryIsTold'
  BY <1>1, <1>2, <1>3, ReadsInOrder DEF TInv, RetryIsTold, TypeOK, Hire
<1>. QED BY <1>5, <1>6, <1>8, <1>9, <1>10 DEF TInv, ShownAsItIs

--------------------------------------------------------------------------------
(* The gate moves.                                                         *)

\* A new worker knows nothing yet, and counts its batch from the cursor.
LEMMA HireStep ==
    ASSUME TInv, NEW w \in 1..head, NEW from \in 0..MaxEvents, Hires(w, from), from < w, cursor < w,
           w = head /\ cursor < head => from = cursor,
           UNCHANGED <<worldVars, cursor, refused, file, session>>,
           failed' \in [Work -> Nat], faults' \in Nat,
           phase' \in {"early", "gate", "late", "reopen"}
    PROVE  TInv'
<1>. USE DEF worldVars
<1>. DEFINE k == hired + 1
            t == [Unborn EXCEPT !.at = Reads[1], !.work = w, !.from = from]
<1>1. /\ TypeOK /\ turn \in [Hire -> TurnType] /\ k \in Hire /\ hired \in Nat /\ MaxHires \in Nat
      /\ head \in Nat /\ head <= MaxEvents /\ MaxEvents \in Nat
  <2>1. TypeOK /\ turn \in [Hire -> TurnType] /\ hired < MaxHires
    BY DEF TInv, TypeOK, Hires
  <2>. QED BY <2>1, Bounds DEF Hire
<1>2. /\ turn' = [turn EXCEPT ![k] = t] /\ turn'[k] = t /\ running' = k /\ hired' = k
      /\ \A g \in Hire \ {k} : turn'[g] = turn[g]
  BY <1>1 DEF Hires
<1>3. /\ t.at = "refusal" /\ t.work = w /\ t.from = from /\ t.menu = {} /\ t.nodes = {}
      /\ t.ledger = [s \in Seat |-> "none"]
  BY ReadsInOrder DEF Unborn
<1>4. turn[k].at = "off"
  BY <1>1 DEF TInv, HiresOK
<1>5. t \in TurnType
  <2>1. Reads[1] \in Stages
    BY StageNames, ReadsInOrder DEF ReadNames
  <2>2. w \in 0..MaxEvents
    BY <1>1
  <2>. QED BY <2>1, <2>2, UnbornType DEF Unborn, TurnType
<1>. HIDE DEF t
<1>6. TypeOK'
  BY <1>1, <1>2, <1>5 DEF TypeOK, Hire
<1>7. HiresOK'
  <2>1. \A v \in Work : file[v] # NoFile => file[v].by # k
    BY <1>1, <1>4 DEF TInv, HiresOK
  <2>. QED BY <1>1, <1>2, <1>3, <2>1 DEF TInv, HiresOK, Hire
<1>8. Menu' = Menu /\ Worlds' = Worlds /\ NowBurned' = NowBurned /\ Capacity' = Capacity /\ Bought' = Bought
  BY DEF Menu, Worlds, NowBurned, OfWorlds, BurnedIn, Burned, Bought, Capacity, Researching
<1>9. ASSUME NEW g \in Hire PROVE UpToDate(g)'
  <2>1. CASE g = k
    BY <1>1, <1>2, <1>3, <2>1 DEF UpToDate, Fresh, Knows, Working, HasRefusal, HasEvents, HasNodes,
       HasLedger, HasMenu, HasStats, HasFree, ReadNames
  <2>2. CASE g # k
    BY <1>2, <1>8, <2>2 DEF TInv, ShownAsItIs, UpToDate, Fresh, Knows
  <2>. QED BY <2>1, <2>2
<1>10. FactsHold'
  <2>1. "refusal" \notin HasNodes
    BY DEF HasNodes, HasEvents, HasRefusal, Working, ReadNames
  <2>2. ASSUME NEW g \in Hire, g = k PROVE Consistently(g)'
    <3>1. /\ turn'[g].at = "refusal" /\ turn'[g].menu = {} /\ turn'[g].nodes = {}
          /\ \A s \in Seat : turn'[g].ledger[s] = "none"
      BY <1>2, <1>3, <2>2
    <3>. QED BY <2>1, <3>1 DEF Consistently, OfWorlds
  <2>3. ASSUME NEW g \in Hire, g # k PROVE Consistently(g)'
    <3>1. Consistently(g) /\ turn'[g] = turn[g]
      BY <1>2, <2>3 DEF TInv, FactsHold
    <3>2. nodes' = nodes /\ head' = head /\ Bought' = Bought
      BY <1>8
    <3>. QED BY <3>1, <3>2 DEF Consistently, OfWorlds
  <2>. QED BY <2>2, <2>3 DEF FactsHold
<1>11. RetryIsTold'
  BY <1>1, <1>2, <1>3, ReadsInOrder DEF RetryIsTold
<1>. QED BY <1>6, <1>7, <1>9, <1>10, <1>11 DEF TInv, ShownAsItIs

\* Hiring a worker, and replacing one that died, keep the invariant.
LEMMA HiringSteps == TInv /\ (GateHires \/ Replaced) => TInv'
<1>. SUFFICES ASSUME TInv, GateHires \/ Replaced PROVE TInv'
  OBVIOUS
<1>1. TypeOK /\ head \in Nat /\ cursor \in 0..head /\ head <= MaxEvents /\ MaxEvents \in Nat /\ faults \in Nat
  BY TurnAssumption DEF TInv, TypeOK
<1>2. CASE GateHires
  <2>1. head \in 1..head /\ cursor \in 0..MaxEvents /\ Hires(head, cursor) /\ cursor < head
    BY <1>1, <1>2 DEF GateHires
  <2>2. /\ UNCHANGED <<worldVars, cursor, refused, file, session>> /\ failed' \in [Work -> Nat]
        /\ faults' \in Nat /\ phase' \in {"early", "gate", "late", "reopen"}
    BY <1>1, <1>2 DEF GateHires, Passed, TypeOK
  <2>. QED BY <2>1, <2>2, HireStep
<1>3. CASE Replaced
  <2>. DEFINE t == turn[running]
  <2>1. running \in Hire /\ t \in TurnType /\ t.at # "off"
    <3>1. running \in Hire
      BY <1>1, <1>3, Bounds DEF Replaced
    <3>2. turn \in [Hire -> TurnType] /\ turn[running].at # "off"
      BY <1>1, <1>3 DEF Replaced, TInv, TypeOK, HiresOK
    <3>. QED BY <3>1, <3>2
  <2>2. t.work \in 1..head /\ t.work \in Work /\ t.from < t.work /\ t.from \in 0..MaxEvents /\ cursor < t.work
    <3>1. t.work \in 1..head /\ t.from < t.work /\ cursor < t.work
      BY <1>3, <2>1 DEF TInv, HiresOK, Replaced
    <3>. QED BY <1>1, <2>1, <3>1, Bounds DEF TurnType
  <2>3. t.work = head /\ cursor < head => t.from = cursor
    BY <2>1 DEF TInv, ShownAsItIs, UpToDate, Fresh
  <2>4. /\ UNCHANGED <<worldVars, cursor, refused, file, session>>
        /\ phase' \in {"early", "gate", "late", "reopen"}
    BY <1>3 DEF Replaced
  <2>5. failed' \in [Work -> Nat] /\ faults' \in Nat
    BY <1>1, <1>3, <2>2 DEF Replaced, Fault, TypeOK
  <2>6. CASE Hires(t.work, t.from)
    BY <2>2, <2>3, <2>4, <2>5, <2>6, HireStep
  <2>7. CASE running' = 0 /\ UNCHANGED <<hired, turn>>
    <3>. USE DEF worldVars
    <3>1. TypeOK'
      BY <1>1, <2>4, <2>5, <2>7 DEF TypeOK
    <3>2. HiresOK' /\ FactsHold' /\ RetryIsTold'
      BY <2>4, <2>7 DEF TInv, HiresOK, FactsHold, Consistently, RetryIsTold, Bought
    <3>3. Menu' = Menu /\ Worlds' = Worlds /\ NowBurned' = NowBurned /\ Capacity' = Capacity
      BY <2>4 DEF Menu, Worlds, NowBurned, OfWorlds, BurnedIn, Burned, Bought, Capacity, Researching
    <3>4. ShownAsItIs'
      BY <2>4, <2>7, <3>3 DEF TInv, ShownAsItIs, UpToDate, Fresh, Knows
    <3>. QED BY <3>1, <3>2, <3>4 DEF TInv
  <2>. QED BY <1>3, <2>6, <2>7 DEF Replaced
<1>. QED BY <1>2, <1>3

\* An answer is archived: its author knows nothing any more, and on a commit no
\* batch is fresh.
LEMMA JudgeStep ==
    ASSUME TInv, NEW w \in Work, Judging(w), Archived(w), running' = 0,
           UNCHANGED <<head, nodes, idle, reopened, hired, session, faults>>,
           phase' \in {"early", "gate", "late", "reopen"},
           failed' \in [Work -> Nat], refused' \in [Work -> Nat],
           seat' \in [Seat -> {"none", "closed"} \cup Open], Bought \subseteq Bought',
           \/ cursor' = cursor /\ seat' = seat
           \/ cursor' = head
    PROVE  TInv'
<1>. DEFINE b == file[w].by
            t == Over(b, "done")
<1>1. /\ TypeOK /\ turn \in [Hire -> TurnType] /\ b \in Hire /\ b # 0 /\ turn[b].work = w
      /\ turn[b].at = "done" /\ turn[b] \in TurnType /\ head \in Nat /\ cursor \in 0..head
  BY TurnAssumption DEF TInv, TypeOK, HiresOK, Judging, Hire
<1>2. /\ turn' = [turn EXCEPT ![b] = t] /\ turn'[b] = t
      /\ \A g \in Hire \ {b} : turn'[g] = turn[g]
  BY <1>1 DEF Archived
<1>3. /\ t.at = "done" /\ t.work = w /\ t.from = turn[b].from /\ t.menu = {} /\ t.nodes = {}
      /\ t.ledger = [s \in Seat |-> "none"]
  BY <1>1 DEF Over, Unborn
<1>4. t \in TurnType
  BY <1>1, OverType, StageNames
<1>5. file'[w] = NoFile /\ \A v \in Work \ {w} : file'[v] = file[v]
  BY <1>1 DEF Archived, TypeOK
<1>. HIDE DEF t
<1>6. TypeOK'
  <2>1. file' \in [Work -> [by : 0..MaxHires, says : Judgments \cup {Failed, None}]]
    BY <1>1, TurnAssumption DEF Archived, TypeOK, NoFile
  <2>. QED BY <1>1, <1>2, <1>4, <2>1 DEF TypeOK
<1>7. HiresOK'
  <2>1. \A v \in Work \ {w} : file[v] # NoFile => file[v].by # b
    BY <1>1 DEF TInv, HiresOK
  <2>. QED BY <1>1, <1>2, <1>3, <1>5, <2>1 DEF TInv, HiresOK
<1>8. ASSUME NEW g \in Hire PROVE UpToDate(g)'
  <2>1. CASE cursor' = head
    BY <1>1, <2>1 DEF UpToDate, Fresh
  <2>2. CASE cursor' = cursor /\ seat' = seat
    <3>1. Menu' = Menu /\ Worlds' = Worlds /\ NowBurned' = NowBurned /\ Capacity' = Capacity
      BY <2>2 DEF Menu, Worlds, NowBurned, OfWorlds, BurnedIn, Burned, Bought, Capacity, Researching
    <3>2. UpToDate(g)
      BY DEF TInv, ShownAsItIs
    <3>3. NoFile.by # g
      BY DEF NoFile, Hire
    <3>4. CASE g = b
      <4>1. \A S : Knows(g, S)' => "done" \in S
        BY <1>2, <1>3, <1>5, <3>3, <3>4 DEF Knows
      <4>2. /\ "done" \notin HasEvents /\ "done" \notin HasNodes /\ "done" \notin HasLedger
            /\ "done" \notin HasMenu /\ "done" \notin HasFree
        BY DEF Working, HasRefusal, HasEvents, HasNodes, HasLedger, HasMenu, HasStats, HasFree, ReadNames
      <4>3. Fresh(g)' => turn'[g].from = cursor'
        BY <1>1, <1>2, <1>3, <2>2, <3>2, <3>4 DEF UpToDate, Fresh
      <4>4. turn'[g].at = "done"
        BY <1>2, <1>3, <3>4
      <4>. QED BY <4>1, <4>2, <4>3, <4>4 DEF UpToDate
    <3>5. CASE g # b
      <4>1. turn'[g] = turn[g]
        BY <1>2, <3>5
      <4>2. turn[g].at # "off" => turn[g].work \in Work
        BY <1>1, Bounds DEF TInv, HiresOK
      <4>3. turn[g].at = "done" /\ file'[turn[g].work].by = g => file[turn[g].work].by = g
        BY <1>5, <3>3, <4>2
      <4>. QED BY <2>2, <3>1, <3>2, <4>1, <4>3 DEF UpToDate, Fresh, Knows
    <3>. QED BY <3>4, <3>5
  <2>. QED BY <2>1, <2>2
<1>9. FactsHold'
  <2>1. "done" \notin HasNodes
    BY DEF HasNodes, HasEvents, HasRefusal, Working, ReadNames
  <2>2. ASSUME NEW g \in Hire, g = b PROVE Consistently(g)'
    <3>1. /\ turn'[g].at = "done" /\ turn'[g].menu = {} /\ turn'[g].nodes = {}
          /\ \A s \in Seat : turn'[g].ledger[s] = "none"
      BY <1>2, <1>3, <2>2
    <3>. QED BY <2>1, <3>1 DEF Consistently, OfWorlds
  <2>3. ASSUME NEW g \in Hire, g # b PROVE Consistently(g)'
    <3>1. Consistently(g) /\ turn'[g] = turn[g]
      BY <1>2, <2>3 DEF TInv, FactsHold
    <3>2. nodes' = nodes /\ head' = head /\ Bought \subseteq Bought'
      OBVIOUS
    <3>. QED BY <3>1, <3>2 DEF Consistently, OfWorlds
  <2>. QED BY <2>2, <2>3 DEF FactsHold
<1>10. RetryIsTold'
  BY DEF RetryIsTold
<1>. QED BY <1>6, <1>7, <1>8, <1>9, <1>10 DEF TInv, ShownAsItIs

\* Refusing a batch, finding it stale and committing it keep the invariant.
LEMMA JudgingSteps ==
    ASSUME TInv, NEW w \in Work, GateRefuses(w) \/ GateFindsStale(w) \/ GateCommits(w)
    PROVE  TInv'
<1>. USE DEF worldVars
<1>0. TypeOK
  BY DEF TInv
<1>1. CASE GateRefuses(w) \/ GateFindsStale(w)
  <2>1. failed' \in [Work -> Nat] /\ refused' \in [Work -> Nat]
    BY <1>0, <1>1 DEF GateRefuses, GateFindsStale, TypeOK
  <2>2. seat' \in [Seat -> {"none", "closed"} \cup Open] /\ Bought \subseteq Bought'
    BY <1>0, <1>1 DEF GateRefuses, GateFindsStale, TypeOK, Bought
  <2>. QED BY <1>1, <2>1, <2>2, JudgeStep DEF GateRefuses, GateFindsStale, Passed
<1>2. CASE GateCommits(w)
  <2>1. cursor' = head
    BY <1>2 DEF GateCommits, Stale
  <2>2. seat' \in [Seat -> {"none", "closed"} \cup Open] /\ Bought \subseteq Bought'
    BY <1>0, <1>2 DEF GateCommits, TypeOK, Bought, Open
  <2>3. failed' \in [Work -> Nat] /\ refused' \in [Work -> Nat]
    BY <1>0, <1>2 DEF GateCommits, TypeOK
  <2>. QED BY <1>2, <2>1, <2>2, <2>3, JudgeStep DEF GateCommits, Passed
<1>. QED BY <1>1, <1>2

--------------------------------------------------------------------------------
(* The theorems.                                                           *)

\* Every step of a worker keeps the invariant.
LEMMA WorkerSteps == ASSUME TInv, NEW h \in Hire, WorkerStep(h) PROVE TInv'
BY ReadStep, ThinkStep, AnswerStep DEF WorkerStep

\* Every step keeps the invariant.
LEMMA Inductive == TInv /\ [Next]_vars => TInv'
<1>. SUFFICES ASSUME TInv, [Next]_vars PROVE TInv'
  OBVIOUS
<1>1. CASE RootReady \/ Seats
  BY <1>1, SeatSteps
<1>2. CASE GateOpens \/ StepEnds \/ StepBegins \/ UNCHANGED vars
  BY <1>2, PhaseSteps
<1>3. CASE Gate
  BY <1>3, PhaseSteps, HiringSteps, JudgingSteps DEF Gate
<1>4. ASSUME NEW h \in Hire, WorkerStep(h) \/ Dies(h) PROVE TInv'
  BY <1>4, WorkerSteps, DeathStep
<1>. QED BY <1>1, <1>2, <1>3, <1>4 DEF Next

\* What a worker knows, what its answer carries and what the world is agree.
THEOREM Invariant == Spec => []TInv
<1>. QED BY Initially, Inductive, PTL DEF Spec

\* What a worker is told holds together in every run: its facts contradict one another,
\* though they were read one after another, on a world only that was born meanwhile,
\* and then the evidence it judges is overtaken; and it knows the latest refusal of its
\* batch.
THEOREM Truth == Spec => []ToldTheTruth
<1>1. TInv => ToldTheTruth
  <2>. SUFFICES ASSUME TInv PROVE FactsDoNotContradict
    BY DEF TInv, ToldTheTruth
  <2>1. ASSUME NEW h \in Hire, turn[h].at # "off" PROVE turn[h].work = head \/ head > turn[h].work
    <3>1. turn[h].work \in 1..head /\ head \in Nat
      BY <2>1, Bounds DEF TInv, HiresOK, TypeOK
    <3>. QED BY <3>1
  <2>2. ASSUME NEW h \in Hire, turn[h].at \in {"wake", "think", "note", "answer", "done"},
               NEW s \in Seat, turn[h].ledger[s] # "none"
        PROVE  /\ s \in turn[h].counted
               /\ \A m \in turn[h].menu : m[2] = s[2] /\ s[1] \in Above[m[1]]
                                           => m[1] \notin turn[h].nodes /\ head > turn[h].work
    <3>1. Consistently(h) /\ turn[h].at # "off"
      BY <2>2 DEF TInv, FactsHold
    <3>2. s \in turn[h].counted
      BY <2>2, <3>1 DEF Consistently
    <3>3. ASSUME NEW m \in turn[h].menu, m[2] = s[2], s[1] \in Above[m[1]]
          PROVE  m[1] \notin turn[h].nodes /\ head > turn[h].work
      <4>1. m[1] \notin turn[h].nodes /\ m[1] \in nodes
        BY <2>2, <3>1, <3>3 DEF Consistently
      <4>2. turn[h].work # head
        BY <3>1, <3>3, <4>1 DEF Consistently
      <4>. QED BY <2>1, <3>1, <4>1, <4>2
    <3>. QED BY <3>2, <3>3
  <2>. QED BY <2>2 DEF FactsDoNotContradict
<1>. QED BY <1>1, Invariant, PTL

\* What the author of an answer at the gate was shown, when its batch is still the
\* newest evidence.
LEMMA AuthorIsCurrent ==
    ASSUME TInv, NEW w \in Work, Judging(w), head = w
    PROVE  LET t == turn[file[w].by]
           IN /\ t.heard = {e \in Work : cursor < e /\ e <= w}
              /\ t.nodes = nodes /\ t.menu = Menu
              /\ \A s \in Seat : t.ledger[s] = "open" => seat[s] \in Open
              /\ t.base <= reopened /\ (t.base = reopened => t.free <= Capacity)
              /\ t \in TurnType
<1>. DEFINE b == file[w].by
<1>1. b \in Hire /\ turn[b].work = w /\ turn[b].at = "done"
  BY DEF TInv, HiresOK, Judging
<1>2. Fresh(b)
  BY <1>1 DEF TInv, HiresOK, Judging, Fresh
<1>3. \A S : Knows(b, S)
  BY <1>1 DEF Knows
<1>4. UpToDate(b) /\ turn[b] \in TurnType
  BY <1>1 DEF TInv, ShownAsItIs, TypeOK
<1>. QED BY <1>2, <1>3, <1>4 DEF UpToDate

\* Only a commit moves the cursor and only a refusal counts one.
LEMMA OnlyTheGate ==
    ASSUME [Next]_vars
    PROVE  /\ cursor' = cursor \/ (\E w \in Work : GateCommits(w))
           /\ refused' = refused \/ (\E w \in Work : GateRefuses(w))
<1>. USE DEF gateVars
<1>1. CASE RootReady \/ Seats
  BY <1>1 DEF RootReady, Seats, SeatDelivers, SeatJudged, SeatCloses, SeatFails, SeatRetried,
     SeatReopens, Elsewhere
<1>2. CASE GateOpens \/ StepEnds \/ StepBegins \/ UNCHANGED vars
  BY <1>2 DEF GateOpens, StepEnds, StepBegins, vars
<1>3. CASE Gate
  BY <1>3 DEF Gate, GateHires, GateRests, Replaced, GateRefuses, GateFindsStale, GateCommits
<1>4. ASSUME NEW h \in Hire, WorkerStep(h) \/ Dies(h) PROVE cursor' = cursor /\ refused' = refused
  BY <1>4 DEF WorkerStep, Read, Wakes, Looks, Repairs, Raises, Submits, Exhausts, Notes, Answers,
     Worker, Dies
<1>. QED BY <1>1, <1>2, <1>3, <1>4 DEF Next

\* A batch is committed on facts that are still so.
LEMMA CommitIsCurrent ==
    ASSUME TInv, [Next]_vars, NEW w \in Work, cursor' = w, cursor # w
    PROVE  LET t == turn[file[w].by]
           IN /\ t.heard = {e \in Work : cursor < e /\ e <= w}
              /\ t.nodes = nodes
              /\ t.menu = Menu
<1>1. GateCommits(w)
  BY OnlyTheGate DEF GateCommits
<1>. QED BY <1>1, AuthorIsCurrent DEF GateCommits, Stale

\* An answer drawn from what its worker read is refused only when the world has moved since.
LEMMA RefusalIsOverdue ==
    ASSUME TInv, [Next]_vars, NEW w \in Work, refused'[w] > refused[w],
           Drawn(file[w].says, turn[file[w].by])
    PROVE  head # w \/ reopened > turn[file[w].by].base
<1>. DEFINE t == turn[file[w].by]
            j == file[w].says
<1>1. GateRefuses(w)
  <2>1. PICK v \in Work : GateRefuses(v)
    BY OnlyTheGate DEF TInv, TypeOK
  <2>2. v = w
    BY <2>1 DEF GateRefuses, TInv, TypeOK
  <2>. QED BY <2>1, <2>2
<1>2. ~Legal(j.buys)
  BY <1>1 DEF GateRefuses, Valid, Drawn, Said
<1>. SUFFICES ASSUME head = w, ~(reopened > t.base) PROVE FALSE
  OBVIOUS
<1>3. /\ t.menu = Menu /\ t.free \in Int
      /\ \A s \in Seat : t.ledger[s] = "open" => seat[s] \in Open
      /\ t.free <= Capacity
  <2>1. t \in TurnType /\ t.base <= reopened /\ (t.base = reopened => t.free <= Capacity)
    BY <1>1, AuthorIsCurrent DEF GateRefuses
  <2>2. t.base \in Nat /\ t.free \in Int /\ reopened \in Nat
    BY <2>1 DEF TurnType, TInv, TypeOK
  <2>. QED BY <1>1, <2>1, <2>2, AuthorIsCurrent DEF GateRefuses
<1>4. HonestWait(j.buys)
  BY <1>3 DEF Drawn, ShownOpen, HonestWait
<1>5. Cardinality(j.buys) <= Capacity
  <2>1. IsFiniteSet(j.buys)
    BY <1>3, TurnAssumption, FS_Product, FS_Subset DEF Drawn, Menu, Seat
  <2>2. Cardinality(j.buys) \in Nat /\ Capacity \in Int
    BY <2>1, FS_CardinalityType, CapacityType
  <2>. QED BY <1>3, <2>2 DEF Drawn
<1>6. j.buys \subseteq Menu /\ OneLineEach(j.buys)
  BY <1>3 DEF Drawn
<1>. QED BY <1>2, <1>4, <1>5, <1>6 DEF Legal

\* A commit changes the world its author was shown, and a judgment that keeps to
\* what it was shown is refused only when the world has moved since.
THEOREM Judged == Spec => JudgedOnTruth
<1>1. TInv /\ [Next]_vars =>
        [ \A w \in Work :
            cursor' = w /\ cursor # w =>
                LET t == turn[file[w].by]
                IN /\ t.heard = {e \in Work : cursor < e /\ e <= w}
                   /\ t.nodes = nodes
                   /\ t.menu = Menu ]_vars
  BY CommitIsCurrent
<1>2. TInv /\ [Next]_vars =>
        [ \A w \in Work :
            refused'[w] > refused[w] /\ Drawn(file[w].says, turn[file[w].by]) =>
                head # w \/ reopened > turn[file[w].by].base ]_vars
  BY RefusalIsOverdue
<1>. QED BY <1>1, <1>2, Invariant, PTL DEF Spec, JudgedOnTruth, CommitsOnTruth, RefusalIsOvertaken

--------------------------------------------------------------------------------
(* Leaving and Repaired, recursions over a list.  The induction is over    *)
(* the set of lengths for which the recursion has gone well.               *)

\* A set of naturals that is not empty has a least element.
LEMMA LeastOf ==
    ASSUME NEW S \in SUBSET Nat, S # {}
    PROVE  \E n \in S : \A m \in S : n <= m
<1>1. PICK n \in S : \A m \in S : ~(<<m, n>> \in OpToRel(<, Nat))
  BY WFMin, NatLessThanWellFounded
<1>2. \A m \in S : ~(m < n)
  BY <1>1 DEF OpToRel
<1>. QED BY <1>2

\* What holds of 0, and of n + 1 with n, holds up to any natural.
LEMMA Climbs ==
    ASSUME NEW N \in Nat, NEW S \in SUBSET Nat, 0 \in S,
           \A n \in Nat : n < N /\ n \in S => n + 1 \in S
    PROVE  \A n \in 0..N : n \in S
<1>. DEFINE Bad == {n \in 0..N : n \notin S}
<1>1. Bad \in SUBSET Nat
  OBVIOUS
<1>2. Bad = {}
  <2>. SUFFICES ASSUME Bad # {} PROVE FALSE
    OBVIOUS
  <2>1. PICK n \in Bad : \A m \in Bad : n <= m
    <3>. HIDE DEF Bad
    <3>. QED BY <1>1, LeastOf
  <2>2. n \in Nat /\ n <= N /\ n \notin S /\ n # 0
    OBVIOUS
  <2>3. n - 1 \in Nat /\ n - 1 < N /\ n - 1 + 1 = n /\ ~(n <= n - 1)
    BY <2>2
  <2>4. n - 1 \in S
    BY <2>1, <2>3
  <2>. QED BY <2>2, <2>3, <2>4
<1>. QED BY <1>2

\* A function given by its first value and by a step from each value to the next.
Runs(f, X, N, base, next) ==
    f \in [0..N -> X] /\ f[0] = base /\ \A n \in 1..N : f[n] = next[n][f[n - 1]]

\* There is one wherever the steps stay within a set.
LEMMA Recursion ==
    ASSUME NEW X, NEW N \in Nat, NEW base \in X, NEW next,
           \A n \in 1..N : \A x \in X : next[n][x] \in X
    PROVE  \E f : Runs(f, X, N, base, next)
<1>. DEFINE Good(n, f) == /\ f \in [0..n -> X] /\ f[0] = base
                          /\ \A i \in 1..n : f[i] = next[i][f[i - 1]]
            Has(n) == \E f : Good(n, f)
            S == {n \in Nat : Has(n)}
<1>1. Has(0)
  <2>. DEFINE f == [i \in 0..0 |-> base]
  <2>1. Good(0, f)
    OBVIOUS
  <2>. QED BY <2>1
<1>2. ASSUME NEW n \in Nat, n < N, Has(n) PROVE Has(n + 1)
  <2>1. PICK f : Good(n, f)
    BY <1>2
  <2>. DEFINE g == [i \in 0..n + 1 |-> IF i = n + 1 THEN next[n + 1][f[n]] ELSE f[i]]
  <2>2. \A i \in 0..n : g[i] = f[i] /\ f[i] \in X
    BY <2>1
  <2>3. g[n + 1] = next[n + 1][f[n]] /\ next[n + 1][f[n]] \in X /\ n + 1 \in 1..N
    <3>1. n \in 0..n /\ n + 1 \in 1..N
      BY <1>2
    <3>2. f[n] \in X
      BY <2>2, <3>1
    <3>3. next[n + 1][f[n]] \in X
      BY <3>1, <3>2
    <3>. QED BY <3>1, <3>3
  <2>4. g \in [0..n + 1 -> X] /\ g[0] = base
    BY <2>1, <2>2, <2>3
  <2>5. ASSUME NEW i \in 1..n + 1 PROVE g[i] = next[i][g[i - 1]]
    <3>1. CASE i = n + 1
      <4>1. i - 1 = n /\ g[n] = f[n]
        BY <2>2, <3>1
      <4>. HIDE DEF g
      <4>. QED BY <2>3, <3>1, <4>1
    <3>2. CASE i \in 1..n
      <4>1. i \in 0..n /\ i - 1 \in 0..n
        BY <3>2
      <4>2. f[i] = next[i][f[i - 1]] /\ g[i] = f[i] /\ g[i - 1] = f[i - 1]
        BY <2>1, <2>2, <3>2, <4>1
      <4>. HIDE DEF g
      <4>. QED BY <4>2
    <3>. QED BY <3>1, <3>2
  <2>6. Good(n + 1, g)
    <3>. HIDE DEF g
    <3>. QED BY <2>4, <2>5
  <2>. QED BY <2>6
<1>. HIDE DEF Has
<1>3. S \in SUBSET Nat /\ 0 \in S /\ \A n \in Nat : n < N /\ n \in S => n + 1 \in S
  BY <1>1, <1>2
<1>4. Has(N)
  <2>. HIDE DEF S
  <2>1. \A n \in 0..N : n \in S
    BY <1>3, Climbs
  <2>. QED BY <2>1 DEF S
<1>. QED BY <1>4 DEF Has, Runs

\* A row that Leaving leaves out.
Drops(roles, texts, row) == row.role \in roles \/ row.text \in texts

\* A function that is Leaving's recursion, prefix by prefix.
Unfolds(roles, texts, rows, f) ==
    f = [n \in 0..Len(rows) |->
            IF n = 0 THEN <<>>
            ELSE IF Drops(roles, texts, rows[n]) THEN f[n - 1]
            ELSE Append(f[n - 1], rows[n])]

\* There is one for every list.
LEMMA Unfolded ==
    ASSUME NEW S, NEW roles, NEW texts, NEW rows \in Seq(S)
    PROVE  \E f : Unfolds(roles, texts, rows, f)
<1>. DEFINE N == Len(rows)
            next == [n \in 1..N |-> [x \in Seq(S) |->
                        IF Drops(roles, texts, rows[n]) THEN x ELSE Append(x, rows[n])]]
<1>1. N \in Nat /\ <<>> \in Seq(S) /\ \A n \in 1..N : rows[n] \in S
  OBVIOUS
<1>2. ASSUME NEW n \in 1..N, NEW x \in Seq(S)
      PROVE  /\ next[n][x] = IF Drops(roles, texts, rows[n]) THEN x ELSE Append(x, rows[n])
             /\ next[n][x] \in Seq(S)
  BY <1>1
<1>. HIDE DEF next
<1>3. PICK f \in [0..N -> Seq(S)] : f[0] = <<>> /\ \A n \in 1..N : f[n] = next[n][f[n - 1]]
  <2>1. \A n \in 1..N : \A x \in Seq(S) : next[n][x] \in Seq(S)
    BY <1>2
  <2>2. \E f : Runs(f, Seq(S), N, <<>>, next)
    <3>. HIDE DEF N
    <3>. QED BY <1>1, <2>1, Recursion
  <2>. QED BY <2>2 DEF Runs
<1>4. ASSUME NEW n \in 0..N
      PROVE  f[n] = IF n = 0 THEN <<>>
                    ELSE IF Drops(roles, texts, rows[n]) THEN f[n - 1]
                    ELSE Append(f[n - 1], rows[n])
  <2>1. n # 0 => n \in 1..N /\ n - 1 \in 0..N
    BY <1>1
  <2>. HIDE DEF N
  <2>2. n # 0 => f[n - 1] \in Seq(S) /\ f[n] = next[n][f[n - 1]]
    BY <1>3, <2>1
  <2>. QED BY <1>2, <1>3, <2>1, <2>2
<1>5. f = [n \in 0..N |-> f[n]]
  OBVIOUS
<1>6. Unfolds(roles, texts, rows, f)
  BY <1>4, <1>5 DEF Unfolds
<1>. QED BY <1>6

\* What the values of the recursion are.
Collects(S, roles, texts, rows, f) ==
    /\ f[0] = <<>>
    /\ \A n \in Nat : n < Len(rows) =>
          f[n + 1] = IF Drops(roles, texts, rows[n + 1]) THEN f[n] ELSE Append(f[n], rows[n + 1])
    /\ \A n \in 0..Len(rows) : f[n] \in Seq(S)

\* What the recursion has kept after every row.
LEMMA CollectsIs ==
    ASSUME NEW S, NEW roles, NEW texts, NEW rows \in Seq(S), NEW f, Unfolds(roles, texts, rows, f)
    PROVE  Collects(S, roles, texts, rows, f)
<1>. DEFINE Value(n) == IF n = 0 THEN <<>>
                        ELSE IF Drops(roles, texts, rows[n]) THEN f[n - 1]
                        ELSE Append(f[n - 1], rows[n])
<1>1. f = [n \in 0..Len(rows) |-> Value(n)]
  BY DEF Unfolds
<1>2. Len(rows) \in Nat
  OBVIOUS
<1>. HIDE DEF Value
<1>3. \A n \in 0..Len(rows) : f[n] = Value(n)
  BY <1>1
<1>4. f[0] = <<>>
  <2>1. 0 \in 0..Len(rows)
    BY <1>2
  <2>2. Value(0) = <<>>
    BY DEF Value
  <2>. QED BY <1>3, <2>1, <2>2
<1>5. ASSUME NEW n \in Nat, n < Len(rows)
      PROVE  f[n + 1] = IF Drops(roles, texts, rows[n + 1]) THEN f[n] ELSE Append(f[n], rows[n + 1])
  <2>1. n + 1 \in 0..Len(rows) /\ n + 1 # 0 /\ n + 1 - 1 = n
    BY <1>2, <1>5
  <2>2. f[n + 1] = Value(n + 1)
    BY <1>3, <2>1
  <2>3. Value(n + 1) = IF Drops(roles, texts, rows[n + 1]) THEN f[n + 1 - 1]
                       ELSE Append(f[n + 1 - 1], rows[n + 1])
    BY <2>1 DEF Value
  <2>. QED BY <2>1, <2>2, <2>3
<1>. DEFINE Good == {n \in Nat : f[n] \in Seq(S)}
<1>6. ASSUME NEW n \in Nat, n < Len(rows), f[n] \in Seq(S)
      PROVE  f[n + 1] \in Seq(S)
  <2>1. rows[n + 1] \in S
    BY <1>6, <1>2
  <2>2. Append(f[n], rows[n + 1]) \in Seq(S)
    BY <2>1, <1>6
  <2>. QED BY <1>5, <1>6, <2>2
<1>7. \A n \in Nat : n < Len(rows) /\ n \in Good => n + 1 \in Good
  BY <1>6
<1>8. 0 \in Good
  <2>1. <<>> \in Seq(S)
    OBVIOUS
  <2>. QED BY <1>4, <2>1
<1>9. \A n \in 0..Len(rows) : n \in Good
  <2>1. Good \in SUBSET Nat
    OBVIOUS
  <2>. HIDE DEF Good
  <2>. QED BY <1>2, <1>7, <1>8, <2>1, Climbs
<1>. QED BY <1>4, <1>5, <1>9 DEF Collects

\* Leaving is what such a function makes of the whole list.
LEMMA LeavingIs ==
    ASSUME NEW S, NEW roles, NEW texts, NEW rows \in Seq(S)
    PROVE  \E f : Collects(S, roles, texts, rows, f) /\ Leaving(roles, texts, rows) = f[Len(rows)]
<1>. DEFINE f == CHOOSE f : Unfolds(roles, texts, rows, f)
<1>1. Len(rows) \in Nat
  OBVIOUS
<1>2. Unfolds(roles, texts, rows, f)
  BY Unfolded
<1>3. Leaving(roles, texts, rows) = f[Len(rows)]
  BY DEF Leaving, Unfolds, Drops
<1>. HIDE DEF f
<1>4. Collects(S, roles, texts, rows, f)
  BY <1>2, CollectsIs
<1>. QED BY <1>3, <1>4

\* It is a list of the same rows.
LEMMA LeavingType ==
    ASSUME NEW S, NEW roles, NEW texts, NEW rows \in Seq(S)
    PROVE  Leaving(roles, texts, rows) \in Seq(S)
<1>1. PICK f : Collects(S, roles, texts, rows, f) /\ Leaving(roles, texts, rows) = f[Len(rows)]
  BY LeavingIs
<1>2. Len(rows) \in 0..Len(rows)
  OBVIOUS
<1>. QED BY <1>1, <1>2 DEF Collects
\* A message appended to a join is appended to its second part.
Appends(a, b, m) == Append(a \o b, m) = a \o Append(b, m)

\* It is, for any lists.
LEMMA AppendJoin ==
    ASSUME NEW S, NEW a \in Seq(S), NEW b \in Seq(S), NEW m \in S
    PROVE  Appends(a, b, m)
<1>. DEFINE left == Append(a \o b, m)
            right == a \o Append(b, m)
<1>1. Len(a) \in Nat /\ Len(b) \in Nat /\ a \o b \in Seq(S) /\ Append(b, m) \in Seq(S)
  OBVIOUS
<1>2. /\ left \in Seq(S) /\ Len(left) = Len(a) + Len(b) + 1
      /\ right \in Seq(S) /\ Len(right) = Len(a) + Len(b) + 1
  BY <1>1
<1>3. ASSUME NEW i \in 1..Len(a) + Len(b) + 1 PROVE left[i] = right[i]
  <2>1. CASE i \in 1..Len(a)
    BY <1>1, <2>1
  <2>2. CASE i \in Len(a) + 1..Len(a) + Len(b)
    BY <1>1, <2>2
  <2>3. CASE i = Len(a) + Len(b) + 1
    BY <1>1, <2>3
  <2>. QED BY <1>1, <2>1, <2>2, <2>3
<1>. HIDE DEF left, right
<1>4. left = right
  BY <1>2, <1>3
<1>. QED BY <1>4 DEF left, right, Appends

\* The messages of two sequences in a row are those of the one and of the other.
LEMMA LeavingJoin ==
    ASSUME NEW S, NEW roles, NEW texts, NEW ms \in Seq(S), NEW ns \in Seq(S)
    PROVE  Leaving(roles, texts, ms \o ns) = Leaving(roles, texts, ms) \o Leaving(roles, texts, ns)
<1>. DEFINE all == ms \o ns
            M == Len(ms)
            N == Len(ns)
<1>1. /\ all \in Seq(S) /\ Len(all) = M + N /\ M \in Nat /\ N \in Nat
      /\ \A i \in 1..M : all[i] = ms[i]
      /\ \A i \in 1..N : all[M + i] = ns[i]
      /\ \A i \in 1..N : ns[i] \in S
  OBVIOUS
<1>1a. all \in Seq(S)
  BY <1>1
<1>. HIDE DEF all
<1>2. PICK f : Collects(S, roles, texts, all, f) /\ Leaving(roles, texts, all) = f[Len(all)]
  BY <1>1a, LeavingIs
<1>3. PICK g : Collects(S, roles, texts, ms, g) /\ Leaving(roles, texts, ms) = g[M]
  BY LeavingIs
<1>4. PICK h : Collects(S, roles, texts, ns, h) /\ Leaving(roles, texts, ns) = h[N]
  BY LeavingIs
<1>. HIDE DEF M, N
<1>5. /\ f[0] = <<>> /\ g[0] = <<>> /\ h[0] = <<>>
      /\ \A n \in Nat : n < M + N =>
            f[n + 1] = IF Drops(roles, texts, all[n + 1]) THEN f[n] ELSE Append(f[n], all[n + 1])
      /\ \A n \in Nat : n < M =>
            g[n + 1] = IF Drops(roles, texts, ms[n + 1]) THEN g[n] ELSE Append(g[n], ms[n + 1])
      /\ \A n \in Nat : n < N =>
            h[n + 1] = IF Drops(roles, texts, ns[n + 1]) THEN h[n] ELSE Append(h[n], ns[n + 1])
      /\ g[M] \in Seq(S)
      /\ \A n \in Nat : n < N => h[n] \in Seq(S)
  <2>1. /\ f[0] = <<>> /\ g[0] = <<>> /\ h[0] = <<>>
    BY <1>2, <1>3, <1>4 DEF Collects
  <2>2. \A n \in Nat : n < M + N =>
            f[n + 1] = IF Drops(roles, texts, all[n + 1]) THEN f[n] ELSE Append(f[n], all[n + 1])
    BY <1>1, <1>2 DEF Collects
  <2>3. \A n \in Nat : n < M =>
            g[n + 1] = IF Drops(roles, texts, ms[n + 1]) THEN g[n] ELSE Append(g[n], ms[n + 1])
    BY <1>1, <1>3 DEF Collects, M
  <2>4. \A n \in Nat : n < N =>
            h[n + 1] = IF Drops(roles, texts, ns[n + 1]) THEN h[n] ELSE Append(h[n], ns[n + 1])
    BY <1>1, <1>4 DEF Collects, N
  <2>5. /\ \A n \in 0..M : g[n] \in Seq(S)
        /\ \A n \in 0..N : h[n] \in Seq(S)
    BY <1>3, <1>4 DEF Collects, M, N
  <2>. QED BY <1>1, <2>1, <2>2, <2>3, <2>4, <2>5
<1>. DEFINE F == {n \in Nat : f[n] = g[n]}
            Glued(n) == f[M + n] = g[M] \o h[n]
            Up == {n \in Nat : Glued(n)}
<1>6. f[M] = g[M]
  <2>1. 0 \in F
    BY <1>5
  <2>2. ASSUME NEW n \in Nat, n < M, f[n] = g[n] PROVE f[n + 1] = g[n + 1]
    <3>1. all[n + 1] = ms[n + 1] /\ n < M + N
      BY <1>1, <2>2
    <3>. QED BY <1>5, <2>2, <3>1
  <2>3. \A n \in Nat : n < M /\ n \in F => n + 1 \in F
    BY <2>2
  <2>4. F \in SUBSET Nat
    OBVIOUS
  <2>5. M \in F
    <3>. HIDE DEF F
    <3>1. \A n \in 0..M : n \in F
      BY <1>1, <2>1, <2>3, <2>4, Climbs
    <3>. QED BY <1>1, <3>1
  <2>. QED BY <2>5
<1>7. f[M + N] = g[M] \o h[N]
  <2>1. Glued(0)
    <3>1. M + 0 = M /\ g[M] \o <<>> = g[M]
      BY <1>1, <1>5
    <3>. QED BY <1>5, <1>6, <3>1
  <2>2. ASSUME NEW n \in Nat, n < N, Glued(n)
        PROVE  Glued(n + 1)
    <3>. DEFINE m == ns[n + 1]
    <3>1. M + n \in Nat /\ M + n < M + N /\ M + (n + 1) = M + n + 1
      BY <1>1, <2>2
    <3>2a. n + 1 \in 1..N /\ M + (n + 1) = M + n + 1
      BY <1>1, <2>2
    <3>2. all[M + n + 1] = m
      BY <1>1, <3>2a
    <3>2b. m \in S
      BY <1>1, <3>2a
    <3>3. f[M + n + 1] = IF Drops(roles, texts, m) THEN f[M + n] ELSE Append(f[M + n], m)
      BY <1>5, <3>1, <3>2
    <3>4. h[n + 1] = IF Drops(roles, texts, m) THEN h[n] ELSE Append(h[n], m)
      BY <1>5, <2>2
    <3>5. g[M] \in Seq(S) /\ h[n] \in Seq(S)
      BY <1>5, <2>2
    <3>. HIDE DEF m
    <3>6. Append(g[M] \o h[n], m) = g[M] \o Append(h[n], m)
      <4>1. Appends(g[M], h[n], m)
        BY <3>2b, <3>5, AppendJoin
      <4>. QED BY <4>1 DEF Appends
    <3>. QED BY <2>2, <3>1, <3>3, <3>4, <3>6
  <2>. HIDE DEF Glued
  <2>3. \A n \in Nat : n < N /\ n \in Up => n + 1 \in Up
    BY <2>2
  <2>4. Up \in SUBSET Nat /\ 0 \in Up
    BY <2>1
  <2>5. Glued(N)
    <3>. HIDE DEF Up
    <3>1. \A n \in 0..N : n \in Up
      BY <1>1, <2>3, <2>4, Climbs
    <3>. QED BY <1>1, <3>1 DEF Up
  <2>. QED BY <2>5 DEF Glued
<1>. QED BY <1>1, <1>2, <1>3, <1>4, <1>7 DEF all

\* Where all pass, all are taken.
LEMMA LeavingAll ==
    ASSUME NEW S, NEW roles, NEW texts, NEW ms \in Seq(S),
           \A i \in 1..Len(ms) : ~Drops(roles, texts, ms[i])
    PROVE  Leaving(roles, texts, ms) = ms
<1>1. Len(ms) \in Nat
  OBVIOUS
<1>2. PICK f : Collects(S, roles, texts, ms, f) /\ Leaving(roles, texts, ms) = f[Len(ms)]
  BY LeavingIs
<1>. DEFINE Up == {n \in Nat : f[n] = SubSeq(ms, 1, n)}
<1>3. 0 \in Up
  <2>1. f[0] = <<>>
    BY <1>2 DEF Collects
  <2>2. SubSeq(ms, 1, 0) = <<>>
    OBVIOUS
  <2>. QED BY <2>1, <2>2
<1>4. ASSUME NEW n \in Nat, n < Len(ms), f[n] = SubSeq(ms, 1, n)
      PROVE  f[n + 1] = SubSeq(ms, 1, n + 1)
  <2>1. n + 1 \in 1..Len(ms)
    BY <1>1, <1>4
  <2>2. f[n + 1] = Append(f[n], ms[n + 1])
    BY <1>2, <1>4, <2>1 DEF Collects
  <2>3. Append(SubSeq(ms, 1, n), ms[n + 1]) = SubSeq(ms, 1, n + 1)
    <3>. DEFINE front == SubSeq(ms, 1, n)
                longer == SubSeq(ms, 1, n + 1)
    <3>1. front \in Seq(S) /\ Len(front) = n /\ \A i \in 1..n : front[i] = ms[i]
      BY <1>1, <2>1
    <3>2. longer \in Seq(S) /\ Len(longer) = n + 1 /\ \A i \in 1..n + 1 : longer[i] = ms[i]
      BY <1>1, <2>1
    <3>3. ms[n + 1] \in S
      BY <2>1
    <3>. HIDE DEF front, longer
    <3>4. Append(front, ms[n + 1]) = longer
      BY <3>1, <3>2, <3>3
    <3>. QED BY <3>4 DEF front, longer
  <2>. QED BY <1>4, <2>2, <2>3
<1>5. \A n \in Nat : n < Len(ms) /\ n \in Up => n + 1 \in Up
  BY <1>4
<1>6. \A n \in 0..Len(ms) : n \in Up
  <2>1. Up \in SUBSET Nat
    OBVIOUS
  <2>. HIDE DEF Up
  <2>. QED BY <1>1, <1>3, <1>5, <2>1, Climbs
<1>7. f[Len(ms)] = SubSeq(ms, 1, Len(ms))
  BY <1>1, <1>6
<1>8. SubSeq(ms, 1, Len(ms)) = ms
  OBVIOUS
<1>. QED BY <1>2, <1>7, <1>8

\* Where none passes, none is taken.
LEMMA LeavingNone ==
    ASSUME NEW S, NEW roles, NEW texts, NEW ms \in Seq(S),
           \A i \in 1..Len(ms) : Drops(roles, texts, ms[i])
    PROVE  Leaving(roles, texts, ms) = <<>>
<1>1. Len(ms) \in Nat
  OBVIOUS
<1>2. PICK f : Collects(S, roles, texts, ms, f) /\ Leaving(roles, texts, ms) = f[Len(ms)]
  BY LeavingIs
<1>. DEFINE Up == {n \in Nat : f[n] = <<>>}
<1>3. 0 \in Up
  BY <1>2 DEF Collects
<1>4. ASSUME NEW n \in Nat, n < Len(ms), f[n] = <<>> PROVE f[n + 1] = <<>>
  <2>1. n + 1 \in 1..Len(ms)
    BY <1>1, <1>4
  <2>. QED BY <1>2, <1>4, <2>1 DEF Collects
<1>5. \A n \in Nat : n < Len(ms) /\ n \in Up => n + 1 \in Up
  BY <1>4
<1>6. \A n \in 0..Len(ms) : n \in Up
  <2>1. Up \in SUBSET Nat
    OBVIOUS
  <2>. HIDE DEF Up
  <2>. QED BY <1>1, <1>3, <1>5, <2>1, Climbs
<1>. QED BY <1>1, <1>2, <1>6

\* What is taken passes and was there.
LEMMA LeavingOf ==
    ASSUME NEW S, NEW roles, NEW texts, NEW ms \in Seq(S), NEW some,
           some = Leaving(roles, texts, ms)
    PROVE  \A i \in 1..Len(some) : /\ ~Drops(roles, texts, some[i])
                                   /\ \E j \in 1..Len(ms) : some[i] = ms[j]
<1>1. Len(ms) \in Nat
  OBVIOUS
<1>2. PICK f : Collects(S, roles, texts, ms, f) /\ Leaving(roles, texts, ms) = f[Len(ms)]
  BY LeavingIs
<1>. DEFINE Right(m) == ~Drops(roles, texts, m) /\ \E j \in 1..Len(ms) : m = ms[j]
            Good(n) == \A i \in 1..Len(f[n]) : Right(f[n][i])
            Up == {n \in Nat : Good(n)}
<1>3. Good(0)
  <2>1. f[0] = <<>> /\ Len(<<>>) = 0 /\ 1..0 = {}
    BY <1>2 DEF Collects
  <2>. HIDE DEF Right
  <2>. QED BY <2>1
<1>4. ASSUME NEW n \in Nat, n < Len(ms), Good(n)
      PROVE  Good(n + 1)
  <2>1. n + 1 \in 1..Len(ms) /\ n \in 0..Len(ms)
    BY <1>1, <1>4
  <2>2. f[n] \in Seq(S) /\ ms[n + 1] \in S
    BY <1>2, <2>1 DEF Collects
  <2>3. CASE ~Drops(roles, texts, ms[n + 1])
    <3>1. f[n + 1] = Append(f[n], ms[n + 1])
      BY <1>2, <1>4, <2>3 DEF Collects
    <3>2. Right(ms[n + 1])
      BY <2>1, <2>3
    <3>. HIDE DEF Right
    <3>. QED BY <1>4, <2>2, <3>1, <3>2
  <2>4. CASE Drops(roles, texts, ms[n + 1])
    <3>1. f[n + 1] = f[n]
      BY <1>2, <1>4, <2>4 DEF Collects
    <3>. HIDE DEF Right
    <3>. QED BY <1>4, <3>1
  <2>. QED BY <2>3, <2>4
<1>. HIDE DEF Good
<1>5. \A n \in Nat : n < Len(ms) /\ n \in Up => n + 1 \in Up
  BY <1>4
<1>6. \A n \in 0..Len(ms) : n \in Up
  <2>1. Up \in SUBSET Nat /\ 0 \in Up
    BY <1>3
  <2>. HIDE DEF Up
  <2>. QED BY <1>1, <1>5, <2>1, Climbs
<1>7. Good(Len(ms))
  BY <1>1, <1>6
<1>. QED BY <1>2, <1>7 DEF Good

--------------------------------------------------------------------------------
(* Messages and rows.                                                      *)

\* What a message may say.
Words == {"", "opening", "resumed", "inherited", "knock", "pace", "job", "nudge", "report",
          "malformed", "unheard", "view", "interrupted",
          "done", "full", "alone", "created", "revised", "unknown", "updated"}

\* A message; a message with a role is one, whatever made it.
MessageSet == [role : {"user", "view", "assistant", "tool"}, calls : Seq(Nat), to : Nat,
               says : Words, name : Nat, text : Texts]

\* A message has the fields it was made with.
LEMMA MessageIs ==
    ASSUME NEW role \in {"user", "view", "assistant", "tool"}, NEW made \in Seq(Nat), NEW to \in Nat,
           NEW says \in Words, NEW name \in Nat, NEW text \in Texts
    PROVE  Message(role, made, to, says, name, text) \in MessageSet
BY DEF Message, MessageSet

\* Nothing, and a plain text, are values of their kinds.
LEMMA PlainIs == <<>> \in Seq(Nat) /\ "plain" \in Texts
BY DEF Texts

\* A note from the user.
LEMMA NoteIs ==
    ASSUME NEW says \in Words
    PROVE  /\ Note(says) \in MessageSet /\ Note(says).says = says /\ Note(says).role = "user"
           /\ Note(says).text = "plain" /\ Note(says).calls = <<>>
<1>1. Note(says) \in MessageSet
  BY PlainIs DEF Note, Message, MessageSet
<1>. QED BY <1>1 DEF Note, Message

\* A view of a revision.
LEMMA ViewMade ==
    ASSUME NEW rev \in Nat
    PROVE  /\ View(rev) \in MessageSet /\ View(rev).says = "view" /\ View(rev).role = "view"
           /\ View(rev).text = "plain"
<1>1. View(rev) \in MessageSet
  BY PlainIs DEF View, Message, MessageSet, Words
<1>. QED BY <1>1 DEF View, Message

\* A reply of the model.
LEMMA AssistantIs ==
    ASSUME NEW made \in Seq(Nat), NEW text \in Texts
    PROVE  /\ Assistant(made, text) \in MessageSet /\ Assistant(made, text).says = ""
           /\ Assistant(made, text).role = "assistant" /\ Assistant(made, text).text = text
           /\ Assistant(made, text).calls = made
<1>1. Assistant(made, text) \in MessageSet
  BY DEF Assistant, Message, MessageSet, Words
<1>. QED BY <1>1 DEF Assistant, Message

\* The result of a call.
LEMMA ResultIs ==
    ASSUME NEW call \in Nat, NEW says \in Words, NEW name \in Nat, NEW text \in Texts
    PROVE  /\ Result(call, says, name, text) \in MessageSet
           /\ Result(call, says, name, text).says = says /\ Result(call, says, name, text).name = name
           /\ Result(call, says, name, text).role = "tool" /\ Result(call, says, name, text).text = text
           /\ Result(call, says, name, text).to = call /\ Result(call, says, name, text).calls = <<>>
<1>1. Result(call, says, name, text) \in MessageSet
  BY PlainIs DEF Result, Message, MessageSet
<1>. QED BY <1>1 DEF Result, Message

\* The results made up for calls that never got one: one for each.
LEMMA InterruptedIs ==
    ASSUME NEW P \in SUBSET Nat, IsFiniteSet(P)
    PROVE  /\ Interrupted(P) \in Seq(MessageSet)
           /\ Len(Interrupted(P)) = Cardinality(P) /\ Cardinality(P) \in Nat
           /\ \A i \in 1..Cardinality(P) :
                 /\ Interrupted(P)[i].role = "tool" /\ Interrupted(P)[i].calls = <<>>
                 /\ Interrupted(P)[i].text = "plain" /\ Interrupted(P)[i].says = "interrupted"
           /\ {Interrupted(P)[i].to : i \in 1..Cardinality(P)} = P
<1>. DEFINE n == Cardinality(P)
            f == SetToSeq(P)
<1>1. n \in Nat /\ ExistsBijection(1..n, P)
  BY FS_CardinalityType
<1>2. \E g \in [1..n -> P] : IsInjective(g)
  BY <1>1 DEF ExistsBijection, Bijection, Injection, IsInjective
<1>3. f \in [1..n -> P] /\ IsInjective(f)
  BY <1>2 DEF SetToSeq
<1>4. {f[i] : i \in 1..n} = P
  <2>1. IsFiniteSet(1..n) /\ Cardinality(1..n) = n
    BY <1>1, FS_Interval
  <2>2. f \in Injection(1..n, P)
    BY <1>3 DEF Injection, IsInjective
  <2>3. f \in Surjection(1..n, P)
    BY <2>1, <2>2, FS_Injection
  <2>. QED BY <2>3, <1>3 DEF Surjection
<1>. HIDE DEF f
<1>5. Interrupted(P) = [i \in 1..n |-> Result(f[i], "interrupted", 0, "plain")]
  BY DEF Interrupted, f
<1>6. \A i \in 1..n : /\ f[i] \in Nat /\ Result(f[i], "interrupted", 0, "plain") \in MessageSet
                      /\ LET m == Result(f[i], "interrupted", 0, "plain")
                         IN /\ m.role = "tool" /\ m.calls = <<>> /\ m.text = "plain"
                            /\ m.says = "interrupted" /\ m.to = f[i]
  <2>1. \A i \in 1..n : f[i] \in Nat
    BY <1>3
  <2>2. "interrupted" \in Words
    BY DEF Words
  <2>. QED BY <2>1, <2>2, PlainIs, ResultIs
<1>8. Interrupted(P) \in Seq(MessageSet) /\ Len(Interrupted(P)) = n
  <2>. HIDE DEF n
  <2>. QED BY <1>1, <1>5, <1>6
<1>9. {Interrupted(P)[i].to : i \in 1..n} = P
  BY <1>4, <1>5, <1>6
<1>. QED BY <1>1, <1>5, <1>6, <1>8, <1>9

--------------------------------------------------------------------------------
(* What a resume reads.                                                    *)

\* What was read and the calls that wait.
Reads0 == [out : Seq(MessageSet), pending : {P \in SUBSET Nat : IsFiniteSet(P)}]

\* A message more keeps it so.
LEMMA TakenType ==
    ASSUME NEW acc \in Reads0, NEW m \in MessageSet
    PROVE  Taken(acc, m) \in Reads0
<1>1. ToSet(m.calls) \in SUBSET Nat /\ IsFiniteSet(ToSet(m.calls))
  <2>. DEFINE c == m.calls
  <2>1. c \in Seq(Nat)
    BY DEF MessageSet
  <2>. HIDE DEF c
  <2>2. Len(c) \in Nat /\ \A i \in 1..Len(c) : c[i] \in Nat
    BY <2>1
  <2>3. ToSet(c) = {c[i] : i \in 1..Len(c)}
    BY <2>1 DEF ToSet
  <2>4. c \in Seq(ToSet(c))
    BY <2>1, <2>3
  <2>5. \A e \in ToSet(c) : \E n \in 1..Len(c) : c[n] = e
    BY <2>3
  <2>6. IsFiniteSet(ToSet(c))
    BY <2>4, <2>5 DEF IsFiniteSet
  <2>7. ToSet(c) \in SUBSET Nat
    BY <2>2, <2>5
  <2>. QED BY <2>6, <2>7 DEF c
<1>2. acc.out \in Seq(MessageSet) /\ acc.pending \in SUBSET Nat /\ IsFiniteSet(acc.pending)
  BY DEF Reads0
<1>3. Interrupted(acc.pending) \in Seq(MessageSet)
  BY <1>2, InterruptedIs
<1>4. acc.pending \ {m.to} \in SUBSET Nat /\ IsFiniteSet(acc.pending \ {m.to})
  BY <1>2, FS_Difference
<1>5. IsFiniteSet({})
  BY FS_EmptySet
<1>6. Append(acc.out, m) \in Seq(MessageSet)
  BY <1>2
<1>7. acc.out \o Interrupted(acc.pending) \o <<m>> \in Seq(MessageSet)
  BY <1>2, <1>3
<1>. QED BY <1>1, <1>4, <1>5, <1>6, <1>7 DEF Taken, Reads0

\* A function that is Repaired's recursion, prefix by prefix.
ReadsOver(ms, f) ==
    f = [n \in 0..Len(ms) |-> IF n = 0 THEN [out |-> <<>>, pending |-> {}]
                              ELSE Taken(f[n - 1], ms[n])]

\* What the values of the recursion are.
ReadsAlong(ms, f) == /\ f \in [0..Len(ms) -> Reads0]
                     /\ f[0] = [out |-> <<>>, pending |-> {}]
                     /\ \A n \in 1..Len(ms) : f[n] = Taken(f[n - 1], ms[n])

\* Nothing read yet.
LEMMA NothingRead == [out |-> <<>>, pending |-> {}] \in Reads0
<1>1. IsFiniteSet({}) /\ <<>> \in Seq(MessageSet)
  BY FS_EmptySet
<1>. QED BY <1>1 DEF Reads0

\* There is such a function for every list.
LEMMA ReadsAre ==
    ASSUME NEW ms \in Seq(MessageSet)
    PROVE  \E f : ReadsOver(ms, f)
<1>. DEFINE N == Len(ms)
            base == [out |-> <<>>, pending |-> {}]
            next == [n \in 1..N |-> [x \in Reads0 |-> Taken(x, ms[n])]]
<1>1. N \in Nat /\ \A n \in 1..N : ms[n] \in MessageSet
  OBVIOUS
<1>1a. base \in Reads0
  BY NothingRead
<1>. HIDE DEF base
<1>2. \A n \in 1..N : \A x \in Reads0 : next[n][x] = Taken(x, ms[n]) /\ next[n][x] \in Reads0
  BY <1>1, TakenType
<1>. HIDE DEF next
<1>3. PICK f \in [0..N -> Reads0] : f[0] = base /\ \A n \in 1..N : f[n] = next[n][f[n - 1]]
  <2>1. \A n \in 1..N : \A x \in Reads0 : next[n][x] \in Reads0
    BY <1>2
  <2>2. \E f : Runs(f, Reads0, N, base, next)
    <3>. HIDE DEF N
    <3>. QED BY <1>1, <1>1a, <2>1, Recursion
  <2>. QED BY <2>2 DEF Runs
<1>4. ASSUME NEW n \in 0..N
      PROVE  f[n] = IF n = 0 THEN base ELSE Taken(f[n - 1], ms[n])
  <2>1. n # 0 => n \in 1..N /\ n - 1 \in 0..N
    BY <1>1
  <2>. HIDE DEF N
  <2>2. n # 0 => f[n - 1] \in Reads0 /\ f[n] = next[n][f[n - 1]]
    BY <1>3, <2>1
  <2>. QED BY <1>2, <1>3, <2>1, <2>2
<1>5. f = [n \in 0..N |-> f[n]]
  OBVIOUS
<1>6. ReadsOver(ms, f)
  BY <1>4, <1>5 DEF ReadsOver, base
<1>. QED BY <1>6

\* What such a function gives after every message.
LEMMA ReadsAlongIs ==
    ASSUME NEW ms \in Seq(MessageSet), NEW f, ReadsOver(ms, f)
    PROVE  ReadsAlong(ms, f)
<1>. DEFINE base == [out |-> <<>>, pending |-> {}]
            Value(n) == IF n = 0 THEN base ELSE Taken(f[n - 1], ms[n])
            N == Len(ms)
<1>1. f = [n \in 0..N |-> Value(n)]
  BY DEF ReadsOver
<1>2. N \in Nat /\ \A n \in 1..N : ms[n] \in MessageSet
  OBVIOUS
<1>. HIDE DEF Value, N
<1>3. \A n \in 0..N : f[n] = Value(n)
  BY <1>1
<1>4. f[0] = base
  <2>1. 0 \in 0..N
    BY <1>2
  <2>2. Value(0) = base
    BY DEF Value
  <2>. QED BY <1>3, <2>1, <2>2
<1>5. ASSUME NEW n \in 1..N PROVE f[n] = Taken(f[n - 1], ms[n])
  <2>1. n \in 0..N /\ n # 0
    BY <1>2
  <2>2. f[n] = Value(n)
    BY <1>3, <2>1
  <2>. QED BY <2>1, <2>2 DEF Value
<1>6. \A n \in 0..N : f[n] \in Reads0
  <2>. DEFINE Good == {n \in Nat : f[n] \in Reads0}
  <2>1. 0 \in Good /\ Good \in SUBSET Nat
    BY <1>4, NothingRead
  <2>2. ASSUME NEW n \in Nat, n < N, f[n] \in Reads0 PROVE f[n + 1] \in Reads0
    <3>1. n + 1 \in 1..N /\ n + 1 - 1 = n
      BY <1>2, <2>2
    <3>2. f[n + 1] = Taken(f[n + 1 - 1], ms[n + 1])
      BY <1>5, <3>1
    <3>3. f[n + 1] = Taken(f[n], ms[n + 1])
      BY <3>1, <3>2
    <3>4. ms[n + 1] \in MessageSet
      BY <1>2, <3>1
    <3>. QED BY <2>2, <3>3, <3>4, TakenType
  <2>3. \A n \in Nat : n < N /\ n \in Good => n + 1 \in Good
    BY <2>2
  <2>4. \A n \in 0..N : n \in Good
    <3>. HIDE DEF Good
    <3>. QED BY <1>2, <2>1, <2>3, Climbs
  <2>. QED BY <2>4
<1>7. f \in [0..N -> Reads0]
  BY <1>1, <1>6
<1>. QED BY <1>4, <1>5, <1>7 DEF ReadsAlong, N

\* What was read of a list.
Reading(ms) ==
    LET read[n \in 0..Len(ms)] ==
            IF n = 0 THEN [out |-> <<>>, pending |-> {}] ELSE Taken(read[n - 1], ms[n])
    IN read[Len(ms)]

\* It is the last value of the recursion.
LEMMA ReadingIs ==
    ASSUME NEW ms \in Seq(MessageSet)
    PROVE  \E f : ReadsAlong(ms, f) /\ Reading(ms) = f[Len(ms)]
<1>. DEFINE f == CHOOSE f : ReadsOver(ms, f)
<1>1. ReadsOver(ms, f)
  BY ReadsAre
<1>2. Reading(ms) = f[Len(ms)]
  BY DEF Reading, ReadsOver
<1>. HIDE DEF f
<1>3. ReadsAlong(ms, f)
  BY <1>1, ReadsAlongIs
<1>. QED BY <1>2, <1>3

\* Reading is typed, and what a resume reads is what was read and what was made up.
LEMMA ReadingType ==
    ASSUME NEW ms \in Seq(MessageSet)
    PROVE  /\ Reading(ms) \in Reads0
           /\ Repaired(ms) = Reading(ms).out \o Interrupted(Reading(ms).pending)
           /\ Repaired(ms) \in Seq(MessageSet)
<1>1. PICK f : ReadsAlong(ms, f) /\ Reading(ms) = f[Len(ms)]
  BY ReadingIs
<1>2. Len(ms) \in 0..Len(ms)
  OBVIOUS
<1>3. Reading(ms) \in Reads0
  BY <1>1, <1>2 DEF ReadsAlong
<1>4. Repaired(ms) = Reading(ms).out \o Interrupted(Reading(ms).pending)
  BY DEF Repaired, Reading
<1>5. /\ Reading(ms).out \in Seq(MessageSet)
      /\ Reading(ms).pending \in SUBSET Nat /\ IsFiniteSet(Reading(ms).pending)
  BY <1>3 DEF Reads0
<1>6. Interrupted(Reading(ms).pending) \in Seq(MessageSet)
  BY <1>5, InterruptedIs
<1>. QED BY <1>3, <1>4, <1>5, <1>6

\* Nothing is read of nothing, and a message more is taken by itself.
LEMMA ReadingNothing == Reading(<<>>) = [out |-> <<>>, pending |-> {}]
<1>1. <<>> \in Seq(MessageSet) /\ Len(<<>>) = 0
  OBVIOUS
<1>2. PICK f : ReadsAlong(<<>>, f) /\ Reading(<<>>) = f[Len(<<>>)]
  BY <1>1, ReadingIs
<1>. QED BY <1>1, <1>2 DEF ReadsAlong

\* One more message is taken after what was read before it.
LEMMA ReadingMore ==
    ASSUME NEW ms \in Seq(MessageSet), NEW m \in MessageSet
    PROVE  Reading(Append(ms, m)) = Taken(Reading(ms), m)
<1>. DEFINE all == Append(ms, m)
            N == Len(ms)
<1>1. /\ all \in Seq(MessageSet) /\ Len(all) = N + 1 /\ N \in Nat
      /\ all[N + 1] = m /\ \A i \in 1..N : all[i] = ms[i]
  OBVIOUS
<1>1a. all \in Seq(MessageSet)
  BY <1>1
<1>. HIDE DEF all
<1>2. PICK f : ReadsAlong(all, f) /\ Reading(all) = f[Len(all)]
  BY <1>1a, ReadingIs
<1>3. PICK g : ReadsAlong(ms, g) /\ Reading(ms) = g[N]
  BY ReadingIs
<1>4. /\ f[0] = g[0]
      /\ \A n \in 1..N + 1 : f[n] = Taken(f[n - 1], all[n])
      /\ \A n \in 1..N : g[n] = Taken(g[n - 1], ms[n])
  BY <1>1, <1>2, <1>3 DEF ReadsAlong
<1>. HIDE DEF N
<1>. DEFINE Same == {n \in Nat : f[n] = g[n]}
<1>5. 0 \in Same /\ Same \in SUBSET Nat
  BY <1>4
<1>6. ASSUME NEW n \in Nat, n < N, f[n] = g[n] PROVE f[n + 1] = g[n + 1]
  <2>1. n + 1 \in 1..N /\ n + 1 \in 1..N + 1 /\ n + 1 - 1 = n
    BY <1>1, <1>6
  <2>2. f[n + 1] = Taken(f[n + 1 - 1], all[n + 1]) /\ g[n + 1] = Taken(g[n + 1 - 1], ms[n + 1])
    BY <1>4, <2>1
  <2>3. all[n + 1] = ms[n + 1]
    BY <1>1, <2>1
  <2>. QED BY <1>6, <2>1, <2>2, <2>3
<1>7. \A n \in Nat : n < N /\ n \in Same => n + 1 \in Same
  BY <1>6
<1>8. f[N] = g[N]
  <2>1. \A n \in 0..N : n \in Same
    <3>. HIDE DEF Same
    <3>. QED BY <1>1, <1>5, <1>7, Climbs
  <2>2. N \in 0..N
    BY <1>1
  <2>. QED BY <2>1, <2>2
<1>. HIDE DEF Same
<1>9. \E k \in 1..N + 1 : k = N + 1 /\ k - 1 = N
  BY <1>1
<1>10. f[N + 1] = Taken(f[N], all[N + 1])
  BY <1>4, <1>9
<1>. QED BY <1>1, <1>2, <1>3, <1>8, <1>10 DEF all
--------------------------------------------------------------------------------
(* Lists of messages.                                                      *)

\* Two lists of one length that agree at every place are one.
LEMMA SameList ==
    ASSUME NEW a \in Seq(MessageSet), NEW b \in Seq(MessageSet), Len(a) = Len(b),
           \A i \in 1..Len(a) : a[i] = b[i]
    PROVE  a = b
OBVIOUS

\* A join, place by place.
LEMMA JoinIs ==
    ASSUME NEW a \in Seq(MessageSet), NEW b \in Seq(MessageSet)
    PROVE  /\ a \o b \in Seq(MessageSet) /\ Len(a \o b) = Len(a) + Len(b)
           /\ Len(a) \in Nat /\ Len(b) \in Nat
           /\ \A i \in 1..Len(a) : (a \o b)[i] = a[i]
           /\ \A i \in 1..Len(b) : (a \o b)[Len(a) + i] = b[i]
           /\ \A i \in Len(a) + 1..Len(a) + Len(b) : (a \o b)[i] = b[i - Len(a)]
OBVIOUS

\* A part of a list, place by place.
LEMMA SubSeqIs ==
    ASSUME NEW ms \in Seq(MessageSet), NEW p \in 1..Len(ms) + 1, NEW q \in 0..Len(ms), p <= q + 1
    PROVE  /\ SubSeq(ms, p, q) \in Seq(MessageSet) /\ Len(SubSeq(ms, p, q)) = q + 1 - p
           /\ \A i \in 1..q + 1 - p : SubSeq(ms, p, q)[i] = ms[p + i - 1]
<1>1. Len(ms) \in Nat /\ \A i \in 1..Len(ms) : ms[i] \in MessageSet
  OBVIOUS
<1>2. \A i \in p..q : ms[i] \in MessageSet
  BY <1>1
<1>3. Len(SubSeq(ms, p, q)) = q + 1 - p
  BY <1>1
<1>4. \A i \in 1..q + 1 - p : SubSeq(ms, p, q)[i] = ms[p + i - 1]
  BY <1>1
<1>5. SubSeq(ms, p, q) \in Seq(MessageSet)
  BY <1>1, <1>2
<1>. QED BY <1>3, <1>4, <1>5

\* It does not matter which two of three lists are joined first.
LEMMA JoinIsAssociative ==
    ASSUME NEW a \in Seq(MessageSet), NEW b \in Seq(MessageSet), NEW c \in Seq(MessageSet)
    PROVE  (a \o b) \o c = a \o (b \o c)
<1>. DEFINE left == (a \o b) \o c
            right == a \o (b \o c)
<1>1. /\ Len(a) \in Nat /\ Len(b) \in Nat /\ Len(c) \in Nat
      /\ a \o b \in Seq(MessageSet) /\ b \o c \in Seq(MessageSet)
      /\ Len(a \o b) = Len(a) + Len(b) /\ Len(b \o c) = Len(b) + Len(c)
  OBVIOUS
<1>2. /\ left \in Seq(MessageSet) /\ Len(left) = Len(a) + Len(b) + Len(c)
      /\ right \in Seq(MessageSet) /\ Len(right) = Len(a) + Len(b) + Len(c)
  BY <1>1
<1>3. ASSUME NEW i \in 1..Len(a) + Len(b) + Len(c) PROVE left[i] = right[i]
  <2>1. CASE i \in 1..Len(a)
    <3>1. left[i] = (a \o b)[i] /\ (a \o b)[i] = a[i] /\ right[i] = a[i]
      BY <1>1, <2>1
    <3>. QED BY <3>1
  <2>2. CASE i \in Len(a) + 1..Len(a) + Len(b)
    <3>1. left[i] = (a \o b)[i] /\ (a \o b)[i] = b[i - Len(a)]
      BY <1>1, <2>2
    <3>2. right[i] = (b \o c)[i - Len(a)] /\ (b \o c)[i - Len(a)] = b[i - Len(a)]
      BY <1>1, <2>2
    <3>. QED BY <3>1, <3>2
  <2>3. CASE i \in Len(a) + Len(b) + 1..Len(a) + Len(b) + Len(c)
    <3>1. left[i] = c[i - (Len(a) + Len(b))]
      BY <1>1, <2>3
    <3>2. right[i] = (b \o c)[i - Len(a)]
      BY <1>1, <2>3
    <3>3. (b \o c)[i - Len(a)] = c[i - Len(a) - Len(b)]
      BY <1>1, <2>3
    <3>4. i - Len(a) - Len(b) = i - (Len(a) + Len(b))
      BY <1>1
    <3>. QED BY <3>1, <3>2, <3>3, <3>4
  <2>. QED BY <1>1, <2>1, <2>2, <2>3
<1>. HIDE DEF left, right
<1>4. left = right
  BY <1>2, <1>3
<1>. QED BY <1>4 DEF left, right

\* A list is what comes before a place and what comes from it on.
LEMMA CutIs ==
    ASSUME NEW ms \in Seq(MessageSet), NEW at \in 1..Len(ms) + 1
    PROVE  /\ ms = SubSeq(ms, 1, at - 1) \o SubSeq(ms, at, Len(ms))
           /\ SubSeq(ms, 1, at - 1) \in Seq(MessageSet) /\ Len(SubSeq(ms, 1, at - 1)) = at - 1
           /\ SubSeq(ms, at, Len(ms)) \in Seq(MessageSet)
           /\ Len(SubSeq(ms, at, Len(ms))) = Len(ms) + 1 - at
           /\ \A i \in 1..at - 1 : SubSeq(ms, 1, at - 1)[i] = ms[i]
           /\ \A i \in 1..Len(ms) + 1 - at : SubSeq(ms, at, Len(ms))[i] = ms[at + i - 1]
<1>. DEFINE a == SubSeq(ms, 1, at - 1)
            b == SubSeq(ms, at, Len(ms))
            n == Len(ms)
<1>1. n \in Nat /\ at \in Nat /\ at - 1 \in 0..n /\ 1 \in 1..n + 1 /\ n \in 0..n /\ 1 <= at - 1 + 1 /\ at <= n + 1
  OBVIOUS
<1>2. a \in Seq(MessageSet) /\ Len(a) = at - 1 + 1 - 1 /\ \A i \in 1..at - 1 + 1 - 1 : a[i] = ms[1 + i - 1]
  BY <1>1, SubSeqIs
<1>3. b \in Seq(MessageSet) /\ Len(b) = n + 1 - at /\ \A i \in 1..n + 1 - at : b[i] = ms[at + i - 1]
  BY <1>1, SubSeqIs
<1>. HIDE DEF a, b
<1>4. Len(a) = at - 1 /\ \A i \in 1..at - 1 : a[i] = ms[i]
  BY <1>1, <1>2
<1>5. /\ a \o b \in Seq(MessageSet) /\ Len(a \o b) = Len(a) + Len(b)
      /\ \A i \in 1..Len(a) : (a \o b)[i] = a[i]
      /\ \A i \in Len(a) + 1..Len(a) + Len(b) : (a \o b)[i] = b[i - Len(a)]
  BY <1>2, <1>3, JoinIs
<1>. DEFINE ab == a \o b
<1>. HIDE DEF ab, n
<1>6. ASSUME NEW i \in 1..n PROVE ab[i] = ms[i]
  <2>1. CASE i \in 1..at - 1
    <3>1. ab[i] = a[i]
      BY <1>4, <1>5, <2>1 DEF ab
    <3>. QED BY <1>4, <2>1, <3>1
  <2>2. CASE i \in at..n
    <3>1. i \in Len(a) + 1..Len(a) + Len(b) /\ i - Len(a) \in 1..n + 1 - at /\ at + (i - Len(a)) - 1 = i
      BY <1>1, <1>3, <1>4, <2>2
    <3>2. ab[i] = b[i - Len(a)]
      BY <1>5, <3>1 DEF ab
    <3>3. b[i - Len(a)] = ms[at + (i - Len(a)) - 1]
      BY <1>3, <3>1
    <3>. QED BY <3>1, <3>2, <3>3
  <2>. QED BY <1>1, <2>1, <2>2
<1>7. Len(ab) = n /\ ab \in Seq(MessageSet)
  BY <1>1, <1>3, <1>4, <1>5 DEF ab
<1>8. ab = ms
  BY <1>6, <1>7, SameList DEF n
<1>. QED BY <1>2, <1>3, <1>4, <1>8 DEF a, b, ab, n

\* A message appended is joined as a list of its own, and belongs to the last part.
LEMMA AppendIs ==
    ASSUME NEW ms \in Seq(MessageSet), NEW m \in MessageSet
    PROVE  /\ Append(ms, m) = ms \o <<m>> /\ <<m>> \in Seq(MessageSet) /\ Len(<<m>>) = 1 /\ <<m>>[1] = m
           /\ Append(ms, m) \in Seq(MessageSet) /\ Len(Append(ms, m)) = Len(ms) + 1 /\ Len(ms) \in Nat
           /\ \A i \in 1..Len(ms) : Append(ms, m)[i] = ms[i]
           /\ Append(ms, m)[Len(ms) + 1] = m
OBVIOUS

\* An append to a joined list is an append to its second part.
LEMMA AppendToLast ==
    ASSUME NEW a \in Seq(MessageSet), NEW b \in Seq(MessageSet), NEW m \in MessageSet
    PROVE  Append(a \o b, m) = a \o Append(b, m)
<1>1. Appends(a, b, m)
  BY AppendJoin
<1>. QED BY <1>1 DEF Appends
--------------------------------------------------------------------------------
(* Parts of a conversation.                                                *)

\* The framing: what is said before the model's first turn.
Framed(ms)   == \A i \in 1..Len(ms) : ms[i].role \in {"user", "view"}
Starts(ms)   == ms = <<>> \/ IsTurn(ms[1])
Viewless(ms) == \A i \in 1..Len(ms) : ms[i].role # "view"

\* A conversation in two parts, of which the second begins with a turn.
Parts(ms, pre, rest) ==
    /\ pre \in Seq(MessageSet) /\ rest \in Seq(MessageSet) /\ ms = pre \o rest
    /\ Framed(pre) /\ Starts(rest) /\ Viewless(rest)

\* The place of the first turn, or the one after the last message.
LEMMA FirstTurnIs ==
    ASSUME NEW ms \in Seq(MessageSet)
    PROVE  /\ FirstTurn(ms) \in 1..Len(ms) + 1
           /\ \A j \in 1..FirstTurn(ms) - 1 : ~IsTurn(ms[j])
           /\ FirstTurn(ms) <= Len(ms) => IsTurn(ms[FirstTurn(ms)])
<1>. DEFINE I == {i \in 1..Len(ms) : IsTurn(ms[i])}
<1>1. Len(ms) \in Nat /\ DOMAIN ms = 1..Len(ms)
  OBVIOUS
<1>2. CASE I = {}
  <2>1. FirstTurn(ms) = Len(ms) + 1
    BY <1>1, <1>2 DEF FirstTurn
  <2>2. \A j \in 1..Len(ms) : ~IsTurn(ms[j])
    BY <1>2
  <2>. QED BY <1>1, <2>1, <2>2
<1>3. CASE I # {}
  <2>1. I \in SUBSET Nat
    BY <1>1
  <2>2. PICK n \in I : \A m \in I : n <= m
    <3>. HIDE DEF I
    <3>. QED BY <1>3, <2>1, LeastOf
  <2>3. n \in 1..Len(ms) /\ IsTurn(ms[n])
    OBVIOUS
  <2>4. \A j \in 1..n - 1 : ~IsTurn(ms[j])
    <3>. SUFFICES ASSUME NEW j \in 1..n - 1, IsTurn(ms[j]) PROVE FALSE
      OBVIOUS
    <3>1. j \in I /\ j < n
      BY <1>1, <2>3
    <3>2. n <= j
      BY <2>2, <3>1
    <3>. QED BY <1>1, <2>3, <3>1, <3>2
  <2>. DEFINE at == CHOOSE i \in DOMAIN ms : IsTurn(ms[i]) /\ \A j \in 1..i - 1 : ~IsTurn(ms[j])
  <2>5. at \in DOMAIN ms /\ IsTurn(ms[at]) /\ \A j \in 1..at - 1 : ~IsTurn(ms[j])
    <3>1. n \in DOMAIN ms /\ IsTurn(ms[n]) /\ \A j \in 1..n - 1 : ~IsTurn(ms[j])
      BY <1>1, <2>3, <2>4
    <3>. QED BY <3>1
  <2>6. FirstTurn(ms) = at
    BY <1>1, <2>3 DEF FirstTurn
  <2>. HIDE DEF at
  <2>. QED BY <1>1, <2>5, <2>6
<1>. QED BY <1>2, <1>3

\* It is where the second of two parts begins.
LEMMA PartsAre ==
    ASSUME NEW ms, NEW pre, NEW rest, Parts(ms, pre, rest)
    PROVE  /\ ms \in Seq(MessageSet)
           /\ FirstTurn(ms) = Len(pre) + 1
           /\ SubSeq(ms, 1, FirstTurn(ms) - 1) = pre
           /\ SubSeq(ms, FirstTurn(ms), Len(ms)) = rest
<1>1. pre \in Seq(MessageSet) /\ rest \in Seq(MessageSet) /\ ms = pre \o rest
  BY DEF Parts
<1>2. /\ ms \in Seq(MessageSet) /\ Len(ms) = Len(pre) + Len(rest)
      /\ Len(pre) \in Nat /\ Len(rest) \in Nat
      /\ \A i \in 1..Len(pre) : ms[i] = pre[i]
      /\ \A i \in 1..Len(rest) : ms[Len(pre) + i] = rest[i]
  BY <1>1
<1>2a. ms \in Seq(MessageSet)
  BY <1>2
<1>3. /\ FirstTurn(ms) \in 1..Len(ms) + 1
      /\ \A j \in 1..FirstTurn(ms) - 1 : ~IsTurn(ms[j])
      /\ FirstTurn(ms) <= Len(ms) => IsTurn(ms[FirstTurn(ms)])
  BY <1>2a, FirstTurnIs
<1>4. \A i \in 1..Len(pre) : ~IsTurn(ms[i])
  BY <1>2 DEF Parts, Framed, IsTurn
<1>5. rest # <<>> => Len(rest) > 0 /\ IsTurn(ms[Len(pre) + 1])
  <2>1. rest # <<>> => 1 \in 1..Len(rest) /\ IsTurn(rest[1])
    BY <1>1 DEF Parts, Starts
  <2>. QED BY <1>2, <2>1
<1>6. rest = <<>> => Len(rest) = 0
  OBVIOUS
<1>. DEFINE at == FirstTurn(ms)
<1>7. at = Len(pre) + 1
  <2>. HIDE DEF at
  <2>1. at \in 1..Len(ms) + 1 /\ (\A j \in 1..at - 1 : ~IsTurn(ms[j])) /\ (at <= Len(ms) => IsTurn(ms[at]))
    BY <1>3 DEF at
  <2>2. ~(at \in 1..Len(pre))
    <3>. SUFFICES ASSUME at \in 1..Len(pre) PROVE FALSE
      OBVIOUS
    <3>1. at <= Len(ms)
      BY <1>2
    <3>. QED BY <1>4, <2>1, <3>1
  <2>3. ~(at > Len(pre) + 1)
    <3>. SUFFICES ASSUME at > Len(pre) + 1 PROVE FALSE
      OBVIOUS
    <3>1. Len(rest) > 0 /\ Len(pre) + 1 \in 1..at - 1
      BY <1>2, <2>1
    <3>2. rest # <<>>
      BY <1>6, <3>1
    <3>. QED BY <1>5, <2>1, <3>1, <3>2
  <2>. QED BY <1>2, <2>1, <2>2, <2>3
<1>8. SubSeq(ms, 1, Len(pre)) = pre
  BY <1>1, <1>2
<1>9. SubSeq(ms, Len(pre) + 1, Len(ms)) = rest
  BY <1>1, <1>2
<1>10. Len(pre) + 1 - 1 = Len(pre)
  BY <1>2
<1>. QED BY <1>2, <1>7, <1>8, <1>9, <1>10

\* The view of the day, if there is one.
Today(rows) == LET now == Readable(rows) IN IF now = <<>> THEN <<>> ELSE <<View(Last(now).name)>>

\* The rows of the current view, and those of the research memory.
ViewRow  == [role : {"view", "torn", "broken"}, name : Nat, text : {"plain"}]
EventRow == [role : {"create", "revise", "status", "torn", "broken"}, name : Nat, text : {"plain"}]

\* It is one message, or none.
LEMMA TodayIs ==
    ASSUME NEW rows \in Seq(ViewRow)
    PROVE  /\ Today(rows) \in Seq(MessageSet)
           /\ \A i \in 1..Len(Today(rows)) : /\ Today(rows)[i].role = "view"
                                             /\ Today(rows)[i].text = "plain"
                                             /\ Today(rows)[i].says = "view"
<1>. DEFINE now == Readable(rows)
<1>1. now \in Seq(ViewRow)
  BY LeavingType DEF Readable
<1>. HIDE DEF now
<1>2. CASE now = <<>>
  <2>1. Today(rows) = <<>>
    BY <1>2 DEF Today, now
  <2>. QED BY <2>1
<1>3. CASE now # <<>>
  <2>1. Last(now) \in ViewRow
    <3>1. Len(now) \in 1..Len(now)
      BY <1>1, <1>3
    <3>. QED BY <1>1, <3>1 DEF Last
  <2>2. Last(now).name \in Nat
    BY <2>1 DEF ViewRow
  <2>. DEFINE v == View(Last(now).name)
  <2>3. v \in MessageSet /\ v.role = "view" /\ v.text = "plain" /\ v.says = "view"
    BY <2>2, ViewMade
  <2>4. Today(rows) = <<v>>
    BY <1>3 DEF Today, now
  <2>. HIDE DEF v
  <2>. QED BY <2>3, <2>4
<1>. QED BY <1>2, <1>3

\* What the view gives way to, and where it is placed.
LEMMA UpsertedIs ==
    ASSUME NEW ms \in Seq(MessageSet), NEW rows \in Seq(ViewRow)
    PROVE  LET kept == Leaving({"view"}, {"quotes"}, ms)
               at   == FirstTurn(kept)
           IN /\ Upserted(ms, rows) = SubSeq(kept, 1, at - 1) \o Today(rows) \o SubSeq(kept, at, Len(kept))
              /\ kept \in Seq(MessageSet) /\ at \in 1..Len(kept) + 1
              /\ SubSeq(kept, 1, at - 1) \in Seq(MessageSet)
              /\ SubSeq(kept, at, Len(kept)) \in Seq(MessageSet)
              /\ kept = SubSeq(kept, 1, at - 1) \o SubSeq(kept, at, Len(kept))
              /\ Upserted(ms, rows) \in Seq(MessageSet)
<1>. DEFINE now  == Readable(rows)
            kept == Leaving({"view"}, {"quotes"}, ms)
            at   == FirstTurn(kept)
            a    == SubSeq(kept, 1, at - 1)
            b    == SubSeq(kept, at, Len(kept))
<1>1. kept \in Seq(MessageSet)
  BY LeavingType
<1>2. at \in 1..Len(kept) + 1
  <2>. HIDE DEF kept
  <2>. QED BY <1>1, FirstTurnIs
<1>3. a \in Seq(MessageSet) /\ b \in Seq(MessageSet) /\ kept = a \o b
  <2>. HIDE DEF kept, at
  <2>. QED BY <1>1, <1>2, CutIs
<1>4. Upserted(ms, rows) = a \o Today(rows) \o b
  <2>1. Upserted(ms, rows) = IF now = <<>> THEN kept ELSE a \o <<View(Last(now).name)>> \o b
    BY DEF Upserted
  <2>2. Today(rows) = IF now = <<>> THEN <<>> ELSE <<View(Last(now).name)>>
    BY DEF Today
  <2>. HIDE DEF a, b, kept, now
  <2>3. a \o <<>> = a
    BY <1>3
  <2>. QED BY <1>3, <2>1, <2>2, <2>3
<1>5. Upserted(ms, rows) \in Seq(MessageSet)
  <2>1. Today(rows) \in Seq(MessageSet)
    BY TodayIs
  <2>. HIDE DEF a, b
  <2>. QED BY <1>3, <1>4, <2>1
<1>. QED BY <1>1, <1>2, <1>3, <1>4, <1>5
--------------------------------------------------------------------------------
(* The line logs.                                                          *)

WireRow == MessageSet \cup {Torn, Broken}

\* The beginning of a list.
LEMMA FrontIs ==
    ASSUME NEW S, NEW list \in Seq(S), NEW k \in 0..Len(list)
    PROVE  /\ SubSeq(list, 1, k) \in Seq(S) /\ Len(SubSeq(list, 1, k)) = k
           /\ \A i \in 1..k : SubSeq(list, 1, k)[i] = list[i]
<1>1. Len(list) \in Nat /\ k \in Nat /\ k <= Len(list) /\ \A i \in 1..Len(list) : list[i] \in S
  OBVIOUS
<1>2. \A i \in 1..k : list[i] \in S
  BY <1>1
<1>3. Len(SubSeq(list, 1, k)) = k
  BY <1>1
<1>4. \A i \in 1..k : SubSeq(list, 1, k)[i] = list[i]
  BY <1>1
<1>5. SubSeq(list, 1, k) \in Seq(S)
  BY <1>1, <1>2
<1>. QED BY <1>3, <1>4, <1>5

\* What an append makes of a log: a row more, or a torn line that is lost with it.
LEMMA WriteIs ==
    ASSUME NEW S, NEW log \in Seq(S), NEW row \in S, Broken \in S
    PROVE  /\ Write(log, row) \in Seq(S)
           /\ ~OpenEnded(log) => Write(log, row) = Append(log, row)
           /\ OpenEnded(log) => /\ Len(log) \in 1..Len(log) /\ log[Len(log)].role = "torn"
                                /\ Len(Write(log, row)) = Len(log)
                                /\ Write(log, row)[Len(log)] = Broken
                                /\ \A i \in 1..Len(log) - 1 : Write(log, row)[i] = log[i]
<1>1. Len(log) \in Nat
  OBVIOUS
<1>2. CASE OpenEnded(log)
  <2>1. Len(log) \in 1..Len(log) /\ log[Len(log)].role = "torn"
    BY <1>1, <1>2 DEF OpenEnded, Last
  <2>2. Write(log, row) = [log EXCEPT ![Len(log)] = Broken]
    BY <1>2 DEF Write
  <2>3. log \in [1..Len(log) -> S]
    OBVIOUS
  <2>4. [log EXCEPT ![Len(log)] = Broken] \in [1..Len(log) -> S]
    BY <2>3
  <2>. DEFINE new == [log EXCEPT ![Len(log)] = Broken]
              n == Len(log)
  <2>5. new[n] = Broken /\ \A i \in 1..n - 1 : new[i] = log[i]
    <3>1. \A i \in 1..Len(log) - 1 : i \in 1..Len(log) /\ i # Len(log)
      BY <1>1
    <3>2. \A i \in 1..Len(log) : new[i] = IF i = Len(log) THEN Broken ELSE log[i]
      BY <2>3
    <3>. HIDE DEF new
    <3>. QED BY <2>1, <3>1, <3>2
  <2>. HIDE DEF new, n
  <2>6. new \in Seq(S) /\ Len(new) = n
    BY <1>1, <2>4 DEF n, new
  <2>. QED BY <1>2, <2>1, <2>2, <2>5, <2>6 DEF new, n
<1>3. CASE ~OpenEnded(log)
  BY <1>3 DEF Write
<1>. QED BY <1>2, <1>3

\* A line whose role is none of the logs' marks is a row.
LEMMA MarksAre ==
    /\ Torn.role = "torn" /\ Broken.role = "broken" /\ ~IsRow(Torn) /\ ~IsRow(Broken)
    /\ Torn.text = "plain" /\ Broken.text = "plain"
    /\ \A m \in MessageSet : IsRow(m) /\ m \in WireRow
    /\ Torn \in WireRow /\ Broken \in WireRow
    /\ Torn \in ViewRow /\ Broken \in ViewRow /\ Torn \in EventRow /\ Broken \in EventRow
<1>1. \A m \in MessageSet : m.role \in {"user", "view", "assistant", "tool"}
  BY DEF MessageSet
<1>. QED BY <1>1 DEF Torn, Broken, Row, IsRow, WireRow, ViewRow, EventRow

\* A whole log was whole before its last append, which took place.
LEMMA WholeWrite ==
    ASSUME NEW S, NEW log \in Seq(S), NEW row \in S, Broken \in S, Whole(Write(log, row))
    PROVE  /\ ~OpenEnded(log) /\ Whole(log) /\ Write(log, row) = Append(log, row)
           /\ IsRow(row) /\ row.text # "splits"
<1>1. Len(log) \in Nat
  OBVIOUS
<1>2. ~OpenEnded(log)
  <2>. SUFFICES ASSUME OpenEnded(log) PROVE FALSE
    OBVIOUS
  <2>1. /\ Write(log, row) \in Seq(S) /\ Len(log) \in 1..Len(log)
        /\ Len(Write(log, row)) = Len(log) /\ Write(log, row)[Len(log)] = Broken
    BY WriteIs
  <2>2. Write(log, row)[Len(log)] = Broken /\ Len(log) \in DOMAIN Write(log, row)
    BY <2>1
  <2>3. IsRow(Broken)
    BY <2>2 DEF Whole
  <2>. QED BY <2>3, MarksAre
<1>3. Write(log, row) = Append(log, row)
  BY <1>2, WriteIs
<1>4. \A i \in 1..Len(log) + 1 : IsRow(Append(log, row)[i]) /\ Append(log, row)[i].text # "splits"
  BY <1>1, <1>3 DEF Whole
<1>5. \A i \in 1..Len(log) : Append(log, row)[i] = log[i] /\ i \in 1..Len(log) + 1
  BY <1>1
<1>6. Append(log, row)[Len(log) + 1] = row /\ Len(log) + 1 \in 1..Len(log) + 1
  BY <1>1
<1>7. Whole(log)
  BY <1>4, <1>5 DEF Whole
<1>. QED BY <1>2, <1>3, <1>4, <1>6, <1>7

\* A killed append leaves nothing to read and a log that is not whole.
LEMMA TearIs ==
    ASSUME NEW S, NEW log \in Seq(S), Torn \in S
    PROVE  /\ Tear(log) \in Seq(S) /\ ~Whole(Tear(log))
           /\ OpenEnded(log) => Tear(log) = log
           /\ ~OpenEnded(log) => Tear(log) = Append(log, Torn)
<1>1. Len(log) \in Nat
  OBVIOUS
<1>2. CASE OpenEnded(log)
  <2>1. Tear(log) = log /\ Len(log) \in 1..Len(log) /\ log[Len(log)].role = "torn"
    BY <1>1, <1>2 DEF Tear, OpenEnded, Last
  <2>. QED BY <1>2, <2>1 DEF Whole, IsRow
<1>3. CASE ~OpenEnded(log)
  <2>1. Tear(log) = Append(log, Torn) /\ Append(log, Torn)[Len(log) + 1] = Torn
        /\ Len(log) + 1 \in DOMAIN Append(log, Torn)
    BY <1>1, <1>3 DEF Tear
  <2>2. ~Whole(Tear(log))
    BY <2>1, MarksAre DEF Whole
  <2>. QED BY <1>3, <2>1, <2>2
<1>. QED BY <1>2, <1>3

\* Where the marks are left out, one row is itself, or nothing.
LEMMA OneRow ==
    ASSUME NEW S, NEW roles, NEW texts, NEW row \in S
    PROVE  Leaving(roles, texts, <<row>>) = IF Drops(roles, texts, row) THEN <<>> ELSE <<row>>
<1>1. <<row>> \in Seq(S) /\ Len(<<row>>) = 1 /\ <<row>>[1] = row /\ 1..1 = {1}
  OBVIOUS
<1>2. CASE Drops(roles, texts, row)
  <2>1. \A i \in 1..Len(<<row>>) : Drops(roles, texts, <<row>>[i])
    BY <1>1, <1>2
  <2>. QED BY <1>1, <1>2, <2>1, LeavingNone
<1>3. CASE ~Drops(roles, texts, row)
  <2>1. \A i \in 1..Len(<<row>>) : ~Drops(roles, texts, <<row>>[i])
    BY <1>1, <1>3
  <2>. QED BY <1>1, <1>3, <2>1, LeavingAll
<1>. QED BY <1>2, <1>3

\* A row more is kept or left out by itself.
LEMMA LeavingMore ==
    ASSUME NEW S, NEW roles, NEW texts, NEW log \in Seq(S), NEW row \in S
    PROVE  Leaving(roles, texts, Append(log, row))
              = IF Drops(roles, texts, row) THEN Leaving(roles, texts, log)
                ELSE Append(Leaving(roles, texts, log), row)
<1>. DEFINE one == <<row>>
            some == Leaving(roles, texts, log)
<1>1. one \in Seq(S) /\ Append(log, row) = log \o one
  OBVIOUS
<1>2. Leaving(roles, texts, one) = IF Drops(roles, texts, row) THEN <<>> ELSE one
  BY OneRow
<1>3. some \in Seq(S)
  BY LeavingType
<1>4. \A x \in Seq(S) : x \o <<>> = x /\ x \o one = Append(x, row)
  OBVIOUS
<1>. HIDE DEF one
<1>5. Leaving(roles, texts, log \o one) = some \o Leaving(roles, texts, one)
  BY <1>1, LeavingJoin
<1>. HIDE DEF some
<1>6. some \o <<>> = some /\ some \o one = Append(some, row)
  BY <1>3, <1>4
<1>. QED BY <1>1, <1>2, <1>5, <1>6 DEF some

\* Whether a row can be read, and what an append adds to what is read.
LEMMA ReadableWrite ==
    ASSUME NEW S, NEW log \in Seq(S), NEW row \in S, Broken \in S
    PROVE  Readable(Write(log, row)) =
              IF OpenEnded(log) \/ ~IsRow(row) \/ row.text = "splits" THEN Readable(log)
              ELSE Append(Readable(log), row)
<1>. DEFINE R == {"torn", "broken"}
            X == {"splits"}
<1>0. \A r \in S : Drops(R, X, r) <=> ~IsRow(r) \/ r.text = "splits"
  BY DEF Drops, IsRow
<1>. HIDE DEF R, X
<1>1. CASE ~OpenEnded(log)
  <2>1. Write(log, row) = Append(log, row)
    BY <1>1, WriteIs
  <2>2. Leaving(R, X, Append(log, row)) = IF Drops(R, X, row) THEN Leaving(R, X, log)
                                          ELSE Append(Leaving(R, X, log), row)
    BY LeavingMore
  <2>. QED BY <1>0, <1>1, <2>1, <2>2 DEF Readable, R, X
<1>2. CASE OpenEnded(log)
  <2>. DEFINE n == Len(log)
              front == SubSeq(log, 1, n - 1)
              last == log[n]
              new == Write(log, row)
  <2>1. /\ n \in 1..n /\ last.role = "torn" /\ new \in Seq(S)
        /\ Len(new) = n /\ new[n] = Broken /\ \A i \in 1..n - 1 : new[i] = log[i]
    BY <1>2, WriteIs
  <2>. HIDE DEF new
  <2>2. n \in Nat /\ n > 0 /\ last \in S
    BY <2>1
  <2>2a. n - 1 \in 0..n
    BY <2>2
  <2>2b. front \in Seq(S) /\ Len(front) = n - 1 /\ \A i \in 1..n - 1 : front[i] = log[i]
    BY <2>2a, FrontIs
  <2>. HIDE DEF front
  <2>3. log = Append(front, last)
    <3>1. Append(front, last) \in Seq(S) /\ Len(Append(front, last)) = n
      BY <2>2, <2>2b
    <3>2. \A i \in 1..n : Append(front, last)[i] = log[i]
      BY <2>2, <2>2b
    <3>. QED BY <3>1, <3>2
  <2>4. new = Append(front, Broken)
    <3>1. Append(front, Broken) \in Seq(S) /\ Len(Append(front, Broken)) = n
      BY <2>2, <2>2b
    <3>2. \A i \in 1..n : Append(front, Broken)[i] = new[i]
      BY <2>1, <2>2, <2>2b
    <3>. HIDE DEF n
    <3>. QED BY <2>1, <3>1, <3>2
  <2>5. Drops(R, X, last) /\ Drops(R, X, Broken)
    BY <1>0, <2>1, <2>2, MarksAre DEF IsRow
  <2>. HIDE DEF last
  <2>6. Leaving(R, X, Append(front, last)) = Leaving(R, X, front)
    BY <2>2, <2>2b, <2>5, LeavingMore
  <2>7. Leaving(R, X, Append(front, Broken)) = Leaving(R, X, front)
    BY <2>2, <2>2b, <2>5, LeavingMore
  <2>. QED BY <1>2, <2>3, <2>4, <2>6, <2>7 DEF Readable, R, X, new
<1>. QED BY <1>1, <1>2

\* A killed append leaves what is read as it was.
LEMMA ReadableTear ==
    ASSUME NEW S, NEW log \in Seq(S), Torn \in S
    PROVE  Readable(Tear(log)) = Readable(log)
<1>. DEFINE R == {"torn", "broken"}
            X == {"splits"}
<1>1. Drops(R, X, Torn)
  BY MarksAre DEF Drops
<1>. HIDE DEF R, X
<1>2. CASE OpenEnded(log)
  BY <1>2, TearIs
<1>3. CASE ~OpenEnded(log)
  <2>1. Tear(log) = Append(log, Torn)
    BY <1>3, TearIs
  <2>2. Leaving(R, X, Append(log, Torn)) = Leaving(R, X, log)
    BY <1>1, LeavingMore
  <2>. QED BY <2>1, <2>2 DEF Readable, R, X
<1>. QED BY <1>2, <1>3

\* What is read of the wire are messages, all of it if it is whole.
LEMMA ReadableIs ==
    ASSUME NEW log \in Seq(WireRow)
    PROVE  /\ Readable(log) \in Seq(MessageSet)
           /\ \A i \in 1..Len(Readable(log)) : /\ Readable(log)[i].text # "splits"
                                               /\ \E j \in 1..Len(log) : Readable(log)[i] = log[j]
           /\ Whole(log) => Readable(log) = log
<1>. DEFINE R == {"torn", "broken"}
            X == {"splits"}
            some == Leaving(R, X, log)
<1>1. some \in Seq(WireRow)
  BY LeavingType
<1>2. \A i \in 1..Len(some) : ~Drops(R, X, some[i]) /\ \E j \in 1..Len(log) : some[i] = log[j]
  <2>. HIDE DEF R, X
  <2>. QED BY LeavingOf
<1>3. \A i \in 1..Len(some) : some[i] \in MessageSet /\ some[i].text # "splits"
  <2>. SUFFICES ASSUME NEW i \in 1..Len(some) PROVE some[i] \in MessageSet /\ some[i].text # "splits"
    OBVIOUS
  <2>1. some[i] \in WireRow /\ ~Drops(R, X, some[i])
    BY <1>1, <1>2
  <2>. HIDE DEF some
  <2>. QED BY <2>1, MarksAre DEF Drops, WireRow
<1>4. some \in Seq(MessageSet)
  <2>. HIDE DEF some
  <2>. QED BY <1>1, <1>3
<1>5. Whole(log) => some = log
  <2>. SUFFICES ASSUME Whole(log) PROVE some = log
    OBVIOUS
  <2>1. \A i \in 1..Len(log) : ~Drops(R, X, log[i])
    BY DEF Whole, Drops, IsRow
  <2>. HIDE DEF R, X
  <2>. QED BY <2>1, LeavingAll
<1>6. Readable(log) = some
  BY DEF Readable
<1>. HIDE DEF some
<1>. QED BY <1>2, <1>3, <1>4, <1>5, <1>6
--------------------------------------------------------------------------------
(* The types of an episode.                                                *)

Outcomes  == {"none", "cut_off", "failed", "raised"} \cup Terminals
Places    == {"down", "open", "top", "drain", "think", "nudge", "door", "act", "answer",
              "exit", "unwind", "conclude", "gone", "ended"}
Hearings  == {"never", "no", "stale", "yes"}
CallSet   == [tool : Tools, id : Nat, at : {"asked", "drawn", "half", "done", "raised"},
              name : Nat, says : Words, text : Texts]

\* The files, the conversation and the calls.
RecordTypes ==
    /\ wire \in Seq(WireRow) /\ views \in Seq(ViewRow) /\ events \in Seq(EventRow)
    /\ messages \in Seq(MessageSet)
    /\ batch \in Seq(CallSet) /\ answered \in 0..Len(batch)

\* The counters and the flags of the loop.
CounterTypes ==
    /\ concl \in Outcomes /\ outcome \in Outcomes
    /\ heard \in Hearings /\ hand \in BOOLEAN /\ loose \subseteq {"job", "hand"} /\ knocked \in BOOLEAN
    /\ time \in {"ample", "short", "spent"}
    /\ idleTurns \in 0..MaxIdle - 1 /\ refusals \in 0..MaxRefusals
    /\ jobs \in [1..MaxJobs -> {"free", "running", "exited"}]
    /\ size \in Sizes /\ turns \in 0..size.turns /\ stops \in 0..size.stops
    /\ step \in 1..size.steps + 1

\* Where the process is, and what it has at hand there.
PlaceTypes ==
    /\ pc \in Places
    /\ pc \in {"drain", "think", "nudge", "door", "act", "answer"} => step <= size.steps
    /\ pc \in {"open", "top", "drain", "think", "nudge"} => batch = <<>>
    /\ pc = "door" => Len(batch) = 1 /\ answered = 0 /\ batch[1].tool \in Terminals
    /\ pc \in {"down", "ended"} => messages = <<>> /\ batch = <<>> /\ outcome = "none" /\ opened = 0
    /\ opened \in 0..2
    /\ pc = "open" => opened <= Len(messages) /\ Len(messages) <= 2

EpisodeTypes == RecordTypes /\ CounterTypes /\ PlaceTypes

\* The bounds of a run are naturals, its tools and texts known.
LEMMA SizeIs ==
    ASSUME size \in Sizes
    PROVE  /\ size.turns \in Nat /\ size.stops \in Nat /\ size.steps \in Nat /\ size.width \in Nat
           /\ size.tools \subseteq Tools /\ size.texts \subseteq Texts
           /\ MaxIdle \in Nat \ {0} /\ MaxRefusals \in Nat /\ MaxJobs \in Nat
           /\ size.turns <= MaxTurns /\ MaxTurns \in Nat /\ Keep \in Nat \ {0}
BY ConversationAssumption

\* A message is added to both copies of the conversation.
LEMMA EmitType ==
    ASSUME wire \in Seq(WireRow), messages \in Seq(MessageSet), NEW m \in MessageSet, Emit(m)
    PROVE  /\ wire' \in Seq(WireRow) /\ messages' \in Seq(MessageSet)
           /\ Len(messages') = Len(messages) + 1 /\ wire' = Write(wire, m)
           /\ messages' = Append(messages, m)
<1>1. m \in WireRow /\ Broken \in WireRow
  BY MarksAre
<1>2. Write(wire, m) \in Seq(WireRow)
  BY <1>1, WriteIs
<1>. QED BY <1>2 DEF Emit

\* Compaction leaves the conversation, or its framing and what comes from a turn on.
LEMMA CompactedIs ==
    ASSUME NEW ms \in Seq(MessageSet), NEW some \in Compacted(ms)
    PROVE  /\ some \in Seq(MessageSet)
           /\ \/ some = ms /\ \A i \in 1..Len(ms) : ~IsTurn(ms[i])
              \/ \E i \in 1..Len(ms) :
                    /\ IsTurn(ms[i])
                    /\ some = SubSeq(ms, 1, FirstTurn(ms) - 1) \o SubSeq(ms, i, Len(ms))
<1>. DEFINE begins == {i \in DOMAIN ms : IsTurn(ms[i])}
<1>1. DOMAIN ms = 1..Len(ms) /\ Len(ms) \in Nat
  OBVIOUS
<1>2. CASE begins = {}
  <2>1. some = ms
    BY <1>2 DEF Compacted
  <2>. QED BY <1>1, <1>2, <2>1
<1>3. CASE begins # {}
  <2>1. PICK i \in begins :
               some = SubSeq(ms, 1, FirstTurn(ms) - 1) \o SubSeq(ms, i, Len(ms))
    BY <1>3 DEF Compacted
  <2>2. i \in 1..Len(ms) /\ IsTurn(ms[i]) /\ i \in 1..Len(ms) + 1
    BY <1>1
  <2>3. FirstTurn(ms) \in 1..Len(ms) + 1
    BY FirstTurnIs
  <2>4. SubSeq(ms, 1, FirstTurn(ms) - 1) \in Seq(MessageSet)
    BY <2>3, CutIs
  <2>5. SubSeq(ms, i, Len(ms)) \in Seq(MessageSet)
    BY <2>2, CutIs
  <2>6. \A a, b \in Seq(MessageSet) : a \o b \in Seq(MessageSet)
    BY JoinIs
  <2>7. some \in Seq(MessageSet)
    BY <2>1, <2>4, <2>5, <2>6
  <2>. QED BY <2>1, <2>2, <2>7
<1>. QED BY <1>2, <1>3

\* What a resume reads are messages.
LEMMA PriorIs ==
    ASSUME wire \in Seq(WireRow)
    PROVE  /\ Prior \in Seq(MessageSet) /\ Readable(wire) \in Seq(MessageSet)
           /\ Prior = Reading(Readable(wire)).out \o Interrupted(Reading(Readable(wire)).pending)
           /\ Reading(Readable(wire)) \in Reads0
BY ReadableIs, ReadingType DEF Prior

\* The greatest of some numbers up to a bound.
LEMMA Greatest ==
    ASSUME NEW n \in Nat, NEW S \in SUBSET (0..n), S # {}
    PROVE  Max(S) \in S /\ \A m \in S : m <= Max(S)
<1>1. \E m \in S : \A k \in S : m >= k
  <2>. DEFINE T == {k \in Nat : n - k \in S}
  <2>1. T \in SUBSET Nat /\ T # {}
    <3>1. PICK e \in S : TRUE
      OBVIOUS
    <3>2. n - e \in Nat /\ n - (n - e) = e
      OBVIOUS
    <3>. QED BY <3>1, <3>2
  <2>2. \E k \in T : \A l \in T : k <= l
    <3>. HIDE DEF T
    <3>. QED BY <2>1, LeastOf
  <2>3. PICK k \in T : \A l \in T : k <= l
    BY <2>2
  <2>4. n - k \in S
    OBVIOUS
  <2>5. ASSUME NEW e \in S PROVE n - k >= e
    <3>1. e \in 0..n /\ n - e \in Nat /\ n - (n - e) = e
      OBVIOUS
    <3>2. n - e \in T
      BY <3>1
    <3>3. k <= n - e /\ k \in Nat
      BY <2>3, <3>2
    <3>. QED BY <3>1, <3>3
  <2>. QED BY <2>4, <2>5
<1>2. Max(S) \in S /\ \A k \in S : Max(S) >= k
  BY <1>1 DEF Max
<1>. QED BY <1>2

\* The rows of the research memory have a name each.
LEMMA EventIs ==
    ASSUME NEW rows \in Seq(EventRow)
    PROVE  /\ Len(rows) \in Nat /\ DOMAIN rows = 1..Len(rows)
           /\ \A i \in 1..Len(rows) : rows[i] \in EventRow /\ rows[i].name \in Nat
<1>1. \A r \in EventRow : r.name \in Nat
  BY DEF EventRow
<1>2. Len(rows) \in Nat /\ DOMAIN rows = 1..Len(rows) /\ \A i \in 1..Len(rows) : rows[i] \in EventRow
  OBVIOUS
<1>. QED BY <1>1, <1>2

\* The rows of a list have names up to some number.
LEMMA NamesBounded ==
    ASSUME NEW rows \in Seq(EventRow)
    PROVE  \E n \in Nat : \A i \in 1..Len(rows) : rows[i].name <= n
<1>. DEFINE Bounded(k) == \E n \in Nat : \A i \in 1..k : rows[i].name <= n
            Up == {k \in Nat : Bounded(k)}
<1>1. Len(rows) \in Nat /\ \A i \in 1..Len(rows) : rows[i].name \in Nat
  BY EventIs
<1>2. Bounded(0)
  <2>1. 0 \in Nat /\ \A i \in 1..0 : rows[i].name <= 0
    OBVIOUS
  <2>. QED BY <2>1
<1>3. ASSUME NEW k \in Nat, k < Len(rows), Bounded(k) PROVE Bounded(k + 1)
  <2>1. PICK n \in Nat : \A i \in 1..k : rows[i].name <= n
    BY <1>3
  <2>. DEFINE e == rows[k + 1].name
              top == IF n < e THEN e ELSE n
  <2>2. e \in Nat
    <3>1. k + 1 \in 1..Len(rows)
      BY <1>1, <1>3
    <3>. QED BY <1>1, <3>1
  <2>3. top \in Nat /\ n <= top /\ e <= top
    BY <2>2
  <2>. HIDE DEF top
  <2>4. ASSUME NEW i \in 1..k + 1 PROVE rows[i].name <= top
    <3>1. i = k + 1 \/ (i \in 1..k /\ i \in 1..Len(rows))
      BY <1>1, <1>3
    <3>2. CASE i = k + 1
      BY <2>3, <3>2
    <3>3. CASE i \in 1..k /\ i \in 1..Len(rows)
      <4>1. rows[i].name <= n /\ rows[i].name \in Nat
        BY <1>1, <2>1, <3>3
      <4>. QED BY <2>3, <4>1
    <3>. QED BY <3>1, <3>2, <3>3
  <2>. QED BY <2>3, <2>4
<1>. HIDE DEF Bounded
<1>4. Bounded(Len(rows))
  <2>1. Up \in SUBSET Nat /\ 0 \in Up /\ \A n \in Nat : n < Len(rows) /\ n \in Up => n + 1 \in Up
    BY <1>2, <1>3
  <2>2. \A n \in 0..Len(rows) : n \in Up
    <3>. HIDE DEF Up
    <3>. QED BY <1>1, <2>1, Climbs
  <2>. QED BY <1>1, <2>2
<1>. QED BY <1>4 DEF Bounded

\* The name of the next item is a natural above every item's.
LEMMA NextItemIs ==
    ASSUME events \in Seq(EventRow)
    PROVE  NextItem \in Nat /\ Items \in SUBSET Nat /\ \A n \in Items : n < NextItem
<1>1. PICK n \in Nat : \A i \in 1..Len(events) : events[i].name <= n
  BY NamesBounded
<1>2. DOMAIN events = 1..Len(events) /\ \A i \in 1..Len(events) : events[i].name \in Nat
  BY EventIs
<1>3. \A e \in Items : e \in 0..n
  BY <1>1, <1>2 DEF Items
<1>. DEFINE S == Items \cup {0}
<1>4. S \in SUBSET (0..n) /\ S # {}
  BY <1>3
<1>. HIDE DEF S
<1>5. Max(S) \in S /\ \A m \in S : m <= Max(S)
  BY <1>4, Greatest
<1>6. Max(S) \in Nat /\ \A e \in Items : e \in Nat /\ e <= Max(S)
  <2>1. \A e \in S : e \in 0..n
    BY <1>3 DEF S
  <2>2. Max(S) \in 0..n
    BY <1>5, <2>1
  <2>3. \A e \in Items : e \in S
    BY DEF S
  <2>. QED BY <1>3, <1>5, <2>2, <2>3
<1>7. NextItem = 1 + Max(S)
  BY DEF NextItem, S
<1>. QED BY <1>6, <1>7

\* One call of the turn is moved and no other.
LEMMA OneMoved ==
    ASSUME batch \in Seq(CallSet), NEW k \in DOMAIN batch, NEW c \in CallSet,
           batch' = [batch EXCEPT ![k] = c]
    PROVE  /\ batch' \in Seq(CallSet) /\ Len(batch') = Len(batch) /\ DOMAIN batch' = DOMAIN batch
           /\ batch'[k] = c /\ \A j \in DOMAIN batch : j # k => batch'[j] = batch[j]
<1>1. batch \in [1..Len(batch) -> CallSet] /\ Len(batch) \in Nat /\ DOMAIN batch = 1..Len(batch)
  OBVIOUS
<1>2. [batch EXCEPT ![k] = c] \in [1..Len(batch) -> CallSet]
  BY <1>1
<1>3. batch' \in Seq(CallSet) /\ Len(batch') = Len(batch)
  BY <1>1, <1>2
<1>. QED BY <1>1, <1>2, <1>3

\* A call in another stage, with another name or another thing said, is a call.
LEMMA CallIs ==
    ASSUME NEW c \in CallSet, NEW at \in {"asked", "drawn", "half", "done", "raised"},
           NEW name \in Nat, NEW says \in Words, NEW text \in Texts
    PROVE  /\ [c EXCEPT !.at = at] \in CallSet
           /\ [c EXCEPT !.at = at, !.name = name] \in CallSet
           /\ [c EXCEPT !.at = at, !.says = says] \in CallSet
           /\ [c EXCEPT !.at = at, !.text = text] \in CallSet
BY DEF CallSet

\* A call that is done.
LEMMA DoneIs ==
    ASSUME batch \in Seq(CallSet), NEW k \in DOMAIN batch, NEW says \in Words, Done(k, says)
    PROVE  /\ batch' \in Seq(CallSet) /\ Len(batch') = Len(batch) /\ DOMAIN batch' = DOMAIN batch
           /\ batch'[k].at = "done" /\ batch'[k].says = says /\ batch'[k].name = batch[k].name
           /\ batch'[k].tool = batch[k].tool /\ batch'[k].id = batch[k].id /\ batch'[k].text = batch[k].text
           /\ \A j \in DOMAIN batch : j # k => batch'[j] = batch[j]
<1>. DEFINE c == [batch[k] EXCEPT !.at = "done", !.says = says]
<1>1. batch[k] \in CallSet
  OBVIOUS
<1>2. /\ c \in CallSet /\ c.at = "done" /\ c.says = says /\ c.name = batch[k].name
      /\ c.tool = batch[k].tool /\ c.id = batch[k].id /\ c.text = batch[k].text
  BY <1>1 DEF CallSet
<1>3. batch' = [batch EXCEPT ![k] = c]
  BY DEF Done
<1>. HIDE DEF c
<1>. QED BY <1>2, <1>3, OneMoved
--------------------------------------------------------------------------------
(* What the calls of a turn change.                                        *)

\* A call has moved and kept its tool and its number; no other has moved.
Moved(k) ==
    /\ batch' \in Seq(CallSet) /\ Len(batch') = Len(batch) /\ DOMAIN batch' = DOMAIN batch
    /\ batch'[k].tool = batch[k].tool /\ batch'[k].id = batch[k].id
    /\ \A j \in DOMAIN batch : j # k => batch'[j] = batch[j]

\* The ways a call may move, with what each does to the records.
Settles(k) ==
    /\ batch[k].at = "asked" /\ batch'[k].at \in {"done", "raised"} /\ batch'[k].name = batch[k].name
    /\ batch'[k].says \notin {"created", "revised"} \/ batch'[k].says = batch[k].says
    /\ UNCHANGED <<views, events>>
Draws(k) ==
    /\ batch[k].at = "asked" /\ RecordFree
    /\ batch'[k].at = "drawn" /\ batch'[k].says = batch[k].says
    /\ batch[k].tool = "create" => batch'[k].name = NextItem
    /\ batch[k].tool \in {"create", "view"}
    /\ UNCHANGED <<views, events>>
Writes(k) ==
    \/ /\ batch[k].at = "drawn" /\ batch[k].tool = "create" /\ batch'[k].at = "done"
       /\ batch'[k].says = "created" /\ batch'[k].name = batch[k].name
       /\ events' = Write(events, Row("create", batch[k].name, "plain")) /\ UNCHANGED views
    \/ /\ batch[k].at = "drawn" /\ batch[k].tool = "view" /\ batch'[k].at = "done"
       /\ batch'[k].says = "revised" /\ batch'[k].name = batch[k].name
       /\ views' = Write(views, Row("view", batch[k].name, "plain")) /\ UNCHANGED events
Updates(k) ==
    /\ UNCHANGED views
    /\ \/ /\ batch[k].at = "asked" /\ RecordFree /\ batch'[k].at = "half"
          /\ batch'[k].says = batch[k].says
          /\ \E i \in Items : events' = Write(events, Row("revise", i, "plain"))
       \/ /\ batch[k].at = "half" /\ batch'[k].at = "done" /\ batch'[k].says = "updated"
          /\ events' = Write(events, Row("status", batch[k].name, "plain"))

\* A call does nothing else to the process than to its own result.
LEMMA CallFrame ==
    ASSUME NEW k, CallStep(k)
    PROVE  /\ pc = "act" /\ k \in DOMAIN batch
           /\ UNCHANGED <<wire, concl, loop, answered, loose, pc, time, turns, stops, size>>
<1>1. CASE \E text \in size.texts : Look(k, text)
  BY <1>1 DEF Look, At, files, world
<1>2. CASE LookRaises(k)
  BY <1>2 DEF LookRaises, At, files, world
<1>3. CASE Edit(k)
  BY <1>3 DEF Edit, At, files
<1>4. CASE Review(k)
  BY <1>4 DEF Review, At, files
<1>12. CASE Engage(k)
  BY <1>12 DEF Engage, At, files
<1>5. CASE Background(k)
  BY <1>5 DEF Background, At, files
<1>6. CASE NotAlone(k)
  BY <1>6 DEF NotAlone, At, files, world
<1>7. CASE Draw(k)
  BY <1>7 DEF Draw, At, files, world
<1>8. CASE Create(k)
  BY <1>8 DEF Create, At, world
<1>9. CASE Revise(k)
  BY <1>9 DEF Revise, At, world
<1>10. CASE Update(k)
  BY <1>10 DEF Update, At, world
<1>11. CASE Restatus(k)
  BY <1>11 DEF Restatus, At, world
<1>. QED BY <1>1, <1>2, <1>3, <1>4, <1>5, <1>6, <1>7, <1>8, <1>9, <1>10, <1>11, <1>12 DEF CallStep

\* The jobs and the look back stay of their kinds.
LEMMA CallWorld ==
    ASSUME EpisodeTypes, NEW k, CallStep(k)
    PROVE  heard' \in Hearings /\ hand' \in BOOLEAN /\ jobs' \in [1..MaxJobs -> {"free", "running", "exited"}]
<1>. USE DEF EpisodeTypes, CounterTypes
<1>1. CASE \E text \in size.texts : Look(k, text)
  BY <1>1 DEF Look, world
<1>2. CASE LookRaises(k)
  BY <1>2 DEF LookRaises, world
<1>3. CASE Edit(k)
  BY <1>3 DEF Edit, Changed, Hearings
<1>4. CASE Review(k)
  BY <1>4 DEF Review, Hearings
<1>12. CASE Engage(k)
  BY <1>12 DEF Engage
<1>5. CASE Background(k)
  BY <1>5 DEF Background
<1>6. CASE NotAlone(k)
  BY <1>6 DEF NotAlone, world
<1>7. CASE Draw(k)
  BY <1>7 DEF Draw, world
<1>8. CASE Create(k)
  BY <1>8 DEF Create, world
<1>9. CASE Revise(k)
  BY <1>9 DEF Revise, world
<1>10. CASE Update(k)
  BY <1>10 DEF Update, world
<1>11. CASE Restatus(k)
  BY <1>11 DEF Restatus, world
<1>. QED BY <1>1, <1>2, <1>3, <1>4, <1>5, <1>6, <1>7, <1>8, <1>9, <1>10, <1>11, <1>12 DEF CallStep

\* A call that is done at once settles.
LEMMA DoneSettles ==
    ASSUME batch \in Seq(CallSet), NEW k \in DOMAIN batch, batch[k].at = "asked",
           NEW says \in Words \ {"created", "revised"}, Done(k, says), UNCHANGED <<views, events>>
    PROVE  Moved(k) /\ Settles(k)
<1>1. says \in Words
  OBVIOUS
<1>2. /\ batch' \in Seq(CallSet) /\ Len(batch') = Len(batch) /\ DOMAIN batch' = DOMAIN batch
      /\ batch'[k].at = "done" /\ batch'[k].says = says /\ batch'[k].name = batch[k].name
      /\ batch'[k].tool = batch[k].tool /\ batch'[k].id = batch[k].id
      /\ \A j \in DOMAIN batch : j # k => batch'[j] = batch[j]
  BY <1>1, DoneIs
<1>. QED BY <1>2 DEF Moved, Settles

\* Every call moves in one of these ways.
LEMMA CallMoves ==
    ASSUME EpisodeTypes, NEW k, CallStep(k)
    PROVE  /\ k \in DOMAIN batch /\ Moved(k)
           /\ Settles(k) \/ Draws(k) \/ Writes(k) \/ Updates(k)
<1>0. /\ batch \in Seq(CallSet) /\ events \in Seq(EventRow) /\ views \in Seq(ViewRow)
      /\ size \in Sizes /\ k \in DOMAIN batch
  BY CallFrame DEF EpisodeTypes, RecordTypes, CounterTypes
<1>0a. batch[k] \in CallSet
  BY <1>0
<1>0b. /\ "done" \in Words \ {"created", "revised"} /\ "full" \in Words \ {"created", "revised"}
       /\ "alone" \in Words \ {"created", "revised"} /\ "unknown" \in Words \ {"created", "revised"}
       /\ "created" \in Words /\ "revised" \in Words /\ "updated" \in Words
  BY DEF Words
<1>1. CASE \E text \in size.texts : Look(k, text)
  <2>1. PICK text \in size.texts : Look(k, text)
    BY <1>1
  <2>. DEFINE c == [batch[k] EXCEPT !.at = "done", !.text = text]
  <2>2. text \in Texts
    BY <1>0, SizeIs
  <2>3. /\ c \in CallSet /\ c.at = "done" /\ c.says = batch[k].says /\ c.name = batch[k].name
        /\ c.tool = batch[k].tool /\ c.id = batch[k].id
    BY <1>0a, <2>2 DEF CallSet
  <2>4. batch' = [batch EXCEPT ![k] = c]
    BY <2>1 DEF Look
  <2>. HIDE DEF c
  <2>5. Moved(k) /\ batch'[k] = c
    BY <1>0, <2>3, <2>4, OneMoved DEF Moved
  <2>6. batch[k].at = "asked" /\ UNCHANGED <<views, events>>
    BY <2>1 DEF Look, At, files
  <2>. QED BY <1>0, <2>3, <2>5, <2>6 DEF Settles
<1>2. CASE LookRaises(k)
  <2>. DEFINE c == [batch[k] EXCEPT !.at = "raised"]
  <2>3. /\ c \in CallSet /\ c.at = "raised" /\ c.says = batch[k].says /\ c.name = batch[k].name
        /\ c.tool = batch[k].tool /\ c.id = batch[k].id
    BY <1>0a DEF CallSet
  <2>4. batch' = [batch EXCEPT ![k] = c]
    BY <1>2 DEF LookRaises
  <2>. HIDE DEF c
  <2>5. Moved(k) /\ batch'[k] = c
    BY <1>0, <2>3, <2>4, OneMoved DEF Moved
  <2>6. batch[k].at = "asked" /\ UNCHANGED <<views, events>>
    BY <1>2 DEF LookRaises, At, files
  <2>. QED BY <1>0, <2>3, <2>5, <2>6 DEF Settles
<1>3. CASE Edit(k)
  <2>1. Done(k, "done") /\ batch[k].at = "asked" /\ UNCHANGED <<views, events>>
    BY <1>3 DEF Edit, At, files
  <2>. QED BY <1>0, <1>0b, <2>1, DoneSettles
<1>4. CASE Review(k)
  <2>1. Done(k, "done") /\ batch[k].at = "asked" /\ UNCHANGED <<views, events>>
    BY <1>4 DEF Review, At, files
  <2>. QED BY <1>0, <1>0b, <2>1, DoneSettles
<1>12. CASE Engage(k)
  <2>1. Done(k, "done") /\ batch[k].at = "asked" /\ UNCHANGED <<views, events>>
    BY <1>12 DEF Engage, At, files
  <2>. QED BY <1>0, <1>0b, <2>1, DoneSettles
<1>5. CASE Background(k)
  <2>1. (Done(k, "done") \/ Done(k, "full")) /\ batch[k].at = "asked" /\ UNCHANGED <<views, events>>
    BY <1>5 DEF Background, At, files
  <2>2. CASE Done(k, "done")
    BY <1>0, <1>0b, <2>1, <2>2, DoneSettles
  <2>3. CASE Done(k, "full")
    BY <1>0, <1>0b, <2>1, <2>3, DoneSettles
  <2>. QED BY <2>1, <2>2, <2>3
<1>6. CASE NotAlone(k)
  <2>1. Done(k, "alone") /\ batch[k].at = "asked" /\ UNCHANGED <<views, events>>
    BY <1>6 DEF NotAlone, At, files
  <2>. QED BY <1>0, <1>0b, <2>1, DoneSettles
<1>7. CASE Draw(k)
  <2>. DEFINE name == IF Is(k, {"create"}) THEN NextItem ELSE NextRevision
              c == [batch[k] EXCEPT !.at = "drawn", !.name = name]
  <2>1. NextRevision \in Nat
    <3>1. Readable(views) \in Seq(ViewRow)
      BY <1>0, LeavingType DEF Readable
    <3>2. Len(Readable(views)) \in Nat
      BY <3>1
    <3>. QED BY <3>2 DEF NextRevision
  <2>2. name \in Nat /\ (batch[k].tool = "create" => name = NextItem)
    BY <1>0, <2>1, NextItemIs DEF Is
  <2>2a. batch' = [batch EXCEPT ![k] = c]
    BY <1>7 DEF Draw
  <2>. HIDE DEF name
  <2>3. /\ c \in CallSet /\ c.at = "drawn" /\ c.says = batch[k].says /\ c.name = name
        /\ c.tool = batch[k].tool /\ c.id = batch[k].id
    BY <1>0a, <2>2 DEF CallSet
  <2>. HIDE DEF c
  <2>5. Moved(k) /\ batch'[k] = c
    BY <1>0, <2>3, <2>2a, OneMoved DEF Moved
  <2>6. batch[k].at = "asked" /\ RecordFree /\ batch[k].tool \in {"create", "view"} /\ UNCHANGED <<views, events>>
    BY <1>7 DEF Draw, At, Is, files
  <2>. QED BY <1>0, <2>2, <2>3, <2>5, <2>6 DEF Draws
<1>8. CASE Create(k)
  <2>1. /\ Done(k, "created") /\ batch[k].at = "drawn" /\ batch[k].tool = "create"
        /\ events' = Write(events, Row("create", batch[k].name, "plain")) /\ UNCHANGED views
    BY <1>8 DEF Create, At, Is
  <2>. QED BY <1>0, <1>0b, <2>1, DoneIs DEF Moved, Writes
<1>9. CASE Revise(k)
  <2>1. /\ Done(k, "revised") /\ batch[k].at = "drawn" /\ batch[k].tool = "view"
        /\ views' = Write(views, Row("view", batch[k].name, "plain")) /\ UNCHANGED events
    BY <1>9 DEF Revise, At, Is
  <2>. QED BY <1>0, <1>0b, <2>1, DoneIs DEF Moved, Writes
<1>10. CASE Update(k)
  <2>1. batch[k].at = "asked" /\ RecordFree /\ UNCHANGED views
    BY <1>10 DEF Update, At
  <2>2. CASE Items = {}
    <3>1. Done(k, "unknown") /\ UNCHANGED events
      BY <1>10, <2>2 DEF Update
    <3>. QED BY <1>0, <1>0b, <2>1, <3>1, DoneSettles
  <2>3. CASE Items # {}
    <3>1. PICK i \in Items : /\ events' = Write(events, Row("revise", i, "plain"))
                             /\ batch' = [batch EXCEPT ![k].at = "half", ![k].name = i]
      BY <1>10, <2>3 DEF Update
    <3>. DEFINE c == [batch[k] EXCEPT !.at = "half", !.name = i]
    <3>2. i \in Nat
      BY <1>0, NextItemIs
    <3>3. /\ c \in CallSet /\ c.at = "half" /\ c.says = batch[k].says
          /\ c.tool = batch[k].tool /\ c.id = batch[k].id
      BY <1>0a, <3>2 DEF CallSet
    <3>4. batch' = [batch EXCEPT ![k] = c]
      BY <3>1
    <3>. HIDE DEF c
    <3>5. Moved(k) /\ batch'[k] = c
      BY <1>0, <3>3, <3>4, OneMoved DEF Moved
    <3>. QED BY <1>0, <2>1, <3>1, <3>3, <3>5 DEF Updates
  <2>. QED BY <2>2, <2>3
<1>11. CASE Restatus(k)
  <2>1. /\ Done(k, "updated") /\ batch[k].at = "half"
        /\ events' = Write(events, Row("status", batch[k].name, "plain")) /\ UNCHANGED views
    BY <1>11 DEF Restatus, At
  <2>. QED BY <1>0, <1>0b, <2>1, DoneIs DEF Moved, Updates
<1>. QED BY <1>1, <1>2, <1>3, <1>4, <1>5, <1>6, <1>7, <1>8, <1>9, <1>10, <1>11, <1>12 DEF CallStep
--------------------------------------------------------------------------------
(* The types are kept.                                                     *)

\* A row about an item or a revision is a row of its log.
LEMMA RowsAre ==
    ASSUME NEW name \in Nat
    PROVE  /\ Row("view", name, "plain") \in ViewRow
           /\ Row("create", name, "plain") \in EventRow
           /\ Row("revise", name, "plain") \in EventRow
           /\ Row("status", name, "plain") \in EventRow
BY DEF Row, ViewRow, EventRow

\* The kinds of the logs under an append and under a kill.
LEMMA LogTypes ==
    ASSUME RecordTypes
    PROVE  /\ \A m \in MessageSet : Write(wire, m) \in Seq(WireRow)
           /\ \A r \in ViewRow : Write(views, r) \in Seq(ViewRow)
           /\ \A r \in EventRow : Write(events, r) \in Seq(EventRow)
           /\ Tear(wire) \in Seq(WireRow) /\ Tear(views) \in Seq(ViewRow) /\ Tear(events) \in Seq(EventRow)
<1>1. wire \in Seq(WireRow) /\ views \in Seq(ViewRow) /\ events \in Seq(EventRow)
  BY DEF RecordTypes
<1>2. ASSUME NEW m \in MessageSet PROVE Write(wire, m) \in Seq(WireRow)
  <2>1. m \in WireRow /\ Broken \in WireRow
    BY MarksAre
  <2>. QED BY <1>1, <2>1, WriteIs
<1>3. ASSUME NEW r \in ViewRow PROVE Write(views, r) \in Seq(ViewRow)
  BY <1>1, MarksAre, WriteIs
<1>4. ASSUME NEW r \in EventRow PROVE Write(events, r) \in Seq(EventRow)
  BY <1>1, MarksAre, WriteIs
<1>5. Tear(wire) \in Seq(WireRow)
  BY <1>1, MarksAre, TearIs
<1>6. Tear(views) \in Seq(ViewRow)
  BY <1>1, MarksAre, TearIs
<1>7. Tear(events) \in Seq(EventRow)
  BY <1>1, MarksAre, TearIs
<1>. QED BY <1>2, <1>3, <1>4, <1>5, <1>6, <1>7

\* The notes of the loop.
LEMMA NotesAre ==
    \A says \in {"opening", "resumed", "inherited", "knock", "pace", "job", "nudge", "report"} :
       /\ says \in Words /\ Note(says) \in MessageSet /\ Note(says).says = says
       /\ Note(says).role = "user" /\ Note(says).text = "plain" /\ Note(says).calls = <<>>
<1>1. \A says \in {"opening", "resumed", "inherited", "knock", "pace", "job", "nudge", "report"} : says \in Words
  BY DEF Words
<1>. QED BY <1>1, NoteIs

\* The view of the day takes its place in any conversation.
LEMMA UpsertedType ==
    ASSUME NEW ms \in Seq(MessageSet), NEW rows \in Seq(ViewRow)
    PROVE  Upserted(ms, rows) \in Seq(MessageSet)
BY UpsertedIs

\* The framing of a conversation that begins is one note, and perhaps a view.
LEMMA OpeningIs ==
    ASSUME NEW rows \in Seq(ViewRow)
    PROVE  /\ Opening \in Seq(MessageSet) /\ Upserted(Opening, rows) \in Seq(MessageSet)
           /\ Upserted(Opening, rows) = Opening \o Today(rows)
           /\ Len(Upserted(Opening, rows)) \in 1..2
           /\ \A i \in 1..Len(Upserted(Opening, rows)) :
                 /\ Upserted(Opening, rows)[i].role \in {"user", "view"}
                 /\ Upserted(Opening, rows)[i].text = "plain"
                 /\ Upserted(Opening, rows)[i].says \in {"opening", "view"}
<1>. DEFINE note == Note("opening")
            new == Upserted(Opening, rows)
            day == Today(rows)
<1>1. note \in MessageSet /\ note.role = "user" /\ note.text = "plain" /\ note.says = "opening"
  BY NotesAre
<1>2. Opening = <<note>>
  BY DEF Opening
<1>. HIDE DEF note
<1>3. Opening \in Seq(MessageSet) /\ Len(Opening) = 1 /\ Opening[1] = note
  BY <1>1, <1>2
<1>4. Leaving({"view"}, {"quotes"}, Opening) = Opening
  <2>1. \A i \in 1..Len(Opening) : ~Drops({"view"}, {"quotes"}, Opening[i])
    BY <1>1, <1>3 DEF Drops
  <2>. QED BY <1>3, <2>1, LeavingAll
<1>5. Parts(Opening, Opening, <<>>)
  <2>1. <<>> \in Seq(MessageSet) /\ Opening = Opening \o <<>> /\ Len(<<>>) = 0
    BY <1>3
  <2>2. Framed(Opening)
    BY <1>1, <1>3 DEF Framed
  <2>3. Starts(<<>>) /\ Viewless(<<>>)
    BY <2>1 DEF Starts, Viewless
  <2>. QED BY <1>3, <2>1, <2>2, <2>3 DEF Parts
<1>6. SubSeq(Opening, 1, FirstTurn(Opening) - 1) = Opening /\ SubSeq(Opening, FirstTurn(Opening), Len(Opening)) = <<>>
  BY <1>5, PartsAre
<1>7. new = Opening \o day \o <<>> /\ new \in Seq(MessageSet)
  BY <1>3, <1>4, <1>6, UpsertedIs, ZenonT(30)
<1>8. day \in Seq(MessageSet) /\ Len(day) \in 0..1
      /\ \A i \in 1..Len(day) : day[i].role = "view" /\ day[i].text = "plain" /\ day[i].says = "view"
  <2>1. Len(day) \in 0..1
    BY DEF Today
  <2>. QED BY <2>1, TodayIs
<1>. HIDE DEF day, new
<1>9. Opening \o day \in Seq(MessageSet) /\ new = Opening \o day
  BY <1>3, <1>7, <1>8
<1>10. Len(new) = 1 + Len(day) /\ new[1] = note /\ \A i \in 2..Len(new) : new[i] = day[i - 1]
  <2>. DEFINE n == Len(Opening)
  <2>1. /\ Len(Opening \o day) = n + Len(day)
        /\ \A i \in 1..n : (Opening \o day)[i] = Opening[i]
        /\ \A i \in n + 1..n + Len(day) : (Opening \o day)[i] = day[i - n]
    BY <1>3, <1>8, JoinIs
  <2>. HIDE DEF n
  <2>2. n = 1 /\ Opening[1] = note
    BY <1>3 DEF n
  <2>3. Len(new) = 1 + Len(day)
    BY <1>9, <2>1, <2>2
  <2>. QED BY <1>8, <1>9, <2>1, <2>2, <2>3
<1>11. \A i \in 2..Len(new) : i - 1 \in 1..Len(day)
  BY <1>8, <1>10
<1>12. ASSUME NEW i \in 1..Len(new)
       PROVE  new[i].role \in {"user", "view"} /\ new[i].text = "plain" /\ new[i].says \in {"opening", "view"}
  <2>1. CASE i = 1
    BY <1>1, <1>10, <2>1
  <2>2. CASE i \in 2..Len(new)
    BY <1>8, <1>10, <1>11, <2>2
  <2>. QED BY <1>8, <1>10, <2>1, <2>2
<1>13. Len(new) \in 1..2
  BY <1>8, <1>10
<1>. QED BY <1>3, <1>7, <1>9, <1>12, <1>13 DEF new, day

\* The calls a turn makes are numbered apart from all others, and asked.
LEMMA ActIs ==
    ASSUME EpisodeTypes, NEW n \in 1..size.width, NEW tools \in [1..n -> size.tools], NEW text \in size.texts,
           Act(tools, text)
    PROVE  /\ n \in Nat /\ Len(tools) = n /\ Ids(n) \in Seq(Nat) /\ Len(Ids(n)) = n /\ text \in Texts
           /\ Assistant(Ids(n), text) \in MessageSet /\ Emit(Assistant(Ids(n), text))
           /\ \A j, k \in 1..n : Ids(n)[j] = Ids(n)[k] => j = k
           /\ batch' \in Seq(CallSet) /\ Len(batch') = n /\ answered' = 0
           /\ \A k \in 1..n : /\ batch'[k].tool = tools[k] /\ batch'[k].id = Ids(n)[k]
                              /\ batch'[k].at = "asked" /\ batch'[k].says = "done"
<1>1. /\ size.width \in Nat /\ size.turns \in Nat /\ turns \in Nat /\ size.tools \subseteq Tools
      /\ size.texts \subseteq Texts /\ size \in Sizes
  BY SizeIs DEF EpisodeTypes, CounterTypes
<1>2. n \in Nat /\ Len(tools) = n /\ \A k \in 1..n : tools[k] \in Tools
  BY <1>1
<1>3. \A k \in 1..n : size.width * turns + k \in Nat
  BY <1>1, <1>2
<1>4. Ids(n) \in Seq(Nat) /\ Len(Ids(n)) = n /\ \A k \in 1..n : Ids(n)[k] = size.width * turns + k
  BY <1>2, <1>3 DEF Ids
<1>5. \A j, k \in 1..n : Ids(n)[j] = Ids(n)[k] => j = k
  <2>. DEFINE w == size.width * turns
  <2>1. w \in Nat
    BY <1>1
  <2>2. \A k \in 1..n : Ids(n)[k] = w + k
    BY <1>4
  <2>. HIDE DEF w
  <2>. QED BY <1>2, <2>1, <2>2
<1>6. /\ Emit(Assistant(Ids(n), text)) /\ answered' = 0
      /\ batch' = [k \in DOMAIN tools |-> Call(tools[k], Ids(n)[k])]
  BY <1>2 DEF Act
<1>7. text \in Texts /\ Assistant(Ids(n), text) \in MessageSet
  BY <1>1, <1>4, AssistantIs
<1>8. ASSUME NEW k \in 1..n
      PROVE  LET c == Call(tools[k], Ids(n)[k])
             IN c \in CallSet /\ c.tool = tools[k] /\ c.id = Ids(n)[k] /\ c.at = "asked" /\ c.says = "done"
  <2>1. tools[k] \in Tools /\ Ids(n)[k] \in Nat /\ "plain" \in Texts /\ "done" \in Words
    BY <1>2, <1>4, PlainIs DEF Words
  <2>. QED BY <2>1 DEF Call, CallSet
<1>9. DOMAIN tools = 1..n
  OBVIOUS
<1>. DEFINE c(k) == Call(tools[k], Ids(n)[k])
<1>10. batch' = [k \in 1..n |-> c(k)] /\ \A k \in 1..n : c(k) \in CallSet
  BY <1>6, <1>8, <1>9
<1>11. \A k \in 1..n : c(k).tool = tools[k] /\ c(k).id = Ids(n)[k] /\ c(k).at = "asked" /\ c(k).says = "done"
  BY <1>8
<1>. HIDE DEF c
<1>12. batch' \in Seq(CallSet) /\ Len(batch') = n /\ \A k \in 1..n : batch'[k] = c(k)
  BY <1>2, <1>10
<1>. QED BY <1>2, <1>4, <1>5, <1>6, <1>7, <1>11, <1>12

\* The result of the next call, and that of a refused exit, are messages.
LEMMA AnswersAre ==
    ASSUME RecordTypes
    PROVE  /\ \A k \in 1..Len(batch) : /\ batch[k] \in CallSet
                                       /\ Result(batch[k].id, batch[k].says, batch[k].name, batch[k].text) \in MessageSet
           /\ \A k \in 1..Len(batch) : \A says \in {"malformed", "unheard"} :
                 Result(batch[k].id, says, 0, "plain") \in MessageSet
<1>1. \A k \in 1..Len(batch) : batch[k] \in CallSet
  BY DEF RecordTypes
<1>2. \A c \in CallSet : c.id \in Nat /\ c.says \in Words /\ c.name \in Nat /\ c.text \in Texts
  BY DEF CallSet
<1>3. \A says \in {"malformed", "unheard"} : says \in Words
  BY DEF Words
<1>. QED BY <1>1, <1>2, <1>3, PlainIs, ResultIs

\* The messages of the loop are of their kind.
LEMMA EmitKeeps ==
    ASSUME RecordTypes, NEW m \in MessageSet, Emit(m)
    PROVE  wire' \in Seq(WireRow) /\ messages' \in Seq(MessageSet) /\ Len(messages') = Len(messages) + 1
BY EmitType DEF RecordTypes

\* The files, the conversation and the calls of a turn stay well typed through every step.
LEMMA RecordStep == ASSUME EpisodeTypes, EpisodeNext PROVE RecordTypes'
<1>0. RecordTypes
  BY DEF EpisodeTypes
<1>1. /\ wire \in Seq(WireRow) /\ views \in Seq(ViewRow) /\ events \in Seq(EventRow)
      /\ messages \in Seq(MessageSet) /\ batch \in Seq(CallSet) /\ answered \in 0..Len(batch)
  BY <1>0 DEF RecordTypes
<1>2. \A ms \in Seq(MessageSet) : Upserted(ms, views) \in Seq(MessageSet)
  BY <1>1, UpsertedType
<1>2a. \A ms \in Seq(MessageSet) : \A some \in Compacted(ms) : some \in Seq(MessageSet)
  BY CompactedIs
<1>3. <<>> \in Seq(CallSet) /\ <<>> \in Seq(MessageSet) /\ Len(<<>>) = 0 /\ 0 \in 0..0
  OBVIOUS
<1>. USE DEF RecordTypes
<1>4. CASE Resume
  <2>1. Append(Prior, Note("resumed")) \in Seq(MessageSet) /\ Note("resumed") \in MessageSet
    BY <1>1, PriorIs, NotesAre, AppendIs
  <2>2. messages' \in Seq(MessageSet)
    BY <1>2, <1>2a, <1>4, <2>1 DEF Resume
  <2>3. wire' \in Seq(WireRow)
    BY <1>0, <1>4, <2>1, LogTypes DEF Resume
  <2>. QED BY <1>1, <1>4, <2>2, <2>3 DEF Resume, calls
<1>5. CASE Begin
  <2>1. messages' \in Seq(MessageSet)
    BY <1>1, <1>5, OpeningIs DEF Begin
  <2>. QED BY <1>1, <1>5, <2>1 DEF Begin, files, calls
<1>6. CASE RecordOpening
  <2>1. CASE opened < Len(messages)
    <3>1. wire' = Write(wire, messages[opened + 1]) /\ UNCHANGED messages
      BY <1>6, <2>1 DEF RecordOpening
    <3>2. opened \in Nat
      BY DEF EpisodeTypes, PlaceTypes
    <3>3. messages[opened + 1] \in MessageSet
      BY <1>1, <2>1, <3>2
    <3>4. wire' \in Seq(WireRow)
      BY <1>0, <3>1, <3>3, LogTypes
    <3>. QED BY <1>1, <1>6, <3>1, <3>4 DEF RecordOpening, calls
  <2>2. CASE ~(opened < Len(messages))
    <3>1. Emit(Note("inherited")) \/ UNCHANGED <<messages, wire>>
      BY <1>6, <2>2 DEF RecordOpening
    <3>2. wire' \in Seq(WireRow) /\ messages' \in Seq(MessageSet)
      BY <1>0, <1>1, <3>1, NotesAre, EmitKeeps
    <3>. QED BY <1>1, <1>6, <3>2 DEF RecordOpening, calls
  <2>. QED BY <2>1, <2>2
<1>7. CASE Knock
  <2>1. wire' \in Seq(WireRow) /\ messages' \in Seq(MessageSet)
    BY <1>0, <1>7, NotesAre, EmitKeeps DEF Knock
  <2>. QED BY <1>1, <1>7, <2>1 DEF Knock, calls
<1>8. CASE CutOff
  BY <1>1, <1>8 DEF CutOff, files, calls
<1>9. CASE Pace
  <2>1. Emit(Note("pace")) \/ UNCHANGED <<messages, wire>>
    BY <1>9 DEF Pace
  <2>2. wire' \in Seq(WireRow) /\ messages' \in Seq(MessageSet)
    BY <1>0, <1>1, <2>1, NotesAre, EmitKeeps
  <2>. QED BY <1>1, <1>9, <2>2 DEF Pace, calls
<1>10. CASE Drained
  BY <1>1, <1>10 DEF Drained, files, loop, calls
<1>11. CASE DrainHand \/ \E j \in DOMAIN jobs : DrainJob(j)
  <2>1. wire' \in Seq(WireRow) /\ messages' \in Seq(MessageSet)
    BY <1>0, <1>11, NotesAre, EmitKeeps DEF DrainHand, DrainJob
  <2>. QED BY <1>1, <1>11, <2>1 DEF DrainHand, DrainJob, calls
<1>12. CASE ModelFails
  BY <1>1, <1>12 DEF ModelFails, files, calls
<1>13. CASE \E text \in size.texts : TalkOnly(text)
  <2>1. PICK text \in size.texts : TalkOnly(text)
    BY <1>13
  <2>2. text \in Texts
    BY SizeIs DEF EpisodeTypes, CounterTypes
  <2>3. Assistant(<<>>, text) \in MessageSet
    BY <2>2, PlainIs, AssistantIs
  <2>4. wire' \in Seq(WireRow) /\ messages' \in Seq(MessageSet)
    BY <1>0, <2>1, <2>3, EmitKeeps DEF TalkOnly
  <2>. QED BY <1>1, <2>1, <2>4 DEF TalkOnly, calls
<1>14. CASE \E text \in size.texts : \E n \in 1..size.width : \E tools \in [1..n -> size.tools] : Act(tools, text)
  <2>1. PICK text \in size.texts, n \in 1..size.width : \E tools \in [1..n -> size.tools] : Act(tools, text)
    BY <1>14
  <2>2. PICK tools \in [1..n -> size.tools] : Act(tools, text)
    BY <2>1
  <2>3. /\ n \in Nat /\ Assistant(Ids(n), text) \in MessageSet /\ Emit(Assistant(Ids(n), text))
        /\ batch' \in Seq(CallSet) /\ Len(batch') = n /\ answered' = 0
    BY <2>2, ActIs
  <2>4. wire' \in Seq(WireRow) /\ messages' \in Seq(MessageSet)
    BY <1>0, <2>3, EmitKeeps
  <2>5. views' = views /\ events' = events
    BY <2>2 DEF Act
  <2>. QED BY <1>1, <2>3, <2>4, <2>5
<1>15. CASE Nudge
  <2>1. wire' \in Seq(WireRow) /\ messages' \in Seq(MessageSet)
    BY <1>0, <1>15, NotesAre, EmitKeeps DEF Nudge
  <2>. QED BY <1>1, <1>15, <2>1 DEF Nudge, calls
<1>16. CASE Accept
  BY <1>1, <1>16 DEF Accept, files, calls
<1>17. CASE \E says \in {"malformed", "unheard"} : Refuse(says)
  <2>1. PICK says \in {"malformed", "unheard"} : Refuse(says)
    BY <1>17
  <2>2. Len(batch) = 1 /\ answered = 0
    BY <2>1 DEF Refuse, EpisodeTypes, PlaceTypes
  <2>3. Result(batch[1].id, says, 0, "plain") \in MessageSet
    BY <1>0, <2>2, AnswersAre
  <2>4. wire' \in Seq(WireRow) /\ messages' \in Seq(MessageSet)
    BY <1>0, <2>1, <2>3, EmitKeeps DEF Refuse
  <2>. QED BY <1>1, <1>3, <2>1, <2>2, <2>4 DEF Refuse
<1>18. CASE \E k \in DOMAIN batch : CallStep(k)
  <2>1. PICK k \in DOMAIN batch : CallStep(k)
    BY <1>18
  <2>2. wire' = wire /\ messages' = messages /\ answered' = answered
    BY <2>1, CallFrame DEF loop
  <2>3. batch' \in Seq(CallSet) /\ Len(batch') = Len(batch)
    BY <2>1, CallMoves DEF Moved
  <2>4. batch[k].name \in Nat
    <3>1. batch[k] \in CallSet
      BY <1>1
    <3>. QED BY <3>1 DEF CallSet
  <2>5. views' \in Seq(ViewRow)
    <3>1. views' = views \/ views' = Write(views, Row("view", batch[k].name, "plain"))
      BY <2>1, CallMoves DEF Settles, Draws, Writes, Updates
    <3>. QED BY <1>0, <1>1, <2>4, <3>1, RowsAre, LogTypes
  <2>6. events' \in Seq(EventRow)
    <3>1. \/ events' = events
          \/ events' = Write(events, Row("create", batch[k].name, "plain"))
          \/ events' = Write(events, Row("status", batch[k].name, "plain"))
          \/ \E i \in Items : events' = Write(events, Row("revise", i, "plain"))
      BY <2>1, CallMoves DEF Settles, Draws, Writes, Updates
    <3>2. \A i \in Items : i \in Nat
      BY <1>1, NextItemIs
    <3>. QED BY <1>0, <1>1, <2>4, <3>1, <3>2, RowsAre, LogTypes
  <2>. QED BY <1>1, <2>2, <2>3, <2>5, <2>6
<1>19. CASE Joined
  BY <1>1, <1>19 DEF Joined, files, calls
<1>20. CASE Answer
  <2>. DEFINE c == batch[answered + 1]
              m == Result(c.id, c.says, c.name, c.text)
  <2>1. answered + 1 \in 1..Len(batch) /\ answered + 1 \in 0..Len(batch)
    BY <1>1, <1>20 DEF Answer
  <2>2. m \in MessageSet
    BY <1>0, <2>1, AnswersAre
  <2>3. wire' = Write(wire, m) /\ (messages' = Append(messages, m) \/ messages' = Upserted(Append(messages, m), views))
    BY <1>20 DEF Answer
  <2>. HIDE DEF m
  <2>4. wire' \in Seq(WireRow)
    BY <1>0, <2>2, <2>3, LogTypes
  <2>5. messages' \in Seq(MessageSet)
    BY <1>1, <1>2, <2>2, <2>3, AppendIs
  <2>6. answered' = answered + 1 /\ UNCHANGED <<views, events, batch>>
    BY <1>20 DEF Answer
  <2>. QED BY <1>1, <2>1, <2>4, <2>5, <2>6
<1>21. CASE TurnOver
  <2>1. messages' \in Seq(MessageSet)
    BY <1>1, <1>2, <1>2a, <1>21 DEF TurnOver
  <2>. QED BY <1>1, <1>3, <1>21, <2>1 DEF TurnOver, files
<1>22. CASE Shutdown
  <2>1. Emit(Note("report")) \/ UNCHANGED <<messages, wire>>
    BY <1>22 DEF Shutdown
  <2>2. wire' \in Seq(WireRow) /\ messages' \in Seq(MessageSet)
    BY <1>0, <1>1, <2>1, NotesAre, EmitKeeps
  <2>. QED BY <1>1, <1>22, <2>2 DEF Shutdown, calls
<1>23. CASE Conclude
  BY <1>1, <1>3, <1>23 DEF Conclude, Leave
<1>24. CASE Gone
  BY <1>1, <1>3, <1>24 DEF Gone, Leave, files
<1>25. CASE Interrupt
  BY <1>1, <1>25 DEF Interrupt, files, loop, calls
<1>26. CASE Kill
  <2>1. /\ wire' = wire \/ wire' = Tear(wire)
        /\ views' = views \/ views' = Tear(views)
        /\ events' = events \/ events' = Tear(events)
    BY <1>26 DEF Kill
  <2>2. wire' \in Seq(WireRow) /\ views' \in Seq(ViewRow) /\ events' \in Seq(EventRow)
    BY <1>0, <1>1, <2>1, LogTypes
  <2>. QED BY <1>3, <1>26, <2>2 DEF Kill, Leave
<1>27. CASE Supervise
  BY <1>1, <1>27 DEF Supervise, loop, calls
<1>28. CASE Rest
  BY <1>1, <1>28 DEF Rest, episodeVars, files, loop, calls
<1>29. CASE LateWrites
  BY <1>1, <1>29 DEF LateWrites, files, loop, calls
<1>30. CASE Tick
  BY <1>1, <1>30 DEF Tick, files, loop, calls
<1>31. CASE \E j \in DOMAIN jobs : JobExits(j)
  BY <1>1, <1>31 DEF JobExits, files, loop, calls
<1>. QED BY <1>4, <1>5, <1>6, <1>7, <1>8, <1>9, <1>10, <1>11, <1>12, <1>13, <1>14, <1>15, <1>16, <1>17, <1>18,
            <1>19, <1>20, <1>21, <1>22, <1>23, <1>24, <1>25, <1>26, <1>27, <1>28, <1>29, <1>30, <1>31
         DEF EpisodeNext, Launch, Scientist, Stopping, TurnTop, Reply, Door, Finish

\* What is left of a process that has gone.
LEMMA LeaveIs ==
    ASSUME EpisodeTypes, Leave
    PROVE  /\ knocked' \in BOOLEAN /\ time' \in {"ample", "short", "spent"} /\ outcome' \in Outcomes
           /\ idleTurns' \in 0..MaxIdle - 1 /\ refusals' \in 0..MaxRefusals /\ step' \in 1..size.steps + 1
           /\ loose' \subseteq {"job", "hand"} /\ jobs' \in [1..MaxJobs -> {"free", "running", "exited"}]
           /\ messages' = <<>> /\ batch' = <<>> /\ outcome' = "none" /\ opened' = 0 /\ answered' = 0
<1>1. knocked' = FALSE /\ time' = "ample" /\ outcome' = "none" /\ idleTurns' = 0 /\ refusals' = 0 /\ step' = 1
  BY DEF Leave
<1>2. 0 \in 0..MaxIdle - 1 /\ 0 \in 0..MaxRefusals /\ 1 \in 1..size.steps + 1
  <2>1. size.steps \in Nat /\ MaxIdle \in Nat \ {0} /\ MaxRefusals \in Nat
    BY SizeIs DEF EpisodeTypes, CounterTypes
  <2>. QED BY <2>1
<1>3. loose' \subseteq {"job", "hand"}
  BY DEF Leave, Released, EpisodeTypes, CounterTypes
<1>4. jobs' \in [1..MaxJobs -> {"free", "running", "exited"}]
  BY DEF Leave, Released, EpisodeTypes, CounterTypes
<1>5. "none" \in Outcomes
  BY DEF Outcomes
<1>6. messages' = <<>> /\ batch' = <<>> /\ opened' = 0 /\ answered' = 0
  BY DEF Leave
<1>. QED BY <1>1, <1>2, <1>3, <1>4, <1>5, <1>6

\* The counters of a life, the conclusion and the registry stay within their bounds.
LEMMA CounterStep == ASSUME EpisodeTypes, EpisodeNext PROVE CounterTypes'
<1>1. /\ CounterTypes /\ size.turns \in Nat /\ size.stops \in Nat /\ size.steps \in Nat
      /\ MaxIdle \in Nat \ {0} /\ MaxRefusals \in Nat /\ PlaceTypes
  BY SizeIs DEF EpisodeTypes, CounterTypes
<1>. USE DEF CounterTypes, PlaceTypes, Outcomes, Terminals, Listening
<1>2. CASE Resume
  BY <1>1, <1>2 DEF Resume, Reconciled, files, loop, calls, world
<1>3. CASE Begin
  BY <1>1, <1>3 DEF Begin, Reconciled, files, loop, calls, world
<1>4. CASE RecordOpening
  BY <1>1, <1>4 DEF RecordOpening, files, loop, calls, world
<1>5. CASE Knock
  BY <1>1, <1>5 DEF Knock, files, loop, calls, world
<1>6. CASE CutOff
  BY <1>1, <1>6 DEF CutOff, files, loop, calls, world, Ends, Released
<1>7. CASE Pace
  BY <1>1, <1>7 DEF Pace, files, loop, calls, world
<1>8. CASE Drained
  BY <1>1, <1>8 DEF Drained, files, loop, calls, world
<1>9. CASE DrainHand \/ \E j \in DOMAIN jobs : DrainJob(j)
  BY <1>1, <1>9, ZenonT(30) DEF DrainHand, DrainJob, files, loop, calls, world
<1>10. CASE ModelFails
  BY <1>1, <1>10 DEF ModelFails, files, loop, calls, world, Ends, Released
<1>11. CASE \E text \in size.texts : TalkOnly(text)
  BY <1>1, <1>11 DEF TalkOnly, files, loop, calls, world
<1>12. CASE \E text \in size.texts : \E n \in 1..size.width : \E tools \in [1..n -> size.tools] : Act(tools, text)
  BY <1>1, <1>12 DEF Act, files, loop, calls, world
<1>13. CASE Nudge
  BY <1>1, <1>13 DEF Nudge, files, loop, calls, world
<1>14. CASE Accept
  BY <1>1, <1>14 DEF Accept, files, loop, calls, world, Ends, Released
<1>15. CASE \E says \in {"malformed", "unheard"} : Refuse(says)
  BY <1>1, <1>15 DEF Refuse, files, loop, calls, world
<1>16. CASE \E k \in DOMAIN batch : CallStep(k)
  <2>1. PICK k \in DOMAIN batch : CallStep(k)
    BY <1>16
  <2>2. UNCHANGED <<concl, loop, loose, time, turns, stops, size>>
    BY <2>1, CallFrame
  <2>3. heard' \in Hearings /\ hand' \in BOOLEAN /\ jobs' \in [1..MaxJobs -> {"free", "running", "exited"}]
    BY <2>1, CallWorld
  <2>. QED BY <1>1, <2>2, <2>3 DEF loop
<1>17. CASE Joined
  BY <1>1, <1>17 DEF Joined, files, loop, calls, world, Ends, Released
<1>18. CASE Answer
  BY <1>1, <1>18 DEF Answer, files, loop, calls, world
<1>19. CASE TurnOver
  BY <1>1, <1>19 DEF TurnOver, files, loop, calls, world
<1>20. CASE Shutdown
  BY <1>1, <1>20 DEF Shutdown, files, loop, calls, world
<1>21. CASE Conclude
  <2>1. Leave
    BY <1>21 DEF Conclude
  <2>2. heard' = heard /\ hand' = hand /\ concl' \in Outcomes /\ size' = size /\ turns' = turns /\ stops' \in 0..size.stops
    BY <1>1, <1>21 DEF Conclude, files
  <2>. QED BY <1>1, <2>1, <2>2, LeaveIs
<1>22. CASE Gone
  <2>1. Leave
    BY <1>22 DEF Gone
  <2>2. heard' = heard /\ hand' = hand /\ concl' \in Outcomes /\ size' = size /\ turns' = turns /\ stops' \in 0..size.stops
    BY <1>1, <1>22 DEF Gone, files
  <2>. QED BY <1>1, <2>1, <2>2, LeaveIs
<1>23. CASE Interrupt
  BY <1>1, <1>23 DEF Interrupt, files, loop, calls, world, Released
<1>24. CASE Kill
  <2>1. Leave
    BY <1>24 DEF Kill
  <2>2. heard' = heard /\ hand' = hand /\ concl' \in Outcomes /\ size' = size /\ turns' = turns /\ stops' \in 0..size.stops
    BY <1>1, <1>24 DEF Kill, files
  <2>. QED BY <1>1, <2>1, <2>2, LeaveIs
<1>25. CASE Supervise
  <2>1. stops' \in 0..size.stops
    BY <1>1, <1>25 DEF Supervise
  <2>2. /\ concl' = "none" /\ loose' = {}
        /\ UNCHANGED <<outcome, heard, hand, knocked, time, idleTurns, refusals, jobs, size, turns, step>>
    BY <1>25 DEF Supervise, loop
  <2>. QED BY <1>1, <2>1, <2>2
<1>26. CASE Rest
  BY <1>1, <1>26 DEF Rest, files, loop, calls, world, episodeVars
<1>27. CASE LateWrites
  BY <1>1, <1>27 DEF LateWrites, Changed, Hearings, files, loop, calls, world
<1>28. CASE Tick
  BY <1>1, <1>28 DEF Tick, files, loop, calls, world
<1>29. CASE \E j \in DOMAIN jobs : JobExits(j)
  BY <1>1, <1>29 DEF JobExits, files, loop, calls, world
<1>. QED BY <1>2, <1>3, <1>4, <1>5, <1>6, <1>7, <1>8, <1>9, <1>10, <1>11, <1>12, <1>13, <1>14,
            <1>15, <1>16, <1>17, <1>18, <1>19, <1>20, <1>21, <1>22, <1>23, <1>24, <1>25,
            <1>26, <1>27, <1>28, <1>29
         DEF EpisodeNext, Launch, Scientist, Stopping, TurnTop, Reply, Door, Finish

\* What holds at each place of the loop holds wherever a step leads.
LEMMA PlaceStep == ASSUME EpisodeTypes, EpisodeNext PROVE PlaceTypes'
<1>1. PlaceTypes /\ size.steps \in Nat /\ step \in 1..size.steps + 1
  BY SizeIs DEF EpisodeTypes, CounterTypes
<1>2. messages \in Seq(MessageSet) /\ views \in Seq(ViewRow) /\ Len(messages) \in Nat
  BY DEF EpisodeTypes, RecordTypes
<1>. USE DEF PlaceTypes, Places
<1>3. CASE Resume
  BY <1>1, <1>3 DEF Resume, files, loop, calls, world
<1>4. CASE Begin
  <2>1. messages' \in Seq(MessageSet) /\ Len(messages') \in 1..2
    BY <1>2, <1>4, OpeningIs DEF Begin
  <2>2. pc = "down" /\ pc' \in {"open", "top"} /\ UNCHANGED <<batch, opened, outcome>>
    BY <1>4 DEF Begin, calls
  <2>3. opened = 0
    BY <1>1, <2>2
  <2>4. opened' = 0 /\ batch' = <<>> /\ outcome' = outcome
    BY <1>1, <2>2, <2>3
  <2>5. 0 <= Len(messages') /\ Len(messages') <= 2 /\ 0 \in 0..2
    <3>1. \A n \in 1..2 : 0 <= n /\ n <= 2 /\ 0 \in 0..2
      OBVIOUS
    <3>2. Len(messages') \in 1..2
      BY <2>1
    <3>. HIDE DEF PlaceTypes, Places
    <3>. QED BY <3>1, <3>2
  <2>. QED BY <1>1, <2>2, <2>4, <2>5
<1>5. CASE RecordOpening
  <2>1. pc = "open" /\ pc' \in {"open", "top"} /\ UNCHANGED <<batch, outcome>>
    BY <1>5 DEF RecordOpening, calls
  <2>2. CASE opened < Len(messages)
    <3>1. opened' = opened + 1 /\ messages' = messages /\ pc' = pc
      BY <1>5, <2>2 DEF RecordOpening
    <3>2. opened + 1 <= Len(messages) /\ opened + 1 \in 0..2
      BY <1>1, <1>2, <2>1, <2>2
    <3>. QED BY <1>1, <2>1, <3>1, <3>2
  <2>3. CASE ~(opened < Len(messages))
    BY <1>1, <1>5, <2>1, <2>3 DEF RecordOpening
  <2>. QED BY <2>2, <2>3
<1>6. CASE Knock
  BY <1>1, <1>6 DEF Knock, files, loop, calls, world
<1>7. CASE CutOff
  BY <1>1, <1>7 DEF CutOff, files, loop, calls, world, Ends
<1>8. CASE Pace
  BY <1>1, <1>8 DEF Pace, files, loop, calls, world
<1>9. CASE Drained
  BY <1>1, <1>9 DEF Drained, files, loop, calls, world
<1>10. CASE DrainHand \/ \E j \in DOMAIN jobs : DrainJob(j)
  BY <1>1, <1>10 DEF DrainHand, DrainJob, files, loop, calls, world
<1>11. CASE ModelFails
  BY <1>1, <1>11 DEF ModelFails, files, loop, calls, world, Ends
<1>12. CASE \E text \in size.texts : TalkOnly(text)
  <2>1. PICK text \in size.texts : TalkOnly(text)
    BY <1>12
  <2>. QED BY <1>1, <2>1 DEF TalkOnly, calls
<1>13. CASE \E text \in size.texts : \E n \in 1..size.width : \E tools \in [1..n -> size.tools] : Act(tools, text)
  <2>1. PICK text \in size.texts, n \in 1..size.width : \E tools \in [1..n -> size.tools] : Act(tools, text)
    BY <1>13
  <2>2. PICK tools \in [1..n -> size.tools] : Act(tools, text)
    BY <2>1
  <2>3. /\ Len(tools) = n /\ n \in Nat /\ Len(batch') = n /\ answered' = 0
        /\ \A k \in 1..n : batch'[k].tool = tools[k]
    BY <2>2, ActIs
  <2>4. pc = "think" /\ pc' = IF Len(tools) = 1 /\ tools[1] \in Terminals THEN "door" ELSE "act"
    BY <2>2 DEF Act
  <2>5. UNCHANGED <<opened, step, size>>
    BY <2>2 DEF Act
  <2>6. pc' = "door" => Len(batch') = 1 /\ batch'[1].tool \in Terminals
    BY <2>3, <2>4
  <2>. QED BY <1>1, <2>3, <2>4, <2>5, <2>6
<1>14. CASE Nudge
  BY <1>1, <1>14 DEF Nudge, files, loop, calls, world
<1>15. CASE Accept
  BY <1>1, <1>15 DEF Accept, files, loop, calls, world, Ends
<1>16. CASE \E says \in {"malformed", "unheard"} : Refuse(says)
  <2>1. PICK says \in {"malformed", "unheard"} : Refuse(says)
    BY <1>16
  <2>. QED BY <1>1, <2>1 DEF Refuse
<1>17. CASE \E k \in DOMAIN batch : CallStep(k)
  <2>1. PICK k \in DOMAIN batch : CallStep(k)
    BY <1>17
  <2>2. pc = "act" /\ UNCHANGED <<pc, messages, opened, step, size, outcome>>
    BY <2>1, CallFrame DEF loop
  <2>. QED BY <1>1, <2>2
<1>18. CASE Joined
  BY <1>1, <1>18 DEF Joined, files, loop, calls, world, Ends
<1>19. CASE Answer
  BY <1>1, <1>19 DEF Answer, files, loop, calls, world
<1>20. CASE TurnOver
  BY <1>1, <1>20 DEF TurnOver, files, loop, calls, world
<1>21. CASE Shutdown
  BY <1>1, <1>21 DEF Shutdown, files, loop, calls, world
<1>22. CASE Conclude
  <2>1. messages' = <<>> /\ batch' = <<>> /\ outcome' = "none" /\ opened' = 0
    BY <1>22, LeaveIs DEF Conclude
  <2>2. pc' \in {"down", "ended"}
    BY <1>22 DEF Conclude
  <2>. QED BY <2>1, <2>2
<1>23. CASE Gone
  <2>1. messages' = <<>> /\ batch' = <<>> /\ outcome' = "none" /\ opened' = 0
    BY <1>23, LeaveIs DEF Gone
  <2>2. pc' \in {"down", "ended"}
    BY <1>23 DEF Gone
  <2>. QED BY <2>1, <2>2
<1>24. CASE Interrupt
  BY <1>1, <1>24 DEF Interrupt, files, loop, calls, world
<1>25. CASE Kill
  <2>1. messages' = <<>> /\ batch' = <<>> /\ outcome' = "none" /\ opened' = 0
    BY <1>25, LeaveIs DEF Kill
  <2>2. pc' \in {"down", "ended"}
    BY <1>25 DEF Kill
  <2>. QED BY <2>1, <2>2
<1>26. CASE Supervise
  BY <1>1, <1>26 DEF Supervise, files, loop, calls, world
<1>27. CASE Rest
  BY <1>1, <1>27 DEF Rest, files, loop, calls, world, episodeVars
<1>28. CASE LateWrites
  BY <1>1, <1>28 DEF LateWrites, files, loop, calls, world
<1>29. CASE Tick
  BY <1>1, <1>29 DEF Tick, files, loop, calls, world
<1>30. CASE \E j \in DOMAIN jobs : JobExits(j)
  BY <1>1, <1>30 DEF JobExits, files, loop, calls, world
<1>. QED BY <1>3, <1>4, <1>5, <1>6, <1>7, <1>8, <1>9, <1>10, <1>11, <1>12, <1>13, <1>14,
            <1>15, <1>16, <1>17, <1>18, <1>19, <1>20, <1>21, <1>22, <1>23, <1>24, <1>25,
            <1>26, <1>27, <1>28, <1>29, <1>30
         DEF EpisodeNext, Launch, Scientist, Stopping, TurnTop, Reply, Door, Finish

\* The types hold from the beginning on.
LEMMA TypesBegin == EpisodeInit => EpisodeTypes
<1>. SUFFICES ASSUME EpisodeInit PROVE EpisodeTypes
  OBVIOUS
<1>1. /\ size \in Sizes /\ size.turns \in Nat /\ size.stops \in Nat /\ size.steps \in Nat
      /\ MaxIdle \in Nat \ {0} /\ MaxRefusals \in Nat /\ MaxJobs \in Nat
  BY SizeIs DEF EpisodeInit
<1>2. RecordTypes
  BY DEF EpisodeInit, RecordTypes
<1>3. 0 \in 0..MaxIdle - 1 /\ 0 \in 0..MaxRefusals /\ 1 \in 1..size.steps + 1
      /\ 0 \in 0..size.turns /\ 0 \in 0..size.stops
  BY <1>1
<1>4. CounterTypes
  BY <1>1, <1>3 DEF EpisodeInit, CounterTypes, Outcomes, Hearings
<1>5. PlaceTypes
  BY DEF EpisodeInit, PlaceTypes, Places
<1>. QED BY <1>2, <1>4, <1>5 DEF EpisodeTypes

\* The types are preserved by every step and by stuttering.
LEMMA TypesStep == EpisodeTypes /\ [EpisodeNext]_episodeVars => EpisodeTypes'
<1>. SUFFICES ASSUME EpisodeTypes, [EpisodeNext]_episodeVars PROVE EpisodeTypes'
  OBVIOUS
<1>1. CASE EpisodeNext
  BY <1>1, RecordStep, CounterStep, PlaceStep DEF EpisodeTypes
<1>2. CASE UNCHANGED episodeVars
  BY <1>2 DEF EpisodeTypes, RecordTypes, CounterTypes, PlaceTypes, episodeVars, files, loop, calls, world
<1>. QED BY <1>1, <1>2

\* Everything has its type, always.
THEOREM EpisodeTyped == EpisodeSpec => []EpisodeTypes
BY TypesBegin, TypesStep, PTL DEF EpisodeSpec
--------------------------------------------------------------------------------
(* One item per name: the items that are named on the wire, those that wait to be *)
(* answered and the one that is drawn are all different.                   *)

Made    == {i \in 1..Len(wire) : IsRow(wire[i]) /\ wire[i].says = "created"}
Waiting == {k \in 1..Len(batch) : k > answered /\ batch[k].says = "created"}

\* What an answer can say of an item, and who may draw.
CallsInTurn ==
    /\ \A k \in 1..Len(batch) : batch[k].says = "created" => batch[k].at = "done"
    /\ \A k, l \in 1..Len(batch) :
          batch[k].at \in {"drawn", "half"} /\ batch[l].at \in {"drawn", "half"} => k = l
    /\ pc = "open" => \A i \in 1..Len(messages) : messages[i].says # "created"

\* The names on the wire, in the answers that wait and in the call that draws.
NamesApart ==
    /\ \A i, j \in Made : i # j => wire[i].name # wire[j].name
    /\ \A i \in Made : wire[i].name \in Items
    /\ \A k \in Waiting : batch[k].name \in Items /\ \A i \in Made : wire[i].name # batch[k].name
    /\ \A k, l \in Waiting : k # l => batch[k].name # batch[l].name
    /\ \A k \in 1..Len(batch) :
          batch[k].at = "drawn" /\ batch[k].tool = "create" => \A n \in Items : n < batch[k].name

ItemNames == CallsInTurn /\ (Whole(events) => NamesApart)

\* A step that says nothing of an item, and lets no call draw or answer.
QuietWire == \/ wire' = wire \/ wire' = Tear(wire)
             \/ \E m \in MessageSet : m.says # "created" /\ wire' = Write(wire, m)
QuietCalls ==
    \A k \in 1..Len(batch') :
       batch'[k].says = "created" \/ batch'[k].at \in {"drawn", "half"} =>
          k \in 1..Len(batch) /\ batch'[k] = batch[k] /\ (k > answered' => k > answered)

\* The rows of items on the wire, under an append that is not one, and under a kill.
LEMMA MadeIs ==
    ASSUME wire \in Seq(WireRow), QuietWire
    PROVE  Made' = Made /\ \A i \in Made : wire'[i] = wire[i]
<1>1. Len(wire) \in Nat /\ \A i \in 1..Len(wire) : wire[i] \in WireRow
  OBVIOUS
<1>2. Torn \in WireRow /\ Broken \in WireRow /\ ~IsRow(Torn) /\ ~IsRow(Broken)
  BY MarksAre
<1>3. ASSUME NEW m \in WireRow, wire' = Append(wire, m), ~(IsRow(m) /\ m.says = "created")
      PROVE  Made' = Made /\ \A i \in Made : wire'[i] = wire[i]
  <2>1. /\ Len(wire') = Len(wire) + 1 /\ wire'[Len(wire) + 1] = m
        /\ \A i \in 1..Len(wire) : wire'[i] = wire[i]
    BY <1>3
  <2>2. \A i \in 1..Len(wire') : i \in 1..Len(wire) \/ i = Len(wire) + 1
    BY <1>1, <2>1
  <2>3. \A i \in 1..Len(wire) : i \in 1..Len(wire')
    BY <1>1, <2>1
  <2>. QED BY <1>3, <2>1, <2>2, <2>3 DEF Made
<1>4. CASE wire' = wire
  BY <1>4 DEF Made
<1>5. CASE wire' = Tear(wire)
  <2>1. wire' = wire \/ wire' = Append(wire, Torn)
    BY <1>5 DEF Tear
  <2>. QED BY <1>2, <1>3, <1>4, <2>1
<1>6. CASE \E m \in MessageSet : m.says # "created" /\ wire' = Write(wire, m)
  <2>1. PICK m \in MessageSet : m.says # "created" /\ wire' = Write(wire, m)
    BY <1>6
  <2>2. m \in WireRow
    BY MarksAre
  <2>3. CASE ~OpenEnded(wire)
    <3>1. wire' = Append(wire, m)
      BY <1>2, <2>1, <2>2, <2>3, WriteIs
    <3>. QED BY <1>3, <2>1, <2>2, <3>1
  <2>4. CASE OpenEnded(wire)
    <3>1. /\ wire[Len(wire)].role = "torn" /\ Len(wire) \in 1..Len(wire) /\ Len(wire') = Len(wire)
          /\ wire'[Len(wire)] = Broken
          /\ \A i \in 1..Len(wire) - 1 : wire'[i] = wire[i]
      BY <1>2, <2>1, <2>2, <2>4, WriteIs
    <3>2. ~IsRow(wire[Len(wire)])
      BY <3>1 DEF IsRow
    <3>3. \A i \in 1..Len(wire) : i = Len(wire) \/ i \in 1..Len(wire) - 1
      BY <1>1
    <3>. QED BY <1>2, <3>1, <3>2, <3>3 DEF Made
  <2>. QED BY <2>3, <2>4
<1>. QED BY <1>4, <1>5, <1>6 DEF QuietWire

\* Names stay apart in a step that says nothing of an item.
LEMMA QuietNames ==
    ASSUME EpisodeTypes, ItemNames, QuietWire, QuietCalls, UNCHANGED events \/ ~Whole(events)',
           pc' = "open" => \A i \in 1..Len(messages') : messages'[i].says # "created"
    PROVE  ItemNames'
<1>1. Made' = Made /\ \A i \in Made : wire'[i] = wire[i]
  BY MadeIs DEF EpisodeTypes, RecordTypes
<1>2. CallsInTurn'
  <2>1. \A k \in 1..Len(batch') : batch'[k].says = "created" => batch'[k].at = "done"
    BY DEF ItemNames, CallsInTurn, QuietCalls
  <2>2. \A k, l \in 1..Len(batch') :
          batch'[k].at \in {"drawn", "half"} /\ batch'[l].at \in {"drawn", "half"} => k = l
    BY DEF ItemNames, CallsInTurn, QuietCalls
  <2>. QED BY <2>1, <2>2 DEF CallsInTurn
<1>3. ASSUME UNCHANGED events, NamesApart PROVE NamesApart'
  <2>1. Items' = Items
    BY <1>3 DEF Items
  <2>2. \A k \in Waiting' : k \in Waiting /\ batch'[k] = batch[k]
    BY DEF Waiting, QuietCalls
  <2>3. \A k \in 1..Len(batch') : batch'[k].at = "drawn" => k \in 1..Len(batch) /\ batch'[k] = batch[k]
    BY DEF QuietCalls
  <2>4. \A i, j \in Made' : i # j => wire'[i].name # wire'[j].name
    BY <1>1, <1>3 DEF NamesApart
  <2>5. \A i \in Made' : wire'[i].name \in Items'
    BY <1>1, <1>3, <2>1 DEF NamesApart
  <2>6. \A k \in Waiting' : batch'[k].name \in Items' /\ \A i \in Made' : wire'[i].name # batch'[k].name
    BY <1>1, <1>3, <2>1, <2>2 DEF NamesApart
  <2>7. \A k, l \in Waiting' : k # l => batch'[k].name # batch'[l].name
    BY <1>3, <2>2 DEF NamesApart
  <2>8. \A k \in 1..Len(batch') :
          batch'[k].at = "drawn" /\ batch'[k].tool = "create" => \A n \in Items' : n < batch'[k].name
    BY <1>3, <2>1, <2>3 DEF NamesApart
  <2>. QED BY <2>4, <2>5, <2>6, <2>7, <2>8 DEF NamesApart
<1>4. UNCHANGED events /\ Whole(events)' => Whole(events)
  OBVIOUS
<1>. QED BY <1>2, <1>3, <1>4 DEF ItemNames

\* Calls that are gone, or that nobody has touched.
LEMMA QuietCallsAre ==
    ASSUME (UNCHANGED batch /\ UNCHANGED answered) \/ batch' = <<>>
    PROVE  QuietCalls
<1>1. CASE UNCHANGED batch /\ UNCHANGED answered
  BY <1>1 DEF QuietCalls
<1>2. CASE batch' = <<>>
  <2>1. \A k \in 1..Len(batch') : FALSE
    BY <1>2
  <2>. QED BY <2>1 DEF QuietCalls
<1>. QED BY <1>1, <1>2

\* A note is none of an item.
LEMMA QuietNote ==
    \A says \in {"opening", "resumed", "inherited", "knock", "pace", "job", "nudge", "report"} :
       Emit(Note(says)) => QuietWire
<1>. SUFFICES ASSUME NEW says \in {"opening", "resumed", "inherited", "knock", "pace", "job", "nudge", "report"},
                     Emit(Note(says))
              PROVE  QuietWire
  OBVIOUS
<1>1. Note(says) \in MessageSet /\ Note(says).says = says
  BY NotesAre
<1>2. says # "created"
  OBVIOUS
<1>. QED BY <1>1, <1>2 DEF Emit, QuietWire

\* The items of a memory that gets one more event, when it stays whole.
LEMMA ItemsWritten ==
    ASSUME events \in Seq(EventRow), NEW role \in {"create", "revise", "status"}, NEW name \in Nat,
           events' = Write(events, Row(role, name, "plain")), Whole(events)'
    PROVE  /\ Whole(events)
           /\ Items' = IF role = "create" THEN Items \cup {name} ELSE Items
<1>. DEFINE row == Row(role, name, "plain")
<1>1. row \in EventRow /\ Broken \in EventRow /\ row.role = role /\ row.name = name
  BY RowsAre, MarksAre DEF Row, EventRow
<1>2. Whole(Write(events, row))
  BY DEF Whole
<1>3. Whole(events) /\ events' = Append(events, row)
  BY <1>1, <1>2, WholeWrite
<1>4. Len(events) \in Nat
  OBVIOUS
<1>5. /\ DOMAIN events' = 1..Len(events) + 1 /\ events'[Len(events) + 1] = row
      /\ DOMAIN events = 1..Len(events)
      /\ \A i \in 1..Len(events) : events'[i] = events[i]
  BY <1>1, <1>3
<1>6. \A i \in 1..Len(events) + 1 : i \in 1..Len(events) \/ i = Len(events) + 1
  BY <1>4
<1>7. 1..Len(events) \subseteq 1..Len(events) + 1 /\ Len(events) + 1 \in 1..Len(events) + 1
  BY <1>4
<1>. HIDE DEF row
<1>8. \A n : n \in Items' <=> n \in Items \/ (role = "create" /\ n = name)
  BY <1>1, <1>5, <1>6, <1>7 DEF Items
<1>. QED BY <1>3, <1>8

\* A call that draws its name, and one that writes its item, keep the names apart.
LEMMA CallNames ==
    ASSUME EpisodeTypes, ItemNames, NEW k, CallStep(k)
    PROVE  ItemNames'
<1>0. batch \in Seq(CallSet) /\ events \in Seq(EventRow)
  BY DEF EpisodeTypes, RecordTypes
<1>0a. Len(batch) \in Nat /\ DOMAIN batch = 1..Len(batch) /\ \A j \in DOMAIN batch : batch[j] \in CallSet
  BY <1>0
<1>0b. k \in DOMAIN batch /\ Moved(k) /\ (Settles(k) \/ Draws(k) \/ Writes(k) \/ Updates(k))
  BY CallMoves
<1>1. k \in 1..Len(batch)
  BY <1>0a, <1>0b
<1>2. pc' = "act" /\ UNCHANGED <<wire, answered, messages>>
  BY CallFrame DEF loop
<1>3. QuietWire
  BY <1>2 DEF QuietWire
<1>4. /\ Len(batch') = Len(batch) /\ batch'[k].tool = batch[k].tool
      /\ \A j \in 1..Len(batch) : j # k => batch'[j] = batch[j]
  BY <1>0a, <1>0b DEF Moved
<1>5. CallsInTurn /\ batch[k] \in CallSet /\ batch[k].name \in Nat
  <2>1. \A c \in CallSet : c.name \in Nat
    BY DEF CallSet
  <2>2. batch[k] \in CallSet
    BY <1>0a, <1>0b
  <2>. QED BY <2>1, <2>2 DEF ItemNames
<1>6. ASSUME batch'[k].says # "created", batch'[k].at \notin {"drawn", "half"},
             UNCHANGED events \/ ~Whole(events)'
      PROVE  ItemNames'
  <2>1. QuietCalls
    BY <1>2, <1>4, <1>6 DEF QuietCalls
  <2>. QED BY <1>2, <1>3, <1>6, <2>1, QuietNames
<1>7. ASSUME RecordFree, batch'[k].says # "created", UNCHANGED events \/ ~Whole(events)',
             batch'[k].at = "drawn" /\ batch'[k].tool = "create" => \A n \in Items : n < batch'[k].name
      PROVE  ItemNames'
  <2>1. \A j \in 1..Len(batch) : batch[j].at \notin {"drawn", "half"}
    BY <1>0a, <1>7 DEF RecordFree
  <2>2. CallsInTurn'
    BY <1>2, <1>4, <1>5, <1>7, <2>1 DEF CallsInTurn
  <2>3. ASSUME Whole(events)' PROVE NamesApart'
    <3>1. UNCHANGED events /\ Items' = Items /\ NamesApart
      BY <1>7, <2>3 DEF Items, ItemNames
    <3>2. Made' = Made /\ UNCHANGED wire
      BY <1>2 DEF Made
    <3>3. \A j \in Waiting' : j \in Waiting /\ batch'[j] = batch[j]
      BY <1>2, <1>4, <1>7 DEF Waiting
    <3>4. \A j \in 1..Len(batch') :
            batch'[j].at = "drawn" /\ batch'[j].tool = "create" => \A n \in Items' : n < batch'[j].name
      BY <1>4, <1>7, <2>1, <3>1
    <3>. QED BY <3>1, <3>2, <3>3, <3>4 DEF NamesApart
  <2>. QED BY <2>2, <2>3 DEF ItemNames
<1>8. CASE Settles(k)
  <2>1. batch[k].says # "created"
    BY <1>1, <1>5, <1>8 DEF Settles, CallsInTurn
  <2>. QED BY <1>6, <1>8, <2>1 DEF Settles
<1>9. CASE Draws(k)
  <2>1. batch[k].says # "created"
    BY <1>1, <1>5, <1>9 DEF Draws, CallsInTurn
  <2>2. \A n \in Items : n < NextItem
    BY <1>0, NextItemIs
  <2>. QED BY <1>4, <1>7, <1>9, <2>1, <2>2 DEF Draws
<1>10. CASE Writes(k)
  <2>1. CASE batch[k].tool = "view"
    BY <1>6, <1>10, <2>1 DEF Writes
  <2>2. CASE batch[k].tool # "view"
    <3>1. /\ batch[k].at = "drawn" /\ batch[k].tool = "create" /\ batch'[k].at = "done"
          /\ batch'[k].says = "created" /\ batch'[k].name = batch[k].name
          /\ events' = Write(events, Row("create", batch[k].name, "plain"))
      BY <1>10, <2>2 DEF Writes
    <3>2. \A j \in 1..Len(batch) : j # k => batch[j].at \notin {"drawn", "half"}
      BY <1>1, <1>5, <3>1 DEF CallsInTurn
    <3>3. CallsInTurn'
      BY <1>2, <1>4, <1>5, <3>1, <3>2 DEF CallsInTurn
    <3>4. ASSUME Whole(events)' PROVE NamesApart'
      <4>1. Whole(events) /\ Items' = Items \cup {batch[k].name}
        BY <1>0, <1>5, <3>1, <3>4, ItemsWritten
      <4>2. NamesApart /\ \A n \in Items : n # batch[k].name
        <5>1. NamesApart /\ \A n \in Items : n < batch[k].name
          BY <1>1, <3>1, <4>1 DEF ItemNames, NamesApart
        <5>2. Items \in SUBSET Nat
          BY <1>0, NextItemIs
        <5>. QED BY <1>5, <5>1, <5>2
      <4>3. Made' = Made /\ UNCHANGED wire
        BY <1>2 DEF Made
      <4>4. \A j \in Waiting' : j # k => j \in Waiting /\ batch'[j] = batch[j]
        BY <1>2, <1>4 DEF Waiting
      <4>5. \A j \in 1..Len(batch') : batch'[j].at # "drawn"
        BY <1>4, <3>1, <3>2
      <4>6. \A i, j \in Made' : i # j => wire'[i].name # wire'[j].name
        BY <4>2, <4>3 DEF NamesApart
      <4>7. \A i \in Made' : wire'[i].name \in Items' /\ wire'[i].name # batch[k].name
        BY <4>1, <4>2, <4>3 DEF NamesApart
      <4>8. \A j \in Waiting' : batch'[j].name \in Items' /\ \A i \in Made' : wire'[i].name # batch'[j].name
        BY <3>1, <4>1, <4>2, <4>3, <4>4, <4>7 DEF NamesApart
      <4>9. \A j, l \in Waiting' : j # l => batch'[j].name # batch'[l].name
        BY <3>1, <4>2, <4>4 DEF NamesApart
      <4>. QED BY <4>5, <4>6, <4>7, <4>8, <4>9 DEF NamesApart
    <3>. QED BY <3>3, <3>4 DEF ItemNames
  <2>. QED BY <2>1, <2>2
<1>11. CASE Updates(k)
  <2>1. PICK role \in {"revise", "status"}, it \in Nat : events' = Write(events, Row(role, it, "plain"))
    <3>1. \A n \in Items : n \in Nat
      BY <1>0, NextItemIs
    <3>. QED BY <1>5, <1>11, <3>1 DEF Updates
  <2>2. ASSUME Whole(events)' PROVE Whole(events) /\ Items' = Items
    BY <1>0, <2>1, <2>2, ItemsWritten
  <2>3. /\ batch'[k].says # "created" /\ batch'[k].at # "drawn"
        /\ batch'[k].at = "half" => RecordFree
    BY <1>1, <1>5, <1>11 DEF Updates, CallsInTurn
  <2>4. CallsInTurn'
    <3>1. ASSUME RecordFree PROVE \A j \in 1..Len(batch) : batch[j].at \notin {"drawn", "half"}
      BY <1>0a, <3>1 DEF RecordFree
    <3>. QED BY <1>1, <1>2, <1>4, <1>5, <2>3, <3>1 DEF CallsInTurn
  <2>5. ASSUME Whole(events)' PROVE NamesApart'
    <3>1. Items' = Items /\ NamesApart
      BY <2>2, <2>5 DEF ItemNames
    <3>2. Made' = Made /\ UNCHANGED wire
      BY <1>2 DEF Made
    <3>3. \A j \in Waiting' : j \in Waiting /\ batch'[j] = batch[j]
      BY <1>2, <1>4, <2>3 DEF Waiting
    <3>4. \A j \in 1..Len(batch') :
            batch'[j].at = "drawn" /\ batch'[j].tool = "create" => \A n \in Items' : n < batch'[j].name
      BY <1>4, <2>3, <3>1 DEF NamesApart
    <3>. QED BY <3>1, <3>2, <3>3, <3>4 DEF NamesApart
  <2>. QED BY <2>4, <2>5 DEF ItemNames
<1>. QED BY <1>0b, <1>8, <1>9, <1>10, <1>11

\* An answer moves an item from the calls that wait to the wire.
LEMMA AnswerNames ==
    ASSUME EpisodeTypes, ItemNames, Answer
    PROVE  ItemNames'
<1>. DEFINE k == answered + 1
            c == batch[k]
            m == Result(c.id, c.says, c.name, c.text)
<1>1. /\ batch \in Seq(CallSet) /\ wire \in Seq(WireRow) /\ answered \in 0..Len(batch)
      /\ RecordTypes /\ CallsInTurn
  BY DEF EpisodeTypes, RecordTypes, ItemNames
<1>2. pc' = "answer" /\ answered < Len(batch) /\ wire' = Write(wire, m) /\ answered' = k
      /\ UNCHANGED <<events, batch>>
  BY DEF Answer
<1>3. k \in 1..Len(batch) /\ Len(batch) \in Nat /\ answered \in Nat
  BY <1>1, <1>2
<1>4. m \in MessageSet /\ m.says = c.says /\ m.name = c.name
  <2>1. m \in MessageSet
    BY <1>1, <1>3, AnswersAre
  <2>. QED BY <2>1 DEF Result, Message
<1>5. QuietCalls
  BY <1>2, <1>3 DEF QuietCalls
<1>. HIDE DEF m, c
<1>6. CASE m.says # "created"
  <2>1. QuietWire
    BY <1>2, <1>4, <1>6 DEF QuietWire
  <2>. QED BY <1>2, <1>5, <2>1, QuietNames
<1>7. CASE OpenEnded(wire)
  <2>1. Write(wire, m) = Write(wire, Note("job"))
    BY <1>7 DEF Write
  <2>2. QuietWire
    <3>1. Note("job") \in MessageSet /\ Note("job").says # "created"
      BY NotesAre
    <3>. QED BY <1>2, <2>1, <3>1 DEF QuietWire
  <2>. QED BY <1>2, <1>5, <2>2, QuietNames
<1>8. CASE m.says = "created" /\ ~OpenEnded(wire)
  <2>1. wire' = Append(wire, m) /\ Len(wire) \in Nat /\ IsRow(m)
    <3>1. m \in WireRow /\ Broken \in WireRow /\ IsRow(m)
      BY <1>4, MarksAre
    <3>2. wire' = Append(wire, m)
      BY <1>1, <1>2, <1>8, <3>1, WriteIs
    <3>. QED BY <1>1, <3>1, <3>2
  <2>2. /\ Len(wire') = Len(wire) + 1 /\ wire'[Len(wire) + 1] = m
        /\ \A i \in 1..Len(wire) : wire'[i] = wire[i]
    BY <1>1, <2>1
  <2>3. \A i \in 1..Len(wire) + 1 : i \in 1..Len(wire) \/ i = Len(wire) + 1
    BY <2>1
  <2>4. \A i \in Made' : i # Len(wire) + 1 => i \in Made /\ wire'[i] = wire[i]
    BY <2>2, <2>3 DEF Made
  <2>5. CallsInTurn'
    BY <1>1, <1>2 DEF CallsInTurn
  <2>6. ASSUME NamesApart PROVE NamesApart'
    <3>0. batch[k].says = "created" /\ batch[k].name = m.name
      BY <1>4, <1>8 DEF c
    <3>0a. k > answered
      BY <1>3
    <3>1. k \in Waiting /\ batch[k].name = m.name
      BY <1>3, <3>0, <3>0a DEF Waiting
    <3>2. \A j \in Waiting' : j \in Waiting /\ j # k
      BY <1>2, <1>3 DEF Waiting
    <3>3. Items' = Items
      BY <1>2 DEF Items
    <3>4. m.name \in Items /\ \A i \in Made : wire[i].name # m.name
      BY <2>6, <3>1 DEF NamesApart
    <3>5. \A i, j \in Made' : i # j => wire'[i].name # wire'[j].name
      BY <2>2, <2>4, <2>6, <3>4 DEF NamesApart
    <3>6. \A i \in Made' : wire'[i].name \in Items'
      BY <2>2, <2>4, <2>6, <3>3, <3>4 DEF NamesApart
    <3>7. ASSUME NEW j \in Waiting'
          PROVE  batch'[j].name \in Items' /\ \A i \in Made' : wire'[i].name # batch'[j].name
      <4>1. j \in Waiting /\ j # k /\ batch' = batch
        BY <1>2, <3>2
      <4>2. batch[j].name # m.name
        BY <2>6, <3>1, <4>1 DEF NamesApart
      <4>. QED BY <2>2, <2>4, <2>6, <3>3, <4>1, <4>2 DEF NamesApart
    <3>8. \A j, l \in Waiting' : j # l => batch'[j].name # batch'[l].name
      BY <1>2, <2>6, <3>2 DEF NamesApart
    <3>9. \A j \in 1..Len(batch') :
            batch'[j].at = "drawn" /\ batch'[j].tool = "create" => \A n \in Items' : n < batch'[j].name
      BY <1>2, <2>6, <3>3 DEF NamesApart
    <3>. QED BY <3>5, <3>6, <3>7, <3>8, <3>9 DEF NamesApart
  <2>7. Whole(events)' => Whole(events)
    BY <1>2
  <2>. QED BY <2>5, <2>6, <2>7 DEF ItemNames
<1>. QED BY <1>6, <1>7, <1>8

\* A step that emits a note, or nothing, and leaves the records and the calls.
LEMMA NoteNames ==
    ASSUME EpisodeTypes, ItemNames, UNCHANGED <<events, batch, answered>>, pc' # "open",
           NEW says \in {"opening", "resumed", "inherited", "knock", "pace", "job", "nudge", "report"},
           Emit(Note(says)) \/ UNCHANGED wire
    PROVE  ItemNames'
<1>1. QuietWire
  BY QuietNote DEF QuietWire
<1>2. QuietCalls
  BY QuietCallsAre
<1>. QED BY <1>1, <1>2, QuietNames

\* No step of the Scientist brings two names together.
LEMMA NamesStep == ASSUME EpisodeTypes, ItemNames, EpisodeNext PROVE ItemNames'
<1>1. EpisodeTypes /\ ItemNames
  OBVIOUS
<1>2. ASSUME UNCHANGED <<wire, events, batch, answered, messages, pc>> PROVE ItemNames'
  <2>1. QuietWire
    BY <1>2 DEF QuietWire
  <2>2. \A i \in 1..Len(messages') : pc' = "open" => messages'[i].says # "created"
    BY <1>1, <1>2 DEF ItemNames, CallsInTurn
  <2>. QED BY <1>1, <1>2, <2>1, <2>2, QuietCallsAre, QuietNames
<1>3. CASE Resume
  <2>1. QuietWire
    <3>1. Note("resumed") \in MessageSet /\ Note("resumed").says # "created"
      BY NotesAre
    <3>. QED BY <1>3, <3>1 DEF Resume, QuietWire
  <2>2. UNCHANGED <<events, batch, answered>> /\ pc' = "top"
    BY <1>3 DEF Resume, calls
  <2>. QED BY <1>1, <2>1, <2>2, QuietCallsAre, QuietNames
<1>4. CASE Begin
  <2>1. UNCHANGED <<wire, events, batch, answered>> /\ messages' = Upserted(Opening, views)
    BY <1>4 DEF Begin, files, calls
  <2>2. views \in Seq(ViewRow)
    BY <1>1 DEF EpisodeTypes, RecordTypes
  <2>3. \A i \in 1..Len(messages') : messages'[i].says \in {"opening", "view"}
    BY <2>1, <2>2, OpeningIs
  <2>4. QuietWire
    BY <2>1 DEF QuietWire
  <2>. QED BY <1>1, <2>1, <2>3, <2>4, QuietCallsAre, QuietNames
<1>5. CASE RecordOpening
  <2>1. UNCHANGED <<events, batch, answered>> /\ pc = "open"
    BY <1>5 DEF RecordOpening, calls
  <2>2. CASE opened < Len(messages)
    <3>1. wire' = Write(wire, messages[opened + 1]) /\ UNCHANGED messages
      BY <1>5, <2>2 DEF RecordOpening
    <3>2. messages \in Seq(MessageSet) /\ opened \in Nat
      BY <1>1 DEF EpisodeTypes, RecordTypes, PlaceTypes
    <3>3. messages[opened + 1] \in MessageSet /\ opened + 1 \in 1..Len(messages)
      BY <2>2, <3>2
    <3>4. \A i \in 1..Len(messages) : messages[i].says # "created"
      BY <1>1, <2>1 DEF ItemNames, CallsInTurn
    <3>5. QuietWire
      BY <3>1, <3>3, <3>4 DEF QuietWire
    <3>. QED BY <1>1, <2>1, <3>1, <3>4, <3>5, QuietCallsAre, QuietNames
  <2>3. CASE ~(opened < Len(messages))
    <3>1. Emit(Note("inherited")) \/ UNCHANGED wire
      BY <1>5, <2>3 DEF RecordOpening
    <3>2. pc' = "top"
      BY <1>5, <2>3 DEF RecordOpening
    <3>. QED BY <1>1, <2>1, <3>1, <3>2, NoteNames
  <2>. QED BY <2>2, <2>3
<1>6. CASE Knock
  <2>1. Emit(Note("knock")) \/ UNCHANGED wire
    BY <1>6 DEF Knock
  <2>2. UNCHANGED <<events, batch, answered>> /\ pc' # "open"
    BY <1>1, <1>6 DEF Knock, calls
  <2>. QED BY <1>1, <2>1, <2>2, NoteNames
<1>7. CASE CutOff
  <2>1. UNCHANGED <<wire, events, batch, answered>> /\ pc' # "open"
    BY <1>1, <1>7 DEF CutOff, files, loop, calls, world, Ends
  <2>. QED BY <1>1, <2>1, NoteNames
<1>8. CASE Pace
  <2>1. Emit(Note("pace")) \/ UNCHANGED wire
    BY <1>8 DEF Pace
  <2>2. UNCHANGED <<events, batch, answered>> /\ pc' # "open"
    BY <1>1, <1>8 DEF Pace, calls
  <2>. QED BY <1>1, <2>1, <2>2, NoteNames
<1>9. CASE Drained
  <2>1. UNCHANGED <<wire, events, batch, answered>> /\ pc' # "open"
    BY <1>1, <1>9 DEF Drained, files, loop, calls, world
  <2>. QED BY <1>1, <2>1, NoteNames
<1>10. CASE DrainHand \/ \E j \in DOMAIN jobs : DrainJob(j)
  <2>1. Emit(Note("job")) \/ Emit(Note("report"))
    BY <1>10 DEF DrainHand, DrainJob
  <2>2. UNCHANGED <<events, batch, answered>> /\ pc' # "open"
    BY <1>1, <1>10 DEF DrainHand, DrainJob, calls
  <2>. QED BY <1>1, <2>1, <2>2, NoteNames
<1>11. CASE ModelFails
  <2>1. UNCHANGED <<wire, events, batch, answered>> /\ pc' # "open"
    BY <1>1, <1>11 DEF ModelFails, files, loop, calls, world, Ends
  <2>. QED BY <1>1, <2>1, NoteNames
<1>12. CASE \E text \in size.texts : TalkOnly(text)
  <2>1. PICK text \in size.texts : TalkOnly(text)
    BY <1>12
  <2>2. Emit(Assistant(<<>>, text)) /\ UNCHANGED <<events, batch, answered>> /\ pc' # "open"
    BY <2>1 DEF TalkOnly, calls
  <2>3. text \in Texts
    BY <1>1, SizeIs DEF EpisodeTypes, CounterTypes
  <2>4. QuietWire
    <3>1. Assistant(<<>>, text) \in MessageSet /\ Assistant(<<>>, text).says # "created"
      BY <2>3, PlainIs, AssistantIs
    <3>. QED BY <2>2, <3>1 DEF Emit, QuietWire
  <2>. QED BY <1>1, <2>2, <2>4, QuietCallsAre, QuietNames
<1>13. CASE \E text \in size.texts : \E n \in 1..size.width : \E tools \in [1..n -> size.tools] : Act(tools, text)
  <2>1. PICK text \in size.texts, n \in 1..size.width : \E tools \in [1..n -> size.tools] : Act(tools, text)
    BY <1>13
  <2>2. PICK tools \in [1..n -> size.tools] : Act(tools, text)
    BY <2>1
  <2>3. /\ n \in Nat /\ Ids(n) \in Seq(Nat) /\ text \in Texts
        /\ Assistant(Ids(n), text) \in MessageSet /\ Emit(Assistant(Ids(n), text)) /\ Len(batch') = n
        /\ \A k \in 1..n : batch'[k].at = "asked" /\ batch'[k].says = "done"
    BY <1>1, <2>2, ActIs
  <2>4. UNCHANGED events /\ pc' # "open"
    BY <2>2 DEF Act
  <2>5. QuietWire
    <3>1. Assistant(Ids(n), text).says # "created"
      BY <2>3, AssistantIs
    <3>. QED BY <2>3, <3>1 DEF Emit, QuietWire
  <2>6. QuietCalls
    BY <2>3 DEF QuietCalls
  <2>. QED BY <1>1, <2>4, <2>5, <2>6, QuietNames
<1>14. CASE Nudge
  <2>1. Emit(Note("nudge")) \/ UNCHANGED wire
    BY <1>14 DEF Nudge
  <2>2. UNCHANGED <<events, batch, answered>> /\ pc' # "open"
    BY <1>1, <1>14 DEF Nudge, calls
  <2>. QED BY <1>1, <2>1, <2>2, NoteNames
<1>15. CASE Accept
  <2>1. UNCHANGED <<wire, events, batch, answered>> /\ pc' # "open"
    BY <1>1, <1>15 DEF Accept, files, loop, calls, world, Ends
  <2>. QED BY <1>1, <2>1, NoteNames
<1>16. CASE \E says \in {"malformed", "unheard"} : Refuse(says)
  <2>1. PICK says \in {"malformed", "unheard"} : Refuse(says)
    BY <1>16
  <2>2. /\ Emit(Result(batch[1].id, says, 0, "plain")) /\ UNCHANGED events /\ batch' = <<>>
        /\ pc = "door" /\ pc' = "top"
    BY <2>1 DEF Refuse
  <2>3. Result(batch[1].id, says, 0, "plain") \in MessageSet
    <3>1. RecordTypes /\ 1 \in 1..Len(batch)
      BY <1>1, <2>2 DEF EpisodeTypes, PlaceTypes
    <3>. QED BY <3>1, AnswersAre
  <2>4. Result(batch[1].id, says, 0, "plain").says # "created"
    BY DEF Result, Message
  <2>5. QuietWire
    BY <2>2, <2>3, <2>4 DEF Emit, QuietWire
  <2>. QED BY <1>1, <2>2, <2>5, QuietCallsAre, QuietNames
<1>17. CASE \E k \in DOMAIN batch : CallStep(k)
  BY <1>1, <1>17, CallNames
<1>18. CASE Joined
  <2>1. UNCHANGED <<wire, events, batch, answered>> /\ pc' # "open"
    BY <1>1, <1>18 DEF Joined, files, loop, calls, world, Ends
  <2>. QED BY <1>1, <2>1, NoteNames
<1>19. CASE Answer
  BY <1>1, <1>19, AnswerNames
<1>20. CASE TurnOver
  <2>1. UNCHANGED <<wire, events>> /\ batch' = <<>> /\ pc' = "top"
    BY <1>20 DEF TurnOver, files
  <2>2. QuietWire
    BY <2>1 DEF QuietWire
  <2>. QED BY <1>1, <2>1, <2>2, QuietCallsAre, QuietNames
<1>21. CASE Shutdown
  <2>1. Emit(Note("report")) \/ UNCHANGED wire
    BY <1>21 DEF Shutdown
  <2>2. UNCHANGED <<events, batch, answered>> /\ pc' # "open"
    BY <1>1, <1>21 DEF Shutdown, calls
  <2>. QED BY <1>1, <2>1, <2>2, NoteNames
<1>22. CASE Conclude
  <2>1. UNCHANGED <<wire, events>> /\ batch' = <<>> /\ pc' # "open"
    BY <1>22 DEF Conclude, Leave, files
  <2>2. QuietWire
    BY <2>1 DEF QuietWire
  <2>. QED BY <1>1, <2>1, <2>2, QuietCallsAre, QuietNames
<1>23. CASE Gone
  <2>1. UNCHANGED <<wire, events>> /\ batch' = <<>> /\ pc' # "open"
    BY <1>23 DEF Gone, Leave, files
  <2>2. QuietWire
    BY <2>1 DEF QuietWire
  <2>. QED BY <1>1, <2>1, <2>2, QuietCallsAre, QuietNames
<1>24. CASE Interrupt
  <2>1. UNCHANGED <<wire, events, batch, answered>> /\ pc' # "open"
    BY <1>1, <1>24 DEF Interrupt, files, loop, calls, world
  <2>. QED BY <1>1, <2>1, NoteNames
<1>25. CASE Kill
  <2>1. pc' = "down" /\ batch' = <<>>
    BY <1>25 DEF Kill, Leave
  <2>2. QuietWire
    BY <1>25 DEF Kill, QuietWire
  <2>3. UNCHANGED events \/ events' = Tear(events)
    BY <1>25 DEF Kill
  <2>4. UNCHANGED events \/ ~Whole(events)'
    <3>1. events \in Seq(EventRow) /\ Torn \in EventRow
      BY <1>1, MarksAre DEF EpisodeTypes, RecordTypes
    <3>2. ~Whole(Tear(events))
      BY <3>1, TearIs
    <3>3. events' = Tear(events) => ~Whole(events)'
      BY <3>2 DEF Whole
    <3>. QED BY <2>3, <3>3
  <2>. QED BY <1>1, <2>1, <2>2, <2>4, QuietCallsAre, QuietNames
<1>26. CASE Supervise
  <2>1. UNCHANGED <<wire, events, batch, answered>> /\ pc' # "open"
    BY <1>1, <1>26 DEF Supervise, files, loop, calls, world
  <2>. QED BY <1>1, <2>1, NoteNames
<1>27. CASE Rest
  <2>1. UNCHANGED <<wire, events, batch, answered, messages, pc>>
    BY <1>27 DEF Rest, files, loop, calls, world, episodeVars
  <2>. QED BY <1>1, <1>2, <2>1
<1>28. CASE LateWrites
  <2>1. UNCHANGED <<wire, events, batch, answered, messages, pc>>
    BY <1>28 DEF LateWrites, files, loop, calls, world
  <2>. QED BY <1>1, <1>2, <2>1
<1>29. CASE Tick
  <2>1. UNCHANGED <<wire, events, batch, answered, messages, pc>>
    BY <1>29 DEF Tick, files, loop, calls, world
  <2>. QED BY <1>1, <1>2, <2>1
<1>30. CASE \E j \in DOMAIN jobs : JobExits(j)
  <2>1. UNCHANGED <<wire, events, batch, answered, messages, pc>>
    BY <1>30 DEF JobExits, files, loop, calls, world
  <2>. QED BY <1>1, <1>2, <2>1
<1>. QED BY <1>3, <1>4, <1>5, <1>6, <1>7, <1>8, <1>9, <1>10, <1>11, <1>12, <1>13, <1>14,
            <1>15, <1>16, <1>17, <1>18, <1>19, <1>20, <1>21, <1>22, <1>23, <1>24, <1>25,
            <1>26, <1>27, <1>28, <1>29, <1>30
         DEF EpisodeNext, Launch, Scientist, Stopping, TurnTop, Reply, Door, Finish

\* Nobody has been named at the beginning.
LEMMA NamesBegin == EpisodeInit => ItemNames
<1>1. ASSUME EpisodeInit PROVE Len(wire) = 0 /\ Len(batch) = 0 /\ Len(messages) = 0
  BY <1>1 DEF EpisodeInit
<1>. QED BY <1>1 DEF ItemNames, CallsInTurn, NamesApart, Made, Waiting

\* Two answers never name the same new item of the research memory: the calls of a
\* turn draw their names one after the other, from a memory that has every earlier
\* one (_next_memory_id, remember).
THEOREM EpisodeNamesOnce == EpisodeSpec => []OneItemPerName
<1>1. EpisodeInit => EpisodeTypes /\ ItemNames
  BY TypesBegin, NamesBegin
<1>2. EpisodeTypes /\ ItemNames /\ [EpisodeNext]_episodeVars => (EpisodeTypes /\ ItemNames)'
  <2>1. ASSUME EpisodeTypes, ItemNames, UNCHANGED episodeVars PROVE ItemNames'
    <3>1. UNCHANGED <<wire, events, batch, answered, messages, pc>>
      BY <2>1 DEF episodeVars, files, loop, calls
    <3>. QED BY <2>1, <3>1 DEF ItemNames, CallsInTurn, NamesApart, Made, Waiting, Items, Whole
  <2>. QED BY <2>1, TypesStep, NamesStep
<1>3. EpisodeTypes /\ ItemNames => OneItemPerName
  <2>1. EpisodeTypes => DOMAIN wire = 1..Len(wire)
    BY DEF EpisodeTypes, RecordTypes
  <2>. QED BY <2>1 DEF ItemNames, NamesApart, Made, OneItemPerName
<1>. QED BY <1>1, <1>2, <1>3, PTL DEF EpisodeSpec
--------------------------------------------------------------------------------
(* The view of the day: whatever the conversation was, it holds the view once *)
(* the view has been put in place, and only a call of the turn revises it. *)

Seen(ms) == Leaving({"user", "assistant", "tool"}, {}, ms)

\* Where the model is shown the view, or is about to be.
Showing == {"open", "top", "drain", "think", "nudge", "door"}
ViewShown == pc \in Showing => Seen(messages) = Today(views)

\* What a step may do to a conversation that shows the view.
Shows == pc' \in Showing =>
    /\ UNCHANGED views
    /\ \/ pc \in Showing /\ UNCHANGED messages
       \/ pc \in Showing /\ \E m \in MessageSet : m.role # "view" /\ messages' = Append(messages, m)
       \/ \E ms \in Seq(MessageSet) : messages' = Upserted(ms, views)

\* A conversation that was given the view of the day has it, and no other.
LEMMA UpsertedShows ==
    ASSUME NEW ms \in Seq(MessageSet), NEW rows \in Seq(ViewRow)
    PROVE  Seen(Upserted(ms, rows)) = Today(rows)
<1>. DEFINE kept  == Leaving({"view"}, {"quotes"}, ms)
            at    == FirstTurn(kept)
            front == SubSeq(kept, 1, at - 1)
            tail  == SubSeq(kept, at, Len(kept))
            day   == Today(rows)
<1>1. /\ Upserted(ms, rows) = front \o day \o tail
      /\ kept \in Seq(MessageSet) /\ at \in 1..Len(kept) + 1
  BY UpsertedIs
<1>2. \A i \in 1..Len(kept) : kept[i].role \in {"user", "assistant", "tool"}
  <2>1. \A i \in 1..Len(kept) : ~Drops({"view"}, {"quotes"}, kept[i])
    BY LeavingOf
  <2>2. \A i \in 1..Len(kept) : kept[i] \in MessageSet
    BY <1>1
  <2>3. \A m \in MessageSet : m.role \in {"user", "view", "assistant", "tool"}
    BY DEF MessageSet
  <2>. QED BY <2>1, <2>2, <2>3 DEF Drops
<1>. HIDE DEF kept, at
<1>3. /\ front \in Seq(MessageSet) /\ tail \in Seq(MessageSet)
      /\ Len(front) = at - 1 /\ Len(tail) = Len(kept) + 1 - at
      /\ \A i \in 1..at - 1 : front[i] = kept[i]
      /\ \A i \in 1..Len(kept) + 1 - at : tail[i] = kept[at + i - 1]
  BY <1>1, CutIs
<1>4. day \in Seq(MessageSet) /\ \A i \in 1..Len(day) : day[i].role = "view"
  BY TodayIs
<1>. HIDE DEF front, tail, day
<1>4a. Len(kept) \in Nat
  BY <1>1
<1>5. Seen(front) = <<>>
  <2>1. \A i \in 1..Len(front) : i \in 1..Len(kept) /\ front[i] = kept[i]
    BY <1>1, <1>3, <1>4a
  <2>2. \A i \in 1..Len(front) : Drops({"user", "assistant", "tool"}, {}, front[i])
    BY <1>2, <2>1 DEF Drops
  <2>. QED BY <1>3, <2>2, LeavingNone DEF Seen
<1>6. Seen(tail) = <<>>
  <2>1. \A i \in 1..Len(tail) : at + i - 1 \in 1..Len(kept) /\ tail[i] = kept[at + i - 1]
    BY <1>1, <1>3, <1>4a
  <2>2. \A i \in 1..Len(tail) : Drops({"user", "assistant", "tool"}, {}, tail[i])
    BY <1>2, <2>1 DEF Drops
  <2>. QED BY <1>3, <2>2, LeavingNone DEF Seen
<1>7. Seen(day) = day
  <2>1. \A i \in 1..Len(day) : ~Drops({"user", "assistant", "tool"}, {}, day[i])
    BY <1>4 DEF Drops
  <2>. QED BY <1>4, <2>1, LeavingAll DEF Seen
<1>8. front \o day \in Seq(MessageSet)
  BY <1>3, <1>4
<1>8a. \A a, b \in Seq(MessageSet) : Seen(a \o b) = Seen(a) \o Seen(b)
  BY LeavingJoin DEF Seen
<1>9. Seen(front \o day) = Seen(front) \o Seen(day)
  BY <1>3, <1>4, <1>8a
<1>10. Seen(front \o day \o tail) = Seen(front \o day) \o Seen(tail)
  BY <1>3, <1>8, <1>8a
<1>11. <<>> \o day = day /\ day \o <<>> = day
  BY <1>4
<1>12. Seen(front \o day \o tail) = day
  BY <1>5, <1>6, <1>7, <1>9, <1>10, <1>11
<1>. QED BY <1>1, <1>12 DEF day

\* Such a step keeps the view in place.
LEMMA ShowsKeeps ==
    ASSUME EpisodeTypes, ViewShown, Shows
    PROVE  ViewShown'
<1>1. messages \in Seq(MessageSet) /\ views \in Seq(ViewRow)
  BY DEF EpisodeTypes, RecordTypes
<1>. SUFFICES ASSUME pc' \in Showing PROVE Seen(messages') = Today(views)
  <2>1. pc' \in Showing => UNCHANGED views
    BY DEF Shows
  <2>. QED BY <2>1 DEF ViewShown, Today
<1>2. CASE pc \in Showing /\ UNCHANGED messages
  BY <1>2 DEF ViewShown
<1>3. CASE pc \in Showing /\ \E m \in MessageSet : m.role # "view" /\ messages' = Append(messages, m)
  <2>1. PICK m \in MessageSet : m.role # "view" /\ messages' = Append(messages, m)
    BY <1>3
  <2>2. m.role \in {"user", "assistant", "tool"}
    BY <2>1 DEF MessageSet
  <2>3. Drops({"user", "assistant", "tool"}, {}, m)
    BY <2>2 DEF Drops
  <2>4. Seen(Append(messages, m)) = Seen(messages)
    BY <1>1, <2>3, LeavingMore DEF Seen
  <2>. QED BY <1>3, <2>1, <2>4 DEF ViewShown
<1>4. CASE \E ms \in Seq(MessageSet) : messages' = Upserted(ms, views)
  BY <1>1, <1>4, UpsertedShows
<1>. QED BY <1>2, <1>3, <1>4 DEF Shows

\* A step that emits a note, or nothing, from a place where the view is shown.
LEMMA NoteShows ==
    ASSUME pc \in Showing, UNCHANGED views,
           NEW says \in {"opening", "resumed", "inherited", "knock", "pace", "job", "nudge", "report"},
           Emit(Note(says)) \/ UNCHANGED messages
    PROVE  Shows
<1>1. Note(says) \in MessageSet /\ Note(says).role # "view"
  BY NotesAre
<1>. QED BY <1>1 DEF Emit, Shows

\* Every step of the episode leaves the view where it is shown, or puts it there.
LEMMA ShowsStep == ASSUME EpisodeTypes, EpisodeNext PROVE Shows
<1>1. /\ messages \in Seq(MessageSet) /\ views \in Seq(ViewRow) /\ wire \in Seq(WireRow) /\ size \in Sizes
  BY DEF EpisodeTypes, RecordTypes, CounterTypes
<1>2. CASE Resume
  <2>1. PICK ms \in Compacted(Append(Prior, Note("resumed"))) : messages' = Upserted(ms, views)
    BY <1>2 DEF Resume
  <2>2. Append(Prior, Note("resumed")) \in Seq(MessageSet)
    BY <1>1, PriorIs, NotesAre, AppendIs
  <2>3. ms \in Seq(MessageSet) /\ UNCHANGED views
    BY <1>2, <2>2, CompactedIs DEF Resume
  <2>. QED BY <2>1, <2>3 DEF Shows
<1>3. CASE Begin
  <2>1. messages' = Upserted(Opening, views) /\ UNCHANGED views
    BY <1>3 DEF Begin, files
  <2>2. Opening \in Seq(MessageSet)
    BY <1>1, OpeningIs
  <2>. QED BY <2>1, <2>2 DEF Shows
<1>4. CASE RecordOpening
  <2>1. Emit(Note("inherited")) \/ UNCHANGED messages
    BY <1>4 DEF RecordOpening
  <2>2. pc \in Showing /\ UNCHANGED views
    BY <1>4 DEF RecordOpening, Showing
  <2>. QED BY <2>1, <2>2, NoteShows
<1>5. CASE Knock
  <2>1. Emit(Note("knock")) \/ UNCHANGED messages
    BY <1>5 DEF Knock
  <2>2. pc \in Showing /\ UNCHANGED views
    BY <1>5 DEF Knock, Showing
  <2>. QED BY <2>1, <2>2, NoteShows
<1>6. CASE CutOff
  <2>1. pc' \notin Showing
    BY <1>6 DEF CutOff, Showing, Ends
  <2>. QED BY <2>1 DEF Shows
<1>7. CASE Pace
  <2>1. Emit(Note("pace")) \/ UNCHANGED messages
    BY <1>7 DEF Pace
  <2>2. pc \in Showing /\ UNCHANGED views
    BY <1>7 DEF Pace, Showing
  <2>. QED BY <2>1, <2>2, NoteShows
<1>8. CASE Drained
  <2>1. UNCHANGED <<views, messages>> /\ (pc' \in Showing => pc \in Showing)
    BY <1>8 DEF Drained, files, loop, calls, world, Showing
  <2>. QED BY <2>1 DEF Shows
<1>9. CASE DrainHand \/ \E j \in DOMAIN jobs : DrainJob(j)
  <2>1. Emit(Note("job")) \/ Emit(Note("report"))
    BY <1>9 DEF DrainHand, DrainJob
  <2>2. pc \in Showing /\ UNCHANGED views
    BY <1>9 DEF DrainHand, DrainJob, Showing
  <2>. QED BY <2>1, <2>2, NoteShows
<1>10. CASE ModelFails
  <2>1. pc' \notin Showing
    BY <1>10 DEF ModelFails, Showing, Ends
  <2>. QED BY <2>1 DEF Shows
<1>11. CASE \E text \in size.texts : TalkOnly(text)
  <2>1. PICK text \in size.texts : TalkOnly(text)
    BY <1>11
  <2>2. messages' = Append(messages, Assistant(<<>>, text)) /\ UNCHANGED views /\ pc = "think"
    BY <2>1 DEF TalkOnly, Emit
  <2>3. text \in Texts
    BY <1>1, SizeIs
  <2>4. Assistant(<<>>, text) \in MessageSet /\ Assistant(<<>>, text).role # "view"
    BY <2>3, PlainIs, AssistantIs
  <2>. QED BY <2>2, <2>4 DEF Shows, Showing
<1>12. CASE \E text \in size.texts : \E n \in 1..size.width : \E tools \in [1..n -> size.tools] : Act(tools, text)
  <2>1. PICK text \in size.texts, n \in 1..size.width : \E tools \in [1..n -> size.tools] : Act(tools, text)
    BY <1>12
  <2>2. PICK tools \in [1..n -> size.tools] : Act(tools, text)
    BY <2>1
  <2>3. /\ Ids(n) \in Seq(Nat) /\ text \in Texts
        /\ Assistant(Ids(n), text) \in MessageSet /\ Emit(Assistant(Ids(n), text))
    BY <2>2, ActIs
  <2>4. UNCHANGED views /\ pc = "think"
    BY <2>2 DEF Act
  <2>5. Assistant(Ids(n), text).role # "view"
    BY <2>3, AssistantIs
  <2>. QED BY <2>3, <2>4, <2>5 DEF Emit, Shows, Showing
<1>13. CASE Nudge
  <2>1. Emit(Note("nudge")) \/ UNCHANGED messages
    BY <1>13 DEF Nudge
  <2>2. pc \in Showing /\ UNCHANGED views
    BY <1>13 DEF Nudge, Showing
  <2>. QED BY <2>1, <2>2, NoteShows
<1>14. CASE Accept
  <2>1. pc' \notin Showing
    BY <1>14 DEF Accept, Showing, Ends
  <2>. QED BY <2>1 DEF Shows
<1>15. CASE \E says \in {"malformed", "unheard"} : Refuse(says)
  <2>1. PICK says \in {"malformed", "unheard"} : Refuse(says)
    BY <1>15
  <2>2. Emit(Result(batch[1].id, says, 0, "plain")) /\ UNCHANGED views /\ pc = "door"
    BY <2>1 DEF Refuse
  <2>3. Result(batch[1].id, says, 0, "plain") \in MessageSet
    <3>1. RecordTypes /\ Len(batch) = 1
      BY <2>2 DEF EpisodeTypes, PlaceTypes
    <3>2. 1 \in 1..1
      OBVIOUS
    <3>. QED BY <3>1, <3>2, AnswersAre
  <2>4. Result(batch[1].id, says, 0, "plain").role # "view"
    BY DEF Result, Message
  <2>. QED BY <2>2, <2>3, <2>4 DEF Emit, Shows, Showing
<1>16. CASE \E k \in DOMAIN batch : CallStep(k)
  <2>1. pc' = "act"
    BY <1>16, CallFrame
  <2>. QED BY <2>1 DEF Shows, Showing
<1>17. CASE Joined
  <2>1. pc' \notin Showing
    BY <1>17 DEF Joined, Showing, Ends
  <2>. QED BY <2>1 DEF Shows
<1>18. CASE Answer
  <2>1. pc' \notin Showing
    BY <1>18 DEF Answer, Showing
  <2>. QED BY <2>1 DEF Shows
<1>19. CASE TurnOver
  <2>1. PICK ms \in Compacted(messages) : messages' = Upserted(ms, views)
    BY <1>19 DEF TurnOver
  <2>2. ms \in Seq(MessageSet) /\ UNCHANGED views
    BY <1>19, <1>1, CompactedIs DEF TurnOver, files
  <2>. QED BY <2>1, <2>2 DEF Shows
<1>20. CASE Shutdown
  <2>1. pc' \notin Showing
    BY <1>20 DEF Shutdown, Showing
  <2>. QED BY <2>1 DEF Shows
<1>21. CASE Conclude
  <2>1. pc' \notin Showing
    BY <1>21 DEF Conclude, Showing
  <2>. QED BY <2>1 DEF Shows
<1>22. CASE Gone
  <2>1. pc' \notin Showing
    BY <1>22 DEF Gone, Showing
  <2>. QED BY <2>1 DEF Shows
<1>23. CASE Interrupt
  <2>1. pc' \notin Showing
    BY <1>23 DEF Interrupt, Showing
  <2>. QED BY <2>1 DEF Shows
<1>24. CASE Kill
  <2>1. pc' \notin Showing
    BY <1>24 DEF Kill, Showing
  <2>. QED BY <2>1 DEF Shows
<1>25. CASE Supervise
  <2>1. pc' \notin Showing
    BY <1>25 DEF Supervise, Showing
  <2>. QED BY <2>1 DEF Shows
<1>26. CASE Rest
  <2>1. UNCHANGED <<views, messages>> /\ (pc' \in Showing => pc \in Showing)
    BY <1>26 DEF Rest, files, loop, calls, world, Showing, episodeVars
  <2>. QED BY <2>1 DEF Shows
<1>27. CASE LateWrites
  <2>1. UNCHANGED <<views, messages>> /\ (pc' \in Showing => pc \in Showing)
    BY <1>27 DEF LateWrites, files, loop, calls, world, Showing
  <2>. QED BY <2>1 DEF Shows
<1>28. CASE Tick
  <2>1. UNCHANGED <<views, messages>> /\ (pc' \in Showing => pc \in Showing)
    BY <1>28 DEF Tick, files, loop, calls, world, Showing
  <2>. QED BY <2>1 DEF Shows
<1>29. CASE \E j \in DOMAIN jobs : JobExits(j)
  <2>1. UNCHANGED <<views, messages>> /\ (pc' \in Showing => pc \in Showing)
    BY <1>29 DEF JobExits, files, loop, calls, world, Showing
  <2>. QED BY <2>1 DEF Shows
<1>. QED BY <1>2, <1>3, <1>4, <1>5, <1>6, <1>7, <1>8, <1>9, <1>10, <1>11, <1>12, <1>13, <1>14,
            <1>15, <1>16, <1>17, <1>18, <1>19, <1>20, <1>21, <1>22, <1>23, <1>24, <1>25,
            <1>26, <1>27, <1>28, <1>29
         DEF EpisodeNext, Launch, Scientist, Stopping, TurnTop, Reply, Door, Finish

\* The view shown is the one on file after every step, wherever one is shown.
LEMMA ViewStep == EpisodeTypes /\ ViewShown /\ [EpisodeNext]_episodeVars => ViewShown'
<1>1. EpisodeTypes /\ ViewShown /\ UNCHANGED episodeVars => ViewShown'
  BY DEF ViewShown, Today, episodeVars, files, loop
<1>. QED BY <1>1, ShowsStep, ShowsKeeps

\* The model thinks with the view of the day, once: what a call has revised is put in
\* place with its answer or at the end of the turn, whatever compaction and a resume
\* have made of the conversation (_upsert_judgment_message).
THEOREM EpisodeShowsTheView == EpisodeSpec => []ViewIsCurrent
<1>1. EpisodeInit => EpisodeTypes /\ ViewShown
  BY TypesBegin DEF EpisodeInit, ViewShown, Showing
<1>2. EpisodeTypes /\ ViewShown /\ [EpisodeNext]_episodeVars => (EpisodeTypes /\ ViewShown)'
  BY TypesStep, ViewStep
<1>3. ViewShown => ViewIsCurrent
  BY DEF ViewShown, ViewIsCurrent, Showing, Seen, Today
<1>. QED BY <1>1, <1>2, <1>3, PTL DEF EpisodeSpec
--------------------------------------------------------------------------------
(* The exit: a delivery is accepted when it was listened to, or when it was refused *)
(* often enough, and the wire tells how often.                             *)

Refused == {i \in 1..Len(wire) : wire[i].says = "unheard"}
Finished    == {"exit", "conclude", "ended"}
\* What excuses a delivery.
Excused == LooksHeard \/ loose # {} \/ (Whole(wire) => Cardinality(Refused) >= MaxRefusals)

\* What is still at work when the loop has been left was noted then.
AtWorkIsLoose == (hand => "hand" \in loose) /\ \A j \in DOMAIN jobs : jobs[j] # "running"

HeardOut ==
    /\ Whole(wire) => refusals <= Cardinality(Refused)
    /\ pc \in Finished => AtWorkIsLoose
    /\ pc \in {"exit", "conclude"} /\ outcome = "deliver" => Excused
    /\ pc = "ended" /\ concl = "deliver" => Excused

\* A wire that is whole after an append or a kill was whole, and holds what it held.
LEMMA RefusedGrows ==
    ASSUME wire \in Seq(WireRow),
           UNCHANGED wire \/ wire' = Tear(wire) \/ \E m \in MessageSet : wire' = Write(wire, m)
    PROVE  Whole(wire)' => /\ Whole(wire) /\ Refused \subseteq Refused'
                           /\ Cardinality(Refused) \in Nat /\ Cardinality(Refused') \in Nat
                           /\ Cardinality(Refused) <= Cardinality(Refused')
                           /\ \A m \in MessageSet : wire' = Write(wire, m) /\ m.says = "unheard"
                                 => Cardinality(Refused') = Cardinality(Refused) + 1
<1>. SUFFICES ASSUME Whole(wire)'
              PROVE  /\ Whole(wire) /\ Refused \subseteq Refused'
                     /\ Cardinality(Refused) \in Nat /\ Cardinality(Refused') \in Nat
                     /\ Cardinality(Refused) <= Cardinality(Refused')
                     /\ \A m \in MessageSet : wire' = Write(wire, m) /\ m.says = "unheard"
                           => Cardinality(Refused') = Cardinality(Refused) + 1
  OBVIOUS
<1>1. Len(wire) \in Nat /\ Torn \in WireRow /\ Broken \in WireRow /\ MessageSet \subseteq WireRow
  BY MarksAre DEF WireRow
<1>2. \A m \in MessageSet : wire' = Write(wire, m) => Whole(wire) /\ wire' = Append(wire, m)
  <2>1. ASSUME NEW m \in MessageSet, wire' = Write(wire, m) PROVE Whole(wire) /\ wire' = Append(wire, m)
    <3>1. Whole(Write(wire, m))
      BY <2>1 DEF Whole
    <3>2. m \in WireRow
      BY <1>1
    <3>. QED BY <1>1, <2>1, <3>1, <3>2, WholeWrite
  <2>. QED BY <2>1
<1>3. wire' # Tear(wire)
  <2>1. ~Whole(Tear(wire))
    BY <1>1, TearIs
  <2>. QED BY <2>1 DEF Whole
<1>4. IsFiniteSet(Refused) /\ IsFiniteSet(Refused')
  <2>1. Len(wire') \in Nat
    BY <1>1, <1>2, <1>3
  <2>2. IsFiniteSet(1..Len(wire)) /\ IsFiniteSet(1..Len(wire'))
    BY <1>1, <2>1, FS_Interval
  <2>3. Refused \subseteq 1..Len(wire) /\ Refused' \subseteq 1..Len(wire')
    BY DEF Refused
  <2>. QED BY <2>2, <2>3, FS_Subset
<1>5. \A m \in MessageSet : wire' = Append(wire, m) =>
         Refused' = IF m.says = "unheard" THEN Refused \cup {Len(wire) + 1} ELSE Refused
  <2>1. ASSUME NEW m \in MessageSet, wire' = Append(wire, m)
        PROVE Refused' = IF m.says = "unheard" THEN Refused \cup {Len(wire) + 1} ELSE Refused
    <3>1. /\ Len(wire') = Len(wire) + 1 /\ wire'[Len(wire) + 1] = m
          /\ \A i \in 1..Len(wire) : wire'[i] = wire[i]
      BY <1>1, <2>1
    <3>2. \A i : i \in 1..Len(wire) + 1 <=> i \in 1..Len(wire) \/ i = Len(wire) + 1
      BY <1>1
    <3>3. \A i : i \in Refused' <=> i \in Refused \/ (i = Len(wire) + 1 /\ m.says = "unheard")
      BY <3>1, <3>2 DEF Refused
    <3>. QED BY <3>3
  <2>. QED BY <2>1
<1>6. Len(wire) + 1 \notin Refused
  BY <1>1 DEF Refused
<1>7. Refused \subseteq Refused'
  <2>1. UNCHANGED wire => Refused' = Refused
    BY DEF Refused
  <2>. QED BY <1>2, <1>3, <1>5, <2>1
<1>8. Cardinality(Refused) \in Nat /\ Cardinality(Refused') \in Nat
  BY <1>4, FS_CardinalityType
<1>9. Cardinality(Refused) <= Cardinality(Refused')
  BY <1>4, <1>7, FS_Subset
<1>10. \A m \in MessageSet : wire' = Write(wire, m) /\ m.says = "unheard"
          => Cardinality(Refused') = Cardinality(Refused) + 1
  BY <1>2, <1>4, <1>5, <1>6, FS_AddElement
<1>11. Whole(wire)
  <2>1. UNCHANGED wire => Whole(wire)
    BY DEF Whole
  <2>. QED BY <1>2, <1>3, <2>1
<1>. QED BY <1>7, <1>8, <1>9, <1>10, <1>11

\* Every step of the episode appends to the wire, or leaves it, or is a kill.
WireMoves == UNCHANGED wire \/ wire' = Tear(wire) \/ \E m \in MessageSet : wire' = Write(wire, m)
\* Every step writes one message, tears the wire, or leaves it.
LEMMA WireStep == ASSUME EpisodeTypes, EpisodeNext PROVE WireMoves
<1>1. \A says \in {"opening", "resumed", "inherited", "knock", "pace", "job", "nudge", "report"} :
         Note(says) \in MessageSet
  BY NotesAre
<1>. USE DEF WireMoves
<1>2. CASE Resume
  BY <1>1, <1>2 DEF Resume
<1>3. CASE Begin
  BY <1>3 DEF Begin, files, loop, calls, world
<1>4. CASE RecordOpening
  <2>1. CASE opened < Len(messages)
    <3>1. wire' = Write(wire, messages[opened + 1])
      BY <1>4, <2>1 DEF RecordOpening
    <3>2. messages \in Seq(MessageSet) /\ opened \in Nat
      BY DEF EpisodeTypes, RecordTypes, PlaceTypes
    <3>3. messages[opened + 1] \in MessageSet
      BY <2>1, <3>2
    <3>. QED BY <3>1, <3>3
  <2>2. CASE ~(opened < Len(messages))
    BY <1>1, <1>4, <2>2 DEF RecordOpening, Emit
  <2>. QED BY <2>1, <2>2
<1>5. CASE Knock
  BY <1>1, <1>5 DEF Knock, Emit
<1>6. CASE CutOff
  BY <1>6 DEF CutOff, files, loop, calls, world, Ends
<1>7. CASE Pace
  BY <1>1, <1>7 DEF Pace, Emit
<1>8. CASE Drained
  BY <1>8 DEF Drained, files, loop, calls, world
<1>9. CASE DrainHand \/ \E j \in DOMAIN jobs : DrainJob(j)
  BY <1>1, <1>9 DEF DrainHand, DrainJob, Emit
<1>10. CASE ModelFails
  BY <1>10 DEF ModelFails, files, loop, calls, world, Ends
<1>11. CASE \E text \in size.texts : TalkOnly(text)
  <2>1. PICK text \in size.texts : TalkOnly(text)
    BY <1>11
  <2>2. wire' = Write(wire, Assistant(<<>>, text))
    BY <2>1 DEF TalkOnly, Emit
  <2>3. text \in Texts
    BY SizeIs DEF EpisodeTypes, CounterTypes
  <2>. QED BY <2>2, <2>3, PlainIs, AssistantIs
<1>12. CASE \E text \in size.texts : \E n \in 1..size.width : \E tools \in [1..n -> size.tools] : Act(tools, text)
  <2>1. PICK text \in size.texts, n \in 1..size.width : \E tools \in [1..n -> size.tools] : Act(tools, text)
    BY <1>12
  <2>2. PICK tools \in [1..n -> size.tools] : Act(tools, text)
    BY <2>1
  <2>3. Assistant(Ids(n), text) \in MessageSet /\ Emit(Assistant(Ids(n), text))
    BY <2>2, ActIs
  <2>. QED BY <2>3 DEF Emit
<1>13. CASE Nudge
  BY <1>1, <1>13 DEF Nudge, Emit
<1>14. CASE Accept
  BY <1>14 DEF Accept, files, loop, calls, world, Ends
<1>15. CASE \E says \in {"malformed", "unheard"} : Refuse(says)
  <2>1. PICK says \in {"malformed", "unheard"} : Refuse(says)
    BY <1>15
  <2>2. wire' = Write(wire, Result(batch[1].id, says, 0, "plain")) /\ pc = "door"
    BY <2>1 DEF Refuse, Emit
  <2>3. RecordTypes /\ Len(batch) = 1
    BY <2>2 DEF EpisodeTypes, PlaceTypes
  <2>4. 1 \in 1..1
    OBVIOUS
  <2>. QED BY <2>2, <2>3, <2>4, AnswersAre
<1>16. CASE \E k \in DOMAIN batch : CallStep(k)
  BY <1>16, CallFrame
<1>17. CASE Joined
  BY <1>17 DEF Joined, files, loop, calls, world, Ends
<1>18. CASE Answer
  <2>1. RecordTypes /\ answered + 1 \in 1..Len(batch)
    <3>1. answered \in 0..Len(batch) /\ Len(batch) \in Nat /\ answered < Len(batch) /\ RecordTypes
      BY <1>18 DEF Answer, EpisodeTypes, RecordTypes
    <3>. QED BY <3>1
  <2>. QED BY <1>18, <2>1, AnswersAre DEF Answer
<1>19. CASE TurnOver
  BY <1>19 DEF TurnOver, files, loop, calls, world
<1>20. CASE Shutdown
  BY <1>1, <1>20 DEF Shutdown, Emit
<1>21. CASE Conclude
  BY <1>21 DEF Conclude
<1>22. CASE Gone
  BY <1>22 DEF Gone, files, loop, calls, world
<1>23. CASE Interrupt
  BY <1>23 DEF Interrupt, files, loop, calls, world
<1>24. CASE Kill
  BY <1>24 DEF Kill
<1>25. CASE Supervise
  BY <1>25 DEF Supervise, files, loop, calls, world
<1>26. CASE Rest
  BY <1>26 DEF Rest, files, loop, calls, world, episodeVars
<1>27. CASE LateWrites
  BY <1>27 DEF LateWrites, files, loop, calls, world
<1>28. CASE Tick
  BY <1>28 DEF Tick, files, loop, calls, world
<1>29. CASE \E j \in DOMAIN jobs : JobExits(j)
  BY <1>29 DEF JobExits, files, loop, calls, world
<1>. QED BY <1>2, <1>3, <1>4, <1>5, <1>6, <1>7, <1>8, <1>9, <1>10, <1>11, <1>12, <1>13, <1>14,
            <1>15, <1>16, <1>17, <1>18, <1>19, <1>20, <1>21, <1>22, <1>23, <1>24, <1>25,
            <1>26, <1>27, <1>28, <1>29
         DEF EpisodeNext, Launch, Scientist, Stopping, TurnTop, Reply, Door, Finish

\* What a step may do to the excuse of a delivery.
LEMMA StaysExcused ==
    ASSUME EpisodeTypes, EpisodeNext, Excused, UNCHANGED heard, loose \subseteq loose'
    PROVE  Excused'
<1>1. wire \in Seq(WireRow) /\ MaxRefusals \in Nat
  BY SizeIs DEF EpisodeTypes, RecordTypes, CounterTypes
<1>2. Whole(wire)' => Whole(wire) /\ Cardinality(Refused) \in Nat /\ Cardinality(Refused') \in Nat
                      /\ Cardinality(Refused) <= Cardinality(Refused')
  BY <1>1, WireStep, RefusedGrows DEF WireMoves
<1>3. (LooksHeard => LooksHeard') /\ (loose # {} => loose' # {})
  BY DEF LooksHeard
<1>. QED BY <1>1, <1>2, <1>3 DEF Excused

\* The refusals of a life are on the wire, as long as it is whole.
LEMMA CountStep == ASSUME EpisodeTypes, HeardOut, EpisodeNext PROVE Whole(wire)' => refusals' <= Cardinality(Refused')
<1>. SUFFICES ASSUME Whole(wire)' PROVE refusals' <= Cardinality(Refused')
  OBVIOUS
<1>1. wire \in Seq(WireRow) /\ refusals \in Nat
  <2>1. MaxRefusals \in Nat
    BY SizeIs DEF EpisodeTypes, CounterTypes
  <2>. QED BY <2>1 DEF EpisodeTypes, RecordTypes, CounterTypes
<1>2. /\ Whole(wire) /\ Cardinality(Refused) \in Nat /\ Cardinality(Refused') \in Nat
      /\ Cardinality(Refused) <= Cardinality(Refused')
  BY <1>1, WireStep, RefusedGrows DEF WireMoves
<1>3. refusals <= Cardinality(Refused)
  BY <1>2 DEF HeardOut
<1>4. CASE refusals' = refusals \/ refusals' = 0
  BY <1>1, <1>2, <1>3, <1>4
<1>5. CASE \E says \in {"malformed", "unheard"} : Refuse(says)
  <2>1. PICK says \in {"malformed", "unheard"} : Refuse(says)
    BY <1>5
  <2>2. CASE says # "unheard"
    BY <1>4, <2>1, <2>2 DEF Refuse
  <2>3. CASE says = "unheard"
    <3>1. refusals' = refusals + 1 /\ wire' = Write(wire, Result(batch[1].id, "unheard", 0, "plain")) /\ pc = "door"
      BY <2>1, <2>3 DEF Refuse, Emit
    <3>2. RecordTypes /\ Len(batch) = 1
      BY <3>1 DEF EpisodeTypes, PlaceTypes
    <3>3. 1 \in 1..1
      OBVIOUS
    <3>4. Result(batch[1].id, "unheard", 0, "plain") \in MessageSet
      BY <3>2, <3>3, AnswersAre
    <3>5. Result(batch[1].id, "unheard", 0, "plain").says = "unheard"
      BY DEF Result, Message
    <3>6. Cardinality(Refused') = Cardinality(Refused) + 1
      BY <1>1, <3>1, <3>4, <3>5, RefusedGrows
    <3>. QED BY <1>1, <1>2, <1>3, <3>1, <3>6
  <2>. QED BY <2>2, <2>3
<1>6. CASE ~\E says \in {"malformed", "unheard"} : Refuse(says)
  <2>. SUFFICES refusals' = refusals \/ refusals' = 0
    BY <1>4
  <2>1. CASE Resume
    BY <2>1 DEF Resume, files, loop, calls, world
  <2>2. CASE Begin
    BY <2>2 DEF Begin, files, loop, calls, world
  <2>3. CASE RecordOpening
    BY <2>3 DEF RecordOpening, files, loop, calls, world
  <2>4. CASE Knock
    BY <2>4 DEF Knock, files, loop, calls, world
  <2>5. CASE CutOff
    BY <2>5 DEF CutOff, files, loop, calls, world, Ends
  <2>6. CASE Pace
    BY <2>6 DEF Pace, files, loop, calls, world
  <2>7. CASE Drained
    BY <2>7 DEF Drained, files, loop, calls, world
  <2>8. CASE DrainHand \/ \E j \in DOMAIN jobs : DrainJob(j)
    BY <2>8 DEF DrainHand, DrainJob, files, loop, calls, world
  <2>9. CASE ModelFails
    BY <2>9 DEF ModelFails, files, loop, calls, world, Ends
  <2>10. CASE \E text \in size.texts : TalkOnly(text)
    BY <2>10 DEF TalkOnly, files, loop, calls, world
  <2>11. CASE \E text \in size.texts : \E n \in 1..size.width : \E tools \in [1..n -> size.tools] : Act(tools, text)
    BY <2>11 DEF Act, files, loop, calls, world
  <2>12. CASE Nudge
    BY <2>12 DEF Nudge, files, loop, calls, world
  <2>13. CASE Accept
    BY <2>13 DEF Accept, files, loop, calls, world, Ends
  <2>14. CASE \E says \in {"malformed", "unheard"} : Refuse(says)
    BY <1>6, <2>14
  <2>15. CASE \E k \in DOMAIN batch : CallStep(k)
    BY <2>15, CallFrame DEF loop
  <2>16. CASE Joined
    BY <2>16 DEF Joined, files, loop, calls, world, Ends
  <2>17. CASE Answer
    BY <2>17 DEF Answer, files, loop, calls, world
  <2>18. CASE TurnOver
    BY <2>18 DEF TurnOver, files, loop, calls, world
  <2>19. CASE Shutdown
    BY <2>19 DEF Shutdown, files, loop, calls, world
  <2>20. CASE Conclude
    BY <2>20 DEF Conclude, files, loop, calls, world, Leave
  <2>21. CASE Gone
    BY <2>21 DEF Gone, files, loop, calls, world, Leave
  <2>22. CASE Interrupt
    BY <2>22 DEF Interrupt, files, loop, calls, world
  <2>23. CASE Kill
    BY <2>23 DEF Kill, files, loop, calls, world, Leave
  <2>24. CASE Supervise
    BY <2>24 DEF Supervise, files, loop, calls, world
  <2>25. CASE Rest
    BY <2>25 DEF Rest, files, loop, calls, world, episodeVars
  <2>26. CASE LateWrites
    BY <2>26 DEF LateWrites, files, loop, calls, world
  <2>27. CASE Tick
    BY <2>27 DEF Tick, files, loop, calls, world
  <2>28. CASE \E j \in DOMAIN jobs : JobExits(j)
    BY <2>28 DEF JobExits, files, loop, calls, world
  <2>. QED BY <2>1, <2>2, <2>3, <2>4, <2>5, <2>6, <2>7, <2>8, <2>9, <2>10, <2>11, <2>12, <2>13,
              <2>14, <2>15, <2>16, <2>17, <2>18, <2>19, <2>20, <2>21, <2>22, <2>23, <2>24,
              <2>25, <2>26, <2>27, <2>28
           DEF EpisodeNext, Launch, Scientist, Stopping, TurnTop, Reply, Door, Finish
<1>. QED BY <1>5, <1>6

\* The exit keeps its word from the door to the conclusion.
LEMMA HeardStep == ASSUME EpisodeTypes, HeardOut, EpisodeNext PROVE HeardOut'
<1>1. Whole(wire)' => refusals' <= Cardinality(Refused')
  BY CountStep
<1>2. ASSUME pc' \notin Finished PROVE HeardOut'
  BY <1>1, <1>2 DEF HeardOut, Finished
<1>3. ASSUME pc' = "exit", AtWorkIsLoose', outcome' = "deliver" => Excused'
      PROVE  HeardOut'
  BY <1>1, <1>3 DEF HeardOut, Finished
<1>4. ASSUME NEW how, Ends(how) PROVE pc' = "exit" /\ outcome' = how /\ AtWorkIsLoose'
  BY <1>4 DEF Ends, Released, AtWorkIsLoose
<1>5. Excused /\ UNCHANGED heard /\ loose \subseteq loose' => Excused'
  BY StaysExcused
<1>6. CASE Resume
  <2>1. pc' \notin Finished
    BY <1>6 DEF Resume, Finished, files, loop, calls, world
  <2>. QED BY <1>2, <2>1
<1>7. CASE Begin
  <2>1. pc' \notin Finished
    BY <1>7 DEF Begin, Finished, files, loop, calls, world
  <2>. QED BY <1>2, <2>1
<1>8. CASE RecordOpening
  <2>1. pc' \notin Finished
    BY <1>8 DEF RecordOpening, Finished, files, loop, calls, world
  <2>. QED BY <1>2, <2>1
<1>9. CASE Knock
  <2>1. pc' \notin Finished
    BY <1>9 DEF Knock, Finished, files, loop, calls, world
  <2>. QED BY <1>2, <2>1
<1>10. CASE CutOff
  <2>1. Ends("cut_off")
    BY <1>10 DEF CutOff
  <2>2. outcome' # "deliver"
    BY <1>4, <2>1
  <2>. QED BY <1>3, <1>4, <2>1, <2>2
<1>11. CASE Pace
  <2>1. pc' \notin Finished
    BY <1>11 DEF Pace, Finished, files, loop, calls, world
  <2>. QED BY <1>2, <2>1
<1>12. CASE Drained
  <2>1. pc' \notin Finished
    BY <1>12 DEF Drained, Finished, files, loop, calls, world
  <2>. QED BY <1>2, <2>1
<1>13. CASE DrainHand \/ \E j \in DOMAIN jobs : DrainJob(j)
  <2>1. pc' \notin Finished
    BY <1>13 DEF DrainHand, DrainJob, Finished, files, loop, calls, world
  <2>. QED BY <1>2, <2>1
<1>14. CASE ModelFails
  <2>1. Ends("failed")
    BY <1>14 DEF ModelFails
  <2>2. outcome' # "deliver"
    BY <1>4, <2>1
  <2>. QED BY <1>3, <1>4, <2>1, <2>2
<1>15. CASE \E text \in size.texts : TalkOnly(text)
  <2>1. pc' \notin Finished
    BY <1>15 DEF TalkOnly, Finished, files, loop, calls, world
  <2>. QED BY <1>2, <2>1
<1>16. CASE \E text \in size.texts : \E n \in 1..size.width : \E tools \in [1..n -> size.tools] : Act(tools, text)
  <2>1. pc' \notin Finished
    BY <1>16 DEF Act, Finished, files, loop, calls, world
  <2>. QED BY <1>2, <2>1
<1>17. CASE Nudge
  <2>1. pc' \notin Finished
    BY <1>17 DEF Nudge, Finished, files, loop, calls, world
  <2>. QED BY <1>2, <2>1
<1>18. CASE Accept
  <2>1. Ends(batch[1].tool) /\ UNCHANGED <<wire, heard, refusals>>
    BY <1>18 DEF Accept, Ends, Released, files
  <2>2. ASSUME outcome' = "deliver" PROVE Excused'
    <3>1. LooksHeard \/ ~Listening
      BY <1>18, <1>4, <2>1, <2>2 DEF Accept
    <3>2. CASE LooksHeard
      BY <2>1, <3>2 DEF Excused, LooksHeard
    <3>3. CASE ~Listening
      <4>1. refusals \in Nat /\ MaxRefusals \in Nat
        <5>1. MaxRefusals \in Nat
          BY SizeIs DEF EpisodeTypes, CounterTypes
        <5>. QED BY <5>1 DEF EpisodeTypes, CounterTypes
      <4>2. refusals >= MaxRefusals
        BY <3>3, <4>1 DEF Listening
      <4>3. Whole(wire) => Cardinality(Refused) \in Nat
        <5>1. wire \in Seq(WireRow)
          BY DEF EpisodeTypes, RecordTypes
        <5>2. Whole(wire)' <=> Whole(wire)
          BY <2>1 DEF Whole
        <5>. QED BY <2>1, <5>1, <5>2, RefusedGrows
      <4>4. Whole(wire) => Cardinality(Refused) >= MaxRefusals
        BY <4>1, <4>2, <4>3 DEF HeardOut
      <4>5. Refused' = Refused /\ (Whole(wire)' <=> Whole(wire))
        BY <2>1 DEF Refused, Whole
      <4>. QED BY <4>4, <4>5 DEF Excused
    <3>. QED BY <3>1, <3>2, <3>3
  <2>. QED BY <1>3, <1>4, <2>1, <2>2
<1>19. CASE \E says \in {"malformed", "unheard"} : Refuse(says)
  <2>1. pc' \notin Finished
    BY <1>19 DEF Refuse, Finished
  <2>. QED BY <1>2, <2>1
<1>20. CASE \E k \in DOMAIN batch : CallStep(k)
  <2>1. pc' = "act"
    BY <1>20, CallFrame
  <2>. QED BY <1>2, <2>1 DEF Finished
<1>21. CASE Joined
  <2>1. CASE \E k \in DOMAIN batch : batch[k].at = "raised"
    <3>1. Ends("raised")
      BY <1>21, <2>1 DEF Joined
    <3>2. outcome' # "deliver"
      BY <1>4, <3>1
    <3>. QED BY <1>3, <1>4, <3>1, <3>2
  <2>2. CASE ~\E k \in DOMAIN batch : batch[k].at = "raised"
    <3>1. pc' \notin Finished
      BY <1>21, <2>2 DEF Joined, Finished
    <3>. QED BY <1>2, <3>1
  <2>. QED BY <2>1, <2>2
<1>22. CASE Answer
  <2>1. pc' = "answer"
    BY <1>22 DEF Answer
  <2>. QED BY <1>2, <2>1 DEF Finished
<1>23. CASE TurnOver
  <2>1. pc' \notin Finished
    BY <1>23 DEF TurnOver, Finished, files, loop, calls, world
  <2>. QED BY <1>2, <2>1
<1>24. CASE Shutdown
  <2>0. hand \in BOOLEAN
    BY DEF EpisodeTypes, CounterTypes
  <2>1a. (pc = "exit" /\ pc' = "conclude") \/ pc' = "gone"
    BY <1>24 DEF Shutdown
  <2>1b. UNCHANGED <<outcome, concl, heard, loose, jobs>>
    BY <1>24 DEF Shutdown
  <2>1c. hand' => hand
    <3>1. hand' \in {hand, FALSE}
      BY <1>24 DEF Shutdown
    <3>. QED BY <2>0, <3>1
  <2>1. /\ (pc = "exit" /\ pc' = "conclude") \/ pc' = "gone"
        /\ UNCHANGED <<outcome, concl, heard, loose, jobs>> /\ (hand' => hand)
    BY <2>1a, <2>1b, <2>1c
  <2>2. CASE pc' = "gone"
    BY <1>2, <2>2 DEF Finished
  <2>3. CASE pc = "exit" /\ pc' = "conclude"
    <3>1. AtWorkIsLoose'
      BY <2>1, <2>3 DEF HeardOut, Finished, AtWorkIsLoose
    <3>. QED BY <1>1, <1>5, <2>1, <2>3, <3>1 DEF HeardOut
  <2>. QED BY <2>1, <2>2, <2>3
<1>25. CASE Conclude
  <2>1. /\ pc = "conclude" /\ pc' = "ended" /\ concl' = outcome /\ UNCHANGED heard
        /\ loose \subseteq loose' /\ AtWorkIsLoose'
    BY <1>25 DEF Conclude, Leave, Released, AtWorkIsLoose
  <2>2. concl' = "deliver" => Excused'
    BY <1>5, <2>1 DEF HeardOut
  <2>. QED BY <1>1, <2>1, <2>2 DEF HeardOut
<1>26. CASE Gone
  <2>1. pc' \notin Finished
    BY <1>26 DEF Gone, Finished
  <2>. QED BY <1>2, <2>1
<1>27. CASE Interrupt
  <2>1. pc' \notin Finished
    BY <1>27 DEF Interrupt, Finished
  <2>. QED BY <1>2, <2>1
<1>28. CASE Kill
  <2>1. pc' \notin Finished
    BY <1>28 DEF Kill, Finished
  <2>. QED BY <1>2, <2>1
<1>29. CASE Supervise
  <2>1. pc' \notin Finished
    BY <1>29 DEF Supervise, Finished
  <2>. QED BY <1>2, <2>1
<1>30. CASE Rest
  <2>1. UNCHANGED <<wire, concl, outcome, pc, refusals, jobs, heard, loose>>
    BY <1>30 DEF Rest, files, loop, calls, world, episodeVars
  <2>2. hand' = hand
    BY <1>30 DEF Rest, world, episodeVars
  <2>. QED BY <1>1, <1>5, <2>1, <2>2 DEF HeardOut, AtWorkIsLoose
<1>31. CASE LateWrites
  <2>1. UNCHANGED <<wire, concl, outcome, pc, refusals, jobs, loose, hand>>
    BY <1>31 DEF LateWrites, files, loop, calls
  <2>2. CASE pc \notin Finished
    BY <1>2, <2>1, <2>2
  <2>3. CASE pc \in Finished
    <3>1. loose # {}
      BY <1>31, <2>3 DEF LateWrites, HeardOut, AtWorkIsLoose
    <3>2. Excused'
      BY <2>1, <3>1 DEF Excused
    <3>. QED BY <1>1, <2>1, <3>2 DEF HeardOut, AtWorkIsLoose
  <2>. QED BY <2>2, <2>3
<1>32. CASE Tick
  <2>1. UNCHANGED <<wire, concl, outcome, pc, refusals, jobs, heard, loose, hand>>
    BY <1>32 DEF Tick, files, loop, calls, world
  <2>. QED BY <1>1, <1>5, <2>1 DEF HeardOut, AtWorkIsLoose
<1>33. CASE \E j \in DOMAIN jobs : JobExits(j)
  <2>1. PICK j \in DOMAIN jobs : JobExits(j)
    BY <1>33
  <2>2. jobs[j] = "running" /\ UNCHANGED pc
    BY <2>1 DEF JobExits
  <2>3. pc \notin Finished
    BY <2>2 DEF HeardOut, AtWorkIsLoose
  <2>. QED BY <1>2, <2>2, <2>3
<1>. QED BY <1>6, <1>7, <1>8, <1>9, <1>10, <1>11, <1>12, <1>13, <1>14, <1>15, <1>16, <1>17,
            <1>18, <1>19, <1>20, <1>21, <1>22, <1>23, <1>24, <1>25, <1>26, <1>27, <1>28,
            <1>29, <1>30, <1>31, <1>32, <1>33
         DEF EpisodeNext, Launch, Scientist, Stopping, TurnTop, Reply, Door, Finish

\* The bookkeeping of the reviews is preserved by every step and by stuttering.
LEMMA HeardSteps == EpisodeTypes /\ HeardOut /\ [EpisodeNext]_episodeVars => HeardOut'
<1>1. EpisodeTypes /\ HeardOut /\ UNCHANGED episodeVars => HeardOut'
  BY DEF HeardOut, Excused, LooksHeard, AtWorkIsLoose, Refused, Whole, episodeVars, files, loop, world
<1>. QED BY <1>1, HeardStep

\* Nothing is refused, concluded or running when the world begins.
LEMMA HeardBegin == EpisodeInit => HeardOut
<1>. SUFFICES ASSUME EpisodeInit PROVE HeardOut
  OBVIOUS
<1>1. wire = <<>> /\ refusals = 0 /\ pc = "down"
  BY DEF EpisodeInit
<1>2. Refused = {}
  <2>1. Len(wire) = 0
    BY <1>1
  <2>. QED BY <2>1 DEF Refused
<1>3. Cardinality(Refused) = 0
  BY <1>2, FS_EmptySet
<1>. QED BY <1>1, <1>3 DEF HeardOut, Finished

\* A delivered world was looked back at by a Reviewer after its last change, unless the
\* change left no newer mtime below src/, a background command or an executor in the live
\* world was still at work when the loop was left, or three deliveries were refused for
\* it, which the wire tells as long as it is whole (validate_conclusion, reviewer_heard_after).
THEOREM EpisodeDeliversHeard == EpisodeSpec => []DeliveredHeard
<1>1. EpisodeInit => EpisodeTypes /\ HeardOut
  BY TypesBegin, HeardBegin
<1>2. EpisodeTypes /\ HeardOut /\ [EpisodeNext]_episodeVars => (EpisodeTypes /\ HeardOut)'
  BY TypesStep, HeardSteps
<1>3. EpisodeTypes /\ HeardOut => DeliveredHeard
  <2>1. EpisodeTypes => DOMAIN wire = 1..Len(wire)
    BY DEF EpisodeTypes, RecordTypes
  <2>. QED BY <2>1 DEF HeardOut, Excused, LooksHeard, Refused, DeliveredHeard
<1>. QED BY <1>1, <1>2, <1>3, PTL DEF EpisodeSpec
--------------------------------------------------------------------------------
(* Turns and their results.                                                *)

\* What Paired asks of a turn, and of a result.
Paid(ms, i) ==
    /\ i + Len(ms[i].calls) <= Len(ms)
    /\ \A j \in i + 1..i + Len(ms[i].calls) : ms[j].role = "tool"
    /\ {ms[j].to : j \in i + 1..i + Len(ms[i].calls)} = ToSet(ms[i].calls)
OwnedBy(ms, i, j) == IsTurn(ms[j]) /\ i <= j + Len(ms[j].calls) /\ ms[i].to \in ToSet(ms[j].calls)

\* Paired, message by message.
LEMMA PairedIs ==
    ASSUME NEW ms \in Seq(MessageSet)
    PROVE  /\ Paired(ms) <=>
                 /\ \A i \in 1..Len(ms) : IsTurn(ms[i]) => Paid(ms, i)
                 /\ \A i \in 1..Len(ms) : ms[i].role = "tool" => \E j \in 1..i - 1 : OwnedBy(ms, i, j)
           /\ Len(ms) \in Nat /\ \A i \in 1..Len(ms) : ms[i] \in MessageSet /\ Len(ms[i].calls) \in Nat
<1>1. DOMAIN ms = 1..Len(ms) /\ Len(ms) \in Nat /\ \A i \in 1..Len(ms) : ms[i] \in MessageSet
  OBVIOUS
<1>2. \A m \in MessageSet : m.calls \in Seq(Nat)
  BY DEF MessageSet
<1>3. \A m \in MessageSet : Len(m.calls) \in Nat
  BY <1>2
<1>4. Paired(ms) <=>
                 /\ \A i \in 1..Len(ms) : IsTurn(ms[i]) => Paid(ms, i)
                 /\ \A i \in 1..Len(ms) : ms[i].role = "tool" => \E j \in 1..i - 1 : OwnedBy(ms, i, j)
  BY <1>1 DEF Paired, Paid, OwnedBy
<1>. QED BY <1>1, <1>3, <1>4

\* A turn is paid wherever it stands, if what follows it stands there too.
LEMMA PaidMoved ==
    ASSUME NEW a \in Seq(MessageSet), NEW b \in Seq(MessageSet), NEW d \in Int,
           NEW i \in 1..Len(a), Paid(a, i), i + d >= 1, Len(a) + d <= Len(b),
           \A j \in i..Len(a) : b[j + d] = a[j]
    PROVE  Paid(b, i + d)
<1>. DEFINE n == Len(a[i].calls)
<1>1. Len(a) \in Nat /\ Len(b) \in Nat /\ n \in Nat /\ i \in Nat
  BY PairedIs
<1>2. b[i + d] = a[i]
  BY <1>1
<1>. HIDE DEF n
<1>3. i + n <= Len(a) /\ (\A j \in i + 1..i + n : a[j].role = "tool")
      /\ {a[j].to : j \in i + 1..i + n} = ToSet(a[i].calls)
  BY DEF Paid, n
<1>4. \A j \in i + 1..i + n : b[j + d] = a[j] /\ j + d \in (i + d) + 1..(i + d) + n
  <2>1. \A j \in i + 1..i + n : j \in i..Len(a) /\ j + d \in (i + d) + 1..(i + d) + n
    <3>1. i + n <= Len(a)
      BY <1>3
    <3>. QED BY <1>1, <3>1
  <2>. QED BY <2>1
<1>5. \A j \in (i + d) + 1..(i + d) + n : j - d \in i + 1..i + n /\ (j - d) + d = j
  BY <1>1
<1>6. \A j \in (i + d) + 1..(i + d) + n : b[j] = a[j - d] /\ j - d \in i + 1..i + n
  BY <1>4, <1>5
<1>7. {b[j].to : j \in (i + d) + 1..(i + d) + n} = {a[j].to : j \in i + 1..i + n}
  <2>1. \A x \in {b[j].to : j \in (i + d) + 1..(i + d) + n} : x \in {a[j].to : j \in i + 1..i + n}
    BY <1>6
  <2>2. \A x \in {a[j].to : j \in i + 1..i + n} : x \in {b[j].to : j \in (i + d) + 1..(i + d) + n}
    BY <1>4
  <2>. QED BY <2>1, <2>2
<1>8. (i + d) + n <= Len(b)
  BY <1>1, <1>3
<1>9. \A j \in (i + d) + 1..(i + d) + n : b[j].role = "tool"
  BY <1>3, <1>6
<1>. QED BY <1>2, <1>3, <1>7, <1>8, <1>9 DEF Paid, n

\* A result keeps its turn when both move by the same distance.
LEMMA OwnedMoved ==
    ASSUME NEW a, NEW b, NEW d \in Int, NEW i \in Int, NEW j \in Int, OwnedBy(a, i, j),
           b[i + d] = a[i], b[j + d] = a[j], Len(a[j].calls) \in Nat
    PROVE  OwnedBy(b, i + d, j + d)
<1>. DEFINE n == Len(a[j].calls)
<1>1. n \in Nat /\ i <= j + n /\ a[i].to \in ToSet(a[j].calls) /\ IsTurn(a[j]) /\ Len(b[j + d].calls) = n
  BY DEF OwnedBy
<1>. HIDE DEF n
<1>2. i + d <= (j + d) + n
  BY <1>1
<1>. QED BY <1>1, <1>2 DEF OwnedBy

\* Two paired conversations make one.
LEMMA PairedJoin ==
    ASSUME NEW a \in Seq(MessageSet), NEW b \in Seq(MessageSet), Paired(a), Paired(b)
    PROVE  Paired(a \o b)
<1>. DEFINE c == a \o b
            d == Len(a)
<1>1. /\ c \in Seq(MessageSet) /\ Len(c) = d + Len(b) /\ d \in Nat /\ Len(b) \in Nat
      /\ \A i \in 1..d : c[i] = a[i]
      /\ \A i \in 1..Len(b) : c[d + i] = b[i]
  BY JoinIs
<1>2. /\ \A i \in 1..d : a[i] \in MessageSet /\ Len(a[i].calls) \in Nat
      /\ \A i \in 1..Len(b) : b[i] \in MessageSet /\ Len(b[i].calls) \in Nat
  BY PairedIs
<1>3. /\ \A i \in 1..d : IsTurn(a[i]) => Paid(a, i)
      /\ \A i \in 1..d : a[i].role = "tool" => \E j \in 1..i - 1 : OwnedBy(a, i, j)
      /\ \A i \in 1..Len(b) : IsTurn(b[i]) => Paid(b, i)
      /\ \A i \in 1..Len(b) : b[i].role = "tool" => \E j \in 1..i - 1 : OwnedBy(b, i, j)
  BY PairedIs
<1>. HIDE DEF c, d
<1>4. \A i \in 1..Len(c) : i \in 1..d \/ (i - d \in 1..Len(b) /\ d + (i - d) = i)
  BY <1>1
<1>5. ASSUME NEW i \in 1..d PROVE /\ IsTurn(c[i]) => Paid(c, i)
                                  /\ c[i].role = "tool" => \E j \in 1..i - 1 : OwnedBy(c, i, j)
  <2>1. c[i] = a[i] /\ i + 0 = i /\ i + 0 >= 1 /\ d + 0 <= Len(c) /\ 0 \in Int
    BY <1>1
  <2>2. \A j \in i..d : c[j + 0] = a[j]
    BY <1>1
  <2>3. IsTurn(a[i]) => Paid(c, i + 0)
    BY <1>1, <1>3, <2>1, <2>2, PaidMoved DEF d
  <2>4. ASSUME NEW j \in 1..i - 1, OwnedBy(a, i, j) PROVE OwnedBy(c, i, j)
    <3>1. j \in 1..d /\ c[j] = a[j]
      BY <1>1
    <3>. QED BY <2>1, <2>4, <3>1 DEF OwnedBy
  <2>. QED BY <1>3, <2>1, <2>3, <2>4
<1>6. ASSUME NEW i \in 1..Len(b) PROVE /\ IsTurn(c[d + i]) => Paid(c, d + i)
                                       /\ c[d + i].role = "tool" => \E j \in 1..(d + i) - 1 : OwnedBy(c, d + i, j)
  <2>1. c[d + i] = b[i] /\ i + d = d + i /\ i + d >= 1 /\ Len(b) + d <= Len(c) /\ d \in Int
    BY <1>1
  <2>2. \A j \in i..Len(b) : c[j + d] = b[j]
    <3>1. \A j \in i..Len(b) : j \in 1..Len(b) /\ j + d = d + j
      BY <1>1
    <3>. QED BY <1>1, <3>1
  <2>3. IsTurn(b[i]) => Paid(c, i + d)
    BY <1>1, <1>3, <2>1, <2>2, PaidMoved
  <2>4. ASSUME NEW j \in 1..i - 1, OwnedBy(b, i, j) PROVE OwnedBy(c, i + d, j + d) /\ j + d \in 1..(d + i) - 1
    <3>1. j \in 1..Len(b) /\ c[j + d] = b[j] /\ j + d \in 1..(d + i) - 1 /\ i \in Int /\ j \in Int
      <4>1. j \in 1..Len(b) /\ j + d \in 1..(d + i) - 1 /\ j + d = d + j
        BY <1>1
      <4>. QED BY <1>1, <4>1
    <3>2. c[i + d] = b[i]
      BY <2>1
    <3>. QED BY <1>2, <2>1, <2>4, <3>1, <3>2, OwnedMoved
  <2>. QED BY <1>3, <2>1, <2>3, <2>4
<1>7. \A i \in 1..Len(c) : IsTurn(c[i]) => Paid(c, i)
  BY <1>4, <1>5, <1>6
<1>8. \A i \in 1..Len(c) : c[i].role = "tool" => \E j \in 1..i - 1 : OwnedBy(c, i, j)
  BY <1>4, <1>5, <1>6
<1>9. Paired(c)
  BY <1>1, <1>7, <1>8, PairedIs
<1>. QED BY <1>9 DEF c

\* A paired conversation is paired from any of its turns on.
LEMMA PairedCut ==
    ASSUME NEW ms \in Seq(MessageSet), Paired(ms), NEW at \in 1..Len(ms), IsTurn(ms[at])
    PROVE  Paired(SubSeq(ms, at, Len(ms)))
<1>. DEFINE c == SubSeq(ms, at, Len(ms))
            d == 1 - at
            n == Len(ms)
<1>1. n \in Nat /\ \A i \in 1..n : ms[i] \in MessageSet /\ Len(ms[i].calls) \in Nat
  BY PairedIs
<1>2. /\ c \in Seq(MessageSet) /\ Len(c) = n + 1 - at
      /\ \A i \in 1..n + 1 - at : c[i] = ms[at + i - 1]
  BY <1>1, CutIs
<1>3. /\ \A i \in 1..n : IsTurn(ms[i]) => Paid(ms, i)
      /\ \A i \in 1..n : ms[i].role = "tool" => \E j \in 1..i - 1 : OwnedBy(ms, i, j)
  BY PairedIs
<1>. HIDE DEF c, n
<1>4. \A i \in at..n : i + d \in 1..n + 1 - at /\ at + (i + d) - 1 = i /\ i \in 1..n
  BY <1>1
<1>5. \A i \in at..n : c[i + d] = ms[i]
  BY <1>2, <1>4
<1>6. \A i \in 1..Len(c) : i - d \in at..n /\ (i - d) + d = i
  BY <1>1, <1>2
<1>. HIDE DEF d
<1>7. d \in Int /\ n + d <= Len(c) /\ at + d = 1
  BY <1>1, <1>2 DEF d
<1>8. ASSUME NEW i \in at..n, IsTurn(ms[i]) PROVE Paid(c, i + d)
  <2>1. i \in 1..n /\ i + d >= 1
    BY <1>1, <1>4, <1>7
  <2>2. \A j \in i..n : c[j + d] = ms[j]
    BY <1>1, <1>5
  <2>. QED BY <1>2, <1>3, <1>7, <1>8, <2>1, <2>2, PaidMoved DEF n
<1>9. ASSUME NEW i \in at..n, ms[i].role = "tool" PROVE \E j \in 1..(i + d) - 1 : OwnedBy(c, i + d, j)
  <2>1. PICK j \in 1..i - 1 : OwnedBy(ms, i, j)
    BY <1>3, <1>4, <1>9
  <2>2. j >= at
    <3>1. SUFFICES ASSUME j < at PROVE FALSE
      BY <1>1, <2>1
    <3>2. j \in 1..n /\ Len(ms[j].calls) \in Nat /\ i <= j + Len(ms[j].calls) /\ IsTurn(ms[j])
      BY <1>1, <2>1 DEF OwnedBy
    <3>3. at \in j + 1..j + Len(ms[j].calls)
      BY <1>1, <3>1, <3>2
    <3>4. IsTurn(ms[j]) => ms[at].role = "tool"
      BY <1>3, <3>2, <3>3 DEF Paid
    <3>. QED BY <3>4, <3>2 DEF IsTurn
  <2>3. j \in at..n /\ j + d \in 1..(i + d) - 1 /\ Len(ms[j].calls) \in Nat
    BY <1>1, <1>4, <1>7, <2>2
  <2>4. c[i + d] = ms[i] /\ c[j + d] = ms[j] /\ i \in Int /\ j \in Int
    BY <1>5, <2>3
  <2>5. OwnedBy(c, i + d, j + d)
    BY <1>7, <2>1, <2>3, <2>4, OwnedMoved
  <2>. QED BY <2>3, <2>5
<1>10. \A i \in 1..Len(c) : IsTurn(c[i]) => Paid(c, i)
  BY <1>5, <1>6, <1>8
<1>11. \A i \in 1..Len(c) : c[i].role = "tool" => \E j \in 1..i - 1 : OwnedBy(c, i, j)
  BY <1>5, <1>6, <1>9
<1>12. Paired(c)
  BY <1>2, <1>10, <1>11, PairedIs
<1>. QED BY <1>12 DEF c, n
--------------------------------------------------------------------------------
(* A conversation: its framing, turns with their results, and perhaps a turn whose *)
(* calls wait for some of theirs.                                          *)

OpenTurn(new, P) ==
    \/ new = <<>> /\ P = {}
    \/ /\ new # <<>> /\ IsTurn(new[1])
       /\ \A i \in 2..Len(new) : new[i].role = "tool"
       /\ {new[i].to : i \in 2..Len(new)} \cup P = ToSet(new[1].calls)
       /\ Len(new) + Cardinality(P) = Len(new[1].calls) + 1
Conv(ms, P) ==
    /\ P \in SUBSET Nat /\ IsFiniteSet(P)
    /\ \E pre, old, new \in Seq(MessageSet) :
          Parts(ms, pre, old \o new) /\ Paired(old) /\ OpenTurn(new, P)

\* A turn that has every result is paired.
LEMMA PaidTurn ==
    ASSUME NEW new \in Seq(MessageSet), OpenTurn(new, {})
    PROVE  Paired(new)
<1>1. Len(new) \in Nat /\ \A i \in 1..Len(new) : new[i] \in MessageSet /\ Len(new[i].calls) \in Nat
  BY PairedIs
<1>2. CASE new = <<>>
  <2>1. \A i \in 1..Len(new) : FALSE
    BY <1>2
  <2>. QED BY <2>1, PairedIs
<1>3. CASE new # <<>>
  <2>. DEFINE n == Len(new[1].calls)
  <2>1. Len(new) >= 1 /\ 1 \in 1..Len(new)
    BY <1>1, <1>3
  <2>2. n \in Nat /\ Cardinality({}) = 0
    BY <1>1, <2>1, FS_EmptySet
  <2>. HIDE DEF n
  <2>3. /\ IsTurn(new[1]) /\ \A i \in 2..Len(new) : new[i].role = "tool"
        /\ {new[i].to : i \in 2..Len(new)} = ToSet(new[1].calls)
        /\ Len(new) + 0 = n + 1
    BY <1>3, <2>2 DEF OpenTurn, n
  <2>4. 1 + n = Len(new) /\ 1 + 1 = 2 /\ 1 + 1..1 + n = 2..Len(new)
    BY <1>1, <2>2, <2>3
  <2>5. Paid(new, 1)
    BY <1>1, <2>3, <2>4 DEF Paid, n
  <2>6. \A i \in 1..Len(new) : i = 1 \/ (i \in 2..Len(new) /\ 1 \in 1..i - 1 /\ i <= 1 + n)
    BY <1>1, <2>4
  <2>7. \A i \in 2..Len(new) : new[i].to \in ToSet(new[1].calls)
    BY <2>3
  <2>8. \A i \in 1..Len(new) : IsTurn(new[i]) => Paid(new, i)
    BY <2>3, <2>5, <2>6 DEF IsTurn
  <2>9. \A i \in 1..Len(new) : new[i].role = "tool" => \E j \in 1..i - 1 : OwnedBy(new, i, j)
    BY <2>3, <2>6, <2>7 DEF IsTurn, OwnedBy, n
  <2>. QED BY <2>8, <2>9, PairedIs
<1>. QED BY <1>2, <1>3

\* Framing is a conversation, and paired.
LEMMA FramedPaired ==
    ASSUME NEW ms \in Seq(MessageSet), Framed(ms)
    PROVE  Paired(ms) /\ Conv(ms, {})
<1>1. Paired(ms)
  BY PairedIs DEF Framed, IsTurn
<1>2. <<>> \in Seq(MessageSet) /\ <<>> \o <<>> = <<>> /\ ms \o <<>> = ms /\ Len(<<>>) = 0
      /\ ~\E i \in 1..0 : TRUE
  OBVIOUS
<1>3. Paired(<<>>)
  BY <1>2, PaidTurn DEF OpenTurn
<1>4. Parts(ms, ms, <<>> \o <<>>)
  BY <1>2 DEF Parts, Starts, Viewless
<1>5. {} \in SUBSET Nat /\ IsFiniteSet({})
  BY FS_EmptySet
<1>6. OpenTurn(<<>>, {})
  BY DEF OpenTurn
<1>. QED BY <1>1, <1>2, <1>3, <1>4, <1>5, <1>6 DEF Conv

\* A conversation that waits for nothing is paired.
LEMMA ConvPaired ==
    ASSUME NEW ms, Conv(ms, {})
    PROVE  Paired(ms) /\ ms \in Seq(MessageSet)
<1>1. PICK pre, old, new \in Seq(MessageSet) : Parts(ms, pre, old \o new) /\ Paired(old) /\ OpenTurn(new, {})
  BY DEF Conv
<1>2. Paired(old \o new) /\ old \o new \in Seq(MessageSet)
  BY <1>1, PaidTurn, PairedJoin
<1>3. Paired(pre) /\ ms = pre \o (old \o new)
  BY <1>1, FramedPaired DEF Parts
<1>4. Paired(ms)
  BY <1>2, <1>3, PairedJoin
<1>. QED BY <1>1, <1>4, PartsAre

\* Where the parts of a conversation go when it gets one more message.
LEMMA PartsMore ==
    ASSUME NEW ms, NEW pre, NEW rest, Parts(ms, pre, rest), NEW m \in MessageSet,
           m.role # "view", rest # <<>> \/ IsTurn(m)
    PROVE  Parts(Append(ms, m), pre, Append(rest, m))
<1>1. pre \in Seq(MessageSet) /\ rest \in Seq(MessageSet) /\ ms = pre \o rest /\ Framed(pre)
      /\ Starts(rest) /\ Viewless(rest)
  BY DEF Parts
<1>2. Append(ms, m) = pre \o Append(rest, m)
  BY <1>1, AppendToLast
<1>3. /\ Append(rest, m) \in Seq(MessageSet) /\ Len(Append(rest, m)) = Len(rest) + 1 /\ Len(rest) \in Nat
      /\ \A i \in 1..Len(rest) : Append(rest, m)[i] = rest[i]
      /\ Append(rest, m)[Len(rest) + 1] = m
  BY <1>1, AppendIs
<1>4. \A i \in 1..Len(rest) + 1 : i \in 1..Len(rest) \/ i = Len(rest) + 1
  BY <1>3
<1>5. Viewless(Append(rest, m))
  BY <1>1, <1>3, <1>4 DEF Viewless
<1>6. Starts(Append(rest, m))
  <2>1. CASE rest = <<>>
    <3>1. Len(rest) + 1 = 1
      BY <2>1
    <3>. QED BY <1>3, <2>1, <3>1 DEF Starts
  <2>2. CASE rest # <<>>
    <3>1. 1 \in 1..Len(rest)
      BY <1>1, <2>2
    <3>. QED BY <1>1, <1>3, <2>2, <3>1 DEF Starts
  <2>. QED BY <2>1, <2>2
<1>. QED BY <1>1, <1>2, <1>3, <1>5, <1>6 DEF Parts

\* A note said before the first turn belongs to the framing.
LEMMA PartsNote ==
    ASSUME NEW ms, NEW pre, Parts(ms, pre, <<>>), NEW m \in MessageSet, m.role = "user"
    PROVE  Parts(Append(ms, m), Append(pre, m), <<>>)
<1>1. pre \in Seq(MessageSet) /\ <<>> \in Seq(MessageSet) /\ ms = pre \o <<>> /\ Framed(pre)
  BY DEF Parts
<1>2. ms = pre /\ Append(pre, m) \o <<>> = Append(pre, m)
  BY <1>1
<1>3. /\ Append(pre, m) \in Seq(MessageSet) /\ Len(Append(pre, m)) = Len(pre) + 1 /\ Len(pre) \in Nat
      /\ \A i \in 1..Len(pre) : Append(pre, m)[i] = pre[i]
      /\ Append(pre, m)[Len(pre) + 1] = m
  BY <1>1, AppendIs
<1>4. \A i \in 1..Len(pre) + 1 : i \in 1..Len(pre) \/ i = Len(pre) + 1
  BY <1>3
<1>5. Framed(Append(pre, m))
  BY <1>1, <1>3, <1>4 DEF Framed
<1>. QED BY <1>1, <1>2, <1>3, <1>5 DEF Parts, Starts, Viewless

\* Everything that has its results may be taken for what is done with.
LEMMA ConvRested ==
    ASSUME NEW ms, Conv(ms, {})
    PROVE  \E pre, rest \in Seq(MessageSet) : Parts(ms, pre, rest) /\ Paired(rest)
<1>1. PICK pre, old, new \in Seq(MessageSet) : Parts(ms, pre, old \o new) /\ Paired(old) /\ OpenTurn(new, {})
  BY DEF Conv
<1>2. Paired(old \o new) /\ old \o new \in Seq(MessageSet)
  BY <1>1, PaidTurn, PairedJoin
<1>. QED BY <1>1, <1>2

\* A framing and turns that have their results make a conversation where nothing waits.
LEMMA RestedConv ==
    ASSUME NEW ms, NEW pre, NEW rest, Parts(ms, pre, rest), Paired(rest)
    PROVE  Conv(ms, {})
<1>1. rest \o <<>> = rest /\ rest \in Seq(MessageSet) /\ pre \in Seq(MessageSet) /\ <<>> \in Seq(MessageSet)
  BY DEF Parts
<1>2. OpenTurn(<<>>, {}) /\ {} \in SUBSET Nat /\ IsFiniteSet({})
  BY FS_EmptySet DEF OpenTurn
<1>3. Parts(ms, pre, rest \o <<>>)
  BY <1>1
<1>. QED BY <1>1, <1>2, <1>3 DEF Conv

\* A note, after everything that has its results.
LEMMA ConvNoted ==
    ASSUME NEW ms, Conv(ms, {}), NEW m \in MessageSet, m.role = "user"
    PROVE  Conv(Append(ms, m), {})
<1>1. PICK pre, rest \in Seq(MessageSet) : Parts(ms, pre, rest) /\ Paired(rest)
  BY ConvRested
<1>2. CASE rest = <<>>
  <2>1. Parts(Append(ms, m), Append(pre, m), <<>>)
    BY <1>1, <1>2, PartsNote
  <2>2. Paired(<<>>)
    BY <1>1, <1>2
  <2>. QED BY <2>1, <2>2, RestedConv
<1>3. CASE rest # <<>>
  <2>1. Parts(Append(ms, m), pre, Append(rest, m))
    BY <1>1, <1>3, PartsMore
  <2>2. <<m>> \in Seq(MessageSet) /\ Append(rest, m) = rest \o <<m>> /\ Len(<<m>>) = 1 /\ <<m>>[1] = m
    BY <1>1, AppendIs
  <2>3. Paired(<<m>>)
    <3>1. \A i \in 1..1 : <<m>>[i] = m
      BY <2>2
    <3>. QED BY <2>2, <3>1, FramedPaired DEF Framed
  <2>4. Paired(Append(rest, m))
    BY <1>1, <2>2, <2>3, PairedJoin
  <2>. QED BY <2>1, <2>4, RestedConv
<1>. QED BY <1>2, <1>3

\* As many calls as there are names of them.
Distinct(seq) == \A j, k \in 1..Len(seq) : seq[j] = seq[k] => j = k

\* A turn has as many calls as it has names for them.
LEMMA DistinctCount ==
    ASSUME NEW seq \in Seq(Nat), Distinct(seq)
    PROVE  /\ IsFiniteSet(ToSet(seq)) /\ ToSet(seq) \in SUBSET Nat
           /\ Cardinality(ToSet(seq)) = Len(seq)
<1>1. Len(seq) \in Nat /\ DOMAIN seq = 1..Len(seq) /\ \A i \in 1..Len(seq) : seq[i] \in Nat
  OBVIOUS
<1>2. seq \in [1..Len(seq) -> ToSet(seq)]
  BY DEF ToSet
<1>3. seq \in Bijection(1..Len(seq), ToSet(seq))
  <2>1. IsInjective(seq)
    BY <1>1 DEF IsInjective, Distinct
  <2>2. \A x \in ToSet(seq) : \E i \in 1..Len(seq) : seq[i] = x
    BY <1>1 DEF ToSet
  <2>. QED BY <1>2, <2>1, <2>2 DEF Bijection, Injection, Surjection, IsInjective
<1>4. IsFiniteSet(1..Len(seq)) /\ Cardinality(1..Len(seq)) = Len(seq)
  BY <1>1, FS_Interval
<1>5. ExistsBijection(1..Len(seq), ToSet(seq))
  BY <1>3 DEF ExistsBijection
<1>6. IsFiniteSet(ToSet(seq)) /\ Cardinality(ToSet(seq)) = Cardinality(1..Len(seq))
  BY <1>4, <1>5, FS_Bijection
<1>. QED BY <1>1, <1>4, <1>6 DEF ToSet

\* A turn, whose calls wait for their results.
LEMMA ConvActs ==
    ASSUME NEW ms, Conv(ms, {}), NEW m \in MessageSet, IsTurn(m), Distinct(m.calls)
    PROVE  Conv(Append(ms, m), ToSet(m.calls))
<1>1. PICK pre, rest \in Seq(MessageSet) : Parts(ms, pre, rest) /\ Paired(rest)
  BY ConvRested
<1>2. m.role # "view" /\ m.calls \in Seq(Nat)
  BY DEF IsTurn, MessageSet
<1>3. Parts(Append(ms, m), pre, Append(rest, m))
  BY <1>1, <1>2, PartsMore
<1>4. <<m>> \in Seq(MessageSet) /\ Append(rest, m) = rest \o <<m>> /\ Len(<<m>>) = 1 /\ <<m>>[1] = m /\ <<m>> # <<>>
  BY <1>1, AppendIs
<1>5. /\ IsFiniteSet(ToSet(m.calls)) /\ ToSet(m.calls) \in SUBSET Nat
      /\ Cardinality(ToSet(m.calls)) = Len(m.calls) /\ Len(m.calls) \in Nat
  BY <1>2, DistinctCount
<1>6. OpenTurn(<<m>>, ToSet(m.calls))
  <2>1. \A i \in 2..1 : FALSE
    OBVIOUS
  <2>2. {<<m>>[i].to : i \in 2..1} = {}
    BY <2>1
  <2>3. 1 + Len(m.calls) = Len(m.calls) + 1
    BY <1>5
  <2>. QED BY <1>4, <1>5, <2>1, <2>2, <2>3 DEF OpenTurn
<1>. QED BY <1>1, <1>3, <1>4, <1>5, <1>6 DEF Conv

\* A result that was waited for.
LEMMA ConvAnswers ==
    ASSUME NEW ms, NEW P, Conv(ms, P), NEW m \in MessageSet, m.role = "tool", m.to \in P
    PROVE  Conv(Append(ms, m), P \ {m.to}) /\ \E i \in 1..Len(ms) : IsTurn(ms[i])
<1>1. PICK pre, old, new \in Seq(MessageSet) : Parts(ms, pre, old \o new) /\ Paired(old) /\ OpenTurn(new, P)
  BY DEF Conv
<1>2. P \in SUBSET Nat /\ IsFiniteSet(P)
  BY DEF Conv
<1>3. /\ new # <<>> /\ IsTurn(new[1])
      /\ \A i \in 2..Len(new) : new[i].role = "tool"
      /\ {new[i].to : i \in 2..Len(new)} \cup P = ToSet(new[1].calls)
      /\ Len(new) + Cardinality(P) = Len(new[1].calls) + 1
  BY <1>1 DEF OpenTurn
<1>4. /\ old \o new \in Seq(MessageSet) /\ Len(old \o new) = Len(old) + Len(new)
      /\ Len(old) \in Nat /\ Len(new) \in Nat /\ \A i \in 1..Len(new) : (old \o new)[Len(old) + i] = new[i]
  BY JoinIs
<1>5. Len(new) >= 1 /\ old \o new # <<>>
  BY <1>3, <1>4
<1>6. Parts(Append(ms, m), pre, Append(old \o new, m))
  BY <1>1, <1>5, PartsMore
<1>7. Append(old \o new, m) = old \o Append(new, m)
  BY AppendToLast
<1>8. /\ Append(new, m) \in Seq(MessageSet) /\ Len(Append(new, m)) = Len(new) + 1
      /\ \A i \in 1..Len(new) : Append(new, m)[i] = new[i]
      /\ Append(new, m)[Len(new) + 1] = m
  BY AppendIs
<1>9. \A i : i \in 2..Len(new) + 1 <=> i \in 2..Len(new) \/ i = Len(new) + 1
  BY <1>4, <1>5
<1>10. 1 \in 1..Len(new) /\ \A i \in 2..Len(new) : i \in 1..Len(new)
  BY <1>4, <1>5
<1>11. {Append(new, m)[i].to : i \in 2..Len(new) + 1} = {new[i].to : i \in 2..Len(new)} \cup {m.to}
  <2>1. \A x : x \in {Append(new, m)[i].to : i \in 2..Len(new) + 1}
                 <=> x \in {new[i].to : i \in 2..Len(new)} \/ x = m.to
    BY <1>8, <1>9, <1>10
  <2>. QED BY <2>1
<1>12. /\ IsFiniteSet(P \ {m.to}) /\ Cardinality(P \ {m.to}) = Cardinality(P) - 1
       /\ Cardinality(P) \in Nat
  BY <1>2, FS_RemoveElement, FS_CardinalityType
<1>13. Len(new) + 1 + Cardinality(P \ {m.to}) = Len(new[1].calls) + 1
  BY <1>3, <1>4, <1>12
<1>14. OpenTurn(Append(new, m), P \ {m.to})
  <2>1. Append(new, m) # <<>> /\ Append(new, m)[1] = new[1]
    BY <1>4, <1>8, <1>10
  <2>2. \A i \in 2..Len(new) + 1 : Append(new, m)[i].role = "tool"
    BY <1>3, <1>8, <1>9, <1>10
  <2>3. ({new[i].to : i \in 2..Len(new)} \cup {m.to}) \cup (P \ {m.to}) = ToSet(new[1].calls)
    BY <1>3
  <2>. QED BY <1>3, <1>8, <1>11, <1>13, <2>1, <2>2, <2>3 DEF OpenTurn
<1>15. P \ {m.to} \in SUBSET Nat
  BY <1>2
<1>16. Conv(Append(ms, m), P \ {m.to})
  BY <1>1, <1>6, <1>7, <1>8, <1>12, <1>14, <1>15 DEF Conv
<1>17. \E i \in 1..Len(ms) : IsTurn(ms[i])
  <2>1. /\ ms = pre \o (old \o new) /\ pre \in Seq(MessageSet)
    BY <1>1 DEF Parts
  <2>2. /\ Len(ms) = Len(pre) + Len(old \o new) /\ Len(pre) \in Nat
        /\ \A i \in 1..Len(old \o new) : ms[Len(pre) + i] = (old \o new)[i]
    BY <1>4, <2>1, JoinIs
  <2>3. Len(old) + 1 \in 1..Len(old \o new)
    BY <1>4, <1>5
  <2>4. IsTurn(ms[Len(pre) + (Len(old) + 1)])
    BY <1>3, <1>4, <1>10, <2>2, <2>3
  <2>5. Len(pre) + (Len(old) + 1) \in 1..Len(ms)
    BY <1>4, <2>2, <2>3
  <2>. QED BY <2>4, <2>5
<1>. QED BY <1>16, <1>17

\* The results that a resume makes up for the calls that wait.
LEMMA ConvMends ==
    ASSUME NEW ms, NEW P, Conv(ms, P)
    PROVE  Conv(ms \o Interrupted(P), {}) /\ Interrupted(P) \in Seq(MessageSet)
<1>1. PICK pre, old, new \in Seq(MessageSet) : Parts(ms, pre, old \o new) /\ Paired(old) /\ OpenTurn(new, P)
  BY DEF Conv
<1>2. P \in SUBSET Nat /\ IsFiniteSet(P)
  BY DEF Conv
<1>. DEFINE more == Interrupted(P)
            full == new \o more
<1>3. /\ more \in Seq(MessageSet) /\ Len(more) = Cardinality(P) /\ Cardinality(P) \in Nat
      /\ \A i \in 1..Cardinality(P) : more[i].role = "tool"
      /\ {more[i].to : i \in 1..Cardinality(P)} = P
  BY <1>2, InterruptedIs
<1>4. /\ ms \in Seq(MessageSet) /\ pre \in Seq(MessageSet) /\ old \o new \in Seq(MessageSet)
      /\ ms = pre \o (old \o new) /\ Framed(pre) /\ Starts(old \o new) /\ Viewless(old \o new)
  BY <1>1, PartsAre DEF Parts
<1>. HIDE DEF more
<1>5. CASE new = <<>>
  <2>1. P = {} /\ Cardinality(P) = 0
    BY <1>1, <1>5, FS_EmptySet DEF OpenTurn
  <2>2. more = <<>>
    BY <1>3, <2>1
  <2>3. ms \o more = ms
    BY <1>4, <2>2
  <2>. QED BY <1>3, <2>1, <2>3 DEF more
<1>6. CASE new # <<>>
  <2>1. /\ IsTurn(new[1])
        /\ \A i \in 2..Len(new) : new[i].role = "tool"
        /\ {new[i].to : i \in 2..Len(new)} \cup P = ToSet(new[1].calls)
        /\ Len(new) + Cardinality(P) = Len(new[1].calls) + 1
    BY <1>1, <1>6 DEF OpenTurn
  <2>2. /\ full \in Seq(MessageSet) /\ Len(full) = Len(new) + Cardinality(P) /\ Len(new) \in Nat
        /\ \A i \in 1..Len(new) : full[i] = new[i]
        /\ \A i \in 1..Cardinality(P) : full[Len(new) + i] = more[i]
    <3>1. /\ full \in Seq(MessageSet) /\ Len(full) = Len(new) + Len(more) /\ Len(new) \in Nat
          /\ \A i \in 1..Len(new) : full[i] = new[i]
          /\ \A i \in 1..Len(more) : full[Len(new) + i] = more[i]
      BY <1>3, JoinIs
    <3>. HIDE DEF full
    <3>. QED BY <1>3, <3>1
  <2>. HIDE DEF full
  <2>3. Len(new) >= 1 /\ 1 \in 1..Len(new)
    BY <1>6, <2>2
  <2>4. \A i \in 2..Len(full) : i \in 2..Len(new) \/ \E k \in 1..Cardinality(P) : i = Len(new) + k
    <3>1. ASSUME NEW i \in 2..Len(full), i \notin 2..Len(new)
          PROVE  i - Len(new) \in 1..Cardinality(P) /\ i = Len(new) + (i - Len(new))
      BY <1>3, <2>2, <2>3, <3>1
    <3>. QED BY <3>1
  <2>5. \A i \in 2..Len(new) : i \in 1..Len(new)
    BY <2>2
  <2>6. \A i \in 2..Len(full) : full[i].role = "tool"
    <3>1. \A i \in 2..Len(full) : \/ \E j \in 2..Len(new) : full[i] = new[j]
                                  \/ \E k \in 1..Cardinality(P) : full[i] = more[k]
      BY <2>2, <2>4, <2>5
    <3>. QED BY <1>3, <2>1, <3>1
  <2>7. {full[i].to : i \in 2..Len(full)} = {new[i].to : i \in 2..Len(new)} \cup {more[i].to : i \in 1..Cardinality(P)}
    <3>1. \A x \in {full[i].to : i \in 2..Len(full)} :
             x \in {new[i].to : i \in 2..Len(new)} \cup {more[i].to : i \in 1..Cardinality(P)}
      <4>1. \A i \in 2..Len(full) : \/ \E j \in 2..Len(new) : full[i] = new[j]
                                    \/ \E k \in 1..Cardinality(P) : full[i] = more[k]
        BY <2>2, <2>4, <2>5
      <4>. QED BY <4>1
    <3>2. \A x \in {new[i].to : i \in 2..Len(new)} : x \in {full[i].to : i \in 2..Len(full)}
      <4>1. \A i \in 2..Len(new) : i \in 2..Len(full)
        BY <1>3, <2>2
      <4>. QED BY <2>2, <2>5, <4>1
    <3>3. \A i \in 1..Cardinality(P) : Len(new) + i \in 2..Len(full)
      BY <2>2, <2>3, <1>3
    <3>4. \A x \in {more[i].to : i \in 1..Cardinality(P)} : x \in {full[i].to : i \in 2..Len(full)}
      BY <2>2, <3>3
    <3>. QED BY <3>1, <3>2, <3>4
  <2>8. OpenTurn(full, {})
    <3>1. full # <<>> /\ full[1] = new[1]
      BY <1>3, <2>2, <2>3
    <3>2. Cardinality({}) = 0 /\ Len(full) + 0 = Len(new[1].calls) + 1
      BY <1>3, <2>1, <2>2, FS_EmptySet
    <3>3. {full[i].to : i \in 2..Len(full)} \cup {} = ToSet(new[1].calls)
      BY <1>3, <2>1, <2>7
    <3>. QED BY <2>1, <2>6, <3>1, <3>2, <3>3 DEF OpenTurn
  <2>9. ms \o more = pre \o (old \o full)
    <3>1. (old \o new) \o more = old \o full
      BY <1>3, JoinIsAssociative DEF full
    <3>2. (pre \o (old \o new)) \o more = pre \o ((old \o new) \o more)
      BY <1>3, <1>4, JoinIsAssociative, SMTT(30)
    <3>. QED BY <1>4, <3>1, <3>2
  <2>10. Parts(ms \o more, pre, old \o full)
    <3>1. old \o full \in Seq(MessageSet) /\ old \o full = (old \o new) \o more
      BY <1>3, <2>2, JoinIs, JoinIsAssociative, ZenonT(30) DEF full
    <3>2. /\ Len(old \o full) = Len(old \o new) + Cardinality(P) /\ Len(old \o new) \in Nat
          /\ \A i \in 1..Len(old \o new) : (old \o full)[i] = (old \o new)[i]
          /\ \A i \in 1..Cardinality(P) : (old \o full)[Len(old \o new) + i] = more[i]
      <4>. DEFINE whole == (old \o new) \o more
      <4>1. /\ Len(whole) = Len(old \o new) + Len(more) /\ Len(old \o new) \in Nat
            /\ \A i \in 1..Len(old \o new) : whole[i] = (old \o new)[i]
            /\ \A i \in 1..Len(more) : whole[Len(old \o new) + i] = more[i]
        BY <1>3, <1>4, JoinIs
      <4>2. old \o full = whole
        BY <3>1
      <4>. HIDE DEF whole, full
      <4>. QED BY <1>3, <4>1, <4>2
    <3>3. \A i \in 1..Len(old \o full) : i \in 1..Len(old \o new)
             \/ (i - Len(old \o new) \in 1..Cardinality(P) /\ Len(old \o new) + (i - Len(old \o new)) = i)
      BY <1>3, <3>2
    <3>4. Viewless(old \o full)
      BY <1>3, <1>4, <3>2, <3>3 DEF Viewless
    <3>5. Len(old \o new) = Len(old) + Len(new) /\ Len(old) \in Nat
      BY JoinIs
    <3>6. 1 \in 1..Len(old \o new) /\ old \o new # <<>>
      BY <2>2, <2>3, <3>5
    <3>7. Starts(old \o full)
      BY <1>4, <3>2, <3>6 DEF Starts
    <3>. QED BY <1>4, <2>9, <3>1, <3>4, <3>7 DEF Parts
  <2>11. {} \in SUBSET Nat /\ IsFiniteSet({})
    BY FS_EmptySet
  <2>12. Conv(ms \o more, {})
    BY <1>1, <2>2, <2>8, <2>10, <2>11 DEF Conv
  <2>. QED BY <1>3, <2>12 DEF more
<1>. QED BY <1>5, <1>6

\* What compaction sheds: the turns up to one that stays.
LEMMA CompactedParts ==
    ASSUME NEW ms, NEW pre, NEW rest, Parts(ms, pre, rest), NEW some \in Compacted(ms)
    PROVE  \E shed, kept \in Seq(MessageSet) :
              /\ rest = shed \o kept /\ Starts(shed) /\ Viewless(shed) /\ Parts(some, pre, kept)
              /\ kept = <<>> => shed = <<>>
              /\ kept = rest \/ \E at \in 1..Len(rest) : IsTurn(rest[at]) /\ kept = SubSeq(rest, at, Len(rest))
<1>1. /\ ms \in Seq(MessageSet) /\ pre \in Seq(MessageSet) /\ rest \in Seq(MessageSet) /\ ms = pre \o rest
      /\ Framed(pre) /\ Starts(rest) /\ Viewless(rest) /\ SubSeq(ms, 1, FirstTurn(ms) - 1) = pre
  BY PartsAre DEF Parts
<1>2. /\ Len(ms) = Len(pre) + Len(rest) /\ Len(pre) \in Nat /\ Len(rest) \in Nat
      /\ \A i \in 1..Len(pre) : ms[i] = pre[i]
      /\ \A i \in Len(pre) + 1..Len(pre) + Len(rest) : ms[i] = rest[i - Len(pre)]
  BY <1>1, JoinIs
<1>3. <<>> \in Seq(MessageSet) /\ <<>> \o rest = rest /\ Starts(<<>>) /\ Viewless(<<>>)
  BY <1>1 DEF Starts, Viewless
<1>4. CASE some = ms
  BY <1>1, <1>3, <1>4
<1>5. CASE \E i \in 1..Len(ms) : IsTurn(ms[i])
                                 /\ some = SubSeq(ms, 1, FirstTurn(ms) - 1) \o SubSeq(ms, i, Len(ms))
  <2>1. PICK i \in 1..Len(ms) : IsTurn(ms[i]) /\ some = pre \o SubSeq(ms, i, Len(ms))
    BY <1>1, <1>5
  <2>2. i > Len(pre)
    <3>1. i \in 1..Len(pre) => ~IsTurn(ms[i])
      BY <1>1, <1>2 DEF Framed, IsTurn
    <3>. QED BY <1>2, <2>1, <3>1
  <2>. DEFINE at   == i - Len(pre)
              shed == SubSeq(rest, 1, at - 1)
              kept == SubSeq(rest, at, Len(rest))
              tail == SubSeq(ms, i, Len(ms))
  <2>3. at \in 1..Len(rest) /\ i = Len(pre) + at /\ i \in Len(pre) + 1..Len(pre) + Len(rest)
        /\ Len(ms) + 1 - i = Len(rest) + 1 - at
    BY <1>2, <2>2
  <2>. HIDE DEF at
  <2>4. rest[at] = ms[i] /\ IsTurn(rest[at])
    BY <1>2, <2>1, <2>3 DEF at
  <2>5. at \in 1..Len(rest) + 1 /\ i \in 1..Len(ms) + 1
    BY <1>2, <2>3
  <2>6. /\ rest = shed \o kept /\ shed \in Seq(MessageSet) /\ kept \in Seq(MessageSet)
        /\ Len(shed) = at - 1 /\ Len(kept) = Len(rest) + 1 - at
        /\ \A k \in 1..at - 1 : shed[k] = rest[k]
        /\ \A k \in 1..Len(rest) + 1 - at : kept[k] = rest[at + k - 1]
    BY <1>1, <2>5, CutIs
  <2>7. /\ tail \in Seq(MessageSet) /\ Len(tail) = Len(ms) + 1 - i
        /\ \A k \in 1..Len(ms) + 1 - i : tail[k] = ms[i + k - 1]
    BY <1>1, <2>5, CutIs
  <2>. HIDE DEF shed, kept, tail
  <2>8. tail = kept
    <3>1. Len(tail) = Len(kept)
      BY <2>3, <2>6, <2>7
    <3>2. \A k \in 1..Len(tail) : /\ k \in 1..Len(ms) + 1 - i /\ k \in 1..Len(rest) + 1 - at
                                  /\ i + k - 1 \in Len(pre) + 1..Len(pre) + Len(rest)
                                  /\ (i + k - 1) - Len(pre) = at + k - 1
      BY <1>2, <2>3, <2>7
    <3>3. \A k \in 1..Len(tail) : tail[k] = kept[k]
      BY <1>2, <2>6, <2>7, <3>2, ZenonT(30)
    <3>. QED BY <2>6, <2>7, <3>1, <3>3, SameList
  <2>9. Len(kept) >= 1 /\ 1 \in 1..Len(rest) + 1 - at /\ at + 1 - 1 = at
    BY <1>2, <2>3, <2>6
  <2>10. kept # <<>> /\ Starts(kept)
    <3>1. kept[1] = rest[at]
      BY <2>6, <2>9
    <3>2. kept # <<>>
      BY <2>9
    <3>. QED BY <2>4, <3>1, <3>2 DEF Starts
  <2>11. Viewless(kept)
    <3>1. \A k \in 1..Len(kept) : at + k - 1 \in 1..Len(rest) /\ k \in 1..Len(rest) + 1 - at
      BY <1>2, <2>3, <2>6
    <3>. QED BY <1>1, <2>6, <3>1 DEF Viewless
  <2>12. Viewless(shed)
    <3>1. \A k \in 1..Len(shed) : k \in 1..Len(rest) /\ k \in 1..at - 1
      BY <1>2, <2>3, <2>6
    <3>. QED BY <1>1, <2>6, <3>1 DEF Viewless
  <2>13. Starts(shed)
    <3>1. shed = <<>> \/ 1 \in 1..at - 1
      BY <2>3, <2>6
    <3>2. rest # <<>>
      BY <1>2, <2>3
    <3>. QED BY <1>1, <2>6, <3>1, <3>2 DEF Starts
  <2>14. Parts(some, pre, kept)
    BY <1>1, <2>1, <2>6, <2>8, <2>10, <2>11 DEF Parts, tail
  <2>. QED BY <2>3, <2>4, <2>6, <2>10, <2>12, <2>13, <2>14 DEF kept
<1>. QED BY <1>1, <1>4, <1>5, CompactedIs

\* What is left of a conversation by compaction is one.
LEMMA ConvCompacted ==
    ASSUME NEW ms, Conv(ms, {}), NEW some \in Compacted(ms)
    PROVE  Conv(some, {})
<1>1. PICK pre, rest \in Seq(MessageSet) : Parts(ms, pre, rest) /\ Paired(rest)
  BY ConvRested
<1>2. PICK shed, kept \in Seq(MessageSet) :
         /\ Parts(some, pre, kept)
         /\ kept = rest \/ \E at \in 1..Len(rest) : IsTurn(rest[at]) /\ kept = SubSeq(rest, at, Len(rest))
  BY <1>1, CompactedParts
<1>3. Paired(kept)
  BY <1>1, <1>2, PairedCut
<1>. QED BY <1>2, <1>3, RestedConv

\* Two lists of roles and texts that drop the same rows leave the same rows.
LEMMA LeavingSame ==
    ASSUME NEW S, NEW r1, NEW t1, NEW r2, NEW t2, NEW ms \in Seq(S),
           \A i \in 1..Len(ms) : Drops(r1, t1, ms[i]) <=> Drops(r2, t2, ms[i])
    PROVE  Leaving(r1, t1, ms) = Leaving(r2, t2, ms)
<1>1. PICK f : Collects(S, r1, t1, ms, f) /\ Leaving(r1, t1, ms) = f[Len(ms)]
  BY LeavingIs
<1>2. PICK g : Collects(S, r2, t2, ms, g) /\ Leaving(r2, t2, ms) = g[Len(ms)]
  BY LeavingIs
<1>. DEFINE N == Len(ms)
            Same == {n \in Nat : f[n] = g[n]}
<1>3. N \in Nat
  OBVIOUS
<1>4. 0 \in Same
  BY <1>1, <1>2 DEF Collects
<1>5. \A n \in Nat : n < N /\ n \in Same => n + 1 \in Same
  <2>1. ASSUME NEW n \in Nat, n < N, n \in Same PROVE n + 1 \in Same
    <3>1. n + 1 \in 1..N /\ n + 1 \in Nat
      BY <1>3, <2>1
    <3>2. f[n + 1] = IF Drops(r1, t1, ms[n + 1]) THEN f[n] ELSE Append(f[n], ms[n + 1])
      BY <1>1, <2>1 DEF Collects
    <3>3. g[n + 1] = IF Drops(r2, t2, ms[n + 1]) THEN g[n] ELSE Append(g[n], ms[n + 1])
      BY <1>2, <2>1 DEF Collects
    <3>4. f[n] = g[n]
      BY <2>1
    <3>5. Drops(r1, t1, ms[n + 1]) <=> Drops(r2, t2, ms[n + 1])
      BY <3>1
    <3>. QED BY <3>1, <3>2, <3>3, <3>4, <3>5
  <2>. QED BY <2>1
<1>6. Same \in SUBSET Nat
  OBVIOUS
<1>. HIDE DEF Same, N
<1>7. \A n \in 0..N : n \in Same
  BY <1>3, <1>4, <1>5, <1>6, Climbs
<1>8. N \in 0..N
  BY <1>3
<1>. QED BY <1>1, <1>2, <1>7, <1>8 DEF Same, N

\* Joining what has no view, and what begins with a turn.
LEMMA JoinedParts ==
    ASSUME NEW a \in Seq(MessageSet), NEW b \in Seq(MessageSet)
    PROVE  /\ Viewless(a) /\ Viewless(b) => Viewless(a \o b)
           /\ Framed(a) /\ Framed(b) => Framed(a \o b)
           /\ Starts(a) /\ Starts(b) => Starts(a \o b)
<1>1. /\ a \o b \in Seq(MessageSet) /\ Len(a \o b) = Len(a) + Len(b)
      /\ Len(a) \in Nat /\ Len(b) \in Nat
      /\ \A i \in 1..Len(a) : (a \o b)[i] = a[i]
      /\ \A i \in 1..Len(b) : (a \o b)[Len(a) + i] = b[i]
  BY JoinIs
<1>2. \A i \in 1..Len(a \o b) : i \in 1..Len(a) \/ \E j \in 1..Len(b) : i = Len(a) + j
  <2>1. ASSUME NEW i \in 1..Len(a \o b), i \notin 1..Len(a)
        PROVE  i - Len(a) \in 1..Len(b) /\ i = Len(a) + (i - Len(a))
    BY <1>1, <2>1
  <2>. QED BY <2>1
<1>3. Viewless(a) /\ Viewless(b) => Viewless(a \o b)
  BY <1>1, <1>2 DEF Viewless
<1>4. Framed(a) /\ Framed(b) => Framed(a \o b)
  BY <1>1, <1>2 DEF Framed
<1>5. CASE a = <<>>
  <2>1. a \o b = b
    BY <1>5
  <2>. QED BY <1>3, <1>4, <2>1
<1>6. CASE a # <<>>
  <2>1. 1 \in 1..Len(a)
    BY <1>1, <1>6
  <2>. QED BY <1>1, <1>3, <1>4, <1>6, <2>1 DEF Starts
<1>. QED BY <1>5, <1>6

\* The view of the day takes its place in the framing and leaves the rest alone.
LEMMA UpsertedParts ==
    ASSUME NEW ms, NEW pre, NEW rest, Parts(ms, pre, rest), NEW rows \in Seq(ViewRow),
           \A i \in 1..Len(ms) : ms[i].text # "quotes"
    PROVE  \E front \in Seq(MessageSet) :
              Parts(Upserted(ms, rows), front, rest) /\ Spoken(front) = Spoken(pre)
<1>1. /\ ms \in Seq(MessageSet) /\ pre \in Seq(MessageSet) /\ rest \in Seq(MessageSet) /\ ms = pre \o rest
      /\ Framed(pre) /\ Starts(rest) /\ Viewless(rest)
  BY PartsAre DEF Parts
<1>2. /\ Len(ms) = Len(pre) + Len(rest) /\ Len(pre) \in Nat /\ Len(rest) \in Nat
      /\ \A i \in 1..Len(pre) : ms[i] = pre[i]
      /\ \A i \in 1..Len(rest) : ms[Len(pre) + i] = rest[i]
  BY <1>1, JoinIs
<1>3. \A i \in 1..Len(pre) : pre[i].text # "quotes"
  <2>1. \A i \in 1..Len(pre) : i \in 1..Len(ms)
    BY <1>2
  <2>. QED BY <1>2, <2>1
<1>4. \A i \in 1..Len(rest) : rest[i].text # "quotes"
  <2>1. \A i \in 1..Len(rest) : Len(pre) + i \in 1..Len(ms)
    BY <1>2
  <2>. QED BY <1>2, <2>1
<1>. DEFINE kept == Leaving({"view"}, {"quotes"}, ms)
            said == Leaving({"view"}, {"quotes"}, pre)
            day  == Today(rows)
<1>5. kept = said \o Leaving({"view"}, {"quotes"}, rest)
  BY <1>1, LeavingJoin
<1>6. Leaving({"view"}, {"quotes"}, rest) = rest
  <2>1. \A i \in 1..Len(rest) : ~Drops({"view"}, {"quotes"}, rest[i])
    BY <1>1, <1>4 DEF Drops, Viewless
  <2>. QED BY <1>1, <2>1, LeavingAll
<1>7. said = Spoken(pre)
  <2>1. \A i \in 1..Len(pre) : Drops({"view"}, {"quotes"}, pre[i]) <=> Drops({"view"}, {}, pre[i])
    BY <1>3 DEF Drops
  <2>. QED BY <1>1, <2>1, LeavingSame DEF Spoken
<1>8. /\ said \in Seq(MessageSet)
      /\ \A i \in 1..Len(said) : ~Drops({"view"}, {"quotes"}, said[i]) /\ \E j \in 1..Len(pre) : said[i] = pre[j]
  BY <1>1, LeavingOf, LeavingType
<1>9. Framed(said)
  BY <1>1, <1>8 DEF Framed
<1>10. Spoken(said) = said
  <2>1. \A i \in 1..Len(said) : ~Drops({"view"}, {}, said[i])
    BY <1>8 DEF Drops
  <2>. QED BY <1>8, <2>1, LeavingAll DEF Spoken
<1>11. day \in Seq(MessageSet) /\ \A i \in 1..Len(day) : day[i].role = "view"
  BY TodayIs
<1>12. /\ Upserted(ms, rows) = SubSeq(kept, 1, FirstTurn(kept) - 1) \o day \o SubSeq(kept, FirstTurn(kept), Len(kept))
       /\ Upserted(ms, rows) \in Seq(MessageSet)
  BY <1>1, UpsertedIs
<1>. HIDE DEF kept, said, day
<1>13. Parts(kept, said, rest)
  BY <1>1, <1>5, <1>6, <1>8, <1>9 DEF Parts
<1>14. SubSeq(kept, 1, FirstTurn(kept) - 1) = said /\ SubSeq(kept, FirstTurn(kept), Len(kept)) = rest
  BY <1>13, PartsAre
<1>15. Upserted(ms, rows) = (said \o day) \o rest
  BY <1>12, <1>14
<1>16. said \o day \in Seq(MessageSet) /\ Framed(said \o day)
  <2>1. Framed(day)
    BY <1>11 DEF Framed
  <2>. QED BY <1>8, <1>9, <1>11, <2>1, JoinIs, JoinedParts
<1>17. Spoken(said \o day) = said
  <2>1. \A i \in 1..Len(day) : Drops({"view"}, {}, day[i])
    BY <1>11 DEF Drops
  <2>2. Spoken(day) = <<>>
    BY <1>11, <2>1, LeavingNone DEF Spoken
  <2>3. Spoken(said \o day) = Spoken(said) \o Spoken(day)
    BY <1>8, <1>11, LeavingJoin DEF Spoken
  <2>4. said \o <<>> = said
    BY <1>8
  <2>. QED BY <1>10, <2>2, <2>3, <2>4
<1>18. Parts(Upserted(ms, rows), said \o day, rest)
  BY <1>1, <1>12, <1>15, <1>16 DEF Parts
<1>. QED BY <1>7, <1>16, <1>17, <1>18

\* A new view leaves the turns, and the calls that wait, as they were.
LEMMA ConvUpserted ==
    ASSUME NEW ms, NEW P, Conv(ms, P), NEW rows \in Seq(ViewRow),
           \A i \in 1..Len(ms) : ms[i].text # "quotes"
    PROVE  Conv(Upserted(ms, rows), P)
<1>1. PICK pre, old, new \in Seq(MessageSet) : Parts(ms, pre, old \o new) /\ Paired(old) /\ OpenTurn(new, P)
  BY DEF Conv
<1>2. PICK front \in Seq(MessageSet) : Parts(Upserted(ms, rows), front, old \o new)
  BY <1>1, UpsertedParts
<1>. QED BY <1>1, <1>2 DEF Conv

\* What a resume reads of a conversation is one, as messages arrive.
LEMMA TakenConv ==
    ASSUME NEW acc \in Reads0, Conv(acc.out, acc.pending), NEW m \in MessageSet,
           \/ m.role = "user"
           \/ IsTurn(m) /\ Distinct(m.calls)
           \/ m.role = "tool" /\ m.to \in acc.pending
    PROVE  /\ Conv(Taken(acc, m).out, Taken(acc, m).pending)
           /\ m.role = "user" => /\ Taken(acc, m).pending = {}
                                 /\ Taken(acc, m).out = Append(acc.out \o Interrupted(acc.pending), m)
           /\ IsTurn(m) => /\ Taken(acc, m).pending = ToSet(m.calls)
                           /\ Taken(acc, m).out = Append(acc.out \o Interrupted(acc.pending), m)
           /\ m.role = "tool" => /\ Taken(acc, m).pending = acc.pending \ {m.to}
                                 /\ Taken(acc, m).out = Append(acc.out, m)
<1>. DEFINE full == acc.out \o Interrupted(acc.pending)
<1>1. Conv(full, {})
  BY ConvMends
<1>2. full \in Seq(MessageSet)
  BY <1>1, ConvPaired
<1>. HIDE DEF full
<1>3. full \o <<m>> = Append(full, m)
  BY <1>2
<1>4. CASE m.role = "user"
  <2>1. Taken(acc, m) = [out |-> full \o <<m>>, pending |-> {}]
    BY <1>4 DEF Taken, IsTurn, full
  <2>2. Conv(Append(full, m), {})
    BY <1>1, <1>4, ConvNoted
  <2>3. Taken(acc, m).out = full \o <<m>> /\ Taken(acc, m).pending = {}
    BY <2>1
  <2>4. Taken(acc, m).out = Append(full, m) /\ Taken(acc, m).pending = {}
    BY <1>3, <2>3
  <2>5. Conv(Taken(acc, m).out, Taken(acc, m).pending)
    BY <2>2, <2>4
  <2>6. ~IsTurn(m) /\ m.role # "tool"
    BY <1>4 DEF IsTurn
  <2>. QED BY <2>4, <2>5, <2>6 DEF full
<1>5. CASE IsTurn(m)
  <2>1. m.calls = <<>> => ToSet(m.calls) = {}
    BY DEF ToSet
  <2>2. Taken(acc, m) = [out |-> full \o <<m>>, pending |-> ToSet(m.calls)]
    BY <1>5, <2>1 DEF Taken, IsTurn, full
  <2>3. Conv(Append(full, m), ToSet(m.calls))
    BY <1>1, <1>5, ConvActs DEF IsTurn
  <2>4. Taken(acc, m).out = full \o <<m>> /\ Taken(acc, m).pending = ToSet(m.calls)
    BY <2>2
  <2>5. Taken(acc, m).out = Append(full, m) /\ Taken(acc, m).pending = ToSet(m.calls)
    BY <1>3, <2>4
  <2>6. Conv(Taken(acc, m).out, Taken(acc, m).pending)
    BY <2>3, <2>5
  <2>7. m.role # "user" /\ m.role # "tool"
    BY <1>5 DEF IsTurn
  <2>. QED BY <2>5, <2>6, <2>7 DEF full
<1>6. CASE m.role = "tool"
  <2>1. m.to \in acc.pending /\ acc.pending # {}
    BY <1>6 DEF IsTurn
  <2>2. Taken(acc, m) = [out |-> Append(acc.out, m), pending |-> acc.pending \ {m.to}]
    BY <1>6, <2>1 DEF Taken, IsTurn
  <2>3. Conv(Append(acc.out, m), acc.pending \ {m.to})
    BY <1>6, <2>1, ConvAnswers
  <2>. QED BY <1>6, <2>2, <2>3 DEF IsTurn
<1>. QED BY <1>4, <1>5, <1>6

--------------------------------------------------------------------------------
(* What the model is shown, against what a resume would read: the same framing but *)
(* for the views, and the same messages from one of the turns on.          *)

Replay(out, ms) ==
    \E pre, lead, shed, rest \in Seq(MessageSet) :
       /\ Parts(ms, pre, rest) /\ out = lead \o (shed \o rest)
       /\ Framed(lead) /\ Spoken(pre) = Spoken(lead)
       /\ Starts(shed) /\ Viewless(shed) /\ (rest = <<>> => shed = <<>>)

\* What is said and written at once is replayed.
LEMMA ReplayMore ==
    ASSUME NEW out, NEW ms, Replay(out, ms), NEW m \in MessageSet,
           m.role = "user" \/ IsTurn(m) \/ (m.role = "tool" /\ \E i \in 1..Len(ms) : IsTurn(ms[i]))
    PROVE  Replay(Append(out, m), Append(ms, m))
<1>1. PICK pre, lead, shed, rest \in Seq(MessageSet) :
       /\ Parts(ms, pre, rest) /\ out = lead \o (shed \o rest)
       /\ Framed(lead) /\ Spoken(pre) = Spoken(lead)
       /\ Starts(shed) /\ Viewless(shed) /\ (rest = <<>> => shed = <<>>)
  BY DEF Replay
<1>2. m.role # "view"
  BY DEF IsTurn
<1>3. ms \in Seq(MessageSet) /\ Framed(pre) /\ ms = pre \o rest
  BY <1>1, PartsAre DEF Parts
<1>4. CASE rest # <<>> \/ IsTurn(m)
  <2>1. Parts(Append(ms, m), pre, Append(rest, m))
    BY <1>1, <1>2, <1>4, PartsMore
  <2>2. shed \o rest \in Seq(MessageSet) /\ Append(rest, m) \in Seq(MessageSet) /\ Append(rest, m) # <<>>
    <3>1. Len(Append(rest, m)) = Len(rest) + 1 /\ Len(rest) \in Nat /\ Append(rest, m) \in Seq(MessageSet)
      BY AppendIs
    <3>2. Append(rest, m) # <<>>
      <4>1. Len(Append(rest, m)) # 0
        BY <3>1
      <4>2. Len(<<>>) = 0
        OBVIOUS
      <4>. HIDE <3>1
      <4>. QED BY <4>1, <4>2
    <3>. QED BY <3>1, <3>2, JoinIs
  <2>3. Append(out, m) = lead \o Append(shed \o rest, m) /\ Append(shed \o rest, m) = shed \o Append(rest, m)
    BY <1>1, <2>2, AppendToLast
  <2>. QED BY <1>1, <2>1, <2>2, <2>3 DEF Replay
<1>5. CASE rest = <<>> /\ ~IsTurn(m)
  <2>1. ms = pre /\ \A i \in 1..Len(ms) : ~IsTurn(ms[i])
    <3>1. ms = pre
      BY <1>3, <1>5
    <3>. QED BY <1>3, <3>1 DEF Framed, IsTurn
  <2>2. m.role = "user"
    BY <2>1, <1>5
  <2>3. Parts(Append(ms, m), Append(pre, m), <<>>)
    BY <1>1, <1>5, <2>2, PartsNote
  <2>4. shed = <<>> /\ shed \o rest = <<>> /\ out = lead /\ <<>> \o <<>> = <<>>
    BY <1>1, <1>5
  <2>5. /\ Append(lead, m) \in Seq(MessageSet) /\ Append(pre, m) \in Seq(MessageSet) /\ <<>> \in Seq(MessageSet)
        /\ Append(lead, m) = lead \o <<m>> /\ <<m>> \in Seq(MessageSet) /\ Len(<<m>>) = 1 /\ <<m>>[1] = m
    BY AppendIs
  <2>6. Framed(Append(lead, m))
    <3>1. Framed(<<m>>)
      <4>1. \A i \in 1..1 : <<m>>[i] = m
        BY <2>5
      <4>. QED BY <2>2, <2>5, <4>1 DEF Framed
    <3>. QED BY <1>1, <2>5, <3>1, JoinedParts
  <2>7. Spoken(Append(pre, m)) = Spoken(Append(lead, m))
    <3>1. ~Drops({"view"}, {}, m)
      BY <1>2 DEF Drops
    <3>2. Spoken(Append(pre, m)) = Append(Spoken(pre), m) /\ Spoken(Append(lead, m)) = Append(Spoken(lead), m)
      BY <3>1, LeavingMore DEF Spoken
    <3>. QED BY <1>1, <3>2
  <2>8. Append(out, m) = Append(lead, m) \o (<<>> \o <<>>)
    BY <2>4, <2>5
  <2>9. Starts(<<>>) /\ Viewless(<<>>)
    BY DEF Starts, Viewless
  <2>. QED BY <2>3, <2>5, <2>6, <2>7, <2>8, <2>9 DEF Replay
<1>. QED BY <1>4, <1>5

\* Compaction leaves out turns that a resume still reads.
LEMMA ReplayCompacted ==
    ASSUME NEW out, NEW ms, Replay(out, ms), NEW some \in Compacted(ms)
    PROVE  Replay(out, some)
<1>1. PICK pre, lead, shed, rest \in Seq(MessageSet) :
       /\ Parts(ms, pre, rest) /\ out = lead \o (shed \o rest)
       /\ Framed(lead) /\ Spoken(pre) = Spoken(lead)
       /\ Starts(shed) /\ Viewless(shed) /\ (rest = <<>> => shed = <<>>)
  BY DEF Replay
<1>2. PICK more, kept \in Seq(MessageSet) :
         /\ rest = more \o kept /\ Starts(more) /\ Viewless(more) /\ Parts(some, pre, kept)
         /\ kept = <<>> => more = <<>>
  BY <1>1, CompactedParts, ZenonT(30)
<1>3. shed \o more \in Seq(MessageSet) /\ Starts(shed \o more) /\ Viewless(shed \o more)
  BY <1>1, <1>2, JoinIs, JoinedParts
<1>4. shed \o rest = (shed \o more) \o kept
  <2>1. rest = more \o kept
    BY <1>2
  <2>2. (shed \o more) \o kept = shed \o (more \o kept)
    BY JoinIsAssociative, SMTT(30)
  <2>. QED BY <2>1, <2>2
<1>5. kept = <<>> => shed \o more = <<>>
  <2>1. ASSUME kept = <<>> PROVE shed \o more = <<>>
    <3>1. more = <<>> /\ rest = <<>>
      BY <1>2, <2>1
    <3>. QED BY <1>1, <3>1
  <2>. QED BY <2>1
<1>. QED BY <1>1, <1>2, <1>3, <1>4, <1>5 DEF Replay

\* A new view leaves the replay as it was.
LEMMA ReplayUpserted ==
    ASSUME NEW out, NEW ms, Replay(out, ms), NEW rows \in Seq(ViewRow),
           \A i \in 1..Len(ms) : ms[i].text # "quotes"
    PROVE  Replay(out, Upserted(ms, rows))
<1>1. \A pre, rest : Parts(ms, pre, rest) =>
         \E front \in Seq(MessageSet) : Parts(Upserted(ms, rows), front, rest) /\ Spoken(front) = Spoken(pre)
  BY UpsertedParts
<1>2. PICK pre, lead, shed, rest \in Seq(MessageSet) :
       /\ Parts(ms, pre, rest) /\ out = lead \o (shed \o rest)
       /\ Framed(lead) /\ Spoken(pre) = Spoken(lead)
       /\ Starts(shed) /\ Viewless(shed) /\ (rest = <<>> => shed = <<>>)
  BY DEF Replay
<1>3. PICK front \in Seq(MessageSet) : Parts(Upserted(ms, rows), front, rest) /\ Spoken(front) = Spoken(pre)
  <2>1. Parts(ms, pre, rest)
    BY <1>2
  <2>. QED BY <1>1, <2>1
<1>. QED BY <1>2, <1>3 DEF Replay

\* A conversation replays itself.
LEMMA ReplaySelf ==
    ASSUME NEW ms, NEW P, Conv(ms, P)
    PROVE  Replay(ms, ms)
<1>1. PICK pre, rest \in Seq(MessageSet) : Parts(ms, pre, rest)
  <2>1. PICK pre, old, new \in Seq(MessageSet) : Parts(ms, pre, old \o new)
    BY DEF Conv
  <2>2. old \o new \in Seq(MessageSet)
    BY JoinIs
  <2>. QED BY <2>1, <2>2
<1>2. /\ <<>> \in Seq(MessageSet) /\ <<>> \o rest = rest /\ ms = pre \o rest /\ Framed(pre)
      /\ Starts(<<>>) /\ Viewless(<<>>)
  BY <1>1 DEF Parts, Starts, Viewless
<1>. QED BY <1>1, <1>2 DEF Replay

\* What is spoken in a joined list is what is spoken in its parts.
LEMMA SpokenJoin ==
    ASSUME NEW a \in Seq(MessageSet), NEW b \in Seq(MessageSet)
    PROVE  Spoken(a \o b) = Spoken(a) \o Spoken(b)
BY LeavingJoin DEF Spoken

\* What the model is shown is what a resume would read, cut at the beginning of a turn.
LEMMA ReplayShows ==
    ASSUME NEW out, NEW ms, Replay(out, ms)
    PROVE  LET all == Spoken(out)
               now == Spoken(ms)
               at  == FirstTurn(all)
           IN \E i \in at..Len(all) + 1 :
                 /\ i <= Len(all) => IsTurn(all[i])
                 /\ now = SubSeq(all, 1, at - 1) \o SubSeq(all, i, Len(all))
<1>1. PICK pre, lead, shed, rest \in Seq(MessageSet) :
       /\ Parts(ms, pre, rest) /\ out = lead \o (shed \o rest)
       /\ Framed(lead) /\ Spoken(pre) = Spoken(lead)
       /\ Starts(shed) /\ Viewless(shed) /\ (rest = <<>> => shed = <<>>)
  BY DEF Replay
<1>. DEFINE all  == Spoken(out)
            said == Spoken(lead)
            tail == shed \o rest
            i    == Len(said) + Len(shed) + 1
<1>2. Starts(rest) /\ Viewless(rest) /\ ms = pre \o rest /\ Framed(pre)
  BY <1>1 DEF Parts
<1>3. tail \in Seq(MessageSet) /\ Viewless(tail) /\ Starts(tail)
  BY <1>1, <1>2, JoinIs, JoinedParts
<1>4. \A list \in Seq(MessageSet) : Viewless(list) => Spoken(list) = list
  <2>1. ASSUME NEW list \in Seq(MessageSet), Viewless(list) PROVE Spoken(list) = list
    <3>1. \A k \in 1..Len(list) : ~Drops({"view"}, {}, list[k])
      BY <2>1 DEF Drops, Viewless
    <3>. QED BY <3>1, LeavingAll DEF Spoken
  <2>. QED BY <2>1
<1>5. said \in Seq(MessageSet) /\ Framed(said)
  <2>1. /\ said \in Seq(MessageSet)
        /\ \A k \in 1..Len(said) : \E j \in 1..Len(lead) : said[k] = lead[j]
    BY LeavingOf, LeavingType DEF Spoken
  <2>. QED BY <1>1, <2>1 DEF Framed
<1>6. Spoken(ms) = said \o rest
  <2>1. Spoken(ms) = Spoken(pre) \o Spoken(rest)
    BY <1>2, LeavingJoin, SMTT(30) DEF Spoken
  <2>. QED BY <1>1, <1>2, <1>4, <2>1
<1>7. all = said \o tail
  <2>1. \A a, b \in Seq(MessageSet) : Spoken(a \o b) = Spoken(a) \o Spoken(b)
    BY SpokenJoin
  <2>2. out = lead \o tail
    BY <1>1
  <2>. HIDE DEF tail
  <2>3. Spoken(lead \o tail) = Spoken(lead) \o Spoken(tail)
    BY <1>1, <1>3, <2>1
  <2>. QED BY <1>3, <1>4, <2>2, <2>3
<1>. HIDE DEF all, said, tail
<1>8. Parts(all, said, tail)
  BY <1>3, <1>5, <1>7 DEF Parts
<1>9. /\ all \in Seq(MessageSet) /\ FirstTurn(all) = Len(said) + 1
      /\ SubSeq(all, 1, FirstTurn(all) - 1) = said
  BY <1>8, PartsAre
<1>10. /\ Len(all) = Len(said) + (Len(shed) + Len(rest)) /\ Len(said) \in Nat /\ Len(shed) \in Nat /\ Len(rest) \in Nat
       /\ \A k \in 1..Len(rest) : all[Len(said) + (Len(shed) + k)] = rest[k]
  <2>1. /\ Len(tail) = Len(shed) + Len(rest) /\ Len(shed) \in Nat /\ Len(rest) \in Nat
        /\ \A k \in 1..Len(rest) : tail[Len(shed) + k] = rest[k]
    BY JoinIs DEF tail
  <2>2. /\ Len(all) = Len(said) + Len(tail) /\ Len(said) \in Nat
        /\ \A k \in 1..Len(tail) : all[Len(said) + k] = tail[k]
    BY <1>3, <1>5, <1>7, JoinIs
  <2>3. \A k \in 1..Len(rest) : Len(shed) + k \in 1..Len(tail)
    BY <2>1
  <2>. QED BY <2>1, <2>2, <2>3
<1>11. i \in Len(said) + 1..Len(all) + 1
  BY <1>10
<1>12. SubSeq(all, i, Len(all)) = rest
  <2>1. i \in 1..Len(all) + 1 /\ Len(all) + 1 - i = Len(rest)
    BY <1>10
  <2>2. /\ SubSeq(all, i, Len(all)) \in Seq(MessageSet) /\ Len(SubSeq(all, i, Len(all))) = Len(rest)
        /\ \A k \in 1..Len(rest) : SubSeq(all, i, Len(all))[k] = all[i + k - 1]
    <3>. HIDE DEF i
    <3>. QED BY <1>9, <2>1, CutIs
  <2>3. \A k \in 1..Len(rest) : i + k - 1 = Len(said) + (Len(shed) + k)
    BY <1>10
  <2>4. \A k \in 1..Len(rest) : SubSeq(all, i, Len(all))[k] = rest[k]
    BY <1>10, <2>2, <2>3
  <2>. QED BY <2>2, <2>4, SameList
<1>13. i <= Len(all) => IsTurn(all[i])
  <2>1. ASSUME i <= Len(all) PROVE IsTurn(all[i])
    <3>1. 1 \in 1..Len(rest) /\ i = Len(said) + (Len(shed) + 1)
      BY <1>10, <2>1
    <3>2. rest # <<>> /\ all[i] = rest[1]
      BY <1>10, <3>1
    <3>. QED BY <1>2, <3>2 DEF Starts
  <2>. QED BY <2>1
<1>. HIDE DEF i
<1>. QED BY <1>6, <1>9, <1>11, <1>12, <1>13 DEF all

--------------------------------------------------------------------------------
(* The file and what a resume reads of it, as it is written and torn.      *)

OnFile  == Reading(Readable(wire))
Unsplit == \A i \in 1..Len(wire) : wire[i].text # "splits"

\* A message joined to a torn line is lost with it, one that splits its line is never
\* read; any other is what a resume reads next.
LEMMA FileWritten ==
    ASSUME wire \in Seq(WireRow), NEW m \in MessageSet, wire' = Write(wire, m)
    PROVE  /\ ~OpenEnded(wire')
           /\ OnFile' = IF OpenEnded(wire) \/ m.text = "splits" THEN OnFile ELSE Taken(OnFile, m)
           /\ Whole(wire') => Whole(wire) /\ ~OpenEnded(wire) /\ m.text # "splits"
           /\ Unsplit' => Unsplit /\ (OpenEnded(wire) \/ m.text # "splits")
<1>1. /\ m \in WireRow /\ IsRow(m) /\ Broken \in WireRow /\ Broken.role = "broken"
      /\ Len(wire) \in Nat /\ \A i \in 1..Len(wire) : wire[i] \in WireRow
  BY MarksAre
<1>2. CASE OpenEnded(wire)
  <2>1. /\ wire' \in Seq(WireRow) /\ Len(wire) \in 1..Len(wire) /\ wire[Len(wire)].role = "torn"
        /\ Len(wire') = Len(wire) /\ wire'[Len(wire)] = Broken
        /\ \A i \in 1..Len(wire) - 1 : wire'[i] = wire[i]
    <3>1. Write(wire, m) \in Seq(WireRow)
      BY <1>1, WriteIs
    <3>2. Len(wire) \in 1..Len(wire) /\ wire[Len(wire)].role = "torn" /\ Len(Write(wire, m)) = Len(wire)
      BY <1>1, <1>2, WriteIs
    <3>3. Write(wire, m)[Len(wire)] = Broken
      BY <1>1, <1>2, WriteIs
    <3>4. \A i \in 1..Len(wire) - 1 : Write(wire, m)[i] = wire[i]
      BY <1>1, <1>2 DEF Write
    <3>. QED BY <3>1, <3>2, <3>3, <3>4
  <2>2. ~OpenEnded(wire')
    BY <1>1, <2>1 DEF OpenEnded, Last
  <2>3. OnFile' = OnFile
    BY <1>1, <1>2, ReadableWrite DEF OnFile
  <2>4. ~Whole(wire')
    <3>1. Whole(Write(wire, m)) => ~OpenEnded(wire)
      BY <1>1, WholeWrite
    <3>. QED BY <1>2, <3>1
  <2>5. Unsplit' => Unsplit
    <3>1. wire[Len(wire)].text # "splits"
      <4>1. wire[Len(wire)] \in WireRow /\ wire[Len(wire)] \notin MessageSet
        BY <1>1, <2>1, MarksAre DEF IsRow
      <4>. QED BY <4>1, MarksAre DEF WireRow
    <3>2. \A i \in 1..Len(wire) : i = Len(wire) \/ i \in 1..Len(wire) - 1
      BY <1>1
    <3>. QED BY <2>1, <3>1, <3>2 DEF Unsplit
  <2>. QED BY <1>2, <2>2, <2>3, <2>4, <2>5
<1>3. CASE ~OpenEnded(wire)
  <2>1. wire' = Append(wire, m)
    BY <1>1, <1>3, WriteIs
  <2>2. /\ Len(wire') = Len(wire) + 1 /\ wire'[Len(wire) + 1] = m
        /\ \A i \in 1..Len(wire) : wire'[i] = wire[i]
    BY <1>1, <2>1
  <2>3. ~OpenEnded(wire')
    BY <1>1, <2>2 DEF OpenEnded, Last, IsRow
  <2>4. OnFile' = IF m.text = "splits" THEN OnFile ELSE Taken(OnFile, m)
    <3>1. Readable(wire') = IF m.text = "splits" THEN Readable(wire) ELSE Append(Readable(wire), m)
      BY <1>1, <1>3, ReadableWrite
    <3>2. Readable(wire) \in Seq(MessageSet)
      BY ReadableIs
    <3>3. Reading(Append(Readable(wire), m)) = Taken(Reading(Readable(wire)), m)
      BY <3>2, ReadingMore
    <3>. QED BY <3>1, <3>3 DEF OnFile
  <2>5. Whole(wire') => Whole(wire) /\ m.text # "splits"
    <3>1. Whole(Write(wire, m)) => Whole(wire) /\ m.text # "splits"
      BY <1>1, WholeWrite
    <3>. QED BY <3>1
  <2>6. Unsplit' => Unsplit /\ m.text # "splits"
    <3>1. Len(wire) + 1 \in 1..Len(wire') /\ \A i \in 1..Len(wire) : i \in 1..Len(wire')
      BY <1>1, <2>2
    <3>. QED BY <2>2, <3>1 DEF Unsplit
  <2>. QED BY <1>3, <2>3, <2>4, <2>5, <2>6
<1>. QED BY <1>2, <1>3

\* A torn line leaves what is read of the file, which is no longer whole.
LEMMA FileTorn ==
    ASSUME wire \in Seq(WireRow), wire' = Tear(wire)
    PROVE  OnFile' = OnFile /\ ~Whole(wire') /\ (Unsplit' => Unsplit)
<1>1. Torn \in WireRow /\ Len(wire) \in Nat
  BY MarksAre
<1>2. OnFile' = OnFile
  BY <1>1, ReadableTear DEF OnFile
<1>3. ~Whole(wire') /\ (wire' = wire \/ wire' = Append(wire, Torn))
  BY <1>1, TearIs
<1>4. Unsplit' => Unsplit
  <2>1. wire' = Append(wire, Torn) =>
           /\ Len(wire') = Len(wire) + 1
           /\ \A i \in 1..Len(wire) : wire'[i] = wire[i] /\ i \in 1..Len(wire) + 1
    BY <1>1
  <2>. QED BY <1>3, <2>1 DEF Unsplit
<1>. QED BY <1>2, <1>3, <1>4

\* What a resume reads, before and after it answers the calls that wait.
LEMMA FileIs ==
    ASSUME wire \in Seq(WireRow)
    PROVE  /\ OnFile \in Reads0 /\ OnFile.out \in Seq(MessageSet)
           /\ OnFile.pending \in SUBSET Nat /\ IsFiniteSet(OnFile.pending)
           /\ Prior = OnFile.out \o Interrupted(OnFile.pending) /\ Prior \in Seq(MessageSet)
BY PriorIs DEF OnFile, Reads0

\* Where no call waits, there is nothing to answer.
LEMMA NothingMended ==
    ASSUME NEW out \in Seq(MessageSet)
    PROVE  out \o Interrupted({}) = out
<1>1. {} \in SUBSET Nat /\ IsFiniteSet({}) /\ Cardinality({}) = 0
  BY FS_EmptySet
<1>2. Interrupted({}) \in Seq(MessageSet) /\ Len(Interrupted({})) = 0
  BY <1>1, InterruptedIs
<1>3. Interrupted({}) = <<>>
  BY <1>2
<1>. QED BY <1>3

\* A message read is never nothing.
LEMMA TakenSome ==
    ASSUME NEW acc \in Reads0, NEW m \in MessageSet
    PROVE  Taken(acc, m).out # <<>>
<1>1. acc.out \in Seq(MessageSet) /\ acc.pending \in SUBSET Nat /\ IsFiniteSet(acc.pending)
  BY DEF Reads0
<1>2. Interrupted(acc.pending) \in Seq(MessageSet)
  BY <1>1, InterruptedIs
<1>. DEFINE full == acc.out \o Interrupted(acc.pending)
<1>3. full \in Seq(MessageSet)
  BY <1>1, <1>2, JoinIs
<1>4. Taken(acc, m).out = full \o <<m>> \/ Taken(acc, m).out = acc.out \o <<m>>
  <2>1. acc.out \o <<m>> = Append(acc.out, m)
    BY <1>1
  <2>. QED BY <2>1 DEF Taken
<1>. HIDE DEF full
<1>5. \A list \in Seq(MessageSet) : list \o <<m>> # <<>>
  <2>1. ASSUME NEW list \in Seq(MessageSet) PROVE list \o <<m>> # <<>>
    <3>1. Len(list \o <<m>>) = Len(list) + 1 /\ Len(list) \in Nat
      OBVIOUS
    <3>2. Len(list \o <<m>>) # 0 /\ Len(<<>>) = 0
      BY <3>1
    <3>. QED BY <3>2
  <2>. QED BY <2>1
<1>. QED BY <1>1, <1>3, <1>4, <1>5

\* A wire that is whole and not empty has something to resume.
LEMMA NothingToRead ==
    ASSUME wire \in Seq(WireRow), Prior = <<>>
    PROVE  /\ OnFile.out = <<>> /\ OnFile.pending = {}
           /\ wire # <<>> => ~Whole(wire)
<1>1. /\ OnFile.out \in Seq(MessageSet) /\ OnFile.pending \in SUBSET Nat /\ IsFiniteSet(OnFile.pending)
      /\ OnFile.out \o Interrupted(OnFile.pending) = <<>>
  BY FileIs
<1>2. /\ Interrupted(OnFile.pending) \in Seq(MessageSet)
      /\ Len(Interrupted(OnFile.pending)) = Cardinality(OnFile.pending) /\ Cardinality(OnFile.pending) \in Nat
  BY <1>1, InterruptedIs
<1>3. Len(OnFile.out) = 0 /\ Cardinality(OnFile.pending) = 0
  <2>1. /\ Len(OnFile.out) \in Nat
        /\ Len(OnFile.out \o Interrupted(OnFile.pending)) = Len(OnFile.out) + Cardinality(OnFile.pending)
    BY <1>1, <1>2, JoinIs
  <2>2. Len(OnFile.out \o Interrupted(OnFile.pending)) = 0
    BY <1>1
  <2>3. \A a, b \in Nat : a + b = 0 => a = 0 /\ b = 0
    OBVIOUS
  <2>4. Len(OnFile.out) + Cardinality(OnFile.pending) = 0
    BY <2>1, <2>2
  <2>. QED BY <1>2, <2>1, <2>3, <2>4
<1>4. OnFile.out = <<>>
  BY <1>1, <1>3
<1>5. OnFile.pending = {}
  BY <1>1, <1>3, FS_EmptySet
<1>6. ASSUME wire # <<>>, Whole(wire) PROVE FALSE
  <2>1. Readable(wire) = wire /\ Readable(wire) \in Seq(MessageSet)
    BY <1>6, ReadableIs
  <2>2. wire \in Seq(MessageSet) /\ OnFile = Reading(wire)
    BY <2>1 DEF OnFile
  <2>3. PICK f : ReadsAlong(wire, f) /\ Reading(wire) = f[Len(wire)]
    BY <2>2, ReadingIs
  <2>4. /\ Len(wire) \in Nat /\ Len(wire) # 0 /\ \A i \in 1..Len(wire) : wire[i] \in MessageSet
    BY <1>6, <2>2
  <2>5. Len(wire) \in 1..Len(wire) /\ Len(wire) - 1 \in 0..Len(wire)
    BY <2>4
  <2>6. f[Len(wire) - 1] \in Reads0 /\ f[Len(wire)] = Taken(f[Len(wire) - 1], wire[Len(wire)])
    BY <2>3, <2>5 DEF ReadsAlong
  <2>7. OnFile.out # <<>>
    BY <2>2, <2>3, <2>4, <2>5, <2>6, TakenSome
  <2>. QED BY <1>4, <2>7
<1>. QED BY <1>4, <1>5, <1>6

--------------------------------------------------------------------------------
(* The texts: whatever is said, written, shown or asked has a text of the run.  *)

TextsIn(ms, texts) == \A i \in 1..Len(ms) : ms[i].text \in texts
TextsKnown == /\ TextsIn(wire, size.texts) /\ TextsIn(messages, size.texts)
              /\ TextsIn(batch, size.texts) /\ TextsIn(OnFile.out, size.texts)

\* Texts stay known through an append, a join, a torn line.
LEMMA ToldMore ==
    ASSUME NEW S, NEW list \in Seq(S), NEW m \in S, NEW T, TextsIn(list, T), m.text \in T
    PROVE  TextsIn(Append(list, m), T)
<1>1. /\ Len(list) \in Nat /\ Len(Append(list, m)) = Len(list) + 1 /\ Append(list, m)[Len(list) + 1] = m
      /\ \A i \in 1..Len(list) : Append(list, m)[i] = list[i]
  OBVIOUS
<1>2. \A i \in 1..Len(list) + 1 : i \in 1..Len(list) \/ i = Len(list) + 1
  BY <1>1
<1>. QED BY <1>1, <1>2 DEF TextsIn

\* A joined list tells what its parts tell.
LEMMA ToldJoined ==
    ASSUME NEW a \in Seq(MessageSet), NEW b \in Seq(MessageSet), NEW T, TextsIn(a, T), TextsIn(b, T)
    PROVE  TextsIn(a \o b, T)
<1>1. /\ Len(a \o b) = Len(a) + Len(b) /\ Len(a) \in Nat /\ Len(b) \in Nat
      /\ \A i \in 1..Len(a) : (a \o b)[i] = a[i]
      /\ \A i \in Len(a) + 1..Len(a) + Len(b) : (a \o b)[i] = b[i - Len(a)]
  BY JoinIs
<1>2. \A i \in 1..Len(a) + Len(b) : i \in 1..Len(a) \/ (i \in Len(a) + 1..Len(a) + Len(b) /\ i - Len(a) \in 1..Len(b))
  BY <1>1
<1>. QED BY <1>1, <1>2 DEF TextsIn

\* Every element of the one list is one of the other.
LEMMA ToldAmong ==
    ASSUME NEW a, NEW b, NEW T, TextsIn(a, T), \A i \in 1..Len(b) : \E j \in 1..Len(a) : b[i] = a[j]
    PROVE  TextsIn(b, T)
BY DEF TextsIn

\* A new view is plain.
LEMMA ToldUpserted ==
    ASSUME NEW ms \in Seq(MessageSet), NEW rows \in Seq(ViewRow), NEW T, "plain" \in T, TextsIn(ms, T)
    PROVE  TextsIn(Upserted(ms, rows), T)
<1>. DEFINE kept == Leaving({"view"}, {"quotes"}, ms)
            at   == FirstTurn(kept)
            a    == SubSeq(kept, 1, at - 1)
            b    == SubSeq(kept, at, Len(kept))
<1>1. /\ Upserted(ms, rows) = a \o Today(rows) \o b
      /\ kept \in Seq(MessageSet) /\ at \in 1..Len(kept) + 1
  BY UpsertedIs
<1>2. TextsIn(kept, T)
  <2>1. \A i \in 1..Len(kept) : \E j \in 1..Len(ms) : kept[i] = ms[j]
    BY LeavingOf
  <2>. QED BY <2>1, ToldAmong
<1>3. Today(rows) \in Seq(MessageSet) /\ TextsIn(Today(rows), T)
  BY TodayIs DEF TextsIn
<1>. HIDE DEF kept
<1>4. /\ a \in Seq(MessageSet) /\ Len(a) = at - 1 /\ \A i \in 1..at - 1 : a[i] = kept[i]
      /\ b \in Seq(MessageSet) /\ Len(b) = Len(kept) + 1 - at
      /\ \A i \in 1..Len(kept) + 1 - at : b[i] = kept[at + i - 1]
  BY <1>1, CutIs
<1>. HIDE DEF at
<1>5. Len(kept) \in Nat
  BY <1>1
<1>6. TextsIn(a, T) /\ TextsIn(b, T)
  <2>1. /\ \A i \in 1..at - 1 : i \in 1..Len(kept)
        /\ \A i \in 1..Len(kept) + 1 - at : at + i - 1 \in 1..Len(kept)
    BY <1>1, <1>5
  <2>. HIDE DEF a, b
  <2>. QED BY <1>2, <1>4, <2>1 DEF TextsIn
<1>. HIDE DEF a, b
<1>7. TextsIn(a \o Today(rows), T) /\ a \o Today(rows) \in Seq(MessageSet)
  BY <1>3, <1>4, <1>6, ToldJoined, JoinIs
<1>. QED BY <1>1, <1>4, <1>6, <1>7, ToldJoined

\* Compaction brings no new text.
LEMMA ToldCompacted ==
    ASSUME NEW ms \in Seq(MessageSet), NEW some \in Compacted(ms), NEW T, TextsIn(ms, T)
    PROVE  TextsIn(some, T)
<1>1. \/ some = ms
      \/ \E i \in 1..Len(ms) : some = SubSeq(ms, 1, FirstTurn(ms) - 1) \o SubSeq(ms, i, Len(ms))
  BY CompactedIs
<1>2. ASSUME NEW i \in 1..Len(ms), some = SubSeq(ms, 1, FirstTurn(ms) - 1) \o SubSeq(ms, i, Len(ms))
      PROVE  TextsIn(some, T)
  <2>. DEFINE a == SubSeq(ms, 1, FirstTurn(ms) - 1)
              b == SubSeq(ms, i, Len(ms))
              at == FirstTurn(ms)
  <2>1. at \in 1..Len(ms) + 1 /\ Len(ms) \in Nat
    BY FirstTurnIs
  <2>2. a \in Seq(MessageSet) /\ Len(a) = at - 1 /\ \A k \in 1..at - 1 : a[k] = ms[k]
    BY <2>1, CutIs
  <2>3. i \in 1..Len(ms) + 1
    BY <2>1
  <2>4. b \in Seq(MessageSet) /\ Len(b) = Len(ms) + 1 - i /\ \A k \in 1..Len(ms) + 1 - i : b[k] = ms[i + k - 1]
    BY <2>3, CutIs
  <2>. HIDE DEF at
  <2>5. /\ \A k \in 1..at - 1 : k \in 1..Len(ms)
        /\ \A k \in 1..Len(ms) + 1 - i : i + k - 1 \in 1..Len(ms)
    BY <2>1, <2>3
  <2>. HIDE DEF a, b
  <2>6. TextsIn(a, T) /\ TextsIn(b, T)
    BY <2>2, <2>4, <2>5 DEF TextsIn
  <2>7. some = a \o b
    BY <1>2 DEF a, b
  <2>. QED BY <2>2, <2>4, <2>6, <2>7, ToldJoined
<1>. QED BY <1>1, <1>2

\* The results a resume makes up are plain.
LEMMA ToldMended ==
    ASSUME NEW out \in Seq(MessageSet), NEW P \in SUBSET Nat, IsFiniteSet(P), NEW T, "plain" \in T, TextsIn(out, T)
    PROVE  TextsIn(out \o Interrupted(P), T) /\ out \o Interrupted(P) \in Seq(MessageSet)
<1>1. Interrupted(P) \in Seq(MessageSet) /\ TextsIn(Interrupted(P), T)
  <2>1. /\ Interrupted(P) \in Seq(MessageSet) /\ Len(Interrupted(P)) = Cardinality(P)
        /\ \A i \in 1..Cardinality(P) : Interrupted(P)[i].text = "plain"
    BY InterruptedIs
  <2>. QED BY <2>1 DEF TextsIn
<1>. QED BY <1>1, ToldJoined, JoinIs

\* Reading brings no text that was not written, but for these.
LEMMA ToldTaken ==
    ASSUME NEW acc \in Reads0, NEW m \in MessageSet, NEW T, "plain" \in T, TextsIn(acc.out, T), m.text \in T
    PROVE  TextsIn(Taken(acc, m).out, T)
<1>1. acc.out \in Seq(MessageSet) /\ acc.pending \in SUBSET Nat /\ IsFiniteSet(acc.pending)
  BY DEF Reads0
<1>. DEFINE full == acc.out \o Interrupted(acc.pending)
<1>2. full \in Seq(MessageSet) /\ TextsIn(full, T)
  BY <1>1, ToldMended
<1>3. Taken(acc, m).out = full \o <<m>> \/ Taken(acc, m).out = Append(acc.out, m)
  BY DEF Taken
<1>. HIDE DEF full
<1>4. full \o <<m>> = Append(full, m)
  BY <1>2
<1>. QED BY <1>1, <1>2, <1>3, <1>4, ToldMore

\* A written message, or the line it was lost with, has a text of the run.
LEMMA ToldWritten ==
    ASSUME wire \in Seq(WireRow), NEW m \in MessageSet, NEW T, "plain" \in T, TextsIn(wire, T), m.text \in T
    PROVE  TextsIn(Write(wire, m), T)
<1>1. m \in WireRow /\ Broken \in WireRow /\ Broken.text = "plain"
  BY MarksAre
<1>2. CASE OpenEnded(wire)
  <2>1. Write(wire, m) = [wire EXCEPT ![Len(wire)] = Broken] /\ Len(wire) \in Nat
    BY <1>2 DEF Write
  <2>2. /\ Len(Write(wire, m)) = Len(wire)
        /\ \A i \in 1..Len(wire) : Write(wire, m)[i] = IF i = Len(wire) THEN Broken ELSE wire[i]
    BY <2>1
  <2>. QED BY <1>1, <2>2 DEF TextsIn
<1>3. CASE ~OpenEnded(wire)
  BY <1>1, <1>3, ToldMore DEF Write
<1>. QED BY <1>2, <1>3

\* A torn line is plain.
LEMMA ToldTorn ==
    ASSUME wire \in Seq(WireRow), NEW T, "plain" \in T, TextsIn(wire, T)
    PROVE  TextsIn(Tear(wire), T)
BY MarksAre, ToldMore DEF Tear

\* "plain" is a text of every run.
LEMMA PlainTexts ==
    ASSUME size \in Sizes
    PROVE  "plain" \in size.texts /\ size.texts \subseteq Texts
BY ConversationAssumption

\* What a step may do to the texts.
TextMoves ==
    /\ UNCHANGED size
    /\ \/ wire' = wire \/ wire' = Tear(wire)
       \/ \E m \in MessageSet : m.text \in size.texts /\ wire' = Write(wire, m)
    /\ \/ messages' = messages \/ messages' = <<>>
       \/ \E m \in MessageSet : m.text \in size.texts /\ messages' = Append(messages, m)
       \/ \E ms \in Seq(MessageSet) : TextsIn(ms, size.texts) /\ messages' = Upserted(ms, views)
    /\ TextsIn(batch', size.texts)

\* A call keeps its text, unless it looks: then its result has one of the run's.
LEMMA CallTexts ==
    ASSUME EpisodeTypes, TextsKnown, NEW k, CallStep(k)
    PROVE  TextsIn(batch', size.texts)
<1>1. batch \in Seq(CallSet) /\ k \in DOMAIN batch /\ Moved(k)
  BY CallMoves DEF EpisodeTypes, RecordTypes
<1>2. /\ DOMAIN batch = 1..Len(batch) /\ Len(batch') = Len(batch)
      /\ \A j \in 1..Len(batch) : j # k => batch'[j] = batch[j]
  BY <1>1 DEF Moved
<1>3. batch[k].text \in size.texts
  BY <1>1, <1>2 DEF TextsKnown, TextsIn
<1>3a. /\ batch[k] \in CallSet
       /\ \A c : batch' = [batch EXCEPT ![k] = c] => batch'[k] = c
  BY <1>1
<1>3b. \A c \in CallSet : \A at, says, name, text :
          /\ [c EXCEPT !.at = at].text = c.text
          /\ [c EXCEPT !.at = at, !.name = name].text = c.text
          /\ [c EXCEPT !.at = at, !.says = says].text = c.text
          /\ [c EXCEPT !.at = at, !.text = text].text = text
  BY DEF CallSet
<1>4. ASSUME NEW says, Done(k, says) PROVE batch'[k].text = batch[k].text
  <2>. DEFINE c == [batch[k] EXCEPT !.at = "done", !.says = says]
  <2>1. batch' = [batch EXCEPT ![k] = c]
    BY <1>4 DEF Done
  <2>2. c.text = batch[k].text
    BY <1>3a, <1>3b
  <2>. HIDE DEF c
  <2>. QED BY <1>3a, <2>1, <2>2
<1>5. ASSUME NEW text \in size.texts, Look(k, text) PROVE batch'[k].text = text
  <2>. DEFINE c == [batch[k] EXCEPT !.at = "done", !.text = text]
  <2>1. batch' = [batch EXCEPT ![k] = c]
    BY <1>5 DEF Look
  <2>2. c.text = text
    BY <1>3a, <1>3b
  <2>. HIDE DEF c
  <2>. QED BY <1>3a, <2>1, <2>2
<1>6. ASSUME LookRaises(k) PROVE batch'[k].text = batch[k].text
  <2>. DEFINE c == [batch[k] EXCEPT !.at = "raised"]
  <2>1. batch' = [batch EXCEPT ![k] = c]
    BY <1>6 DEF LookRaises
  <2>2. c.text = batch[k].text
    BY <1>3a, <1>3b
  <2>. HIDE DEF c
  <2>. QED BY <1>3a, <2>1, <2>2
<1>7. ASSUME NEW at, NEW name, batch' = [batch EXCEPT ![k].at = at, ![k].name = name]
      PROVE  batch'[k].text = batch[k].text
  <2>. DEFINE c == [batch[k] EXCEPT !.at = at, !.name = name]
  <2>1. batch' = [batch EXCEPT ![k] = c]
    BY <1>7
  <2>2. c.text = batch[k].text
    BY <1>3a, <1>3b
  <2>. HIDE DEF c
  <2>. QED BY <1>3a, <2>1, <2>2
<1>7a. Draw(k) => batch'[k].text = batch[k].text
  BY <1>7 DEF Draw
<1>8. Background(k) => batch'[k].text = batch[k].text
  BY <1>4 DEF Background
<1>9. Update(k) => batch'[k].text = batch[k].text
  BY <1>4, <1>7 DEF Update
<1>10. Edit(k) \/ Review(k) \/ Engage(k) \/ NotAlone(k) \/ Create(k) \/ Revise(k) \/ Restatus(k)
          => batch'[k].text = batch[k].text
  BY <1>4 DEF Edit, Review, Engage, NotAlone, Create, Revise, Restatus
<1>11. batch'[k].text \in size.texts
  BY <1>3, <1>5, <1>6, <1>7a, <1>8, <1>9, <1>10 DEF CallStep
<1>12. \A j \in 1..Len(batch) : batch[j].text \in size.texts
  BY DEF TextsKnown, TextsIn
<1>. QED BY <1>2, <1>11, <1>12 DEF TextsIn

\* Every step says, writes, shows and asks with texts of the run only.
LEMMA TextStep == ASSUME EpisodeTypes, TextsKnown, EpisodeNext PROVE TextMoves
<1>1. /\ wire \in Seq(WireRow) /\ messages \in Seq(MessageSet) /\ views \in Seq(ViewRow)
      /\ batch \in Seq(CallSet) /\ size \in Sizes /\ "plain" \in size.texts /\ size.texts \subseteq Texts
  BY PlainTexts DEF EpisodeTypes, RecordTypes, CounterTypes
<1>2. TextsIn(batch, size.texts) /\ TextsIn(messages, size.texts) /\ TextsIn(<<>>, size.texts)
  BY DEF TextsKnown, TextsIn
<1>3. \A says \in {"opening", "resumed", "inherited", "knock", "pace", "job", "nudge", "report"} :
         Note(says) \in MessageSet /\ Note(says).text \in size.texts
  BY <1>1, NotesAre
<1>4. ASSUME NEW m \in MessageSet, m.text \in size.texts, Emit(m)
      PROVE  /\ \E n \in MessageSet : n.text \in size.texts /\ wire' = Write(wire, n)
             /\ \E n \in MessageSet : n.text \in size.texts /\ messages' = Append(messages, n)
  BY <1>4 DEF Emit
<1>5. ASSUME NEW says \in {"opening", "resumed", "inherited", "knock", "pace", "job", "nudge", "report"},
             UNCHANGED <<size, batch>>, Emit(Note(says)) \/ UNCHANGED <<wire, messages>>
      PROVE  TextMoves
  <2>1. CASE UNCHANGED <<wire, messages>>
    BY <1>2, <1>5, <2>1 DEF TextMoves
  <2>2. CASE Emit(Note(says))
    BY <1>2, <1>3, <1>4, <1>5, <2>2 DEF TextMoves
  <2>. QED BY <1>5, <2>1, <2>2
<1>6. TextsIn(Prior, size.texts) /\ Prior \in Seq(MessageSet)
  <2>1. /\ OnFile.out \in Seq(MessageSet) /\ OnFile.pending \in SUBSET Nat /\ IsFiniteSet(OnFile.pending)
        /\ Prior = OnFile.out \o Interrupted(OnFile.pending)
    BY <1>1, FileIs
  <2>2. TextsIn(OnFile.out, size.texts)
    BY DEF TextsKnown
  <2>. QED BY <1>1, <2>1, <2>2, ToldMended
<1>7. CASE Resume
  <2>1. PICK ms \in Compacted(Append(Prior, Note("resumed"))) : messages' = Upserted(ms, views)
    BY <1>7 DEF Resume
  <2>2. Append(Prior, Note("resumed")) \in Seq(MessageSet) /\ TextsIn(Append(Prior, Note("resumed")), size.texts)
    BY <1>3, <1>6, ToldMore, AppendIs
  <2>3. ms \in Seq(MessageSet) /\ TextsIn(ms, size.texts)
    BY <2>2, ToldCompacted, CompactedIs
  <2>4. wire' = Write(wire, Note("resumed")) /\ UNCHANGED <<size, batch>>
    BY <1>7 DEF Resume, calls
  <2>. QED BY <1>2, <1>3, <2>1, <2>3, <2>4 DEF TextMoves
<1>8. CASE Begin
  <2>1. Opening \in Seq(MessageSet) /\ TextsIn(Opening, size.texts)
    <3>1. Len(Opening) = 1 /\ Opening[1] = Note("opening") /\ Opening \in Seq(MessageSet)
      BY <1>1, OpeningIs DEF Opening
    <3>2. \A i \in 1..Len(Opening) : i = 1
      BY <3>1
    <3>. QED BY <1>3, <3>1, <3>2 DEF TextsIn
  <2>2. messages' = Upserted(Opening, views) /\ UNCHANGED <<wire, size, batch>>
    BY <1>8 DEF Begin, calls, files
  <2>. QED BY <1>2, <2>1, <2>2 DEF TextMoves
<1>9. CASE RecordOpening
  <2>1. CASE opened < Len(messages)
    <3>1. wire' = Write(wire, messages[opened + 1]) /\ UNCHANGED <<messages, batch, size>>
      BY <1>9, <2>1 DEF RecordOpening, calls
    <3>2. opened \in Nat
      BY DEF EpisodeTypes, PlaceTypes
    <3>3. opened + 1 \in 1..Len(messages)
      BY <1>1, <2>1, <3>2
    <3>4. messages[opened + 1] \in MessageSet /\ messages[opened + 1].text \in size.texts
      BY <1>1, <1>2, <3>3 DEF TextsIn
    <3>. QED BY <1>2, <3>1, <3>4 DEF TextMoves
  <2>2. CASE ~(opened < Len(messages))
    <3>1. UNCHANGED <<size, batch>> /\ (Emit(Note("inherited")) \/ UNCHANGED <<wire, messages>>)
      BY <1>9, <2>2 DEF RecordOpening, calls
    <3>. QED BY <1>5, <3>1
  <2>. QED BY <2>1, <2>2
<1>10. CASE Knock
  <2>1. UNCHANGED <<size, batch>> /\ (Emit(Note("knock")) \/ UNCHANGED <<wire, messages>>)
    BY <1>10 DEF Knock, calls, files, loop
  <2>. QED BY <1>5, <2>1
<1>11. CASE CutOff
  BY <1>2, <1>11 DEF CutOff, files, loop, calls, world, Ends, TextMoves
<1>12. CASE Pace
  <2>1. UNCHANGED <<size, batch>> /\ (Emit(Note("pace")) \/ UNCHANGED <<wire, messages>>)
    BY <1>12 DEF Pace, calls, files, loop
  <2>. QED BY <1>5, <2>1
<1>13. CASE Drained
  BY <1>2, <1>13 DEF Drained, files, loop, calls, world, TextMoves
<1>14. CASE DrainHand \/ \E j \in DOMAIN jobs : DrainJob(j)
  <2>1. UNCHANGED <<size, batch>> /\ (Emit(Note("job")) \/ Emit(Note("report")))
    BY <1>14 DEF DrainHand, DrainJob, calls, files, loop
  <2>. QED BY <1>5, <2>1
<1>15. CASE ModelFails
  BY <1>2, <1>15 DEF ModelFails, files, loop, calls, world, Ends, TextMoves
<1>16. CASE \E text \in size.texts : TalkOnly(text)
  <2>1. PICK text \in size.texts : TalkOnly(text)
    BY <1>16
  <2>2. Emit(Assistant(<<>>, text)) /\ UNCHANGED <<size, batch>>
    BY <2>1 DEF TalkOnly, calls
  <2>3. Assistant(<<>>, text) \in MessageSet /\ Assistant(<<>>, text).text = text
    <3>1. <<>> \in Seq(Nat) /\ text \in Texts
      BY <1>1, PlainIs
    <3>. QED BY <3>1, AssistantIs, ZenonT(30)
  <2>. QED BY <1>2, <1>4, <2>2, <2>3 DEF TextMoves
<1>17. CASE \E text \in size.texts : \E n \in 1..size.width : \E tools \in [1..n -> size.tools] : Act(tools, text)
  <2>1. PICK text \in size.texts, n \in 1..size.width : \E tools \in [1..n -> size.tools] : Act(tools, text)
    BY <1>17
  <2>2. PICK tools \in [1..n -> size.tools] : Act(tools, text)
    BY <2>1
  <2>3. Assistant(Ids(n), text) \in MessageSet /\ Emit(Assistant(Ids(n), text)) /\ Len(batch') = n
    BY <2>2, ActIs
  <2>4. Assistant(Ids(n), text).text = text
    BY DEF Assistant, Message
  <2>5. UNCHANGED size /\ \A k \in 1..n : batch'[k].text = "plain"
    BY <2>2 DEF Act, Call
  <2>6. TextsIn(batch', size.texts)
    BY <1>1, <2>3, <2>5 DEF TextsIn
  <2>. QED BY <1>4, <2>3, <2>4, <2>5, <2>6 DEF TextMoves
<1>18. CASE Nudge
  <2>1. UNCHANGED <<size, batch>> /\ (Emit(Note("nudge")) \/ UNCHANGED <<wire, messages>>)
    BY <1>18 DEF Nudge, calls, files, loop
  <2>. QED BY <1>5, <2>1
<1>19. CASE Accept
  BY <1>2, <1>19 DEF Accept, files, loop, calls, world, Ends, TextMoves
<1>20. CASE \E says \in {"malformed", "unheard"} : Refuse(says)
  <2>1. PICK says \in {"malformed", "unheard"} : Refuse(says)
    BY <1>20
  <2>2. Emit(Result(batch[1].id, says, 0, "plain")) /\ pc = "door" /\ batch' = <<>> /\ UNCHANGED size
    BY <2>1 DEF Refuse
  <2>3. RecordTypes /\ Len(batch) = 1
    BY <2>2 DEF EpisodeTypes, PlaceTypes
  <2>4. 1 \in 1..1
    OBVIOUS
  <2>5. Result(batch[1].id, says, 0, "plain") \in MessageSet
    BY <2>3, <2>4, AnswersAre
  <2>6. Result(batch[1].id, says, 0, "plain").text = "plain"
    BY DEF Result, Message
  <2>. QED BY <1>1, <1>2, <1>4, <2>2, <2>5, <2>6 DEF TextMoves
<1>21. CASE \E k \in DOMAIN batch : CallStep(k)
  <2>1. PICK k \in DOMAIN batch : CallStep(k)
    BY <1>21
  <2>2. UNCHANGED <<wire, messages, size>>
    BY <2>1, CallFrame DEF loop
  <2>. QED BY <2>1, <2>2, CallTexts DEF TextMoves
<1>22. CASE Joined
  BY <1>2, <1>22 DEF Joined, files, loop, calls, world, Ends, TextMoves
<1>23. CASE Answer
  <2>1. RecordTypes /\ answered + 1 \in 1..Len(batch)
    <3>1. answered \in 0..Len(batch) /\ Len(batch) \in Nat /\ answered < Len(batch) /\ RecordTypes
      BY <1>23 DEF Answer, EpisodeTypes, RecordTypes
    <3>. QED BY <3>1
  <2>. DEFINE c == batch[answered + 1]
              m == Result(c.id, c.says, c.name, c.text)
  <2>2. m \in MessageSet
    BY <2>1, AnswersAre
  <2>3. m.text \in size.texts
    <3>1. m.text = c.text
      BY DEF Result, Message
    <3>. QED BY <1>2, <2>1, <3>1 DEF TextsIn
  <2>4. /\ wire' = Write(wire, m) /\ UNCHANGED <<size, batch>>
        /\ messages' = Upserted(Append(messages, m), views) \/ messages' = Append(messages, m)
    BY <1>23 DEF Answer
  <2>. HIDE DEF m
  <2>5. Append(messages, m) \in Seq(MessageSet) /\ TextsIn(Append(messages, m), size.texts)
    BY <1>1, <1>2, <2>2, <2>3, ToldMore, AppendIs
  <2>. QED BY <1>2, <2>2, <2>3, <2>4, <2>5 DEF TextMoves
<1>24. CASE TurnOver
  <2>1. PICK ms \in Compacted(messages) : messages' = Upserted(ms, views)
    BY <1>24 DEF TurnOver
  <2>2. ms \in Seq(MessageSet) /\ TextsIn(ms, size.texts)
    BY <1>1, <1>2, CompactedIs, ToldCompacted
  <2>3. UNCHANGED <<wire, size>> /\ batch' = <<>>
    BY <1>24 DEF TurnOver, files
  <2>. QED BY <1>2, <2>1, <2>2, <2>3 DEF TextMoves
<1>25. CASE Shutdown
  <2>1. UNCHANGED <<size, batch>> /\ (Emit(Note("report")) \/ UNCHANGED <<wire, messages>>)
    BY <1>25 DEF Shutdown, calls, files, loop
  <2>. QED BY <1>5, <2>1
<1>26. CASE Conclude
  BY <1>2, <1>26 DEF Conclude, Leave, files, TextMoves
<1>27. CASE Gone
  BY <1>2, <1>27 DEF Gone, Leave, files, TextMoves
<1>28. CASE Interrupt
  BY <1>2, <1>28 DEF Interrupt, files, loop, calls, world, TextMoves
<1>29. CASE Kill
  BY <1>2, <1>29 DEF Kill, Leave, files, TextMoves
<1>30. CASE Supervise
  BY <1>2, <1>30 DEF Supervise, files, loop, calls, world, TextMoves
<1>31. CASE Rest
  BY <1>2, <1>31 DEF Rest, files, loop, calls, world, episodeVars, TextMoves
<1>32. CASE LateWrites
  BY <1>2, <1>32 DEF LateWrites, files, loop, calls, world, TextMoves
<1>33. CASE Tick
  BY <1>2, <1>33 DEF Tick, files, loop, calls, world, TextMoves
<1>34. CASE \E j \in DOMAIN jobs : JobExits(j)
  BY <1>2, <1>34 DEF JobExits, files, loop, calls, world, TextMoves
<1>. QED BY <1>7, <1>8, <1>9, <1>10, <1>11, <1>12, <1>13, <1>14, <1>15, <1>16, <1>17, <1>18,
            <1>19, <1>20, <1>21, <1>22, <1>23, <1>24, <1>25, <1>26, <1>27, <1>28, <1>29,
            <1>30, <1>31, <1>32, <1>33, <1>34
         DEF EpisodeNext, Launch, Scientist, Stopping, TurnTop, Reply, Door, Finish

\* The texts stay known through every step and stuttering.
LEMMA TextsStep == EpisodeTypes /\ TextsKnown /\ [EpisodeNext]_episodeVars => TextsKnown'
<1>1. ASSUME EpisodeTypes, TextsKnown, EpisodeNext PROVE TextsKnown'
  <2>1. /\ wire \in Seq(WireRow) /\ messages \in Seq(MessageSet) /\ views \in Seq(ViewRow)
        /\ "plain" \in size.texts
    BY <1>1, PlainTexts DEF EpisodeTypes, RecordTypes, CounterTypes
  <2>2. TextsIn(wire, size.texts) /\ TextsIn(messages, size.texts) /\ TextsIn(OnFile.out, size.texts)
    BY <1>1 DEF TextsKnown
  <2>3. TextMoves
    BY <1>1, TextStep
  <2>4. TextsIn(wire', size.texts) /\ TextsIn(OnFile'.out, size.texts)
    <3>1. CASE wire' = wire
      BY <2>2, <3>1 DEF OnFile
    <3>2. CASE wire' = Tear(wire)
      BY <2>1, <2>2, <3>2, FileTorn, ToldTorn
    <3>3. ASSUME NEW m \in MessageSet, m.text \in size.texts, wire' = Write(wire, m)
          PROVE  TextsIn(wire', size.texts) /\ TextsIn(OnFile'.out, size.texts)
      <4>1. TextsIn(wire', size.texts)
        BY <2>1, <2>2, <3>3, ToldWritten
      <4>2. OnFile \in Reads0 /\ (OnFile' = OnFile \/ OnFile' = Taken(OnFile, m))
        BY <2>1, <3>3, FileIs, FileWritten
      <4>3. TextsIn(Taken(OnFile, m).out, size.texts)
        BY <2>1, <2>2, <3>3, <4>2, ToldTaken
      <4>. QED BY <2>2, <4>1, <4>2, <4>3
    <3>. QED BY <2>3, <3>1, <3>2, <3>3 DEF TextMoves
  <2>5. TextsIn(messages', size.texts)
    <3>1. TextsIn(<<>>, size.texts)
      BY DEF TextsIn
    <3>2. \A m \in MessageSet : m.text \in size.texts => TextsIn(Append(messages, m), size.texts)
      BY <2>1, <2>2, ToldMore
    <3>3. \A ms \in Seq(MessageSet) : TextsIn(ms, size.texts) => TextsIn(Upserted(ms, views), size.texts)
      BY <2>1, ToldUpserted
    <3>. QED BY <2>2, <2>3, <3>1, <3>2, <3>3 DEF TextMoves
  <2>. QED BY <2>3, <2>4, <2>5 DEF TextMoves, TextsKnown
<1>2. ASSUME EpisodeTypes, TextsKnown, UNCHANGED episodeVars PROVE TextsKnown'
  BY <1>2 DEF TextsKnown, OnFile, episodeVars, files, loop, calls
<1>. QED BY <1>1, <1>2

\* Nothing is said at first.
LEMMA TextsBegin == EpisodeInit => TextsKnown
<1>. SUFFICES ASSUME EpisodeInit PROVE TextsKnown
  OBVIOUS
<1>1. wire = <<>> /\ messages = <<>> /\ batch = <<>>
  BY DEF EpisodeInit
<1>2. OnFile.out = <<>>
  <2>1. Readable(wire) = <<>>
    <3>1. wire \in Seq(WireRow) /\ Whole(wire)
      BY <1>1 DEF Whole
    <3>. QED BY <1>1, <3>1, ReadableIs
  <2>. QED BY <2>1, ReadingNothing DEF OnFile
<1>. QED BY <1>1, <1>2 DEF TextsKnown, TextsIn

--------------------------------------------------------------------------------
(* The conversation, on file and before the model, while no text quotes the marker *)
(* of the view and no line of the wire is split.                           *)

Clean == "quotes" \notin size.texts /\ Unsplit
\* The calls of the turn that have no result yet.
Waits == {batch[k].id : k \in answered + 1..Len(batch)}
Calm  == {"drain", "think", "nudge"}
Busy  == {"door", "act", "answer"}

\* A cold start: the file holds what of the framing was recorded.
AtOpen ==
    pc = "open" => /\ ~OpenEnded(wire) /\ OnFile.pending = {}
                   /\ OnFile.out = SubSeq(messages, 1, opened)
                   /\ Framed(messages) /\ \A i \in 1..Len(messages) : messages[i].text = "plain"
\* Between the turns nothing waits before the model, and nothing on file once the
\* life has written to it.
AtRest ==
    /\ pc \in Calm \cup {"top"} => Conv(messages, {})
    /\ pc \in Calm \/ (pc = "top" /\ step # 1) => ~OpenEnded(wire) /\ OnFile.pending = {}
    /\ pc = "top" /\ (Whole(wire) \/ OpenEnded(wire)) => OnFile.pending = {}
\* In a turn the same calls wait before the model and on file.
AtWork ==
    pc \in Busy => /\ Conv(messages, Waits) /\ ~OpenEnded(wire) /\ OnFile.pending = Waits
                   /\ \A j, k \in 1..Len(batch) : batch[j].id = batch[k].id => j = k
Replays == Whole(wire) /\ pc \in Calm \cup Busy \cup {"top"} => Replay(OnFile.out, messages)

Conversing ==
    /\ pc \in {"down", "ended"} => step = 1
    /\ Clean => Conv(OnFile.out, OnFile.pending) /\ AtOpen /\ AtRest /\ AtWork /\ Replays

\* A note answers the calls that wait on file, if it is not lost with a torn line.
LEMMA NoteTaken ==
    ASSUME wire \in Seq(WireRow), Conv(OnFile.out, OnFile.pending),
           NEW m \in MessageSet, m.role = "user", m.text # "splits", wire' = Write(wire, m)
    PROVE  /\ ~OpenEnded(wire') /\ Conv(OnFile'.out, OnFile'.pending)
           /\ ~OpenEnded(wire) \/ OnFile.pending = {} => OnFile'.pending = {}
           /\ Whole(wire') => /\ Whole(wire)
                              /\ OnFile'.pending = {}
                              /\ OnFile'.out = Append(OnFile.out \o Interrupted(OnFile.pending), m)
<1>1. /\ ~OpenEnded(wire') /\ (Whole(wire') => Whole(wire) /\ ~OpenEnded(wire))
      /\ OnFile' = IF OpenEnded(wire) THEN OnFile ELSE Taken(OnFile, m)
  BY FileWritten
<1>2. /\ Conv(Taken(OnFile, m).out, Taken(OnFile, m).pending) /\ Taken(OnFile, m).pending = {}
      /\ Taken(OnFile, m).out = Append(OnFile.out \o Interrupted(OnFile.pending), m)
  BY FileIs, TakenConv
<1>. QED BY <1>1, <1>2

\* A turn of the model, and the result of a call, once the wire is not torn.
LEMMA TurnTaken ==
    ASSUME wire \in Seq(WireRow), Conv(OnFile.out, OnFile.pending), ~OpenEnded(wire), OnFile.pending = {},
           NEW m \in MessageSet, IsTurn(m), Distinct(m.calls), m.text # "splits", wire' = Write(wire, m)
    PROVE  /\ ~OpenEnded(wire') /\ Conv(OnFile'.out, OnFile'.pending)
           /\ OnFile'.pending = ToSet(m.calls) /\ OnFile'.out = Append(OnFile.out, m)
           /\ Whole(wire') => Whole(wire)
<1>1. ~OpenEnded(wire') /\ OnFile' = Taken(OnFile, m) /\ (Whole(wire') => Whole(wire))
  BY FileWritten
<1>2. /\ Conv(Taken(OnFile, m).out, Taken(OnFile, m).pending) /\ Taken(OnFile, m).pending = ToSet(m.calls)
      /\ Taken(OnFile, m).out = Append(OnFile.out \o Interrupted(OnFile.pending), m)
  BY FileIs, TakenConv
<1>3. OnFile.out \o Interrupted(OnFile.pending) = OnFile.out
  BY FileIs, NothingMended
<1>. QED BY <1>1, <1>2, <1>3

\* The result of a call that waits on file is read as its answer.
LEMMA ToolTaken ==
    ASSUME wire \in Seq(WireRow), Conv(OnFile.out, OnFile.pending), ~OpenEnded(wire),
           NEW m \in MessageSet, m.role = "tool", m.to \in OnFile.pending, m.text # "splits",
           wire' = Write(wire, m)
    PROVE  /\ ~OpenEnded(wire') /\ Conv(OnFile'.out, OnFile'.pending)
           /\ OnFile'.pending = OnFile.pending \ {m.to} /\ OnFile'.out = Append(OnFile.out, m)
           /\ Whole(wire') => Whole(wire)
<1>1. ~OpenEnded(wire') /\ OnFile' = Taken(OnFile, m) /\ (Whole(wire') => Whole(wire))
  BY FileWritten
<1>2. /\ Conv(Taken(OnFile, m).out, Taken(OnFile, m).pending)
      /\ Taken(OnFile, m).pending = OnFile.pending \ {m.to}
      /\ Taken(OnFile, m).out = Append(OnFile.out, m)
  BY FileIs, TakenConv
<1>. QED BY <1>1, <1>2

\* A wire that is clean after a step was clean before.
LEMMA WasClean ==
    ASSUME wire \in Seq(WireRow), UNCHANGED size, WireMoves, Clean'
    PROVE  Clean /\ \A m \in MessageSet : wire' = Write(wire, m) => OpenEnded(wire) \/ m.text # "splits"
<1>1. "quotes" \notin size.texts /\ Unsplit'
  BY DEF Clean
<1>2. \A m \in MessageSet : wire' = Write(wire, m) => Unsplit /\ (OpenEnded(wire) \/ m.text # "splits")
  BY <1>1, FileWritten
<1>3. wire' = Tear(wire) => Unsplit
  BY <1>1, FileTorn
<1>4. wire' = wire => Unsplit
  BY <1>1 DEF Unsplit
<1>. QED BY <1>1, <1>2, <1>3, <1>4 DEF Clean, WireMoves

\* A step to where nothing is put before the model: the file alone matters.
LEMMA AwayConv ==
    ASSUME EpisodeTypes, Conversing, UNCHANGED size, wire' = wire \/ wire' = Tear(wire),
           pc' \notin Calm \cup Busy \cup {"open", "top"}, pc' \in {"down", "ended"} => step' = 1
    PROVE  Conversing'
<1>1. wire \in Seq(WireRow) /\ WireMoves
  BY DEF EpisodeTypes, RecordTypes, WireMoves
<1>2. OnFile' = OnFile
  BY <1>1, FileTorn DEF OnFile
<1>3. Clean' => Clean
  BY <1>1, WasClean
<1>. QED BY <1>2, <1>3 DEF Conversing, AtOpen, AtRest, AtWork, Replays

\* A step that leaves the conversation alone.
LEMMA SameConv ==
    ASSUME EpisodeTypes, Conversing, UNCHANGED <<wire, messages, size, step, opened, answered>>,
           pc' = pc \/ {pc, pc'} \subseteq Calm \/ {pc, pc'} \subseteq Busy,
           Len(batch') = Len(batch), \A k \in 1..Len(batch) : batch'[k].id = batch[k].id
    PROVE  Conversing'
<1>1. OnFile' = OnFile /\ (Clean' <=> Clean)
  BY DEF OnFile, Clean, Unsplit
<1>2. answered \in Nat /\ Len(batch) \in Nat
  BY DEF EpisodeTypes, RecordTypes
<1>3. Waits' = Waits
  <2>1. \A k \in answered + 1..Len(batch) : k \in 1..Len(batch)
    BY <1>2
  <2>. QED BY <2>1 DEF Waits
<1>4. pc \in {"down", "ended"} => step = 1
  BY DEF Conversing
<1>5. pc' \in {"down", "ended"} => step' = 1
  BY <1>4 DEF Calm, Busy
<1>6. ASSUME Clean
      PROVE  Conv(OnFile'.out, OnFile'.pending) /\ AtOpen' /\ AtRest' /\ AtWork' /\ Replays'
  <2>0. Conv(OnFile.out, OnFile.pending) /\ AtOpen /\ AtRest /\ AtWork /\ Replays
    BY <1>6 DEF Conversing
  <2>1. Conv(OnFile'.out, OnFile'.pending)
    BY <1>1, <2>0
  <2>2. AtOpen'
    BY <1>1, <2>0 DEF AtOpen, Calm, Busy
  <2>3. AtRest'
    BY <1>1, <2>0 DEF AtRest, Calm, Busy
  <2>4. AtWork'
    BY <1>1, <1>3, <2>0 DEF AtWork, Calm, Busy
  <2>5. Replays'
    BY <1>1, <2>0 DEF Replays, Calm, Busy
  <2>. QED BY <2>1, <2>2, <2>3, <2>4, <2>5
<1>. QED BY <1>1, <1>5, <1>6 DEF Conversing

\* A note between the turns.
LEMMA NoteConv ==
    ASSUME EpisodeTypes, Conversing, UNCHANGED size,
           pc \in Calm \cup {"top"}, pc' \in Calm \cup {"top"},
           NEW says \in {"opening", "resumed", "inherited", "knock", "pace", "job", "nudge", "report"},
           Emit(Note(says))
    PROVE  Conversing'
<1>. DEFINE m == Note(says)
<1>1. m \in MessageSet /\ m.role = "user" /\ m.text # "splits"
  <2>1. m.text = "plain"
    BY NotesAre
  <2>. QED BY <2>1, NotesAre
<1>. HIDE DEF m
<1>2. wire \in Seq(WireRow) /\ messages \in Seq(MessageSet) /\ wire' = Write(wire, m) /\ messages' = Append(messages, m)
  BY DEF EpisodeTypes, RecordTypes, Emit, m
<1>3. WireMoves
  BY <1>1, <1>2 DEF WireMoves
<1>4. SUFFICES ASSUME Clean'
               PROVE  Conv(OnFile'.out, OnFile'.pending) /\ AtOpen' /\ AtRest' /\ AtWork' /\ Replays'
  BY DEF Conversing, Calm
<1>5. Clean
  BY <1>2, <1>3, <1>4, WasClean
<1>6. Conv(OnFile.out, OnFile.pending) /\ AtRest /\ Replays
  BY <1>5 DEF Conversing
<1>7. Conv(messages, {})
  BY <1>6 DEF AtRest
<1>8. OpenEnded(wire) => OnFile.pending = {}
  BY <1>6 DEF AtRest, Calm
<1>9. /\ ~OpenEnded(wire') /\ Conv(OnFile'.out, OnFile'.pending) /\ OnFile'.pending = {}
      /\ Whole(wire') => /\ Whole(wire)
                         /\ OnFile'.out = Append(OnFile.out \o Interrupted(OnFile.pending), m)
  BY <1>1, <1>2, <1>6, <1>8, NoteTaken
<1>10. Conv(messages', {})
  BY <1>1, <1>2, <1>7, ConvNoted
<1>11. ASSUME Whole(wire') PROVE Replay(OnFile'.out, messages')
  <2>1. Whole(wire) /\ OnFile.pending = {}
    BY <1>6, <1>9, <1>11 DEF AtRest, Calm
  <2>2. OnFile'.out = Append(OnFile.out, m)
    <3>1. OnFile.out \o Interrupted({}) = OnFile.out
      BY <1>2, FileIs, NothingMended
    <3>. QED BY <1>9, <1>11, <2>1, <3>1
  <2>3. Replay(OnFile.out, messages)
    BY <1>6, <2>1 DEF Replays
  <2>4. Replay(Append(OnFile.out, m), Append(messages, m))
    BY <1>1, <2>3, ReplayMore
  <2>. QED BY <1>2, <2>2, <2>4
<1>12. pc' \notin Busy /\ pc' # "open"
  BY DEF Calm, Busy
<1>. QED BY <1>9, <1>10, <1>11, <1>12 DEF AtOpen, AtRest, AtWork, Replays

\* A turn of the model, on file and before the model.
LEMMA TurnConv ==
    ASSUME EpisodeTypes, Conversing, UNCHANGED size, pc = "think", Clean',
           NEW m \in MessageSet, IsTurn(m), Distinct(m.calls), Emit(m)
    PROVE  /\ ~OpenEnded(wire') /\ Conv(OnFile'.out, OnFile'.pending)
           /\ OnFile'.pending = ToSet(m.calls) /\ Conv(messages', ToSet(m.calls))
           /\ Whole(wire') => Replay(OnFile'.out, messages')
<1>1. wire \in Seq(WireRow) /\ messages \in Seq(MessageSet) /\ wire' = Write(wire, m) /\ messages' = Append(messages, m)
  BY DEF EpisodeTypes, RecordTypes, Emit
<1>2. WireMoves
  BY <1>1 DEF WireMoves
<1>3. Clean /\ (OpenEnded(wire) \/ m.text # "splits")
  BY <1>1, <1>2, WasClean
<1>4. Conv(OnFile.out, OnFile.pending) /\ AtRest /\ Replays
  BY <1>3 DEF Conversing
<1>5. ~OpenEnded(wire) /\ OnFile.pending = {} /\ Conv(messages, {})
  BY <1>4 DEF AtRest, Calm
<1>6. /\ ~OpenEnded(wire') /\ Conv(OnFile'.out, OnFile'.pending)
      /\ OnFile'.pending = ToSet(m.calls) /\ OnFile'.out = Append(OnFile.out, m)
      /\ Whole(wire') => Whole(wire)
  BY <1>1, <1>3, <1>4, <1>5, TurnTaken
<1>7. Conv(messages', ToSet(m.calls))
  BY <1>1, <1>5, ConvActs
<1>8. ASSUME Whole(wire') PROVE Replay(OnFile'.out, messages')
  <2>1. Replay(OnFile.out, messages)
    BY <1>4, <1>6, <1>8 DEF Replays, Calm
  <2>2. Replay(Append(OnFile.out, m), Append(messages, m))
    BY <2>1, ReplayMore
  <2>. QED BY <1>1, <1>6, <2>2
<1>. QED BY <1>6, <1>7, <1>8

\* A turn without a call leaves none waiting.
LEMMA TalkConv ==
    ASSUME EpisodeTypes, Conversing, NEW text \in size.texts, TalkOnly(text)
    PROVE  Conversing'
<1>. DEFINE m == Assistant(<<>>, text)
<1>1. m \in MessageSet /\ m.role = "assistant" /\ m.calls = <<>>
  <2>1. <<>> \in Seq(Nat) /\ text \in Texts
    BY PlainIs, PlainTexts DEF EpisodeTypes, CounterTypes
  <2>. QED BY <2>1, AssistantIs
<1>2. pc = "think" /\ Emit(m) /\ UNCHANGED size /\ pc' \in {"top", "nudge"}
  BY DEF TalkOnly
<1>. HIDE DEF m
<1>3. IsTurn(m) /\ Distinct(m.calls) /\ ToSet(m.calls) = {}
  BY <1>1 DEF IsTurn, Distinct, ToSet
<1>4. ASSUME Clean'
      PROVE  Conv(OnFile'.out, OnFile'.pending) /\ AtOpen' /\ AtRest' /\ AtWork' /\ Replays'
  <2>1. /\ ~OpenEnded(wire') /\ Conv(OnFile'.out, OnFile'.pending)
        /\ OnFile'.pending = {} /\ Conv(messages', {})
        /\ Whole(wire') => Replay(OnFile'.out, messages')
    BY <1>1, <1>2, <1>3, <1>4, TurnConv
  <2>. QED BY <1>2, <2>1 DEF AtOpen, AtRest, AtWork, Replays, Busy
<1>. QED BY <1>2, <1>4 DEF Conversing

\* A turn with calls makes all of them wait, on file and before the model.
LEMMA ActConv ==
    ASSUME EpisodeTypes, Conversing, NEW n \in 1..size.width, NEW tools \in [1..n -> size.tools],
           NEW text \in size.texts, Act(tools, text)
    PROVE  Conversing'
<1>. DEFINE ids == Ids(n)
            m   == Assistant(ids, text)
<1>1. /\ n \in Nat /\ ids \in Seq(Nat) /\ Len(ids) = n /\ m \in MessageSet /\ Emit(m)
      /\ \A j, k \in 1..n : ids[j] = ids[k] => j = k
      /\ Len(batch') = n /\ answered' = 0 /\ \A k \in 1..n : batch'[k].id = ids[k]
  BY ActIs
<1>2. m.role = "assistant" /\ m.calls = ids
  BY DEF Assistant, Message
<1>3. pc = "think" /\ UNCHANGED size /\ pc' \in {"door", "act"}
  BY DEF Act
<1>. HIDE DEF ids, m
<1>4. IsTurn(m) /\ Distinct(m.calls)
  BY <1>1, <1>2 DEF IsTurn, Distinct
<1>5. Waits' = ToSet(m.calls)
  <2>1. DOMAIN ids = 1..n /\ 0 + 1 = 1
    BY <1>1
  <2>2. Waits' = {batch'[k].id : k \in 1..n}
    BY <1>1, <2>1 DEF Waits
  <2>3. ToSet(m.calls) = {ids[k] : k \in 1..n}
    BY <1>2, <2>1 DEF ToSet
  <2>. QED BY <1>1, <2>2, <2>3
<1>6. ASSUME Clean'
      PROVE  Conv(OnFile'.out, OnFile'.pending) /\ AtOpen' /\ AtRest' /\ AtWork' /\ Replays'
  <2>1. /\ ~OpenEnded(wire') /\ Conv(OnFile'.out, OnFile'.pending)
        /\ OnFile'.pending = Waits' /\ Conv(messages', Waits')
        /\ Whole(wire') => Replay(OnFile'.out, messages')
    BY <1>1, <1>3, <1>4, <1>5, <1>6, TurnConv
  <2>2. \A j, k \in 1..Len(batch') : batch'[j].id = batch'[k].id => j = k
    BY <1>1
  <2>3. AtOpen' /\ AtRest'
    BY <1>3 DEF AtOpen, AtRest, Calm
  <2>4. AtWork'
    BY <2>1, <2>2 DEF AtWork
  <2>. QED BY <2>1, <2>3, <2>4 DEF Replays
<1>. QED BY <1>3, <1>6 DEF Conversing

\* The result of a call that waits, on file and before the model.
LEMMA ToolConv ==
    ASSUME EpisodeTypes, Conversing, UNCHANGED size, pc \in Busy, Clean',
           NEW m \in MessageSet, m.role = "tool", m.to \in Waits, wire' = Write(wire, m)
    PROVE  /\ Clean /\ ~OpenEnded(wire') /\ Conv(OnFile'.out, OnFile'.pending)
           /\ OnFile'.pending = Waits \ {m.to} /\ Conv(Append(messages, m), Waits \ {m.to})
           /\ Whole(wire') => Replay(OnFile'.out, Append(messages, m))
<1>1. wire \in Seq(WireRow) /\ messages \in Seq(MessageSet)
  BY DEF EpisodeTypes, RecordTypes
<1>2. WireMoves
  BY DEF WireMoves
<1>3. Clean /\ (OpenEnded(wire) \/ m.text # "splits")
  BY <1>1, <1>2, WasClean
<1>4. Conv(OnFile.out, OnFile.pending) /\ AtWork /\ Replays
  BY <1>3 DEF Conversing
<1>5. ~OpenEnded(wire) /\ OnFile.pending = Waits /\ Conv(messages, Waits)
  BY <1>4 DEF AtWork
<1>6. /\ ~OpenEnded(wire') /\ Conv(OnFile'.out, OnFile'.pending)
      /\ OnFile'.pending = Waits \ {m.to} /\ OnFile'.out = Append(OnFile.out, m)
      /\ Whole(wire') => Whole(wire)
  BY <1>1, <1>3, <1>4, <1>5, ToolTaken
<1>7. Conv(Append(messages, m), Waits \ {m.to}) /\ \E i \in 1..Len(messages) : IsTurn(messages[i])
  BY <1>5, ConvAnswers
<1>8. ASSUME Whole(wire') PROVE Replay(OnFile'.out, Append(messages, m))
  <2>1. Replay(OnFile.out, messages)
    BY <1>4, <1>6, <1>8 DEF Replays
  <2>2. Replay(Append(OnFile.out, m), Append(messages, m))
    BY <1>7, <2>1, ReplayMore
  <2>. QED BY <1>6, <2>2
<1>. QED BY <1>3, <1>6, <1>7, <1>8

\* A refused exit is the answer to its call.
LEMMA RefuseConv ==
    ASSUME EpisodeTypes, Conversing, NEW says \in {"malformed", "unheard"}, Refuse(says)
    PROVE  Conversing'
<1>. DEFINE m == Result(batch[1].id, says, 0, "plain")
<1>1. pc = "door" /\ Emit(m) /\ pc' = "top" /\ UNCHANGED size
  BY DEF Refuse
<1>2. RecordTypes /\ Len(batch) = 1 /\ answered = 0
  BY <1>1 DEF EpisodeTypes, PlaceTypes
<1>3. 1 \in 1..1 /\ 0 + 1..1 = {1}
  OBVIOUS
<1>4. m \in MessageSet
  BY <1>2, <1>3, AnswersAre
<1>5. m.role = "tool" /\ m.to = batch[1].id
  BY DEF Result, Message
<1>6. Waits = {batch[1].id}
  BY <1>2, <1>3 DEF Waits
<1>. HIDE DEF m
<1>7. ASSUME Clean'
      PROVE  Conv(OnFile'.out, OnFile'.pending) /\ AtOpen' /\ AtRest' /\ AtWork' /\ Replays'
  <2>1. pc \in Busy /\ m.to \in Waits /\ Waits \ {m.to} = {} /\ wire' = Write(wire, m) /\ messages' = Append(messages, m)
    BY <1>1, <1>5, <1>6 DEF Busy, Emit
  <2>2. /\ ~OpenEnded(wire') /\ Conv(OnFile'.out, OnFile'.pending)
        /\ OnFile'.pending = {} /\ Conv(messages', {})
        /\ Whole(wire') => Replay(OnFile'.out, messages')
    BY <1>1, <1>4, <1>5, <1>7, <2>1, ToolConv
  <2>. QED BY <1>1, <2>2 DEF AtOpen, AtRest, AtWork, Replays, Busy
<1>. QED BY <1>1, <1>7 DEF Conversing

\* Each answer is the result of a call that waits, and a new view may follow it.
LEMMA AnswerConv ==
    ASSUME EpisodeTypes, TextsKnown, Conversing, Answer
    PROVE  Conversing'
<1>. DEFINE c == batch[answered + 1]
            m == Result(c.id, c.says, c.name, c.text)
<1>1. /\ RecordTypes /\ messages \in Seq(MessageSet) /\ views \in Seq(ViewRow) /\ size \in Sizes
      /\ answered \in Nat /\ Len(batch) \in Nat /\ answered < Len(batch)
  BY DEF Answer, EpisodeTypes, RecordTypes, CounterTypes
<1>2. answered + 1 \in 1..Len(batch)
  BY <1>1
<1>3. m \in MessageSet
  BY <1>1, <1>2, AnswersAre
<1>4. m.role = "tool" /\ m.to = c.id /\ m.text = c.text
  BY DEF Result, Message
<1>5. /\ pc = "answer" /\ pc' = pc /\ wire' = Write(wire, m) /\ UNCHANGED <<size, batch>> /\ answered' = answered + 1
      /\ messages' = Upserted(Append(messages, m), views) \/ messages' = Append(messages, m)
  BY DEF Answer
<1>6. c.id \in Waits
  BY <1>1, <1>2 DEF Waits
<1>. HIDE DEF m
<1>7. m.text \in size.texts /\ TextsIn(Append(messages, m), size.texts) /\ Append(messages, m) \in Seq(MessageSet)
  <2>1. c.text \in size.texts /\ TextsIn(messages, size.texts)
    BY <1>2 DEF TextsKnown, TextsIn
  <2>. QED BY <1>1, <1>3, <1>4, <2>1, ToldMore, AppendIs
<1>8. ASSUME Clean'
      PROVE  Conv(OnFile'.out, OnFile'.pending) /\ AtOpen' /\ AtRest' /\ AtWork' /\ Replays'
  <2>1. pc \in Busy /\ m.to \in Waits
    BY <1>4, <1>5, <1>6 DEF Busy
  <2>2. /\ Clean /\ ~OpenEnded(wire') /\ Conv(OnFile'.out, OnFile'.pending)
        /\ OnFile'.pending = Waits \ {m.to} /\ Conv(Append(messages, m), Waits \ {m.to})
        /\ Whole(wire') => Replay(OnFile'.out, Append(messages, m))
    BY <1>3, <1>4, <1>5, <1>8, <2>1, ToolConv
  <2>3. \A i \in 1..Len(Append(messages, m)) : Append(messages, m)[i].text # "quotes"
    BY <1>7, <2>2 DEF Clean, TextsIn
  <2>4. Conv(messages', Waits \ {m.to})
    <3>1. Conv(Upserted(Append(messages, m), views), Waits \ {m.to})
      BY <1>1, <2>2, <2>3, ConvUpserted
    <3>. QED BY <1>5, <2>2, <3>1
  <2>5. Whole(wire') => Replay(OnFile'.out, messages')
    <3>1. ASSUME Whole(wire') PROVE Replay(OnFile'.out, Upserted(Append(messages, m), views))
      BY <1>1, <2>2, <2>3, <3>1, ReplayUpserted
    <3>. QED BY <1>5, <2>2, <3>1
  <2>6. AtWork
    BY <2>2 DEF Conversing
  <2>7. \A j, k \in 1..Len(batch) : batch[j].id = batch[k].id => j = k
    BY <2>1, <2>6 DEF AtWork
  <2>8. Waits' = Waits \ {m.to}
    <3>1. Waits' = {batch[k].id : k \in answered + 2..Len(batch)}
      <4>1. (answered + 1) + 1 = answered + 2
        BY <1>1
      <4>. QED BY <1>5, <4>1 DEF Waits
    <3>2. \A k : k \in answered + 2..Len(batch) <=> k \in answered + 1..Len(batch) /\ k # answered + 1
      BY <1>1
    <3>3. \A k \in answered + 1..Len(batch) : k \in 1..Len(batch)
      BY <1>1
    <3>4. \A x : x \in Waits' <=> x \in Waits /\ x # batch[answered + 1].id
      BY <1>2, <2>7, <3>1, <3>2, <3>3 DEF Waits
    <3>. QED BY <1>4, <3>4
  <2>9. AtWork'
    BY <1>5, <2>2, <2>4, <2>7, <2>8 DEF AtWork
  <2>. QED BY <1>5, <2>2, <2>5, <2>9 DEF AtOpen, AtRest, Replays, Calm
<1>. QED BY <1>5, <1>8 DEF Conversing

\* At the end of a turn no call waits, and the compaction cuts where a turn begins.
LEMMA OverConv ==
    ASSUME EpisodeTypes, TextsKnown, Conversing, TurnOver
    PROVE  Conversing'
<1>1. PICK ms \in Compacted(messages) : messages' = Upserted(ms, views)
  BY DEF TurnOver
<1>2. messages \in Seq(MessageSet) /\ views \in Seq(ViewRow) /\ Len(batch) \in Nat /\ wire \in Seq(WireRow)
  BY DEF EpisodeTypes, RecordTypes
<1>3. pc = "answer" /\ answered = Len(batch) /\ pc' = "top" /\ UNCHANGED <<wire, size>>
  BY DEF TurnOver, files
<1>4. OnFile' = OnFile /\ (Clean' <=> Clean)
  BY <1>3 DEF OnFile, Clean, Unsplit
<1>5. Waits = {}
  <2>1. \A k : k \notin answered + 1..Len(batch)
    BY <1>2, <1>3
  <2>. QED BY <2>1 DEF Waits
<1>6. ASSUME Clean
      PROVE  Conv(OnFile'.out, OnFile'.pending) /\ AtOpen' /\ AtRest' /\ AtWork' /\ Replays'
  <2>1. Conv(OnFile.out, OnFile.pending) /\ AtWork /\ Replays
    BY <1>6 DEF Conversing
  <2>2. Conv(messages, {}) /\ ~OpenEnded(wire) /\ OnFile.pending = {}
    BY <1>3, <1>5, <2>1 DEF AtWork, Busy
  <2>3. Conv(ms, {}) /\ (Whole(wire) => Replay(OnFile.out, ms))
    <3>1. Whole(wire) => Replay(OnFile.out, messages)
      BY <1>3, <2>1 DEF Replays, Busy
    <3>. QED BY <2>2, <3>1, ConvCompacted, ReplayCompacted
  <2>4. \A i \in 1..Len(ms) : ms[i].text # "quotes"
    <3>1. TextsIn(ms, size.texts)
      BY <1>2, ToldCompacted DEF TextsKnown
    <3>. QED BY <1>6, <3>1 DEF TextsIn, Clean
  <2>5. Conv(messages', {})
    BY <1>1, <1>2, <2>3, <2>4, ConvUpserted
  <2>6. Whole(wire) => Replay(OnFile.out, messages')
    BY <1>1, <1>2, <2>3, <2>4, ReplayUpserted
  <2>. QED BY <1>3, <1>4, <2>1, <2>2, <2>5, <2>6 DEF AtOpen, AtRest, AtWork, Replays, Busy
<1>. QED BY <1>3, <1>4, <1>6 DEF Conversing

\* A resume takes up what the file holds; a torn line of it costs the note its place.
LEMMA ResumeConv ==
    ASSUME EpisodeTypes, TextsKnown, Conversing, Resume
    PROVE  Conversing'
<1>. DEFINE m == Note("resumed")
<1>1. m \in MessageSet /\ m.role = "user" /\ m.text = "plain"
  BY NotesAre
<1>. HIDE DEF m
<1>2. PICK ms \in Compacted(Append(Prior, m)) : messages' = Upserted(ms, views)
  BY DEF Resume, m
<1>3. /\ wire \in Seq(WireRow) /\ views \in Seq(ViewRow) /\ "plain" \in size.texts
      /\ OnFile.out \in Seq(MessageSet) /\ OnFile.pending \in SUBSET Nat /\ IsFiniteSet(OnFile.pending)
      /\ Prior = OnFile.out \o Interrupted(OnFile.pending) /\ Prior \in Seq(MessageSet)
  BY FileIs, PlainTexts DEF EpisodeTypes, RecordTypes, CounterTypes
<1>4. wire' = Write(wire, m) /\ pc = "down" /\ pc' = "top" /\ UNCHANGED <<size, step>>
  BY DEF Resume, m
<1>5. step' = 1
  BY <1>4 DEF Conversing
<1>6. WireMoves
  BY <1>1, <1>4 DEF WireMoves
<1>7. ASSUME Clean'
      PROVE  Conv(OnFile'.out, OnFile'.pending) /\ AtOpen' /\ AtRest' /\ AtWork' /\ Replays'
  <2>1. Clean
    BY <1>3, <1>4, <1>6, <1>7, WasClean
  <2>2. Conv(OnFile.out, OnFile.pending)
    BY <2>1 DEF Conversing
  <2>3. /\ ~OpenEnded(wire') /\ Conv(OnFile'.out, OnFile'.pending)
        /\ Whole(wire') => OnFile'.pending = {} /\ OnFile'.out = Append(Prior, m)
    BY <1>1, <1>3, <1>4, <2>2, NoteTaken
  <2>4. Conv(Append(Prior, m), {})
    <3>1. Conv(Prior, {})
      BY <1>3, <2>2, ConvMends
    <3>. QED BY <1>1, <3>1, ConvNoted
  <2>5. Conv(ms, {}) /\ Replay(Append(Prior, m), ms)
    BY <2>4, ConvCompacted, ReplaySelf, ReplayCompacted
  <2>6. \A i \in 1..Len(ms) : ms[i].text # "quotes"
    <3>1. TextsIn(Prior, size.texts)
      BY <1>3, ToldMended DEF TextsKnown
    <3>2. TextsIn(Append(Prior, m), size.texts) /\ Append(Prior, m) \in Seq(MessageSet)
      <4>1. Append(Prior, m) \in Seq(MessageSet)
        BY <1>1, <1>3, AppendIs
      <4>2. m.text \in size.texts
        BY <1>1, <1>3
      <4>3. TextsIn(Append(Prior, m), size.texts)
        BY <1>1, <1>3, <3>1, <4>2, ToldMore
      <4>. QED BY <4>1, <4>3
    <3>3. TextsIn(ms, size.texts)
      BY <3>2, ToldCompacted
    <3>. QED BY <2>1, <3>3 DEF TextsIn, Clean
  <2>7. Conv(messages', {})
    BY <1>2, <1>3, <2>5, <2>6, ConvUpserted
  <2>8. Replay(Append(Prior, m), messages')
    BY <1>2, <1>3, <2>5, <2>6, ReplayUpserted
  <2>. QED BY <1>4, <1>5, <2>3, <2>7, <2>8 DEF AtOpen, AtRest, AtWork, Replays, Busy, Calm
<1>. QED BY <1>4, <1>7 DEF Conversing

\* A life with nothing to resume begins with its framing, and nothing waits on file.
LEMMA BeginConv ==
    ASSUME EpisodeTypes, Conversing, Begin
    PROVE  Conversing'
<1>1. wire \in Seq(WireRow) /\ views \in Seq(ViewRow)
  BY DEF EpisodeTypes, RecordTypes
<1>2. /\ pc = "down" /\ pc' = (IF wire = <<>> THEN "open" ELSE "top") /\ UNCHANGED <<wire, size, step, opened>>
      /\ messages' = Upserted(Opening, views) /\ Prior = <<>>
  BY DEF Begin, files
<1>3. step' = 1 /\ opened' = 0
  BY <1>2 DEF Conversing, EpisodeTypes, PlaceTypes
<1>4. OnFile' = OnFile /\ (Clean' <=> Clean)
  BY <1>2 DEF OnFile, Clean, Unsplit
<1>5. OnFile.out = <<>> /\ OnFile.pending = {} /\ (wire # <<>> => ~Whole(wire))
  BY <1>1, <1>2, NothingToRead
<1>6. /\ messages' \in Seq(MessageSet) /\ Framed(messages')
      /\ \A i \in 1..Len(messages') : messages'[i].text = "plain"
  BY <1>1, <1>2, OpeningIs DEF Framed
<1>7. Conv(messages', {})
  BY <1>6, FramedPaired
<1>8. wire = <<>> => ~OpenEnded(wire')
  BY <1>2 DEF OpenEnded
<1>9. SubSeq(messages', 1, 0) = <<>>
  <2>1. 0 \in 0..Len(messages')
    BY <1>6
  <2>2. SubSeq(messages', 1, 0) \in Seq(MessageSet) /\ Len(SubSeq(messages', 1, 0)) = 0
    BY <1>6, <2>1, FrontIs
  <2>. QED BY <2>2
<1>10. ASSUME Clean
      PROVE  Conv(OnFile'.out, OnFile'.pending) /\ AtOpen' /\ AtRest' /\ AtWork' /\ Replays'
  <2>1. Conv(OnFile.out, OnFile.pending)
    BY <1>10 DEF Conversing
  <2>2. AtOpen'
    BY <1>2, <1>3, <1>4, <1>5, <1>6, <1>8, <1>9 DEF AtOpen
  <2>3. AtRest'
    BY <1>2, <1>3, <1>4, <1>5, <1>7 DEF AtRest, Calm
  <2>4. AtWork' /\ Replays'
    BY <1>2, <1>5 DEF AtWork, Replays, Busy, Calm
  <2>. QED BY <1>4, <2>1, <2>2, <2>3, <2>4
<1>. QED BY <1>2, <1>4, <1>10 DEF Conversing

\* The framing is recorded message by message, before anything else.
LEMMA OpeningConv ==
    ASSUME EpisodeTypes, Conversing, RecordOpening
    PROVE  Conversing'
<1>1. /\ wire \in Seq(WireRow) /\ messages \in Seq(MessageSet) /\ Len(messages) \in Nat
      /\ pc = "open" /\ UNCHANGED size /\ opened \in Nat /\ opened <= Len(messages)
  BY DEF RecordOpening, EpisodeTypes, RecordTypes, PlaceTypes
<1>2. ASSUME Clean
      PROVE  /\ Conv(OnFile.out, OnFile.pending) /\ ~OpenEnded(wire) /\ OnFile.pending = {}
             /\ OnFile.out = SubSeq(messages, 1, opened)
             /\ Framed(messages) /\ \A i \in 1..Len(messages) : messages[i].text = "plain"
  BY <1>1, <1>2 DEF Conversing, AtOpen
<1>3. CASE opened < Len(messages)
  <2>. DEFINE m == messages[opened + 1]
  <2>1. wire' = Write(wire, m) /\ opened' = opened + 1 /\ UNCHANGED <<messages, pc>>
    BY <1>3 DEF RecordOpening
  <2>2. opened + 1 \in 1..Len(messages)
    BY <1>1, <1>3
  <2>3. m \in MessageSet
    BY <1>1, <2>2
  <2>. HIDE DEF m
  <2>4. WireMoves
    BY <2>1, <2>3 DEF WireMoves
  <2>5. ASSUME Clean'
        PROVE  Conv(OnFile'.out, OnFile'.pending) /\ AtOpen' /\ AtRest' /\ AtWork' /\ Replays'
    <3>1. Clean
      BY <1>1, <2>4, <2>5, WasClean
    <3>2. /\ ~OpenEnded(wire) /\ OnFile.pending = {} /\ OnFile.out = SubSeq(messages, 1, opened)
          /\ Framed(messages) /\ \A i \in 1..Len(messages) : messages[i].text = "plain"
      BY <1>2, <3>1
    <3>3. m.text # "splits" /\ m.role \in {"user", "view"}
      BY <2>2, <3>2 DEF Framed, m
    <3>4. ~OpenEnded(wire') /\ OnFile' = Taken(OnFile, m)
      BY <1>1, <2>1, <2>3, <3>2, <3>3, FileWritten
    <3>5. Taken(OnFile, m) = [out |-> OnFile.out \o Interrupted(OnFile.pending) \o <<m>>, pending |-> {}]
      BY <3>3 DEF Taken, IsTurn
    <3>6. OnFile.out \o Interrupted(OnFile.pending) = OnFile.out
      BY <1>1, <3>2, FileIs, NothingMended
    <3>7. OnFile'.pending = {} /\ OnFile'.out = Append(SubSeq(messages, 1, opened), m)
      <4>1. SubSeq(messages, 1, opened) \in Seq(MessageSet)
        BY <1>1, FrontIs
      <4>2. Append(SubSeq(messages, 1, opened), m) = SubSeq(messages, 1, opened) \o <<m>>
        BY <2>3, <4>1, AppendIs
      <4>3. OnFile'.pending = {} /\ OnFile'.out = (OnFile.out \o Interrupted(OnFile.pending)) \o <<m>>
        <5>. DEFINE full == OnFile.out \o Interrupted(OnFile.pending)
        <5>1. Taken(OnFile, m) = [out |-> full \o <<m>>, pending |-> {}]
          BY <3>5
        <5>. HIDE DEF full
        <5>2. Taken(OnFile, m).pending = {} /\ Taken(OnFile, m).out = full \o <<m>>
          BY <5>1
        <5>3. /\ Taken(OnFile, m).pending = {}
              /\ Taken(OnFile, m).out = (OnFile.out \o Interrupted(OnFile.pending)) \o <<m>>
          BY <5>2 DEF full
        <5>. QED BY <3>4, <5>3
      <4>. QED BY <3>2, <3>6, <4>2, <4>3
    <3>8. /\ Append(SubSeq(messages, 1, opened), m) = SubSeq(messages, 1, opened + 1)
          /\ SubSeq(messages, 1, opened + 1) \in Seq(MessageSet)
          /\ Framed(SubSeq(messages, 1, opened + 1))
      <4>. DEFINE a == SubSeq(messages, 1, opened)
                  b == SubSeq(messages, 1, opened + 1)
      <4>1. opened \in 0..Len(messages) /\ opened + 1 \in 0..Len(messages)
        BY <1>1, <1>3
      <4>2. a \in Seq(MessageSet) /\ Len(a) = opened /\ \A i \in 1..opened : a[i] = messages[i]
        BY <1>1, <4>1, FrontIs
      <4>3. b \in Seq(MessageSet) /\ Len(b) = opened + 1 /\ \A i \in 1..opened + 1 : b[i] = messages[i]
        BY <1>1, <4>1, FrontIs
      <4>. HIDE DEF a, b
      <4>4. /\ Append(a, m) \in Seq(MessageSet) /\ Len(Append(a, m)) = opened + 1
            /\ \A i \in 1..opened : Append(a, m)[i] = a[i]
            /\ Append(a, m)[opened + 1] = m
        BY <2>3, <4>2, AppendIs
      <4>5. \A i \in 1..opened + 1 : (i \in 1..opened \/ i = opened + 1) /\ i \in 1..Len(messages)
        BY <1>1, <1>3
      <4>6. \A i \in 1..opened + 1 : Append(a, m)[i] = b[i]
        BY <4>2, <4>3, <4>4, <4>5 DEF m
      <4>7. Append(a, m) = b
        BY <4>3, <4>4, <4>6, SameList
      <4>8. Framed(b)
        BY <3>2, <4>3, <4>5 DEF Framed
      <4>. QED BY <4>3, <4>7, <4>8 DEF a, b
    <3>9. Conv(OnFile'.out, OnFile'.pending)
      BY <3>7, <3>8, FramedPaired
    <3>10. AtOpen'
      BY <2>1, <3>2, <3>4, <3>7, <3>8 DEF AtOpen
    <3>. QED BY <1>1, <2>1, <3>9, <3>10 DEF AtRest, AtWork, Replays, Calm, Busy
  <2>. QED BY <1>1, <2>1, <2>5 DEF Conversing
<1>4. CASE ~(opened < Len(messages))
  <2>. DEFINE m == Note("inherited")
  <2>1. m \in MessageSet /\ m.role = "user" /\ m.text # "splits"
    <3>1. m.text = "plain"
      BY NotesAre
    <3>. QED BY <3>1, NotesAre
  <2>. HIDE DEF m
  <2>2. pc' = "top" /\ (Emit(m) \/ UNCHANGED <<messages, wire>>)
    BY <1>4 DEF RecordOpening, m
  <2>3. opened = Len(messages) /\ SubSeq(messages, 1, opened) = messages
    <3>1. opened = Len(messages)
      BY <1>1, <1>4
    <3>2. /\ opened \in 0..Len(messages)
          /\ SubSeq(messages, 1, opened) \in Seq(MessageSet) /\ Len(SubSeq(messages, 1, opened)) = opened
          /\ \A i \in 1..opened : SubSeq(messages, 1, opened)[i] = messages[i]
      BY <1>1, FrontIs
    <3>. QED BY <1>1, <3>1, <3>2, SameList
  <2>4. WireMoves
    BY <2>1, <2>2 DEF WireMoves, Emit
  <2>5. ASSUME Clean'
        PROVE  Conv(OnFile'.out, OnFile'.pending) /\ AtOpen' /\ AtRest' /\ AtWork' /\ Replays'
    <3>1. Clean
      BY <1>1, <2>4, <2>5, WasClean
    <3>2. /\ Conv(OnFile.out, OnFile.pending) /\ ~OpenEnded(wire) /\ OnFile.pending = {}
          /\ OnFile.out = messages /\ Framed(messages)
      BY <1>2, <2>3, <3>1
    <3>3. Conv(messages, {}) /\ Replay(messages, messages)
      BY <1>1, <3>2, FramedPaired, ReplaySelf
    <3>4. /\ ~OpenEnded(wire') /\ OnFile'.pending = {} /\ Conv(OnFile'.out, OnFile'.pending)
          /\ Conv(messages', {}) /\ (Whole(wire') => Replay(OnFile'.out, messages'))
      <4>1. CASE UNCHANGED <<messages, wire>>
        BY <3>2, <3>3, <4>1 DEF OnFile
      <4>2. CASE Emit(m)
        <5>1. wire' = Write(wire, m) /\ messages' = Append(messages, m)
          BY <4>2 DEF Emit
        <5>2. /\ ~OpenEnded(wire') /\ Conv(OnFile'.out, OnFile'.pending) /\ OnFile'.pending = {}
              /\ Whole(wire') => OnFile'.out = Append(OnFile.out \o Interrupted(OnFile.pending), m)
          BY <1>1, <2>1, <3>2, <5>1, NoteTaken
        <5>3. OnFile.out \o Interrupted(OnFile.pending) = messages
          BY <1>1, <3>2, FileIs, NothingMended
        <5>4. Conv(Append(messages, m), {}) /\ Replay(Append(messages, m), Append(messages, m))
          BY <2>1, <3>3, ConvNoted, ReplayMore
        <5>. QED BY <5>1, <5>2, <5>3, <5>4
      <4>. QED BY <2>2, <4>1, <4>2
    <3>. QED BY <2>2, <3>4 DEF AtOpen, AtRest, AtWork, Replays, Busy
  <2>. QED BY <2>2, <2>5 DEF Conversing
<1>. QED BY <1>3, <1>4

\* The reports of the collaborators left go on file, at the exit.
LEMMA ShutdownConv ==
    ASSUME EpisodeTypes, Conversing, Shutdown
    PROVE  Conversing'
<1>. DEFINE m == Note("report")
<1>1. m \in MessageSet /\ m.role = "user" /\ m.text # "splits"
  <2>1. m.text = "plain"
    BY NotesAre
  <2>. QED BY <2>1, NotesAre
<1>. HIDE DEF m
<1>2. pc' \in {"conclude", "gone"} /\ UNCHANGED size /\ (Emit(m) \/ UNCHANGED <<messages, wire>>)
  BY DEF Shutdown, m
<1>3. wire \in Seq(WireRow)
  BY DEF EpisodeTypes, RecordTypes
<1>4. CASE UNCHANGED <<messages, wire>>
  BY <1>2, <1>4, AwayConv DEF Calm, Busy
<1>5. CASE Emit(m)
  <2>1. wire' = Write(wire, m) /\ WireMoves
    BY <1>1, <1>5 DEF Emit, WireMoves
  <2>2. ASSUME Clean' PROVE Conv(OnFile'.out, OnFile'.pending)
    <3>1. Clean
      BY <1>2, <1>3, <2>1, <2>2, WasClean
    <3>2. Conv(OnFile.out, OnFile.pending)
      BY <3>1 DEF Conversing
    <3>. QED BY <1>1, <1>3, <2>1, <3>2, NoteTaken
  <2>. QED BY <1>2, <2>2 DEF Conversing, AtOpen, AtRest, AtWork, Replays, Calm, Busy
<1>. QED BY <1>2, <1>4, <1>5

\* The conversation is kept whole, and replayed, by every step.
LEMMA ConvStep == ASSUME EpisodeTypes, TextsKnown, Conversing, EpisodeNext PROVE Conversing'
<1>1. CASE Resume
  BY <1>1, ResumeConv
<1>2. CASE Begin
  BY <1>2, BeginConv
<1>3. CASE RecordOpening
  BY <1>3, OpeningConv
<1>4. CASE Knock
  <2>1. pc = "top" /\ pc' = "top" /\ UNCHANGED size /\ Emit(Note("knock"))
    BY <1>4 DEF Knock
  <2>. QED BY <2>1, NoteConv DEF Calm
<1>5. CASE CutOff
  <2>1. UNCHANGED <<size, wire>> /\ pc' = "exit"
    BY <1>5 DEF CutOff, files, Ends
  <2>. QED BY <2>1, AwayConv DEF Calm, Busy
<1>6. CASE Pace
  <2>1. CASE step = 1
    <3>1. pc = "top" /\ pc' = "drain" /\ UNCHANGED size /\ Emit(Note("pace"))
      BY <1>6, <2>1 DEF Pace
    <3>. QED BY <3>1, NoteConv DEF Calm
  <2>2. CASE step # 1
    <3>1. pc = "top" /\ pc' = "drain" /\ UNCHANGED <<wire, messages, size>>
      BY <1>6, <2>2 DEF Pace
    <3>2. OnFile' = OnFile /\ (Clean' <=> Clean)
      BY <3>1 DEF OnFile, Clean, Unsplit
    <3>3. ASSUME Clean
          PROVE  Conv(OnFile'.out, OnFile'.pending) /\ AtOpen' /\ AtRest' /\ AtWork' /\ Replays'
      <4>1. Conv(OnFile.out, OnFile.pending) /\ AtRest /\ Replays
        BY <3>3 DEF Conversing
      <4>2. Conv(messages, {}) /\ ~OpenEnded(wire) /\ OnFile.pending = {}
        BY <2>2, <3>1, <4>1 DEF AtRest
      <4>3. Whole(wire) => Replay(OnFile.out, messages)
        BY <3>1, <4>1 DEF Replays
      <4>. QED BY <3>1, <3>2, <4>1, <4>2, <4>3 DEF AtOpen, AtRest, AtWork, Replays, Busy
    <3>. QED BY <3>1, <3>2, <3>3 DEF Conversing
  <2>. QED BY <2>1, <2>2
<1>7. CASE Drained
  <2>1. pc = "drain" /\ pc' = "think" /\ UNCHANGED <<wire, messages, size, step, opened, answered, batch>>
    BY <1>7 DEF Drained, files, loop, calls
  <2>2. {pc, pc'} \subseteq Calm
    BY <2>1 DEF Calm
  <2>. QED BY <2>1, <2>2, SameConv
<1>8. CASE DrainHand \/ \E j \in DOMAIN jobs : DrainJob(j)
  <2>1. pc = "drain" /\ pc' = "drain" /\ UNCHANGED size /\ (Emit(Note("job")) \/ Emit(Note("report")))
    BY <1>8 DEF DrainHand, DrainJob
  <2>. QED BY <2>1, NoteConv DEF Calm
<1>9. CASE ModelFails
  <2>1. UNCHANGED <<size, wire>> /\ pc' = "exit"
    BY <1>9 DEF ModelFails, files, Ends
  <2>. QED BY <2>1, AwayConv DEF Calm, Busy
<1>10. CASE \E text \in size.texts : TalkOnly(text)
  BY <1>10, TalkConv
<1>11. CASE \E text \in size.texts : \E n \in 1..size.width : \E tools \in [1..n -> size.tools] : Act(tools, text)
  <2>1. PICK text \in size.texts, n \in 1..size.width : \E tools \in [1..n -> size.tools] : Act(tools, text)
    BY <1>11
  <2>2. PICK tools \in [1..n -> size.tools] : Act(tools, text)
    BY <2>1
  <2>. QED BY <2>2, ActConv
<1>12. CASE Nudge
  <2>1. pc = "nudge" /\ pc' = "top" /\ UNCHANGED size /\ Emit(Note("nudge"))
    BY <1>12 DEF Nudge
  <2>. QED BY <2>1, NoteConv DEF Calm
<1>13. CASE Accept
  <2>1. UNCHANGED <<size, wire>> /\ pc' = "exit"
    BY <1>13 DEF Accept, files, Ends
  <2>. QED BY <2>1, AwayConv DEF Calm, Busy
<1>14. CASE \E says \in {"malformed", "unheard"} : Refuse(says)
  BY <1>14, RefuseConv
<1>15. CASE \E k \in DOMAIN batch : CallStep(k)
  <2>1. PICK k \in DOMAIN batch : CallStep(k)
    BY <1>15
  <2>2. UNCHANGED <<wire, messages, size, step, opened, answered, pc>>
    BY <2>1, CallFrame DEF loop
  <2>3. /\ Len(batch') = Len(batch) /\ batch'[k].id = batch[k].id
        /\ \A j \in DOMAIN batch : j # k => batch'[j] = batch[j]
    BY <2>1, CallMoves DEF Moved
  <2>4. DOMAIN batch = 1..Len(batch)
    BY DEF EpisodeTypes, RecordTypes
  <2>5. \A j \in 1..Len(batch) : batch'[j].id = batch[j].id
    BY <2>3, <2>4
  <2>. QED BY <2>2, <2>3, <2>5, SameConv
<1>16. CASE Joined
  <2>1. CASE \E k \in DOMAIN batch : batch[k].at = "raised"
    <3>1. UNCHANGED <<size, wire>> /\ pc' = "exit"
      BY <1>16, <2>1 DEF Joined, Ends, files
    <3>. QED BY <3>1, AwayConv DEF Calm, Busy
  <2>2. CASE ~\E k \in DOMAIN batch : batch[k].at = "raised"
    <3>1. pc = "act" /\ pc' = "answer" /\ UNCHANGED <<wire, messages, size, step, opened, answered, batch>>
      BY <1>16, <2>2 DEF Joined, files, calls
    <3>2. {pc, pc'} \subseteq Busy
      BY <3>1 DEF Busy
    <3>. QED BY <3>1, <3>2, SameConv
  <2>. QED BY <2>1, <2>2
<1>17. CASE Answer
  BY <1>17, AnswerConv
<1>18. CASE TurnOver
  BY <1>18, OverConv
<1>19. CASE Shutdown
  BY <1>19, ShutdownConv
<1>20. CASE Conclude
  <2>1. UNCHANGED <<size, wire>> /\ pc' = "ended" /\ step' = 1
    BY <1>20 DEF Conclude, Leave
  <2>. QED BY <2>1, AwayConv DEF Calm, Busy
<1>21. CASE Gone
  <2>1. UNCHANGED <<size, wire>> /\ pc' = "down" /\ step' = 1
    BY <1>21 DEF Gone, Leave, files
  <2>. QED BY <2>1, AwayConv DEF Calm, Busy
<1>22. CASE Interrupt
  <2>1. UNCHANGED <<size, wire>> /\ pc' = "unwind"
    BY <1>22 DEF Interrupt, files
  <2>. QED BY <2>1, AwayConv DEF Calm, Busy
<1>23. CASE Kill
  <2>1. UNCHANGED size /\ (wire' = wire \/ wire' = Tear(wire)) /\ pc' = "down" /\ step' = 1
    BY <1>23 DEF Kill, Leave
  <2>. QED BY <2>1, AwayConv DEF Calm, Busy
<1>24. CASE Supervise
  <2>1. UNCHANGED <<size, wire, step>> /\ pc' = "down" /\ pc = "ended"
    BY <1>24 DEF Supervise, loop
  <2>2. step' = 1
    BY <2>1 DEF Conversing
  <2>. QED BY <2>1, <2>2, AwayConv DEF Calm, Busy
<1>25. CASE Rest
  <2>1. UNCHANGED <<wire, messages, size, step, opened, answered, batch, pc>>
    BY <1>25 DEF Rest, files, loop, calls, world, episodeVars
  <2>. QED BY <2>1, SameConv
<1>26. CASE LateWrites
  <2>1. UNCHANGED <<wire, messages, size, step, opened, answered, batch, pc>>
    BY <1>26 DEF LateWrites, files, loop, calls, world
  <2>. QED BY <2>1, SameConv
<1>27. CASE Tick
  <2>1. UNCHANGED <<wire, messages, size, step, opened, answered, batch, pc>>
    BY <1>27 DEF Tick, files, loop, calls, world
  <2>. QED BY <2>1, SameConv
<1>28. CASE \E j \in DOMAIN jobs : JobExits(j)
  <2>1. UNCHANGED <<wire, messages, size, step, opened, answered, batch, pc>>
    BY <1>28 DEF JobExits, files, loop, calls, world
  <2>. QED BY <2>1, SameConv
<1>. QED BY <1>1, <1>2, <1>3, <1>4, <1>5, <1>6, <1>7, <1>8, <1>9, <1>10, <1>11, <1>12, <1>13,
            <1>14, <1>15, <1>16, <1>17, <1>18, <1>19, <1>20, <1>21, <1>22, <1>23, <1>24,
            <1>25, <1>26, <1>27, <1>28
         DEF EpisodeNext, Launch, Scientist, Stopping, TurnTop, Reply, Door, Finish

\* The same, with stuttering.
LEMMA ConvSteps == EpisodeTypes /\ TextsKnown /\ Conversing /\ [EpisodeNext]_episodeVars => Conversing'
<1>1. ASSUME EpisodeTypes, Conversing, UNCHANGED episodeVars PROVE Conversing'
  <2>1. UNCHANGED <<wire, messages, size, step, opened, answered, batch, pc>>
    BY <1>1 DEF episodeVars, files, loop, calls
  <2>. QED BY <1>1, <2>1, SameConv
<1>. QED BY <1>1, ConvStep

\* Nothing is on file or shown at first.
LEMMA ConvBegin == EpisodeInit => Conversing
<1>. SUFFICES ASSUME EpisodeInit PROVE Conversing
  OBVIOUS
<1>1. wire = <<>> /\ pc = "down" /\ step = 1
  BY DEF EpisodeInit
<1>2. OnFile = [out |-> <<>>, pending |-> {}]
  <2>1. Readable(wire) = <<>>
    <3>1. wire \in Seq(WireRow) /\ Whole(wire)
      BY <1>1 DEF Whole
    <3>. QED BY <1>1, <3>1, ReadableIs
  <2>. QED BY <2>1, ReadingNothing DEF OnFile
<1>3. Conv(<<>>, {})
  <2>1. <<>> \in Seq(MessageSet) /\ Framed(<<>>)
    BY DEF Framed
  <2>. QED BY <2>1, FramedPaired
<1>4. OnFile.out = <<>> /\ OnFile.pending = {}
  BY <1>2
<1>. QED BY <1>1, <1>3, <1>4 DEF Conversing, AtOpen, AtRest, AtWork, Replays, Calm, Busy

\* In every state the types hold, the texts are those of the run, and the conversation
\* is whole on file and before the model: the invariant the next theorems rest on.
THEOREM EpisodeConverses == EpisodeSpec => [](EpisodeTypes /\ TextsKnown /\ Conversing)
<1>1. EpisodeInit => EpisodeTypes /\ TextsKnown /\ Conversing
  BY TypesBegin, TextsBegin, ConvBegin
<1>2. EpisodeTypes /\ TextsKnown /\ Conversing /\ [EpisodeNext]_episodeVars
         => (EpisodeTypes /\ TextsKnown /\ Conversing)'
  BY TypesStep, TextsStep, ConvSteps
<1>. QED BY <1>1, <1>2, PTL DEF EpisodeSpec

\* The model is never shown an orphan: every turn it is shown has its calls' results
\* after it and every result its turn, after any compaction, refused exit, interrupt,
\* kill in the middle of an append, and resume.
THEOREM EpisodePairsCalls == EpisodeSpec => []CallsStayPaired
<1>1. EpisodeTypes /\ TextsKnown /\ Conversing => CallsStayPaired
  <2>. SUFFICES ASSUME EpisodeTypes, TextsKnown, Conversing,
                       pc = "think", "quotes" \notin size.texts, "splits" \notin size.texts
                PROVE  Paired(messages)
    BY DEF CallsStayPaired
  <2>1. Clean
    BY DEF Clean, Unsplit, TextsKnown, TextsIn
  <2>2. Conv(messages, {})
    BY <2>1 DEF Conversing, AtRest, Calm
  <2>. QED BY <2>2, ConvPaired
<1>. QED BY <1>1, EpisodeConverses, PTL

\* The wire replays the conversation: what the model is shown is what a resume of the
\* file would read, its framing and its turns from one of them on, as long as no line
\* was torn or split.
THEOREM EpisodeReplaysExactly == EpisodeSpec => []ReplaysExactly
<1>1. EpisodeTypes /\ TextsKnown /\ Conversing => ReplaysExactly
  <2>. SUFFICES ASSUME EpisodeTypes, Conversing,
                       pc = "think", Whole(wire), "quotes" \notin size.texts
                PROVE  LET all == Spoken(Prior)
                           now == Spoken(messages)
                           at  == FirstTurn(all)
                       IN \E i \in at..Len(all) + 1 :
                             /\ i <= Len(all) => IsTurn(all[i])
                             /\ now = SubSeq(all, 1, at - 1) \o SubSeq(all, i, Len(all))
    BY DEF ReplaysExactly
  <2>1. wire \in Seq(WireRow) /\ DOMAIN wire = 1..Len(wire)
    BY DEF EpisodeTypes, RecordTypes
  <2>2. Clean
    BY <2>1 DEF Clean, Unsplit, Whole
  <2>3. AtRest /\ Replays
    BY <2>2 DEF Conversing
  <2>4. OnFile.pending = {} /\ Replay(OnFile.out, messages)
    BY <2>3 DEF AtRest, Replays, Calm
  <2>5. Prior = OnFile.out
    <3>1. Prior = OnFile.out \o Interrupted(OnFile.pending) /\ OnFile.out \in Seq(MessageSet)
      BY <2>1, FileIs
    <3>2. OnFile.out \o Interrupted({}) = OnFile.out
      BY <3>1, NothingMended
    <3>. QED BY <2>4, <3>1, <3>2
  <2>6. Replay(Prior, messages)
    BY <2>4, <2>5
  <2>. QED BY <2>6, ReplayShows
<1>. QED BY <1>1, EpisodeConverses, PTL

\* The types of the runs, from the types the proofs use.
LEMMA TypesAreOK == EpisodeTypes => EpisodeTypeOK
<1>. SUFFICES ASSUME EpisodeTypes PROVE EpisodeTypeOK
  OBVIOUS
<1>1. RecordTypes /\ CounterTypes /\ PlaceTypes
  BY DEF EpisodeTypes
<1>2. \A m \in MessageSet : IsMessage(m)
  BY DEF MessageSet, IsMessage
<1>3. \A i \in DOMAIN wire : wire[i] \in {Torn, Broken} \/ IsMessage(wire[i])
  <2>1. \A i \in DOMAIN wire : wire[i] \in WireRow
    BY <1>1 DEF RecordTypes
  <2>. QED BY <1>2, <2>1 DEF WireRow
<1>4. \A i \in DOMAIN messages : IsMessage(messages[i])
  <2>1. \A i \in DOMAIN messages : messages[i] \in MessageSet
    BY <1>1 DEF RecordTypes
  <2>. QED BY <1>2, <2>1
<1>5. \A i \in DOMAIN views : views[i].role \in {"view", "torn", "broken"}
  <2>1. \A i \in DOMAIN views : views[i] \in ViewRow
    BY <1>1 DEF RecordTypes
  <2>. QED BY <2>1 DEF ViewRow
<1>6. \A i \in DOMAIN events : events[i].role \in {"create", "revise", "status", "torn", "broken"}
  <2>1. \A i \in DOMAIN events : events[i] \in EventRow
    BY <1>1 DEF RecordTypes
  <2>. QED BY <2>1 DEF EventRow
<1>7. opened \in 0..2 /\ answered \in 0..Len(batch)
  BY <1>1 DEF RecordTypes, PlaceTypes
<1>8. turns \in 0..MaxTurns
  <2>1. size \in Sizes /\ turns \in 0..size.turns
    BY <1>1 DEF CounterTypes
  <2>2. size.turns <= MaxTurns /\ MaxTurns \in Nat /\ size.turns \in Nat
    BY <2>1, SizeIs
  <2>. QED BY <2>1, <2>2
<1>9. /\ concl \in {"none", "cut_off", "failed", "raised"} \cup Terminals
      /\ outcome \in {"none", "cut_off", "failed", "raised"} \cup Terminals
  BY <1>1 DEF CounterTypes, Outcomes
<1>10. /\ heard \in Hearings /\ hand \in BOOLEAN /\ loose \subseteq {"job", "hand"} /\ knocked \in BOOLEAN
       /\ step \in 1..size.steps + 1 /\ time \in {"ample", "short", "spent"}
       /\ idleTurns \in 0..MaxIdle - 1 /\ refusals \in 0..MaxRefusals
       /\ jobs \in [1..MaxJobs -> {"free", "running", "exited"}]
       /\ stops \in 0..size.stops /\ size \in Sizes
  BY <1>1 DEF CounterTypes
<1>. QED BY <1>3, <1>4, <1>5, <1>6, <1>7, <1>8, <1>9, <1>10 DEF EpisodeTypeOK, Hearings

\* What is put before the model is whole, shows the view of the day, and what it delivers
\* was listened to: the four parts of the invariant the run checks.
THEOREM EpisodeConsistent == EpisodeSpec => []Consistent
<1>1. EpisodeTypes /\ CallsStayPaired /\ ViewIsCurrent /\ DeliveredHeard => Consistent
  BY TypesAreOK DEF Consistent
<1>. QED BY <1>1, EpisodeTyped, EpisodePairsCalls, EpisodeShowsTheView, EpisodeDeliversHeard, PTL
================================================================================
