---------------------------- MODULE FrontierProofs ----------------------------
(***************************************************************************)
(* Who studies a world, and from whose cognition, for every tree, number   *)
(* of seats, policy and measurement: these proofs use nothing of how the   *)
(* frontier is computed, any world may be drawn.  Then that the frontier   *)
(* is what it is meant to be, whatever was measured.  The last part is     *)
(* about the worker that measures a world (ExperimentWorker): its names    *)
(* and those of Frontier are apart, and neither says anything of the other.*)
(***************************************************************************)
EXTENDS Frontier, ExperimentWorker, TLAPS, WellFoundedInduction, FiniteSetTheorems

\* The part of TypeOK that the arguments below need.
EpisodesOK ==
    /\ nodes \subseteq AllWorlds
    /\ made \in Episodes
    /\ node \in [Episodes -> AllWorlds]
    /\ inherited \in [Episodes -> 0..MaxEpisodes]
    /\ lease \in [Episodes -> Leases]
    /\ pc \in {"idle", "lease", "allocate", "resolve", "wedged"}
    /\ cur \in Episodes

\* Episodes that do not exist yet have no study, and those that exist are of
\* worlds of the tree.
MadeOK ==
    /\ \A e \in Episodes : e > made => lease[e] = "none" /\ inherited[e] = 0
    /\ \A e \in 1..made : node[e] \in nodes

SharedRoot(n) == n = Root /\ RootScientists > 1

\* A world has a newer episode only once the older ones are finished.
OlderFinished ==
    \A e, f \in 1..made :
        e < f /\ node[e] = node[f] => lease[e] = "finished" \/ SharedRoot(node[e])

\* Between a delivery's world and the end of its study.
Delivering(e) == pc \in {"resolve", "wedged"} /\ cur = e

\* What an episode inherits from is finished, or is the delivery in hand.
ParentFinished ==
    \A e \in 1..made :
        inherited[e] # 0 =>
            /\ inherited[e] \in 1..made
            /\ \/ lease[inherited[e]] = "finished"
               \/ Delivering(inherited[e]) /\ lease[e] = "none"

\* What the step has in hand.
HandOK ==
    /\ pc = "allocate" => cur \in 1..made /\ lease[cur] = "none"
    /\ pc \in {"resolve", "wedged"} => cur \in 1..made /\ lease[cur] = "graduated"

IInv == EpisodesOK /\ MadeOK /\ OlderFinished /\ ParentFinished /\ HandOK

--------------------------------------------------------------------------------
\* A set of numbers up to n has a last one, which is what the query returns.
LEMMA LatestIsLast ==
    ASSUME NEW n \in Nat, NEW S \in SUBSET (1..n), S # {}
    PROVE  Latest(S) \in S /\ \A f \in S : f <= Latest(S)
<1>. DEFINE T == {k \in Nat : n - k \in S}
<1>1. T \subseteq Nat /\ T # {}
  <2>1. PICK e \in S : TRUE
    OBVIOUS
  <2>2. n - e \in Nat /\ n - (n - e) = e
    OBVIOUS
  <2>. QED BY <2>1, <2>2
<1>2. \E k \in T : \A l \in T : ~(<<l, k>> \in OpToRel(<, Nat))
  <2>. HIDE DEF T
  <2>. QED BY <1>1, WFMin, NatLessThanWellFounded, Zenon
<1>3. PICK k \in T : \A l \in T : ~(l < k)
  BY <1>1, <1>2, Zenon DEF OpToRel
<1>4. \A f \in S : f <= n - k
  <2>1. SUFFICES ASSUME NEW f \in S PROVE f <= n - k
    OBVIOUS
  <2>2. n - f \in T
    OBVIOUS
  <2>3. ~(n - f < k)
    BY <1>3, <2>2
  <2>. QED BY <2>3
<1>5. \E e \in S : \A f \in S : f <= e
  BY <1>3, <1>4
<1>. QED BY <1>5 DEF Latest

\* The episode a world's next study starts from exists and is the newest.
LEMMA LatestEpisode ==
    ASSUME EpisodesOK, NEW n \in AllWorlds, EpisodesOf(n) # {}
    PROVE  /\ Latest(EpisodesOf(n)) \in 1..made
           /\ node[Latest(EpisodesOf(n))] = n
           /\ \A e \in 1..made : node[e] = n => e <= Latest(EpisodesOf(n))
<1>1. made \in Nat /\ EpisodesOf(n) \in SUBSET (1..made)
  BY SomeScientists DEF EpisodesOK, Episodes, EpisodesOf
<1>2. Latest(EpisodesOf(n)) \in EpisodesOf(n)
        /\ \A e \in EpisodesOf(n) : e <= Latest(EpisodesOf(n))
  BY <1>1, LatestIsLast
<1>. QED BY <1>2 DEF EpisodesOf

\* The episode a node is picked up by is one of its own, and idle (_idle_episode_for_node).
LEMMA LatestIdle ==
    ASSUME EpisodesOK, NEW n \in AllWorlds, Idle(n) # {}
    PROVE  /\ Latest(Idle(n)) \in 1..made
           /\ lease[Latest(Idle(n))] = "none"
<1>1. made \in Nat /\ Idle(n) \in SUBSET (1..made)
  BY SomeScientists DEF EpisodesOK, Episodes, Idle, EpisodesOf
<1>2. Latest(Idle(n)) \in Idle(n)
  BY <1>1, LatestIsLast
<1>. QED BY <1>2 DEF Idle, EpisodesOf

--------------------------------------------------------------------------------
\* The invariant holds of an empty run.
LEMMA InitInv == Init => IInv
<1>. SUFFICES ASSUME Init PROVE IInv
  OBVIOUS
<1>. USE SomeScientists, RootsFit DEF Init, Episodes
<1>1. EpisodesOK
  BY DEF EpisodesOK, AllWorlds, Leases
<1>2. MadeOK
  BY DEF MadeOK
<1>3. OlderFinished
  BY DEF OlderFinished, SharedRoot
<1>4. ParentFinished /\ HandOK
  BY DEF ParentFinished, HandOK
<1>. QED BY <1>1, <1>2, <1>3, <1>4 DEF IInv

\* A new episode e of world n, by a draw or by a delivery.
NewEpisode(n, e) ==
    /\ made < MaxEpisodes
    /\ made' = made + 1
    /\ node' = [node EXCEPT ![made + 1] = n]
    /\ inherited' = [inherited EXCEPT ![made + 1] = e]

\* A step that only moves the study of e on.
Moves(e, v) ==
    /\ UNCHANGED <<nodes, made, node, inherited>>
    /\ lease' = [lease EXCEPT ![e] = v]
    /\ \/ pc \notin {"resolve", "wedged"} /\ pc' \notin {"resolve", "wedged"}
       \/ pc = "resolve" /\ e = cur /\ v = "finished"
    /\ \/ lease[e] \notin {"none", "finished"}
       \/ e = cur /\ pc = "allocate"

\* Moving one episode's lease keeps the invariant if the episodes and the hand stay right.
LEMMA MoveStep ==
    ASSUME IInv, NEW e \in Episodes, NEW v \in Leases \ {"none"}, Moves(e, v),
           EpisodesOK', HandOK'
    PROVE  IInv'
<1>. USE DEF IInv, EpisodesOK, Episodes, Moves
<1>1. e \in 1..made
  BY DEF MadeOK, HandOK
<1>2. MadeOK'
  BY <1>1 DEF MadeOK
<1>3. OlderFinished'
  BY <1>1 DEF OlderFinished, SharedRoot, HandOK
<1>4. ParentFinished'
  BY <1>1 DEF ParentFinished, Delivering, HandOK
<1>. QED BY <1>2, <1>3, <1>4

\* Every step keeps the invariant.
LEMMA StudyStep == IInv /\ [Next]_vars => IInv'
<1>. SUFFICES ASSUME IInv, [Next]_vars PROVE IInv'
  OBVIOUS
<1>. USE SomeScientists DEF IInv
<1>1. made \in Nat /\ Episodes = 1..MaxEpisodes /\ made <= MaxEpisodes
  BY DEF EpisodesOK, Episodes
<1>2. CASE Compute \/ DoneAllocating
  BY <1>2 DEF Compute, DoneAllocating, EpisodesOK, MadeOK, OlderFinished,
     ParentFinished, HandOK, Delivering, SharedRoot, treeVars, epiVars, config
<1>3. CASE Restart
  BY <1>3 DEF Restart, EpisodesOK, MadeOK, OlderFinished, ParentFinished,
     HandOK, Delivering, SharedRoot, treeVars, epiVars, config
<1>4. CASE Allocate
  <2>1. EpisodesOK' /\ HandOK'
    BY <1>4 DEF Allocate, EpisodesOK, HandOK, Leases, treeVars, epiVars, config
  <2>2. Moves(cur, "researching") /\ cur \in Episodes
    BY <1>4 DEF Allocate, Moves, treeVars, epiVars, EpisodesOK
  <2>3. "researching" \in Leases \ {"none"}
    BY DEF Leases
  <2>. HIDE DEF IInv
  <2>. QED BY <2>1, <2>2, <2>3, MoveStep
<1>5. CASE Resolve
  <2>1. EpisodesOK' /\ HandOK'
    BY <1>5 DEF Resolve, EpisodesOK, HandOK, Leases, treeVars, epiVars, config
  <2>2. Moves(cur, "finished") /\ cur \in Episodes
    BY <1>5 DEF Resolve, Moves, treeVars, epiVars, EpisodesOK, HandOK
  <2>3. "finished" \in Leases \ {"none"}
    BY DEF Leases
  <2>. HIDE DEF IInv
  <2>. QED BY <2>1, <2>2, <2>3, MoveStep
<1>6. ASSUME NEW n \in AllWorlds, PickIdle(n) PROVE IInv'
  <2>1. Latest(Idle(n)) \in 1..made /\ lease[Latest(Idle(n))] = "none"
    BY <1>6, LatestIdle DEF PickIdle
  <2>2. /\ UNCHANGED <<nodes, made, node, inherited, lease>>
        /\ pc = "lease" /\ pc' = "allocate" /\ cur' = Latest(Idle(n))
    BY <1>6 DEF PickIdle, Drawn, treeVars, epiVars
  <2>. QED BY <1>1, <2>1, <2>2 DEF EpisodesOK, MadeOK, OlderFinished,
              ParentFinished, HandOK, Delivering, SharedRoot
<1>7. ASSUME NEW n \in AllWorlds, Reseed(n) PROVE IInv'
  <2>. DEFINE newest == Latest(EpisodesOf(n))
  <2>1. /\ newest \in 1..made /\ node[newest] = n /\ lease[newest] = "finished"
        /\ \A e \in 1..made : node[e] = n => e <= newest
    BY <1>7, LatestEpisode DEF Reseed, Reseedable
  <2>2. /\ UNCHANGED <<nodes, lease>>
        /\ NewEpisode(n, newest)
        /\ pc = "lease" /\ pc' = "allocate" /\ cur' = made + 1
    BY <1>7 DEF Reseed, Drawn, treeVars, NewEpisode
  <2>. HIDE DEF newest
  <2>3. EpisodesOK'
    BY <1>1, <2>1, <2>2 DEF EpisodesOK, NewEpisode
  <2>4. MadeOK'
    BY <1>1, <2>1, <2>2 DEF EpisodesOK, MadeOK, NewEpisode
  <2>5. \A e \in 1..made : node[e] = n => lease[e] = "finished" \/ SharedRoot(n)
    BY <1>1, <2>1 DEF OlderFinished, EpisodesOK
  <2>6. OlderFinished'
    BY <1>1, <2>2, <2>5 DEF EpisodesOK, OlderFinished, NewEpisode, SharedRoot
  <2>7. ParentFinished'
    BY <1>1, <2>1, <2>2 DEF EpisodesOK, ParentFinished, NewEpisode, Delivering
  <2>8. HandOK'
    BY <1>1, <2>2 DEF HandOK, NewEpisode, MadeOK, EpisodesOK
  <2>. QED BY <2>3, <2>4, <2>6, <2>7, <2>8
<1>8. ASSUME NEW n \in AllWorlds, Skip(n) PROVE IInv'
  BY <1>8 DEF Skip, Drawn, EpisodesOK, MadeOK, OlderFinished, ParentFinished,
     HandOK, Delivering, SharedRoot, treeVars, epiVars, config
<1>9. ASSUME NEW e \in Episodes, Conclude(e) \/ Deliver(e) PROVE IInv'
  <2>1. PICK v \in Leases \ {"none"} : lease' = [lease EXCEPT ![e] = v]
    BY <1>9 DEF Conclude, Deliver, Leases
  <2>2. UNCHANGED <<pc, cur>> /\ pc = "idle" /\ Moves(e, v)
    BY <1>9, <2>1 DEF Conclude, Deliver, Moves, treeVars, epiVars, stepVars
  <2>3. EpisodesOK' /\ HandOK'
    BY <2>1, <2>2 DEF EpisodesOK, HandOK, Leases, Moves
  <2>. HIDE DEF IInv
  <2>. QED BY <2>2, <2>3, MoveStep
<1>10. ASSUME NEW e \in Episodes, WriteBack(e, "reopened") \/ WriteBack(e, "ended")
       PROVE IInv'
  <2>1. PICK v \in Leases \ {"none"} : lease' = [lease EXCEPT ![e] = v]
    BY <1>10 DEF WriteBack, Leases
  <2>2. UNCHANGED <<pc, cur>> /\ pc = "idle" /\ Moves(e, v)
    BY <1>10, <2>1 DEF WriteBack, Moves, epiVars, stepVars
  <2>3. EpisodesOK' /\ HandOK'
    BY <2>1, <2>2 DEF EpisodesOK, HandOK, Leases, Moves
  <2>. HIDE DEF IInv
  <2>. QED BY <2>2, <2>3, MoveStep
<1>11. ASSUME NEW e \in Episodes, NEW w \in Worlds, NEW m \in Measurements,
              Graduate(e, w, m)
       PROVE IInv'
  <2>1. /\ w \in AllWorlds \ nodes /\ nodes' = nodes \cup {w}
        /\ lease[e] = "awaiting" /\ lease' = [lease EXCEPT ![e] = "graduated"]
        /\ NewEpisode(w, e)
        /\ pc = "idle" /\ pc' = "resolve" /\ cur' = e
    BY <1>11 DEF Graduate, NewEpisode, AllWorlds
  <2>2. e \in 1..made
    BY <1>1, <2>1 DEF MadeOK
  <2>3. \A f \in 1..made : node[f] # w
    BY <2>1 DEF MadeOK
  <2>4. EpisodesOK'
    BY <1>1, <2>1, <2>2 DEF EpisodesOK, NewEpisode, Leases
  <2>5. MadeOK'
    BY <1>1, <2>1, <2>2 DEF EpisodesOK, MadeOK, NewEpisode
  <2>6. OlderFinished'
    BY <1>1, <2>1, <2>2, <2>3 DEF EpisodesOK, OlderFinished, NewEpisode, SharedRoot
  <2>7. ParentFinished'
    BY <1>1, <2>1, <2>2 DEF EpisodesOK, ParentFinished, NewEpisode, Delivering, MadeOK
  <2>8. HandOK'
    BY <1>1, <2>1, <2>2 DEF HandOK, NewEpisode, EpisodesOK
  <2>. QED BY <2>4, <2>5, <2>6, <2>7, <2>8
<1>12. CASE UNCHANGED vars
  BY <1>12 DEF vars, EpisodesOK, MadeOK, OlderFinished, ParentFinished, HandOK,
     Delivering, SharedRoot, treeVars, epiVars, stepVars, config
<1>. QED BY <1>2, <1>3, <1>4, <1>5, <1>6, <1>7, <1>8, <1>9, <1>10, <1>11, <1>12
         DEF Next

\* The episodes, the nodes made of them and the one in hand agree in every reachable
\* state (episode_allocation_finished, ingest_experiment_result).
THEOREM Invariant == Spec => []IInv
BY InitInv, StudyStep, PTL DEF Spec

\* One Scientist studies a world at a time, in every tree, for every policy and
\* capacity, and through every restart (_idle_episode_for_node, _reseed_episode).
THEOREM OneStudy == Spec => []OneStudyPerNode
<1>1. IInv => OneStudyPerNode
  <2>. SUFFICES ASSUME IInv, NEW e \in Episodes, NEW f \in Episodes,
                       Open(e), Open(f), node[e] = node[f], e # f
                PROVE  SharedRoot(node[e])
    BY DEF OneStudyPerNode, SharedRoot
  <2>1. e \in 1..made /\ f \in 1..made /\ e \in Nat /\ f \in Nat
    BY SomeScientists DEF IInv, MadeOK, Open, EpisodesOK, Episodes
  <2>2. CASE e < f
    BY <2>1, <2>2 DEF IInv, OlderFinished, Open
  <2>3. CASE f < e
    BY <2>1, <2>3 DEF IInv, OlderFinished, Open
  <2>. QED BY <2>1, <2>2, <2>3
<1>. QED BY <1>1, Invariant, PTL

\* A study begins only on a cognition that nobody writes any more
\* (episode_allocation_finished, ingest_experiment_result).
THEOREM FrozenParent == Spec => []InheritsFrozen
<1>1. IInv => InheritsFrozen
  <2>. SUFFICES ASSUME IInv, NEW e \in Episodes, Open(e), inherited[e] # 0
                PROVE  lease[inherited[e]] = "finished"
    BY DEF InheritsFrozen
  <2>1. e \in 1..made
    BY SomeScientists DEF IInv, MadeOK, Open, EpisodesOK, Episodes
  <2>. QED BY <2>1 DEF IInv, ParentFinished, Open
<1>. QED BY <1>1, Invariant, PTL

--------------------------------------------------------------------------------
\* A strict order on a finite set leaves some element unbeaten.
LEMMA SomeUnbeaten ==
    ASSUME NEW S, IsFiniteSet(S), S # {}, NEW R,
           \A x \in S : <<x, x>> \notin R,
           \A x, y, z \in S : <<x, y>> \in R /\ <<y, z>> \in R => <<x, z>> \in R
    PROVE  \E x \in S : \A y \in S : <<y, x>> \notin R
<1>. DEFINE B(x) == {y \in S : <<y, x>> \in R}
            T == {Cardinality(B(x)) : x \in S}
<1>1. \A x \in S : IsFiniteSet(B(x)) /\ Cardinality(B(x)) \in Nat
  <2>1. SUFFICES ASSUME NEW x \in S PROVE IsFiniteSet(B(x)) /\ Cardinality(B(x)) \in Nat
    OBVIOUS
  <2>2. B(x) \in SUBSET S
    OBVIOUS
  <2>. HIDE DEF B
  <2>3. IsFiniteSet(B(x))
    BY <2>2, FS_Subset
  <2>. QED BY <2>3, FS_CardinalityType
<1>2. T \subseteq Nat /\ T # {}
  <2>. HIDE DEF B
  <2>1. PICK x \in S : TRUE
    OBVIOUS
  <2>2. Cardinality(B(x)) \in T
    OBVIOUS
  <2>. QED BY <1>1, <2>2
<1>3. \E k \in T : \A l \in T : ~(<<l, k>> \in OpToRel(<, Nat))
  <2>. HIDE DEF T
  <2>. QED BY <1>2, WFMin, NatLessThanWellFounded, Zenon
<1>4. PICK k \in T : \A l \in T : ~(l < k)
  <2>. HIDE DEF T
  <2>. QED BY <1>2, <1>3, Zenon DEF OpToRel
<1>5. PICK x \in S : k = Cardinality(B(x))
  OBVIOUS
<1>6. ASSUME NEW y \in S, <<y, x>> \in R PROVE FALSE
  <2>1. B(y) \in SUBSET B(x) /\ y \in B(x) /\ y \notin B(y)
    BY <1>6
  <2>2. Cardinality(B(y)) \in T
    OBVIOUS
  <2>3. ~(Cardinality(B(y)) < Cardinality(B(x)))
    BY <1>4, <1>5, <2>2
  <2>. HIDE DEF B, T
  <2>4. Cardinality(B(y)) <= Cardinality(B(x))
        /\ (Cardinality(B(x)) = Cardinality(B(y)) => B(x) = B(y))
    BY <1>1, <2>1, FS_Subset
  <2>5. Cardinality(B(x)) = Cardinality(B(y))
    BY <1>1, <2>3, <2>4
  <2>. QED BY <2>1, <2>4, <2>5
<1>. QED BY <1>6

\* The tree as it was measured.
TreeOK ==
    /\ policy \in Policies /\ seats \in Inflights
    /\ Root \in nodes /\ nodes \subseteq AllWorlds /\ IsFiniteSet(nodes)
    /\ metrics \in [AllWorlds -> Measurements]

\* A step draws from the frontier of the tree as it is, and opens a study only
\* for a seat it has.
DrawOK ==
    /\ front \subseteq AllWorlds /\ left \in Nat
    /\ pc = "allocate" => left > 0
    /\ pc \in {"lease", "allocate"} => front = ComputeFrontier
    /\ RowsAreTheFrontier

FrontierOK == IInv /\ TreeOK /\ DrawOK

\* A reading is a number, on an axis of the run.
LEMMA Readings ==
    ASSUME TreeOK, NEW n \in nodes
    PROVE  /\ DOMAIN metrics[n] \subseteq Axes
           /\ \A a \in DOMAIN metrics[n] : metrics[n][a] \in Int
<1>1. metrics[n] \in Measurements
  BY DEF TreeOK
<1>2. PICK A \in SUBSET Axes : metrics[n] \in [A -> Values]
  BY <1>1 DEF Measurements
<1>. QED BY <1>2, ValuesAreNumbers

\* Domination is a strict order, and what dominates a world is not worse than it
\* on any of its axes.
LEMMA DominationIsStrict ==
    ASSUME TreeOK
    PROVE  /\ \A u \in nodes : ~Dominates(u, u)
           /\ \A u, v, w \in nodes : Dominates(u, v) /\ Dominates(v, w) => Dominates(u, w)
<1>. USE DEF Better, Dominates
<1>1. \A u \in nodes : \A a \in DOMAIN metrics[u] : metrics[u][a] \in Int
  BY Readings
<1>2. ASSUME NEW u \in nodes PROVE ~Dominates(u, u)
  BY <1>1
<1>3. ASSUME NEW u \in nodes, NEW v \in nodes, NEW w \in nodes,
             Dominates(u, v), Dominates(v, w)
      PROVE  Dominates(u, w)
  <2>1. DOMAIN metrics[w] \subseteq DOMAIN metrics[v]
        /\ DOMAIN metrics[v] \subseteq DOMAIN metrics[u]
    BY <1>3
  <2>2. ASSUME NEW a \in DOMAIN metrics[w] PROVE ~Better(a, metrics[w][a], metrics[u][a])
    <3>1. metrics[u][a] \in Int /\ metrics[v][a] \in Int /\ metrics[w][a] \in Int
      BY <1>1, <2>1
    <3>2. ~Better(a, metrics[v][a], metrics[u][a]) /\ ~Better(a, metrics[w][a], metrics[v][a])
      BY <1>3, <2>1
    <3>. QED BY <3>1, <3>2
  <2>3. PICK a \in DOMAIN metrics[w] : Better(a, metrics[v][a], metrics[w][a])
    BY <1>3
  <2>4. Better(a, metrics[u][a], metrics[w][a])
    <3>1. metrics[u][a] \in Int /\ metrics[v][a] \in Int /\ metrics[w][a] \in Int
      BY <1>1, <2>1
    <3>2. ~Better(a, metrics[v][a], metrics[u][a])
      BY <1>3, <2>1
    <3>. QED BY <2>3, <3>1, <3>2
  <2>5. DOMAIN metrics[w] \subseteq DOMAIN metrics[u]
    BY <2>1
  <2>. QED BY <2>2, <2>4, <2>5
<1>. QED BY <1>2, <1>3

\* What dominates the best of an axis is a best of it too: the union of the best
\* is enough to look for dominators in (GepaPolicy.compute).
LEMMA DominatorWins ==
    ASSUME TreeOK, NEW a \in Axes, NEW n \in Winners(a), NEW u \in nodes, Dominates(u, n)
    PROVE  u \in Winners(a)
<1>. USE DEF Better, Dominates, Winners, Measured
<1>1. \A v \in nodes : \A b \in DOMAIN metrics[v] : metrics[v][b] \in Int
  BY Readings
<1>2. n \in nodes /\ a \in DOMAIN metrics[n] /\ a \in DOMAIN metrics[u]
  OBVIOUS
<1>3. ~Better(a, metrics[n][a], metrics[u][a])
  BY <1>2
<1>4. ASSUME NEW m \in nodes, a \in DOMAIN metrics[m]
      PROVE  ~Better(a, metrics[m][a], metrics[u][a])
  <2>1. ~Better(a, metrics[m][a], metrics[n][a])
    BY <1>4
  <2>. QED BY <1>1, <1>2, <1>3, <1>4, <2>1
<1>. QED BY <1>2, <1>4

\* A measured axis has a best world that no world dominates.
LEMMA SomeWinner ==
    ASSUME TreeOK, NEW a \in Axes, \E n \in nodes : Measured(n, a)
    PROVE  \E n \in Winners(a) : \A u \in nodes : ~Dominates(u, n)
<1>. DEFINE S == {n \in nodes : Measured(n, a)}
            Above(u, v) == Better(a, metrics[u][a], metrics[v][a]) \/ Dominates(u, v)
            R == {p \in S \X S : Above(p[1], p[2])}
<1>1. IsFiniteSet(S) /\ S # {}
  <2>1. S \in SUBSET nodes /\ S # {}
    OBVIOUS
  <2>. HIDE DEF S
  <2>. QED BY <2>1, FS_Subset DEF TreeOK
<1>2. \A x, y \in S : <<x, y>> \in R <=> Above(x, y)
  OBVIOUS
<1>3. \A x \in S : x \in nodes /\ a \in DOMAIN metrics[x] /\ metrics[x][a] \in Int
  BY Readings DEF Measured
<1>4. \A x \in S : ~Above(x, x)
  BY <1>3, DominationIsStrict DEF Better
<1>5. ASSUME NEW x \in S, NEW y \in S, NEW z \in S, Above(x, y), Above(y, z)
      PROVE  Above(x, z)
  <2>1. CASE Dominates(x, y) /\ Dominates(y, z)
    BY <1>3, <2>1, DominationIsStrict
  <2>2. CASE ~(Dominates(x, y) /\ Dominates(y, z))
    <3>1. \A v, w \in S : Dominates(v, w) => ~Better(a, metrics[w][a], metrics[v][a])
      BY <1>3 DEF Dominates
    <3>2. Better(a, metrics[x][a], metrics[z][a])
      BY <1>3, <1>5, <2>2, <3>1 DEF Better
    <3>. QED BY <3>2
  <2>. QED BY <2>1, <2>2
<1>6. \E x \in S : \A y \in S : <<y, x>> \notin R
  <2>1. \A x \in S : <<x, x>> \notin R
    BY <1>2, <1>4
  <2>2. \A x, y, z \in S : <<x, y>> \in R /\ <<y, z>> \in R => <<x, z>> \in R
    <3>. HIDE DEF Above, R
    <3>. QED BY <1>2, <1>5
  <2>. HIDE DEF S, R
  <2>. QED BY <1>1, <2>1, <2>2, SomeUnbeaten
<1>7. PICK x \in S : \A y \in S : ~Above(y, x)
  BY <1>2, <1>6
<1>8. x \in Winners(a)
  BY <1>7 DEF Winners
<1>9. ASSUME NEW u \in nodes, Dominates(u, x) PROVE FALSE
  BY <1>3, <1>7, <1>9 DEF Dominates, Measured
<1>. QED BY <1>8, <1>9

--------------------------------------------------------------------------------
\* Every world that is the best of an axis and dominated by none is on the
\* frontier, and no other.
LEMMA FrontierIs ==
    ASSUME TreeOK, policy = "gepa"
    PROVE  OnFrontier = {n \in nodes : /\ \E a \in Axes : n \in Winners(a)
                                       /\ \A u \in nodes : ~Dominates(u, n)}
<1>1. OnFrontier = {n \in nodes : \E a \in Axes : n \in Winners(a)
                                                /\ ~\E u \in Union : Dominates(u, n)}
  <2>1. OnFrontier = UNION {{n \in Winners(a) : ~\E u \in Union : Dominates(u, n)} : a \in Axes}
    BY DEF OnFrontier, ByAxis, Gepa
  <2>2. \A a \in Axes : Winners(a) \subseteq nodes
    BY DEF Winners
  <2>. QED BY <2>1, <2>2
<1>2. Union \subseteq nodes /\ \A a \in Axes : Winners(a) \subseteq Union
  BY DEF Union, Winners
<1>3. ASSUME NEW a \in Axes, NEW n \in Winners(a)
      PROVE  (\E u \in Union : Dominates(u, n)) <=> \E u \in nodes : Dominates(u, n)
  BY <1>2, DominatorWins
<1>. QED BY <1>1, <1>3

\* A front computed from the tree it is used with is the non-dominated one (GepaPolicy.compute).
LEMMA GepaIsRight ==
    ASSUME TreeOK, pc = "lease" => front = ComputeFrontier
    PROVE  FrontierIsNonDominated
<1>. DEFINE NoWorse(u, v, a) == ~Better(a, metrics[v][a], metrics[u][a])
            Has(a) == {n \in nodes : Measured(n, a)}
            Best(v, a) == v \in Has(a) /\ \A u \in Has(a) : NoWorse(v, u, a)
            Beaten(v) == \E u \in nodes :
                           /\ \A a \in DOMAIN metrics[v] : u \in Has(a) /\ NoWorse(u, v, a)
                           /\ \E a \in DOMAIN metrics[v] : ~NoWorse(v, u, a)
            measured == {a \in Axes : Has(a) # {}}
<1>. SUFFICES ASSUME pc = "lease", policy = "gepa"
              PROVE  /\ measured # {} =>
                            front = {n \in nodes : (\E a \in measured : Best(n, a)) /\ ~Beaten(n)}
                     /\ \A a \in measured : \E n \in front : Best(n, a)
  BY DEF FrontierIsNonDominated
<1>1. \A a \in Axes, n \in nodes : Best(n, a) <=> n \in Winners(a)
  BY DEF Winners
<1>2. \A n \in nodes : Beaten(n) <=> \E u \in nodes : Dominates(u, n)
  BY DEF Dominates, Measured
<1>3. ASSUME NEW a \in measured PROVE \E n \in OnFrontier : Best(n, a)
  <2>1. PICK n \in Winners(a) : \A u \in nodes : ~Dominates(u, n)
    BY SomeWinner
  <2>2. n \in nodes
    BY DEF Winners
  <2>3. n \in OnFrontier
    BY <2>1, <2>2, FrontierIs
  <2>. QED BY <1>1, <2>1, <2>2, <2>3
<1>4. measured # {} => front = OnFrontier
  BY <1>3 DEF ComputeFrontier
<1>5. \A a \in Axes, n \in nodes : n \in Winners(a) => a \in measured
  BY DEF Winners
<1>6. OnFrontier = {n \in nodes : (\E a \in measured : Best(n, a)) /\ ~Beaten(n)}
  <2>. HIDE DEF Best, Beaten, measured
  <2>1. \A a \in measured : a \in Axes
    BY DEF measured
  <2>. QED BY <1>1, <1>2, <1>5, <2>1, FrontierIs
<1>. QED BY <1>3, <1>4, <1>6

\* The frontier and its rows are functions of the tree and the policy.
LEMMA SameTree ==
    ASSUME UNCHANGED <<policy, nodes, metrics>>
    PROVE  Rows' = Rows /\ ComputeFrontier' = ComputeFrontier
BY DEF Rows, ComputeFrontier, OnFrontier, ByAxis, Gepa, TopOf, Union, Winners,
   Dominates, Measured, Before

\* The frontier is made of worlds that exist.
LEMMA FrontierInTree ==
    ASSUME TreeOK
    PROVE  ComputeFrontier \subseteq AllWorlds
BY DEF TreeOK, ComputeFrontier, OnFrontier, ByAxis, Gepa, TopOf, Winners

\* A capacity that leaves room is a number to take that many by.
LEMMA CapacityIs ==
    ASSUME TreeOK, Capacity > 0
    PROVE  Capacity \in Nat
<1>1. Researching \in SUBSET (1..MaxEpisodes) /\ IsFiniteSet(1..MaxEpisodes)
  BY SomeScientists, FS_Interval DEF Researching, Episodes
<1>2. Cardinality(Researching) \in Nat
  BY <1>1, FS_Subset, FS_CardinalityType
<1>. QED BY <1>2, SomeSeats DEF Capacity, TreeOK

\* The frontier of an empty run is right.
LEMMA FrontierInit == Init => FrontierOK
<1>. SUFFICES ASSUME Init PROVE FrontierOK
  OBVIOUS
<1>1. IInv
  BY InitInv
<1>2. metrics \in [AllWorlds -> Measurements]
  <2>1. <<>> \in Measurements
    <3>1. <<>> \in [{} -> Values] /\ {} \in SUBSET Axes
      OBVIOUS
    <3>. QED BY <3>1 DEF Measurements
  <2>. QED BY <2>1 DEF Init
<1>3. TreeOK
  <2>1. IsFiniteSet(nodes)
    BY FS_Singleton DEF Init
  <2>. QED BY <1>2, <2>1 DEF Init, TreeOK, AllWorlds
<1>4. DrawOK
  BY DEF Init, DrawOK, RowsAreTheFrontier
<1>. QED BY <1>1, <1>3, <1>4 DEF FrontierOK

\* Every step keeps the frontier right.
LEMMA FrontierStep == FrontierOK /\ [Next]_vars => FrontierOK'
<1>. SUFFICES ASSUME FrontierOK, [Next]_vars PROVE FrontierOK'
  OBVIOUS
<1>1. IInv' /\ TreeOK /\ DrawOK
  BY StudyStep DEF FrontierOK
<1>. USE DEF config, treeVars, epiVars, stepVars
<1>2. CASE UNCHANGED <<policy, seats, nodes, metrics, rows>>
  <2>1. Rows' = Rows /\ ComputeFrontier' = ComputeFrontier
    BY <1>2, SameTree
  <2>2. TreeOK' /\ RowsAreTheFrontier'
    BY <1>1, <1>2, <2>1 DEF TreeOK, DrawOK, RowsAreTheFrontier
  <2>3. CASE Compute
    <3>1. Capacity \in Nat /\ ComputeFrontier \subseteq AllWorlds
      BY <1>1, <2>3, CapacityIs, FrontierInTree DEF Compute
    <3>. QED BY <1>1, <2>1, <2>2, <2>3, <3>1 DEF Compute, DrawOK, FrontierOK
  <2>4. CASE Allocate \/ DoneAllocating \/ Resolve \/ Restart
    BY <1>1, <2>1, <2>2, <2>4
       DEF Allocate, DoneAllocating, Resolve, Restart, DrawOK, FrontierOK
  <2>5. CASE \E n \in AllWorlds : PickIdle(n) \/ Reseed(n) \/ Skip(n)
    BY <1>1, <2>1, <2>2, <2>5 DEF PickIdle, Reseed, Skip, Drawn, DrawOK, FrontierOK
  <2>6. ASSUME UNCHANGED <<front, left>>, pc' \notin {"lease", "allocate"} \/ UNCHANGED pc
        PROVE  FrontierOK'
    BY <1>1, <2>1, <2>2, <2>6 DEF DrawOK, FrontierOK
  <2>7. ASSUME NEW e \in Episodes,
               \/ Conclude(e) \/ Deliver(e) \/ WriteBack(e, "reopened") \/ WriteBack(e, "ended")
        PROVE  FrontierOK'
    BY <2>6, <2>7 DEF Conclude, Deliver, WriteBack
  <2>8. ASSUME NEW e \in Episodes, NEW w \in Worlds, NEW m \in Measurements, Graduate(e, w, m)
        PROVE  FrontierOK'
    BY <2>6, <2>8 DEF Graduate
  <2>9. CASE UNCHANGED vars
    BY <2>6, <2>9 DEF vars
  <2>. QED BY <2>3, <2>4, <2>5, <2>7, <2>8, <2>9 DEF Next
<1>3. ASSUME NEW e \in Episodes, NEW judged, WriteBack(e, judged) PROVE FrontierOK'
  <2>1. UNCHANGED <<policy, seats, nodes, metrics, front, left, pc>> /\ rows' = Rows
    BY <1>3 DEF WriteBack
  <2>2. Rows' = Rows /\ ComputeFrontier' = ComputeFrontier
    BY <2>1, SameTree
  <2>. QED BY <1>1, <2>1, <2>2 DEF TreeOK, DrawOK, RowsAreTheFrontier, FrontierOK
<1>4. ASSUME NEW e \in Episodes, NEW w \in Worlds, NEW m \in Measurements, Graduate(e, w, m)
      PROVE  FrontierOK'
  <2>1. /\ UNCHANGED <<policy, seats, front, left>> /\ pc' = "resolve" /\ rows' = Rows'
        /\ nodes' = nodes \cup {w} /\ w \in AllWorlds
        /\ metrics' = [metrics EXCEPT ![w] = m]
    BY <1>4 DEF Graduate, AllWorlds
  <2>2. IsFiniteSet(nodes')
    BY <1>1, <2>1, FS_AddElement DEF TreeOK
  <2>3. TreeOK'
    BY <1>1, <2>1, <2>2 DEF TreeOK
  <2>. QED BY <1>1, <2>1, <2>3 DEF DrawOK, RowsAreTheFrontier, FrontierOK
<1>5. \/ UNCHANGED <<policy, seats, nodes, metrics, rows>>
      \/ \E e \in Episodes : WriteBack(e, "reopened") \/ WriteBack(e, "ended")
      \/ \E e \in Episodes, w \in Worlds, m \in Measurements : Graduate(e, w, m)
  BY DEF Next, vars, Compute, Allocate, DoneAllocating, Resolve, Restart, PickIdle,
     Reseed, Skip, Conclude, Deliver
<1>. QED BY <1>2, <1>3, <1>4, <1>5

\* The worlds drawn from are exactly the best of some axis that no active world
\* dominates, no measured axis is without one, and the rows that reporting reads
\* are those of the tree as it is, for every tree and every measurement
\* (compute_frontier, GepaPolicy.compute, ingest_experiment_result).
THEOREM RightFrontier == Spec => []FrontierIsRight
<1>1. Spec => []FrontierOK
  BY FrontierInit, FrontierStep, PTL DEF Spec
<1>2. FrontierOK => FrontierIsRight
  <2>. SUFFICES ASSUME FrontierOK PROVE FrontierIsRight
    OBVIOUS
  <2>1. IInv /\ TreeOK /\ DrawOK
    BY DEF FrontierOK
  <2>2. TypeOK
    BY <2>1, Zenon DEF TypeOK, IInv, EpisodesOK, TreeOK, DrawOK
  <2>3. FrontierIsNonDominated
    BY <2>1, GepaIsRight DEF DrawOK
  <2>. QED BY <2>1, <2>2, <2>3 DEF FrontierIsRight, DrawOK
<1>. QED BY <1>1, <1>2, PTL

--------------------------------------------------------------------------------
(***************************************************************************)
(* The worker of an experiment.  Its worktree, its file and the clone are  *)
(* shared; the inductive invariant says what each stage may rely on as     *)
(* long as its experiment has one live worker.                             *)
(***************************************************************************)
Scores   == {"completed", "gate_rejected"}
Findings == Scores \cup {"no_change"}

Early    == {"off", "init", "clone", "seed", "create", "add", "execute", "inspect"}
Editing  == {"execute", "inspect", "commit"}
Building == Editing \cup {"create", "add", "evaluate", "grade"}
Leaving  == {"remove", "write"}

\* The clone can be used: it has its objects, or a worker died making it.
Usable == store \notin {"none", "cloning"} /\ (store = "seeded" \/ cut)

\* Only the baseline makes the clone, and nobody else starts before it is there.
CloneOK ==
    /\ \A w \in Work : /\ at[w] = "clone" => store = "cloning" /\ w[1] = Baseline
                       /\ at[w] = "seed" => store = "bare" /\ w[1] = Baseline
                       /\ w[1] # Baseline /\ at[w] # "off" => Usable
    /\ store = "bare" => cut \/ \E w \in Work : at[w] = "seed"
    /\ store = "partial" => cut
    /\ status[Baseline] = "completed" => Usable

\* What an attempt makes of its own.
Edits(w) == IF EvalOnly(w[1]) THEN {} ELSE {w[2]}

\* As long as no two workers of an experiment were alive at once, the worktree is
\* that of the one which is, and what it measured is its own commit.
Own(w, p, m, t) ==
    /\ p = "add" => t = NoTree
    /\ p \in {"execute", "inspect"} => t.by = w[2] /\ t.edits \subseteq {w[2]}
    /\ p = "commit" => t.by = w[2] /\ t.edits = {w[2]} /\ m.changed = {w[2]}
    /\ p = "evaluate" => t.by = w[2] /\ t.edits = Edits(w) /\ m.commit = Edits(w)
    /\ p = "grade" \/ (p \in Leaving /\ m.outcome \in Scores) =>
           m.seen.by = w[2] /\ m.seen.edits = Edits(w) /\ m.commit = Edits(w)

OwnTree(w) == /\ Alive(w) => w[2] = last[w[1]]
              /\ Own(w, at[w], mine[w], tree[w[1]])

\* A worker's memory is blank until it has inspected or measured; what it found
\* it found in a usable clone; and the baseline has one worker at a time.
WorkerOK(w) ==
    /\ w[2] > last[w[1]] => at[w] = "off"
    /\ at[w] \in Early => mine[w] = Blank
    /\ at[w] \in Building => Usable
    /\ at[w] \in Editing => ~EvalOnly(w[1])
    /\ at[w] \in Leaving => /\ mine[w].outcome # "none"
                            /\ mine[w].outcome \in Findings => Usable
    /\ mine[w].seen.stubs => cut
    /\ w[1] = Baseline /\ Alive(w) => /\ w[2] = last[w[1]] /\ att[w] = "running"
                                      /\ file[w[1]] = NoResult
    /\ w[1] \notin raced => OwnTree(w)

\* A result is that of a worker, and of its own commit.
ResultOK(e, r) ==
    /\ r.outcome \in Findings => Usable
    /\ r.seen.stubs => cut
    /\ e \notin raced /\ r.outcome \in Scores =>
           /\ r.seen.by = r.by /\ r.seen.edits = r.commit
           /\ r.commit = IF EvalOnly(e) THEN {} ELSE {r.by}

ExperimentOK(e) ==
    /\ tree[e].stubs => cut
    /\ file[e] # NoResult => file[e].outcome # "none"
    /\ ResultOK(e, file[e]) /\ ResultOK(e, verdict[e])

VerdictInv == /\ WorkerTypeOK /\ CloneOK
              /\ \A w \in Work : WorkerOK(w)
              /\ \A e \in Experiments : ExperimentOK(e)

--------------------------------------------------------------------------------
\* A run of the worker is named by its experiment and its ordinal, and the name gives both back.
LEMMA WorkIs ==
    /\ \A w \in Work : w[1] \in Experiments /\ w[2] \in Ordinals /\ w = <<w[1], w[2]>>
    /\ \A e \in Experiments, n \in Ordinals : <<e, n>> \in Work /\ <<e, n>>[1] = e /\ <<e, n>>[2] = n
    /\ \A n \in Ordinals : n \in 0..MaxAttempts /\ n # 0
BY WorkerAssumption DEF Work, Ordinals, WorkerConstants

\* A worker is alive between its start and its end, and what it starts from is blank.
LEMMA Stages ==
    /\ \A w : Alive(w) <=> at[w] \notin {"off", "done", "dead"}
    /\ NoResult.outcome = "none" /\ NoResult.seen = NoTree
    /\ NoTree.by = 0 /\ NoTree.edits = {} /\ NoTree.stubs = FALSE
    /\ Blank.seen = NoTree /\ Blank.commit = {} /\ Blank.outcome = "none"
BY DEF Alive, NoResult, NoTree, Blank

\* What a worker does to its own stage, memory and worktree, when its clone stays
\* usable.
LEMMA OneWorker ==
    ASSUME VerdictInv, NEW w \in Work, at[w] \notin {"off", "done", "dead"},
           WorkerTypeOK', CloneOK', WorkerOK(w)', tree'[w[1]].stubs => cut',
           NEW p, at' = [at EXCEPT ![w] = p],
           NEW m, mine' = [mine EXCEPT ![w] = m],
           \A e \in Experiments \ {w[1]} : tree'[e] = tree[e],
           Usable => Usable', cut => cut',
           UNCHANGED <<deliveries, last, att, file, status, verdict, raced>>
    PROVE  VerdictInv'
<1>1. /\ WorkerTypeOK /\ WorkerOK(w) /\ \A u \in Work : WorkerOK(u)
      /\ \A e \in Experiments : ExperimentOK(e)
  BY DEF VerdictInv
<1>2. \A u \in Work \ {w} : at'[u] = at[u] /\ mine'[u] = mine[u]
  BY <1>1 DEF WorkerTypeOK
<1>3. ASSUME NEW u \in Work \ {w}, u[1] # w[1] PROVE WorkerOK(u)'
  <2>1. tree'[u[1]] = tree[u[1]]
    BY <1>3, WorkIs
  <2>2. WorkerOK(u) /\ at'[u] = at[u] /\ mine'[u] = mine[u]
    BY <1>1, <1>2
  <2>3. Alive(u)' <=> Alive(u)
    BY <2>2 DEF Alive
  <2>4. OwnTree(u) => OwnTree(u)'
    BY <2>1, <2>2, <2>3 DEF OwnTree, Own, EvalOnly, Edits
  <2>. QED BY <2>2, <2>3, <2>4 DEF WorkerOK, EvalOnly
<1>4. ASSUME NEW u \in Work \ {w}, u[1] = w[1] PROVE WorkerOK(u)'
  <2>1. u[2] # w[2]
    BY <1>4, WorkIs
  <2>2. w[1] \notin raced => ~Alive(u)
    BY <1>1, <1>4, <2>1 DEF WorkerOK, OwnTree, Own, Alive
  <2>3. w[1] \notin raced => OwnTree(u)'
    <3>1. ASSUME w[1] \notin raced PROVE ~Alive(u)' /\ at[u] \in {"off", "done", "dead"} /\ at'[u] = at[u]
      BY <1>2, <2>2, <3>1 DEF Alive
    <3>. QED BY <3>1 DEF OwnTree, Own, Leaving
  <2>. QED BY <1>1, <1>2, <1>4, <2>3 DEF WorkerOK, Alive, EvalOnly
<1>5. ASSUME NEW e \in Experiments PROVE ExperimentOK(e)'
  <2>1. tree'[e].stubs => cut'
    BY <1>1, <1>5 DEF ExperimentOK
  <2>. QED BY <1>1, <2>1 DEF ExperimentOK, ResultOK, EvalOnly
<1>. QED BY <1>3, <1>4, <1>5 DEF VerdictInv

\* The clone is made once, by the baseline, which has one worker at a time.
LEMMA OneBaseline ==
    ASSUME VerdictInv, NEW w \in Work, NEW u \in Work, w[1] = Baseline, u[1] = Baseline,
           Alive(w), Alive(u)
    PROVE  u = w
BY WorkIs DEF VerdictInv, WorkerOK

\* Taking the repository's directory for the clone, or starting one, keeps the verdict
\* invariant (GitWorktreeManager.initialize).
LEMMA InitializeKeeps == ASSUME VerdictInv, NEW w \in Work, Initialize(w) PROVE VerdictInv'
<1>. USE DEF scheduled, history, Goto, Leave
<1>1. /\ WorkerTypeOK /\ CloneOK /\ WorkerOK(w) /\ ExperimentOK(w[1]) /\ w[1] \in Experiments
      /\ w[2] \in Ordinals /\ w[2] \in 0..MaxAttempts /\ w[2] # 0
  BY WorkIs DEF VerdictInv
<1>2. /\ at[w] = "init" /\ tree' = tree /\ cut' = cut /\ Alive(w) /\ mine[w] = Blank
      /\ UNCHANGED <<deliveries, last, att, file, status, verdict, raced, graded, spent>>
  BY <1>1, Stages DEF Initialize, WorkerOK, Early
<1>3. CASE store = "none"
  <2>1. store' = "cloning" /\ at' = [at EXCEPT ![w] = "clone"] /\ mine' = [mine EXCEPT ![w] = mine[w]]
    BY <1>1, <1>2, <1>3 DEF Initialize, WorkerTypeOK
  <2>2. w[1] = Baseline
    BY <1>1, <1>2, <1>3 DEF CloneOK, Usable
  <2>3. \A u \in Work \ {w} : at'[u] = at[u] /\ at[u] \notin {"clone", "seed"}
    BY <1>1, <1>3, <2>1 DEF CloneOK, WorkerTypeOK
  <2>4. at'[w] = "clone" /\ mine'[w] = mine[w] /\ WorkerTypeOK'
    BY <1>1, <1>2, <2>1 DEF WorkerTypeOK
  <2>5. CloneOK'
    BY <1>1, <1>2, <1>3, <2>1, <2>2, <2>3, <2>4 DEF CloneOK, Usable
  <2>6. WorkerOK(w)'
    BY <1>1, <1>2, <2>1, <2>4, Stages
       DEF WorkerOK, OwnTree, Own, Alive, Early, Building, Editing, Leaving
  <2>. QED BY <1>1, <1>2, <1>3, <2>1, <2>4, <2>5, <2>6, OneWorker DEF ExperimentOK, Usable
<1>4. CASE store # "none"
  <2>. DEFINE p == IF store = "cloning" THEN "write" ELSE "create"
              m == IF store = "cloning" THEN [mine[w] EXCEPT !.outcome = "infra"] ELSE mine[w]
  <2>1. store' = store /\ at' = [at EXCEPT ![w] = p] /\ mine' = [mine EXCEPT ![w] = m]
    BY <1>1, <1>2, <1>4 DEF Initialize, WorkerTypeOK
  <2>2. /\ at'[w] = p /\ mine'[w] = m /\ m.seen = NoTree
        /\ store = "cloning" => m.outcome = "infra"
        /\ store # "cloning" => m = Blank
    BY <1>1, <1>2, <2>1 DEF WorkerTypeOK, Blank
  <2>3. store # "cloning" => Usable
    <3>1. CASE store \in {"seeded", "partial"}
      BY <1>1, <3>1 DEF CloneOK, Usable
    <3>2. CASE store = "bare" /\ ~cut
      <4>1. PICK u \in Work : at[u] = "seed" /\ u[1] = Baseline
        BY <1>1, <3>2 DEF CloneOK
      <4>2. w[1] = Baseline
        BY <1>1, <1>2, <3>2 DEF CloneOK, Usable
      <4>. QED BY <1>2, <4>1, <4>2, OneBaseline, Stages
    <3>. QED BY <1>1, <1>4, <3>1, <3>2 DEF WorkerTypeOK, Usable
  <2>4. \A u \in Work \ {w} : at'[u] = at[u]
    BY <1>1, <2>1 DEF WorkerTypeOK
  <2>5. CloneOK'
    <3>1. \A u \in Work : at'[u] \in {"clone", "seed"} => u # w /\ at'[u] = at[u]
      BY <2>2, <2>4
    <3>2. \A u \in Work : at[u] = "seed" => u # w /\ at'[u] = at[u]
      BY <1>2, <2>4
    <3>3. Usable' = Usable
      BY <1>2, <2>1 DEF Usable
    <3>4. \A u \in Work : u[1] # Baseline /\ at'[u] # "off" => Usable
      BY <1>1, <1>2, <2>4 DEF CloneOK
    <3>. QED BY <1>1, <1>2, <2>1, <3>1, <3>2, <3>3, <3>4 DEF CloneOK
  <2>6. WorkerTypeOK'
    <3>1. m \in [changed : SUBSET Ordinals, commit : SUBSET Ordinals, seen : Trees, outcome : Outcomes]
      BY <1>1 DEF WorkerTypeOK, Outcomes
    <3>. QED BY <1>1, <1>2, <2>1, <3>1 DEF WorkerTypeOK
  <2>7. WorkerOK(w)'
    <3>1. CASE store = "cloning"
      <4>1. at'[w] = "write" /\ mine'[w].outcome = "infra" /\ ~mine'[w].seen.stubs
        BY <2>2, <3>1, Stages
      <4>. QED BY <1>1, <1>2, <4>1, Stages
               DEF WorkerOK, OwnTree, Own, Alive, Early, Building, Editing, Leaving, Scores, Findings
    <3>2. CASE store # "cloning"
      <4>1. at'[w] = "create" /\ mine'[w] = Blank /\ Usable'
        BY <1>2, <2>1, <2>2, <2>3, <3>2 DEF Usable
      <4>. QED BY <1>1, <1>2, <4>1, Stages
               DEF WorkerOK, OwnTree, Own, Alive, Early, Building, Editing, Leaving
    <3>. QED BY <3>1, <3>2
  <2>. HIDE DEF p, m
  <2>. QED BY <1>1, <1>2, <2>1, <2>5, <2>6, <2>7, OneWorker DEF ExperimentOK, Usable
<1>. QED BY <1>3, <1>4

\* Cloning the repository, or seeding it, keeps the verdict invariant.
LEMMA CloneKeeps == ASSUME VerdictInv, NEW w \in Work, Clone(w) \/ Seed(w) PROVE VerdictInv'
<1>. USE DEF scheduled, history, Goto, Leave
<1>1. /\ WorkerTypeOK /\ CloneOK /\ WorkerOK(w) /\ ExperimentOK(w[1]) /\ w[1] \in Experiments
      /\ w[2] \in Ordinals /\ w[2] \in 0..MaxAttempts /\ w[2] # 0
  BY WorkIs DEF VerdictInv
<1>2. /\ tree' = tree /\ cut' = cut /\ Alive(w) /\ mine[w] = Blank /\ w[1] = Baseline
      /\ UNCHANGED <<deliveries, last, att, file, status, verdict, raced, graded, spent>>
      /\ mine' = [mine EXCEPT ![w] = mine[w]] /\ mine'[w] = mine[w]
  BY <1>1, Stages DEF Clone, Seed, WorkerOK, Early, CloneOK, WorkerTypeOK
<1>3. \A u \in Work \ {w} : at[u] \notin {"clone", "seed"}
  BY <1>2, OneBaseline, Stages, <1>1 DEF CloneOK
<1>4. CASE Clone(w)
  <2>1. at[w] = "clone" /\ store = "cloning" /\ store' = "bare" /\ at' = [at EXCEPT ![w] = "seed"]
    BY <1>1, <1>4 DEF Clone, CloneOK
  <2>2. WorkerTypeOK' /\ at'[w] = "seed" /\ \A u \in Work \ {w} : at'[u] = at[u]
    BY <1>1, <1>2, <2>1 DEF WorkerTypeOK
  <2>3. CloneOK'
    BY <1>1, <1>2, <1>3, <2>1, <2>2 DEF CloneOK, Usable
  <2>4. WorkerOK(w)'
    BY <1>1, <1>2, <2>1, <2>2, Stages
       DEF WorkerOK, OwnTree, Own, Alive, Early, Building, Editing, Leaving
  <2>. QED BY <1>1, <1>2, <2>1, <2>2, <2>3, <2>4, OneWorker DEF ExperimentOK, Usable
<1>5. CASE Seed(w)
  <2>1. at[w] = "seed" /\ store = "bare" /\ store' = "seeded" /\ at' = [at EXCEPT ![w] = "create"]
    BY <1>1, <1>5 DEF Seed, CloneOK
  <2>2. WorkerTypeOK' /\ at'[w] = "create" /\ \A u \in Work \ {w} : at'[u] = at[u]
    BY <1>1, <1>2, <2>1 DEF WorkerTypeOK
  <2>3. CloneOK'
    BY <1>1, <1>2, <1>3, <2>1, <2>2 DEF CloneOK, Usable
  <2>4. WorkerOK(w)'
    BY <1>1, <1>2, <2>1, <2>2, Stages
       DEF WorkerOK, OwnTree, Own, Alive, Early, Building, Editing, Leaving, Usable
  <2>. QED BY <1>1, <1>2, <2>1, <2>2, <2>3, <2>4, OneWorker DEF ExperimentOK, Usable
<1>. QED BY <1>4, <1>5

\* A worker that does not make the clone, and the memory of one.
WorkerMemory == [changed : SUBSET Ordinals, commit : SUBSET Ordinals, seen : Trees, outcome : Outcomes]

\* A worker's own step on its own worktree keeps the verdict invariant if it keeps the worker right.
LEMMA OneBuilder ==
    ASSUME VerdictInv, NEW w \in Work, at[w] \in Building \cup Leaving,
           NEW p \in Building \cup Leaving, at' = [at EXCEPT ![w] = p],
           NEW m \in WorkerMemory, mine' = [mine EXCEPT ![w] = m],
           NEW t \in Trees, tree' = [tree EXCEPT ![w[1]] = t],
           graded' \in [Experiments -> SUBSET Grades], spent' \in 0..MaxFaults,
           UNCHANGED <<deliveries, store, last, att, file, status, verdict, raced, cut>>,
           t.stubs => cut, WorkerOK(w)'
    PROVE  VerdictInv'
<1>1. WorkerTypeOK /\ CloneOK /\ w[1] \in Experiments
  BY WorkIs DEF VerdictInv
<1>2. p \notin {"off", "clone", "seed"} /\ at[w] \notin {"off", "clone", "seed", "done", "dead"}
      /\ at'[w] = p /\ \A u \in Work \ {w} : at'[u] = at[u]
  BY <1>1 DEF Building, Editing, Leaving, WorkerTypeOK
<1>3. tree'[w[1]] = t /\ \A e \in Experiments \ {w[1]} : tree'[e] = tree[e]
  BY <1>1 DEF WorkerTypeOK
<1>4. WorkerTypeOK'
  <2>1. tree' \in [Experiments -> Trees] /\ mine' \in [Work -> WorkerMemory]
    BY <1>1 DEF WorkerTypeOK, WorkerMemory
  <2>2. at' \in [Work -> {"off", "init", "clone", "seed", "create", "add", "execute",
                        "inspect", "commit", "evaluate", "grade", "remove", "write",
                        "done", "dead"}]
    BY <1>1 DEF WorkerTypeOK, Building, Editing, Leaving
  <2>. QED BY <1>1, <2>1, <2>2 DEF WorkerTypeOK, WorkerMemory
<1>5. CloneOK'
  <2>1. Usable' = Usable
    BY DEF Usable
  <2>2. \A u \in Work : at'[u] \in {"clone", "seed"} => u # w /\ at'[u] = at[u]
    BY <1>2
  <2>3. \A u \in Work : at[u] = "seed" => at'[u] = "seed"
    BY <1>2
  <2>4. \A u \in Work : u[1] # Baseline /\ at'[u] # "off" => Usable
    BY <1>1, <1>2 DEF CloneOK
  <2>. QED BY <1>1, <2>1, <2>2, <2>3, <2>4 DEF CloneOK
<1>6. Usable => Usable'
  BY DEF Usable
<1>. QED BY <1>2, <1>3, <1>4, <1>5, <1>6, OneWorker

\* A worker's memory and its worktree are of their types.
LEMMA MemoryIs ==
    ASSUME VerdictInv, NEW w \in Work
    PROVE  /\ mine[w] \in WorkerMemory /\ tree[w[1]] \in Trees /\ NoTree \in Trees
           /\ mine' = mine => mine' = [mine EXCEPT ![w] = mine[w]]
           /\ tree' = tree => tree' = [tree EXCEPT ![w[1]] = tree[w[1]]]
           /\ \A o \in Outcomes : [mine[w] EXCEPT !.outcome = o] \in WorkerMemory
<1>1. WorkerTypeOK /\ w[1] \in Experiments
  BY WorkIs DEF VerdictInv
<1>2. mine[w] \in WorkerMemory /\ tree[w[1]] \in Trees
  BY <1>1 DEF WorkerTypeOK, WorkerMemory
<1>3. NoTree \in Trees
  BY WorkerAssumption DEF NoTree, Trees, WorkerConstants
<1>. QED BY <1>1, <1>2, <1>3 DEF WorkerTypeOK, WorkerMemory


\* As OneBuilder, with what has to hold of the worker spelled out stage by stage.
LEMMA Builder ==
    ASSUME VerdictInv, NEW w \in Work, at[w] \in Building \cup Leaving,
           NEW p \in Building \cup Leaving, at' = [at EXCEPT ![w] = p],
           NEW m \in WorkerMemory, mine' = [mine EXCEPT ![w] = m],
           NEW t \in Trees, tree' = [tree EXCEPT ![w[1]] = t],
           graded' \in [Experiments -> SUBSET Grades], spent' \in 0..MaxFaults,
           UNCHANGED <<deliveries, store, last, att, file, status, verdict, raced, cut>>,
           t.stubs => cut, m.seen.stubs => cut,
           p \in Early => m = Blank,
           p \in Building => Usable,
           p \in Editing => ~EvalOnly(w[1]),
           p \in Leaving => m.outcome # "none" /\ (m.outcome \in Findings => Usable),
           w[1] \notin raced => Own(w, p, m, t)
    PROVE  VerdictInv'
<1>1. WorkerTypeOK /\ CloneOK /\ WorkerOK(w) /\ w[1] \in Experiments
  BY WorkIs DEF VerdictInv
<1>2. at'[w] = p /\ mine'[w] = m /\ tree'[w[1]] = t
  BY <1>1 DEF WorkerTypeOK
<1>3. Alive(w) /\ Alive(w)' /\ at[w] # "off"
  BY <1>1, <1>2, Stages DEF Building, Editing, Leaving, Alive
<1>4. Usable' = Usable /\ EvalOnly(w[1])' = EvalOnly(w[1]) /\ Edits(w)' = Edits(w)
  BY DEF Usable, EvalOnly, Edits
<1>5. w[1] \notin raced' => OwnTree(w)'
  <2>1. w[1] \notin raced => w[2] = last[w[1]]
    BY <1>1, <1>3 DEF WorkerOK, OwnTree
  <2>2. w[1] \notin raced => Own(w, at[w], mine[w], tree[w[1]])'
    BY <1>2, <1>4 DEF Own
  <2>. QED BY <2>1, <2>2 DEF OwnTree
<1>6. WorkerOK(w)'
  BY <1>1, <1>2, <1>3, <1>4, <1>5 DEF WorkerOK
<1>. QED BY <1>6, OneBuilder

\* What each stage of a worker knows.
LEMMA StageIs ==
    ASSUME VerdictInv, NEW w \in Work
    PROVE  /\ w[1] \in Experiments /\ w[2] \in 0..MaxAttempts /\ {w[2]} \subseteq Ordinals
           /\ graded \in [Experiments -> SUBSET Grades] /\ spent \in 0..MaxFaults
           /\ tree[w[1]].stubs => cut
           /\ mine[w].seen.stubs => cut
           /\ at[w] \in Early => mine[w] = Blank
           /\ at[w] \in Building => Usable
           /\ at[w] \in Editing => ~EvalOnly(w[1])
           /\ at[w] \in Leaving => /\ mine[w].outcome # "none"
                                   /\ mine[w].outcome \in Findings => Usable
           /\ w[1] \notin raced => Own(w, at[w], mine[w], tree[w[1]])
BY WorkIs DEF VerdictInv, WorkerTypeOK, ExperimentOK, WorkerOK, OwnTree

\* A worker that gives up without a score.
LEMMA Quits ==
    ASSUME VerdictInv, NEW w \in Work, at[w] \in Building,
           NEW p \in Leaving, at' = [at EXCEPT ![w] = p],
           NEW o \in {"infra", "no_change"}, mine' = [mine EXCEPT ![w].outcome = o],
           NEW t \in Trees, tree' = [tree EXCEPT ![w[1]] = t], t.stubs => cut,
           spent' \in 0..MaxFaults,
           UNCHANGED <<deliveries, store, last, att, file, status, verdict, raced, cut, graded>>
    PROVE  VerdictInv'
<1>. DEFINE m == [mine[w] EXCEPT !.outcome = o]
<1>1. mine[w] \in WorkerMemory /\ o \in Outcomes
  BY MemoryIs DEF Outcomes
<1>2. m \in WorkerMemory /\ m.outcome = o /\ m.seen = mine[w].seen
  <2>1. m \in WorkerMemory
    BY <1>1, MemoryIs
  <2>. QED BY <1>1, <2>1 DEF WorkerMemory
<1>3. mine' = [mine EXCEPT ![w] = m]
  BY DEF VerdictInv, WorkerTypeOK
<1>4. o \notin Scores /\ o # "none" /\ p \notin Early /\ p \notin Building /\ p \notin Editing
      /\ p \in Building \cup Leaving /\ at[w] \in Building \cup Leaving /\ p \in {"remove", "write"}
  BY DEF Scores, Leaving, Early, Building, Editing
<1>. HIDE DEF m
<1>5. Own(w, p, m, t)
  BY <1>2, <1>4 DEF Own
<1>6. (m.seen.stubs => cut) /\ Usable /\ graded' \in [Experiments -> SUBSET Grades] /\ m.outcome # "none"
  BY <1>2, <1>4, StageIs
<1>. QED BY <1>2, <1>3, <1>4, <1>5, <1>6, Builder

\* Dropping a stale worktree keeps the verdict invariant (GitWorktreeManager).
LEMMA DropKeeps == ASSUME VerdictInv, NEW w \in Work, DropStale(w) PROVE VerdictInv'
<1>. USE DEF scheduled, history, Goto
<1>1. /\ at[w] = "create" /\ mine[w] = Blank /\ Usable
  BY StageIs DEF DropStale, Early, Building
<1>2. /\ at' = [at EXCEPT ![w] = "add"] /\ tree' = [tree EXCEPT ![w[1]] = NoTree]
      /\ mine' = [mine EXCEPT ![w] = mine[w]]
      /\ UNCHANGED <<deliveries, store, last, att, file, status, verdict, raced, cut, graded, spent>>
  BY MemoryIs DEF DropStale
<1>3. Own(w, "add", mine[w], NoTree)
  BY DEF Own, Leaving
<1>4. at[w] \in Building \cup Leaving /\ "add" \in Building \cup Leaving /\ "add" \in Early
      /\ "add" \notin Editing /\ "add" \notin Leaving
  BY <1>1 DEF Building, Editing, Leaving, Early
<1>. QED BY <1>1, <1>2, <1>3, <1>4, Stages, MemoryIs, StageIs, Builder

\* Adding the worktree keeps the verdict invariant (GitWorktreeManager).
LEMMA AddKeeps == ASSUME VerdictInv, NEW w \in Work, AddTree(w) PROVE VerdictInv'
<1>. USE DEF scheduled, history, Goto
<1>1. /\ at[w] = "add" /\ mine[w] = Blank /\ Usable /\ at[w] \in Building /\ at[w] \in Building \cup Leaving
  BY StageIs DEF AddTree, Early, Building
<1>2. /\ UNCHANGED <<deliveries, store, last, att, file, status, verdict, raced, cut, graded, spent>>
      /\ mine[w] \in WorkerMemory /\ tree[w[1]] \in Trees /\ "write" \in Leaving
  BY MemoryIs DEF AddTree, Leaving
<1>3. graded' \in [Experiments -> SUBSET Grades] /\ spent' \in 0..MaxFaults /\ (tree[w[1]].stubs => cut)
  BY <1>2, StageIs
<1>4. CASE tree[w[1]] # NoTree
  <2>1. /\ at' = [at EXCEPT ![w] = "write"] /\ mine' = [mine EXCEPT ![w].outcome = "infra"]
        /\ tree' = [tree EXCEPT ![w[1]] = tree[w[1]]]
    BY <1>4, MemoryIs DEF AddTree
  <2>. QED BY <1>1, <1>2, <1>3, <2>1, Quits
<1>5. CASE tree[w[1]] = NoTree
  <2>. DEFINE t == [by |-> w[2], edits |-> {}, stubs |-> store # "seeded"]
              p == IF EvalOnly(w[1]) THEN "evaluate" ELSE "execute"
  <2>1. tree' = [tree EXCEPT ![w[1]] = t]
    BY <1>5 DEF AddTree
  <2>2. t \in Trees /\ t.by = w[2] /\ t.edits = {} /\ (t.stubs => cut)
    BY <1>1, StageIs DEF Trees, Usable
  <2>3. CASE store = "partial"
    <3>1. at' = [at EXCEPT ![w] = "write"] /\ mine' = [mine EXCEPT ![w].outcome = "infra"]
      BY <1>5, <2>3 DEF AddTree
    <3>. HIDE DEF t
    <3>. QED BY <1>1, <1>2, <1>3, <2>1, <2>2, <3>1, Quits
  <2>4. CASE store # "partial"
    <3>1. at' = [at EXCEPT ![w] = p] /\ mine' = [mine EXCEPT ![w] = mine[w]]
      BY <1>5, <2>4, MemoryIs DEF AddTree
    <3>2. /\ p \in {"evaluate", "execute"} /\ (p = "execute" => ~EvalOnly(w[1]))
          /\ (p = "evaluate" => EvalOnly(w[1]))
      OBVIOUS
    <3>. HIDE DEF p, t
    <3>3. Own(w, p, mine[w], t)
      BY <1>1, <2>2, <3>2, Stages DEF Own, Edits, Leaving
    <3>4. /\ p \in Building \cup Leaving /\ p \notin Leaving
          /\ (p \in Editing => p = "execute")
      BY <3>2 DEF Building, Leaving, Editing
    <3>. QED BY <1>1, <1>2, <1>3, <2>1, <2>2, <3>1, <3>2, <3>3, <3>4, Stages, Builder
  <2>. QED BY <2>3, <2>4
<1>. QED BY <1>4, <1>5

\* The edit keeps the verdict invariant.
LEMMA ExecuteKeeps == ASSUME VerdictInv, NEW w \in Work, Execute(w) PROVE VerdictInv'
<1>. USE DEF scheduled, history, Goto
<1>1. /\ at[w] = "execute" /\ mine[w] = Blank /\ Usable /\ at[w] \in Building
      /\ at[w] \in Building \cup Leaving /\ ~EvalOnly(w[1])
  BY StageIs DEF Execute, Early, Building, Editing
<1>2. mine[w] \in WorkerMemory /\ tree[w[1]] \in Trees
  BY MemoryIs
<1>3. PICK t \in Trees : /\ tree' = [tree EXCEPT ![w[1]] = t] /\ t.by = tree[w[1]].by
                         /\ t.stubs = tree[w[1]].stubs
                         /\ t.edits \subseteq tree[w[1]].edits \cup {w[2]}
  <2>. DEFINE t == [tree[w[1]] EXCEPT !.edits = @ \cup {w[2]}]
  <2>1. CASE tree' = tree
    BY <1>2, <2>1, MemoryIs
  <2>2. CASE tree' # tree
    <3>1. tree' = [tree EXCEPT ![w[1]] = t]
      BY <2>2, StageIs DEF Execute, VerdictInv, WorkerTypeOK
    <3>2. t \in Trees /\ t.by = tree[w[1]].by /\ t.stubs = tree[w[1]].stubs
          /\ t.edits = tree[w[1]].edits \cup {w[2]}
      BY <1>2, StageIs DEF Trees
    <3>. HIDE DEF t
    <3>. QED BY <3>1, <3>2
  <2>. QED BY <2>1, <2>2
<1>4. UNCHANGED <<deliveries, store, last, att, file, status, verdict, raced, cut, graded>>
      /\ (t.stubs => cut)
  BY <1>3, StageIs DEF Execute
<1>5. CASE at' = [at EXCEPT ![w] = "inspect"] /\ mine' = mine /\ spent' = spent
  <2>1. "inspect" \in Building \cup Leaving /\ "inspect" \notin Leaving /\ "inspect" \in Editing
    BY DEF Building, Leaving, Editing
  <2>2. w[1] \notin raced => Own(w, "inspect", mine[w], t)
    BY <1>1, <1>3, StageIs DEF Own, Leaving
  <2>. QED BY <1>1, <1>2, <1>3, <1>4, <1>5, <2>1, <2>2, Stages, MemoryIs, StageIs, Builder
<1>6. CASE spent < MaxFaults /\ spent' = spent + 1 /\ Leave(w, "infra")
  <2>1. spent' \in 0..MaxFaults
    BY <1>6, StageIs, WorkerAssumption DEF WorkerConstants
  <2>. QED BY <1>1, <1>3, <1>4, <1>6, <2>1, Quits DEF Leave, Leaving
<1>. QED BY <1>5, <1>6 DEF Execute, Leave

\* Looking at what was edited keeps the verdict invariant.
LEMMA InspectKeeps == ASSUME VerdictInv, NEW w \in Work, Inspect(w) PROVE VerdictInv'
<1>. USE DEF scheduled, history, Goto
<1>1. /\ at[w] = "inspect" /\ mine[w] = Blank /\ Usable /\ at[w] \in Building
      /\ at[w] \in Building \cup Leaving /\ ~EvalOnly(w[1])
  BY StageIs DEF Inspect, Early, Building, Editing
<1>2. /\ mine[w] \in WorkerMemory /\ tree[w[1]] \in Trees /\ tree' = [tree EXCEPT ![w[1]] = tree[w[1]]]
      /\ UNCHANGED <<deliveries, store, last, att, file, status, verdict, raced, cut, graded, spent>>
      /\ tree[w[1]].stubs => cut
      /\ graded' \in [Experiments -> SUBSET Grades] /\ spent' \in 0..MaxFaults
  BY StageIs, MemoryIs DEF Inspect
<1>3. ASSUME NEW o \in {"infra", "no_change"}, Leave(w, o) PROVE VerdictInv'
  BY <1>1, <1>2, <1>3, Quits DEF Leave, Leaving
<1>4. CASE /\ tree[w[1]].edits # {}
           /\ at' = [at EXCEPT ![w] = "commit"]
           /\ mine' = [mine EXCEPT ![w].changed = tree[w[1]].edits]
  <2>. DEFINE m == [mine[w] EXCEPT !.changed = tree[w[1]].edits]
  <2>1. m \in WorkerMemory /\ m.changed = tree[w[1]].edits /\ m.seen = mine[w].seen
    BY <1>2 DEF WorkerMemory, Trees
  <2>2. mine' = [mine EXCEPT ![w] = m]
    BY <1>4 DEF VerdictInv, WorkerTypeOK
  <2>. HIDE DEF m
  <2>3. "commit" \in Building \cup Leaving /\ "commit" \notin Leaving /\ "commit" \in Editing
        /\ "commit" \notin Early
    BY DEF Building, Leaving, Editing, Early
  <2>4. w[1] \notin raced => Own(w, "commit", m, tree[w[1]])
    <3>1. w[1] \notin raced => tree[w[1]].by = w[2] /\ tree[w[1]].edits = {w[2]}
      BY <1>1, <1>4, StageIs DEF Own
    <3>. QED BY <2>1, <3>1 DEF Own, Leaving
  <2>5. m.seen.stubs => cut
    BY <2>1, StageIs
  <2>. QED BY <1>1, <1>2, <1>4, <2>1, <2>2, <2>3, <2>4, <2>5, Builder
<1>. QED BY <1>3, <1>4 DEF Inspect

\* Committing the edit keeps the verdict invariant.
LEMMA CommitKeeps == ASSUME VerdictInv, NEW w \in Work, Commit(w) PROVE VerdictInv'
<1>. USE DEF scheduled, history, Goto
<1>1. /\ at[w] = "commit" /\ Usable /\ at[w] \in Building
      /\ at[w] \in Building \cup Leaving /\ ~EvalOnly(w[1])
  BY StageIs DEF Commit, Building, Editing
<1>2. /\ mine[w] \in WorkerMemory /\ tree[w[1]] \in Trees /\ tree' = [tree EXCEPT ![w[1]] = tree[w[1]]]
      /\ UNCHANGED <<deliveries, store, last, att, file, status, verdict, raced, cut, graded, spent>>
      /\ tree[w[1]].stubs => cut
      /\ graded' \in [Experiments -> SUBSET Grades] /\ spent' \in 0..MaxFaults
  BY StageIs, MemoryIs DEF Commit
<1>3. CASE Leave(w, "infra")
  BY <1>1, <1>2, <1>3, Quits DEF Leave, Leaving
<1>4. CASE /\ at' = [at EXCEPT ![w] = "evaluate"]
           /\ mine' = [mine EXCEPT ![w].commit = mine[w].changed]
  <2>. DEFINE m == [mine[w] EXCEPT !.commit = mine[w].changed]
  <2>1. m \in WorkerMemory /\ m.commit = mine[w].changed /\ m.seen = mine[w].seen
    BY <1>2 DEF WorkerMemory
  <2>2. mine' = [mine EXCEPT ![w] = m]
    BY <1>4 DEF VerdictInv, WorkerTypeOK
  <2>. HIDE DEF m
  <2>3. "evaluate" \in Building \cup Leaving /\ "evaluate" \notin Leaving
        /\ "evaluate" \notin Editing /\ "evaluate" \notin Early
    BY DEF Building, Leaving, Editing, Early
  <2>4. w[1] \notin raced => Own(w, "evaluate", m, tree[w[1]])
    <3>1. w[1] \notin raced => tree[w[1]].by = w[2] /\ tree[w[1]].edits = {w[2]} /\ mine[w].changed = {w[2]}
      BY <1>1, StageIs DEF Own
    <3>. QED BY <1>1, <2>1, <3>1 DEF Own, Leaving, Edits
  <2>5. m.seen.stubs => cut
    BY <2>1, StageIs
  <2>. QED BY <1>1, <1>2, <1>4, <2>1, <2>2, <2>3, <2>4, <2>5, Builder
<1>. QED BY <1>3, <1>4 DEF Commit

\* Running the evaluation keeps the verdict invariant.
LEMMA EvaluateKeeps == ASSUME VerdictInv, NEW w \in Work, Evaluate(w) PROVE VerdictInv'
<1>. USE DEF scheduled, history, Goto
<1>1. /\ at[w] = "evaluate" /\ Usable /\ at[w] \in Building /\ at[w] \in Building \cup Leaving
  BY StageIs DEF Evaluate, Building
<1>2. /\ mine[w] \in WorkerMemory /\ tree[w[1]] \in Trees /\ tree' = [tree EXCEPT ![w[1]] = tree[w[1]]]
      /\ UNCHANGED <<deliveries, store, last, att, file, status, verdict, raced, cut, graded, spent>>
      /\ tree[w[1]].stubs => cut
      /\ graded' \in [Experiments -> SUBSET Grades] /\ spent' \in 0..MaxFaults
  BY StageIs, MemoryIs DEF Evaluate
<1>3. CASE Leave(w, "infra")
  BY <1>1, <1>2, <1>3, Quits DEF Leave, Leaving
<1>4. CASE /\ at' = [at EXCEPT ![w] = "grade"]
           /\ mine' = [mine EXCEPT ![w].seen = tree[w[1]]]
  <2>. DEFINE m == [mine[w] EXCEPT !.seen = tree[w[1]]]
  <2>1. m \in WorkerMemory /\ m.commit = mine[w].commit /\ m.seen = tree[w[1]]
    BY <1>2 DEF WorkerMemory
  <2>2. mine' = [mine EXCEPT ![w] = m]
    BY <1>4 DEF VerdictInv, WorkerTypeOK
  <2>. HIDE DEF m
  <2>3. "grade" \in Building \cup Leaving /\ "grade" \notin Leaving
        /\ "grade" \notin Editing /\ "grade" \notin Early
    BY DEF Building, Leaving, Editing, Early
  <2>4. w[1] \notin raced => Own(w, "grade", m, tree[w[1]])
    <3>1. w[1] \notin raced => tree[w[1]].by = w[2] /\ tree[w[1]].edits = Edits(w) /\ mine[w].commit = Edits(w)
      BY <1>1, StageIs DEF Own
    <3>. QED BY <2>1, <3>1 DEF Own
  <2>. QED BY <1>1, <1>2, <1>4, <2>1, <2>2, <2>3, <2>4, Builder
<1>. QED BY <1>3, <1>4 DEF Evaluate

\* Reading a grade off the evaluation keeps the verdict invariant.
LEMMA GradeKeeps == ASSUME VerdictInv, NEW w \in Work, NEW grade \in Grades, Grade(w, grade) PROVE VerdictInv'
<1>. USE DEF scheduled, history, Goto
<1>. DEFINE o == Outcome(w[1], grade)
            m == [mine[w] EXCEPT !.outcome = o]
<1>1. /\ at[w] = "grade" /\ Usable /\ at[w] \in Building /\ at[w] \in Building \cup Leaving
  BY StageIs DEF Grade, Building
<1>2. /\ mine[w] \in WorkerMemory /\ tree[w[1]] \in Trees /\ tree' = [tree EXCEPT ![w[1]] = tree[w[1]]]
      /\ UNCHANGED <<deliveries, store, last, att, file, status, verdict, raced, cut, spent>>
      /\ tree[w[1]].stubs => cut
      /\ spent' \in 0..MaxFaults
      /\ at' = [at EXCEPT ![w] = "remove"] /\ mine' = [mine EXCEPT ![w].outcome = o]
  BY StageIs, MemoryIs DEF Grade, Leave
<1>3. graded' \in [Experiments -> SUBSET Grades]
  BY StageIs DEF Grade
<1>4. o \in Outcomes /\ o # "none"
  BY DEF Outcome, Outcomes
<1>5. m \in WorkerMemory /\ m.commit = mine[w].commit /\ m.seen = mine[w].seen /\ m.outcome = o
  <2>. HIDE DEF o
  <2>. QED BY <1>2, <1>4 DEF WorkerMemory
<1>6. mine' = [mine EXCEPT ![w] = m]
  <2>. HIDE DEF o
  <2>. QED BY <1>2 DEF VerdictInv, WorkerTypeOK
<1>. HIDE DEF o, m
<1>7. "remove" \in Building \cup Leaving /\ "remove" \notin Building
      /\ "remove" \notin Editing /\ "remove" \notin Early
  BY DEF Building, Leaving, Editing, Early
<1>8. w[1] \notin raced => Own(w, "remove", m, tree[w[1]])
  <2>1. w[1] \notin raced => mine[w].seen.by = w[2] /\ mine[w].seen.edits = Edits(w) /\ mine[w].commit = Edits(w)
    BY <1>1, StageIs DEF Own
  <2>. QED BY <1>5, <2>1 DEF Own
<1>9. m.seen.stubs => cut
  BY <1>5, StageIs
<1>. QED BY <1>1, <1>2, <1>3, <1>4, <1>5, <1>6, <1>7, <1>8, <1>9, Builder

\* Removing the worktree keeps the verdict invariant.
LEMMA RemoveKeeps == ASSUME VerdictInv, NEW w \in Work, Remove(w) PROVE VerdictInv'
<1>. USE DEF scheduled, history, Goto
<1>1. /\ at[w] = "remove" /\ at[w] \in Leaving /\ at[w] \in Building \cup Leaving
  BY StageIs DEF Remove, Leaving
<1>2. /\ mine[w] \in WorkerMemory /\ NoTree \in Trees /\ tree' = [tree EXCEPT ![w[1]] = NoTree]
      /\ UNCHANGED <<deliveries, store, last, att, file, status, verdict, raced, cut, graded, spent>>
      /\ at' = [at EXCEPT ![w] = "write"] /\ mine' = [mine EXCEPT ![w] = mine[w]]
      /\ graded' \in [Experiments -> SUBSET Grades] /\ spent' \in 0..MaxFaults
  BY StageIs, MemoryIs DEF Remove
<1>3. "write" \in Building \cup Leaving /\ "write" \notin Building
      /\ "write" \notin Editing /\ "write" \notin Early /\ "write" \in Leaving
  BY DEF Building, Leaving, Editing, Early
<1>4. w[1] \notin raced => Own(w, "write", mine[w], NoTree)
  BY <1>1, <1>3, StageIs DEF Own
<1>. QED BY <1>1, <1>2, <1>3, <1>4, Stages, StageIs, Builder

\* Writing the result keeps the verdict invariant.
LEMMA WriteKeeps == ASSUME VerdictInv, NEW w \in Work, WriteResult(w) PROVE VerdictInv'
<1>. USE DEF scheduled, history, Goto
<1>. DEFINE r == [by |-> w[2], outcome |-> mine[w].outcome, commit |-> mine[w].commit,
                  seen |-> mine[w].seen]
<1>1. /\ WorkerTypeOK /\ CloneOK /\ \A u \in Work : WorkerOK(u)
      /\ \A e \in Experiments : ExperimentOK(e)
      /\ w[1] \in Experiments /\ w[2] \in 0..MaxAttempts
  BY WorkIs DEF VerdictInv
<1>2. /\ at[w] = "write" /\ at' = [at EXCEPT ![w] = "done"] /\ file' = [file EXCEPT ![w[1]] = r]
      /\ at[w] \in Leaving
      /\ UNCHANGED <<deliveries, store, tree, mine, last, att, status, verdict, graded, raced, cut, spent>>
  BY DEF WriteResult, Leaving
<1>3. /\ at'[w] = "done" /\ \A u \in Work \ {w} : at'[u] = at[u]
      /\ file'[w[1]] = r /\ \A e \in Experiments \ {w[1]} : file'[e] = file[e]
  BY <1>1, <1>2 DEF WorkerTypeOK
<1>4. r \in Results
  BY <1>1, MemoryIs DEF Results, WorkerMemory
<1>5. WorkerTypeOK'
  <2>. HIDE DEF r
  <2>. QED BY <1>1, <1>2, <1>4 DEF WorkerTypeOK
<1>6. Usable' = Usable
  BY <1>2 DEF Usable
<1>7. CloneOK'
  <2>1. \A u \in Work : at'[u] \in {"clone", "seed"} => at'[u] = at[u]
    BY <1>3
  <2>2. \A u \in Work : at[u] = "seed" => at'[u] = "seed"
    BY <1>2, <1>3
  <2>3. \A u \in Work : u[1] # Baseline /\ at'[u] # "off" => Usable
    BY <1>1, <1>2, <1>3 DEF CloneOK
  <2>. QED BY <1>1, <1>2, <1>6, <2>1, <2>2, <2>3 DEF CloneOK
<1>8. ASSUME NEW u \in Work PROVE WorkerOK(u)'
  <2>1. CASE u = w
    <3>1. /\ ~Alive(u)' /\ at'[u] = "done" /\ "done" \notin Early /\ "done" \notin Editing
          /\ "done" \notin Building /\ "done" \notin Leaving
      BY <1>3, <2>1 DEF Alive, Early, Editing, Building, Leaving
    <3>2. Own(u, "done", mine[u], tree[u[1]])'
      BY <3>1 DEF Own
    <3>3. OwnTree(u)'
      BY <1>2, <3>1, <3>2 DEF OwnTree, Own, Edits, EvalOnly
    <3>4. ~(u[2] > last[u[1]]) /\ (mine[u].seen.stubs => cut)
      BY <1>1, <1>2, <2>1 DEF WorkerOK
    <3>. QED BY <1>2, <3>1, <3>3, <3>4 DEF WorkerOK
  <2>2. CASE u # w
    <3>1. at'[u] = at[u] /\ WorkerOK(u)
      BY <1>1, <1>3, <2>2
    <3>2. Alive(u)' = Alive(u) /\ OwnTree(u)' = OwnTree(u) /\ EvalOnly(u[1])' = EvalOnly(u[1])
      BY <1>2, <3>1 DEF OwnTree, Own, Alive, Edits, EvalOnly
    <3>3. u[1] = Baseline /\ Alive(u) => file'[u[1]] = NoResult
      <4>1. u[1] = Baseline /\ Alive(u) => u[1] # w[1]
        BY <1>2, <2>2, OneBaseline, Stages
      <4>2. u[1] # w[1] => file'[u[1]] = file[u[1]]
        BY <1>3, WorkIs
      <4>. QED BY <3>1, <4>1, <4>2 DEF WorkerOK
    <3>. QED BY <1>2, <1>6, <3>1, <3>2, <3>3 DEF WorkerOK
  <2>. QED BY <2>1, <2>2
<1>9. ASSUME NEW e \in Experiments PROVE ExperimentOK(e)'
  <2>1. ExperimentOK(e)
    BY <1>1
  <2>2. ResultOK(e, verdict[e])'
    BY <1>2, <1>6, <2>1 DEF ExperimentOK, ResultOK, EvalOnly
  <2>3. CASE e = w[1]
    <3>1. r.outcome # "none" /\ (r.outcome \in Findings => Usable) /\ (r.seen.stubs => cut)
      BY <1>2, StageIs
    <3>2. e \notin raced /\ r.outcome \in Scores =>
             /\ r.seen.by = r.by /\ r.seen.edits = r.commit
             /\ r.commit = IF EvalOnly(e) THEN {} ELSE {r.by}
      BY <1>2, <2>3, StageIs DEF Own, Edits
    <3>3. EvalOnly(e)' = EvalOnly(e)
      BY <1>2 DEF EvalOnly
    <3>. HIDE DEF r
    <3>4. ResultOK(e, file[e])'
      BY <1>2, <1>3, <1>6, <2>3, <3>1, <3>2, <3>3 DEF ResultOK
    <3>. QED BY <1>2, <1>3, <2>1, <2>2, <2>3, <3>1, <3>4 DEF ExperimentOK
  <2>4. CASE e # w[1]
    <3>1. file'[e] = file[e]
      BY <1>3, <2>4
    <3>2. ResultOK(e, file[e])'
      BY <1>2, <1>6, <2>1, <3>1 DEF ExperimentOK, ResultOK, EvalOnly
    <3>. QED BY <1>2, <2>1, <2>2, <3>1, <3>2 DEF ExperimentOK
  <2>. QED BY <2>3, <2>4
<1>. QED BY <1>5, <1>7, <1>8, <1>9 DEF VerdictInv

\* A worker killed anywhere keeps the verdict invariant.
LEMMA KillKeeps == ASSUME VerdictInv, NEW w \in Work, Kill(w) PROVE VerdictInv'
<1>. USE DEF scheduled, history, Goto
<1>1. /\ WorkerTypeOK /\ CloneOK /\ \A u \in Work : WorkerOK(u)
      /\ \A e \in Experiments : ExperimentOK(e)
  BY DEF VerdictInv
<1>2. /\ Alive(w) /\ at' = [at EXCEPT ![w] = "dead"] /\ spent < MaxFaults /\ spent' = spent + 1
      /\ store' \in (IF at[w] = "seed" THEN {"bare", "partial"} ELSE {store})
      /\ cut' = (cut \/ at[w] \in {"clone", "seed"})
      /\ UNCHANGED <<deliveries, tree, mine, last, att, file, status, verdict, graded, raced>>
  BY DEF Kill
<1>3. at'[w] = "dead" /\ at[w] # "off" /\ \A u \in Work \ {w} : at'[u] = at[u]
  BY <1>1, <1>2, Stages DEF WorkerTypeOK
<1>4. (cut => cut') /\ (Usable => Usable')
  <2>1. cut => cut'
    BY <1>2
  <2>2. at[w] = "seed" => Usable'
    BY <1>2 DEF Usable
  <2>3. at[w] # "seed" => store' = store
    BY <1>2
  <2>. QED BY <2>1, <2>2, <2>3 DEF Usable
<1>5. WorkerTypeOK'
  <2>1. spent' \in 0..MaxFaults
    BY <1>1, <1>2, WorkerAssumption DEF WorkerTypeOK, WorkerConstants
  <2>2. cut' \in BOOLEAN
    BY <1>1, <1>2 DEF WorkerTypeOK
  <2>3. store' \in {"none", "cloning", "bare", "partial", "seeded"}
    BY <1>1, <1>2 DEF WorkerTypeOK
  <2>4. at' \in [Work -> {"off", "init", "clone", "seed", "create", "add", "execute",
                        "inspect", "commit", "evaluate", "grade", "remove", "write",
                        "done", "dead"}]
    BY <1>1, <1>2 DEF WorkerTypeOK
  <2>. QED BY <1>1, <1>2, <2>1, <2>2, <2>3, <2>4 DEF WorkerTypeOK
<1>6. CloneOK'
  <2>1. ASSUME NEW u \in Work, at'[u] \in {"clone", "seed"}
        PROVE  u # w /\ at'[u] = at[u] /\ u[1] = Baseline /\ store' = store
    <3>1. u # w /\ at'[u] = at[u] /\ u[1] = Baseline
      BY <1>1, <1>3, <2>1 DEF CloneOK
    <3>2. at[w] # "seed"
      BY <1>1, <1>2, <2>1, <3>1, OneBaseline, Stages DEF CloneOK
    <3>. QED BY <1>2, <3>1, <3>2
  <2>2. \A u \in Work : u[1] # Baseline /\ at'[u] # "off" => Usable'
    BY <1>1, <1>3, <1>4 DEF CloneOK
  <2>3. CASE at[w] = "seed"
    <3>1. cut' /\ store' \in {"bare", "partial"}
      BY <1>2, <2>3
    <3>. QED BY <1>1, <1>2, <1>4, <2>1, <2>2, <3>1 DEF CloneOK
  <2>4. CASE at[w] # "seed"
    <3>1. store' = store
      BY <1>2, <2>4
    <3>2. \A u \in Work : at[u] = "seed" => at'[u] = "seed"
      BY <1>3, <2>4
    <3>. QED BY <1>1, <1>2, <1>4, <2>1, <2>2, <3>1, <3>2 DEF CloneOK
  <2>. QED BY <2>3, <2>4
<1>7. ASSUME NEW u \in Work PROVE WorkerOK(u)'
  <2>1. CASE u = w
    <3>1. /\ ~Alive(u)' /\ at'[u] = "dead" /\ "dead" \notin Early /\ "dead" \notin Editing
          /\ "dead" \notin Building /\ "dead" \notin Leaving
      BY <1>3, <2>1 DEF Alive, Early, Editing, Building, Leaving
    <3>3. OwnTree(u)'
      BY <3>1 DEF OwnTree, Own
    <3>4. ~(u[2] > last[u[1]]) /\ (mine[u].seen.stubs => cut)
      BY <1>1, <1>3, <2>1 DEF WorkerOK
    <3>. QED BY <1>2, <1>4, <3>1, <3>3, <3>4 DEF WorkerOK
  <2>2. CASE u # w
    <3>1. at'[u] = at[u] /\ WorkerOK(u)
      BY <1>1, <1>3, <2>2
    <3>2. Alive(u)' = Alive(u) /\ OwnTree(u)' = OwnTree(u) /\ EvalOnly(u[1])' = EvalOnly(u[1])
      BY <1>2, <3>1 DEF OwnTree, Own, Alive, Edits, EvalOnly
    <3>. QED BY <1>2, <1>4, <3>1, <3>2 DEF WorkerOK
  <2>. QED BY <2>1, <2>2
<1>8. ASSUME NEW e \in Experiments PROVE ExperimentOK(e)'
  BY <1>1, <1>2, <1>4 DEF ExperimentOK, ResultOK, EvalOnly
<1>. QED BY <1>5, <1>6, <1>7, <1>8 DEF VerdictInv

\* Starting a worker, the first or one more, keeps the verdict invariant.
LEMMA StartKeeps == ASSUME VerdictInv, NEW e \in Experiments, Start(e) PROVE VerdictInv'
<1>. USE DEF Goto
<1>. DEFINE n == last[e] + 1
            w == <<e, n>>
<1>1. /\ WorkerTypeOK /\ CloneOK /\ \A u \in Work : WorkerOK(u)
      /\ \A d \in Experiments : ExperimentOK(d)
  BY DEF VerdictInv
<1>2. last[e] \in 0..MaxAttempts /\ last[e] < MaxAttempts /\ MaxAttempts \in Nat
  BY <1>1, WorkerAssumption DEF WorkerTypeOK, Start, WorkerConstants
<1>3. n \in Ordinals /\ n \in 0..MaxAttempts /\ n > last[e]
  BY <1>2 DEF Ordinals
<1>4. w \in Work /\ w[1] = e /\ w[2] = n
  BY <1>3 DEF Work
<1>. HIDE DEF w, n
<1>5. /\ at' = [at EXCEPT ![w] = "init"] /\ last' = [last EXCEPT ![e] = n]
      /\ att' = [att EXCEPT ![w] = "running"] /\ file[e] = NoResult
      /\ e = Baseline \/ status[Baseline] = "completed"
      /\ UNCHANGED <<deliveries, store, tree, mine, file, status, verdict, graded, cut, spent>>
  BY DEF Start, w, n
<1>6. /\ raced' \subseteq Experiments /\ raced \subseteq raced'
      /\ e \notin raced' => \A i \in Ordinals : ~Alive(<<e, i>>)
  BY <1>1 DEF Start, WorkerTypeOK
<1>7. \A i \in Ordinals : att[<<e, i>>] # "running"
  BY DEF Start
<1>8. \A u \in Work : u[1] = e /\ e \notin raced' => ~Alive(u)
  BY <1>6, WorkIs
<1>9. \A u \in Work : u[1] = e /\ e = Baseline => ~Alive(u)
  BY <1>1, <1>7, WorkIs DEF WorkerOK
<1>10. /\ at'[w] = "init" /\ att'[w] = "running" /\ last'[e] = n
       /\ \A u \in Work \ {w} : at'[u] = at[u] /\ att'[u] = att[u]
       /\ \A d \in Experiments \ {e} : last'[d] = last[d]
  BY <1>1, <1>4, <1>5 DEF WorkerTypeOK
<1>11. at[w] = "off" /\ mine[w] = Blank
  BY <1>1, <1>3, <1>4 DEF WorkerOK, Early
<1>12. Usable' = Usable
  BY <1>5 DEF Usable
<1>13. e # Baseline => Usable
  BY <1>1, <1>5 DEF CloneOK
<1>14. WorkerTypeOK'
  <2>1. /\ last' \in [Experiments -> 0..MaxAttempts]
        /\ att' \in [Work -> {"none", "running", "failed", "succeeded"}]
    BY <1>1, <1>3, <1>4, <1>5 DEF WorkerTypeOK
  <2>2. at' \in [Work -> {"off", "init", "clone", "seed", "create", "add", "execute",
                        "inspect", "commit", "evaluate", "grade", "remove", "write",
                        "done", "dead"}]
    BY <1>1, <1>4, <1>5 DEF WorkerTypeOK
  <2>. QED BY <1>1, <1>5, <1>6, <2>1, <2>2 DEF WorkerTypeOK
<1>15. CloneOK'
  <2>1. \A u \in Work : at'[u] \in {"clone", "seed"} => at'[u] = at[u]
    BY <1>10
  <2>2. \A u \in Work : at[u] = "seed" => at'[u] = "seed"
    BY <1>10, <1>11
  <2>3. \A u \in Work : u[1] # Baseline /\ at'[u] # "off" => Usable
    BY <1>1, <1>4, <1>10, <1>13 DEF CloneOK
  <2>. QED BY <1>1, <1>5, <1>12, <2>1, <2>2, <2>3 DEF CloneOK
<1>16. ASSUME NEW u \in Work PROVE WorkerOK(u)'
  <2>1. CASE u = w
    <3>1. /\ at'[u] = "init" /\ "init" \notin Editing
          /\ "init" \notin Building /\ "init" \notin Leaving
      BY <1>10, <2>1 DEF Editing, Building, Leaving
    <3>2. u[1] = e /\ u[2] = last'[e] /\ ~(u[2] > last'[e]) /\ att'[u] = "running" /\ file'[e] = NoResult
      BY <1>2, <1>3, <1>4, <1>5, <1>10, <2>1
    <3>3. OwnTree(u)'
      BY <3>1, <3>2 DEF OwnTree, Own
    <3>4. mine'[u] = Blank /\ ~mine'[u].seen.stubs
      BY <1>5, <1>11, <2>1, Stages
    <3>. QED BY <3>1, <3>2, <3>3, <3>4 DEF WorkerOK
  <2>2. CASE u # w
    <3>1. at'[u] = at[u] /\ att'[u] = att[u] /\ WorkerOK(u) /\ u[1] \in Experiments /\ u[2] \in 0..MaxAttempts
      BY <1>1, <1>10, <2>2, WorkIs
    <3>2. Alive(u)' = Alive(u) /\ EvalOnly(u[1])' = EvalOnly(u[1])
      BY <1>5, <3>1 DEF Alive, EvalOnly
    <3>3. Own(u, at[u], mine[u], tree[u[1]])' = Own(u, at[u], mine[u], tree[u[1]])
      BY <1>5, <3>1 DEF Own, Edits, EvalOnly
    <3>4. CASE u[1] # e
      <4>1. last'[u[1]] = last[u[1]]
        BY <1>10, <3>1, <3>4
      <4>2. u[1] \notin raced' => OwnTree(u)'
        BY <1>6, <3>1, <3>2, <3>3, <4>1 DEF OwnTree, WorkerOK
      <4>. QED BY <1>5, <1>12, <3>1, <3>2, <4>1, <4>2 DEF WorkerOK
    <3>5. CASE u[1] = e
      <4>1. u[2] > last'[u[1]] => u[2] > last[u[1]]
        BY <1>2, <1>3, <1>10, <3>1, <3>5
      <4>2. u[1] \notin raced' => OwnTree(u)'
        BY <1>6, <1>8, <3>1, <3>2, <3>3, <3>5 DEF OwnTree, WorkerOK
      <4>3. u[1] = Baseline => ~Alive(u)
        BY <1>9, <3>5
      <4>. QED BY <1>5, <1>12, <3>1, <3>2, <4>1, <4>2, <4>3 DEF WorkerOK
    <3>. QED BY <3>4, <3>5
  <2>. QED BY <2>1, <2>2
<1>17. ASSUME NEW d \in Experiments PROVE ExperimentOK(d)'
  BY <1>1, <1>5, <1>6, <1>12 DEF ExperimentOK, ResultOK, EvalOnly
<1>. QED BY <1>14, <1>15, <1>16, <1>17 DEF VerdictInv

\* Taking in a result keeps the verdict invariant (poll).
LEMMA IngestKeeps == ASSUME VerdictInv, NEW e \in Experiments, Ingest(e) PROVE VerdictInv'
<1>. USE DEF history
<1>. DEFINE w == <<e, last[e]>>
<1>1. /\ WorkerTypeOK /\ CloneOK /\ \A u \in Work : WorkerOK(u)
      /\ \A d \in Experiments : ExperimentOK(d)
  BY DEF VerdictInv
<1>2. w \in Work /\ w[1] = e
  <2>1. last[e] \in Ordinals
    BY <1>1, WorkerAssumption DEF WorkerTypeOK, Ingest, Ordinals, WorkerConstants
  <2>. QED BY <2>1 DEF Work
<1>. HIDE DEF w
<1>3. /\ file[e] # NoResult /\ file' = [file EXCEPT ![e] = NoResult]
      /\ UNCHANGED <<store, tree, at, mine, last, deliveries, graded, raced, cut, spent>>
  BY DEF Ingest
<1>4. PICK a \in {"failed", "succeeded"} : att' = [att EXCEPT ![w] = a]
  BY DEF Ingest, w
<1>5. \/ UNCHANGED <<status, verdict>>
      \/ status' = [status EXCEPT ![e] = "exhausted"] /\ verdict' = verdict
      \/ /\ file[e].outcome # "infra" /\ status' = [status EXCEPT ![e] = file[e].outcome]
         /\ verdict' = [verdict EXCEPT ![e] = file[e]]
  BY DEF Ingest
<1>6. file[e] \in Results /\ file[e].outcome \in Outcomes /\ file[e].outcome # "none" /\ NoResult \in Results
  <2>1. file[e] \in Results
    BY <1>1 DEF WorkerTypeOK
  <2>2. NoResult \in Results
    BY WorkerAssumption DEF NoResult, Results, NoTree, Trees, Outcomes, WorkerConstants
  <2>. QED BY <1>1, <1>3, <2>1, <2>2 DEF Results, ExperimentOK
<1>7. ResultOK(e, file[e]) /\ (file[e].outcome # "infra" => file[e].outcome \in Findings)
  BY <1>1, <1>6 DEF ExperimentOK, Outcomes, Findings, Scores
<1>8. Usable' = Usable /\ EvalOnly(e)' = EvalOnly(e)
  BY <1>3 DEF Usable, EvalOnly
<1>9. WorkerTypeOK'
  <2>1. att' \in [Work -> {"none", "running", "failed", "succeeded"}]
    BY <1>1, <1>4 DEF WorkerTypeOK
  <2>2. file' \in [Experiments -> Results] /\ verdict' \in [Experiments -> Results]
    BY <1>1, <1>3, <1>5, <1>6 DEF WorkerTypeOK
  <2>3. status' \in [Experiments -> {"open", "completed", "gate_rejected", "no_change", "exhausted"}]
    BY <1>1, <1>5, <1>7 DEF WorkerTypeOK, Findings, Scores
  <2>. QED BY <1>1, <1>3, <2>1, <2>2, <2>3 DEF WorkerTypeOK
<1>10. CloneOK'
  <2>1. status'[Baseline] = "completed" => Usable
    BY <1>1, <1>5, <1>7, WorkerAssumption DEF CloneOK, WorkerTypeOK, ResultOK, WorkerConstants
  <2>. QED BY <1>1, <1>3, <1>8, <2>1 DEF CloneOK
<1>11. ASSUME NEW u \in Work PROVE WorkerOK(u)'
  <2>1. WorkerOK(u) /\ u[1] \in Experiments
    BY <1>1, WorkIs
  <2>2. u[1] = Baseline /\ Alive(u) => u[1] # e /\ file'[u[1]] = file[u[1]] /\ att'[u] = att[u]
    <3>1. u[1] = Baseline /\ Alive(u) => u[1] # e
      BY <1>3, <2>1 DEF WorkerOK
    <3>2. u[1] # e => file'[u[1]] = file[u[1]] /\ att'[u] = att[u]
      BY <1>1, <1>2, <1>3, <1>4, <2>1 DEF WorkerTypeOK
    <3>. QED BY <3>1, <3>2
  <2>3. Alive(u)' = Alive(u) /\ EvalOnly(u[1])' = EvalOnly(u[1]) /\ OwnTree(u)' = OwnTree(u)
    BY <1>3 DEF Alive, OwnTree, Own, Edits, EvalOnly
  <2>. QED BY <1>3, <1>8, <2>1, <2>2, <2>3 DEF WorkerOK
<1>12. ASSUME NEW d \in Experiments PROVE ExperimentOK(d)'
  <2>1. ExperimentOK(d)
    BY <1>1
  <2>2. CASE d # e
    <3>1. file'[d] = file[d] /\ verdict'[d] = verdict[d]
      BY <1>1, <1>3, <1>5, <2>2 DEF WorkerTypeOK
    <3>. QED BY <1>3, <1>8, <2>1, <3>1 DEF ExperimentOK, ResultOK, EvalOnly
  <2>3. CASE d = e
    <3>1. file'[e] = NoResult /\ verdict'[e] \in {verdict[e], file[e]}
      BY <1>1, <1>3, <1>5 DEF WorkerTypeOK
    <3>2. ResultOK(e, verdict[e]) /\ ResultOK(e, file[e]) /\ (tree[e].stubs => cut)
      BY <2>1, <2>3 DEF ExperimentOK
    <3>3. ResultOK(e, verdict[e])'
      BY <1>3, <1>8, <3>1, <3>2 DEF ResultOK
    <3>4. ResultOK(e, file[e])'
      BY <1>3, <3>1, Stages DEF ResultOK, Findings, Scores
    <3>. QED BY <1>3, <2>3, <3>1, <3>2, <3>3, <3>4 DEF ExperimentOK
  <2>. QED BY <2>2, <2>3
<1>. QED BY <1>9, <1>10, <1>11, <1>12 DEF VerdictInv

\* The row of an attempt that is given up.
LEMMA GivenUp ==
    ASSUME VerdictInv,
           UNCHANGED <<deliveries, store, tree, at, mine, last, file, status, verdict, graded,
                       raced, cut>>,
           att' \in [Work -> {"none", "running", "failed", "succeeded"}], spent' \in 0..MaxFaults,
           \A u \in Work : u[1] = Baseline /\ Alive(u) => att'[u] = att[u]
    PROVE  VerdictInv'
<1>1. /\ WorkerTypeOK /\ CloneOK /\ \A u \in Work : WorkerOK(u)
      /\ \A d \in Experiments : ExperimentOK(d)
  BY DEF VerdictInv
<1>2. Usable' = Usable
  BY DEF Usable
<1>3. WorkerTypeOK' /\ CloneOK'
  BY <1>1, <1>2 DEF WorkerTypeOK, CloneOK
<1>4. ASSUME NEW u \in Work PROVE WorkerOK(u)'
  <2>1. Alive(u)' = Alive(u) /\ EvalOnly(u[1])' = EvalOnly(u[1]) /\ OwnTree(u)' = OwnTree(u)
    BY DEF Alive, OwnTree, Own, Edits, EvalOnly
  <2>. QED BY <1>1, <1>2, <2>1 DEF WorkerOK
<1>5. ASSUME NEW d \in Experiments PROVE ExperimentOK(d)'
  BY <1>1, <1>2 DEF ExperimentOK, ResultOK, EvalOnly
<1>. QED BY <1>3, <1>4, <1>5 DEF VerdictInv

\* Giving up a worker, lost or only presumed so, keeps the verdict invariant (poll).
LEMMA LostKeeps == ASSUME VerdictInv, NEW e \in Experiments, Lost(e) \/ Presume(e) PROVE VerdictInv'
<1>. USE DEF history
<1>1. /\ UNCHANGED <<deliveries, store, tree, at, mine, last, file, status, verdict, graded,
                     raced, cut>>
      /\ att' = [att EXCEPT ![<<e, last[e]>>] = "failed"]
  BY DEF Lost, Presume
<1>2. spent' \in 0..MaxFaults
  <2>1. spent \in 0..MaxFaults /\ MaxFaults \in Nat
    BY WorkerAssumption DEF VerdictInv, WorkerTypeOK, WorkerConstants
  <2>2. spent' = spent \/ (spent < MaxFaults /\ spent' = spent + 1)
    BY DEF Lost, Presume
  <2>. QED BY <2>1, <2>2
<1>3. att' \in [Work -> {"none", "running", "failed", "succeeded"}]
  BY <1>1 DEF VerdictInv, WorkerTypeOK
<1>4. e # Baseline \/ ~Alive(<<e, last[e]>>)
  BY Stages DEF Lost, Presume
<1>5. ASSUME NEW u \in Work, u[1] = Baseline, Alive(u) PROVE att'[u] = att[u]
  <2>1. u # <<e, last[e]>>
    BY <1>4, <1>5
  <2>. QED BY <1>1, <2>1 DEF VerdictInv, WorkerTypeOK
<1>. QED BY <1>1, <1>2, <1>3, <1>5, GivenUp

\* The verdict invariant holds initially.
LEMMA VerdictInit == WorkerInit => VerdictInv
<1>. SUFFICES ASSUME WorkerInit PROVE VerdictInv
  OBVIOUS
<1>1. NoTree \in Trees /\ NoResult \in Results /\ Blank \in WorkerMemory
  BY WorkerAssumption DEF NoResult, Results, NoTree, Trees, Outcomes, Blank, WorkerMemory, WorkerConstants
<1>2. WorkerTypeOK
  <2>1. mine \in [Work -> WorkerMemory] /\ at \in [Work -> {"off"}] /\ att \in [Work -> {"none"}]
    BY <1>1 DEF WorkerInit
  <2>2. /\ tree \in [Experiments -> Trees] /\ file \in [Experiments -> Results]
        /\ verdict \in [Experiments -> Results]
    BY <1>1 DEF WorkerInit
  <2>3. last \in [Experiments -> 0..MaxAttempts] /\ spent \in 0..MaxFaults
    BY WorkerAssumption DEF WorkerInit, WorkerConstants
  <2>4. /\ status \in [Experiments -> {"open"}] /\ graded \in [Experiments -> SUBSET Grades]
        /\ deliveries \subseteq Experiments \ {Baseline} /\ store = "none"
        /\ raced \subseteq Experiments /\ cut \in BOOLEAN
    BY DEF WorkerInit
  <2>. QED BY <2>1, <2>2, <2>3, <2>4 DEF WorkerTypeOK, WorkerMemory
<1>3. CloneOK
  BY WorkerAssumption DEF WorkerInit, CloneOK, WorkerConstants
<1>4. ASSUME NEW w \in Work PROVE WorkerOK(w)
  <2>1. at[w] = "off" /\ mine[w] = Blank /\ ~mine[w].seen.stubs
    BY Stages DEF WorkerInit
  <2>2. ~Alive(w) /\ OwnTree(w)
    BY <2>1 DEF Alive, OwnTree, Own, Leaving
  <2>. QED BY <2>1, <2>2 DEF WorkerOK, Building, Editing, Leaving
<1>5. ASSUME NEW e \in Experiments PROVE ExperimentOK(e)
  <2>1. tree[e] = NoTree /\ file[e] = NoResult /\ verdict[e] = NoResult
    BY DEF WorkerInit
  <2>. QED BY <2>1, Stages DEF ExperimentOK, ResultOK, Findings, Scores
<1>. QED BY <1>2, <1>3, <1>4, <1>5 DEF VerdictInv

\* Every step keeps the verdict invariant.
LEMMA VerdictStep == VerdictInv /\ [WorkerNext]_workerVars => VerdictInv'
<1>. SUFFICES ASSUME VerdictInv, [WorkerNext]_workerVars PROVE VerdictInv'
  OBVIOUS
<1>1. ASSUME NEW w \in Work, Step(w) \/ Kill(w) PROVE VerdictInv'
  BY <1>1, InitializeKeeps, CloneKeeps, DropKeeps, AddKeeps, ExecuteKeeps, InspectKeeps,
     CommitKeeps, EvaluateKeeps, GradeKeeps, RemoveKeeps, WriteKeeps, KillKeeps DEF Step
<1>2. ASSUME NEW e \in Experiments, Schedule(e) \/ Presume(e) PROVE VerdictInv'
  BY <1>2, StartKeeps, IngestKeeps, LostKeeps DEF Schedule
<1>3. CASE UNCHANGED workerVars
  <2>1. att' \in [Work -> {"none", "running", "failed", "succeeded"}] /\ spent' \in 0..MaxFaults
    BY <1>3 DEF workerVars, VerdictInv, WorkerTypeOK
  <2>. QED BY <1>3, <2>1, GivenUp DEF workerVars
<1>. QED BY <1>1, <1>2, <1>3 DEF WorkerNext

\* The verdict invariant says that every verdict is sound.
LEMMA VerdictImplied == VerdictInv => VerdictIsSound
<1>. SUFFICES ASSUME VerdictInv PROVE VerdictIsSound
  OBVIOUS
<1>1. WorkerTypeOK /\ \A e \in Experiments : ResultOK(e, verdict[e])
  BY DEF VerdictInv, ExperimentOK
<1>. QED BY <1>1 DEF VerdictIsSound, VerdictIsOfItsCommit, StubsNeedACut, ResultOK, Scores

\* What a verdict was measured on is what its commit holds, the edits of one
\* attempt in a worktree of its own, unless two workers of the experiment were
\* alive at once; and a verdict on a tree of LFS pointers takes a worker killed
\* while it made the clone.  For every number of experiments, deliveries,
\* attempts and faults (ExperimentRunner.run, GitWorktreeManager, poll).
THEOREM Verdicts == WorkerSpec => []VerdictIsSound
BY VerdictInit, VerdictStep, VerdictImplied, PTL DEF WorkerSpec
================================================================================
