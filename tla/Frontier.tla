------------------------------ MODULE Frontier ------------------------------
(***************************************************************************)
(* The scheduler without a Supervisor (scheduler/frontier.py and the       *)
(* frontier baseline of scheduler/loop.py): each step computes which       *)
(* measured worlds win a place on the frontier, draws the free seats from  *)
(* it, and opens a study of the drawn world on a fresh Scientist episode   *)
(* or on one reseeded from the world's last study.  A study that delivers  *)
(* grows the tree by a world with an episode of its own.                   *)
(*                                                                         *)
(* What happens inside a study is LeaseLifecycle; here it is open, waits   *)
(* for its verdict or is finished.                                         *)
(***************************************************************************)
EXTENDS Integers, FiniteSets

CONSTANTS
  Root,            \* the seed world
  Worlds,          \* the other worlds a study may deliver
  Axes,            \* FrontierConfig.axes
  LowerIsBetter,   \* the axes where less is better (_axis_direction)
  Values,          \* what a measured axis may read
  Policies,        \* subset of {"gepa", "topk"}: the policies of the run
  TopK,            \* k of the top-k policy
  NodeId(_),       \* the ids, in whose order the top-k sort breaks ties
  Inflights,       \* what max_proposer_inflight may be
  RootScientists,  \* root_fresh_scientists
  MaxEpisodes      \* bound: episodes ever created

ASSUME WorldsAreNew == Root \notin Worlds
ASSUME ValuesAreNumbers == Values \subseteq Int
ASSUME SomeScientists == RootScientists \in Nat \ {0} /\ MaxEpisodes \in Nat
ASSUME RootsFit == RootScientists <= MaxEpisodes
ASSUME IdsDiffer ==
  \A m, n \in {Root} \cup Worlds :
    NodeId(m) \in Int /\ (NodeId(m) = NodeId(n) => m = n)
ASSUME SomeSeats == Inflights \subseteq Nat /\ TopK \in Nat \ {0}

VARIABLES
  policy,    \* frontier_policy of the configuration
  seats,     \* max_proposer_inflight of the configuration
  nodes,     \* the active nodes
  metrics,   \* what was measured of each: a function of the axes it has
  rows,      \* frontier_axes
  made,      \* episodes created so far: 1..made, in order of last_active_at
  node,      \* the world an episode studies
  inherited, \* inherited_from_episode_id, 0 for none
  lease,     \* the allocation of an episode
  front,     \* the frontier of the running step
  left,      \* seats the running step may still open
  pc,        \* where the step is
  cur        \* the episode it is about to allocate, or whose verdict it reads

treeVars == <<nodes, metrics, rows>>
epiVars == <<made, node, inherited>>
stepVars == <<front, left, pc, cur>>
config == <<policy, seats>>
vars == <<config, treeVars, epiVars, lease, stepVars>>

AllWorlds == {Root} \cup Worlds
Episodes == 1..MaxEpisodes
Leases == {"none", "researching", "awaiting", "graduated", "finished"}
Open(e) == lease[e] \notin {"none", "finished"}

---------------------------------------------------------------------------
\* A world's readings: some axes, each with a finite value.
Measurements == UNION {[A -> Values] : A \in SUBSET Axes}
Measured(n, a) == a \in DOMAIN metrics[n]

Better(a, v, w) == IF a \in LowerIsBetter THEN v < w ELSE v > w

\* GepaPolicy.compute: the best of each axis, ties included ...
Winners(a) ==
  {n \in nodes : /\ Measured(n, a)
                 /\ \A m \in nodes :
                      Measured(m, a) => ~Better(a, metrics[m][a], metrics[n][a])}
Union == UNION {Winners(a) : a \in Axes}

\* ... less those another of them dominates on every axis they have.
Dominates(u, v) ==
  /\ DOMAIN metrics[v] \subseteq DOMAIN metrics[u]
  /\ \A a \in DOMAIN metrics[v] : ~Better(a, metrics[v][a], metrics[u][a])
  /\ \E a \in DOMAIN metrics[v] : Better(a, metrics[u][a], metrics[v][a])

Gepa == [a \in Axes |-> {n \in Winners(a) : ~\E u \in Union : Dominates(u, n)}]

\* TopKPolicy.compute: sorted by value, then by node id; reversed as a whole
\* where more is better.
Before(a, m, n) ==
  \/ Better(a, metrics[m][a], metrics[n][a])
  \/ /\ metrics[m][a] = metrics[n][a]
     /\ IF a \in LowerIsBetter THEN NodeId(m) < NodeId(n) ELSE NodeId(m) > NodeId(n)
TopOf(a) ==
  {n \in nodes : /\ Measured(n, a)
                 /\ Cardinality({m \in nodes : Measured(m, a) /\ Before(a, m, n)}) < TopK}

ByAxis == IF policy = "gepa" THEN Gepa ELSE [a \in Axes |-> TopOf(a)]
OnFrontier == UNION {ByAxis[a] : a \in Axes}
\* compute_frontier: the roots while nothing was measured.
ComputeFrontier == IF OnFrontier = {} THEN {Root} ELSE OnFrontier

\* The rows of frontier_axes; the bootstrap frontier has none (the branch that
\* would write them asks for an empty frontier, which is never returned).
Rows == {x \in Axes \X nodes : x[2] \in ByAxis[x[1]]}

---------------------------------------------------------------------------
TypeOK ==
  /\ policy \in Policies /\ seats \in Inflights
  /\ nodes \subseteq AllWorlds /\ Root \in nodes
  /\ metrics \in [AllWorlds -> Measurements]
  /\ made \in Episodes
  /\ node \in [Episodes -> AllWorlds]
  /\ inherited \in [Episodes -> 0..MaxEpisodes]
  /\ lease \in [Episodes -> Leases]
  /\ front \subseteq AllWorlds
  /\ left \in Nat
  /\ pc \in {"idle", "lease", "allocate", "resolve", "wedged"}
  /\ cur \in Episodes

\* _ensure_root_node and the baseline measurement.
Init ==
  /\ policy \in Policies /\ seats \in Inflights
  /\ nodes = {Root}
  /\ \E m \in Measurements :
       metrics = [n \in AllWorlds |-> IF n = Root THEN m ELSE <<>>]
  /\ rows = {}
  /\ made = RootScientists
  /\ node = [e \in Episodes |-> Root]
  /\ inherited = [e \in Episodes |-> 0]
  /\ lease = [e \in Episodes |-> "none"]
  /\ front = {} /\ left = 0 /\ pc = "idle" /\ cur = 1

Researching == {e \in Episodes : lease[e] = "researching"}
\* _proposer_capacity: only a seat that works holds one.
Capacity == seats - Cardinality(Researching)

\* _compute_frontier, _proposer_capacity and the draw's length.
Compute ==
  /\ pc = "idle" /\ Capacity > 0
  /\ front' = ComputeFrontier
  /\ left' = Capacity
  /\ pc' = "lease"
  /\ UNCHANGED <<config, treeVars, epiVars, lease, cur>>

EpisodesOf(n) == {e \in 1..made : node[e] = n}
Idle(n) == {e \in EpisodesOf(n) : lease[e] = "none"}
\* The first row of a query ORDER BY last_active_at DESC.
Latest(S) == CHOOSE e \in S : \A f \in S : f <= e

\* The draw is weighted and with replacement: any world of the frontier may
\* come next, also the one just drawn.
Drawn(n) == pc = "lease" /\ left > 0 /\ n \in front

PickIdle(n) ==
  /\ Drawn(n)
  /\ Idle(n) # {}
  /\ cur' = Latest(Idle(n))
  /\ pc' = "allocate"
  /\ UNCHANGED <<config, treeVars, epiVars, lease, front, left>>

\* Any finished study of the world will do.
Reseedable_Any(n) == \E e \in EpisodesOf(n) : lease[e] = "finished"
\* A last study that was ever opened will do.
Reseedable_Begun(n) ==
  EpisodesOf(n) # {} /\ lease[Latest(EpisodesOf(n))] # "none"
\* _reseed_episode: only from a last study that is finished.
Reseedable(n) == EpisodesOf(n) # {} /\ lease[Latest(EpisodesOf(n))] = "finished"

Reseed(n) ==
  /\ Drawn(n)
  /\ Idle(n) = {} /\ Reseedable(n) /\ made < MaxEpisodes
  /\ made' = made + 1
  /\ node' = [node EXCEPT ![made + 1] = n]
  /\ inherited' = [inherited EXCEPT ![made + 1] = Latest(EpisodesOf(n))]
  /\ cur' = made + 1
  /\ pc' = "allocate"
  /\ UNCHANGED <<config, treeVars, lease, front, left>>

Skip(n) ==
  /\ Drawn(n)
  /\ Idle(n) = {} /\ ~Reseedable(n)
  /\ left' = left - 1
  /\ UNCHANGED <<config, treeVars, epiVars, lease, front, pc, cur>>

\* allocate_proposer and _launch_lease.
Allocate ==
  /\ pc = "allocate"
  /\ lease' = [lease EXCEPT ![cur] = "researching"]
  /\ left' = left - 1
  /\ pc' = "lease"
  /\ UNCHANGED <<config, treeVars, epiVars, front, cur>>

DoneAllocating ==
  /\ pc = "lease" /\ left = 0
  /\ pc' = "idle" /\ front' = {}
  /\ UNCHANGED <<config, treeVars, epiVars, lease, left, cur>>

\* The study's conclusion is read: it ends, or its delivery goes to be judged.
Conclude(e) ==
  /\ pc = "idle" /\ lease[e] = "researching"
  /\ lease' = [lease EXCEPT ![e] = "finished"]
  /\ UNCHANGED <<config, treeVars, epiVars, stepVars>>

Deliver(e) ==
  /\ pc = "idle" /\ lease[e] = "researching"
  /\ lease' = [lease EXCEPT ![e] = "awaiting"]
  /\ UNCHANGED <<config, treeVars, epiVars, stepVars>>

\* A verdict that sends the author back, or ends the study.
WriteBack(e, verdict) ==
  /\ pc = "idle" /\ lease[e] = "awaiting"
  /\ lease' = [lease EXCEPT ![e] =
                 IF verdict = "reopened" THEN "researching" ELSE "finished"]
  /\ rows' = Rows
  /\ UNCHANGED <<config, nodes, metrics, epiVars, stepVars>>

\* The rows are computed before the child is there.
Graduate_StaleRows(e, w, m) ==
  /\ pc = "idle" /\ lease[e] = "awaiting"
  /\ w \in Worlds \ nodes /\ made < MaxEpisodes
  /\ nodes' = nodes \cup {w}
  /\ metrics' = [metrics EXCEPT ![w] = m]
  /\ rows' = Rows
  /\ made' = made + 1
  /\ node' = [node EXCEPT ![made + 1] = w]
  /\ inherited' = [inherited EXCEPT ![made + 1] = e]
  /\ lease' = [lease EXCEPT ![e] = "graduated"]
  /\ pc' = "resolve" /\ cur' = e
  /\ UNCHANGED <<config, front, left>>
\* ingest_experiment_result of a delivery that passed: the child world, its
\* episode and the frontier rows in one transaction ...
Graduate(e, w, m) ==
  /\ pc = "idle" /\ lease[e] = "awaiting"
  /\ w \in Worlds \ nodes /\ made < MaxEpisodes
  /\ UNCHANGED <<config, front, left>>
  /\ nodes' = nodes \cup {w}
  /\ metrics' = [metrics EXCEPT ![w] = m]
  /\ rows' = Rows'
  /\ made' = made + 1
  /\ node' = [node EXCEPT ![made + 1] = w]
  /\ inherited' = [inherited EXCEPT ![made + 1] = e]
  /\ lease' = [lease EXCEPT ![e] = "graduated"]
  /\ pc' = "resolve" /\ cur' = e

\* ... and the conclusion of the lease in the next.
Resolve ==
  /\ pc = "resolve"
  /\ lease' = [lease EXCEPT ![cur] = "finished"]
  /\ pc' = "idle"
  /\ UNCHANGED <<config, treeVars, epiVars, front, left, cur>>

\* The scheduler stops and starts again: a frontier, a draw and its counters
\* are gone, the episode just created stays.  Between a verdict and its
\* resolution the next step raises before it allocates (LeaseLifecycle,
\* IngestRaises).
Restart ==
  /\ pc \in {"lease", "allocate", "resolve"}
  /\ pc' = IF pc = "resolve" THEN "wedged" ELSE "idle"
  /\ front' = {} /\ left' = 0
  /\ UNCHANGED <<config, treeVars, epiVars, lease, cur>>

Next ==
  \/ Compute \/ Allocate \/ DoneAllocating \/ Resolve \/ Restart
  \/ \E n \in AllWorlds : PickIdle(n) \/ Reseed(n) \/ Skip(n)
  \/ \E e \in Episodes : \/ Conclude(e) \/ Deliver(e)
                         \/ WriteBack(e, "reopened") \/ WriteBack(e, "ended")
  \/ \E e \in Episodes, w \in Worlds, m \in Measurements : Graduate(e, w, m)

Spec == Init /\ [][Next]_vars

---------------------------------------------------------------------------
\* A world is studied by one Scientist at a time, whatever the capacity, the
\* draws with replacement and the restarts between an episode's creation and
\* its allocation (only a root configured with several fresh scientists
\* starts with several).
OneStudyPerNode ==
  \A e, f \in Episodes :
    Open(e) /\ Open(f) /\ node[e] = node[f] /\ e # f
      => node[e] = Root /\ RootScientists > 1

\* A study starts only from a cognition that is frozen: the episode it
\* inherits from has concluded and will not be written again.
InheritsFrozen ==
  \A e \in Episodes :
    Open(e) /\ inherited[e] # 0 => lease[inherited[e]] = "finished"

\* What the frontier is for (GepaPolicy's docstring): it holds exactly the
\* best worlds of some axis that no active world dominates, and no measured
\* axis is left without one of its best.
FrontierIsNonDominated ==
  pc = "lease" /\ policy = "gepa" =>
    LET NoWorse(u, v, a) == ~Better(a, metrics[v][a], metrics[u][a])
        Has(a) == {n \in nodes : Measured(n, a)}
        Best(v, a) == v \in Has(a) /\ \A u \in Has(a) : NoWorse(v, u, a)
        Beaten(v) == \E u \in nodes :
                       /\ \A a \in DOMAIN metrics[v] : u \in Has(a) /\ NoWorse(u, v, a)
                       /\ \E a \in DOMAIN metrics[v] : ~NoWorse(v, u, a)
        measured == {a \in Axes : Has(a) # {}}
    IN /\ measured # {} =>
            front = {n \in nodes : (\E a \in measured : Best(n, a)) /\ ~Beaten(n)}
       /\ \A a \in measured : \E n \in front : Best(n, a)

\* What reporting and the other readers of frontier_axes see is the frontier of
\* the tree as it is, from the first verdict on.
RowsAreTheFrontier == rows # {} => rows = Rows

\* The frontier drawn from and the frontier reported are both right.
FrontierIsRight == TypeOK /\ FrontierIsNonDominated /\ RowsAreTheFrontier

============================================================================
