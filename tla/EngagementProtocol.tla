-------------------------- MODULE EngagementProtocol --------------------------
(***************************************************************************)
(* What an engagement promises the Scientist, seen from outside the        *)
(* harness: a collaborator's seat runs for a while, its report is filed    *)
(* after the seat has stopped, and the Scientist is handed a filed report  *)
(* and none other.  Threads, sweeps, files and crashes do not appear;      *)
(* Engagements is shown to implement this.                                 *)
(***************************************************************************)
CONSTANT Engagement

VARIABLES phase,    \* [Engagement -> Phases]
          working   \* the engagements whose seat process runs

vars == <<phase, working>>

Phases == {"unopened", "open", "filed", "handed"}

Init == /\ phase = [e \in Engagement |-> "unopened"]
        /\ working = {}

\* The seat process is spawned, and registered by its manifest a moment later.
Start(e) == /\ phase[e] = "unopened"
            /\ working' = working \cup {e}
            /\ UNCHANGED phase

Register(e) == /\ phase[e] = "unopened"
               /\ phase' = [phase EXCEPT ![e] = "open"]
               /\ UNCHANGED working

\* It ends by itself or is killed.
Stop(e) == /\ working' = working \ {e}
           /\ UNCHANGED phase

\* Its report is filed once, when nothing runs that could add to it.
File(e) == /\ phase[e] = "open"
           /\ e \notin working
           /\ phase' = [phase EXCEPT ![e] = "filed"]
           /\ UNCHANGED working

\* The report is marked as handed to the Scientist.
Hand(e) == /\ phase[e] = "filed"
           /\ phase' = [phase EXCEPT ![e] = "handed"]
           /\ UNCHANGED working

Next == \E e \in Engagement :
           Start(e) \/ Register(e) \/ Stop(e) \/ File(e) \/ Hand(e)

Spec == Init /\ [][Next]_vars
================================================================================
