------------------------------ MODULE SeatProtocol ------------------------------
(***************************************************************************)
(* What a seat's worker promises the lease it serves, whatever happens to  *)
(* its processes: the laboratory only gains work, a seat concludes in its  *)
(* own name only after it has said in this life what it knows, and what it *)
(* delivers is all of the lease's work and never the bought world itself.  *)
(* Model calls, tools, sessions, ledgers and deaths do not appear;         *)
(* SeatEpisode is shown to implement this.                                 *)
(***************************************************************************)
CONSTANT Edit

VARIABLES work,   \* the edits in the laboratory
          said,   \* whether the running attempt has stated its model
          exit    \* the conclusion on file

vars == <<work, said, exit>>

NoExit == [kind |-> "none", world |-> {}]

Init == work = {} /\ said = FALSE /\ exit = NoExit

\* An attempt begins with nothing said: the first, a retry or a reopened seat.
Begin == /\ said' = FALSE
         /\ exit' = NoExit
         /\ UNCHANGED work

Toil(e) == /\ exit = NoExit
           /\ work' = work \union {e}
           /\ UNCHANGED <<said, exit>>

Say == /\ exit = NoExit
       /\ said' = TRUE
       /\ UNCHANGED <<work, exit>>

Deliver == /\ exit = NoExit /\ said /\ work # {}
           /\ exit' = [kind |-> "deliver", world |-> work]
           /\ UNCHANGED <<work, said>>

Abstain == /\ exit = NoExit /\ said
           /\ exit' = [kind |-> "abstain", world |-> {}]
           /\ UNCHANGED <<work, said>>

\* The harness concludes: a spent budget, or a failure that is retried.
Stop == /\ exit = NoExit
        /\ \E k \in {"cut_off", "failed"} : exit' = [kind |-> k, world |-> {}]
        /\ UNCHANGED <<work, said>>

Next == Begin \/ Say \/ Deliver \/ Abstain \/ Stop \/ \E e \in Edit : Toil(e)

Spec == Init /\ [][Next]_vars
================================================================================
