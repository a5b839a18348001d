---------------------------- MODULE MCOperations ----------------------------
(***************************************************************************)
(* Two specifications of how the service is watched, and the host dispatch *)
(* in one process, each on a small instance of its own: a behaviour of     *)
(* Spec is a behaviour of the one that `part' names.  v1, v2, ... are its  *)
(* variables, in the order its module declares them; what it does not need *)
(* is unused.                                                              *)
(***************************************************************************)
EXTENDS Naturals

CONSTANTS Unset

VARIABLES part, v1, v2, v3, v4, v5, v6, v7, v8, v9, v10, v11, v12

vars == <<part, v1, v2, v3, v4, v5, v6, v7, v8, v9, v10, v11, v12>>

Incidents == INSTANCE RuntimeIncidents WITH
    Scans <- {"cycle", "admin"}, Requests <- {"q1"}, Keys <- {"k1"},
    MaxMoves <- 1, op <- v1, call <- v2, stalled <- v3, incident <- v4,
    scan <- v5, request <- v6, action <- v7, bodies <- v8, moves <- v9

Observation == INSTANCE RuntimeObservation WITH
    Windows <- {"w1", "w2"}, Starters <- {"s1", "s2"},
    Captures <- {"cycle", "admin"}, Duration <- 1, Retention <- 1,
    MaxTime <- 3, MaxFaults <- 1, now <- v1, window <- v2, rows <- v3,
    starter <- v4, capture <- v5, slo <- v6, faults <- v7

Dispatch == INSTANCE HostDispatch WITH
    Procs <- {"p1"}, MaxRequests <- 2, ActiveLimit <- 2, MaxFaults <- 2,
    Null <- Unset, state <- v1, sent <- v2, owner <- v3, lapsed <- v4, due <- v5,
    age <- v6, copies <- v7, host <- v8, calling <- v9, at <- v10, held <- v11,
    faults <- v12

\* The variables a specification with fewer variables leaves over.
After9 == <<v10, v11, v12>>
After7 == <<v8, v9, After9>>
Unused9 == v10 = Unset /\ v11 = Unset /\ v12 = Unset
Unused7 == v8 = Unset /\ v9 = Unset /\ Unused9

Init ==
    \/ part = "incidents" /\ Incidents!Init /\ Unused9
    \/ part = "observation" /\ Observation!Init /\ Unused7
    \/ part = "dispatch" /\ Dispatch!Init

Next ==
    \/ part = "incidents" /\ Incidents!Next /\ UNCHANGED <<part, After9>>
    \/ part = "observation" /\ Observation!Next /\ UNCHANGED <<part, After7>>
    \/ part = "dispatch" /\ Dispatch!Next /\ UNCHANGED part

\* The fairness of the specification that is running: see GovernanceFairness
\* of RuntimeIncidents, ObservationFairness of RuntimeObservation and FairSpec of
\* HostDispatch.
Fairness ==
    /\ \A s \in {"cycle", "admin"} :
          WF_vars(part = "incidents" /\ Incidents!Evaluate(s) /\ UNCHANGED <<part, After9>>)
    /\ WF_vars(part = "observation" /\ Observation!Tick /\ UNCHANGED <<part, After7>>)
    /\ WF_vars(part = "observation" /\ Observation!CycleStep /\ UNCHANGED <<part, After7>>)
    /\ WF_vars(part = "dispatch" /\ Dispatch!EnsureWorker("p1") /\ UNCHANGED part)
    /\ WF_vars(part = "dispatch" /\ Dispatch!Deliver("p1") /\ UNCHANGED part)
    /\ \A d \in 1..2 :
          /\ WF_vars(part = "dispatch" /\ Dispatch!ComeDue(d) /\ UNCHANGED part)
          /\ WF_vars(part = "dispatch" /\ Dispatch!Pass(d) /\ UNCHANGED part)
          /\ WF_vars(part = "dispatch" /\ Dispatch!Lapse(d) /\ UNCHANGED part)

Spec == Init /\ [][Next]_vars /\ Fairness

-----------------------------------------------------------------------------
\* evaluate_incidents: an unknown outcome comes before an administrator, also
\* after a restart (RuntimeIncidents).
UnknownIsReported ==
    (part = "incidents" /\ Incidents!Unknown)
        ~> (part = "incidents" /\ Incidents!Reported)

\* capture_observation_snapshots: a window that is started ends
\* (RuntimeObservation).
WindowsEnd ==
    \A w \in {"w1", "w2"} :
        (part = "observation" /\ Observation!Running(w))
            ~> (part = "observation" /\ Observation!Completed(w))

\* ensure_host_dispatch_worker: what a living worker finds queued is settled
\* (HostDispatch).
QueueIsServed ==
    \A d \in 1..2 :
        (part = "dispatch" /\ Dispatch!Waits("p1", d))
            ~> (part = "dispatch" /\ Dispatch!Served("p1", d))
=============================================================================
