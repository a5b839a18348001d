------------------------- MODULE RuntimeObservation -------------------------
(***************************************************************************)
(* Observation windows of runtime_governance.py.  An operator starts a     *)
(* named window; the governance worker of mcp/central.py takes snapshots   *)
(* of the service until the window is over, and so does the operator's     *)
(* command, at the same time.  Every SQL statement group in a `with` block *)
(* is one step; the SELECT of start_observation and its INSERT are two,    *)
(* for a SELECT opens no transaction.                                      *)
(***************************************************************************)
EXTENDS Naturals, FiniteSets

CONSTANTS
    Windows,      \* observation ids
    Starters,     \* callers of start_observation, all with one name
    Captures,     \* callers of capture_observation_snapshots: "cycle", "admin"
    Duration,     \* of a window, in ticks of the clock
    Retention,    \* age at which a snapshot is dropped
    MaxTime,      \* bound on the clock
    MaxFaults     \* bound on failing governance cycles

VARIABLES
    now,          \* the clock
    window,       \* runtime_observations
    rows,         \* runtime_observation_snapshots: <<window, observed at>>
    starter,      \* starter[s]: what it read
    capture,      \* capture[c]: its clock reading, the rows left to do, as read
    slo,          \* the metrics of the last rollup
    faults        \* cycles that failed

vars == <<now, window, rows, starter, capture, slo, faults>>

Absent == [state |-> "absent", ends |-> 0, last |-> 0]
Resting == [pc |-> "idle", at |-> 0, left |-> {}, last |-> [w \in Windows |-> 0]]

Init ==
    /\ now = 1
    /\ window = [w \in Windows |-> Absent]
    /\ rows = {}
    /\ starter = [s \in Starters |-> "idle"]
    /\ capture = [c \in Captures |-> Resting]
    /\ slo = {}
    /\ faults = 0

Tick ==
    /\ now < MaxTime
    /\ now' = now + 1
    /\ UNCHANGED <<window, rows, starter, capture, slo, faults>>

-----------------------------------------------------------------------------
(* The metrics.                                                            *)

\* _slo_metric: without samples nothing is said, whatever the target.
SloStatus(samples, value, target, higher) ==
    IF samples < 1 THEN "insufficient_data"
    ELSE IF (higher /\ value >= target) \/ (~higher /\ value <= target)
         THEN "meeting" ELSE "breached"

\* refresh_slo_rollups: the rate of succeeded traces (per cent), the share of
\* verified commits, and the two counts that ought to be zero, for which the
\* count is the number of samples as well.
Metrics(succeeded, traces, verified, commits, unknown) ==
    {<<"trace_success_rate", SloStatus(traces, 100 * succeeded, 99 * traces, TRUE)>>,
     <<"write_verify_coverage", SloStatus(commits, verified, commits, TRUE)>>,
     <<"write_outcome_unknown", SloStatus(unknown, unknown, 0, FALSE)>>}

-----------------------------------------------------------------------------
(* start_observation.                                                      *)

Active == {w \in Windows : window[w].state = "active"}

LookForActive(s) ==
    /\ starter[s] = "idle"
    /\ starter' = [starter EXCEPT ![s] = IF Active = {} THEN "insert" ELSE "reused"]
    /\ UNCHANGED <<now, window, rows, capture, slo, faults>>

InsertWindow(s) ==
    /\ starter[s] = "insert"
    /\ now + Duration <= MaxTime
    /\ \E w \in Windows :
         /\ window[w].state = "absent"
         /\ window' = [window EXCEPT ![w] = [state |-> "active", ends |-> now + Duration,
                                             last |-> 0]]
    /\ starter' = [starter EXCEPT ![s] = "started"]
    /\ UNCHANGED <<now, rows, capture, slo, faults>>

-----------------------------------------------------------------------------
(* capture_observation_snapshots and the worker around it.                 *)

\* run_cycle: recovery of plans, evaluation of incidents and the rollup come
\* first; any of them may raise, and the worker goes on to its next cycle.
CycleFails(c) ==
    /\ c = "cycle"
    /\ capture[c].pc = "idle"
    /\ Active # {}
    /\ faults < MaxFaults
    /\ faults' = faults + 1
    /\ UNCHANGED <<now, window, rows, starter, capture, slo>>

\* The clock is read once, before the active rows are.
StartCapture(c) ==
    /\ capture[c].pc = "idle"
    /\ Active # {}
    /\ capture' = [capture EXCEPT ![c] =
                     [pc |-> "rows", at |-> now, left |-> Active,
                      last |-> [w \in Windows |-> window[w].last]]]
    /\ \E unknown \in 0..1 : slo' = Metrics(1, 1 + unknown, 1, 1 + unknown, unknown)
    /\ UNCHANGED <<now, window, rows, starter, faults>>

\* A mutant: the end of the window is not a reason to take a snapshot.
DueOnlyByInterval(c, w, force) ==
    force \/ capture[c].last[w] = 0

\* A row is due when its window is over, it had no snapshot when the rows were
\* read, or its last one is old enough (one tick); the operator may force it.
IsDue(c, w, force) ==
    \/ force
    \/ capture[c].at >= window[w].ends
    \/ capture[c].last[w] = 0
    \/ capture[c].at >= capture[c].last[w] + 1

\* A mutant: the second snapshot completes the window.
CompleteAtSecond(c, w) == window[w].last > 0

Completes(c, w) == capture[c].at >= window[w].ends

\* The snapshot is inserted in any case; the window is updated when it is
\* still active.
TakeSnapshot(c, w, force) ==
    /\ capture[c].pc = "rows"
    /\ w \in capture[c].left
    /\ capture' = [capture EXCEPT ![c].left = @ \ {w}]
    /\ IF IsDue(c, w, force)
       THEN /\ rows' = rows \cup {<<w, capture[c].at>>}
            /\ window' = IF window[w].state # "active" THEN window
                         ELSE [window EXCEPT ![w] =
                                 [@ EXCEPT !.last = capture[c].at,
                                           !.state = IF Completes(c, w) THEN "completed"
                                                     ELSE "active"]]
       ELSE UNCHANGED <<rows, window>>
    /\ UNCHANGED <<now, starter, slo, faults>>

\* prune drops snapshots that are old; the windows stay.
Prune(c) ==
    /\ capture[c].pc = "rows"
    /\ capture[c].left = {}
    /\ rows' = {x \in rows : x[2] + Retention >= now}
    /\ capture' = [capture EXCEPT ![c] = Resting]
    /\ UNCHANGED <<now, window, starter, slo, faults>>

Next ==
    \/ Tick
    \/ \E s \in Starters : LookForActive(s) \/ InsertWindow(s)
    \/ \E c \in Captures :
         \/ CycleFails(c) \/ StartCapture(c) \/ Prune(c)
         \/ \E w \in Windows, force \in BOOLEAN :
              (force => c = "admin") /\ TakeSnapshot(c, w, force)

\* The clock runs and the worker thread runs its cycles; a cycle that fails
\* is followed by another.
CycleStep ==
    \/ StartCapture("cycle")
    \/ Prune("cycle")
    \/ \E w \in Windows : TakeSnapshot("cycle", w, FALSE)
ObservationFairness == WF_vars(Tick) /\ WF_vars(CycleStep)

Spec == Init /\ [][Next]_vars /\ ObservationFairness

-----------------------------------------------------------------------------
TypeOK ==
    /\ now \in 1..MaxTime
    /\ \A w \in Windows : window[w].state \in {"absent", "active", "completed"}
    /\ rows \subseteq Windows \X (1..MaxTime)
    /\ \A c \in Captures : capture[c].left \subseteq Windows

\* A window that is completed was seen to its end: its last snapshot was
\* taken at the end or after it, whoever else was taking one with an earlier
\* reading of the clock (capture_observation_snapshots).
CompletedIsCovered ==
    \A w \in Windows : window[w].state = "completed" => window[w].last >= window[w].ends

\* Every window that is started is completed (the worker of mcp/central.py
\* goes on after a failed cycle), also when two were started at once.
Running(w) == window[w].state = "active"
Completed(w) == window[w].state = "completed"
WindowsEnd == \A w \in Windows : Running(w) ~> Completed(w)
=============================================================================
