-------------------------- MODULE RuntimeIncidents --------------------------
(***************************************************************************)
(* The incidents of the reliability ledger (runtime_governance.py) about   *)
(* one write operation and its task: a call reports them, the maintenance  *)
(* cycle and administrators detect and resolve them, administrators move   *)
(* them; and the recovery actions that administrators start under an       *)
(* idempotency key (admin/application.py).                                 *)
(*                                                                         *)
(* upsert_incident is one immediate transaction; the evaluation, and the   *)
(* start of a recovery action, are several.                                *)
(***************************************************************************)
EXTENDS Naturals, Sequences

CONSTANTS
    Scans,      \* evaluators: the maintenance cycle, an administrator
    Requests,   \* requests of administrators for a recovery action
    Keys,       \* their idempotency keys
    MaxMoves    \* dispositions, stalls of the task and restarts

VARIABLES
    op,         \* the operation: "running", "unknown" or "ended"
    call,       \* the call that reports its outcome
    stalled,    \* the task has not moved since the cutoff
    incident,   \* incident[rule]: rows of runtime_incidents, oldest first
    scan,       \* evaluate_incidents
    request,    \* runtime_recovery_action
    action,     \* rows of runtime_recovery_actions
    bodies,     \* how often the body of an action ran, per key
    moves

vars == <<op, call, stalled, incident, scan, request, action, bodies, moves>>

Rules == {"unknown", "stalled"}
Active == {"open", "acknowledged", "investigating"}
INCIDENT_STATES == Active \cup {"resolved", "suppressed"}
NoScan == [pc |-> "idle", observed |-> {}, listed |-> {}]

Init ==
    /\ op = "running"
    /\ call = "idle"
    /\ stalled = FALSE
    /\ incident = [r \in Rules |-> << >>]
    /\ scan = [s \in Scans |-> NoScan]
    /\ request = [q \in Requests |-> [pc |-> "idle", key |-> CHOOSE k \in Keys : TRUE]]
    /\ action = [k \in Keys |-> "none"]
    /\ bodies = [k \in Keys |-> 0]
    /\ moves = 0

-----------------------------------------------------------------------------
(* Incidents.                                                              *)

Range(s) == {s[i] : i \in DOMAIN s}
HasActive(r) == \E i \in DOMAIN incident[r] : incident[r][i] \in Active

\* A mutant: what was settled by hand is reported again.
SettledNever(r) == FALSE

\* One write attempt is one incident, also after it was settled by hand.
Settled(r) == r = "unknown" /\ \E i \in DOMAIN incident[r] : incident[r][i] \notin Active
Upserted(r) ==
    IF Settled(r) \/ HasActive(r) THEN incident
    ELSE [incident EXCEPT ![r] = Append(@, "open")]

\* The engine records the outcome; observe_operation reports an unknown one.
OperationEnds(o) ==
    /\ op = "running"
    /\ op' = o
    /\ call' = IF o = "unknown" THEN "report" ELSE "idle"
    /\ UNCHANGED <<stalled, incident, scan, request, action, bodies, moves>>
Report ==
    /\ call = "report"
    /\ incident' = Upserted("unknown")
    /\ call' = "idle"
    /\ UNCHANGED <<op, stalled, scan, request, action, bodies, moves>>

\* A mutant: the evaluation leaves unknown outcomes to the call.
ConditionOfTasks(r) == r = "stalled" /\ stalled

Condition(r) == IF r = "unknown" THEN op = "unknown" ELSE stalled

\* evaluate_incidents: every condition that holds is upserted in turn, ...
Detect(s, r) ==
    /\ scan[s].pc \in {"idle", "detect"}
    /\ (r = "unknown") = (scan[s].pc = "idle")
    /\ incident' = IF Condition(r) THEN Upserted(r) ELSE incident
    /\ scan' = [scan EXCEPT ![s] =
                  [@ EXCEPT !.pc = IF r = "unknown" THEN "detect" ELSE "list",
                            !.observed = IF Condition(r) THEN @ \cup {r} ELSE @]]
    /\ UNCHANGED <<op, call, stalled, request, action, bodies, moves>>

\* ... the active incidents of the rules that clear by themselves are listed
List(s) ==
    /\ scan[s].pc = "list"
    /\ scan' = [scan EXCEPT ![s] =
                  [@ EXCEPT !.pc = "resolve",
                            !.listed = {i \in DOMAIN incident["stalled"] :
                                          incident["stalled"][i] \in Active}]]
    /\ UNCHANGED <<op, call, stalled, incident, request, action, bodies, moves>>

\* ... and those not observed in this evaluation are resolved, whatever has
\* become of them since they were listed.
Resolve(s) ==
    /\ scan[s].pc = "resolve"
    /\ incident' = [incident EXCEPT !["stalled"] =
                      [i \in DOMAIN @ |->
                         IF i \in scan[s].listed /\ "stalled" \notin scan[s].observed
                         THEN "resolved" ELSE @[i]]]
    /\ scan' = [scan EXCEPT ![s] = NoScan]
    /\ UNCHANGED <<op, call, stalled, request, action, bodies, moves>>

\* transition_incident: an incident that exists takes any state.
Transitioned(r, i, st) ==
    /\ i \in DOMAIN incident[r]
    /\ incident' = [incident EXCEPT ![r][i] = st]

\* An administrator sets it.
Transition(r, i, st) ==
    /\ moves < MaxMoves
    /\ Transitioned(r, i, st)
    /\ moves' = moves + 1
    /\ UNCHANGED <<op, call, stalled, scan, request, action, bodies>>

\* The task stops moving, and moves again.
TaskMoves ==
    /\ stalled \/ moves < MaxMoves
    /\ stalled' = ~stalled
    /\ moves' = IF stalled THEN moves ELSE moves + 1
    /\ UNCHANGED <<op, call, incident, scan, request, action, bodies>>

-----------------------------------------------------------------------------
(* Recovery actions.                                                       *)

\* start_recovery_action: the key is looked up, ...
LookUpAction(q, k) ==
    /\ request[q].pc = "idle"
    /\ request' = [request EXCEPT ![q] =
                     [pc |-> IF action[k] # "none" THEN "answered" ELSE "insert", key |-> k]]
    /\ UNCHANGED <<op, call, stalled, incident, scan, action, bodies, moves>>

\* A mutant: the column is not unique.
KeyIsFreeAlways(k) == TRUE

\* ... and inserted; the column is unique, so that the later one fails.
KeyIsFree(k) == action[k] = "none"
InsertAction(q) ==
    LET k == request[q].key IN
    /\ request[q].pc = "insert"
    /\ IF KeyIsFree(k)
       THEN /\ action' = [action EXCEPT ![k] = "running"]
            /\ request' = [request EXCEPT ![q].pc = "body"]
       ELSE /\ request' = [request EXCEPT ![q].pc = "answered"]
            /\ UNCHANGED action
    /\ UNCHANGED <<op, call, stalled, incident, scan, bodies, moves>>

\* requeue_delivery, archive_delivery or evaluate_incidents; it may raise.
Finished(k, result) == [action EXCEPT ![k] = result]
RecoveryBody(q, result) ==
    LET k == request[q].key IN
    /\ request[q].pc = "body"
    /\ bodies' = [bodies EXCEPT ![k] = @ + 1]
    /\ action' = Finished(k, result)
    /\ request' = [request EXCEPT ![q].pc = "answered"]
    /\ UNCHANGED <<op, call, stalled, incident, scan, moves>>

\* A restart loses the threads; a running action stays running.
Restart ==
    /\ moves < MaxMoves
    /\ moves' = moves + 1
    /\ call' = "idle"
    /\ scan' = [s \in Scans |-> NoScan]
    /\ request' = [q \in Requests |-> [request[q] EXCEPT !.pc = "idle"]]
    /\ UNCHANGED <<op, stalled, incident, action, bodies>>

Evaluate(s) == (\E r \in Rules : Detect(s, r)) \/ List(s) \/ Resolve(s)

Next ==
    \/ \E o \in {"unknown", "ended"} : OperationEnds(o)
    \/ Report
    \/ \E s \in Scans : Evaluate(s)
    \/ \E r \in Rules, i \in 1..MaxMoves + 1, st \in INCIDENT_STATES : Transition(r, i, st)
    \/ TaskMoves
    \/ \E q \in Requests : \/ \E k \in Keys : LookUpAction(q, k)
                           \/ InsertAction(q)
                           \/ \E res \in {"succeeded", "failed"} : RecoveryBody(q, res)
    \/ Restart

Spec == Init /\ [][Next]_vars

\* The maintenance cycle comes round again and again.
GovernanceFairness == \A s \in Scans : WF_vars(Evaluate(s))

FairSpec == Spec /\ GovernanceFairness

-----------------------------------------------------------------------------
TypeOK ==
    /\ op \in {"running", "unknown", "ended"}
    /\ call \in {"idle", "report"}
    /\ stalled \in BOOLEAN
    /\ \A r \in Rules : Range(incident[r]) \subseteq INCIDENT_STATES
    /\ \A s \in Scans : scan[s].pc \in {"idle", "detect", "list", "resolve"}
    /\ \A k \in Keys : action[k] \in {"none", "running", "succeeded", "failed"}
    /\ moves \in 0..MaxMoves

\* A write whose outcome is unknown makes one incident, whoever detects it how
\* often: not a second one while it is open, nor after somebody settled it.
OneIncidentPerWrite == Len(incident["unknown"]) <= 1

\* Repeated requests with one key never run the body of a recovery twice, even
\* when both looked the key up before either had inserted it.
RecoveryRunsOnce == \A k \in Keys : bodies[k] <= 1

\* Every unknown outcome comes before an administrator, also when the process
\* that met it died before it could report.
Reported == incident["unknown"] # << >>
Unknown == op = "unknown"
UnknownIsReported == Unknown ~> Reported
=============================================================================
