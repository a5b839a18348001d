---------------------------- MODULE ReferenceHost ----------------------------
(***************************************************************************)
(* The reference host (integrations/reference-host): one task it runs      *)
(* against the central service, from the local record it keeps of the task *)
(* through the central task, its lease and its trusted interactions, to    *)
(* the final state it reports; with restarts of the host at any step.      *)
(*                                                                         *)
(* The write tools of the service only prepare: the business write happens *)
(* when a completed interaction is resumed.  `wrote' records it.           *)
(***************************************************************************)
EXTENDS Naturals

CONSTANTS Steps,        \* the longest chain of interactions
          MaxRestarts   \* bound: restarts of the host

\* What the constants have to satisfy.
ReferenceAssumption == Steps \in Nat \ {0} /\ MaxRestarts \in Nat

VARIABLES
    local,     \* status of the local task record (state.py)
    bound,     \* the record names its central task
    active,    \* active_interaction_id of the record, 0 for none
    tool,      \* recovery class of the tool the task calls
    step,      \* what the host is doing: its control state
    started,   \* _resume_started, the interactions resumed in this life
    restarts,  \* bound counter
    central,   \* status of the central task
    mine,      \* this host owns the coordinator lease
    current,   \* the open interaction of the central task, 0 for none
    inter,     \* state of each interaction
    running,   \* interaction whose resume the server is executing, 0 for none
    wrote      \* the business write has been performed

hostVars == <<local, bound, active, tool, step, started, restarts>>
centralVars == <<central, mine, current, inter, running, wrote>>
vars == <<hostVars, centralVars>>

Interactions == 1 .. Steps
ActiveStates == {"starting", "running", "waiting_user", "recovering", "observe_only"}
FinalStates == {"succeeded", "failed", "canceled", "unknown"}

TypeOK ==
    /\ local \in {"none"} \cup ActiveStates \cup FinalStates
    /\ bound \in BOOLEAN
    /\ active \in 0 .. Steps
    /\ tool \in {"read", "prepare"}
    /\ step \in {"off", "idle", "bind", "execute", "monitor", "resume", "close"}
    /\ started \in SUBSET Interactions
    /\ restarts \in 0 .. MaxRestarts
    /\ central \in {"none", "active"} \cup FinalStates
    /\ mine \in BOOLEAN
    /\ current \in 0 .. Steps
    /\ inter \in [Interactions -> {"none", "pending", "ready", "resumed", "closed"}]
    /\ running \in 0 .. Steps
    /\ wrote \in BOOLEAN

Init ==
    /\ local = "none" /\ bound = FALSE /\ active = 0
    /\ tool \in {"read", "prepare"}
    /\ step = "idle" /\ started = {} /\ restarts = 0
    /\ central = "none" /\ mine = FALSE /\ current = 0
    /\ inter = [i \in Interactions |-> "none"]
    /\ running = 0 /\ wrote = FALSE

(***************************************************************************)
(* The record.                                                             *)
(***************************************************************************)

\* A mutant: an error of the driver fails the task.
DriverErrorFails == "failed"

\* mark_interaction_driver_error: the task is left to recovery.
DriverError == "recovering"

\* create_task, update_task and finish_task of state.py.
CreateTask == local' = "starting"
UpdateTask(status) == local' = status
Finish(status) == UpdateTask(status) /\ active' = 0

\* _fail_local_task
FailLocalTask == Finish("failed")

(***************************************************************************)
(* The central service, as far as the host can tell.                       *)
(***************************************************************************)

\* The user acts on the card of the open interaction.
UserActs(answer) ==
    /\ current # 0 /\ inter[current] = "pending"
    /\ inter' = [inter EXCEPT ![current] = answer]
    /\ UNCHANGED <<hostVars, central, mine, current, running, wrote>>

\* Another host takes the lapsed lease of the task over.
LeaseTakenOver ==
    /\ mine
    /\ mine' = FALSE
    /\ UNCHANGED <<hostVars, central, current, inter, running, wrote>>

\* ... and resumes the interaction the user completes.
OtherHostResumes ==
    /\ ~mine /\ running = 0
    /\ current # 0 /\ inter[current] = "ready"
    /\ running' = current
    /\ UNCHANGED <<hostVars, central, mine, current, inter, wrote>>

\* The server executes an admitted resume to its end: the next interaction is
\* opened, or the write is performed, refused, or left unknown.
Outcomes == {"next", "succeeded", "failed", "unknown"}

Executed(i, out) ==
    /\ out = "next" => i < Steps
    /\ inter' = [j \in Interactions |-> IF j = i THEN "resumed"
                     ELSE IF out = "next" /\ j = i + 1 THEN "pending" ELSE inter[j]]
    /\ current' = IF out = "next" THEN i + 1 ELSE 0
    /\ central' = IF out = "next" THEN "active" ELSE out
    /\ wrote' \in CASE out \in {"next", "failed"} -> {wrote}
                    [] out = "succeeded" -> {wrote \/ tool = "prepare"}
                    [] out = "unknown" -> {wrote, wrote \/ tool = "prepare"}
    /\ running' = 0

(***************************************************************************)
(* The task driver.                                                        *)
(***************************************************************************)

\* _prepare_task: the record is written before anything is called; a read
\* keeps its arguments in it.
PrepareTask ==
    /\ step = "idle" /\ local = "none"
    /\ CreateTask
    /\ step' = "bind"
    /\ UNCHANGED <<bound, active, tool, started, restarts, centralVars>>

\* _bind_and_execute: agentbridge_host_task_ensure creates the central task
\* with its lease and the record is bound to it; an error, whether or not the
\* call got through, fails the record (_fail_local_task).
BindTask(sent, answered) ==
    /\ step = "bind"
    /\ answered => sent
    /\ central' = IF sent /\ central = "none" THEN "active" ELSE central
    /\ mine' = (mine \/ (sent /\ central = "none"))
    /\ IF answered /\ mine'
       THEN bound' = TRUE /\ UpdateTask("running") /\ step' = "execute" /\ UNCHANGED active
       ELSE FailLocalTask /\ step' = "idle" /\ UNCHANGED bound
    /\ UNCHANGED <<tool, started, restarts, current, inter, running, wrote>>

\* process_tool_result on an answer that names an interaction: present it and
\* start its monitor.
Present(i) ==
    /\ UpdateTask("waiting_user") /\ active' = i
    /\ step' = "monitor"

\* _execute_plan: renew the lease and call the tool.  A read answers; a
\* prepare opens an interaction, and so does a read that needs a login.
ExecutePlan(sent, answered, opens) ==
    /\ step = "execute"
    /\ answered => sent
    /\ sent => mine
    /\ LET i == IF opens THEN 1 ELSE 0
       IN /\ opens => inter[1] = "none"
          /\ tool = "prepare" /\ answered => opens
          /\ inter' = IF sent /\ opens THEN [inter EXCEPT ![1] = "pending"] ELSE inter
          /\ current' = IF sent /\ opens THEN 1 ELSE current
          /\ central' = IF sent /\ ~opens /\ answered THEN "succeeded" ELSE central
          /\ IF ~answered THEN FailLocalTask /\ step' = "idle"
             ELSE IF opens THEN Present(i)
             ELSE Finish("succeeded") /\ step' = "idle"
    /\ UNCHANGED <<bound, tool, started, restarts, mine, running, wrote>>

\* _monitor: one answer of agentbridge_interaction_get for the interaction of
\* the record.
Monitor ==
    /\ step = "monitor"
    /\ LET s == inter[active]
       IN \/ /\ s = "ready" /\ active \notin started
             /\ started' = started \cup {active}
             /\ step' = "resume"
             /\ UNCHANGED <<local, active>>
          \/ /\ s = "ready" /\ active \in started
             /\ step' = "idle"
             /\ UNCHANGED <<local, active, started>>
          \/ /\ s \in {"resumed", "closed"}
             /\ step' = "close"
             /\ UNCHANGED <<local, active, started>>
    /\ UNCHANGED <<bound, tool, restarts, centralVars>>

\* mark_poll_deadline, and mark_interaction_driver_error for a failed call.
MonitorEnds(deadline) ==
    /\ step = "monitor"
    /\ UpdateTask(IF deadline THEN "waiting_user" ELSE DriverError)
    /\ step' = "idle"
    /\ UNCHANGED <<bound, active, tool, started, restarts, centralVars>>

\* resume_interaction: renew the lease and send the resume; the server takes
\* it in unless it is executing it already.
SendResume ==
    /\ step = "resume" /\ running = 0
    /\ mine /\ inter[active] = "ready"
    /\ running' = active
    /\ UNCHANGED <<hostVars, central, mine, current, inter, wrote>>

\* The server ends; the host hears the answer and processes it, or it only
\* knows of an error and leaves the task to recovery.
ResumeEnds(out, heard) ==
    /\ running # 0
    /\ Executed(running, out)
    /\ IF step # "resume" THEN UNCHANGED <<local, active, step>>
       ELSE IF ~heard THEN UpdateTask(DriverError) /\ step' = "idle" /\ UNCHANGED active
       ELSE IF out = "next" THEN Present(running + 1)
       ELSE Finish(out) /\ step' = "idle"
    /\ UNCHANGED <<bound, tool, started, restarts, mine>>

\* The lease is lost, the interaction is being resumed already, or the call
\* does not get through: mark_interaction_driver_error.
ResumeRefused ==
    /\ step = "resume" /\ running # active
    /\ UpdateTask(DriverError)
    /\ step' = "idle"
    /\ UNCHANGED <<bound, active, tool, started, restarts, centralVars>>

\* _finish_central_task: with the lease renewed; the call may not get through.
FinishCentralTask(finished) ==
    /\ central' = IF finished /\ mine /\ central = "active" THEN "failed" ELSE central
    /\ current' = IF finished /\ mine THEN 0 ELSE current

\* refresh_task_snapshot, and what the host makes of the central status.
CentralOutcome == IF central \in {"failed", "unknown"} THEN central ELSE "succeeded"

\* close_interaction: a declined or expired interaction fails the local task
\* and then the central one, if that call succeeds; one that was resumed
\* already takes the outcome of the central task.
CloseInteraction(finished) ==
    /\ step = "close"
    /\ step' = "idle"
    /\ IF inter[active] = "closed"
       THEN /\ \E s \in {"canceled", "failed"} : Finish(s)
            /\ FinishCentralTask(finished)
       ELSE /\ Finish(CentralOutcome)
            /\ UNCHANGED <<central, current>>
    /\ UNCHANGED <<bound, tool, started, restarts, mine, inter, running, wrote>>

(***************************************************************************)
(* Restart and recovery.                                                   *)
(***************************************************************************)

\* The host stops or dies; what the server executes goes on.
Stop ==
    /\ step # "off" /\ restarts < MaxRestarts
    /\ step' = "off"
    /\ started' = {}
    /\ restarts' = restarts + 1
    /\ UNCHANGED <<local, bound, active, tool, centralVars>>

\* recover_identity for a record that never got its central task.
RecoverUnbound ==
    /\ step = "off" /\ ~bound
    /\ IF local = "starting" /\ tool = "read"
       THEN step' = "bind" /\ UNCHANGED <<local, active>>
       ELSE /\ step' = "idle"
            /\ IF local = "starting" THEN Finish("failed")
               ELSE UNCHANGED <<local, active>>
    /\ UNCHANGED <<bound, tool, started, restarts, centralVars>>

\* _recover_bound_task: observe only without the lease; else follow the open
\* interaction, or the central outcome, or wait.
RecoverBound ==
    /\ step = "off" /\ bound
    /\ IF local \notin ActiveStates
       THEN step' = "idle" /\ UNCHANGED <<local, active>>
       ELSE IF ~mine
       THEN step' = "idle" /\ UpdateTask("observe_only") /\ UNCHANGED active
       ELSE IF current # 0 THEN Present(current)
       ELSE /\ step' = "idle"
            /\ IF central \in FinalStates THEN Finish(central)
               ELSE UpdateTask("recovering") /\ UNCHANGED active
    /\ UNCHANGED <<bound, tool, started, restarts, centralVars>>

Next ==
    \/ \E a \in {"ready", "closed"} : UserActs(a)
    \/ LeaseTakenOver \/ OtherHostResumes
    \/ PrepareTask
    \/ \E sent, answered \in BOOLEAN : BindTask(sent, answered)
    \/ \E sent, answered, opens \in BOOLEAN : ExecutePlan(sent, answered, opens)
    \/ Monitor
    \/ \E deadline \in BOOLEAN : MonitorEnds(deadline)
    \/ SendResume
    \/ \E out \in Outcomes, heard \in BOOLEAN : ResumeEnds(out, heard)
    \/ ResumeRefused
    \/ \E finished \in BOOLEAN : CloseInteraction(finished)
    \/ Stop \/ RecoverUnbound \/ RecoverBound

Spec == Init /\ [][Next]_vars

(***************************************************************************)
(* Properties.                                                             *)
(***************************************************************************)

\* The host never reports a task failed or canceled whose write took place:
\* an error after the resume was sent leaves the record "recovering", and
\* recovery takes the outcome from the central task.  The lease is what makes
\* it so: a host that lost it knows nothing of what its successor does.
FailedNeverWrote == mine /\ local \in {"failed", "canceled"} => ~wrote

\* A success the host reports of a write is a write that was performed.
\* Does not hold (README, section 6).
SuccessWasWritten == local = "succeeded" /\ tool = "prepare" => wrote
====
