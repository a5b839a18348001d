---------------------------- MODULE ReleaseSwitch ---------------------------
(***************************************************************************)
(* The release transaction (scripts/agentbridge_release.py): a candidate   *)
(* is prepared beside the running release, the service is stopped, the     *)
(* link, the units and the environment file are replaced one by one, and   *)
(* the new service is confirmed or the old one is put back.  Every stage   *)
(* is a durable receipt; the process may fail or die between any two       *)
(* writes, and an operator may then recover or complete what is left.      *)
(*                                                                         *)
(* The schema of the databases is the set of the releases whose migration  *)
(* ran.                                                                    *)
(***************************************************************************)
EXTENDS Naturals

CONSTANTS
    Releases,   \* the candidates
    Base,       \* what was installed before the first of them: no link yet
    Migrates,   \* the candidates whose first start changes the schema
    Reviewed,   \* those whose policy names exactly that change
    MaxFaults   \* bound on failed steps and deaths of the process

\* What was installed before is no candidate, and only candidates migrate.
ReleaseAssumption == Base \notin Releases /\ Migrates \subseteq Releases

Programs == Releases \cup {Base}
Terminal == {"confirmed", "rolled_back", "preparation_failed"}

VARIABLES
    link, units, env,  \* the release each of them belongs to
    service,           \* [program, state]
    schema, timer,     \* the databases' schema; is the backup timer active
    receipt,           \* release -> its deployment.json
    proc,              \* the process that holds .release.lock
    faults

files == <<link, units, env>>
vars == <<link, units, env, service, schema, timer, receipt, proc, faults>>

NoReceipt == [status |-> "none", previous |-> Base, hasSchema |-> FALSE, schemaBefore |-> {},
              timerWasActive |-> FALSE, completion |-> {}]
NoProcess == [release |-> Base, pc |-> "none", mode |-> "none", state |-> NoReceipt]

Init ==
    /\ link = Base /\ units = Base /\ env = Base
    /\ service = [program |-> Base, state |-> "up"]
    /\ schema = {}
    /\ timer = TRUE
    /\ receipt = [r \in Releases |-> NoReceipt]
    /\ proc = NoProcess
    /\ faults = 0

At(pc) == proc.pc = pc
Goto(pc) == proc' = [proc EXCEPT !.pc = pc]

\* stage: the state in memory, with its new status, becomes the receipt.
Staged(st, status) == [st EXCEPT !.status = status]
Stage(st, status, pc) ==
    /\ receipt' = [receipt EXCEPT ![proc.release] = Staged(st, status)]
    /\ proc' = [proc EXCEPT !.pc = pc, !.state = Staged(st, status)]
StageAndExit(st, status) ==
    /\ receipt' = [receipt EXCEPT ![proc.release] = Staged(st, status)]
    /\ proc' = NoProcess

-----------------------------------------------------------------------------
(* The service, started by systemd: the units of Base run the program of   *)
(* the root directory, those of a release the program behind the link.     *)

Started == [program |-> IF units = Base THEN Base ELSE link, state |-> "starting"]

ServiceComesUp ==
    /\ service.state = "starting"
    /\ service' = [service EXCEPT !.state = "up"]
    /\ schema' = schema \cup ({service.program} \cap Migrates)
    /\ UNCHANGED <<files, timer, receipt, proc, faults>>

-----------------------------------------------------------------------------
(* prepare                                                                 *)

\* main refuses a candidate while any receipt is open; a rolled back or failed
\* candidate is never tried again; the predecessor must be running.
Prepare(r) ==
    /\ At("none")
    /\ \A q \in Releases : receipt[q].status \in Terminal \cup {"none"}
    /\ receipt[r].status = "none"
    /\ service.state = "up"
    /\ LET st == [NoReceipt EXCEPT !.status = "preparing", !.previous = env]
       IN /\ receipt' = [receipt EXCEPT ![r] = st]
          /\ proc' = [release |-> r, pc |-> "preparing", mode |-> "execute", state |-> st]
    /\ UNCHANGED <<files, service, schema, timer, faults>>
Prepared ==
    /\ At("preparing")
    /\ Stage(proc.state, "prepared", "pause")
    /\ UNCHANGED <<files, service, schema, timer, faults>>

\* A confirmed candidate is published again: only its completion is resumed.
PublishAgain(r) ==
    /\ At("none")
    /\ \A q \in Releases : receipt[q].status \in Terminal \cup {"none"}
    /\ receipt[r].status = "confirmed"
    /\ env = r /\ link = r
    /\ service = [program |-> r, state |-> "up"]
    /\ proc' = [release |-> r, pc |-> "complete", mode |-> "complete", state |-> receipt[r]]
    /\ UNCHANGED <<files, service, schema, timer, receipt, faults>>

-----------------------------------------------------------------------------
(* switch                                                                  *)

Pause ==
    /\ At("pause")
    /\ Stage([proc.state EXCEPT !.timerWasActive = timer], "stopping", "stop_timer")
    /\ UNCHANGED <<files, service, schema, timer, faults>>
StopTimer ==
    /\ At("stop_timer")
    /\ timer' = FALSE
    /\ Goto("stop_service")
    /\ UNCHANGED <<files, service, schema, receipt, faults>>
StopService ==
    /\ At("stop_service")
    /\ service' = [service EXCEPT !.state = "stopped"]
    /\ Goto("stopped")
    /\ UNCHANGED <<files, schema, timer, receipt, faults>>
StoppedStage ==
    /\ At("stopped")
    /\ Stage(proc.state, "stopped", "backup")
    /\ UNCHANGED <<files, service, schema, timer, faults>>

\* The schema is kept in memory; the next stage makes it durable.
ReadSchema ==
    /\ At("backup")
    /\ proc' = [proc EXCEPT !.pc = "point", !.state.hasSchema = TRUE, !.state.schemaBefore = schema]
    /\ UNCHANGED <<files, service, schema, timer, receipt, faults>>
RecoveryPointCreated ==
    /\ At("point")
    /\ Stage(proc.state, "recovery_point_created", "switching")
    /\ UNCHANGED <<files, service, schema, timer, faults>>
Switching ==
    /\ At("switching")
    /\ Stage(proc.state, "switching", "link")
    /\ UNCHANGED <<files, service, schema, timer, faults>>
SwitchLink ==
    /\ At("link")
    /\ link' = proc.release
    /\ Goto("units")
    /\ UNCHANGED <<units, env, service, schema, timer, receipt, faults>>
SwitchUnits ==
    /\ At("units")
    /\ units' = proc.release
    /\ Goto("env")
    /\ UNCHANGED <<link, env, service, schema, timer, receipt, faults>>
SwitchEnv ==
    /\ At("env")
    /\ env' = proc.release
    /\ Goto("start")
    /\ UNCHANGED <<link, units, service, schema, timer, receipt, faults>>
StartService ==
    /\ At("start")
    /\ service' = Started
    /\ Goto("checking")
    /\ UNCHANGED <<files, schema, timer, receipt, faults>>
Checking ==
    /\ At("checking")
    /\ Stage(proc.state, "checking", "ready")
    /\ UNCHANGED <<files, service, schema, timer, faults>>

\* authorized_schema_transition: nothing changed, or exactly what the policy
\* of a reviewed transition names.
AuthorizedTransition(r, before, after) ==
    after = IF r \in Reviewed THEN before \cup {r} ELSE before

\* ready and the schema contract.
Confirm ==
    /\ At("ready")
    /\ service = [program |-> proc.release, state |-> "up"]
    /\ AuthorizedTransition(proc.release, proc.state.schemaBefore, schema)
    /\ Stage(proc.state, "confirmed", "complete")
    /\ UNCHANGED <<files, service, schema, timer, faults>>
Refuse ==
    /\ At("ready")
    /\ service = [program |-> proc.release, state |-> "up"]
    /\ ~AuthorizedTransition(proc.release, proc.state.schemaBefore, schema)
    /\ Goto("recover")
    /\ UNCHANGED <<files, service, schema, timer, receipt, faults>>

-----------------------------------------------------------------------------
(* recover                                                                 *)

Recovering ==
    /\ At("recover")
    /\ Stage(proc.state, "recovering", "r_stop")
    /\ UNCHANGED <<files, service, schema, timer, faults>>
RecoverStop ==
    /\ At("r_stop")
    /\ service' = [service EXCEPT !.state = "stopped"]
    /\ Goto("r_schema")
    /\ UNCHANGED <<files, schema, timer, receipt, faults>>

\* A mutant: the program is put back whatever became of the databases.
SchemaIsAsBeforeAnyway == TRUE

SchemaIsAsBefore == proc.state.hasSchema => schema = proc.state.schemaBefore

RecoverSchema ==
    /\ At("r_schema")
    /\ IF SchemaIsAsBefore
       THEN Goto("r_units") /\ UNCHANGED receipt
       ELSE StageAndExit(proc.state, "manual_recovery_required")
    /\ UNCHANGED <<files, service, schema, timer, faults>>
RecoverUnits ==
    /\ At("r_units")
    /\ units' = proc.state.previous
    /\ Goto("r_env")
    /\ UNCHANGED <<link, env, service, schema, timer, receipt, faults>>
RecoverEnv ==
    /\ At("r_env")
    /\ env' = proc.state.previous
    /\ Goto("r_link")
    /\ UNCHANGED <<link, units, service, schema, timer, receipt, faults>>
RecoverLink ==
    /\ At("r_link")
    /\ link' = proc.state.previous
    /\ Goto("r_start")
    /\ UNCHANGED <<units, env, service, schema, timer, receipt, faults>>
RecoverStart ==
    /\ At("r_start")
    /\ service' = Started
    /\ Goto("r_ready")
    /\ UNCHANGED <<files, schema, timer, receipt, faults>>

\* A mutant: the timer stays as the switch left it.
TimerStays == timer

\* The timer that the switch had stopped is started again.
TimerBack == timer \/ proc.state.timerWasActive

RecoverReady ==
    /\ At("r_ready")
    /\ service = [program |-> proc.state.previous, state |-> "up"]
    /\ timer' = TimerBack
    /\ Goto("r_done")
    /\ UNCHANGED <<files, service, schema, receipt, faults>>
RolledBack ==
    /\ At("r_done")
    /\ StageAndExit(proc.state, "rolled_back")
    /\ UNCHANGED <<files, service, schema, timer, faults>>

-----------------------------------------------------------------------------
(* complete: each phase is recorded when it is done; a phase that is done  *)
(* is not done again.                                                      *)

Phases == {"backup_timer", "post_release_backup"}
CompletePhase(p) ==
    /\ At("complete")
    /\ p \notin proc.state.completion
    /\ p = "post_release_backup" => "backup_timer" \in proc.state.completion
    /\ timer' = (timer \/ p = "backup_timer")
    /\ Stage([proc.state EXCEPT !.completion = @ \cup {p}], "confirmed", "complete")
    /\ UNCHANGED <<files, service, schema, faults>>
Completed ==
    /\ At("complete")
    /\ proc.state.completion = Phases
    /\ proc' = NoProcess
    /\ UNCHANGED <<files, service, schema, timer, receipt, faults>>

-----------------------------------------------------------------------------
(* Failures, and what the operator may do about them.                      *)

InSwitch == {"pause", "stop_timer", "stop_service", "stopped", "backup", "point", "switching", "link", "units",
             "env", "start", "checking", "ready"}
InRecover == {"r_stop", "r_schema", "r_units", "r_env", "r_link", "r_start", "r_ready", "r_done"}

Fault == faults < MaxFaults /\ faults' = faults + 1

\* A step raises: preparation fails for good; the switch is unwound; what
\* fails while it is unwound needs a person, unless the operator started the
\* recovery and may start it again; a failed completion is left as it is.
StepFails ==
    /\ Fault
    /\ \/ At("preparing") /\ StageAndExit(proc.state, "preparation_failed")
       \/ proc.pc \in InSwitch /\ Goto("recover") /\ UNCHANGED receipt
       \/ proc.pc \in InRecover /\ proc.mode = "execute" /\ StageAndExit(proc.state, "manual_recovery_required")
       \/ proc.pc \in InRecover /\ proc.mode = "recover" /\ proc' = NoProcess /\ UNCHANGED receipt
       \/ At("complete") /\ proc' = NoProcess /\ UNCHANGED receipt
    /\ UNCHANGED <<files, service, schema, timer>>
Dies ==
    /\ Fault
    /\ ~At("none")
    /\ proc' = NoProcess
    /\ UNCHANGED <<files, service, schema, timer, receipt>>

Recoverable == {"stopping", "stopped", "recovery_point_created", "switching", "checking", "recovering"}

\* main --recover
ClosePreparation(r) ==
    /\ At("none")
    /\ receipt[r].status \in {"preparing", "prepared"}
    /\ receipt' = [receipt EXCEPT ![r].status = "preparation_failed"]
    /\ UNCHANGED <<files, service, schema, timer, proc, faults>>
Recover(r) ==
    /\ At("none")
    /\ receipt[r].status \in Recoverable
    /\ proc' = [release |-> r, pc |-> "recover", mode |-> "recover", state |-> receipt[r]]
    /\ UNCHANGED <<files, service, schema, timer, receipt, faults>>

\* main --complete
Complete(r) ==
    /\ At("none")
    /\ receipt[r].status = "confirmed"
    /\ env = r /\ link = r
    /\ proc' = [release |-> r, pc |-> "complete", mode |-> "complete", state |-> receipt[r]]
    /\ UNCHANGED <<files, service, schema, timer, receipt, faults>>

-----------------------------------------------------------------------------
Next ==
    \/ ServiceComesUp
    \/ \E r \in Releases : Prepare(r) \/ PublishAgain(r) \/ ClosePreparation(r) \/ Recover(r) \/ Complete(r)
    \/ Prepared \/ Pause \/ StopTimer \/ StopService \/ StoppedStage \/ ReadSchema \/ RecoveryPointCreated
    \/ Switching \/ SwitchLink \/ SwitchUnits \/ SwitchEnv \/ StartService \/ Checking \/ Confirm \/ Refuse
    \/ Recovering \/ RecoverStop \/ RecoverSchema \/ RecoverUnits \/ RecoverEnv \/ RecoverLink \/ RecoverStart
    \/ RecoverReady \/ RolledBack
    \/ \E p \in Phases : CompletePhase(p)
    \/ Completed \/ StepFails \/ Dies

Spec == Init /\ [][Next]_vars

-----------------------------------------------------------------------------
TypeOK ==
    /\ {link, units, env, service.program} \subseteq Programs
    /\ service.state \in {"stopped", "starting", "up"}
    /\ schema \subseteq Releases
    /\ At("none") \/ receipt[proc.release].status # "none"

Closed == At("none") /\ \A r \in Releases : receipt[r].status \in Terminal \cup {"none"}

\* When no transaction is open, whatever failed or died and was recovered on
\* the way, one release is installed: link, units, environment and the running
\* program belong to it, it is the first installation or a confirmed release,
\* and the databases hold no migration of a release that was not confirmed
\* (switch, recover).
ClosedIsWhole ==
    Closed =>
        /\ link = units /\ units = env /\ env = service.program /\ service.state = "up"
        /\ link = Base \/ receipt[link].status = "confirmed"
        /\ \A r \in schema : receipt[r].status = "confirmed"

\* Backups run again when no transaction is open and the completion of the
\* installed release is not left half done, although the switch stopped their
\* timer and may have been recovered by another process (recover, complete).
TimerIsRestored ==
    Closed /\ (link # Base => receipt[link].completion = Phases) => timer
=============================================================================
