---------------------------- MODULE ChatGateway -----------------------------
(***************************************************************************)
(* One chat message on its way from the workspace to the agent host:       *)
(* gateway.py (send_stream) runs gateway_client.mjs, which talks to the    *)
(* OpenClaw gateway over one websocket.  The client clears the session,    *)
(* binds it, sends the message, watches the run and, when the run does not *)
(* start, stops it and sends the message again under another key.          *)
(*                                                                         *)
(* The host is external: an accepted run is listed as active until it      *)
(* ends, a key that was accepted is not run twice, a tool call is written  *)
(* to the history as it happens, and its events reach the client in order, *)
(* before the answer to a later request.                                   *)
(***************************************************************************)
EXTENDS Naturals, FiniteSets

CONSTANTS
    MaxRuns,      \* bound on the keys: the first and the recoveries
    MaxAttempts,  \* of send_stream before acceptance (3 delays, 4 attempts)
    MaxFaults     \* bound on lost answers and broken connections

GatewayAssumption == {MaxRuns, MaxAttempts} \subseteq Nat \ {0}

Runs == 1..MaxRuns

VARIABLES
    run,          \* host: run[r] is "none", "queued", "working" or "ended"
    tool,         \* host: runs that called a business tool
    saved,        \* host: runs whose final answer is in the history
    other,        \* host: another run is active in the session
    news,         \* events of the current run not yet delivered
    node,         \* the state of gateway_client.mjs
    py,           \* the state of send_stream
    faults

vars == <<run, tool, saved, other, news, node, py, faults>>

Fresh == [pc |-> "connect", run |-> 1, accepted |-> FALSE, progress |-> FALSE,
          tool |-> FALSE, used |-> FALSE, purpose |-> "none", rebound |-> FALSE]
Live == {r \in Runs : run[r] \in {"queued", "working"}}

Init ==
    /\ run = [r \in Runs |-> "none"]
    /\ tool = {}
    /\ saved = {}
    /\ other \in BOOLEAN
    /\ news = {}
    /\ node = Fresh
    /\ py \in [pc : {"stream"}, attempt : {1}, run : {0}, outcome : {"none"},
               safe : {FALSE}, retries : BOOLEAN, aborts : BOOLEAN]
    /\ faults = 0

-----------------------------------------------------------------------------
(* The host.                                                               *)

HostStarts(r) ==
    /\ run[r] = "queued"
    /\ run' = [run EXCEPT ![r] = "working"]
    /\ news' = IF r = node.run THEN news \cup {"progress"} ELSE news
    /\ UNCHANGED <<tool, saved, other, node, py, faults>>

HostCallsTool(r) ==
    /\ run[r] = "working"
    /\ tool' = tool \cup {r}
    /\ news' = IF r = node.run THEN news \cup {"progress", "tool"} ELSE news
    /\ UNCHANGED <<run, saved, other, node, py, faults>>

\* The run ends with an answer, with an error, or is dropped without a word.
HostEnds(r, how) ==
    /\ run[r] \in {"queued", "working"}
    /\ run[r] = "queued" => how = "dropped"
    /\ run' = [run EXCEPT ![r] = "ended"]
    /\ saved' = IF how = "final" THEN saved \cup {r} ELSE saved
    /\ news' = IF r = node.run /\ how # "dropped" THEN news \cup {"progress", how} ELSE news
    /\ UNCHANGED <<tool, other, node, py, faults>>

OtherRun ==
    /\ other' = ~other
    /\ Live = {}
    /\ node.pc \in {"idle", "settled"}
    /\ UNCHANGED <<run, tool, saved, news, node, py, faults>>

-----------------------------------------------------------------------------
(* What the python side makes of the end of the client process.            *)

\* _should_retry_before_accept: never once a run is accepted, and only for
\* the stages before the message is sent.
RetryStages == {"connect", "bind"}  \* connect covers preflight_abort
Accepted == py.run # 0              \* an accepted event has been read
ShouldRetry(stage) ==
    /\ py.retries
    /\ ~Accepted
    /\ py.attempt < MaxAttempts
    /\ stage \in RetryStages

\* A mutant: the snapshot of the stream is taken for the final answer.
RecoveredFromStream == Accepted

\* _reconcile_accepted_run: the final answer of the accepted run, if the
\* history holds one.
Recovered == Accepted /\ py.run \in saved

\* On the way out of guarded_stream an accepted run that has not ended is
\* stopped, when the caller asked for it.
LeaveWith(outcome, safe, terminal) ==
    /\ py' = [py EXCEPT !.pc = "done", !.outcome = outcome, !.safe = safe]
    /\ run' = IF py.run # 0 /\ ~terminal /\ py.aborts /\ run[py.run] \in {"queued", "working"}
              THEN [run EXCEPT ![py.run] = "ended"] ELSE run
    /\ node' = [node EXCEPT !.pc = "settled"]
    /\ news' = {}

\* finishError: a broken connection after acceptance is looked up in the
\* history; an error before it may start a new client process.
EndsInError(connection, stage, safe) ==
    \/ /\ connection /\ Accepted /\ Recovered
       /\ LeaveWith("final", FALSE, TRUE)
    \/ /\ ~(connection /\ Accepted /\ Recovered)
       /\ ShouldRetry(stage)
       /\ py' = [py EXCEPT !.attempt = @ + 1]
       /\ node' = Fresh
       /\ news' = {}
       /\ UNCHANGED run
    \/ /\ ~(connection /\ Accepted)
       /\ ~ShouldRetry(stage)
       /\ LeaveWith("error", safe, FALSE)
    \/ /\ connection /\ Accepted  \* the history is not there yet
       /\ LeaveWith("error", FALSE, FALSE)

\* The socket closes, the process dies or a deadline passes before the
\* message is accepted.
Breaks ==
    /\ node.pc # "settled"
    /\ faults < MaxFaults
    /\ faults' = faults + 1
    /\ EndsInError(TRUE, node.pc, FALSE)
    /\ UNCHANGED <<tool, saved, other>>

-----------------------------------------------------------------------------
(* gateway_client.mjs, up to the message.                                  *)

\* requestPreflightAbort: the runs of the session are stopped.
PreflightAbort ==
    /\ node.pc = "connect"
    /\ run' = [r \in Runs |-> IF run[r] \in {"queued", "working"} THEN "ended" ELSE run[r]]
    /\ node' = [node EXCEPT !.pc = "idle", !.purpose = "preflight"]
    /\ UNCHANGED <<tool, saved, other, news, py, faults>>

\* handleSessionStateResponse while waiting for an idle session.
SessionIdle ==
    /\ node.pc = "idle"
    /\ news = {}
    /\ Live = {} /\ ~other
    /\ node' = [node EXCEPT !.pc = IF node.purpose = "preflight" THEN "bind" ELSE "evidence",
                            !.purpose = "none"]
    /\ UNCHANGED <<run, tool, saved, other, news, py, faults>>

\* GATEWAY_SESSION_NOT_IDLE and GATEWAY_SESSION_STATE_UNAVAILABLE.
SessionBusy ==
    /\ node.pc = "idle"
    /\ Live # {} \/ other \/ faults < MaxFaults
    /\ EndsInError(FALSE, "wait_idle", FALSE)
    /\ UNCHANGED <<tool, saved, other, faults>>

\* requestWorkspaceBind; a grant that is refused is tried once more.
Bind ==
    /\ node.pc = "bind"
    /\ node' = [node EXCEPT !.pc = "send"]
    /\ UNCHANGED <<run, tool, saved, other, news, py, faults>>
BindForbidden ==
    /\ node.pc = "bind"
    /\ IF ~node.rebound
       THEN node' = [node EXCEPT !.rebound = TRUE] /\ UNCHANGED <<run, news, py>>
       ELSE EndsInError(FALSE, "forbidden", FALSE)
    /\ UNCHANGED <<tool, saved, other, faults>>

\* requestChatSend: the host takes the message, once for a key ...
Send ==
    /\ node.pc = "send"
    /\ run' = [run EXCEPT ![node.run] = IF @ = "none" THEN "queued" ELSE @]
    /\ node' = [node EXCEPT !.pc = "sent"]
    /\ UNCHANGED <<tool, saved, other, news, py, faults>>

\* ... and says so.
Accept ==
    /\ node.pc = "sent"
    /\ node' = [node EXCEPT !.pc = "run", !.accepted = TRUE]
    /\ py' = [py EXCEPT !.run = node.run]
    /\ UNCHANGED <<run, tool, saved, other, news, faults>>

\* GATEWAY_TIMEOUT: the answer does not come.
AcceptTimeout ==
    /\ node.pc = "sent"
    /\ faults < MaxFaults
    /\ faults' = faults + 1
    /\ EndsInError(FALSE, "send_accept", FALSE)
    /\ UNCHANGED <<tool, saved, other>>

-----------------------------------------------------------------------------
(* The run.                                                                *)

\* The message handler: progress of any kind ends the wait for the start.
Deliver(e) ==
    /\ node.pc \notin {"connect", "settled"}
    /\ e \in news
    /\ e \in {"progress", "tool"}
    /\ news' = news \ {e}
    /\ node' = [node EXCEPT !.progress = TRUE, !.tool = @ \/ e = "tool"]
    /\ UNCHANGED <<run, tool, saved, other, py, faults>>

\* A final answer counts when it is the accepted run's and the history holds
\* it; the final answer of another run is passed over and ends the stream.
DeliverFinal ==
    /\ node.pc \notin {"connect", "settled"}
    /\ "final" \in news
    /\ news \cap {"progress", "tool"} = {}
    /\ IF py.run = node.run
       THEN LeaveWith(IF Recovered THEN "final" ELSE "error", FALSE, TRUE)
       ELSE LeaveWith("silent", FALSE, FALSE)
    /\ UNCHANGED <<tool, saved, other, faults>>

\* The run failed or was stopped by someone else: aborted runs without tool
\* activity may be sent again.
DeliverAborted ==
    /\ node.pc \notin {"connect", "settled"}
    /\ "aborted" \in news
    /\ news \cap {"progress", "tool"} = {}
    /\ LeaveWith("aborted", ~node.tool, TRUE)
    /\ UNCHANGED <<tool, saved, other, faults>>

\* armStartupTimer
StartupTimer ==
    /\ node.pc = "run"
    /\ ~node.progress /\ ~node.tool
    /\ node' = [node EXCEPT !.pc = "probe"]
    /\ UNCHANGED <<run, tool, saved, other, news, py, faults>>

\* canRecoverStartup
CanRecover == ~node.progress /\ ~node.tool /\ ~node.used

\* handleStartupProbe: the answer of sessions.list comes after the events.
StartupProbe ==
    /\ node.pc = "probe"
    /\ news = {}
    /\ \/ /\ node.progress \/ node.tool \/ run[node.run] \in {"queued", "working"}
          /\ node' = [node EXCEPT !.pc = "run"]
       \/ /\ ~node.progress /\ ~node.tool
          /\ Live = {} /\ ~other
          /\ node' = [node EXCEPT !.pc = "evidence"]
       \/ /\ ~node.progress /\ ~node.tool
          /\ Live # {} \/ other
          /\ node' = [node EXCEPT !.pc = "abort",
                                  !.purpose = IF CanRecover THEN "startup_recovery"
                                              ELSE "startup_final"]
    /\ UNCHANGED <<run, tool, saved, other, news, py, faults>>

\* The probe is not answered.
ProbeTimeout ==
    /\ node.pc = "probe"
    /\ faults < MaxFaults
    /\ faults' = faults + 1
    /\ node' = [node EXCEPT !.pc = "abort",
                            !.purpose = IF node.used THEN "startup_final"
                                        ELSE "startup_recovery"]
    /\ UNCHANGED <<run, tool, saved, other, news, py>>

\* handleRequestTimeout of an accepted run.
RunTimeout ==
    /\ node.pc = "run"
    /\ node.accepted
    /\ node' = [node EXCEPT !.pc = "abort", !.purpose = "timeout"]
    /\ UNCHANGED <<run, tool, saved, other, news, py, faults>>

\* requestStreamAbort at the host, and handleAbortResponse: a run that was
\* stopped before its start is followed by a wait for the idle session.
HostAborts ==
    /\ node.pc = "abort"
    /\ run' = [run EXCEPT ![node.run] = "ended"]
    /\ node' = [node EXCEPT !.pc = IF run[node.run] = "ended" THEN "refused" ELSE "aborted"]
    /\ UNCHANGED <<tool, saved, other, news, py, faults>>

\* A mutant: a stopped run may be sent again, whatever it did.
SafeWhenAborted(aborted) == aborted

\* timeoutDetails
SafeToRetry(aborted) == aborted /\ ~node.tool

AbortAnswered ==
    /\ node.pc \in {"aborted", "refused"}
    /\ news \cap {"progress", "tool"} = {}
    /\ IF node.pc = "aborted" /\ node.purpose = "startup_recovery"
       THEN /\ node' = [node EXCEPT !.pc = "idle"]
            /\ news' = {}
            /\ UNCHANGED <<run, py>>
       ELSE EndsInError(FALSE, "abort", SafeToRetry(node.pc = "aborted"))
    /\ UNCHANGED <<tool, saved, other, faults>>
AbortUnanswered ==
    /\ node.pc \in {"abort", "aborted", "refused"}
    /\ faults < MaxFaults
    /\ faults' = faults + 1
    /\ EndsInError(FALSE, "abort", SafeToRetry(FALSE))
    /\ UNCHANGED <<tool, saved, other>>

\* A mutant: the history is not asked for tool calls.
NoEvidence(r) == FALSE

\* recoveryEvidenceForRun
ToolEvidence(r) == r \in tool

\* handleRecoveryEvidenceResponse and startRecoveryAttempt: a run that has
\* reached a tool is not sent again; any other is, under the next key.
Evidence ==
    /\ node.pc = "evidence"
    /\ IF ToolEvidence(node.run)
       THEN EndsInError(FALSE, "recovery_evidence", FALSE)
       ELSE /\ node.run < MaxRuns
            /\ node' = [Fresh EXCEPT !.pc = "send", !.run = node.run + 1, !.used = TRUE,
                                     !.rebound = node.rebound]
            /\ news' = {}
            /\ UNCHANGED <<run, py>>
    /\ UNCHANGED <<tool, saved, other, faults>>
EvidenceUnavailable ==
    /\ node.pc = "evidence"
    /\ faults < MaxFaults
    /\ faults' = faults + 1
    /\ EndsInError(FALSE, "recovery_evidence", FALSE)
    /\ UNCHANGED <<tool, saved, other>>

\* The browser goes away: the generator is closed.
CallerLeaves ==
    /\ py.pc = "stream"
    /\ LeaveWith("closed", FALSE, FALSE)
    /\ UNCHANGED <<tool, saved, other, faults>>

-----------------------------------------------------------------------------
HostStep == \E r \in Runs :
    HostStarts(r) \/ HostCallsTool(r) \/ \E how \in {"final", "aborted", "dropped"} : HostEnds(r, how)
NodeStep ==
    \/ PreflightAbort \/ SessionIdle \/ SessionBusy \/ Bind \/ BindForbidden
    \/ Send \/ Accept \/ AcceptTimeout
    \/ \E e \in news : Deliver(e)
    \/ DeliverFinal \/ DeliverAborted
    \/ StartupTimer \/ StartupProbe \/ ProbeTimeout \/ RunTimeout
    \/ HostAborts \/ AbortAnswered \/ AbortUnanswered
    \/ Evidence \/ EvidenceUnavailable

Next == HostStep \/ OtherRun \/ NodeStep \/ Breaks \/ CallerLeaves

Spec == Init /\ [][Next]_vars

-----------------------------------------------------------------------------
TypeOK ==
    /\ run \in [Runs -> {"none", "queued", "working", "ended"}]
    /\ tool \subseteq Runs /\ saved \subseteq Runs
    /\ news \subseteq {"progress", "tool", "final", "aborted"}
    /\ py.run \in 0..MaxRuns /\ py.attempt \in 1..MaxAttempts

\* A message whose run has reached a business tool is not sent a second time
\* under another key, whatever was delayed, lost or stopped in between
\* (GATEWAY_START_RECOVERY_BLOCKED_TOOL_ACTIVITY).
NoReplayAfterTool ==
    \A r, q \in Runs : r < q /\ run[q] # "none" => r \notin tool

\* An end of the stream that says the message may be sent again is true: no
\* run of it has called a tool, and none is left that could
\* (timeoutDetails, and the aborted event of the message handler).
SafeIsTrue ==
    py.pc = "done" /\ py.safe => tool = {} /\ Live = {}

\* A final answer is the persisted one of the run that was accepted last
\* (guarded_stream).
FinalIsSaved ==
    py.outcome = "final" => py.run \in saved
=============================================================================
