----------------------------- MODULE HostDispatch -----------------------------
(***************************************************************************)
(* The delivery of workspace chat requests to the agent host: the table    *)
(* agent_host_dispatches of workspace/stores.py, the worker thread that    *)
(* each process of workspace/application.py keeps for an account, and the  *)
(* gateway client through which the worker talks to the host.              *)
(*                                                                         *)
(* Every store call opens with BEGIN IMMEDIATE and is one action.  The     *)
(* worker makes several of them for one dispatch, with calls to the host   *)
(* between them; `at' says how far it is.  A store call of a worker that   *)
(* finds its claim token gone raises, the worker's error handler returns   *)
(* at once (the token differs) and the worker loops: action ClaimLost.     *)
(*                                                                         *)
(* Abstractions: one account and one conversation, whose requests are      *)
(* numbered in the order of created_at; an idempotency key names a request;*)
(* a claim token is the process that holds it, since a worker has at most  *)
(* one claim and forgets it before it takes another; time is three bits of *)
(* a row (see age, due, lapsed); what a run answers, its progress events,  *)
(* and the texts copied to the timeline on a best effort are left out; the *)
(* gateway client's restart of a stalled run under a derived key is part   *)
(* of the run; the gateway client dies with the process that started it.   *)
(***************************************************************************)
EXTENDS Integers, FiniteSets

CONSTANTS
    Procs,         \* workspace processes: one, or two while one replaces the other
    MaxRequests,   \* a bound on the requests ever accepted
    ActiveLimit,   \* 3 in the code: active dispatches of a conversation
    MaxFaults,     \* a bound on crashes, on exceptions in a worker and on its overruns
    Null           \* no claim, no dispatch held

Requests == 1..MaxRequests

ASSUME BoundAssumption == {MaxRequests, ActiveLimit, MaxFaults} \subseteq Nat
ASSUME NullAssumption == Null \notin Procs \cup Requests

VARIABLES
    state,         \* agent_host_dispatches.state
    sent,          \* requests with request_sent_at
    owner,         \* claim_token: the process whose worker holds it
    lapsed,        \* requests whose claim_expires_at has passed
    due,           \* requests whose next_attempt_at has passed
    age,           \* "fresh", "late": past deadline_at, "stale": past the result deadline
    copies,        \* how often chat.send was written to the host's socket
    host,          \* what the host made of it
    calling,       \* processes with a chat request between its commit and its ensure call
    at,            \* where the worker of a process is
    held,          \* the dispatch it claimed
    faults         \* crashes, exceptions and overruns so far

rowVars == <<state, sent, owner, lapsed, due, age>>
hostVars == <<copies, host>>
workerVars == <<at, held>>
vars == <<rowVars, hostVars, workerVars, calling, faults>>

ActiveStates == {"queued", "waiting_host", "dispatching", "reconciling_acceptance", "accepted"}
TerminalStates == {"completed", "failed", "expired", "failed_before_accept",
                   "acceptance_unknown", "result_unknown", "canceled"}

\* What the host made of a request: nothing yet, its frame is under way, it
\* was lost, refused, or became a run that goes on, answered or failed.
HostStates == {"nothing", "frame", "lost", "refused", "running", "answered", "broke"}
Observed == {"running", "answered", "broke"}

\* Places inside _process_host_dispatch, in the order of its lines.
WorkPlaces == {"claimed", "reclaimed", "doubtful", "probe", "open", "wire",
               "stream", "reconcile", "found", "observe", "error"}
Places == {"down", "none", "loop", "look", "leave"} \cup WorkPlaces

-----------------------------------------------------------------------------
Init ==
    /\ state = [d \in Requests |-> "absent"]
    /\ owner = [d \in Requests |-> Null]
    /\ age = [d \in Requests |-> "fresh"]
    /\ copies = [d \in Requests |-> 0]
    /\ host = [d \in Requests |-> "nothing"]
    /\ sent = {} /\ lapsed = {} /\ due = {} /\ calling = {}
    /\ at = [p \in Procs |-> "none"]
    /\ held = [p \in Procs |-> Null]
    /\ faults = 0

Active == {d \in Requests : state[d] \in ActiveStates}

\* _select_claimed_host_dispatch: the row still carries the worker's token.
Holds(p) == held[p] \in Requests /\ owner[held[p]] = p

Go(p, place) == at' = [at EXCEPT ![p] = place]

\* _finish_host_dispatch_in_connection.
Finish(d, s) ==
    /\ state' = [state EXCEPT ![d] = s]
    /\ owner' = [owner EXCEPT ![d] = Null]
    /\ lapsed' = lapsed \ {d}

\* Mutant: the worker loops and keeps the dispatch it had.
DropNothing(p) == at' = [at EXCEPT ![p] = "loop"] /\ UNCHANGED held

\* The worker is done with its dispatch and loops.
Drop(p) ==
    /\ at' = [at EXCEPT ![p] = "loop"]
    /\ held' = [held EXCEPT ![p] = Null]

-----------------------------------------------------------------------------
(* Requests of the user                                                    *)

\* send_chat_stream up to the commit of accept_chat_request.
Accept(p, d) ==
    /\ at[p] # "down"
    /\ state[d] = "absent"
    /\ \A e \in Requests : e < d => state[e] # "absent"
    /\ Cardinality(Active) < ActiveLimit
    /\ state' = [state EXCEPT ![d] = "queued"]
    /\ due' = due \cup {d}
    /\ calling' = calling \cup {p}
    /\ UNCHANGED <<sent, owner, lapsed, age, hostVars, workerVars, faults>>

\* _ensure_dispatch_worker: a registered thread that is alive is enough.
Ensured(p) == at' = [at EXCEPT ![p] = IF @ = "none" THEN "loop" ELSE @]

EnsureWorker(p) ==
    /\ p \in calling
    /\ calling' = calling \ {p}
    /\ Ensured(p)
    /\ UNCHANGED <<rowVars, hostVars, held, faults>>

\* The same key and payload again: accept_chat_request returns the old
\* dispatch and changes nothing, and the worker is ensured as well.
Repeat(p, d) ==
    /\ state[d] # "absent"
    /\ at[p] = "none"
    /\ Ensured(p)
    /\ UNCHANGED <<rowVars, hostVars, held, calling, faults>>

\* cancel_host_dispatch.
Cancel(d) ==
    /\ state[d] \in {"queued", "waiting_host"}
    /\ Finish(d, "canceled")
    /\ UNCHANGED <<sent, due, age, hostVars, workerVars, calling, faults>>

-----------------------------------------------------------------------------
(* The worker                                                              *)

\* Mutant: any active dispatch may be claimed.
HeadOfNothing(d) == d \in Active

\* The oldest active dispatch, and only that one, may be claimed.
Head(d) == d \in Active /\ \A e \in Active : d <= e

\* Mutant: an expired claim is not taken over.
ClaimableUnowned(d) ==
    /\ Head(d)
    /\ owner[d] = Null
    /\ state[d] \in {"waiting_host", "reconciling_acceptance", "accepted"} => d \in due

Claimable(d) ==
    /\ Head(d)
    /\ owner[d] = Null \/ d \in lapsed
    /\ state[d] \in {"waiting_host", "reconciling_acceptance", "accepted"} => d \in due

\* Where _process_host_dispatch enters with the row it was given.
Entry(d) ==
    CASE state[d] = "accepted" -> "observe"
      [] state[d] = "reconciling_acceptance" -> "doubtful"
      [] OTHER -> IF d \in sent THEN "reclaimed" ELSE "claimed"

\* claim_next_host_dispatch ...
Claim(p, d) ==
    /\ at[p] = "loop"
    /\ Claimable(d)
    /\ state' = [state EXCEPT ![d] = IF @ \in {"queued", "waiting_host"} THEN "dispatching" ELSE @]
    /\ owner' = [owner EXCEPT ![d] = p]
    /\ lapsed' = lapsed \ {d}
    /\ held' = [held EXCEPT ![p] = d]
    /\ Go(p, Entry(d))
    /\ UNCHANGED <<sent, due, age, hostVars, calling, faults>>

\* ... or None; the worker then asks whether any work is pending.
ClaimNothing(p) ==
    /\ at[p] = "loop"
    /\ \A d \in Requests : ~Claimable(d)
    /\ Go(p, "look")
    /\ UNCHANGED <<rowVars, hostVars, held, calling, faults>>

\* host_dispatch_work_pending: without work the thread returns.
Look(p) ==
    /\ at[p] = "look"
    /\ Go(p, IF Active = {} THEN "leave" ELSE "loop")
    /\ UNCHANGED <<rowVars, hostVars, held, calling, faults>>

\* The finally clause takes the thread off the register.
Leave(p) ==
    /\ at[p] = "leave"
    /\ Go(p, "none")
    /\ UNCHANGED <<rowVars, hostVars, held, calling, faults>>

\* finish_host_dispatch, the last store call for a dispatch.  The worker has
\* decided on s before; what it decided on does not change while it holds
\* the claim, so the decision is part of this step.
Conclude(p, s) ==
    /\ Holds(p)
    /\ Finish(held[p], s)
    /\ Drop(p)
    /\ UNCHANGED <<sent, due, age, hostVars, calling, faults>>

\* Mutant: every overdue request is reported as not sent.
DeadlinePassedUnasked(p) ==
    /\ at[p] \in {"claimed", "reclaimed", "doubtful"}
    /\ age[held[p]] # "fresh"
    /\ Conclude(p, "expired")

\* host_dispatch_deadline_passed: past the deadline the request ends, as
\* unknown if the row it was claimed with had been sent ...
DeadlinePassed(p) ==
    /\ at[p] \in {"claimed", "reclaimed", "doubtful"}
    /\ age[held[p]] # "fresh"
    /\ Conclude(p, IF at[p] = "claimed" THEN "expired" ELSE "acceptance_unknown")

\* ... and before it the worker goes on.
InTime(p) ==
    /\ at[p] \in {"claimed", "reclaimed", "doubtful"}
    /\ age[held[p]] = "fresh"
    /\ Go(p, IF at[p] = "doubtful" THEN "reconcile" ELSE "probe")
    /\ UNCHANGED <<rowVars, hostVars, held, calling, faults>>

\* mark_host_dispatch_waiting: wait for the host, or expire.
Defer(p) ==
    LET d == held[p] IN
    /\ Holds(p)
    /\ IF age[d] = "fresh"
         THEN /\ state' = [state EXCEPT ![d] = "waiting_host"]
              /\ owner' = [owner EXCEPT ![d] = Null]
              /\ lapsed' = lapsed \ {d}
              /\ sent' = sent \ {d}
              /\ due' = due \ {d}
         ELSE Finish(d, "expired") /\ UNCHANGED <<sent, due>>
    /\ Drop(p)
    /\ UNCHANGED <<age, hostVars, calling, faults>>

\* The probe meets a transport error.
HostUnreachable(p) == at[p] = "probe" /\ Defer(p)

\* Another readiness error, or the message or an attachment is gone.
Undeliverable(p) == at[p] = "probe" /\ Conclude(p, "failed_before_accept")

\* Mutant: the attempt is recorded without the claim token.
RecordAttemptUnfenced(p) ==
    /\ at[p] = "probe"
    /\ state' = [state EXCEPT ![held[p]] = "dispatching"]
    /\ sent' = sent \cup {held[p]}
    /\ Go(p, "open")
    /\ UNCHANGED <<owner, lapsed, due, age, hostVars, held, calling, faults>>

\* The host is ready and the payload is there: record_host_dispatch_attempt.
RecordAttempt(p) ==
    /\ at[p] = "probe"
    /\ Holds(p)
    /\ state' = [state EXCEPT ![held[p]] = "dispatching"]
    /\ sent' = sent \cup {held[p]}
    /\ Go(p, "open")
    /\ UNCHANGED <<owner, lapsed, due, age, hostVars, held, calling, faults>>

\* The gateway client writes chat.send, after connect, preflight and bind.
\* No store call guards this step.
WriteFrame(p) ==
    /\ at[p] = "open"
    /\ copies' = [copies EXCEPT ![held[p]] = @ + 1]
    /\ host' = [host EXCEPT ![held[p]] = IF @ = "nothing" THEN "frame" ELSE @]
    /\ Go(p, "wire")
    /\ UNCHANGED <<rowVars, held, calling, faults>>

\* A transport error in the stages connect, preflight_abort and bind.
ConnectFails(p) == at[p] = "open" /\ Defer(p)

\* The host refuses the connection, the binding or the idle wait, or the
\* request itself with an answer to chat.send.
Refused(p) ==
    /\ at[p] = "open" \/ (at[p] = "wire" /\ host[held[p]] = "refused")
    /\ Conclude(p, "failed_before_accept")

\* _may_have_reached_host: the connection closed, the answer timed out or
\* the client ended without a last frame.
AnswerLost(p) ==
    /\ at[p] \in {"open", "wire"}
    /\ Holds(p)
    /\ state' = [state EXCEPT ![held[p]] = "reconciling_acceptance"]
    /\ Go(p, "reconcile")
    /\ UNCHANGED <<sent, owner, lapsed, due, age, hostVars, held, calling, faults>>

\* The socket reports an error while chat.send is unanswered: the code
\* GATEWAY_CONNECTION_FAILED with the stage send_accept is neither safe to
\* defer nor among the codes that may have reached the host.
SocketError(p) ==
    /\ at[p] = "wire"
    /\ Conclude(p, "failed_before_accept")

\* The final event overtakes the answer: the stream ends without accepted.
EndsUnaccepted(p) ==
    /\ at[p] = "wire"
    /\ host[held[p]] = "answered"
    /\ Go(p, "reconcile")
    /\ UNCHANGED <<rowVars, hostVars, held, calling, faults>>

\* mark_host_dispatch_accepted.
MarkAccepted(p) ==
    /\ Holds(p)
    /\ state' = [state EXCEPT ![held[p]] = "accepted"]
    /\ UNCHANGED <<sent, owner, lapsed, due, age, hostVars, held, calling, faults>>

\* The accepted item of the stream.
Accepted(p) ==
    /\ at[p] = "wire"
    /\ host[held[p]] \in Observed
    /\ MarkAccepted(p)
    /\ Go(p, "stream")

\* Mutant: the end of the stream counts as the answer.
EndedEarly(p) ==
    \/ at[p] \in {"stream", "found"} /\ Conclude(p, "completed")
    \/ at[p] \in {"wire", "stream"} /\ host[held[p]] = "broke" /\ Conclude(p, "failed")

\* A terminal chat item: the answer that the history confirms or had shown
\* during reconciliation, or a failure.
Ended(p) ==
    \/ at[p] = "stream" /\ host[held[p]] = "answered" /\ Conclude(p, "completed")
    \/ at[p] = "found" /\ Conclude(p, "completed")
    \/ at[p] \in {"wire", "stream"} /\ host[held[p]] = "broke" /\ Conclude(p, "failed")

\* The stream breaks after acceptance, or its answer is not in the history.
StreamLost(p) ==
    /\ at[p] = "stream"
    /\ Go(p, "observe")
    /\ UNCHANGED <<rowVars, hostVars, held, calling, faults>>

\* _reconcile_host_acceptance finds the prompt in the history ...
FoundRun(p) ==
    /\ at[p] = "reconcile"
    /\ host[held[p]] \in Observed
    /\ MarkAccepted(p)
    /\ Go(p, IF host[held[p]] = "answered" THEN "found" ELSE "observe")

\* ... does not find it, or does not reach the host: ask again, or give up
\* at the deadline (defer_host_dispatch_reconciliation) ...
DeferReconciliation(p) ==
    LET d == held[p] IN
    /\ at[p] = "reconcile"
    /\ Holds(p)
    /\ IF age[d] = "fresh"
         THEN /\ state' = [state EXCEPT ![d] = "reconciling_acceptance"]
              /\ owner' = [owner EXCEPT ![d] = Null]
              /\ lapsed' = lapsed \ {d}
              /\ due' = due \ {d}
         ELSE Finish(d, "acceptance_unknown") /\ UNCHANGED due
    /\ Drop(p)
    /\ UNCHANGED <<sent, age, hostVars, calling, faults>>

\* ... or the host answers with another error.
Unresolvable(p) == at[p] = "reconcile" /\ Conclude(p, "acceptance_unknown")

\* defer_host_dispatch_result.
DeferResult(p) ==
    LET d == held[p] IN
    /\ Holds(p)
    /\ state[d] = "accepted"
    /\ owner' = [owner EXCEPT ![d] = Null]
    /\ lapsed' = lapsed \ {d}
    /\ due' = due \ {d}
    /\ Drop(p)
    /\ UNCHANGED <<state, sent, age, hostVars, calling, faults>>

\* _observe_accepted_dispatch: the answer is there, is not there yet, or has
\* not come within the result deadline.
Observe(p) ==
    /\ at[p] = "observe"
    /\ \/ host[held[p]] = "answered" /\ Conclude(p, "completed")
       \/ age[held[p]] # "stale" /\ DeferResult(p)
       \/ age[held[p]] = "stale" /\ Conclude(p, "result_unknown")

\* HOST_DISPATCH_CLAIM_LOST at the next store call.
ClaimLost(p) ==
    /\ at[p] \in WorkPlaces
    /\ ~Holds(p)
    /\ Drop(p)
    /\ UNCHANGED <<rowVars, hostVars, calling, faults>>

\* Mutant: an error after acceptance is handled like one before it.
HandleErrorForgetful(p) ==
    /\ at[p] = "error"
    /\ Conclude(p, IF held[p] \in sent THEN "acceptance_unknown" ELSE "failed_before_accept")

\* _finish_dispatch_internal_error reads the row again.
HandleError(p) ==
    /\ at[p] = "error"
    /\ Holds(p)
    /\ IF state[held[p]] = "accepted"
         THEN DeferResult(p)
         ELSE Conclude(p, IF held[p] \in sent THEN "acceptance_unknown" ELSE "failed_before_accept")

-----------------------------------------------------------------------------
(* Faults                                                                  *)

\* An exception inside _process_host_dispatch.
Throw(p) ==
    /\ at[p] \in WorkPlaces \ {"error"}
    /\ faults < MaxFaults
    /\ faults' = faults + 1
    /\ Go(p, "error")
    /\ UNCHANGED <<rowVars, hostVars, held, calling>>

\* An exception in the error handler: the claim stays in the row. The fault is
\* already counted by Throw.
ErrorUnrecorded(p) ==
    /\ at[p] = "error"
    /\ Drop(p)
    /\ UNCHANGED <<rowVars, hostVars, calling, faults>>

\* The process ends; its threads end with it.
Crash(p) ==
    /\ at[p] # "down"
    /\ faults < MaxFaults
    /\ faults' = faults + 1
    /\ at' = [at EXCEPT ![p] = "down"]
    /\ held' = [held EXCEPT ![p] = Null]
    /\ calling' = calling \ {p}
    /\ UNCHANGED <<rowVars, hostVars>>

\* What recover_host_dispatches makes of the state of a row.
Recovered(d) ==
    IF state[d] # "dispatching" THEN state[d]
    ELSE IF d \in sent THEN "reconciling_acceptance" ELSE "waiting_host"

\* WorkspaceApplication.__init__: every active row loses its claim, whoever
\* holds it, and a worker is started if there is work.
Start(p) ==
    /\ at[p] = "down"
    /\ state' = [d \in Requests |-> Recovered(d)]
    /\ owner' = [d \in Requests |-> IF d \in Active THEN Null ELSE owner[d]]
    /\ lapsed' = lapsed \ Active
    /\ Go(p, IF Active = {} THEN "none" ELSE "loop")
    /\ UNCHANGED <<sent, due, age, hostVars, held, calling, faults>>

-----------------------------------------------------------------------------
(* Time and the host                                                       *)

\* next_attempt_at passes.
ComeDue(d) ==
    /\ d \in Active \ due
    /\ due' = due \cup {d}
    /\ UNCHANGED <<state, sent, owner, lapsed, age, hostVars, workerVars, calling, faults>>

\* deadline_at passes, 60 seconds after the request; the result deadline, 30
\* minutes after acceptance, comes later.
Pass(d) ==
    /\ d \in Active
    /\ \/ age[d] = "fresh" /\ age' = [age EXCEPT ![d] = "late"]
       \/ age[d] = "late" /\ state[d] = "accepted" /\ age' = [age EXCEPT ![d] = "stale"]
    /\ UNCHANGED <<state, sent, owner, lapsed, due, hostVars, workerVars, calling, faults>>

\* A claim lasts 360 seconds, so it outlives the deadline of its request.  It
\* is a fault if the worker is still at the dispatch then.
Lapse(d) ==
    /\ owner[d] # Null /\ d \notin lapsed
    /\ age[d] # "fresh"
    /\ \A p \in Procs : owner[d] = p => held[p] # d
    /\ lapsed' = lapsed \cup {d}
    /\ UNCHANGED <<state, sent, owner, due, age, hostVars, workerVars, calling, faults>>

Overrun(p) ==
    /\ Holds(p) /\ held[p] \notin lapsed
    /\ age[held[p]] # "fresh"
    /\ faults < MaxFaults
    /\ faults' = faults + 1
    /\ lapsed' = lapsed \cup {held[p]}
    /\ UNCHANGED <<state, sent, owner, due, age, hostVars, workerVars, calling>>

\* The host loses or refuses a frame, or starts a run that answers or fails.
Host(d) ==
    /\ \/ /\ host[d] = "frame"
          /\ \E h \in {"lost", "refused", "running"} : host' = [host EXCEPT ![d] = h]
       \/ /\ host[d] = "running"
          /\ \E h \in {"answered", "broke"} : host' = [host EXCEPT ![d] = h]
    /\ UNCHANGED <<rowVars, copies, workerVars, calling, faults>>

-----------------------------------------------------------------------------
Deliver(p) ==
    \/ \E d \in Requests : Claim(p, d)
    \/ ClaimNothing(p) \/ Look(p) \/ Leave(p)
    \/ DeadlinePassed(p) \/ InTime(p)
    \/ HostUnreachable(p) \/ Undeliverable(p)
    \/ RecordAttempt(p) \/ WriteFrame(p) \/ ConnectFails(p) \/ Refused(p)
    \/ AnswerLost(p) \/ SocketError(p) \/ EndsUnaccepted(p) \/ Accepted(p)
    \/ Ended(p) \/ StreamLost(p)
    \/ FoundRun(p) \/ DeferReconciliation(p) \/ Unresolvable(p)
    \/ Observe(p) \/ ClaimLost(p) \/ HandleError(p)

Fault(p) == Throw(p) \/ ErrorUnrecorded(p) \/ Crash(p) \/ Overrun(p)

Next ==
    \/ \E p \in Procs :
          \/ \E d \in Requests : Accept(p, d) \/ Repeat(p, d)
          \/ EnsureWorker(p) \/ Deliver(p) \/ Fault(p) \/ Start(p)
    \/ \E d \in Requests : Cancel(d) \/ ComeDue(d) \/ Pass(d) \/ Lapse(d) \/ Host(d)

Spec == Init /\ [][Next]_vars

\* Threads run and clocks advance; the host, the user and the restart of a
\* process owe nothing.
FairSpec ==
    /\ Spec
    /\ \A p \in Procs : WF_vars(EnsureWorker(p)) /\ WF_vars(Deliver(p))
    /\ \A d \in Requests : WF_vars(ComeDue(d)) /\ WF_vars(Pass(d)) /\ WF_vars(Lapse(d))

-----------------------------------------------------------------------------
(* Properties                                                              *)

\* Type correctness; a worker holds a dispatch exactly while it processes one.
TypeOK ==
    /\ state \in [Requests -> {"absent"} \cup ActiveStates \cup TerminalStates]
    /\ owner \in [Requests -> Procs \cup {Null}]
    /\ age \in [Requests -> {"fresh", "late", "stale"}]
    /\ copies \in [Requests -> Nat]
    /\ host \in [Requests -> HostStates]
    /\ sent \in SUBSET Requests
    /\ lapsed \in SUBSET Requests
    /\ due \in SUBSET Requests
    /\ calling \in SUBSET Procs
    /\ at \in [Procs -> Places]
    /\ held \in [Procs -> Requests \cup {Null}]
    /\ faults \in 0..MaxFaults
    /\ \A p \in Procs : held[p] = Null <=> at[p] \notin WorkPlaces

\* A request is written to the host's socket at most once, whatever crashes,
\* lapsed claims, restarts beside a live worker and retries come between: the
\* fencing of record_host_dispatch_attempt and the use of request_sent_at by
\* recovery and by the deadline together.
OneCopy == \A d \in Requests : copies[d] <= 1

\* The states whose text says that the request did not enter the business
\* system, or that allow another delivery: nothing was written to the host,
\* not even by a worker that has lost its claim.
NotEntered ==
    \A d \in Requests :
        state[d] \in {"queued", "waiting_host", "expired", "canceled"} => copies[d] = 0

\* A dispatch that is completed, failed, accepted or without a known result
\* stands for a run of the host, and a completed one for an answered run.
OutcomeIsReal ==
    \A d \in Requests :
        /\ state[d] \in {"accepted", "result_unknown"} => host[d] \in Observed
        /\ state[d] = "completed" => host[d] = "answered"
        /\ state[d] = "failed" => host[d] = "broke"

\* A request is written to the host only when every earlier request of the
\* conversation has ended: the workers of two processes keep the order of
\* created_at that claim_next_host_dispatch selects by.
InOrder ==
    [][\A d \in Requests :
          copies'[d] > copies[d] =>
              \A e \in Requests : e < d => state[e] \in TerminalStates]_vars

\* Acceptance is irreversible: an accepted dispatch never becomes deliverable
\* or doubtful again, and a terminal one never changes.
NoWayBack ==
    [][\A d \in Requests :
          /\ state[d] = "accepted" =>
                state'[d] \in {"accepted", "completed", "failed", "result_unknown"}
          /\ state[d] \in TerminalStates => state'[d] = state[d]]_vars

\* A worker that is at work when a dispatch is active does not leave before
\* the dispatch has ended, even if it waits behind others, its host is away
\* or another process died with its claim; only a crash excuses the worker.
\* A thread that has looked and found nothing ("leave") is not at work: it is
\* still alive when _ensure_dispatch_worker tests it, so a request accepted
\* then waits for the next call of that account, or for a restart.
Waits(p, d) == d \in Active /\ at[p] \notin {"down", "none", "leave"}
Served(p, d) == d \notin Active \/ at[p] = "down"
QueueIsServed == \A p \in Procs, d \in Requests : Waits(p, d) ~> Served(p, d)

\* The design's table of states: a request that failed before acceptance has
\* not entered the host.
\* Does not hold (README, section 6).
FailedBeforeAcceptIsTrue ==
    \A d \in Requests : state[d] = "failed_before_accept" => host[d] \notin Observed

=============================================================================
