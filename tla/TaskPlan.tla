------------------------------- MODULE TaskPlan -------------------------------
(***************************************************************************)
(* One durable task plan and everything that works on it: the rows of      *)
(* agentbridge/core/task_plans.py, the runtime of task_plan_runtime.py,    *)
(* the resume, cancel, poll and invoke paths of central_service.py, the    *)
(* operations of operations.py and capability_runtime.py, the two halves   *)
(* of a controlled write in controlled_write_executor.py, and the trusted  *)
(* cards its steps wait on.                                                *)
(*                                                                         *)
(* The tool calls run on server threads (asyncio.to_thread), the recovery  *)
(* cycle on a thread of its own.  An action is one SQLite transaction or   *)
(* one read, with the local computation around it, of one thread; the      *)
(* in-process plan lock and task lock are variables.  A plan lock that is  *)
(* taken and released within one transaction is only tested.               *)
(*                                                                         *)
(* Abstractions: the steps form a chain and the write, if any, is last     *)
(* (task_plan_validation.py admits one write sink); a card's expiry is a   *)
(* step of the clock; capability versions never change, and skill grants,  *)
(* user grants and governance pauses are among the reasons for which a     *)
(* capability may fail before the commit boundary; "pending" and "running" *)
(* operations are one state; login cards are left out; the plan is never   *)
(* revised.                                                                *)
(***************************************************************************)
EXTENDS Integers, Sequences, FiniteSets

CONSTANTS
    Kinds,        \* the kinds of the plan's steps, in order
    Hosts,        \* threads that serve the tool calls of hosts
    Cancelers,    \* threads that serve cancel calls
    Pollers,      \* threads that serve interaction polls
    Maintainers,  \* threads that run the recovery cycle
    Keys,         \* idempotency keys hosts resume an interaction with
    CancelTools,  \* cancel entries in use: "plan" (plan tool), "task" (task tool)
    MaxWarnings,  \* bound: continuable warnings of the business system
    MaxCrashes,   \* bound: restarts of the service
    MaxRevocations, \* bound (0 or 1): revocations of the execution authority
    Null

Threads == Hosts \cup Cancelers \cup Pollers \cup Maintainers

Steps == 1 .. Len(Kinds)

ASSUME KindsAssumption ==
    /\ Kinds \in Seq({"read", "transform", "write"})
    /\ Len(Kinds) > 0
    /\ \A s \in Steps : Kinds[s] = "write" => s = Len(Kinds)

ASSUME BoundsAssumption ==
    /\ IsFiniteSet(Keys)
    /\ MaxWarnings \in Nat /\ MaxCrashes \in Nat /\ MaxRevocations \in {0, 1}
    /\ CancelTools \subseteq {"plan", "task"}

\* Bounds that follow: a step starts again only after a restart, a field card
\* gives one authorization per resume key, a warning gives one more.
MaxAttempts == 1 + MaxCrashes
MaxAuths == MaxAttempts * Cardinality(Keys) + MaxWarnings

Fields == {"field"} \X (1 .. MaxAttempts)
Auths == {"auth"} \X (1 .. MaxAuths)
Interactions == Fields \cup Auths

\* Operations are identified by their idempotency keys.
StepOps == {"step"} \X Steps \X (1 .. MaxAttempts)
ResumeOps == {"resume"} \X Interactions \X Keys
OpIds == StepOps \cup ResumeOps

ASSUME NullAssumption ==
    Null \notin Threads \cup Steps \cup Interactions \cup ({"auth"} \X Nat) \cup OpIds

VARIABLES
    plan_state, current_step, commit_op,      \* task_plans
    step_state, step_int, attempt,            \* task_plan_steps
    step_at,                                  \* runtime that last wrote the step
    op_state, op_int, op_at,                  \* operations
    card,                                     \* field_submissions, write_authorizations
    consumer,                                 \* their consuming operation
    shown,                                    \* interactions delivered to the user
    request,                                  \* each authorized write in the business system
    writes,                                   \* how often it applied one (history)
    authority,                                \* is the plan's execution token valid
    runtime,                                  \* number of the running service process
    plan_lock, task_lock,                     \* owners of the two in-process locks
    pc, frame                                 \* the threads

planVars == <<plan_state, current_step, commit_op>>
stepVars == <<step_state, step_int, attempt, step_at>>
opVars == <<op_state, op_int, op_at>>
cardVars == <<card, consumer>>
worldVars == <<request, writes, authority, runtime>>
lockVars == <<plan_lock, task_lock>>
threadVars == <<pc, frame>>
vars == <<planVars, stepVars, opVars, cardVars, shown, worldVars, lockVars, threadVars>>

ActivePlanStates == {"validated", "running", "waiting_user"}
TerminalPlanStates == {"succeeded", "failed", "outcome_unknown", "canceled"}
OpStates == {"absent", "running", "requires_user_action", "succeeded", "empty",
             "incomplete", "failed", "unknown"}
LiveCards == {"pending", "submitted", "approved"}

\* A response names the status of its operation and the interaction it asks for.
Responses == [st : OpStates, int : Interactions \cup {Null}]
NoResponse == [st |-> "absent", int |-> Null]

\* What a thread remembers between two transactions.
Frames == [int : Interactions \cup {Null},   \* the interaction it works for
           seen : STRING,                    \* that interaction's state when loaded
           bound : BOOLEAN,                  \* was it bound to the plan when loaded
           op : OpIds \cup {Null},           \* the operation it executes
           step : Steps \cup {Null},         \* the step it works for
           resp : Responses,
           retire : SUBSET Interactions]
EmptyFrame == [int |-> Null, seen |-> "none", bound |-> FALSE, op |-> Null, step |-> Null,
               resp |-> NoResponse, retire |-> {}]

-----------------------------------------------------------------------------
(* Threads and locks.                                                        *)

Goto(t, label, f) ==
    /\ pc' = [pc EXCEPT ![t] = label]
    /\ frame' = [frame EXCEPT ![t] = f]

\* The call ends, by a return or by an exception: its locks are released.
\* Mutant: a call ends without releasing what it locked.
ReleasedNever(lock, t) == lock

Released(lock, t) == IF lock = t THEN Null ELSE lock

Return(t) ==
    /\ Goto(t, "idle", EmptyFrame)
    /\ plan_lock' = Released(plan_lock, t)
    /\ task_lock' = Released(task_lock, t)

\* _plan_lock: a reentrant lock per plan.
\* Mutant: no lock at all.
MayLockPlanAlways(t) == TRUE

MayLockPlan(t) == plan_lock \in {Null, t}

LockPlanAndGoto(t, label, f) ==
    /\ plan_lock' = t
    /\ UNCHANGED task_lock
    /\ Goto(t, label, f)

-----------------------------------------------------------------------------
(* What the plan store and the interaction envelopes say of the rows.        *)

ActiveSteps == {s \in Steps : step_state[s] \in {"queued", "running", "waiting_user"}}

\* step_for_interaction and the JOIN of guard_authorization_consumption: mark_
\* step_failed clears the binding, cancel keeps it.
Bound(i) == \E s \in Steps : step_int[s] = i

BoundStep(i) == CHOOSE s \in Steps : step_int[s] = i

StepInteractions == {step_int[s] : s \in Steps} \ {Null}

\* begin_next_step: the first queued step whose dependencies have succeeded.
NextSteps ==
    {s \in Steps : step_state[s] = "queued" /\ \A r \in 1 .. s - 1 : step_state[r] = "succeeded"}

\* _project_state.
TerminalCard(s) == s \in {"rejected", "expired", "superseded"}
ReadyCard(s) == s \in {"submitted", "approved"}

\* Mutant: supersede does not look at the state it replaces.
SupersedingAny(S) ==
    [i \in Interactions |-> IF i \in S /\ card[i] # "absent" THEN "superseded" ELSE card[i]]

Superseding(S) ==
    [i \in Interactions |-> IF i \in S /\ card[i] \in LiveCards THEN "superseded" ELSE card[i]]

NextAuth == <<"auth", 1 + Cardinality({a \in Auths : card[a] # "absent"})>>

\* write_authorizations.create under the supersession key of the plan's target.
WithNewAuth == [Superseding(Auths) EXCEPT ![NextAuth] = "pending"]

\* The live field cards of the plan's target give way to a new one.
WithNewField(f) == [Superseding(Fields) EXCEPT ![f] = "pending"]

-----------------------------------------------------------------------------
Init ==
    /\ plan_state = "absent" /\ current_step = Null /\ commit_op = Null
    /\ step_state = [s \in Steps |-> "queued"]
    /\ step_int = [s \in Steps |-> Null]
    /\ attempt = [s \in Steps |-> 0]
    /\ step_at = [s \in Steps |-> 0]
    /\ op_state = [o \in OpIds |-> "absent"]
    /\ op_int = [o \in OpIds |-> Null]
    /\ op_at = [o \in OpIds |-> 0]
    /\ card = [i \in Interactions |-> "absent"]
    /\ consumer = [i \in Interactions |-> Null]
    /\ shown = {}
    /\ request = [a \in Auths |-> "none"]
    /\ writes = 0
    /\ authority = TRUE
    /\ runtime = 0
    /\ plan_lock = Null /\ task_lock = Null
    /\ pc = [t \in Threads |-> "idle"]
    /\ frame = [t \in Threads |-> EmptyFrame]

-----------------------------------------------------------------------------
(* How a plan ends.                                                          *)

\* complete: with skip_queued the steps that have not started are skipped.
CompletePlan(t) ==
    /\ plan_state' = "succeeded"
    /\ current_step' = Null
    /\ step_state' = [s \in Steps |-> IF step_state[s] = "queued" THEN "skipped" ELSE step_state[s]]
    /\ Return(t)
    /\ UNCHANGED <<commit_op, step_int, attempt, step_at, opVars, cardVars, shown, worldVars>>

\* _fail_plan up to its retirement of the cards the plan was waiting on, which
\* follows outside the transaction of mark_step_failed.
MarkStepFailed(s, st) ==
    /\ plan_state' = st
    /\ current_step' = s
    /\ step_state' = [r \in Steps |-> IF r = s THEN st
                                      ELSE IF step_state[r] = "queued" THEN "canceled"
                                      ELSE step_state[r]]
    /\ step_int' = [step_int EXCEPT ![s] = Null]
    /\ step_at' = [step_at EXCEPT ![s] = runtime]
    /\ UNCHANGED <<commit_op, attempt>>

FailPlan(t, s, st) ==
    /\ MarkStepFailed(s, st)
    /\ LockPlanAndGoto(t, "retire", [EmptyFrame EXCEPT !.retire = StepInteractions])
    /\ UNCHANGED <<cardVars, shown, worldVars>>

\* TaskPlanStore.cancel: refused once a commit has begun.
\* Mutant: cancel does not look at the marker.
CancelableAlways == plan_state \in ActivePlanStates

Cancelable == plan_state \in ActivePlanStates /\ commit_op = Null

CancelPlan(t) ==
    /\ plan_state' = "canceled"
    /\ current_step' = Null
    /\ step_state' = [s \in Steps |-> IF s \in ActiveSteps THEN "canceled" ELSE step_state[s]]
    /\ LockPlanAndGoto(t, "retire", [EmptyFrame EXCEPT !.retire = StepInteractions])
    /\ UNCHANGED <<commit_op, step_int, attempt, step_at, opVars, cardVars, shown, worldVars>>

\* retire_plan_interactions: one supersede transaction per card.
Retire(t) ==
    /\ pc[t] = "retire"
    /\ \/ /\ frame[t].retire = {}
          /\ Return(t)
          /\ UNCHANGED cardVars
       \/ \E i \in frame[t].retire :
            /\ card' = Superseding({i})
            /\ Goto(t, "retire", [frame[t] EXCEPT !.retire = @ \ {i}])
            /\ UNCHANGED <<consumer, lockVars>>
    /\ UNCHANGED <<planVars, stepVars, opVars, shown, worldVars>>

-----------------------------------------------------------------------------
(* Starting and advancing the plan.                                          *)

\* prepare_task_plan: creates the plan, or finds it under its idempotency key;
\* either way the call goes on to advance.
PrepareTaskPlan(t) ==
    /\ t \in Hosts /\ pc[t] = "idle"
    /\ plan_state' = IF plan_state = "absent" THEN "validated" ELSE plan_state
    /\ Goto(t, "advance", EmptyFrame)
    /\ UNCHANGED <<current_step, commit_op, stepVars, opVars, cardVars, shown, worldVars, lockVars>>

\* advance, the read of the plan at the head of its loop.
AllStepsDone == \A s \in Steps : step_state[s] \in {"succeeded", "skipped"}

AdvanceGet(t) ==
    /\ pc[t] = "advance" /\ MayLockPlan(t)
    /\ \/ /\ plan_state \notin ActivePlanStates \/ (commit_op # Null /\ ~AllStepsDone)
          /\ Return(t)
          /\ UNCHANGED <<planVars, stepVars, opVars, cardVars, shown, worldVars>>
       \/ /\ plan_state \in ActivePlanStates /\ commit_op # Null /\ AllStepsDone
          /\ CompletePlan(t)
       \/ /\ plan_state \in ActivePlanStates /\ commit_op = Null
          /\ LockPlanAndGoto(t, "begin", EmptyFrame)
          /\ UNCHANGED <<planVars, stepVars, opVars, cardVars, shown, worldVars>>

\* begin_next_step and the check of the execution authority that follows it.
\* The plan lock keeps everyone from ending the plan since AdvanceGet, but not
\* from entering the commit boundary.
RunStep(t, s) ==
    IF authority
    THEN /\ Goto(t, "invoke", [EmptyFrame EXCEPT !.step = s, !.op = <<"step", s, attempt'[s]>>])
         /\ UNCHANGED lockVars
    ELSE /\ Goto(t, "fail", [EmptyFrame EXCEPT !.step = s, !.resp.st = "failed"])
         /\ UNCHANGED lockVars

HasCurrentStep ==
    current_step # Null /\ step_state[current_step] \in {"running", "waiting_user"}

BeginNextStep(t) ==
    /\ pc[t] = "begin"
    /\ \/ /\ HasCurrentStep /\ step_state[current_step] = "waiting_user"
          /\ Return(t)
          /\ UNCHANGED <<planVars, stepVars>>
       \/ /\ HasCurrentStep /\ step_state[current_step] = "running"
          /\ UNCHANGED <<planVars, stepVars>>
          /\ RunStep(t, current_step)
       \/ /\ ~HasCurrentStep
          /\ \E s \in NextSteps :
                /\ plan_state' = "running"
                /\ current_step' = s
                /\ step_state' = [step_state EXCEPT ![s] = "running"]
                /\ attempt' = [attempt EXCEPT ![s] = @ + 1]
                /\ step_at' = [step_at EXCEPT ![s] = runtime]
                /\ UNCHANGED <<commit_op, step_int>>
                /\ RunStep(t, s)
    /\ UNCHANGED <<opVars, cardVars, shown, worldVars>>

\* No step is left: _complete_plan.
NoStepLeft(t) ==
    /\ pc[t] = "begin"
    /\ ~HasCurrentStep /\ NextSteps = {}
    /\ CompletePlan(t)

\* _fail_plan where advance catches an exception of a step.
FailStep(t) ==
    /\ pc[t] = "fail"
    /\ FailPlan(t, frame[t].step, "failed")
    /\ UNCHANGED opVars

-----------------------------------------------------------------------------
(* Operations: service.invoke, CapabilityEngine.invoke and _invoke_transform. *)

\* invoke runs under the task lock, a transform does not.
TakesTaskLock(o) == o[1] = "step" => Kinds[o[2]] # "transform"

\* Where the response of an operation goes.
AfterOperation(o) == IF o[1] = "step" THEN "consume" ELSE "respond"

Invoke(t) ==
    LET o == frame[t].op
    IN  /\ pc[t] = "invoke"
        /\ TakesTaskLock(o) => task_lock = Null
        /\ \/ /\ op_state[o] = "absent"
              /\ op_state' = [op_state EXCEPT ![o] = "running"]
              /\ op_at' = [op_at EXCEPT ![o] = runtime]
              /\ task_lock' = IF TakesTaskLock(o) THEN t ELSE task_lock
              /\ Goto(t, "handler", frame[t])
              /\ UNCHANGED <<op_int, plan_lock>>
           \/ /\ op_state[o] # "absent"
              /\ Goto(t, AfterOperation(o),
                      [frame[t] EXCEPT !.resp = [st |-> op_state[o], int |-> op_int[o]]])
              /\ UNCHANGED <<opVars, lockVars>>
        /\ UNCHANGED <<planVars, stepVars, cardVars, shown, worldVars>>

\* The handler has its outcome: mark_succeeded, mark_failed, mark_unknown or
\* mark_requires_user_action, and the task lock is released.
Outcome(t, st, i) == Goto(t, "finish", [frame[t] EXCEPT !.resp = [st |-> st, int |-> i]])

FinishOperation(t) ==
    LET o == frame[t].op
    IN  /\ pc[t] = "finish"
        /\ op_state' = [op_state EXCEPT ![o] = frame[t].resp.st]
        /\ op_int' = [op_int EXCEPT ![o] = frame[t].resp.int]
        /\ op_at' = [op_at EXCEPT ![o] = runtime]
        /\ task_lock' = Released(task_lock, t)
        /\ Goto(t, AfterOperation(o), frame[t])
        /\ UNCHANGED <<planVars, stepVars, cardVars, shown, worldVars, plan_lock>>

Handles(t, kind) ==
    /\ pc[t] = "handler"
    /\ IF frame[t].op[1] = "step" THEN Kinds[frame[t].op[2]] = kind
                                  ELSE frame[t].op[2][1] = kind

\* A read, or a transform whose result may be empty or not cover its source.
ReadSource(t) ==
    /\ \/ Handles(t, "read") /\ \E st \in {"succeeded", "failed"} : Outcome(t, st, Null)
       \/ /\ Handles(t, "transform")
          /\ \E st \in {"succeeded", "empty", "incomplete", "failed"} : Outcome(t, st, Null)
    /\ UNCHANGED <<planVars, stepVars, opVars, cardVars, shown, worldVars, lockVars>>

\* resolve_field_input without a submission: the field card is created.
RequireFieldInput(t) ==
    LET f == <<"field", frame[t].op[3]>>
    IN  /\ Handles(t, "write")
        /\ card' = WithNewField(f)
        /\ Outcome(t, "requires_user_action", f)
        /\ UNCHANGED <<planVars, stepVars, opVars, consumer, shown, worldVars, lockVars>>

\* resolve_field_input with a submission.  A submission that is neither pending
\* nor submitted is unavailable: the caller is told to prepare again.
GetSubmission(t) ==
    LET f == frame[t].op[2]
    IN  /\ Handles(t, "field")
        /\ CASE card[f] = "pending" -> Outcome(t, "requires_user_action", f)
             [] card[f] = "submitted" -> Goto(t, "prepare", frame[t])
             [] OTHER -> Outcome(t, "requires_user_action", Null)
        /\ UNCHANGED <<planVars, stepVars, opVars, cardVars, shown, worldVars, lockVars>>

\* prepare: the adapter prepares the write, then the authorization is created;
\* the submission is consumed in a transaction of its own.
CreateAuthorization(t) ==
    /\ pc[t] = "prepare"
    /\ card' = WithNewAuth
    /\ Goto(t, "consume_field", [frame[t] EXCEPT !.resp.int = NextAuth])
    /\ UNCHANGED <<planVars, stepVars, opVars, consumer, shown, worldVars, lockVars>>

ConsumeSubmission(t) ==
    LET f == frame[t].op[2]
    IN  /\ pc[t] = "consume_field"
        /\ \/ /\ card[f] = "submitted"
              /\ card' = [card EXCEPT ![f] = "consumed"]
              /\ consumer' = [consumer EXCEPT ![f] = frame[t].op]
              /\ Outcome(t, "requires_user_action", frame[t].resp.int)
           \/ /\ card[f] # "submitted"
              /\ Outcome(t, "failed", Null)
              /\ UNCHANGED cardVars
        /\ UNCHANGED <<planVars, stepVars, opVars, shown, worldVars, lockVars>>

\* commit, up to the commit function: an authorization that is neither pending
\* nor approved is unavailable.
GetAuthorization(t) ==
    LET a == frame[t].op[2]
    IN  /\ Handles(t, "auth")
        /\ CASE card[a] = "pending" -> Outcome(t, "requires_user_action", a)
             [] card[a] = "approved" -> Goto(t, "boundary", frame[t])
             [] OTHER -> Outcome(t, "requires_user_action", Null)
        /\ UNCHANGED <<planVars, stepVars, opVars, cardVars, shown, worldVars, lockVars>>

\* The adapter fails, or the write is refused, before the commit boundary.
FailBeforeBoundary(t) ==
    /\ pc[t] \in {"prepare", "boundary"} \/ Handles(t, "write")
    /\ Outcome(t, "failed", Null)
    /\ UNCHANGED <<planVars, stepVars, opVars, cardVars, shown, worldVars, lockVars>>

\* guard_authorization_consumption.  An authorization that no step waits on has
\* no plan to guard it.
\* Mutant: an ended plan does not stop its commit.
GuardAllowsEnded(a) == Bound(a) => commit_op = Null /\ authority

GuardAllows(a) ==
    Bound(a) => plan_state \in ActivePlanStates /\ commit_op = Null /\ authority

\* consume: the authorization is used up in the transaction that lets it pass.
\* Mutant: it stays approved.
ConsumedForgotten(a) == card

Consumed(a) == [card EXCEPT ![a] = "consumed"]

\* Mutant: the plan is not told that its commit begins.
MarkCommitForgotten(a, o) == UNCHANGED <<planVars, stepVars>>

MarkCommit(a, o) ==
    IF Bound(a)
    THEN /\ plan_state' = "running"
         /\ commit_op' = o
         /\ step_state' = [step_state EXCEPT ![current_step] = "running"]
         /\ step_at' = [step_at EXCEPT ![current_step] = runtime]
         /\ UNCHANGED <<current_step, step_int, attempt>>
    ELSE UNCHANGED <<planVars, stepVars>>

\* enter_commit_boundary: consume and guard_authorization_consumption in one
\* transaction.
EnterCommitBoundary(t) ==
    LET a == frame[t].op[2]
    IN  /\ pc[t] = "boundary"
        /\ \/ /\ card[a] = "approved" /\ GuardAllows(a)
              /\ card' = Consumed(a)
              /\ consumer' = [consumer EXCEPT ![a] = frame[t].op]
              /\ MarkCommit(a, frame[t].op)
              /\ Goto(t, "send", frame[t])
           \/ /\ ~(card[a] = "approved" /\ GuardAllows(a))
              /\ Outcome(t, "failed", Null)
              /\ UNCHANGED <<planVars, stepVars, cardVars>>
        /\ UNCHANGED <<opVars, shown, worldVars, lockVars>>

\* The adapter submits the form.
SendWrite(t) ==
    /\ pc[t] = "send"
    /\ request' = [request EXCEPT ![frame[t].op[2]] = "sent"]
    /\ Goto(t, "outcome", frame[t])
    /\ UNCHANGED <<planVars, stepVars, opVars, cardVars, shown, writes, authority, runtime, lockVars>>

\* The commit function returns what it could verify.  Without an authoritative
\* answer, or without its readback, the outcome is unknown; a continuable
\* warning becomes a new authorization.
Verified(a) == request[a] = "applied"

CommitOutcome(t) ==
    LET a == frame[t].op[2]
    IN  /\ pc[t] = "outcome"
        /\ \/ Verified(a) /\ Outcome(t, "succeeded", Null) /\ UNCHANGED card
           \/ request[a] \in {"sent", "applied"} /\ Outcome(t, "unknown", Null) /\ UNCHANGED card
           \/ request[a] = "refused" /\ Outcome(t, "failed", Null) /\ UNCHANGED card
           \/ /\ request[a] = "warned"
              /\ card' = WithNewAuth
              /\ Outcome(t, "requires_user_action", NextAuth)
        /\ UNCHANGED <<planVars, stepVars, opVars, consumer, shown, worldVars, lockVars>>

-----------------------------------------------------------------------------
(* _consume_step_response, under the plan lock.                              *)

\* _update_step refuses a step that is neither running nor waiting.
Updatable(s) == step_state[s] \in {"running", "waiting_user"}

HasWriteSink == Kinds[Len(Kinds)] = "write"

\* The operation is still executed by another thread.
StepStillRunning(t) ==
    /\ pc[t] = "consume" /\ frame[t].resp.st = "running"
    /\ Return(t)
    /\ UNCHANGED <<planVars, stepVars, opVars, cardVars, shown, worldVars>>

\* mark_step_waiting, and the card is delivered.  A plan that waits again for
\* the user has no commit under way: the marker is cleared.
MarkerWhenWaiting == Null

MarkStepWaiting(t) ==
    LET s == frame[t].step
        i == frame[t].resp.int
    IN  /\ pc[t] = "consume" /\ frame[t].resp.st = "requires_user_action" /\ i # Null
        /\ Updatable(s)
        /\ plan_state' = "waiting_user"
        /\ current_step' = s
        /\ commit_op' = MarkerWhenWaiting
        /\ step_state' = [step_state EXCEPT ![s] = "waiting_user"]
        /\ step_int' = [step_int EXCEPT ![s] = i]
        /\ step_at' = [step_at EXCEPT ![s] = runtime]
        /\ shown' = shown \cup {i}
        /\ Return(t)
        /\ UNCHANGED <<attempt, opVars, cardVars, worldVars>>

\* mark_step_succeeded; the plan goes on to its next step, unless a transform
\* found nothing to do: then the plan is completed in a later transaction.
MarkStepSucceeded(t) ==
    LET s == frame[t].step
        st == frame[t].resp.st
    IN  /\ pc[t] = "consume" /\ Updatable(s)
        /\ st \in {"succeeded", "empty"} \/ (st = "incomplete" /\ ~HasWriteSink)
        /\ plan_state' = "running"
        /\ current_step' = Null
        /\ step_state' = [step_state EXCEPT ![s] = "succeeded"]
        /\ step_int' = [step_int EXCEPT ![s] = Null]
        /\ step_at' = [step_at EXCEPT ![s] = runtime]
        /\ Goto(t, IF st = "empty" THEN "nothing_to_do" ELSE "advance", EmptyFrame)
        /\ UNCHANGED <<commit_op, attempt, opVars, cardVars, shown, worldVars, lockVars>>

NothingToDo(t) ==
    /\ pc[t] = "nothing_to_do"
    /\ CompletePlan(t)

\* Every other response fails the plan.
\* Mutant: an unknown outcome is reported as a failure.
FailedStateCertain(st) == "failed"

FailedState(st) == IF st = "unknown" THEN "outcome_unknown" ELSE "failed"

ConsumeFailure(t) ==
    LET r == frame[t].resp
    IN  /\ pc[t] = "consume"
        /\ \/ r.st \in {"failed", "unknown"}
           \/ r.st = "incomplete" /\ HasWriteSink
           \/ r.st = "requires_user_action" /\ r.int = Null
        /\ FailPlan(t, frame[t].step, FailedState(r.st))
        /\ UNCHANGED opVars

-----------------------------------------------------------------------------
(* resume_interaction.                                                       *)

\* _load_interaction.
ResumeInteraction(t, i) ==
    /\ t \in Hosts /\ pc[t] = "idle" /\ i \in shown
    /\ Goto(t, "bind", [EmptyFrame EXCEPT !.int = i, !.seen = card[i]])
    /\ UNCHANGED <<planVars, stepVars, opVars, cardVars, shown, worldVars, lockVars>>

\* step_for_interaction, then what the state loaded before calls for.  A bound
\* plan is checked again, unless its commit has begun.
MustReject(i) == Bound(i) /\ plan_state \in ActivePlanStates /\ commit_op = Null /\ ~authority

BindInteraction(t) ==
    LET i == frame[t].int
        ended == Bound(i) /\ plan_state \notin ActivePlanStates
    IN  /\ pc[t] = "bind"
        /\ \/ /\ MustReject(i)
              /\ Goto(t, "reject", EmptyFrame)
              /\ UNCHANGED lockVars
           \/ /\ ~MustReject(i) /\ ~ended /\ Bound(i) /\ TerminalCard(frame[t].seen)
              /\ Goto(t, "terminal", [EmptyFrame EXCEPT !.int = i])
              /\ UNCHANGED lockVars
           \/ /\ ~MustReject(i) /\ ~ended /\ ReadyCard(frame[t].seen)
              /\ \E k \in Keys :
                    Goto(t, "invoke", [EmptyFrame EXCEPT !.int = i, !.bound = Bound(i),
                                                         !.op = <<"resume", i, k>>])
              /\ UNCHANGED lockVars
           \/ /\ ~MustReject(i)
              /\ \/ ended
                 \/ ~ReadyCard(frame[t].seen) /\ ~(Bound(i) /\ TerminalCard(frame[t].seen))
              /\ Return(t)
        /\ UNCHANGED <<planVars, stepVars, opVars, cardVars, shown, worldVars>>

\* reject.
Reject(t) ==
    /\ pc[t] = "reject" /\ MayLockPlan(t)
    /\ \/ /\ plan_state \notin ActivePlanStates
          /\ Return(t)
          /\ UNCHANGED <<planVars, stepVars, cardVars, shown, worldVars>>
       \/ /\ plan_state \in ActivePlanStates
          /\ \E s \in ActiveSteps :
                /\ \A r \in ActiveSteps : s <= r
                /\ FailPlan(t, s, "failed")
    /\ UNCHANGED opVars

\* resume_after_capability, its read of the binding.  An interaction that is no
\* longer bound is answered as a write without a plan: observe_host_task.
AnswerResume(t) ==
    /\ pc[t] = "respond"
    /\ \/ /\ frame[t].bound /\ Bound(frame[t].int)
          /\ Goto(t, "relock", [frame[t] EXCEPT !.step = BoundStep(frame[t].int)])
          /\ UNCHANGED <<shown, lockVars>>
       \/ /\ ~(frame[t].bound /\ Bound(frame[t].int))
          /\ shown' = shown \cup ({frame[t].resp.int} \ {Null})
          /\ Return(t)
    /\ UNCHANGED <<planVars, stepVars, opVars, cardVars, worldVars>>

\* resume_after_capability under the plan lock.
ResumeAfterCapability(t) ==
    /\ pc[t] = "relock" /\ MayLockPlan(t)
    /\ \/ /\ plan_state \in ActivePlanStates
          /\ LockPlanAndGoto(t, "consume", [frame[t] EXCEPT !.int = Null, !.bound = FALSE])
       \/ /\ plan_state \notin ActivePlanStates
          /\ LockPlanAndGoto(t, "retire",
                [EmptyFrame EXCEPT !.retire = (StepInteractions \cup {frame[t].resp.int}) \ {Null}])
    /\ UNCHANGED <<planVars, stepVars, opVars, cardVars, shown, worldVars>>

-----------------------------------------------------------------------------
(* Polls, cancels and terminal interactions.                                 *)

\* get_interaction of an interaction that has ended.
PollInteraction(t, i) ==
    /\ t \in Pollers /\ pc[t] = "idle"
    /\ i \in shown /\ TerminalCard(card[i])
    /\ Goto(t, "terminal", [EmptyFrame EXCEPT !.int = i])
    /\ UNCHANGED <<planVars, stepVars, opVars, cardVars, shown, worldVars, lockVars>>

\* handle_terminal_interaction: its read of the binding, then the plan lock.
BindTerminal(t) ==
    /\ pc[t] = "terminal"
    /\ \/ /\ Bound(frame[t].int)
          /\ Goto(t, "terminal_lock", [frame[t] EXCEPT !.step = BoundStep(frame[t].int)])
          /\ UNCHANGED lockVars
       \/ /\ ~Bound(frame[t].int)
          /\ Return(t)
    /\ UNCHANGED <<planVars, stepVars, opVars, cardVars, shown, worldVars>>

HandleTerminal(t) ==
    LET declined == card[frame[t].int] = "rejected"
    IN  /\ pc[t] = "terminal_lock" /\ MayLockPlan(t)
        /\ \/ /\ plan_state \notin ActivePlanStates \/ (declined /\ ~Cancelable)
              /\ Return(t)
              /\ UNCHANGED <<planVars, stepVars, opVars, cardVars, shown, worldVars>>
           \/ declined /\ Cancelable /\ CancelPlan(t)
           \/ /\ plan_state \in ActivePlanStates /\ ~declined
              /\ FailPlan(t, frame[t].step, "failed")
              /\ UNCHANGED opVars

\* cancel_task_plan, called by the plan tool without a lock and by
\* cancel_unsubmitted_task under the task lock.
CallCancel(t, tool) ==
    /\ t \in Cancelers /\ pc[t] = "idle" /\ plan_state # "absent"
    /\ tool = "task" => task_lock = Null
    /\ task_lock' = IF tool = "task" THEN t ELSE task_lock
    /\ Goto(t, "cancel", EmptyFrame)
    /\ UNCHANGED <<planVars, stepVars, opVars, cardVars, shown, worldVars, plan_lock>>

Cancel(t) ==
    /\ pc[t] = "cancel" /\ MayLockPlan(t)
    /\ \/ Cancelable /\ CancelPlan(t)
       \/ /\ ~Cancelable
          /\ Return(t)
          /\ UNCHANGED <<planVars, stepVars, opVars, cardVars, shown, worldVars>>

-----------------------------------------------------------------------------
(* recover: one candidate, under the plan lock.  A pass that finds nothing   *)
(* to do changes nothing and is no step.                                     *)

Recovering(t) ==
    /\ t \in Maintainers /\ pc[t] = "idle"
    /\ plan_state \in ActivePlanStates /\ plan_lock = Null

\* _belongs_to_previous_runtime.
\* Mutant: every row counts as one of this runtime.
OfPreviousRuntimeNever(at) == FALSE

OfPreviousRuntime(at) == at < runtime

\* A commit is under way, or was when the previous runtime stopped.  The step
\* it belongs to is the current one, or the one that recorded the operation.
CommitStep == IF current_step # Null THEN current_step ELSE Len(Kinds)

RecoverCommit(t) ==
    LET s == CommitStep
        lost == op_state[commit_op] = "running"
        response(st) == [EmptyFrame EXCEPT !.step = s,
                            !.resp = [st |-> st, int |-> op_int[commit_op]]]
    IN  /\ Recovering(t) /\ commit_op # Null
        /\ \/ /\ step_state[s] = "succeeded"
              /\ CompletePlan(t)
           \/ /\ step_state[s] # "succeeded" /\ lost /\ OfPreviousRuntime(op_at[commit_op])
              /\ op_state' = [op_state EXCEPT ![commit_op] = "unknown"]
              /\ op_at' = [op_at EXCEPT ![commit_op] = runtime]
              /\ LockPlanAndGoto(t, "consume", response("unknown"))
              /\ UNCHANGED <<planVars, stepVars, op_int, cardVars, shown, worldVars>>
           \/ /\ step_state[s] # "succeeded" /\ ~lost
              /\ LockPlanAndGoto(t, "consume", response(op_state[commit_op]))
              /\ UNCHANGED <<planVars, stepVars, opVars, cardVars, shown, worldVars>>

RecoverRejected(t) ==
    /\ Recovering(t) /\ commit_op = Null /\ ~authority
    /\ \E s \in ActiveSteps :
          /\ \A r \in ActiveSteps : s <= r
          /\ FailPlan(t, s, "failed")
    /\ UNCHANGED opVars

\* Waiting on a card that has ended.  An approved card is left to its host.
RecoverWaiting(t) ==
    /\ Recovering(t) /\ commit_op = Null /\ authority /\ plan_state = "waiting_user"
    /\ TerminalCard(card[step_int[current_step]])
    /\ LockPlanAndGoto(t, "terminal", [EmptyFrame EXCEPT !.int = step_int[current_step]])
    /\ UNCHANGED <<planVars, stepVars, opVars, cardVars, shown, worldVars>>

\* A step of the previous runtime that left no finished operation is started
\* again: its operation is failed first, then the step is reset.
Interrupted(s) ==
    /\ step_state[s] = "running" /\ OfPreviousRuntime(step_at[s])
    /\ op_state[<<"step", s, attempt[s]>>] \in {"absent", "running"}

RecoverRunning(t) ==
    /\ Recovering(t) /\ commit_op = Null /\ authority
    /\ plan_state \in {"validated", "running"}
    /\ \/ /\ current_step # Null /\ Interrupted(current_step)
          /\ LET o == <<"step", current_step, attempt[current_step]>>
             IN  op_state' = IF op_state[o] = "running"
                             THEN [op_state EXCEPT ![o] = "failed"] ELSE op_state
          /\ LockPlanAndGoto(t, "reset", [EmptyFrame EXCEPT !.step = current_step])
       \/ /\ ~(current_step # Null /\ Interrupted(current_step))
          /\ LockPlanAndGoto(t, "advance", EmptyFrame)
          /\ UNCHANGED op_state
    /\ UNCHANGED <<planVars, stepVars, op_int, op_at, cardVars, shown, worldVars>>

\* reset_running_step_for_recovery.
ResetRunningStep(t) ==
    LET s == frame[t].step
    IN  /\ pc[t] = "reset"
        /\ plan_state' = "running"
        /\ current_step' = Null
        /\ step_state' = [step_state EXCEPT ![s] = "queued"]
        /\ step_int' = [step_int EXCEPT ![s] = Null]
        /\ step_at' = [step_at EXCEPT ![s] = runtime]
        /\ Goto(t, "advance", EmptyFrame)
        /\ UNCHANGED <<commit_op, attempt, opVars, cardVars, shown, worldVars, lockVars>>

-----------------------------------------------------------------------------
(* Users, the clock, the business system, revocations and restarts.          *)

SubmitFields(f) ==
    /\ f \in shown /\ card[f] = "pending"
    /\ card' = [card EXCEPT ![f] = "submitted"]
    /\ UNCHANGED <<planVars, stepVars, opVars, consumer, shown, worldVars, lockVars, threadVars>>

DecideAuthorization(a) ==
    /\ a \in shown /\ card[a] = "pending"
    /\ \E d \in {"approved", "rejected"} : card' = [card EXCEPT ![a] = d]
    /\ UNCHANGED <<planVars, stepVars, opVars, consumer, shown, worldVars, lockVars, threadVars>>

Expire(i) ==
    /\ card[i] \in LiveCards
    /\ card' = [card EXCEPT ![i] = "expired"]
    /\ UNCHANGED <<planVars, stepVars, opVars, consumer, shown, worldVars, lockVars, threadVars>>

WarningsLeft == Cardinality({a \in Auths : request[a] = "warned"}) < MaxWarnings

TargetAnswers(a) ==
    /\ request[a] = "sent"
    /\ \E r \in {"applied", "refused", "warned"} :
          /\ r = "warned" => WarningsLeft
          /\ request' = [request EXCEPT ![a] = r]
          /\ writes' = IF r = "applied" THEN writes + 1 ELSE writes
    /\ UNCHANGED <<planVars, stepVars, opVars, cardVars, shown, authority, runtime, lockVars, threadVars>>

Revoke ==
    /\ MaxRevocations = 1 /\ authority
    /\ authority' = FALSE
    /\ UNCHANGED <<planVars, stepVars, opVars, cardVars, shown, request, writes, runtime, lockVars, threadVars>>

\* The process dies; what it had sent may still arrive.
Crash ==
    /\ runtime < MaxCrashes
    /\ runtime' = runtime + 1
    /\ plan_lock' = Null /\ task_lock' = Null
    /\ pc' = [t \in Threads |-> "idle"]
    /\ frame' = [t \in Threads |-> EmptyFrame]
    /\ UNCHANGED <<planVars, stepVars, opVars, cardVars, shown, request, writes, authority>>

-----------------------------------------------------------------------------
\* A thread that is executing a call takes its next step.
Continue(t) ==
    \/ AdvanceGet(t) \/ BeginNextStep(t) \/ NoStepLeft(t) \/ FailStep(t)
    \/ Invoke(t) \/ FinishOperation(t) \/ ReadSource(t) \/ RequireFieldInput(t)
    \/ GetSubmission(t) \/ CreateAuthorization(t) \/ ConsumeSubmission(t)
    \/ GetAuthorization(t) \/ FailBeforeBoundary(t) \/ EnterCommitBoundary(t)
    \/ SendWrite(t) \/ CommitOutcome(t)
    \/ StepStillRunning(t) \/ MarkStepWaiting(t) \/ MarkStepSucceeded(t)
    \/ NothingToDo(t) \/ ConsumeFailure(t)
    \/ BindInteraction(t) \/ Reject(t) \/ AnswerResume(t) \/ ResumeAfterCapability(t)
    \/ BindTerminal(t) \/ HandleTerminal(t) \/ Cancel(t)
    \/ ResetRunningStep(t) \/ Retire(t)

\* The recovery cycle finds something to do.
Recover(t) == RecoverCommit(t) \/ RecoverRejected(t) \/ RecoverWaiting(t) \/ RecoverRunning(t)

\* The tools that prepare or cancel a plan; a host, a user or the environment acts.
HostCalls(t) == PrepareTaskPlan(t) \/ \E tool \in CancelTools : CallCancel(t, tool)
Environment ==
    \/ \E t \in Threads : HostCalls(t)
    \/ \E t \in Threads, i \in Interactions : ResumeInteraction(t, i) \/ PollInteraction(t, i)
    \/ \E f \in Fields : SubmitFields(f)
    \/ \E a \in Auths : DecideAuthorization(a) \/ TargetAnswers(a)
    \/ \E i \in Interactions : Expire(i)
    \/ Revoke
    \/ Crash

Next == (\E t \in Threads : Continue(t) \/ Recover(t)) \/ Environment

Spec == Init /\ [][Next]_vars

\* Threads are scheduled and the recovery cycle runs again and again; a cancel
\* call, which may wait for the plan lock behind ever new calls, obtains a lock
\* that is freed again and again (hence SF).  Nobody makes a user, a host or the
\* business system act.
Fairness ==
    /\ \A t \in Threads \ Cancelers : WF_vars(Continue(t))
    /\ \A t \in Maintainers : WF_vars(Recover(t))
    /\ \A t \in Cancelers : SF_vars(Continue(t))

FairSpec == Spec /\ Fairness

-----------------------------------------------------------------------------
Labels == {"idle", "advance", "begin", "fail", "invoke", "handler", "prepare", "consume_field",
           "boundary", "send", "outcome", "finish", "consume", "nothing_to_do", "bind", "reject",
           "respond", "relock", "terminal", "terminal_lock", "cancel", "reset", "retire"}

\* Every row and every thread stays in its domain, and only submissions and
\* authorizations that were consumed have a consumer.
TypeOK ==
    /\ plan_state \in {"absent"} \cup ActivePlanStates \cup TerminalPlanStates
    /\ current_step \in Steps \cup {Null}
    /\ commit_op \in ResumeOps \cup {Null}
    /\ step_state \in [Steps -> {"queued", "running", "waiting_user", "succeeded", "failed",
                                 "outcome_unknown", "canceled", "skipped"}]
    /\ step_int \in [Steps -> Interactions \cup {Null}]
    /\ attempt \in [Steps -> 0 .. MaxAttempts]
    /\ step_at \in [Steps -> 0 .. MaxCrashes]
    /\ op_state \in [OpIds -> OpStates]
    /\ op_int \in [OpIds -> Interactions \cup {Null}]
    /\ op_at \in [OpIds -> 0 .. MaxCrashes]
    /\ card \in [Interactions -> {"absent", "consumed", "expired", "superseded", "rejected"}
                                 \cup LiveCards]
    /\ consumer \in [Interactions -> ResumeOps \cup {Null}]
    /\ \A i \in Interactions : consumer[i] # Null <=> card[i] = "consumed"
    /\ shown \subseteq Interactions
    /\ request \in [Auths -> {"none", "sent", "applied", "refused", "warned"}]
    /\ writes \in Nat
    /\ authority \in BOOLEAN
    /\ runtime \in 0 .. MaxCrashes
    /\ plan_lock \in Threads \cup {Null} /\ task_lock \in Threads \cup {Null}
    /\ pc \in [Threads -> Labels]
    /\ \A t \in Threads : DOMAIN frame[t] = DOMAIN EmptyFrame

\* The business system applies the write of a plan at most once, whatever
\* resumes, retries, warnings, restarts and recoveries happen: one consumption
\* per authorization, one commit per plan, no replay by recover.
OneEffect == writes <= 1

\* Nothing is sent to the business system but under an authorization the user was
\* shown and that was consumed for it, and of two requests ever sent, by whatever
\* hosts and under whatever resume keys, the earlier one was answered with a
\* warning: a request that is on its way, refused or applied is the last one.
RequestsInTurn ==
    /\ \A a \in Auths : request[a] # "none" => a \in shown /\ card[a] = "consumed"
    /\ \A a, b \in Auths : request[a] # "none" /\ request[b] # "none" /\ a[2] < b[2]
          => request[a] = "warned"

\* A plan reported canceled has no write under way and none applied: cancel and
\* the commit boundary exclude each other through commit_operation_id.
CanceledNeverWrites ==
    plan_state = "canceled" => \A a \in Auths : request[a] \notin {"sent", "applied"}

\* A plan reported failed has no write under way and none applied; what may
\* have happened is reported as outcome_unknown.
FailedNeverWrites ==
    plan_state = "failed" => \A a \in Auths : request[a] \notin {"sent", "applied"}

\* A plan reported succeeded has done its write, or skipped it.
SuccessIsReal ==
    plan_state = "succeeded" /\ HasWriteSink =>
        (step_state[Len(Kinds)] = "succeeded" <=> \E a \in Auths : request[a] = "applied")

\* The runtime never asks the store for a step transition that _update_step
\* refuses: the response a thread carries still fits the step when it has
\* obtained the plan lock.
StoreNeverRefuses ==
    \A t \in Threads :
        pc[t] = "consume" /\ frame[t].resp.st \in {"succeeded", "empty", "requires_user_action"}
            => Updatable(frame[t].step)

\* While a write is under way its operation is the plan's commit_operation_id:
\* that marker is all that refuses a cancel and a second commit.
InFlightIsMarked ==
    \A a \in Auths : request[a] = "sent" => commit_op = consumer[a]

\* No authorization is consumed once the plan's execution authority is gone.
\* Does not hold (README, section 6).
RevokedNeverCommits ==
    [][\A a \in Auths : card'[a] = "consumed" /\ card[a] # "consumed" => authority]_vars

\* A plan whose transform found nothing to do never asks for a write.
\* Does not hold (README, section 6).
EmptyNeverWrites ==
    (\E o \in StepOps : op_state[o] = "empty") => \A i \in Interactions : card[i] = "absent"

\* A commit that has begun is always settled, restarts included.
CommitResolves == commit_op # Null ~> (plan_state \in TerminalPlanStates \/ commit_op = Null)

\* Where hosts cancel with the plan tool only (CancelTools = {"plan"}), a cancel
\* call is always answered: it waits for the call that has the plan lock, and that
\* call waits for nobody who waits for the cancel.  With the task tool in use the
\* same does not hold (README, section 6): it takes the task lock before the plan
\* lock, and an advancing call the plan lock before the task lock.
PlanCancelAnswered == \A t \in Cancelers : pc[t] = "cancel" ~> pc[t] = "idle"

-----------------------------------------------------------------------------
(* The plan keeps the promise of PlannedWrite.                               *)

planPhase ==
    IF plan_state \in TerminalPlanStates THEN plan_state
    ELSE IF commit_op # Null THEN "committing" ELSE "open"

writeEffect ==
    IF \E a \in Auths : request[a] = "sent" THEN "sent"
    ELSE IF writes > 0 THEN "applied" ELSE "none"

Abstract == INSTANCE PlannedWrite WITH phase <- planPhase, effect <- writeEffect

\* Every behaviour of the plan is one of PlannedWrite.
KeepsPromise == Abstract!Spec
=============================================================================
