# AgentBridge: TLA+ models, checks and proofs

AgentBridge lets agent hosts (OpenClaw, a reference host, a workspace) use
business systems (an OA system, a lighting system, a log system and others)
through one central service. Reads are executed directly. A write is always
*controlled*: it is prepared, the user fills a trusted card with its fields, the
user approves a one-shot authorization on a second trusted card, and only then
does the service commit it and read it back. Durable task plans chain reads,
transforms and at most one such write, batches repeat one kind of write over
several targets, and both survive restarts of the service.

This project models the parts of the system where several threads, hosts, users,
administrators, leases and restarts meet the same rows. The stores are SQLite
tables; a method that opens with `BEGIN IMMEDIATE` is one atomic step, and
everything between two such methods may be interleaved with anything else.

## 1. Inventory

| Part | State it keeps | Operations | What makes it correct |
|---|---|---|---|
| Write authorizations, `core/write_authorizations.py` | authorization, presentation and card session rows | create (supersedes), get, create_presentation, issue_csrf, decide, supersede, consume; lazy expiry | one live authorization per target; a decision comes from a card of that authorization; expiry is effective before it is durable |
| Field submissions, `core/field_submissions.py`, `auth/field_card.py` | the same shape, with the submitted values | create, submit, supersede, consume | the plan is made of the values of the form that was current |
| Durable task plans, `core/task_plans.py`, `core/task_plan_runtime.py` | plan row, step rows, `commit_operation_id`; an in-process lock per plan | create, advance, mark_step_*, complete, cancel, guard_authorization_consumption, recover | the reported end is true; the write happens at most once; a commit is settled after a restart |
| Planning, `core/task_plan_validation.py`, `planning_policy.py`, `transforms.py` | none | compile, validate, transform | no write is made of an incomplete reading, or without a source the plan names |
| Controlled write executor, `core/controlled_write_executor.py` | none of its own | resolve_field_input, prepare, commit, enter_commit_boundary | nothing is sent before the boundary; permission, authorization and plan are asked once more at the boundary; unknown outcomes are reported as unknown |
| Operations and capability engine, `core/operations.py`, `core/capability_runtime.py` | one row per idempotency key | create or reuse, mark_* | a key is executed once |
| Task hub, `core/tasks.py`, `core/task_state_rules.py` | tasks, events, links, batches and their items | link_*, observe, complete and fail items, cancel, repair | items are written one after the other; no row of one user names another |
| Notification outbox, `core/tasks.py`, plugin `coordinator.js` | deliveries with lease and attempts | claim, acknowledge, defer, reactivate, requeue, archive | what is acknowledged was shown; every delivery ends |
| Host contract, `core/host_contract.py` | registrations, coordinator lease per task | register, acquire, assert, release | the version fences a former owner |
| Coordinators of the hosts, plugin `coordinator.js`, `reference_host/` | records, claims, polls; a local task file | poll, resume, restore, prune, recover | a completed card is resumed or the user is told; a performed write is never reported failed |
| Proxy tools, plugin `proxy-tools.js`, `identity-router.js`, `mcp-client.js` | session bindings, requests | resolve identity, ensure task, send, retry | one prepare leaves one card; a session speaks with one identity |
| Central service and MCP server, `core/central_service.py`, `mcp/central.py` | a lock per host task and per session | invoke, resume_interaction, get_interaction, cancel tools, maintenance cycles | calls end; locks are taken in one order |
| Sessions and logins, `core/sessions.py`, `core/auth_challenges.py`, `broker/` | session rows, secrets, challenge rows | create_or_reuse, claim, complete, fail, activate, invalidate, rebind | whoever enters a session has the login of its principal |
| Tokens, grants and pauses, `core/mcp_identities.py`, `core/user_grants.py`, `admin/stores.py` | rows with revisions | save, revoke, renew, pause | what is handed out was permitted throughout; a withdrawn permission and a pause stop the write (neither quite does: section 6); no edit is lost |
| Workspace dispatch, `workspace/stores.py`, `workspace/application.py` | dispatch rows with claim, deadline and accepted run | create, claim, attempt, accept, reconcile, finish, cancel, recover | a request runs once on the host; the row tells the truth about the host; the queue is served |
| Workspace gateway client, `workspace/gateway_client.mjs`, `gateway.py` | one connection, its run and stages | clear, bind, send, watch, stop, resend, read history | "safe to send again" is said only when no run called a tool |
| Workspace page, `workspace/static/workspace.js`, `workspace_lifecycle.mjs`, `workspace/server.py` | scopes, the timeline cursor, what is shown | enterWorkspace, loadChat, reconcileTimeline, openTimelineStream; `/api/timeline`, `/api/timeline/stream` | no entry is passed that was not shown; nothing of a former sign-in is applied |
| Workspace accounts, `workspace/stores.py`, `admin/server.py` | link codes, accounts, endpoints, grants, admin sessions | confirm, register, redeem, sign in | an account belongs to who confirmed its code |
| Skills, `core/skill_*.py`, `core/business_skills.py` | jobs with leases; drafts, revisions, trials, requests, versions, bindings | enqueue, claim, finish; save, submit, decide, bind | one holder per claim; what is published was tried and approved as it is |
| Documents, `core/document_downloads.py`, `auth/document_download.py` | download rows, cached files, task artifacts | create, claim, mark_ready, link, reissue, expire | a link shown as ready works |
| Attachments, `core/timeline_attachments.py` | attachment rows and their files | create, read, prune_expired | a picture that is offered is there in full; a message has all its pictures or none |
| Adapters, `adapters/seeyon_*.py`, `adapters/smartlight.py` | a page or a session of a business system | prepare, submit, read back, read pages, renew | a success is real, a rejection wrote nothing, no write is repeated, a list called whole is whole, warnings are passed only when authorized (not all of it holds: section 6) |
| Runtime governance, `core/runtime_governance.py` | traces, spans, incidents, recovery actions, windows, snapshots | observe, evaluate, capture | traces are true; every unknown outcome is reported; windows end |
| Recovery points, `core/recovery_bundle.py`, `scripts/agentbridge_backup_*.py` | archives, manifests, copies | snapshot, publish, collect, prune, restore | a recovery point is one moment |
| Releases, `scripts/agentbridge_release.py` | link, units, environment, schema, receipt | prepare, switch, recover, complete | between transactions one release is installed as a whole |

How the parts interact: hosts call the MCP server; its tools run on server threads
(`asyncio.to_thread`) and call the central service; maintenance threads call
`recover`, evaluate incidents and take snapshots in cycles; trusted card pages
write the card stores directly; the plugin drains the outbox and polls the cards it
knows of; the workspace keeps one worker thread per account and process; the skill
workbench one per process. What makes it hard: threads act on what they read
before they took a lock or opened a transaction; one call spans many transactions
and the process may die between any two; business systems and hosts answer late
or never; hosts repeat calls; leases lapse under slow workers; administrators
change rights while work is under way. `PROJECT.json` lists these hazards at their
lines.

## 2. Modules

| Module | Role |
|---|---|
| `WriteAuthorization` | the authorization store, one action per transaction |
| `FieldSubmission` | the field submission store, its pages and the executor that reads and later consumes |
| `TaskPlan` | one durable plan: plan store, runtime, the service calls that reach it, operations, the two halves of a controlled write, cards, locks, threads, restarts |
| `PlannedWrite` | what such a plan promises, in two variables and eight actions |
| `PlanCompilation` | from a proposed plan to an executed one: time ranges, step graph, provenance, transforms |
| `TaskHub` | one task and its batch: links, observations, item transitions, repair |
| `Continuation` | several users and endpoints on one hub: which rows a call may tie together |
| `NotificationDelivery` | the outbox of one endpoint and the loops that drain it |
| `HostContract` | operators on registrations and the coordinator lease |
| `HostCoordination` | hosts that poll, claim and resume cards under that lease; extends `HostContract` |
| `ReferenceHost` | the reference host's task from its local record to what it reports |
| `ToolProxy` | a tool call of the plugin: identity, task, lease, requests, retries |
| `Login` | one session, its challenges and the two brokers, calls that use it, administrators |
| `Access` | a token, a grant and pauses, against one read and one write |
| `Accounts` | link codes, accounts, grants for turns, admin sign-in |
| `HostDispatch` | the delivery of workspace chat requests to the agent host |
| `ChatGateway` | one message inside the gateway client |
| `WorkspaceTimeline` | the workspace page as a reader of its user's timeline |
| `SkillJobQueue`, `SkillPublication` | skill jobs with their workers; drafts, requests, releases and bindings |
| `Documents`, `Attachments` | downloads, cached files and artifacts; the pictures of timeline messages |
| `SeeyonSubmit`, `BusinessActions`, `PagedRead`, `SmartlightSession` | the adapters: forms with prompts, actions on one record, paged readings, token renewal |
| `RuntimeIncidents`, `RuntimeTrace`, `RuntimeObservation` | incidents and recovery actions, the trace of an operation, observation windows |
| `RecoveryPoint`, `ReleaseSwitch` | backup across hosts, and the release transaction |
| `TaskPlanProofs`, `WriteAuthorizationProofs`, `SkillJobQueueProofs`, `HostDispatchProofs` | theorems about one module each |
| `HostsProofs` | theorems about `ReferenceHost`, `NotificationDelivery`, `HostCoordination` |
| `IsolationProofs` | theorems about `MCPlatform`: `Continuation`, `Access`, `Accounts`, `FieldSubmission`, `TaskHub`, `Login`, `PlanCompilation` |
| `PlatformProofs` | theorems about `MCPlatform`: `SkillPublication`, `Documents`, `Attachments`, `ToolProxy`, `ChatGateway`, `RecoveryPoint`, `RuntimeTrace`, `ReleaseSwitch` |
| `EdgeProofs` | theorems about `MCAdapters`: `BusinessActions`, `SeeyonSubmit`, `SmartlightSession`, `WorkspaceTimeline`, `PagedRead` |
| `MCWriteAuthorization`, `MCTaskPlan`, `MCSkillJobQueue` | one specification each for TLC (`HostDispatch` is checked as it stands) |
| `MCHosts`, `MCAdapters`, `MCPlatform`, `MCOperations` | several specifications side by side: the variable `part` says which one a behaviour belongs to, the others stutter. In the last two the parts share variables, so each part is checked as if it were alone |

### WriteAuthorization

`state`, `target` and `commit_op` are the columns of `write_authorizations`,
`pres` those of the presentations (one per authorization and endpoint),
`card_state` and `card_for` the card sessions. The clock is one bit per
authorization, `overdue`; `EffectiveState` is what a transaction sees after
`_expire_if_needed`. Only `get` and `create_presentation` make an expiry durable:
the other methods raise on an overdue row and `_connect` rolls their expiry back.
A call that raises is a stuttering step.

### TaskPlan

The rows are variables (`plan_state`, `step_state`, `op_state`, `card` and so on),
the two in-process locks are variables, and every thread has a program counter
`pc` and a `frame` with what it read earlier. An action is one transaction or one
read of one thread. The correspondence, in the order of a write:

* `PrepareTaskPlan`, `AdvanceGet`, `BeginNextStep`, `Invoke`, `FinishOperation`:
  `prepare_task_plan` and the loop of `advance` under the plan lock, with
  `service.invoke` under the task lock.
* `RequireFieldInput`, `GetSubmission`, `CreateAuthorization`, `ConsumeSubmission`:
  the prepare half of a controlled write. The submission is consumed in a
  transaction after the one that creates the authorization, as in the code.
* `GetAuthorization`, `EnterCommitBoundary`, `SendWrite`, `CommitOutcome`: the
  commit half. `EnterCommitBoundary` consumes the authorization and runs
  `guard_authorization_consumption` in one transaction.
* `MarkStepWaiting`, `MarkStepSucceeded`, `NothingToDo`, `ConsumeFailure`:
  `_consume_step_response`. `_fail_plan` and `cancel` retire the cards of the plan
  in later transactions (`Retire`).
* `ResumeInteraction`, `BindInteraction`, `Reject`, `AnswerResume`,
  `ResumeAfterCapability`: `resume_interaction`, whose reads precede its locks.
* `PollInteraction`, `BindTerminal`, `HandleTerminal`, `CallCancel`, `Cancel`:
  polls and the two cancel tools.
* `RecoverCommit`, `RecoverRejected`, `RecoverWaiting`, `RecoverRunning`,
  `ResetRunningStep`: the branches of `recover` for one candidate.
* `SubmitFields`, `DecideAuthorization`, `Expire`, `Revoke`, `TargetAnswers`,
  `Crash`: users, clock, administrators, business system, process.

Cards are abstracted to their states here; `WriteAuthorization` and
`FieldSubmission` have the detail. Steps form a chain with the write last. Login
cards, plan revisions and version changes are left out.

### PlannedWrite and the refinement

`PlannedWrite` says: the plan is open until its one commit begins, only a
committing plan sends a write, a cancel is accepted only while it is open, and
`succeeded`, `failed` and `canceled` are true of the business system. `TaskPlan`
instantiates it with `phase <- planPhase` (the plan state and the commit marker)
and `effect <- writeEffect` (the requests in the business system); `KeepsPromise`
is `PlannedWrite!Spec` under that mapping.

### PlanCompilation

A proposal is the catalog's example plan with up to `MaxEdits` edits, the way a
model that does not follow the catalog gets it wrong. `Accepted` is the
conjunction of the checks of `validate_and_compile_task_plan`; `Days` computes the
range of a temporal constraint from the anchor time by calendar arithmetic, as
`compile_temporal_constraints` does; `Read`, `Transform` and `Write` execute an
accepted plan with sources that come back complete, incomplete or empty. The code
collects the ancestors and the lineage of each step on the way through the
topological order; the model states what the loops compute (`Closure`, the least set
closed under the dependencies or the bindings).

### TaskHub and Continuation

`TaskHub` has one task and the batch it owns; `call` keeps what a server thread
still has to do between two transactions of `_apply_batch_operation_response`.
`ResumeAgain` is the path without the task lock. `Repair` is the startup repair.
`Continuation` has no batches but several users: every method that creates a row
or follows one from a caller's argument is an action, and `Isolated` is the
conjunction of the counts that `inspect_runtime` takes.

### The hosts: NotificationDelivery, HostCoordination, ReferenceHost, ToolProxy

The network loses, delays and duplicates: a claim may be answered or not
(`Claim`), acknowledgements travel in the set `wire`, a resume call is in `calls`
until the server serves or loses it. `due` abstracts the retry times of the
outbox, `lease.live` the expiry of the coordinator lease. A host that restarts
forgets its memory and rebuilds it from the server (`GatewayRestarts`), or from
its record (`RecoverBound` of `ReferenceHost`). In `ToolProxy`, `request` and
`reply` are the exchange of one attempt, `ops` the operations the server keeps
under the call's idempotency keys.

### Login, Access, Accounts

`Login` separates the session row, the stored secret, the challenge and the broker
run, which the code keeps in different files; the session lock is a variable, and
the administrator acts without it. `Access` places the checks of a read and of a
write where the code has them, with administrators between any two of them: a read
is checked and compared twice, by the wrapper of the tool and by `invoke`, and the
commit boundary of a write is two transactions, `RequirePermission` and
`ConsumeAuthorization`.
`Accounts` follows a link code from the browser that asks for it to the account.

### HostDispatch and ChatGateway

`state`, `sent`, `owner`, `lapsed`, `due` and `age` are the columns of a row of
`agent_host_dispatches` (time columns as bits: what has passed and what has not),
`at` and `held` the worker thread of each workspace process, `copies` and `host`
what was written to the host's socket and what the host made of it. Every store
call is one transaction and one action; the calls to the host lie between them.
`WriteFrame` is not fenced by any store call: a worker that lost its claim after
`RecordAttempt` still writes. `Start` is `recover_host_dispatches`, which takes
every claim, also that of a worker of another process that is still alive. A claim
(360 s) outlives the deadline of its request (60 s); `OneCopy` rests on that.

`ChatGateway` opens the box that `HostDispatch` calls the gateway client, for one
message: its probes, its stop of a run that does not start, the second attempt
under a derived key, and the answers that cross each other on the socket.

### WorkspaceTimeline

The page has three readers of one timeline and one cursor. A request is two reads on
the server (`LoadList` and `LoadCursor`, `ReconcileList` and `ReconcileCursor`) and
one step of the page that applies the answer; the stream is a queue of events that a
broken connection loses. `scope` counts the sign-ins: disposing a scope aborts what
it had under way, so only answers of the current scope are applied. `raced` collects
the entries that fall between the two reads of a request, which the code does not
protect (section 6).

### Documents and Attachments

`Documents` has the rows of downloads and artifacts beside the requests that claim,
fetch and write the file, each between transactions of its own. `Attachments` has a
row per picture, the files on disk, and the creator, the reader and the pruner as
processes that may fail or die between the file and the row.

### SkillJobQueue and SkillPublication

One variable per column of `skill_jobs`, and per worker its place in `run_once`
(`at`), how far it is in the `active` call of that place (`check`), the job and
claim it holds and the rows it has computed. `cancel` and `active` read in
autocommit and update later by `job_id`, so each is two actions. The claim token
is the number of the attempt it starts. `SkillPublication` has one draft; a stale
caller and a repeated request key are stuttering steps, as in the code.

### Adapters

`SeeyonSubmit` runs the OA page beside the adapter: prompts, native dialogs and
CAP4 answers change the tracker while the adapter waits. An authorized warning is
continued in the steps of the code, the check of what is pending
(`HandleValidation`), the wait for a control and the click on whatever shows one
(`ClickContinue`), and the mark on whatever is pending then (`MarkContinued`), with
the page running between them; `hooked` is the queue of prompts that the hook of the
page keeps, read one at a time. `BusinessActions` gives twelve kinds of write one
course (prepare, compare, boundary, send, read back) against a record that others
edit, and says per kind what the adapter compares and what it makes of a missing
answer. Its readback sees what the code sees: where the write creates a record,
`theirs` is a matching record of somebody else, which the adapter cannot tell from
its own. `PagedRead` reads a sequence that changes
between pages. `SmartlightSession` renews one of four credentials from another.

### Governance, recovery points, releases

`RuntimeIncidents` and `RuntimeObservation` separate the reads and writes of the
cycle from those of administrators. `RuntimeTrace` splits `update_trace` into its
read and its write. `RecoveryPoint` counts the commits of each database, so that
"one moment" can be said: the copied counts were once all current. `ReleaseSwitch`
has one action per durable write of the script and lets it fail or die before any
of them.

## 3. Runs

| Run | Bounds | Shows |
|---|---|---|
| `WriteAuthorization` | 3 authorizations, 2 keys, 2 contexts, 1 endpoint beside the direct channel, 2 card sessions, 2 commit operations | `OneLivePerTarget`, `DecisionHasItsCard` |
| `TaskPlan` | read, transform, write; one host, canceler, poller and recovery thread; one warning, one restart | with one host call at a time the plan implements `PlannedWrite` (`KeepsPromise`); every commit is settled (`CommitResolves`); every cancel with the plan tool is answered (`PlanCancelAnswered`); the task cancel tool is left out here, since it can deadlock (section 6) |
| `TaskPlanTwoHosts` | a write; two hosts with keys of their own, both cancel tools, a revocation | the write is applied at most once (`OneEffect`), although other promises fail there |
| `SkillJobQueue` | 1 job, 2 workers, 2 evaluation rows, 3 attempts (the code's limit) | `DraftSettlesJob`, `SettledByHolder`, `QueuedIsSettled` |
| `HostDispatch` | 2 processes, 2 requests, both active at once, 1 fault | a request is written at most once (`OneCopy`); what its row says of the host is true (`OutcomeIsReal`) |
| `Hosts` | 1 notification, 2 loops, 2 attempts; 2 hosts, 2 interactions, 2 lost calls; a chain of 2 interactions, 2 restarts | `AcknowledgedWasShown`, `DeliverySettles`, `VersionFences`, `ReadyIsResumed`, `FailedNeverWrote` |
| `Adapters` | 2 warnings and 1 blocker on 2 forms, 2 hooked prompts kept; 12 kinds of action, 2 edits by others; 5 rows on pages of 2, 2 changes; 2 faults in a renewal; 2 timeline entries, pages of 1, 2 sign-ins | `ContinuedOnlyAgain` (forms), `RejectedNeverWrites` and `WrittenOnce` (actions on a record), `WholeListsAll`, `EndedIsHopeless`, `NothingSkipped` (workspace page) |
| `Platform` | in `Platform.cfg`: two of what can be exchanged or is made in order, one of the rest, one restart or fault (three in a release) | `PlanUsesSubmitted` (forms), `AccountIsConfirmed` (accounts), `Isolated` (continuations), `SafeIsTrue` (gateway client), `WriteIsComplete` (plan compilation), `CommitsInOrder` (batches, with two calls at a time), `ReadyArtifactHasFile` (documents, and the pictures of `Attachments`), `PreparedOnce` (tool proxy), `ReadWasPermitted` (access), `PublishedWasTried` (skills), `UsesOwnLogin` (logins), `OneMoment` (recovery points), `TraceIsReal` (traces), `ClosedIsWhole` (releases), and the `TypeOK` of all fifteen |
| `Operations` | beside each `INSTANCE` of `MCOperations` | what must eventually happen: `UnknownIsReported` (incidents), `WindowsEnd` (observation), `QueueIsServed` (dispatch in one process, two faults) |
| `TaskHubTwoResumes`, `SkillJobCancelRace`, `WritePaused` | the smallest instance that shows each | disagreements of code and documents, section 6 |

Why the bounds are enough. What matters is how many actors meet on one row and how
often something may go wrong between two of their steps, not how many rows there
are:

* Three authorizations under two keys contain a superseding and an unrelated one,
  and two cards a winner and a loser.
* A plan has one row. One host beside a canceler, a poller and recovery gives four
  concurrent threads, and a restart may happen anywhere, including twice-started
  steps (`MaxAttempts` follows from `MaxCrashes`).
* Claims of different jobs touch disjoint rows; two workers are enough for a
  takeover and a third attempt for exhaustion.
* Two requests of one conversation have an order; two processes with one fault
  contain a lapsed claim taken over and a restart beside a live worker, the two
  ways in which two workers come to hold one dispatch. The theorems of
  `HostDispatchProofs` need none of these bounds.
* Two loops of one endpoint and two attempts contain an exhausted delivery, a late
  acknowledgement of the other loop and a revival; two hosts a takeover; two
  interactions a first one that leads to the next.
* Five rows on pages of two make a full, a full and a short page, and two changes
  can move a row across each of the two page borders.
* In `Platform` and `Operations` two users, tabs, hosts, callers or captures meet on
  each kind of row, and one restart or fault (three in a release, so that also the
  recovery of a release may die) may happen at any step. In `Access` one
  administrator is enough: the property is of the grant, which changes up to three
  times (given, taken away, given back) between any two steps of a read.

`CHECK_DEADLOCK FALSE` stands where the system may rest: all authorizations closed,
a plan ended with no call in progress, or a part of a sum module whose course is
over. The skill queue and the dispatch never rest and are checked for deadlock.

Symmetry is used for safety properties only: the callers of one batch and the two types
of timeline entries, like keys, hosts and cards elsewhere, may be exchanged.

## 4. Fairness

* `TaskPlan`: threads that execute a call are scheduled (WF) and the maintenance
  thread runs its cycle again and again (WF on `Recover`). A cancel waits for a
  plan lock that others take repeatedly; it needs SF, i.e. that the lock does not
  starve one waiter for ever.
* `SkillJobQueue`: a worker thread loops (it sleeps at most two seconds between
  claims) and an unrenewed lease lapses. Workers may die without bound; attempts
  are bounded by the code.
* `HostDispatch`: a worker thread and a request thread run (WF on `Deliver` and
  `EnsureWorker`), next attempts come due, deadlines pass and claims lapse (WF).
  `QueueIsServed` does not cover a worker that has looked, found no work and not
  yet left: it is still alive when `_ensure_dispatch_worker` tests it, so a request
  accepted at that moment waits for the next call of its account.
* `NotificationDelivery`: the drain loops of the endpoint run, a call to the
  service ends with an answer or a timeout, and retry times and leases pass.
* `HostCoordination`: the service serves a call that reaches it, and a host that is
  up polls, restores its records and gets answers to its lease requests. Calls may
  still be lost, up to the fault bound.
* `RuntimeIncidents`: the maintenance cycle evaluates again and again.
* `RuntimeObservation`: the clock ticks and the maintenance cycle runs.

Nothing is assumed of users, of administrators, of the business systems, of what
hosts answer, or of the restart of a dead process.

## 5. Proofs

TLAPS proves, for every value of the constants:

* `WriteAuthorizationProofs`: `TypeCorrect`, `OpenCardsArePendingHolds`,
  `OneLivePerTargetHolds`, `DecisionHasItsCardHolds` (with it, that the first decision
  stands, which `verdict` remembers), `ClosedIsFinalHolds`,
  `OverdueIsPowerlessHolds`. The inductive invariant is `CardInv`, the conjunction
  of the type invariant and the three state invariants: the supersession step
  needs to know that no card of a closed authorization is open, and the decision
  step that an open card belongs to a pending authorization. The two action
  properties follow from it step by step. Assumption: `NullAssumption`.
* `SkillJobQueueProofs`: `TypeCorrect`, `OneHolderHolds`, `DraftSettlesJobHolds`,
  `SettledByHolderHolds`, `EndedStaysEndedHolds`. The properties are not
  inductive; `QueueInv` adds `Claims` (the token of a running job is the number
  of its attempts, other jobs have none, and a job that waits has an attempt
  left), `Holdings` (what a busy worker remembers is an attempt that was really
  started, and no two workers remember the same one) and `Cancels` (a job a
  cancel has read exists). A worker that lost its job holds an older number, so
  the shared WHERE clause (`HoldsClaim`) cannot accept it. Assumptions:
  `QuotaAssumption`, `NullAssumption`.
* `HostDispatchProofs`: `TypeCorrect`, `WrittenOnce`, `NotSentIsTrue`, `Truthful`,
  `WrittenInOrder`, `Irreversible`. `OneCopy` is not inductive: `WriteFrame` asks
  no one. `DispatchInv` adds what a row promises (`Rows`: whatever was written is
  marked as sent, and a sent request is neither deliverable nor canceled), what a
  worker may conclude from its place (`Workers`: an unsent request while it holds
  the claim before `RecordAttempt`, an unwritten one before `WriteFrame`, all
  earlier requests ended), and `OneWriter`: two workers are never both about to
  write one request, since the second would have needed a row not marked as sent.
  The four store calls that give up a claim share one lemma, `ReleaseStep`.
  Assumptions: `BoundAssumption`, `NullAssumption`.
* `TaskPlanProofs`: `WritesOnce`, that is `OneEffect` for any chain of steps and any
  number of hosts, cancels, polls, recovery threads, resume keys, warnings, restarts
  and revocations. `OneEffect` is far from inductive: nothing in the rows of the
  business system says why a second request cannot come. The argument follows what
  the user can get to see, since only a card that was shown can be decided. `PlanInv`
  says in `FieldsAsked` that the fields are asked for by one attempt of the write
  only (this needs `LockFits`, `OpFits` and `StepsOK`: an attempt is executed under
  the plan lock, and a step starts again only in a later runtime and only if its
  operation did not ask); in `AuthsKnown` that an authorization becomes visible only
  after those fields were consumed, which happens once; in `Chain` that of two
  visible authorizations the earlier one ended in a warning of the business system,
  with nobody working on it; and in `SentOK` that a request stands for a consumed
  card that was shown. Two requests that could both be applied would contradict
  `Chain`. `NumberingCounts` shows that `NextAuth`, which counts the rows, is fresh.
  `PlanInv` was checked with TLC on the instances of both runs before it was proved.
  `EveryRequestInTurn` says the same of everything that was ever sent: each request
  stands for a card that was shown and consumed for it, and only a warning lets
  another one follow (`RequestsInTurn`; it is in no run, and TLC agreed on the
  instances of both runs before it was proved).
  The refinement is a lemma, `PromiseIsKept`, with the conditions of the run
  `TaskPlan` as its hypothesis: under `Undisturbed` every step of `TaskPlan` is a
  step of `PlannedWrite` or leaves `planPhase` and `writeEffect` as they are, and
  `EndsAreTrue` follows from it (`CanceledNeverWrites`, `FailedNeverWrites`). It
  takes the run from its bounds to any chain of steps and any number of cancels,
  polls, warnings and restarts; it does not take it beyond calls of hosts that come
  one at a time, which the code does not guarantee.
  `PlanInv` says what may be written, but not when; `PromiseInv` adds what each phase
  of the plan says of everything else. While the plan is open (`OpenFits`), whatever
  the user was shown is used up or belongs to the interaction the current step waits
  for, so that a consumption meets the plan in a state in which the guard of the
  commit is asked and answers. From the commit on (`CommitFits`, `OverFits`) nothing
  shown can be used any more, and the request, the operation of the commit and the
  end of the plan tell one story (`Result`). `WorkFits` says of every thread what it
  may still do: one that still waits for the plan lock, or carries an answer it read
  earlier, carries what the operation of the commit has recorded. `Kept` lists what
  a step must leave alone to preserve all of this, and most actions are shown to be
  such a step (`KeptIsPromised`); the commit, the request, its answer, the ends and
  the recovery of a commit have lemmas of their own. `Undisturbed` says that calls of
  hosts come one at a time, that no permission is withdrawn, and that an interaction
  is resumed under one key if the service can restart; TLC shows a counterexample
  without each of them (section 6), so this is where the promise ends, and
  `WritesOnce` and `EveryRequestInTurn` are what is left of it beyond. `PromiseInv`, too, was checked with TLC first.
  Assumptions: `KindsAssumption`, `BoundsAssumption`, `NullAssumption`.

The other four extend an `MC` module (`PlatformProofs` by way of `IsolationProofs`,
whose lemmas it uses). Their theorems are about the very specification its run checks,
with `ConstantsFit` of that module as the assumption: it collects the assumptions of
the parts, each as weak as the code allows (an hour is a natural number, a message
may be sent at least once, an operation is a read, a prepare or a commit, and the
like). A lemma named `...Alone` is about one part by itself, and a lemma named
`...Run` carries it over to the sum of the parts.

* `HostsProofs` (`MCHosts`): `ReferenceHostIsRight`, `OutboxIsRight`, `LeaseIsRight`.
  `ReferenceInv` says that nothing is written before execution, one card is open, a
  write is the last thing that happens, and a failure is reported only when all is
  over. `OutboxInv` adds that an acknowledgement on the wire says no more than the
  loop saw, `LeaseInv` that calls carry versions the lease has had.
* `IsolationProofs` (`MCPlatform`): `UsersStayApart` (`ChatInv`: `Isolated` is not
  inductive, since a call checks the owner of a row in one transaction and uses the
  row in another; `CallsOK` says what a call knows at each place, and a lemma that no
  owner is ever replaced), `EditsAreSeen`, `ReadsArePermitted`
  (`RightsInv`: a revision names one state of the grants, and a read that was without
  its permission for a moment remembers a revision that has passed), `AccountsAreConfirmed`,
  `TurnsAreOwn` (`WebInv`), `PlansUseSubmitted`, `OpenPagesAreCurrent` (`FormsInv`:
  what the executor has read is what the row still holds), and for batches
  `TargetsAreWrittenInOrder`, `UnknownsAreKept`, `EndedBatchesStay` (`HubOrder`: while
  the batch is active the ledger has the items before the current one as succeeded,
  and what an item has left, a card or a commit, it left after that). They hold for any number of calls at a time, also on the
  path without the task lock. What two calls at a time do break is the ledger itself
  (`ItemSuccessWasCommitted`, finding 1), so the order is stated of what the ledger
  has as succeeded. `UnknownIsSticky` and `BatchEndsOnce` are in no run; TLC agreed
  on three items and two callers. `CallsUseOwnLogin` (`LoginInv`: who holds the lock of
  a session is the one who is inside, and what a broker run has kept of a session says
  whose login it was) has no hypothesis on the mode; the property itself says less of
  logins in the interactive browser (`OwnLoginExpected`), because more is false
  (section 6). `WritesAreWhole` is
  `WriteIsComplete` for any steps, dependencies and bindings of a proposal:
  `AcceptedIsWellMade` says what the checks of the compiler establish, and `PlansInv`
  carries it along the execution. The compiler follows dependencies and bindings to
  their ends; the proof needs only that the set it arrives at, the least one closed
  under them, is contained in every closed set (`ClosureIsLeast`), and shows that
  what has succeeded, and the sources a result was made of, are closed sets
  (`BoundToAncestors`, `Composed`, `StepGrounded`).
* `PlatformProofs` (`MCPlatform`): `PublishedIsTried`, `BindingsFit`, `OutStaysOut`
  (`SkillInv`), `LinksWork`, `ClaimsHaveOneHolder` (`FilesInv`), `PicturesStayWhole`
  (`PicturesInv`), `PreparesLeaveOne`, `SessionsHaveOneSpeaker` (`ProxyInv`: every
  operation of a call is stored under the one key of the call),
  `SafeRetriesAreSafe`, `ToolsAreNotReplayed`, `FinalsAreSaved` (`GatewayInv`),
  `PointsAreMoments`, `ReportsAreTrue` (`BackupInv`: the version read first, the
  pinned one and the live one are in this order, so two equal reads enclose one
  moment), `TracesAreReal` (`TraceInv`: also what a writer has read and not yet
  written back is honest), `ReleasesAreWhole` (`ReleaseInv`: what each place of the
  script and of its recovery may rely on, whatever died before it). `PlatformIsTyped`
  is `TypeOK` of `MCPlatform`, from one lemma for each of the fifteen parts
  (`...Types`, `...TypesHold`). For most parts it follows from the invariant above.
  Of the task hub it is `LedgerInv`: a call still knows the kind of operation or card
  it carries.
  `AttemptsOK` says that every operation a request has left is of another attempt of
  it, which is no longer on its way; so there are at most as many operations as
  attempts (`FewOperations`, an injection into the numbers of the attempts).
* `EdgeProofs` (`MCAdapters`): `RejectionsAreFinal`, `WritesOnce`
  (`ActionInv`: a request that may still be applied has not been, one that is sent
  again never will be), `ContinuesOnlyAgain` (`SubmitInv`: what the tracker, the page
  and the hooked prompts hold came up in this attempt, and the adapter waits for a
  control only after an authorized one did),
  `SessionsEndForReason` (an action property; `RenewalInv` says that what a renewal
  has learned of the credentials it could not use is still so),
  `NoEntryIsSkipped` (`PageInv`: what a request has read of the list covers what its
  cursor passes, except for the entries in `raced`), `WholeListsLackNothing`
  (`ReadInv`: while nothing has left the list, what was read is still in it, at the
  place it was read from; while nothing has arrived, the list is as long as its first
  total only if nothing has left).

The longer invariants, such as `PlanInv`, `GatewayInv` and `HubOrder`, were checked with
TLC on small instances before they were proved.

What is model-checked only, and why:

* The liveness properties `CommitResolves`, `PlanCancelAnswered`, `QueuedIsSettled`,
  `QueueIsServed`, `DeliverySettles`, `ReadyIsResumed`, `UnknownIsReported` and
  `WindowsEnd`: liveness under fairness is outside the prover's reach.

* `KeepsPromise`, outside the lemma `PromiseIsKept`.

Every other property of a passing run is stated by a theorem.

## 6. Findings

With a run:

1. `TaskHubTwoResumes`: a second resume of a committed item is served without the
   task lock and completes the next item of the batch with the operation of the
   first one.
2. `SkillJobCancelRace`: `cancel` can close a job as canceled whose draft was
   saved; the comment in `save` says that this cannot happen.
3. `WritePaused`: a pause set while the adapter prepares the page does not stop the
   write; the administration guide says that the final commit boundary asks again.

Seen while modelling, and left without a run. The definitions named are stated in
the modules where a formula says it; TLC finds each of them violated.

Plans and writes:

* The commit of an authorization whose step binding was cleared by
  `mark_step_failed` is not checked against the plan (`RevokedNeverCommits`,
  `task_plans.py:658`). `mark_step_failed` ignores the commit marker. So, when a
  permission is withdrawn while a resume runs, the recovery thread may reject the
  plan between the operation's answer and its recording, and the card that is shown
  afterwards writes for a plan that has failed.
* The same gap opens when the service dies between `mark_step_failed` and the
  retirement of the card: if the interaction is resumed again under another
  idempotency key, the card is worked off again and the write is sent outside the
  commit of the plan. Resumed under the same key it gets the recorded failure.
* With two racing resumes, `_update_step` clears the commit marker of a write in
  flight when an older waiting response is recorded, and a cancel is accepted
  (`task_plans.py:832`; `受控写入模型.md:74` says otherwise).
* A restart between two transactions turns "nothing to do" into a request for a
  write (`EmptyNeverWrites`, `task_plan_runtime.py:599` and `:620`).
* The task cancel tool and an advancing call take the task lock and the plan lock in
  opposite orders (`central_service.py:563`). They can wait for each other for ever,
  and then no cancel of that plan is answered, by either tool: `PlanCancelAnswered`
  is violated with `CancelTools = {"plan", "task"}`.
* A permission that is withdrawn between `require_capability` and `consume` in
  `enter_commit_boundary` (`controlled_write_executor.py:420` and `:423`) does not
  stop the write (`RevokedNeverWrites` of `Access`).
* The first finding reaches further in longer batches: with two calls at a time the
  ledger may name an item succeeded that was not committed, and the next one is
  written after it. The order that holds is the order in the ledger
  (`CommitsInOrder`).
* A restart after a submission was consumed and before its step was bound to the new
  authorization leaves the plan waiting on a consumed card
  (`controlled_write_executor.py:194`).
* Several provenance rules of the planning documents are not enforced by the
  compiler.
* After a restart, the repair of tasks can report a task complete whose batch is not
  (`TaskSuccessIsComplete`, `tasks.py:389`), and a terminal task may keep an active
  batch for ever.
* A prepare that is reported failed may have left a card (`FailedHasNoCard`,
  `proxy-tools.js:385`), and a success that the reference host reports of a write need
  not be a write that was performed (`SuccessWasWritten`).

Hosts:

* A socket error between `chat.send` and its answer ends the dispatch as
  `failed_before_accept` while the host runs the request
  (`FailedBeforeAcceptIsTrue`, `application.py:1346`). The text that says so is
  appended to the timeline before the fenced end (`application.py:1101`).
* `ChatGateway`: the recovery of a run is used more than once, which the run guard
  test describes as once.
* Pruning a record drops its claim, and a resume may be sent twice (`SentOnce`,
  `coordinator.js`); the server answers both with one operation.
* A released lease blocks other hosts until it expires, and a takeover need not name
  the version it expects (`mcp/central.py:5309`).
* The stage `artifact.delivery` always reads as failed
  (`central_service.py:1829`). `validate_host_call_context` compares with
  `task.active_endpoint_id` (`central_service.py:2199`), a field that tasks do not
  have, so only the origin endpoint is accepted.
* The workspace page passes entries it has not shown when they are appended between
  the list read and the cursor read of one request (`workspace/server.py:375` and
  `:389`), between the two requests of `loadChat`, or before a stream that is opened
  with no cursor; the next `loadChat` shows them. `NothingSkipped` says that these
  are the only ones.

Sessions, accounts, skills:

* A session that an administrator ended can be entered again: the probe of
  `start_login` read it before it was ended (`EndedNeedsLogin`, `管理控制台.md:34`).
* In the interactive browser mode (`adapters/yuque.py:105`) two overlapping runs of
  the remote browser, a rebind between them and a failed save can leave the former
  principal's stored state behind an active session. `UsesOwnLogin` therefore says of
  such logins only what holds until the first rebinding, invalidation, conflicting
  binding or restart; of form and captcha logins it says everything.
* `link_status` may expire a link that has just been consumed, and the repeated
  enrollment is not answered as before (`EnrollmentIsRepeatable`). A sign-in between
  its two steps is not a session yet when a password change ends the others
  (`OldPasswordIsOut`).
* A later failed evaluation does not stop an approval; `retry` of a skill job does
  not consult the active quota; a worker that has just lost its claim may overwrite
  the progress of its successor.

Adapters and operations:

* Continue may be clicked on a prompt that the user never saw
  (`PassedWasAuthorized`). The card promises a click "仅在再次出现完全相同的提示时"
  (`controlled_write_executor.py:485`), but the fingerprint is compared at
  `seeyon_leave_submit.py:363`, then the adapter waits up to ten seconds for any
  control of that selector (`:396`) and clicks it (`:411`). In TLC's trace the page
  replaces the authorized prompt by another one in between, and the click passes that
  one. `ContinuedOnlyAgain` is what holds.
* The mark after the click applies to whatever is pending then (`:416`): a prompt or
  a blocker that arrived between the click and the mark counts as continued and is
  never reported.
* A prompt that the hook kept and that is read only after the form went out is asked
  about like one before it; when the user authorizes it, the next attempt sends the
  form a second time (`SubmittedOnce`, `seeyon_submit_phases.py:438`).
* A meeting-room application counts as made when exactly one new application fits the
  room and the time, whoever made it
  (`seeyon_meeting_room_application.py:654`): a request that was accepted and came to
  nothing is reported as succeeded when the user made the same application by hand
  meanwhile. The same holds of a meeting with the same subject in the room's list
  (`SuccessIsOwn`).
* A submission that is rejected in the OA page may have been sent
  (`RejectedWasNotSent`, `controlled_write_executor.py:542`;
  `部署演进记录-2026年7月至8月.md:996`).
* A list that is not marked truncated may lack a row that moved between pages
  (`UntruncatedIsWhole`, `读取能力二期方案.md:84`); `WholeListsAll` is what holds.
* The boundary stage of a trace may fall back when two updates race
  (`BoundaryNeverFalls`, `运行治理与可靠性二期详细设计.md:790`).
* Two observation windows of one name may be active, and `last_snapshot_at` may go
  backwards.
* A release that dies past `confirmed` leaves the backup timer off until the next
  one.

## 7. Plan

What is left, in this order:

1. `ReleaseSwitch`: `TimerIsRestored`.
2. Plan revisions and login cards inside plans, as actions of `TaskPlan`.

## 8. Not modelled

* In `TaskPlan`: login cards inside plans (`resume_after_session`), plan revisions
  and version changes. `Login` has the sessions themselves.
* Schemas, catalogs, contracts, page parsing and field extraction: pure functions on
  documents; the models use their outcomes.
* The other adapters (log system, database analysis, independent report exports):
  they read only, and share the paging and session code that is modelled.
* Browsers and the remote browser's transport, secrets and keys, storage layout,
  configuration, diagnostics: input and output around the stores, no
  state machine of their own that meets the write path.
* Command line, views of the admin console, skill texts, deployment documents.
