---------------------------- MODULE Continuation ----------------------------
(***************************************************************************)
(* Several users, each with several endpoints (chat clients), share one    *)
(* task hub.  A task made at one endpoint is continued from another: the   *)
(* host asks central_service.resolve_host_task_continuation, which finds   *)
(* the task by its id, by its number in a list it offered, by the earlier  *)
(* selection of the endpoint, or by a search.  tasks.py keeps the rows;    *)
(* inspect_runtime counts the rows that would mix two users up.            *)
(*                                                                         *)
(* Every method of tasks.py is one immediate transaction; a method of      *)
(* central_service.py is several, and calls interleave between them.       *)
(* Conversations, titles, tokens and event contents are left out; a        *)
(* conversation is named by its endpoint.  An endpoint, once made, is      *)
(* never made inactive by the code.                                        *)
(***************************************************************************)
EXTENDS Naturals, Sequences, FiniteSets

CONSTANTS
    Users,        \* user_subject
    Hosts,        \* agent_host of the caller
    Endpoints,    \* (agent_host, endpoint_key) pairs
    HostOf,       \* HostOf[e]: the host in the pair
    Keys,         \* host_task_key
    Tasks,        \* 1..N, the rows of agent_tasks in the order they are made
    Messages,     \* message_key
    Refs,         \* operations, artifacts and delivery references
    RefOwner,     \* RefOwner[r]: the user whose operation or artifact it is
    Calls,        \* calls of the central service in progress
    MaxCalls,     \* bound on the calls that are made
    MaxReports,   \* bound on what hosts report
    None          \* no user, task or endpoint

ContinuationAssumption ==
    /\ None \notin Users /\ None \notin Tasks /\ None \notin Endpoints
    /\ Tasks \subseteq Nat /\ IsFiniteSet(Tasks)
    /\ HostOf \in [Endpoints -> Hosts]
    /\ RefOwner \in [Refs -> Users]

VARIABLES
    endpoint,     \* client_endpoints: endpoint[e] is its user, or None
    task,         \* agent_tasks
    link,         \* task_operations and task_artifacts: <<task, ref, user>>
    event,        \* task_events: <<task, user>>
    subscription, \* task_subscriptions: <<task, endpoint, user>>
    outbox,       \* notification_outbox: <<task or None, endpoint, user>>
    timeline,     \* user_timeline: records of chat messages
    cont,         \* task_continuations: cont[e]
    call,         \* call[c]
    made          \* calls and reports made, for the bounds

vars == <<endpoint, task, link, event, subscription, outbox, timeline, cont, call, made>>

Statuses == {"active", "waiting_user", "succeeded", "failed"}
Modes == {"resume", "follow_up", "observe_only"}
NoTask == [user |-> None, host |-> None, key |-> None, origin |-> None,
           focus |-> None, status |-> "active"]
ContRow(state, u, h, t, list, mode) ==
    [state |-> state, user |-> u, host |-> h, selected |-> t, list |-> list,
     mode |-> mode, due |-> FALSE]
NoCont == ContRow("absent", None, None, None, <<>>, "observe_only")
CallAt(pc, u, e, k, t) ==
    [pc |-> pc, user |-> u, endpoint |-> e, key |-> k, task |-> t,
     list |-> <<>>, mode |-> "observe_only"]
Idle == CallAt("idle", None, None, None, None)

Init ==
    /\ endpoint = [e \in Endpoints |-> None]
    /\ task = [t \in Tasks |-> NoTask]
    /\ link = {}
    /\ event = {}
    /\ subscription = {}
    /\ outbox = {}
    /\ timeline = {}
    /\ cont = [e \in Endpoints |-> NoCont]
    /\ call = [c \in Calls |-> Idle]
    /\ made = [calls |-> 0, reports |-> 0]

-----------------------------------------------------------------------------
(* Rows and who may use them.                                              *)

\* A mutant: the task is looked up by its id alone.
TaskOfAnyone(u, t) == task[t].user # None

\* _select_owned_task
OwnedTask(u, t) == task[t].user = u /\ u # None

\* endpoint_for_key: the endpoint of this user and this host.
OwnedEndpoint(u, h, e) == endpoint[e] = u /\ HostOf[e] = h

\* _append_event: the event and one delivery for every subscription.
Deliveries(t, u) == {<<t, s[2], u>> : s \in {x \in subscription : x[1] = t /\ x[3] = u}}
AppendEvent(t, u) ==
    /\ event' = event \cup {<<t, u>>}
    /\ outbox' = outbox \cup Deliveries(t, u)

\* _subscribe_companion_endpoints: every endpoint of the user.
Companions(t, u) == {<<t, e, u>> : e \in {x \in Endpoints : endpoint[x] = u}}

-----------------------------------------------------------------------------
(* Making endpoints, tasks and messages.                                   *)

\* ensure_endpoint: the pair is bound to one user for good.
BindEndpoint(u, e) ==
    /\ endpoint[e] \in {None, u}
    /\ endpoint' = [endpoint EXCEPT ![e] = u]

\* ensure_host_task, first transaction; a pair of another user is an error.
StartHostTask(c, u, e, k) ==
    /\ call[c].pc = "idle"
    /\ BindEndpoint(u, e)
    /\ call' = [call EXCEPT ![c] = CallAt("task", u, e, k, None)]
    /\ UNCHANGED <<task, link, event, subscription, outbox, timeline, cont>>

\* The task of the key, and the next free row.
TasksFor(u, h, k) == {t \in Tasks : task[t].user = u /\ task[t].host = h /\ task[t].key = k}
FreeTasks == {t \in Tasks : task[t].user = None}

\* ensure_task: the key finds its task again, at its own endpoint only, and
\* moves it to the endpoint's conversation.
EnsureTask(c) ==
    LET u == call[c].user
        e == call[c].endpoint
        old == TasksFor(u, HostOf[e], call[c].key)
    IN  /\ call[c].pc = "task"
        /\ call' = [call EXCEPT ![c] = Idle]
        /\ \/ /\ endpoint[e] = u
              /\ \E t \in old :
                   /\ task[t].origin = e
                   /\ task' = [task EXCEPT ![t].focus = e]
              /\ UNCHANGED <<subscription, event, outbox>>
           \/ /\ endpoint[e] = u
              /\ old = {}
              /\ \E t \in FreeTasks :
                   /\ \A x \in FreeTasks : t <= x
                   /\ task' = [task EXCEPT ![t] =
                         [user |-> u, host |-> HostOf[e], key |-> call[c].key,
                          origin |-> e, focus |-> e, status |-> "active"]]
                   /\ subscription' = subscription \cup Companions(t, u)
                   /\ event' = event \cup {<<t, u>>}
                   /\ outbox' = outbox \cup Companions(t, u)
           \/ /\ endpoint[e] # u \/ (\A t \in old : task[t].origin # e)
              /\ old # {} \/ FreeTasks = {} \/ endpoint[e] # u
              /\ UNCHANGED <<task, subscription, event, outbox>>
        /\ UNCHANGED <<endpoint, link, timeline, cont>>

\* append_host_timeline_message, first transaction: the endpoint.
StartMessage(c, u, e, m, t) ==
    /\ call[c].pc = "idle"
    /\ BindEndpoint(u, e)
    /\ call' = [call EXCEPT ![c] = CallAt("message", u, e, m, t)]
    /\ UNCHANGED <<task, link, event, subscription, outbox, timeline, cont>>

\* _enqueue_timeline_message: the user's other endpoints hear of it.
Heard(u, e, t) == {<<t, x, u>> : x \in {y \in Endpoints : endpoint[y] = u /\ y # e}}

\* _append_timeline_message_in_connection: one entry for a message key.
AppendMessage(c) ==
    LET u == call[c].user
        e == call[c].endpoint
        t == call[c].task
    IN  /\ call[c].pc = "message"
        /\ call' = [call EXCEPT ![c] = Idle]
        /\ IF /\ endpoint[e] = u
              /\ t # None => OwnedTask(u, t)
              /\ \A x \in timeline : ~(x.user = u /\ x.key = call[c].key)
           THEN /\ timeline' = timeline \cup
                      {[user |-> u, key |-> call[c].key, endpoint |-> e, task |-> t]}
                /\ outbox' = outbox \cup Heard(u, e, t)
           ELSE UNCHANGED <<timeline, outbox>>
        /\ UNCHANGED <<endpoint, task, link, event, subscription, cont>>

-----------------------------------------------------------------------------
(* What hosts report of a task.                                            *)

\* link_plan_operation: an operation of the user, linked to one task only.
LinkOperation(u, t, r) ==
    /\ OwnedTask(u, t)
    /\ RefOwner[r] = u
    /\ \A x \in link : x[2] = r => x[1] = t
    /\ link' = link \cup {<<t, r, u>>}
    /\ AppendEvent(t, u)
    /\ task' = [task EXCEPT ![t].status = IF @ \in {"active", "waiting_user"}
                                          THEN "active" ELSE @]
    /\ UNCHANGED <<endpoint, subscription, timeline, cont, call>>

\* record_artifact_delivery: files of the task, told by its own host.
ReportDelivery(u, h, t, r) ==
    /\ OwnedTask(u, t)
    /\ task[t].host = h
    /\ <<t, r, u>> \in link
    /\ AppendEvent(t, u)
    /\ UNCHANGED <<endpoint, task, link, subscription, timeline, cont, call>>

\* record_plan_event: a card to be answered.
PlanWaits(u, t) ==
    /\ OwnedTask(u, t)
    /\ task[t].status = "active"
    /\ AppendEvent(t, u)
    /\ task' = [task EXCEPT ![t].status = "waiting_user"]
    /\ UNCHANGED <<endpoint, link, subscription, timeline, cont, call>>

\* fail_task and mark_task_outcome_unknown: the companions are subscribed
\* before the event is appended.  A task that has ended refuses.
FailTask(u, t) ==
    /\ OwnedTask(u, t)
    /\ task[t].status \in {"active", "waiting_user"}
    /\ subscription' = subscription \cup Companions(t, u)
    /\ event' = event \cup {<<t, u>>}
    /\ outbox' = outbox \cup Companions(t, u) \cup Deliveries(t, u)
    /\ task' = [task EXCEPT ![t].status = "failed"]
    /\ UNCHANGED <<endpoint, link, timeline, cont, call>>

\* finish_host_task
FinishTask(u, t) ==
    /\ OwnedTask(u, t)
    /\ task[t].status \in {"active", "waiting_user"}
    /\ subscription' = subscription \cup Companions(t, u)
    /\ event' = event \cup {<<t, u>>}
    /\ outbox' = outbox \cup Companions(t, u) \cup Deliveries(t, u)
    /\ task' = [task EXCEPT ![t].status = "succeeded"]
    /\ UNCHANGED <<endpoint, link, timeline, cont, call>>

-----------------------------------------------------------------------------
(* Continuing a task from another endpoint.                                *)

\* The deadline of a list or of a selection passes.
TimePasses(e) ==
    /\ cont[e].state \in {"awaiting_selection", "selected"}
    /\ ~cont[e].due
    /\ cont' = [cont EXCEPT ![e].due = TRUE]
    /\ UNCHANGED <<endpoint, task, link, event, subscription, outbox, timeline, call>>

\* get_continuation: a row past its deadline is cleared as it is read.
Read(e) ==
    IF cont[e].due
    THEN [cont[e] EXCEPT !.state = "expired", !.selected = None, !.list = <<>>, !.due = FALSE]
    ELSE cont[e]

\* list_continuations clears every such row of the user.
ListContinuations(u) ==
    /\ \E e \in Endpoints : cont[e].user = u /\ cont[e].due
    /\ cont' = [e \in Endpoints |-> IF cont[e].user = u THEN Read(e) ELSE cont[e]]
    /\ UNCHANGED <<endpoint, task, link, event, subscription, outbox, timeline, call>>

Chosen(c, u, e, t) == call' = [call EXCEPT ![c] = CallAt("chosen", u, e, None, t)]

\* resolve_host_task_continuation with a task id, taken as it is given.
ResolveTask(c, u, h, e, t) ==
    /\ call[c].pc = "idle"
    /\ OwnedEndpoint(u, h, e)
    /\ Chosen(c, u, e, t)
    /\ UNCHANGED <<endpoint, task, link, event, subscription, outbox, timeline, cont>>

\* ... with a number of the list that was offered.
ResolveNumber(c, u, h, e, n) ==
    /\ call[c].pc = "idle"
    /\ OwnedEndpoint(u, h, e)
    /\ cont[e].state # "absent"
    /\ cont' = [cont EXCEPT ![e] = Read(e)]
    /\ IF Read(e).state = "awaiting_selection" /\ n \in DOMAIN Read(e).list
       THEN Chosen(c, u, e, Read(e).list[n])
       ELSE UNCHANGED call
    /\ UNCHANGED <<endpoint, task, link, event, subscription, outbox, timeline>>

\* ... with neither: the earlier selection, or a search.
ResolveContext(c, u, h, e) ==
    /\ call[c].pc = "idle"
    /\ OwnedEndpoint(u, h, e)
    /\ cont' = [cont EXCEPT ![e] = Read(e)]
    /\ IF Read(e).state = "selected"
       THEN Chosen(c, u, e, Read(e).selected)
       ELSE call' = [call EXCEPT ![c] = CallAt("search", u, e, None, None)]
    /\ UNCHANGED <<endpoint, task, link, event, subscription, outbox, timeline>>

\* continuation_candidates: the user's tasks of this host; the active ones
\* when there are any.
Candidates(u, e, live) ==
    {t \in Tasks : /\ OwnedTask(u, t)
                   /\ task[t].host = HostOf[e]
                   /\ live => task[t].status \in {"active", "waiting_user"}}
Preferred(u, e) ==
    IF Candidates(u, e, TRUE) # {} THEN Candidates(u, e, TRUE) ELSE Candidates(u, e, FALSE)

\* The rows in some order of their last change.
Orders(S) == {s \in [1..Cardinality(S) -> S] : \A t \in S : \E n \in DOMAIN s : s[n] = t}

\* The first candidate is taken when it is the only one, or when the caller
\* asked for the latest; else the list will be offered.
Search(c) ==
    LET u == call[c].user
        e == call[c].endpoint
    IN  /\ call[c].pc = "search"
        /\ IF Preferred(u, e) = {}
           THEN call' = [call EXCEPT ![c] = Idle]
           ELSE \E s \in Orders(Preferred(u, e)) :
                  \/ Chosen(c, u, e, s[1])
                  \/ /\ Len(s) > 1
                     /\ call' = [call EXCEPT ![c] = [@ EXCEPT !.pc = "offer", !.list = s]]
        /\ UNCHANGED <<endpoint, task, link, event, subscription, outbox, timeline, cont>>

Range(s) == {s[n] : n \in DOMAIN s}

\* set_continuation_candidates: every task must belong to the user and host.
Offer(c) ==
    LET u == call[c].user
        e == call[c].endpoint
        h == HostOf[e]
    IN  /\ call[c].pc = "offer"
        /\ call' = [call EXCEPT ![c] = Idle]
        /\ IF /\ OwnedEndpoint(u, h, e)
              /\ \A t \in Range(call[c].list) : OwnedTask(u, t) /\ task[t].host = h
           THEN cont' = [cont EXCEPT ![e] = ContRow("awaiting_selection", u, h, None,
                                                    call[c].list, "observe_only")]
           ELSE UNCHANGED cont
        /\ UNCHANGED <<endpoint, task, link, event, subscription, outbox, timeline>>

\* task_continuation_execution_mode
ModeOf(status, followUp) ==
    CASE status = "active" -> "resume"
      [] status = "succeeded" /\ followUp -> "follow_up"
      [] OTHER -> "observe_only"

\* _refresh_host_task_for_continuation and the mode; another user's task is
\* not found.
Refresh(c, followUp) ==
    LET t == call[c].task
    IN  /\ call[c].pc = "chosen"
        /\ IF OwnedTask(call[c].user, t)
           THEN call' = [call EXCEPT ![c] = [@ EXCEPT !.pc = "select",
                                                !.mode = ModeOf(task[t].status, followUp)]]
           ELSE call' = [call EXCEPT ![c] = Idle]
        /\ UNCHANGED <<endpoint, task, link, event, subscription, outbox, timeline, cont>>

\* select_continuation: the selection, the conversation of the task, the
\* event; all checked again in this transaction, but not the mode.
Select(c) ==
    LET u == call[c].user
        e == call[c].endpoint
        h == HostOf[e]
        t == call[c].task
    IN  /\ call[c].pc = "select"
        /\ call' = [call EXCEPT ![c] = Idle]
        /\ IF OwnedEndpoint(u, h, e) /\ OwnedTask(u, t) /\ task[t].host = h
           THEN /\ cont' = [cont EXCEPT ![e] = ContRow("selected", u, h, t, <<>>,
                                                       call[c].mode)]
                /\ task' = [task EXCEPT ![t].focus = e]
                /\ AppendEvent(t, u)
           ELSE UNCHANGED <<cont, task, event, outbox>>
        /\ UNCHANGED <<endpoint, link, subscription, timeline>>

-----------------------------------------------------------------------------
(* The tools of mcp/central.py: the user is the one of the caller's token.  *)

\* agentbridge_host_task_ensure, agentbridge_host_timeline_append and
\* agentbridge_host_task_continuation_resolve
HostTaskEnsure(c, u, e) == \E k \in Keys : StartHostTask(c, u, e, k)
HostTimelineAppend(c, u, e) ==
    \E m \in Messages, t \in Tasks \cup {None} : StartMessage(c, u, e, m, t)
HostContinuationResolve(c, u, e) ==
    \E h \in Hosts :
        \/ \E t \in Tasks : ResolveTask(c, u, h, e, t) \/ ResolveNumber(c, u, h, e, t)
        \/ ResolveContext(c, u, h, e)
Starts(c) ==
    \E u \in Users, e \in Endpoints :
        \/ HostTaskEnsure(c, u, e)
        \/ HostTimelineAppend(c, u, e)
        \/ HostContinuationResolve(c, u, e)
CallStep(c) ==
    \/ EnsureTask(c) \/ AppendMessage(c) \/ Search(c) \/ Offer(c) \/ Select(c)
    \/ \E followUp \in BOOLEAN : Refresh(c, followUp)

\* agentbridge_host_artifact_delivery_report and agentbridge_host_task_finish
HostDeliveryReport(u, t) == \E r \in Refs, h \in Hosts : ReportDelivery(u, h, t, r)
HostTaskFinish(u, t) == FailTask(u, t) \/ FinishTask(u, t)
Reports ==
    \E u \in Users, t \in Tasks :
        \/ \E r \in Refs : LinkOperation(u, t, r)
        \/ HostDeliveryReport(u, t)
        \/ PlanWaits(u, t)
        \/ HostTaskFinish(u, t)

Next ==
    \/ /\ made.calls < MaxCalls
       /\ \E c \in Calls : Starts(c)
       /\ made' = [made EXCEPT !.calls = @ + 1]
    \/ /\ made.reports < MaxReports
       /\ Reports
       /\ made' = [made EXCEPT !.reports = @ + 1]
    \/ \E c \in Calls : CallStep(c) /\ UNCHANGED made
    \/ \E e \in Endpoints : TimePasses(e) /\ UNCHANGED made
    \/ \E u \in Users : ListContinuations(u) /\ UNCHANGED made

Spec == Init /\ [][Next]_vars

-----------------------------------------------------------------------------
TypeOK ==
    /\ endpoint \in [Endpoints -> Users \cup {None}]
    /\ \A t \in Tasks : /\ task[t].user \in Users \cup {None}
                        /\ task[t].origin \in Endpoints \cup {None}
                        /\ task[t].status \in Statuses
    /\ link \subseteq Tasks \X Refs \X Users
    /\ event \subseteq Tasks \X Users
    /\ subscription \subseteq Tasks \X Endpoints \X Users
    /\ outbox \subseteq (Tasks \cup {None}) \X Endpoints \X Users
    /\ \A e \in Endpoints : cont[e].mode \in Modes /\ cont[e].selected \in Tasks \cup {None}

\* The queries of inspect_runtime, as the rows that satisfy the opposite.
TaskOriginMatches ==
    \A t \in Tasks : task[t].user # None => endpoint[task[t].origin] = task[t].user
LinksMatch ==
    /\ \A x \in event : task[x[1]].user = x[2]
    /\ \A x \in link : task[x[1]].user = x[3]
SubscriptionsMatch ==
    \A x \in subscription : task[x[1]].user = x[3] /\ endpoint[x[2]] = x[3]
OutboxMatches ==
    \A x \in outbox : endpoint[x[2]] = x[3] /\ (x[1] # None => task[x[1]].user = x[3])
TimelineMatches ==
    \A x \in timeline : /\ endpoint[x.endpoint] = x.user
                        /\ x.task # None => task[x.task].user = x.user
ContinuationMatches ==
    \A e \in Endpoints : cont[e].state # "absent" =>
        /\ endpoint[e] = cont[e].user
        /\ HostOf[e] = cont[e].host
        /\ \A t \in Range(cont[e].list) \cup ({cont[e].selected} \ {None}) :
             task[t].user = cont[e].user /\ task[t].host = cont[e].host

\* Isolation: whatever the users' hosts call and in whatever order, none of
\* the counts of inspect_runtime ever leaves zero: no row ties one user's
\* endpoint, task, delivery, message, list or selection to another's
\* (tasks.py, violation_queries).
Isolated ==
    /\ TaskOriginMatches
    /\ LinksMatch
    /\ SubscriptionsMatch
    /\ OutboxMatches
    /\ TimelineMatches
    /\ ContinuationMatches

\* One message, however often its host sends it, is one entry of the
\* timeline (_append_timeline_message_in_connection).
MessageOnce ==
    \A x, y \in timeline : x.user = y.user /\ x.key = y.key => x = y
=============================================================================
