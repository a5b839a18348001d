--------------------------- MODULE IsolationProofs ---------------------------
(***************************************************************************)
(* What keeps the users of the service, and the targets of a batch, apart, *)
(* for every value of the constants: the rows of the task hub              *)
(* (Continuation), the permissions (Access), the accounts of the workspace *)
(* (Accounts), the forms that users fill in (FieldSubmission), the         *)
(* approval batch (TaskHub), the logins of a session (Login) and the plans *)
(* that are compiled and carried out (PlanCompilation).  Each part is      *)
(* proved on its own: an inductive invariant, one lemma for each group of  *)
(* actions, its theorems, and that its rows keep to their domains; the     *)
(* theorems on the specification of MCPlatform are at the end, and in      *)
(* PlatformProofs.                                                         *)
(***************************************************************************)
EXTENDS MCPlatform, Integers, Sequences, FiniteSets, FiniteSetTheorems, TLAPS

(***************************************************************************)
(* The task hub.                                                           *)
(***************************************************************************)

\* The variables of MCPlatform by the names they have in Continuation.
endpoint == v1
event == v2
call == v3
subscription == v4
outbox == v5
timeline == v6
task == v7
cont == v8
link == v9
made == v10

USE DEF endpoint, task, link, event, subscription, outbox, timeline, cont, call, made

TaskRows ==
    [user : Users \cup {Unset}, host : Hosts \cup {Unset}, key : KeyNames \cup {Unset},
     origin : Endpoints \cup {Unset}, focus : Endpoints \cup {Unset},
     status : Chats!Statuses]
ContRows ==
    [state : {"absent", "awaiting_selection", "selected", "expired"},
     user : Users \cup {Unset}, host : Hosts \cup {Unset},
     selected : Tasks \cup {Unset}, list : Seq(Tasks), mode : Chats!Modes, due : BOOLEAN]
CallStates ==
    [pc : {"idle", "task", "message", "search", "offer", "chosen", "select"},
     user : Users \cup {Unset}, endpoint : Endpoints \cup {Unset},
     key : KeyNames \cup Messages \cup {Unset}, task : Tasks \cup {Unset},
     list : Seq(Tasks), mode : Chats!Modes]

\* The types of the rows; a task that was made has a host and an endpoint.
RowsOK ==
    /\ endpoint \in [Endpoints -> Users \cup {Unset}]
    /\ task \in [Tasks -> TaskRows]
    /\ \A t \in Tasks : task[t].user # Unset =>
          task[t].origin \in Endpoints /\ task[t].host \in Hosts
    /\ link \in SUBSET (Tasks \X EffectRefs \X Users)
    /\ event \in SUBSET (Tasks \X Users)
    /\ subscription \in SUBSET (Tasks \X Endpoints \X Users)
    /\ outbox \in SUBSET ((Tasks \cup {Unset}) \X Endpoints \X Users)
    /\ timeline \in SUBSET [user : Users, key : Messages, endpoint : Endpoints,
                            task : Tasks \cup {Unset}]

\* A list or a selection is somebody's.
ContKnows(k) ==
    /\ k.state # "absent" => k.user \in Users
    /\ k.state = "selected" => k.selected \in Tasks
    /\ k.due => k.state # "absent"
ContsOK == cont \in [Endpoints -> ContRows] /\ \A e \in Endpoints : ContKnows(cont[e])

\* A call knows for whom it works, and on what.
CallKnows(k) ==
    /\ k.pc # "idle" => k.user \in Users /\ k.endpoint \in Endpoints
    /\ k.pc \in {"chosen", "select"} => k.task \in Tasks
    /\ k.pc = "task" => k.key \in KeyNames
    /\ k.pc = "message" => k.key \in Messages
CallsOK == call \in [Calls -> CallStates] /\ \A c \in Calls : CallKnows(call[c])

\* The inductive invariant of the task hub.
ChatInv == RowsOK /\ ContsOK /\ CallsOK /\ Chats!Isolated

\* No owner of a task or of an endpoint is ever replaced.
OwnersStay ==
    /\ \A t \in Tasks : task[t].user # Unset =>
          /\ task'[t].user = task[t].user
          /\ task'[t].host = task[t].host
          /\ task'[t].origin = task[t].origin
    /\ \A e \in Endpoints : endpoint[e] # Unset => endpoint'[e] = endpoint[e]

\* Where owners stay, the rows that were there still match.
LEMMA OldRowsMatch ==
    ASSUME ChatInv, OwnersStay, Chats!ContinuationAssumption
    PROVE  /\ \A t \in Tasks : task[t].user # Unset =>
                 endpoint'[task'[t].origin] = task'[t].user
           /\ \A x \in event : task'[x[1]].user = x[2]
           /\ \A x \in link : task'[x[1]].user = x[3]
           /\ \A x \in subscription : task'[x[1]].user = x[3] /\ endpoint'[x[2]] = x[3]
           /\ \A x \in outbox : endpoint'[x[2]] = x[3]
                                /\ (x[1] # Unset => task'[x[1]].user = x[3])
           /\ \A x \in timeline : /\ endpoint'[x.endpoint] = x.user
                                  /\ x.task # Unset => task'[x.task].user = x.user
           /\ \A e \in Endpoints : cont[e].state # "absent" =>
                 /\ endpoint'[e] = cont[e].user
                 /\ HostOf[e] = cont[e].host
                 /\ \A t \in Chats!Range(cont[e].list) \cup ({cont[e].selected} \ {Unset}) :
                      task'[t].user = cont[e].user /\ task'[t].host = cont[e].host
<1>0. Unset \notin Users
  BY DEF Chats!ContinuationAssumption
<1>1. \A t \in Tasks : task[t].user # Unset =>
         endpoint'[task'[t].origin] = task'[t].user
  BY DEF ChatInv, OwnersStay, RowsOK, Chats!Isolated, Chats!TaskOriginMatches
<1>2. /\ \A x \in event : task'[x[1]].user = x[2]
      /\ \A x \in link : task'[x[1]].user = x[3]
  <2>1. \A x \in event : x[1] \in Tasks /\ x[2] \in Users /\ task[x[1]].user = x[2]
    BY DEF ChatInv, RowsOK, Chats!Isolated, Chats!LinksMatch
  <2>2. \A x \in link : x[1] \in Tasks /\ x[3] \in Users /\ task[x[1]].user = x[3]
    BY DEF ChatInv, RowsOK, Chats!Isolated, Chats!LinksMatch
  <2> QED BY <1>0, <2>1, <2>2 DEF OwnersStay
<1>3. \A x \in subscription : task'[x[1]].user = x[3] /\ endpoint'[x[2]] = x[3]
  <2>1. \A x \in subscription : x[1] \in Tasks /\ x[2] \in Endpoints /\ x[3] \in Users
    BY DEF ChatInv, RowsOK
  <2>2. \A x \in subscription : task[x[1]].user = x[3] /\ endpoint[x[2]] = x[3]
    BY DEF ChatInv, Chats!Isolated, Chats!SubscriptionsMatch
  <2> QED BY <1>0, <2>1, <2>2 DEF OwnersStay
<1>4. \A x \in outbox : endpoint'[x[2]] = x[3]
                        /\ (x[1] # Unset => task'[x[1]].user = x[3])
  <2>1. \A x \in outbox : x[1] \in Tasks \cup {Unset} /\ x[2] \in Endpoints /\ x[3] \in Users
    BY DEF ChatInv, RowsOK
  <2>2. \A x \in outbox : endpoint[x[2]] = x[3] /\ (x[1] # Unset => task[x[1]].user = x[3])
    BY DEF ChatInv, Chats!Isolated, Chats!OutboxMatches
  <2> QED BY <1>0, <2>1, <2>2 DEF OwnersStay
<1>5. \A x \in timeline : /\ endpoint'[x.endpoint] = x.user
                          /\ x.task # Unset => task'[x.task].user = x.user
  <2>1. \A x \in timeline : /\ x.user \in Users /\ x.endpoint \in Endpoints
                            /\ x.task \in Tasks \cup {Unset}
    BY DEF ChatInv, RowsOK
  <2>2. \A x \in timeline : /\ endpoint[x.endpoint] = x.user
                            /\ x.task # Unset => task[x.task].user = x.user
    BY DEF ChatInv, Chats!Isolated, Chats!TimelineMatches
  <2> QED BY <1>0, <2>1, <2>2 DEF OwnersStay
<1>6. ASSUME NEW e \in Endpoints, cont[e].state # "absent"
      PROVE  /\ endpoint'[e] = cont[e].user
             /\ HostOf[e] = cont[e].host
             /\ \A t \in Chats!Range(cont[e].list) \cup ({cont[e].selected} \ {Unset}) :
                  task'[t].user = cont[e].user /\ task'[t].host = cont[e].host
  <2>1. cont[e].list \in Seq(Tasks) /\ cont[e].selected \in Tasks \cup {Unset}
    BY DEF ChatInv, ContsOK, ContRows
  <2>2. \A t \in Chats!Range(cont[e].list) \cup ({cont[e].selected} \ {Unset}) : t \in Tasks
    BY <2>1 DEF Chats!Range
  <2>3. cont[e].user \in Users
    BY <1>6 DEF ChatInv, ContsOK, ContKnows
  <2>4. /\ endpoint[e] = cont[e].user
        /\ HostOf[e] = cont[e].host
        /\ \A t \in Chats!Range(cont[e].list) \cup ({cont[e].selected} \ {Unset}) :
             task[t].user = cont[e].user /\ task[t].host = cont[e].host
    BY <1>6 DEF ChatInv, Chats!Isolated, Chats!ContinuationMatches
  <2> QED BY <1>0, <2>2, <2>3, <2>4 DEF OwnersStay
<1> QED BY <1>1, <1>2, <1>3, <1>4, <1>5, <1>6

\* A list or a selection that a step makes is of tasks of its user.
NewContsMatch ==
    \A e \in Endpoints : cont'[e].state # "absent" =>
        \/ cont'[e] = cont[e]
        \/ /\ endpoint'[e] = cont'[e].user
           /\ HostOf[e] = cont'[e].host
           /\ \A t \in Chats!Range(cont'[e].list) \cup ({cont'[e].selected} \ {Unset}) :
                task'[t].user = cont'[e].user /\ task'[t].host = cont'[e].host

NewLinksAreOf(t, u) ==
    \A x \in link' : x \in link \/ (x \in Tasks \X EffectRefs \X Users /\ x[1] = t /\ x[3] = u)

\* The rows that a step adds match.
NewRowsMatch ==
    /\ \A t \in Tasks : task[t].user = Unset /\ task'[t].user # Unset =>
          endpoint'[task'[t].origin] = task'[t].user
    /\ \A x \in event' : x \in event \/ task'[x[1]].user = x[2]
    /\ \A x \in link' : x \in link \/ task'[x[1]].user = x[3]
    /\ \A x \in subscription' :
          x \in subscription \/ (task'[x[1]].user = x[3] /\ endpoint'[x[2]] = x[3])
    /\ \A x \in outbox' :
          x \in outbox \/ (endpoint'[x[2]] = x[3] /\ (x[1] # Unset => task'[x[1]].user = x[3]))
    /\ \A x \in timeline' :
          x \in timeline \/ (/\ endpoint'[x.endpoint] = x.user
                             /\ x.task # Unset => task'[x.task].user = x.user)
    /\ NewContsMatch

\* A step that replaces no owner and adds rows that match keeps users apart.
LEMMA StaysIsolated ==
    ASSUME ChatInv, OwnersStay, NewRowsMatch, Chats!ContinuationAssumption
    PROVE  Chats!Isolated'
<1>1. Chats!TaskOriginMatches'
  BY OldRowsMatch DEF NewRowsMatch, NewContsMatch, Chats!TaskOriginMatches
<1>2. Chats!LinksMatch'
  BY OldRowsMatch DEF NewRowsMatch, NewContsMatch, Chats!LinksMatch
<1>3. Chats!SubscriptionsMatch'
  BY OldRowsMatch DEF NewRowsMatch, NewContsMatch, Chats!SubscriptionsMatch
<1>4. Chats!OutboxMatches'
  BY OldRowsMatch DEF NewRowsMatch, NewContsMatch, Chats!OutboxMatches
<1>5. Chats!TimelineMatches'
  BY OldRowsMatch DEF NewRowsMatch, NewContsMatch, Chats!TimelineMatches
<1>6. Chats!ContinuationMatches'
  <2> SUFFICES ASSUME NEW e \in Endpoints, cont'[e].state # "absent"
               PROVE  /\ endpoint'[e] = cont'[e].user
                      /\ HostOf[e] = cont'[e].host
                      /\ \A t \in Chats!Range(cont'[e].list)
                                  \cup ({cont'[e].selected} \ {Unset}) :
                           task'[t].user = cont'[e].user /\ task'[t].host = cont'[e].host
    BY DEF Chats!ContinuationMatches, Chats!Range
  <2>1. CASE cont'[e] = cont[e]
    BY <2>1, OldRowsMatch
  <2>2. CASE cont'[e] # cont[e]
    BY <2>2 DEF NewRowsMatch, NewContsMatch
  <2> QED BY <2>1, <2>2
<1> QED BY <1>1, <1>2, <1>3, <1>4, <1>5, <1>6 DEF Chats!Isolated

\* A call goes on to a state that knows what it has to.
LEMMA CallGoesOn ==
    ASSUME CallsOK, NEW c \in Calls, NEW k \in CallStates, CallKnows(k),
           call' = [call EXCEPT ![c] = k]
    PROVE  CallsOK'
  BY DEF CallsOK, CallKnows

LEMMA CallEnds ==
    ASSUME CallsOK, NEW c \in Calls, call' = [call EXCEPT ![c] = Chats!Idle]
    PROVE  CallsOK'
<1>1. Chats!Idle \in CallStates /\ CallKnows(Chats!Idle)
  BY DEF Chats!Idle, Chats!CallAt, CallStates, CallKnows, Chats!Modes
<1> QED BY <1>1, CallGoesOn

\* A row of the lists and selections is replaced.
LEMMA ContIsReplaced ==
    ASSUME ContsOK, NEW e \in Endpoints, NEW k \in ContRows, ContKnows(k),
           cont' = [cont EXCEPT ![e] = k]
    PROVE  ContsOK'
  BY DEF ContsOK, ContKnows

\* get_continuation gives the row back as it is, or cleared.
LEMMA ReadKeepsOwner ==
    ASSUME ContsOK, NEW e \in Endpoints
    PROVE  /\ Chats!Read(e) \in ContRows /\ ContKnows(Chats!Read(e))
           /\ \/ Chats!Read(e) = cont[e]
              \/ /\ Chats!Read(e).user = cont[e].user /\ Chats!Read(e).host = cont[e].host
                 /\ Chats!Read(e).list = <<>> /\ Chats!Read(e).selected = Unset
<1>1. CASE cont[e].due
  <2> DEFINE k == cont[e]
  <2>1. k \in ContRows /\ ContKnows(k)
    BY DEF ContsOK
  <2>2. Chats!Read(e) = [state |-> "expired", user |-> k.user, host |-> k.host,
                         selected |-> Unset, list |-> <<>>, mode |-> k.mode, due |-> FALSE]
    BY <1>1, <2>1 DEF Chats!Read, ContRows
  <2>3. k.user \in Users /\ k.host \in Hosts \cup {Unset} /\ k.mode \in Chats!Modes
    BY <1>1, <2>1 DEF ContRows, ContKnows
  <2> QED BY <2>2, <2>3 DEF ContRows, ContKnows
<1>2. CASE ~cont[e].due
  BY <1>2 DEF ContsOK, Chats!Read
<1> QED BY <1>1, <1>2

\* Deliveries and subscriptions of a task go to endpoints of its owner.
LEMMA DeliveriesMatch ==
    ASSUME ChatInv, NEW t \in Tasks, NEW u \in Users, Chats!ContinuationAssumption
    PROVE  /\ Chats!Deliveries(t, u) \in SUBSET ((Tasks \cup {Unset}) \X Endpoints \X Users)
           /\ Chats!Companions(t, u) \in SUBSET (Tasks \X Endpoints \X Users)
           /\ \A x \in Chats!Deliveries(t, u) \cup Chats!Companions(t, u) :
                 x[1] = t /\ x[3] = u /\ endpoint[x[2]] = u
<1>1. \A s \in subscription : s[2] \in Endpoints /\ endpoint[s[2]] = s[3]
  BY DEF ChatInv, RowsOK, Chats!Isolated, Chats!SubscriptionsMatch
<1> QED BY <1>1 DEF Chats!Deliveries, Chats!Companions

\* ensure_endpoint, at the start of a call: the pair gets its owner.
LEMMA BindKeeps ==
    ASSUME ChatInv, Chats!ContinuationAssumption, NEW u \in Users, NEW e \in Endpoints,
           Chats!BindEndpoint(u, e), CallsOK',
           UNCHANGED <<task, link, event, subscription, outbox, timeline, cont>>
    PROVE  ChatInv'
<1>1. OwnersStay
  BY DEF ChatInv, RowsOK, OwnersStay, Chats!BindEndpoint, Chats!ContinuationAssumption
<1>2. NewRowsMatch
  BY DEF NewRowsMatch, NewContsMatch
<1>3. RowsOK' /\ ContsOK'
  BY DEF ChatInv, RowsOK, ContsOK, Chats!BindEndpoint
<1> QED BY <1>1, <1>2, <1>3, StaysIsolated DEF ChatInv

\* A step of the hub that changes lists, selections and calls only.
LEMMA ListsKeep ==
    ASSUME ChatInv, Chats!ContinuationAssumption, CallsOK', ContsOK', NewRowsMatch,
           UNCHANGED <<endpoint, task, link, event, subscription, outbox, timeline>>
    PROVE  ChatInv'
<1>1. OwnersStay
  BY DEF OwnersStay
<1>2. RowsOK'
  BY DEF ChatInv, RowsOK
<1> QED BY <1>1, <1>2, StaysIsolated DEF ChatInv

\* The states that a call can be in after its first transaction.
LEMMA CallAtIsKnown ==
    ASSUME NEW pc \in {"task", "message", "search", "chosen"}, NEW u \in Users,
           NEW e \in Endpoints, NEW k \in KeyNames \cup Messages \cup {Unset},
           NEW t \in Tasks \cup {Unset},
           pc = "task" => k \in KeyNames, pc = "message" => k \in Messages,
           pc = "chosen" => t \in Tasks
    PROVE  Chats!CallAt(pc, u, e, k, t) \in CallStates
           /\ CallKnows(Chats!CallAt(pc, u, e, k, t))
  BY DEF CallStates, CallKnows, Chats!CallAt, Chats!Modes

\* The calls of the hosts: ensure_host_task and append_host_timeline_message.
LEMMA StartsKeep ==
    ASSUME ChatInv, Chats!ContinuationAssumption, NEW c \in Calls, NEW u \in Users,
           NEW e \in Endpoints, Chats!HostTaskEnsure(c, u, e) \/ Chats!HostTimelineAppend(c, u, e)
    PROVE  ChatInv'
<1>1. ASSUME NEW k \in KeyNames, Chats!StartHostTask(c, u, e, k) PROVE ChatInv'
  <2> DEFINE new == Chats!CallAt("task", u, e, k, Unset)
  <2>1. new \in CallStates /\ CallKnows(new)
    BY CallAtIsKnown
  <2>2. call' = [call EXCEPT ![c] = new]
    BY <1>1 DEF Chats!StartHostTask
  <2> HIDE DEF new
  <2>3. CallsOK'
    BY <2>1, <2>2, CallGoesOn DEF ChatInv
  <2> QED BY <1>1, <2>3, BindKeeps DEF Chats!StartHostTask
<1>2. ASSUME NEW m \in Messages, NEW t \in Tasks \cup {Unset},
             Chats!StartMessage(c, u, e, m, t)
      PROVE  ChatInv'
  <2> DEFINE new == Chats!CallAt("message", u, e, m, t)
  <2>1. new \in CallStates /\ CallKnows(new)
    BY CallAtIsKnown
  <2>2. call' = [call EXCEPT ![c] = new]
    BY <1>2 DEF Chats!StartMessage
  <2> HIDE DEF new
  <2>3. CallsOK'
    BY <2>1, <2>2, CallGoesOn DEF ChatInv
  <2> QED BY <1>2, <2>3, BindKeeps DEF Chats!StartMessage
<1> QED BY <1>1, <1>2 DEF Chats!HostTaskEnsure, Chats!HostTimelineAppend

\* A task is chosen for a call.
LEMMA ChosenIsKnown ==
    ASSUME CallsOK, NEW c \in Calls, NEW u \in Users, NEW e \in Endpoints, NEW t \in Tasks,
           Chats!Chosen(c, u, e, t)
    PROVE  CallsOK'
<1> DEFINE new == Chats!CallAt("chosen", u, e, Unset, t)
<1>1. new \in CallStates /\ CallKnows(new)
  BY CallAtIsKnown
<1>2. call' = [call EXCEPT ![c] = new]
  BY DEF Chats!Chosen
<1> HIDE DEF new
<1> QED BY <1>1, <1>2, CallGoesOn

\* Reading a list or a selection clears it or leaves it.
LEMMA ReadMatches ==
    ASSUME ChatInv, NEW S \in SUBSET Endpoints,
           cont' = [e \in Endpoints |-> IF e \in S THEN Chats!Read(e) ELSE cont[e]],
           \A e \in S : cont[e].state # "absent" \/ ~cont[e].due,
           UNCHANGED <<endpoint, task, link, event, subscription, outbox, timeline>>
    PROVE  ContsOK' /\ NewRowsMatch
<1>1. ContsOK'
  BY ReadKeepsOwner DEF ChatInv, ContsOK
<1>2. ASSUME NEW e \in Endpoints, cont'[e].state # "absent", cont'[e] # cont[e]
      PROVE  /\ endpoint'[e] = cont'[e].user
             /\ HostOf[e] = cont'[e].host
             /\ \A t \in Chats!Range(cont'[e].list) \cup ({cont'[e].selected} \ {Unset}) :
                  task'[t].user = cont'[e].user /\ task'[t].host = cont'[e].host
  <2>1. e \in S /\ cont'[e] = Chats!Read(e)
    BY <1>2
  <2>2. cont[e].state # "absent"
    BY <1>2, <2>1 DEF Chats!Read
  <2>3. endpoint[e] = cont[e].user /\ HostOf[e] = cont[e].host
    BY <2>2 DEF ChatInv, Chats!Isolated, Chats!ContinuationMatches
  <2>4. /\ cont'[e].user = cont[e].user /\ cont'[e].host = cont[e].host
        /\ cont'[e].list = <<>> /\ cont'[e].selected = Unset
    BY <1>2, <2>1, ReadKeepsOwner DEF ChatInv
  <2>5. Chats!Range(cont'[e].list) \cup ({cont'[e].selected} \ {Unset}) = {}
    BY <2>4 DEF Chats!Range
  <2> QED BY <2>3, <2>4, <2>5
<1>3. NewRowsMatch
  BY <1>2 DEF NewRowsMatch, NewContsMatch
<1> QED BY <1>1, <1>3

\* resolve_host_task_continuation, its first transaction.
LEMMA ResolvesKeep ==
    ASSUME ChatInv, Chats!ContinuationAssumption, NEW c \in Calls, NEW u \in Users,
           NEW e \in Endpoints, Chats!HostContinuationResolve(c, u, e)
    PROVE  ChatInv'
<1>0. CallsOK /\ ContsOK
  BY DEF ChatInv
<1>1. ASSUME NEW h \in Hosts, NEW t \in Tasks, Chats!ResolveTask(c, u, h, e, t)
      PROVE  ChatInv'
  <2>1. CallsOK'
    BY <1>0, <1>1, ChosenIsKnown DEF Chats!ResolveTask
  <2>2. ContsOK' /\ NewRowsMatch
    BY <1>0, <1>1 DEF Chats!ResolveTask, ContsOK, NewRowsMatch, NewContsMatch
  <2> QED BY <1>1, <2>1, <2>2, ListsKeep DEF Chats!ResolveTask
<1>2. ASSUME cont' = [cont EXCEPT ![e] = Chats!Read(e)],
             UNCHANGED <<endpoint, task, link, event, subscription, outbox, timeline>>
      PROVE  ContsOK' /\ NewRowsMatch
  <2>1. cont' = [x \in Endpoints |-> IF x \in {e} THEN Chats!Read(x) ELSE cont[x]]
    BY <1>0, <1>2 DEF ContsOK
  <2>2. \A x \in {e} : cont[x].state # "absent" \/ ~cont[x].due
    BY <1>0 DEF ContsOK, ContKnows
  <2> QED BY <1>2, <2>1, <2>2, ReadMatches
<1>3. ASSUME NEW h \in Hosts, NEW n \in Tasks, Chats!ResolveNumber(c, u, h, e, n)
      PROVE  ChatInv'
  <2>1. ContsOK' /\ NewRowsMatch
    BY <1>2, <1>3 DEF Chats!ResolveNumber
  <2>2. CallsOK'
    <3>1. CASE Chats!Read(e).state = "awaiting_selection" /\ n \in DOMAIN Chats!Read(e).list
      <4>1. Chats!Read(e).list[n] \in Tasks
        BY <1>0, <3>1, ReadKeepsOwner DEF ContRows
      <4> QED BY <1>0, <1>3, <3>1, <4>1, ChosenIsKnown DEF Chats!ResolveNumber
    <3>2. CASE ~(Chats!Read(e).state = "awaiting_selection" /\ n \in DOMAIN Chats!Read(e).list)
      BY <1>0, <1>3, <3>2 DEF Chats!ResolveNumber, CallsOK, CallKnows
    <3> QED BY <3>1, <3>2
  <2> QED BY <1>3, <2>1, <2>2, ListsKeep DEF Chats!ResolveNumber
<1>4. ASSUME NEW h \in Hosts, Chats!ResolveContext(c, u, h, e)
      PROVE  ChatInv'
  <2>1. ContsOK' /\ NewRowsMatch
    BY <1>2, <1>4 DEF Chats!ResolveContext
  <2>2. CallsOK'
    <3>1. CASE Chats!Read(e).state = "selected"
      <4>1. Chats!Read(e).selected \in Tasks
        BY <1>0, <3>1, ReadKeepsOwner DEF ContKnows
      <4> QED BY <1>0, <1>4, <3>1, <4>1, ChosenIsKnown DEF Chats!ResolveContext
    <3>2. CASE Chats!Read(e).state # "selected"
      <4> DEFINE new == Chats!CallAt("search", u, e, Unset, Unset)
      <4>1. new \in CallStates /\ CallKnows(new)
        BY CallAtIsKnown
      <4>2. call' = [call EXCEPT ![c] = new]
        BY <1>4, <3>2 DEF Chats!ResolveContext
      <4> HIDE DEF new
      <4> QED BY <1>0, <4>1, <4>2, CallGoesOn
    <3> QED BY <3>1, <3>2
  <2> QED BY <1>4, <2>1, <2>2, ListsKeep DEF Chats!ResolveContext
<1> QED BY <1>1, <1>3, <1>4 DEF Chats!HostContinuationResolve

\* ensure_task, the task that the key finds or a new one.
LEMMA EnsureKeeps ==
    ASSUME ChatInv, Chats!ContinuationAssumption, NEW c \in Calls, Chats!EnsureTask(c)
    PROVE  ChatInv'
<1> DEFINE u == call[c].user
           e == call[c].endpoint
           h == HostOf[e]
           k == call[c].key
<1>0. /\ u \in Users /\ e \in Endpoints /\ k \in KeyNames /\ h \in Hosts
      /\ u # Unset
  BY DEF ChatInv, CallsOK, CallKnows, Chats!EnsureTask, Chats!ContinuationAssumption
<1>1. CallsOK'
  BY CallEnds DEF ChatInv, Chats!EnsureTask
<1>2. ContsOK' /\ UNCHANGED <<endpoint, link, timeline, cont>>
  BY DEF ChatInv, ContsOK, Chats!EnsureTask
<1>3. CASE UNCHANGED <<task, subscription, event, outbox>>
  <2>1. NewRowsMatch
    BY <1>2, <1>3 DEF NewRowsMatch, NewContsMatch
  <2> QED BY <1>1, <1>2, <1>3, <2>1, ListsKeep
<1>4. ASSUME NEW t \in Tasks, task[t].user = u, task' = [task EXCEPT ![t].focus = e],
             UNCHANGED <<subscription, event, outbox>>
      PROVE  ChatInv'
  <2>1. task' \in [Tasks -> TaskRows]
    BY <1>0, <1>4 DEF ChatInv, RowsOK, TaskRows
  <2>2. \A x \in Tasks : /\ task'[x].user = task[x].user /\ task'[x].host = task[x].host
                         /\ task'[x].origin = task[x].origin
    BY <1>4 DEF ChatInv, RowsOK, TaskRows
  <2>3. RowsOK'
    BY <1>2, <1>4, <2>1, <2>2 DEF ChatInv, RowsOK
  <2>4. OwnersStay
    BY <1>2, <2>2 DEF OwnersStay
  <2>5. NewRowsMatch
    BY <1>2, <1>4, <2>2 DEF NewRowsMatch, NewContsMatch
  <2> QED BY <1>1, <1>2, <2>3, <2>4, <2>5, StaysIsolated DEF ChatInv
<1>5. ASSUME NEW t \in Tasks, task[t].user = Unset, endpoint[e] = u,
             task' = [task EXCEPT ![t] =
                        [user |-> u, host |-> h, key |-> k, origin |-> e, focus |-> e,
                         status |-> "active"]],
             subscription' = subscription \cup Chats!Companions(t, u),
             event' = event \cup {<<t, u>>},
             outbox' = outbox \cup Chats!Companions(t, u)
      PROVE  ChatInv'
  <2> HIDE DEF u, e, h, k
  <2>1. task' \in [Tasks -> TaskRows]
    BY <1>0, <1>5 DEF ChatInv, RowsOK, TaskRows, Chats!Statuses
  <2>2. /\ \A x \in Tasks : x # t => task'[x] = task[x]
        /\ task'[t].user = u /\ task'[t].host = h /\ task'[t].origin = e
    BY <1>5 DEF ChatInv, RowsOK
  <2>3. /\ Chats!Companions(t, u) \in SUBSET (Tasks \X Endpoints \X Users)
        /\ \A x \in Chats!Companions(t, u) : x[1] = t /\ x[3] = u /\ endpoint[x[2]] = u
    BY <1>0, DeliveriesMatch
  <2>4. /\ subscription' \in SUBSET (Tasks \X Endpoints \X Users)
        /\ event' \in SUBSET (Tasks \X Users)
        /\ outbox' \in SUBSET ((Tasks \cup {Unset}) \X Endpoints \X Users)
    BY <1>0, <1>5, <2>3 DEF ChatInv, RowsOK
  <2>5. \A x \in Tasks : task'[x].user # Unset =>
           task'[x].origin \in Endpoints /\ task'[x].host \in Hosts
    BY <1>0, <2>2 DEF ChatInv, RowsOK
  <2>6. RowsOK'
    BY <1>2, <2>1, <2>4, <2>5 DEF ChatInv, RowsOK
  <2>7. OwnersStay
    BY <1>2, <1>5, <2>2 DEF OwnersStay
  <2>8. NewRowsMatch
    BY <1>0, <1>2, <1>5, <2>2, <2>3 DEF NewRowsMatch, NewContsMatch
  <2> QED BY <1>1, <1>2, <2>6, <2>7, <2>8, StaysIsolated DEF ChatInv
<1> QED BY <1>3, <1>4, <1>5 DEF Chats!EnsureTask, Chats!TasksFor, Chats!FreeTasks

\* _append_timeline_message_in_connection, heard at the user's other endpoints.
LEMMA MessageKeeps ==
    ASSUME ChatInv, Chats!ContinuationAssumption, NEW c \in Calls, Chats!AppendMessage(c)
    PROVE  ChatInv'
<1> DEFINE u == call[c].user
           e == call[c].endpoint
           t == call[c].task
           m == call[c].key
           row == [user |-> u, key |-> m, endpoint |-> e, task |-> t]
<1>0. /\ u \in Users /\ e \in Endpoints /\ m \in Messages /\ t \in Tasks \cup {Unset}
      /\ u # Unset
  BY DEF ChatInv, CallsOK, CallStates, CallKnows, Chats!AppendMessage,
         Chats!ContinuationAssumption
<1>1. CallsOK'
  BY CallEnds DEF ChatInv, Chats!AppendMessage
<1>2. ContsOK' /\ UNCHANGED <<endpoint, task, link, event, subscription, cont>>
  BY DEF ChatInv, ContsOK, Chats!AppendMessage
<1>3. CASE UNCHANGED <<timeline, outbox>>
  <2>1. NewRowsMatch
    BY <1>2, <1>3 DEF NewRowsMatch, NewContsMatch
  <2> QED BY <1>1, <1>2, <1>3, <2>1, ListsKeep
<1>4. ASSUME endpoint[e] = u, t # Unset => task[t].user = u,
             timeline' = timeline \cup {row}, outbox' = outbox \cup Chats!Heard(u, e, t)
      PROVE  ChatInv'
  <2>1. row \in [user : Users, key : Messages, endpoint : Endpoints, task : Tasks \cup {Unset}]
        /\ row.user = u /\ row.endpoint = e /\ row.task = t
    BY <1>0
  <2> HIDE DEF row, u, e, t, m
  <2>2. /\ Chats!Heard(u, e, t) \in SUBSET ((Tasks \cup {Unset}) \X Endpoints \X Users)
        /\ \A x \in Chats!Heard(u, e, t) : x[1] = t /\ x[3] = u /\ endpoint[x[2]] = u
    BY <1>0 DEF Chats!Heard
  <2>3. RowsOK'
    BY <1>2, <1>4, <2>1, <2>2 DEF ChatInv, RowsOK
  <2>4. OwnersStay
    BY <1>2 DEF OwnersStay
  <2>5. NewRowsMatch
    BY <1>2, <1>4, <2>1, <2>2 DEF NewRowsMatch, NewContsMatch
  <2> QED BY <1>1, <1>2, <2>3, <2>4, <2>5, StaysIsolated DEF ChatInv
<1> QED BY <1>3, <1>4 DEF Chats!AppendMessage, Chats!OwnedTask

\* A step that tells of a task of the user, and at most changes its status.
LEMMA TellsItsOwner ==
    ASSUME ChatInv, Chats!ContinuationAssumption, NEW t \in Tasks, NEW u \in Users,
           task[t].user = u, CallsOK', ContsOK', UNCHANGED <<endpoint, timeline>>,
           task' \in [Tasks -> TaskRows],
           \A x \in Tasks : /\ task'[x].user = task[x].user
                            /\ task'[x].host = task[x].host
                            /\ task'[x].origin = task[x].origin,
           event' = event \cup {<<t, u>>},
           NewLinksAreOf(t, u),
           NEW S \in SUBSET Chats!Companions(t, u), subscription' = subscription \cup S,
           outbox' = outbox \cup S \cup Chats!Deliveries(t, u),
           NewContsMatch
    PROVE  ChatInv'
<1>1. /\ Chats!Deliveries(t, u) \in SUBSET ((Tasks \cup {Unset}) \X Endpoints \X Users)
      /\ S \in SUBSET (Tasks \X Endpoints \X Users)
      /\ \A x \in Chats!Deliveries(t, u) \cup S : x[1] = t /\ x[3] = u /\ endpoint[x[2]] = u
  BY DeliveriesMatch
<1>2. /\ subscription' \in SUBSET (Tasks \X Endpoints \X Users)
      /\ event' \in SUBSET (Tasks \X Users)
      /\ link' \in SUBSET (Tasks \X EffectRefs \X Users)
      /\ outbox' \in SUBSET ((Tasks \cup {Unset}) \X Endpoints \X Users)
  BY <1>1 DEF ChatInv, RowsOK, NewLinksAreOf
<1>3. RowsOK'
  BY <1>2 DEF ChatInv, RowsOK
<1>4. OwnersStay
  BY DEF OwnersStay
<1>5. NewRowsMatch
  <2>1. task'[t].user = u
    OBVIOUS
  <2>2. \A x \in event' : x \in event \/ task'[x[1]].user = x[2]
    BY <2>1
  <2>3. \A x \in link' : x \in link \/ task'[x[1]].user = x[3]
    BY <2>1 DEF NewLinksAreOf
  <2>4. \A x \in subscription' :
          x \in subscription \/ (task'[x[1]].user = x[3] /\ endpoint'[x[2]] = x[3])
    BY <1>1, <2>1
  <2>5. \A x \in outbox' :
          x \in outbox \/ (endpoint'[x[2]] = x[3] /\ (x[1] # Unset => task'[x[1]].user = x[3]))
    BY <1>1, <2>1
  <2> QED BY <2>2, <2>3, <2>4, <2>5 DEF NewRowsMatch
<1> QED BY <1>3, <1>4, <1>5, StaysIsolated DEF ChatInv

\* The host's reports of a task.
LEMMA ReportsKeep ==
    ASSUME ChatInv, Chats!ContinuationAssumption, Chats!Reports
    PROVE  ChatInv'
<1>0. /\ CallsOK /\ ContsOK /\ task \in [Tasks -> TaskRows]
  BY DEF ChatInv, RowsOK
<1>1. PICK u \in Users, t \in Tasks :
        \/ \E r \in EffectRefs : Chats!LinkOperation(u, t, r)
        \/ Chats!HostDeliveryReport(u, t)
        \/ Chats!PlanWaits(u, t)
        \/ Chats!HostTaskFinish(u, t)
  BY DEF Chats!Reports
<1>2. /\ CallsOK' /\ ContsOK' /\ UNCHANGED <<endpoint, timeline>> /\ NewContsMatch
      /\ task[t].user = u
  BY <1>0, <1>1 DEF Chats!LinkOperation, Chats!HostDeliveryReport, Chats!ReportDelivery,
     Chats!PlanWaits, Chats!HostTaskFinish, Chats!FailTask, Chats!FinishTask, CallsOK, ContsOK,
     CallKnows, ContKnows, Chats!OwnedTask, NewContsMatch
<1>3. /\ task' \in [Tasks -> TaskRows]
      /\ \A x \in Tasks : /\ task'[x].user = task[x].user
                           /\ task'[x].host = task[x].host
                           /\ task'[x].origin = task[x].origin
  <2>1. \/ UNCHANGED task
        \/ \E st \in Chats!Statuses : task' = [task EXCEPT ![t].status = st]
    BY <1>0, <1>1 DEF Chats!LinkOperation, Chats!HostDeliveryReport, Chats!ReportDelivery,
       Chats!PlanWaits, Chats!HostTaskFinish, Chats!FailTask, Chats!FinishTask,
       Chats!Statuses, TaskRows
  <2> QED BY <1>0, <2>1 DEF TaskRows
<1>4. CASE \E r \in EffectRefs : Chats!LinkOperation(u, t, r)
  <2>1. PICK r \in EffectRefs : Chats!LinkOperation(u, t, r)
    BY <1>4
  <2>2. NewLinksAreOf(t, u)
    BY <2>1 DEF Chats!LinkOperation, NewLinksAreOf
  <2>3. /\ subscription' = subscription \cup {}
        /\ event' = event \cup {<<t, u>>}
        /\ outbox' = outbox \cup {} \cup Chats!Deliveries(t, u)
    BY <2>1 DEF Chats!LinkOperation, Chats!AppendEvent
  <2> QED BY <1>2, <1>3, <2>2, <2>3, TellsItsOwner
<1>5. CASE Chats!HostDeliveryReport(u, t) \/ Chats!PlanWaits(u, t)
  <2>1. /\ NewLinksAreOf(t, u) /\ subscription' = subscription \cup {}
        /\ event' = event \cup {<<t, u>>}
        /\ outbox' = outbox \cup {} \cup Chats!Deliveries(t, u)
    BY <1>5 DEF Chats!HostDeliveryReport, Chats!ReportDelivery, Chats!PlanWaits,
       Chats!AppendEvent, NewLinksAreOf
  <2> QED BY <1>2, <1>3, <2>1, TellsItsOwner
<1>6. CASE Chats!HostTaskFinish(u, t)
  <2>1. /\ NewLinksAreOf(t, u)
        /\ subscription' = subscription \cup Chats!Companions(t, u)
        /\ event' = event \cup {<<t, u>>}
        /\ outbox' = outbox \cup Chats!Companions(t, u) \cup Chats!Deliveries(t, u)
    BY <1>6 DEF Chats!HostTaskFinish, Chats!FailTask, Chats!FinishTask, NewLinksAreOf
  <2>2. Chats!Companions(t, u) \in SUBSET Chats!Companions(t, u)
    OBVIOUS
  <2> QED BY <1>2, <1>3, <2>1, <2>2, TellsItsOwner
<1> QED BY <1>1, <1>4, <1>5, <1>6

\* The candidates in an order: a list of tasks, with a first one.
LEMMA OrdersAreLists ==
    ASSUME Chats!ContinuationAssumption, NEW S \in SUBSET Tasks, S # {},
           NEW s \in Chats!Orders(S)
    PROVE  s \in Seq(Tasks) /\ s[1] \in Tasks
<1>1. IsFiniteSet(S) /\ Cardinality(S) \in Nat
  <2>1. IsFiniteSet(Tasks)
    BY DEF Chats!ContinuationAssumption, Chats!IsFiniteSet, IsFiniteSet
  <2>2. IsFiniteSet(S)
    BY <2>1, FS_Subset
  <2> QED BY <2>2, FS_CardinalityType
<1>2. Cardinality(S) # 0
  <2>1. IsFiniteSet(S) => (Cardinality(S) = 0 <=> S = {})
    BY FS_EmptySet
  <2> QED BY <1>1, <2>1
<1>3. s \in [1..Cardinality(S) -> S]
  <2>1. Chats!Cardinality(S) = Cardinality(S)
    BY DEF Chats!Cardinality, Cardinality, Chats!IsFiniteSet, IsFiniteSet
  <2> QED BY <2>1 DEF Chats!Orders
<1>4. s \in [1..Cardinality(S) -> Tasks]
  BY <1>3
<1>5. s \in Seq(Tasks)
  BY <1>1, <1>4
<1>6. 1 \in 1..Cardinality(S)
  BY <1>1, <1>2
<1> QED BY <1>4, <1>5, <1>6

\* The search, and the check of the task that was chosen.
LEMMA SearchKeeps ==
    ASSUME ChatInv, Chats!ContinuationAssumption, NEW c \in Calls,
           Chats!Search(c) \/ \E followUp \in BOOLEAN : Chats!Refresh(c, followUp)
    PROVE  ChatInv'
<1> DEFINE u == call[c].user
           e == call[c].endpoint
<1>0. CallsOK /\ ContsOK
  BY DEF ChatInv
<1>1. /\ UNCHANGED <<endpoint, task, link, event, subscription, outbox, timeline, cont>>
  BY DEF Chats!Search, Chats!Refresh
<1>2. ContsOK' /\ NewRowsMatch
  BY <1>0, <1>1 DEF ContsOK, NewRowsMatch, NewContsMatch
<1>3. ASSUME Chats!Search(c) PROVE CallsOK'
  <2>0. u \in Users /\ e \in Endpoints
    BY <1>0, <1>3 DEF CallsOK, CallKnows, Chats!Search
  <2>1. CASE Chats!Preferred(u, e) = {}
    BY <1>0, <1>3, <2>1, CallEnds DEF Chats!Search
  <2>2. CASE Chats!Preferred(u, e) # {}
    <3>1. Chats!Preferred(u, e) \in SUBSET Tasks
      BY DEF Chats!Preferred, Chats!Candidates
    <3>2. PICK s \in Chats!Orders(Chats!Preferred(u, e)) :
             \/ Chats!Chosen(c, u, e, s[1])
             \/ call' = [call EXCEPT ![c] = [@ EXCEPT !.pc = "offer", !.list = s]]
      BY <1>3, <2>2 DEF Chats!Search
    <3>3. s \in Seq(Tasks) /\ s[1] \in Tasks
      BY <2>2, <3>1, OrdersAreLists
    <3>4. CASE Chats!Chosen(c, u, e, s[1])
      <4> HIDE DEF u, e
      <4> QED BY <1>0, <2>0, <3>3, <3>4, ChosenIsKnown
    <3>5. CASE call' = [call EXCEPT ![c] = [@ EXCEPT !.pc = "offer", !.list = s]]
      <4> DEFINE new == [call[c] EXCEPT !.pc = "offer", !.list = s]
      <4>1. call[c] \in CallStates
        BY <1>0 DEF CallsOK
      <4>2. new \in CallStates /\ CallKnows(new)
        BY <2>0, <3>3, <4>1 DEF CallStates, CallKnows
      <4>3. call' = [call EXCEPT ![c] = new]
        BY <3>5
      <4> HIDE DEF new
      <4> QED BY <1>0, <4>2, <4>3, CallGoesOn
    <3> QED BY <3>2, <3>4, <3>5
  <2> QED BY <2>1, <2>2
<1>4. ASSUME NEW followUp \in BOOLEAN, Chats!Refresh(c, followUp) PROVE CallsOK'
  <2> DEFINE mode == Chats!ModeOf(task[call[c].task].status, followUp)
             new == [call[c] EXCEPT !.pc = "select", !.mode = mode]
  <2>0. /\ call[c] \in CallStates /\ u \in Users /\ e \in Endpoints
        /\ call[c].task \in Tasks /\ call[c].pc = "chosen"
    BY <1>0, <1>4 DEF CallsOK, CallKnows, Chats!Refresh
  <2>1. mode \in Chats!Modes
    BY DEF Chats!ModeOf, Chats!Modes
  <2>2. call' = [call EXCEPT ![c] = new] \/ call' = [call EXCEPT ![c] = Chats!Idle]
    BY <1>4 DEF Chats!Refresh
  <2> HIDE DEF mode
  <2>3. new \in CallStates /\ CallKnows(new)
    BY <2>0, <2>1 DEF CallStates, CallKnows
  <2> HIDE DEF new
  <2> QED BY <1>0, <2>2, <2>3, CallGoesOn, CallEnds
<1> QED BY <1>1, <1>2, <1>3, <1>4, ListsKeep

\* set_continuation_candidates: the list is of the user's own tasks.
LEMMA OfferKeeps ==
    ASSUME ChatInv, Chats!ContinuationAssumption, NEW c \in Calls, Chats!Offer(c)
    PROVE  ChatInv'
<1> DEFINE u == call[c].user
           e == call[c].endpoint
           h == HostOf[e]
           l == call[c].list
           k == Chats!ContRow("awaiting_selection", u, h, Unset, l, "observe_only")
<1>0. /\ u \in Users /\ e \in Endpoints /\ h \in Hosts /\ l \in Seq(Tasks)
  BY DEF ChatInv, CallsOK, CallStates, CallKnows, Chats!Offer, Chats!ContinuationAssumption
<1>1. CallsOK'
  BY CallEnds DEF ChatInv, Chats!Offer
<1>2. UNCHANGED <<endpoint, task, link, event, subscription, outbox, timeline>>
  BY DEF Chats!Offer
<1>3. CASE UNCHANGED cont
  <2>1. ContsOK' /\ NewRowsMatch
    BY <1>2, <1>3 DEF ChatInv, ContsOK, NewRowsMatch, NewContsMatch
  <2> QED BY <1>1, <1>2, <2>1, ListsKeep
<1>4. ASSUME endpoint[e] = u, cont' = [cont EXCEPT ![e] = k],
             \A t \in Chats!Range(l) : task[t].user = u /\ task[t].host = h
      PROVE  ChatInv'
  <2>1. k \in ContRows /\ ContKnows(k)
    BY <1>0 DEF Chats!ContRow, ContRows, ContKnows, Chats!Modes
  <2>2. k.user = u /\ k.host = h /\ k.list = l /\ k.selected = Unset
    BY DEF Chats!ContRow
  <2> HIDE DEF k, u, e, h, l
  <2>3. ContsOK'
    BY <1>0, <1>4, <2>1, ContIsReplaced DEF ChatInv
  <2>4. /\ cont'[e] = k /\ \A x \in Endpoints : x # e => cont'[x] = cont[x]
    BY <1>0, <1>4 DEF ChatInv, ContsOK
  <2>5. NewRowsMatch
    BY <1>2, <1>4, <2>2, <2>4 DEF NewRowsMatch, NewContsMatch, h
  <2> QED BY <1>1, <1>2, <2>3, <2>5, ListsKeep
<1> QED BY <1>3, <1>4 DEF Chats!Offer, Chats!OwnedEndpoint, Chats!OwnedTask

\* select_continuation: the task is the user's own.
LEMMA SelectKeeps ==
    ASSUME ChatInv, Chats!ContinuationAssumption, NEW c \in Calls, Chats!Select(c)
    PROVE  ChatInv'
<1> DEFINE u == call[c].user
           e == call[c].endpoint
           h == HostOf[e]
           t == call[c].task
           m == call[c].mode
           k == Chats!ContRow("selected", u, h, t, <<>>, m)
<1>0. /\ u \in Users /\ e \in Endpoints /\ h \in Hosts /\ t \in Tasks /\ m \in Chats!Modes
  BY DEF ChatInv, CallsOK, CallStates, CallKnows, Chats!Select, Chats!ContinuationAssumption
<1>1. CallsOK'
  BY CallEnds DEF ChatInv, Chats!Select
<1>2. UNCHANGED <<endpoint, link, subscription, timeline>>
  BY DEF Chats!Select
<1>3. CASE UNCHANGED <<cont, task, event, outbox>>
  <2>1. ContsOK' /\ NewRowsMatch
    BY <1>2, <1>3 DEF ChatInv, ContsOK, NewRowsMatch, NewContsMatch
  <2> QED BY <1>1, <1>2, <1>3, <2>1, ListsKeep
<1>4. ASSUME endpoint[e] = u, cont' = [cont EXCEPT ![e] = k],
             task[t].user = u, task[t].host = h, task' = [task EXCEPT ![t].focus = e],
             event' = event \cup {<<t, u>>}, outbox' = outbox \cup Chats!Deliveries(t, u)
      PROVE  ChatInv'
  <2>1. k \in ContRows /\ ContKnows(k)
    BY <1>0 DEF Chats!ContRow, ContRows, ContKnows
  <2>2. /\ k.user = u /\ k.host = h /\ k.selected = t
        /\ Chats!Range(k.list) = {}
    BY DEF Chats!ContRow, Chats!Range
  <2> HIDE DEF k, u, e, h, t, m
  <2>3. ContsOK'
    BY <1>0, <1>4, <2>1, ContIsReplaced DEF ChatInv
  <2>4. /\ cont'[e] = k /\ \A x \in Endpoints : x # e => cont'[x] = cont[x]
    BY <1>0, <1>4 DEF ChatInv, ContsOK
  <2>5. /\ task' \in [Tasks -> TaskRows]
        /\ \A x \in Tasks : /\ task'[x].user = task[x].user
                             /\ task'[x].host = task[x].host
                             /\ task'[x].origin = task[x].origin
    BY <1>0, <1>4 DEF ChatInv, RowsOK, TaskRows
  <2>6. NewContsMatch
    BY <1>0, <1>2, <1>4, <2>2, <2>4, <2>5 DEF NewContsMatch, h
  <2>7. /\ NewLinksAreOf(t, u) /\ subscription' = subscription \cup {}
        /\ outbox' = outbox \cup {} \cup Chats!Deliveries(t, u)
    BY <1>2, <1>4 DEF NewLinksAreOf
  <2> QED BY <1>0, <1>1, <1>2, <1>4, <2>3, <2>5, <2>6, <2>7, TellsItsOwner
<1> QED BY <1>3, <1>4 DEF Chats!Select, Chats!OwnedEndpoint, Chats!OwnedTask, Chats!AppendEvent

\* Deadlines pass, and rows past them are cleared.
LEMMA DeadlinesKeep ==
    ASSUME ChatInv, Chats!ContinuationAssumption,
           \/ \E e \in Endpoints : Chats!TimePasses(e)
           \/ \E u \in Users : Chats!ListContinuations(u)
    PROVE  ChatInv'
<1>0. CallsOK /\ ContsOK
  BY DEF ChatInv
<1>1. ASSUME NEW e \in Endpoints, Chats!TimePasses(e) PROVE ChatInv'
  <2> DEFINE k == [cont[e] EXCEPT !.due = TRUE]
  <2>1. cont[e] \in ContRows /\ ContKnows(cont[e]) /\ cont[e].state # "absent"
    BY <1>0, <1>1 DEF ContsOK, Chats!TimePasses
  <2>2. /\ k \in ContRows /\ ContKnows(k) /\ k.user = cont[e].user /\ k.host = cont[e].host
        /\ k.list = cont[e].list /\ k.selected = cont[e].selected
    BY <2>1 DEF ContRows, ContKnows
  <2>3. cont' = [cont EXCEPT ![e] = k]
    BY <1>1 DEF Chats!TimePasses
  <2> HIDE DEF k
  <2>4. ContsOK' /\ CallsOK'
    BY <1>0, <1>1, <2>2, <2>3, ContIsReplaced DEF Chats!TimePasses, CallsOK
  <2>5. /\ cont'[e] = k /\ \A x \in Endpoints : x # e => cont'[x] = cont[x]
    BY <1>0, <2>3 DEF ContsOK
  <2>6. /\ endpoint[e] = k.user /\ HostOf[e] = k.host
        /\ \A t \in Chats!Range(k.list) \cup ({k.selected} \ {Unset}) :
             task[t].user = k.user /\ task[t].host = k.host
    BY <2>1, <2>2 DEF ChatInv, Chats!Isolated, Chats!ContinuationMatches
  <2>7. NewRowsMatch
    BY <1>1, <2>5, <2>6 DEF NewRowsMatch, NewContsMatch, Chats!TimePasses
  <2> QED BY <1>1, <2>4, <2>7, ListsKeep DEF Chats!TimePasses
<1>2. ASSUME NEW u \in Users, Chats!ListContinuations(u) PROVE ChatInv'
  <2> DEFINE S == {e \in Endpoints : cont[e].user = u}
  <2>1. cont' = [e \in Endpoints |-> IF e \in S THEN Chats!Read(e) ELSE cont[e]]
    BY <1>2 DEF Chats!ListContinuations
  <2>2. S \in SUBSET Endpoints /\ \A e \in S : cont[e].state # "absent" \/ ~cont[e].due
    BY <1>0 DEF ContsOK, ContKnows
  <2> HIDE DEF S
  <2>3. ContsOK' /\ NewRowsMatch
    BY <1>2, <2>1, <2>2, ReadMatches DEF Chats!ListContinuations
  <2>4. CallsOK'
    BY <1>0, <1>2 DEF Chats!ListContinuations, CallsOK
  <2> QED BY <1>2, <2>3, <2>4, ListsKeep DEF Chats!ListContinuations
<1> QED BY <1>1, <1>2

\* Nothing is there at first.
LEMMA ChatStarts ==
    ASSUME Chats!ContinuationAssumption, Chats!Init
    PROVE  ChatInv
<1>1. Chats!NoTask \in TaskRows /\ Chats!NoTask.user = Unset
  BY DEF Chats!NoTask, TaskRows, Chats!Statuses
<1>2. /\ Chats!NoCont \in ContRows /\ ContKnows(Chats!NoCont)
      /\ Chats!NoCont.state = "absent"
  BY DEF Chats!NoCont, Chats!ContRow, ContRows, ContKnows, Chats!Modes
<1>3. Chats!Idle \in CallStates /\ CallKnows(Chats!Idle)
  BY DEF Chats!Idle, Chats!CallAt, CallStates, CallKnows, Chats!Modes
<1>4. RowsOK
  BY <1>1 DEF Chats!Init, RowsOK
<1>5. ContsOK
  BY <1>2 DEF Chats!Init, ContsOK
<1>6. CallsOK
  BY <1>3 DEF Chats!Init, CallsOK
<1>7. Chats!Isolated
  BY <1>1, <1>2 DEF Chats!Init, Chats!Isolated, Chats!TaskOriginMatches, Chats!LinksMatch,
     Chats!SubscriptionsMatch, Chats!OutboxMatches, Chats!TimelineMatches,
     Chats!ContinuationMatches
<1> QED BY <1>4, <1>5, <1>6, <1>7 DEF ChatInv

LEMMA ChatInvariant ==
    ASSUME Chats!ContinuationAssumption
    PROVE  Chats!Spec => []ChatInv
<1>1. Chats!Init => ChatInv
  BY ChatStarts
<1>2. ASSUME ChatInv, [Chats!Next]_Chats!vars PROVE ChatInv'
  <2>1. CASE \E c \in Calls : Chats!Starts(c)
    BY <1>2, <2>1, StartsKeep, ResolvesKeep DEF Chats!Starts
  <2>2. CASE Chats!Reports
    BY <1>2, <2>2, ReportsKeep
  <2>3. CASE \E c \in Calls : Chats!CallStep(c)
    BY <1>2, <2>3, EnsureKeeps, MessageKeeps, SearchKeeps, OfferKeeps, SelectKeeps
       DEF Chats!CallStep
  <2>4. CASE \/ \E e \in Endpoints : Chats!TimePasses(e)
             \/ \E u \in Users : Chats!ListContinuations(u)
    BY <1>2, <2>4, DeadlinesKeep
  <2>5. CASE UNCHANGED Chats!vars
    BY <1>2, <2>5 DEF Chats!vars, ChatInv, RowsOK, ContsOK, CallsOK, Chats!Isolated,
       Chats!TaskOriginMatches, Chats!LinksMatch, Chats!SubscriptionsMatch,
       Chats!OutboxMatches, Chats!TimelineMatches, Chats!ContinuationMatches, Chats!Range
  <2> QED BY <1>2, <2>1, <2>2, <2>3, <2>4, <2>5 DEF Chats!Next
<1> QED BY <1>1, <1>2, PTL DEF Chats!Spec

\* See UsersStayApart below.
LEMMA UsersStayApartAlone ==
    ASSUME Chats!ContinuationAssumption
    PROVE  Chats!Spec => []Chats!Isolated
<1>1. ChatInv => Chats!Isolated
  BY DEF ChatInv
<1> QED BY <1>1, ChatInvariant, PTL

\* The rows of the task hub keep to their domains.
LEMMA ChatTypes ==
    ASSUME Chats!ContinuationAssumption
    PROVE  Chats!Spec => []Chats!TypeOK
<1>1. ASSUME ChatInv PROVE Chats!TypeOK
  <2>1. \A t \in Tasks : task[t] \in TaskRows
    BY <1>1 DEF ChatInv, RowsOK
  <2>2. \A e \in Endpoints : cont[e] \in ContRows
    BY <1>1 DEF ChatInv, ContsOK
  <2> QED BY <1>1, <2>1, <2>2 DEF ChatInv, RowsOK, Chats!TypeOK, TaskRows, ContRows
<1> QED BY <1>1, ChatInvariant, PTL

(***************************************************************************)
(* Permissions (Access).                                                   *)
(***************************************************************************)

\* The variables of Access.
grant == v1
token == v2
renewals == v3
paused == v4
form == v5
reader == v6
writer == v7
lost == v8

USE DEF grant, token, renewals, paused, form, reader, writer, lost

\* While the row of the grant is the one the tool remembered, a read that has
\* been without permission since then is without it now, and one that invoke has
\* let pass never was.
ReadRows == [pc : Rights!Stages, before : Nat, inner : Nat, gap : BOOLEAN]
ReadOK ==
    /\ reader.pc \in Rights!UnderWay =>
          /\ reader.before <= grant.revision
          /\ reader.before = grant.revision => reader.gap = ~grant.permitted
    /\ reader.pc \in Rights!UnderWay \ {"called"} /\ reader.before = grant.revision
          => grant.permitted
    /\ reader.pc = "delivered" => ~reader.gap

\* The inductive invariant: a revision names one state of the grants, the
\* one that a form or a read with this revision has seen.
RightsInv ==
    /\ grant \in [permitted : BOOLEAN, revision : Nat]
    /\ token \in [state : {"active", "revoked"}, late : BOOLEAN, revision : Nat]
    /\ form \in [Admins -> [kind : {"none", "grant", "token"}, revision : Nat, saw : BOOLEAN]]
    /\ reader \in ReadRows
    /\ ReadOK
    /\ \A a \in Admins : form[a].kind = "grant" =>
          /\ form[a].revision <= grant.revision
          /\ form[a].revision = grant.revision => form[a].saw = grant.permitted
    /\ lost = FALSE

\* An administrator opens a form, or saves it.
LEMMA FormsKeepRevisions ==
    ASSUME RightsInv, NEW a \in Admins,
           \/ \E kind \in {"grant", "token"} : Rights!OpenForm(a, kind)
           \/ \E permitted \in BOOLEAN : Rights!SaveGrants(a, permitted)
    PROVE  RightsInv'
<1>1. ASSUME NEW kind \in {"grant", "token"}, Rights!OpenForm(a, kind) PROVE RightsInv'
  <2> DEFINE new == [kind |-> kind,
                     revision |-> IF kind = "grant" THEN grant.revision ELSE token.revision,
                     saw |-> IF kind = "grant" THEN grant.permitted ELSE token.late]
  <2>1. /\ new \in [kind : {"none", "grant", "token"}, revision : Nat, saw : BOOLEAN]
        /\ new.kind = "grant" => new.revision = grant.revision /\ new.saw = grant.permitted
    BY DEF RightsInv
  <2>2. form' = [form EXCEPT ![a] = new]
        /\ UNCHANGED <<grant, token, renewals, paused, reader, writer, lost>>
    BY <1>1 DEF Rights!OpenForm
  <2> HIDE DEF new
  <2> QED BY <2>1, <2>2 DEF RightsInv, ReadOK
<1>2. ASSUME NEW permitted \in BOOLEAN, Rights!SaveGrants(a, permitted) PROVE RightsInv'
  <2>1. /\ Rights!NoForm \in [kind : {"none", "grant", "token"}, revision : Nat, saw : BOOLEAN]
        /\ Rights!NoForm.kind = "none"
    BY DEF Rights!NoForm
  <2>2. form' = [form EXCEPT ![a] = Rights!NoForm] /\ UNCHANGED token
    BY <1>2 DEF Rights!SaveGrants
  <2>3. CASE Rights!RevisionMatches(a)
    <3>1. /\ grant' \in [permitted : BOOLEAN, revision : Nat]
          /\ grant'.revision = grant.revision + 1
          /\ lost' = (lost \/ form[a].saw # grant.permitted)
      BY <1>2, <2>3 DEF RightsInv, Rights!SaveGrants
    <3>2. form[a].saw = grant.permitted
      BY <1>2, <2>3 DEF RightsInv, Rights!SaveGrants, Rights!RevisionMatches
    <3>3. lost' = FALSE
      BY <3>1, <3>2 DEF RightsInv
    <3>4. \A x \in Admins : form'[x].kind = "grant" => form'[x].revision < grant'.revision
      BY <2>1, <2>2, <3>1 DEF RightsInv
    <3>5. /\ reader' \in ReadRows
          /\ reader'.pc = reader.pc /\ reader'.before = reader.before
          /\ reader.pc \notin Rights!UnderWay => reader'.gap = reader.gap
      BY <1>2, <2>3 DEF RightsInv, ReadRows, Rights!SaveGrants
    <3>6. "delivered" \notin Rights!UnderWay
      BY DEF Rights!UnderWay
    <3>7. ReadOK'
      BY <3>1, <3>5, <3>6 DEF RightsInv, ReadRows, ReadOK
    <3> QED BY <2>1, <2>2, <3>1, <3>3, <3>4, <3>5, <3>7 DEF RightsInv
  <2>4. CASE ~Rights!RevisionMatches(a)
    <3>1. UNCHANGED <<grant, reader, lost>>
      BY <1>2, <2>4 DEF Rights!SaveGrants
    <3> QED BY <2>1, <2>2, <3>1 DEF RightsInv, ReadOK
  <2> QED BY <2>3, <2>4
<1> QED BY <1>1, <1>2

\* Tokens are revoked, renewed and run out.
LEMMA TokensKeepRevisions ==
    ASSUME RightsInv, Rights!Tokens \/ Rights!TokenExpires
    PROVE  RightsInv'
<1>1. UNCHANGED <<grant, reader, lost>>
  BY DEF Rights!Tokens, Rights!TokenExpires, Rights!RevokeToken, Rights!RenewToken
<1>2. token' \in [state : {"active", "revoked"}, late : BOOLEAN, revision : Nat]
  <2>0. /\ token \in [state : {"active", "revoked"}, late : BOOLEAN, revision : Nat]
        /\ token.revision + 1 \in Nat
    BY DEF RightsInv
  <2>1. CASE Rights!RevokeToken
    BY <2>0, <2>1 DEF Rights!RevokeToken
  <2>2. CASE Rights!TokenExpires
    BY <2>0, <2>2 DEF Rights!TokenExpires
  <2>3. ASSUME NEW a \in Admins, Rights!RenewToken(a)
        PROVE  token' \in [state : {"active", "revoked"}, late : BOOLEAN, revision : Nat]
    <3>1. \/ token' = [token EXCEPT !.late = FALSE, !.revision = token.revision + 1]
          \/ token' = token
      BY <2>3 DEF Rights!RenewToken
    <3> QED BY <2>0, <3>1
  <2> QED BY <2>1, <2>2, <2>3 DEF Rights!Tokens
<1>3. form' = form \/ \E a \in Admins : form' = [form EXCEPT ![a] = Rights!NoForm]
  BY DEF Rights!Tokens, Rights!TokenExpires, Rights!RevokeToken, Rights!RenewToken
<1>4. /\ Rights!NoForm \in [kind : {"none", "grant", "token"}, revision : Nat, saw : BOOLEAN]
      /\ Rights!NoForm.kind = "none"
  BY DEF Rights!NoForm
<1> QED BY <1>1, <1>2, <1>3, <1>4 DEF RightsInv, ReadOK

\* A read, from the call to the answer.
LEMMA ReadsKeepRevisions ==
    ASSUME RightsInv, Rights!Reads
    PROVE  RightsInv'
<1> USE DEF Rights!Stages, Rights!UnderWay
<1>1. UNCHANGED <<grant, token, form, lost>>
  BY DEF Rights!Reads, Rights!ReadMoves, Rights!ReadIsCalled, Rights!CheckInTool,
     Rights!RememberInTool, Rights!CheckInInvoke, Rights!RememberInInvoke, Rights!Fetch,
     Rights!CompareInInvoke, Rights!VerifyInTool, Rights!CompareInTool, Rights!ReadEnds
<1>2. reader \in ReadRows /\ ReadOK /\ grant.revision \in Nat /\ grant.permitted \in BOOLEAN
  BY DEF RightsInv
<1>3. reader' \in ReadRows /\ ReadOK'
  <2>1. CASE Rights!ReadIsCalled \/ Rights!CheckInTool \/ Rights!Fetch \/ Rights!CompareInInvoke
             \/ Rights!VerifyInTool
    BY <1>1, <1>2, <2>1 DEF ReadRows, ReadOK, Rights!ReadMoves, Rights!ReadIsCalled,
       Rights!CheckInTool, Rights!Fetch, Rights!CompareInInvoke, Rights!VerifyInTool
  <2>2. CASE Rights!CheckInInvoke
    BY <1>1, <1>2, <2>2 DEF ReadRows, ReadOK, Rights!ReadMoves, Rights!CheckInInvoke,
       Rights!Permitted
  <2>3. CASE Rights!CompareInTool
    BY <1>1, <1>2, <2>3 DEF ReadRows, ReadOK, Rights!ReadMoves, Rights!CompareInTool,
       Rights!Unchanged
  <2>4. CASE Rights!RememberInTool
    <3>1. PICK without \in BOOLEAN : without = ~grant.permitted
      BY <1>2
    <3>2. reader' = [reader EXCEPT !.pc = "called", !.before = grant.revision, !.gap = without]
      BY <2>4, <3>1 DEF Rights!RememberInTool, Rights!Permitted
    <3>3. /\ reader' \in ReadRows /\ reader'.pc = "called"
          /\ reader'.before = grant.revision /\ reader'.gap = without
      BY <1>2, <3>2 DEF ReadRows
    <3> QED BY <1>1, <1>2, <3>1, <3>3 DEF ReadOK
  <2>5. CASE Rights!RememberInInvoke
    BY <1>1, <1>2, <2>5 DEF ReadRows, ReadOK, Rights!RememberInInvoke
  <2>6. CASE Rights!ReadEnds
    BY <1>1, <1>2, <2>6 DEF ReadRows, ReadOK, Rights!ReadEnds, Rights!NoRead
  <2> QED BY <2>1, <2>2, <2>3, <2>4, <2>5, <2>6 DEF Rights!Reads
<1> QED BY <1>1, <1>3 DEF RightsInv

\* No step of the service but these touches what the invariant is about.
LEMMA RightsInvariant == Rights!Spec => []RightsInv
<1>1. ASSUME Rights!Init PROVE RightsInv
  BY <1>1 DEF Rights!Init, RightsInv, ReadRows, ReadOK, Rights!NoForm, Rights!NoRead,
     Rights!Stages, Rights!UnderWay
<1>2. ASSUME RightsInv, [Rights!Next]_Rights!vars PROVE RightsInv'
  <2>1. CASE \E a \in Admins : \/ \E kind \in {"grant", "token"} : Rights!OpenForm(a, kind)
                               \/ \E permitted \in BOOLEAN : Rights!SaveGrants(a, permitted)
    BY <1>2, <2>1, FormsKeepRevisions
  <2>2. CASE Rights!Tokens \/ Rights!TokenExpires
    BY <1>2, <2>2, TokensKeepRevisions
  <2>3. CASE Rights!Reads
    BY <1>2, <2>3, ReadsKeepRevisions
  <2>4. CASE \/ Rights!Policies \/ Rights!PrepareWrite \/ Rights!UserAuthorizes
             \/ Rights!ResumeWrite \/ Rights!EnterCommit \/ Rights!RequirePermission
             \/ Rights!ConsumeAuthorization \/ Rights!WriteEnds \/ UNCHANGED Rights!vars
    <3>1. UNCHANGED <<grant, token, form, reader, lost>>
      BY <2>4 DEF Rights!Policies, Rights!Pause, Rights!Resume, Rights!PrepareWrite,
         Rights!UserAuthorizes, Rights!ResumeWrite, Rights!EnterCommit,
         Rights!RequirePermission, Rights!ConsumeAuthorization, Rights!WriteEnds,
         Rights!WriteMoves, Rights!vars
    <3> QED BY <1>2, <3>1 DEF RightsInv, ReadOK
  <2> QED BY <1>2, <2>1, <2>2, <2>3, <2>4 DEF Rights!Next
<1> QED BY <1>1, <1>2, PTL DEF Rights!Spec

\* Optimistic saving (user_grants.py, save): for any number of
\* administrators, no save replaces permissions its form did not show.
THEOREM EditsAreSeen == Rights!Spec => []Rights!NoEditIsLost
<1>1. RightsInv => Rights!NoEditIsLost
  BY DEF RightsInv, Rights!NoEditIsLost
<1> QED BY <1>1, RightsInvariant, PTL

\* The rows of the administration, a read and a write keep to their domains.
LEMMA RightsTypes ==
    ASSUME Rights!AccessAssumption
    PROVE  Rights!Spec => []Rights!TypeOK
<1> DEFINE Revisions == 0..MaxRevision
           GrantRows == [permitted : BOOLEAN, revision : Revisions]
           Renewals == 0..MaxRenewals
           TokenRows == [state : {"active", "revoked"}, late : BOOLEAN, revision : Renewals]
           FormRows == [kind : {"none", "grant", "token"}, revision : Nat, saw : BOOLEAN]
           Readers == [pc : Rights!Stages, before : Revisions, inner : Revisions, gap : BOOLEAN]
<1>3. /\ 0 \in Revisions /\ \A r \in Revisions : r < MaxRevision => r + 1 \in Revisions
      /\ 0 \in Renewals /\ \A r \in Renewals : r < MaxRenewals => r + 1 \in Renewals
      /\ Revisions \subseteq Nat /\ Renewals \subseteq Nat
  BY DEF Rights!AccessAssumption
<1>1. ASSUME Rights!Init PROVE Rights!TypeOK
  <2> HIDE DEF Revisions, Renewals
  <2>1. grant \in GrantRows /\ token \in TokenRows
    BY <1>1, <1>3 DEF Rights!Init
  <2>2. form \in [Admins -> FormRows]
    BY <1>1, <1>3 DEF Rights!Init, Rights!NoForm
  <2>3. reader \in Readers
    BY <1>1, <1>3 DEF Rights!Init, Rights!NoRead, Rights!Stages
  <2>4. renewals \subseteq Admins /\ paused \subseteq Scopes /\ lost \in BOOLEAN
        /\ writer \in Rights!WriteStages
    BY <1>1 DEF Rights!Init, Rights!WriteStages
  <2> QED BY <2>1, <2>2, <2>3, <2>4 DEF Rights!TypeOK, Revisions, Renewals
<1>2. ASSUME Rights!TypeOK, [Rights!Next]_Rights!vars PROVE Rights!TypeOK'
  <2> USE DEF Rights!TypeOK
  <2>10. grant \in GrantRows /\ token \in TokenRows /\ form \in [Admins -> FormRows]
         /\ reader \in Readers
    BY <1>2
  <2>1. CASE \E a \in Admins, kind \in {"grant", "token"} : Rights!OpenForm(a, kind)
    <3>1. form' \in [Admins -> FormRows]
      <4> HIDE DEF Revisions, Renewals
      <4>1. PICK a \in Admins, kind \in {"grant", "token"} : Rights!OpenForm(a, kind)
        BY <2>1
      <4>2. /\ grant.revision \in Nat /\ grant.permitted \in BOOLEAN
            /\ token.revision \in Nat /\ token.late \in BOOLEAN
        BY <1>3, <2>10
      <4> DEFINE new == [kind |-> kind,
                         revision |-> IF kind = "grant" THEN grant.revision ELSE token.revision,
                         saw |-> IF kind = "grant" THEN grant.permitted ELSE token.late]
      <4>3. new \in FormRows
        BY <4>2
      <4>4. form' = [form EXCEPT ![a] = new]
        BY <4>1 DEF Rights!OpenForm
      <4> HIDE DEF new
      <4> QED BY <2>10, <4>3, <4>4
    <3> QED BY <1>2, <2>1, <3>1 DEF Rights!OpenForm
  <2>2. CASE \E a \in Admins, permitted \in BOOLEAN : Rights!SaveGrants(a, permitted)
    <3>1. form' \in [Admins -> FormRows] /\ grant' \in GrantRows
      <4> HIDE DEF Revisions, Renewals
      <4> QED BY <1>3, <2>2, <2>10 DEF Rights!SaveGrants, Rights!NoForm
    <3>2. lost' \in BOOLEAN /\ UNCHANGED <<token, renewals, paused, writer>>
      BY <1>2, <2>2 DEF Rights!SaveGrants
    <3>3. reader' \in Readers
      <4> HIDE DEF Revisions, Renewals
      <4> QED BY <2>2, <2>10 DEF Rights!SaveGrants
    <3> QED BY <1>2, <3>1, <3>2, <3>3
  <2>3. CASE Rights!RevokeToken \/ Rights!TokenExpires \/ \E a \in Admins : Rights!RenewToken(a)
    <3>1. token.revision < MaxRenewals => token.revision + 1 \in Renewals
      BY <1>3, <2>10
    <3>2. token' \in TokenRows
      <4> HIDE DEF Revisions, Renewals
      <4>1. \/ token' \in {token, [token EXCEPT !.late = TRUE]}
            \/ /\ token.revision < MaxRenewals
               /\ token' \in {[token EXCEPT !.state = "revoked", !.revision = @ + 1],
                              [token EXCEPT !.late = FALSE, !.revision = @ + 1]}
        BY <2>3 DEF Rights!RevokeToken, Rights!TokenExpires, Rights!RenewToken
      <4> QED BY <2>10, <3>1, <4>1
    <3>3. form' \in [Admins -> FormRows]
      <4> HIDE DEF Revisions, Renewals
      <4>1. Rights!NoForm \in FormRows
        BY <1>3 DEF Rights!NoForm
      <4>2. form' = form \/ \E a \in Admins : form' = [form EXCEPT ![a] = Rights!NoForm]
        BY <2>3 DEF Rights!RevokeToken, Rights!TokenExpires, Rights!RenewToken
      <4> QED BY <2>10, <4>1, <4>2
    <3>4. renewals' \subseteq Admins /\ UNCHANGED <<grant, paused, reader, writer, lost>>
      BY <1>2, <2>3 DEF Rights!RevokeToken, Rights!TokenExpires, Rights!RenewToken
    <3> QED BY <1>2, <3>2, <3>3, <3>4
  <2>5. CASE Rights!Policies
    BY <1>2, <2>5 DEF Rights!Policies, Rights!Pause, Rights!Resume
  <2>6. CASE Rights!Reads
    <3> USE DEF Rights!Stages, Rights!UnderWay
    <3>1. UNCHANGED <<grant, token, renewals, paused, form, writer, lost>>
      BY <2>6 DEF Rights!Reads, Rights!ReadMoves, Rights!ReadIsCalled, Rights!CheckInTool,
         Rights!RememberInTool, Rights!CheckInInvoke, Rights!RememberInInvoke, Rights!Fetch,
         Rights!CompareInInvoke, Rights!VerifyInTool, Rights!CompareInTool, Rights!ReadEnds
    <3>2. reader' \in Readers
      <4> HIDE DEF Revisions, Renewals
      <4>1. grant.revision \in Revisions /\ grant.permitted \in BOOLEAN
        BY <2>10
      <4>2. CASE Rights!ReadEnds
        BY <1>3, <4>2 DEF Rights!ReadEnds, Rights!NoRead
      <4>3. CASE Rights!RememberInTool
        BY <2>10, <4>1, <4>3 DEF Rights!RememberInTool, Rights!Permitted
      <4>4. CASE Rights!RememberInInvoke
        BY <2>10, <4>1, <4>4 DEF Rights!RememberInInvoke
      <4>5. ASSUME \E pc \in Rights!Stages : reader' = [reader EXCEPT !.pc = pc]
            PROVE  reader' \in Readers
        BY <2>10, <4>5
      <4> QED BY <2>6, <4>2, <4>3, <4>4, <4>5 DEF Rights!Reads, Rights!ReadMoves,
              Rights!ReadIsCalled, Rights!CheckInTool, Rights!CheckInInvoke, Rights!Fetch,
              Rights!CompareInInvoke, Rights!VerifyInTool, Rights!CompareInTool
    <3> QED BY <1>2, <3>1, <3>2
  <2>7. CASE \/ Rights!PrepareWrite \/ Rights!UserAuthorizes \/ Rights!ResumeWrite
             \/ Rights!EnterCommit \/ Rights!RequirePermission
             \/ Rights!ConsumeAuthorization \/ Rights!WriteEnds
    BY <1>2, <2>7 DEF Rights!PrepareWrite, Rights!UserAuthorizes, Rights!ResumeWrite,
       Rights!EnterCommit, Rights!RequirePermission, Rights!ConsumeAuthorization, Rights!WriteEnds,
       Rights!WriteMoves, Rights!WriteStages
  <2>8. CASE UNCHANGED Rights!vars
    BY <1>2, <2>8 DEF Rights!vars
  <2> QED BY <1>2, <2>1, <2>2, <2>3, <2>5, <2>6, <2>7, <2>8
          DEF Rights!Next, Rights!Tokens
<1> QED BY <1>1, <1>2, PTL DEF Rights!Spec

(***************************************************************************)
(* Accounts of the workspace (Accounts).                                   *)
(***************************************************************************)

\* The variables of Accounts; its link, endpoint and grant are called code,
\* registered and pass.
code == v1
account == v2
registered == v3
tab == v4
pass == v5
turn == v6
password == v7
login == v8

USE DEF code, account, registered, tab, pass, turn, password, login

Codes == [state : {"none", "pending", "confirmed", "consumed", "expired"},
          owner : People \cup {Unset}, late : BOOLEAN]
WebRequests == [pc : {"idle", "expire", "create", "register"}, link : Links \cup {Unset},
             name : UserNames \cup {Unset}, late : BOOLEAN]
Passes == [state : {"none", "pending", "consumed"}, account : People \cup {Unset},
           late : BOOLEAN]

\* The types of the rows; a code that was confirmed has an owner.
CodesOK ==
    /\ code \in [Links -> Codes]
    /\ \A l \in Links : code[l].state \in {"confirmed", "consumed"} => code[l].owner \in People

\* A request knows the code it works on; one that goes on to the endpoint
\* found the account of the code's owner.
Spent(l) == code[l].state \in {"consumed", "expired"} /\ code[l].owner \in People
RequestKnows(k) ==
    /\ k.pc # "idle" => k.link \in Links
    /\ k.pc = "create" => k.name \in UserNames
    /\ k.pc = "register" => Spent(k.link) /\ account[code[k.link].owner] # Unset
RequestsOK == tab \in [Tabs -> WebRequests] /\ \A t \in Tabs : RequestKnows(tab[t])

\* An account was made of a code that its owner confirmed and that nobody
\* can confirm any more.
AccountsOK ==
    /\ account \in [People -> [name : UserNames, via : Links] \cup {Unset}]
    /\ \A p \in People : account[p] # Unset =>
          Spent(account[p].via) /\ code[account[p].via].owner = p
    /\ \A p, q \in People : account[p] # Unset /\ account[q] # Unset /\ p # q
          => account[p].name # account[q].name
    /\ registered \in SUBSET {p \in People : account[p] # Unset}

\* A turn holds a grant of its account that was redeemed.
TurnsOK ==
    /\ pass \in [Grants -> Passes]
    /\ turn \in [People -> Grants \cup {Unset}]
    /\ \A p \in People : turn[p] # Unset =>
          pass[turn[p]].state = "consumed" /\ pass[turn[p]].account = p

\* The inductive invariant of the accounts.
WebInv == CodesOK /\ RequestsOK /\ AccountsOK /\ TurnsOK

\* A request goes on to a state that knows what it has to.
LEMMA RequestGoesOn ==
    ASSUME RequestsOK, NEW t \in Tabs, NEW k \in WebRequests, RequestKnows(k),
           tab' = [tab EXCEPT ![t] = k], UNCHANGED <<code, account>>
    PROVE  RequestsOK'
  BY DEF RequestsOK, RequestKnows, Spent

LEMMA IdleIsKnown == Web!IdleTab \in WebRequests /\ RequestKnows(Web!IdleTab)
  BY DEF Web!IdleTab, WebRequests, RequestKnows

\* The state of a code changes, but not once it is spent, nor the owner of
\* one that was confirmed.
LEMMA CodeChanges ==
    ASSUME WebInv, NEW l \in Links, NEW k \in Codes, code' = [code EXCEPT ![l] = k],
           k.state \in {"confirmed", "consumed"} => k.owner \in People,
           Spent(l) => k.state \in {"consumed", "expired"} /\ k.owner = code[l].owner,
           UNCHANGED <<account, registered, tab>>
    PROVE  CodesOK' /\ RequestsOK' /\ AccountsOK'
<1>1. CodesOK'
  BY DEF WebInv, CodesOK
<1>2. \A x \in Links : Spent(x) => Spent(x)' /\ code'[x].owner = code[x].owner
  BY DEF WebInv, CodesOK, Spent
<1>3. RequestsOK'
  BY <1>2 DEF WebInv, RequestsOK, RequestKnows, Spent
<1>4. \A p \in People : account[p] # Unset => account[p].via \in Links
  BY DEF WebInv, AccountsOK
<1>5. AccountsOK'
  BY <1>2, <1>4 DEF WebInv, AccountsOK
<1> QED BY <1>1, <1>3, <1>5

\* Codes are made, confirmed, run out and expire.
LEMMA LinkingKeeps ==
    ASSUME WebInv, Web!Linking PROVE WebInv'
<1>0. CodesOK /\ RequestsOK
  BY DEF WebInv
<1>1. TurnsOK'
  BY DEF WebInv, TurnsOK, Web!Linking, Web!start_link, Web!LinkRunsOut,
     Web!WorkspaceLinkConfirm, Web!confirm_link, Web!ExpireLink, Web!LinkStatus
<1>2. ASSUME NEW l \in Links, Web!start_link(l) PROVE WebInv'
  <2> DEFINE k == [code[l] EXCEPT !.state = "pending"]
  <2>1. code' = [code EXCEPT ![l] = k]
    BY <1>2 DEF Web!start_link
  <2>2. k \in Codes /\ k.state = "pending" /\ ~Spent(l)
    BY <1>0, <1>2 DEF CodesOK, Codes, Spent, Web!start_link
  <2> HIDE DEF k
  <2> QED BY <1>1, <1>2, <2>1, <2>2, CodeChanges DEF WebInv, Web!start_link
<1>3. ASSUME NEW l \in Links, Web!LinkRunsOut(l) PROVE WebInv'
  <2> DEFINE k == [code[l] EXCEPT !.late = TRUE]
  <2>1. code' = [code EXCEPT ![l] = k]
    BY <1>3 DEF Web!LinkRunsOut
  <2>2. k \in Codes /\ k.state = code[l].state /\ k.owner = code[l].owner
    BY <1>0, <1>3 DEF CodesOK, Codes
  <2>3. code[l].state \in {"confirmed", "consumed"} => code[l].owner \in People
    BY <1>0 DEF CodesOK
  <2> HIDE DEF k
  <2> QED BY <1>1, <1>3, <2>1, <2>2, <2>3, CodeChanges DEF WebInv, Web!LinkRunsOut, Spent
<1>4. ASSUME NEW l \in Links, NEW p \in People, Web!confirm_link(l, p) PROVE WebInv'
  <2> DEFINE k == [[code[l] EXCEPT !.state = "confirmed"] EXCEPT !.owner = p]
  <2>1. code' = [code EXCEPT ![l] = k]
    BY <1>0, <1>4 DEF Web!confirm_link, CodesOK, Codes
  <2>2. k \in Codes /\ k.state = "confirmed" /\ k.owner = p /\ ~Spent(l)
    BY <1>0, <1>4 DEF CodesOK, Codes, Spent, Web!confirm_link, Web!Confirmable
  <2> HIDE DEF k
  <2> QED BY <1>1, <1>4, <2>1, <2>2, CodeChanges DEF WebInv, Web!confirm_link
<1>5. ASSUME NEW t \in Tabs, Web!ExpireLink(t) PROVE WebInv'
  <2> DEFINE l == tab[t].link
             k == [code[l] EXCEPT !.state = "expired"]
  <2>0. l \in Links
    BY <1>0, <1>5 DEF RequestsOK, RequestKnows, Web!ExpireLink
  <2>1. code' = [code EXCEPT ![l] = k] /\ tab' = [tab EXCEPT ![t] = Web!IdleTab]
        /\ UNCHANGED <<account, registered>>
    BY <1>5 DEF Web!ExpireLink
  <2>2. k \in Codes /\ k.state = "expired" /\ k.owner = code[l].owner
    BY <1>0, <2>0 DEF CodesOK, Codes
  <2> HIDE DEF k, l
  <2>3. CodesOK'
    BY <1>0, <2>0, <2>1, <2>2 DEF CodesOK
  <2>4. \A x \in Links : Spent(x) => Spent(x)' /\ code'[x].owner = code[x].owner
    BY <1>0, <2>0, <2>1, <2>2 DEF CodesOK, Spent
  <2>5. RequestsOK'
    <3>1. tab' \in [Tabs -> WebRequests]
      BY <1>0, <2>1, IdleIsKnown DEF RequestsOK
    <3>2. \A x \in Tabs : RequestKnows(tab[x])'
      BY <1>0, <2>1, <2>4 DEF RequestsOK, RequestKnows, Web!IdleTab
    <3> QED BY <3>1, <3>2 DEF RequestsOK
  <2>6. \A p \in People : account[p] # Unset => account[p].via \in Links
    BY DEF WebInv, AccountsOK
  <2>7. AccountsOK'
    BY <2>1, <2>4, <2>6 DEF WebInv, AccountsOK
  <2> QED BY <1>1, <2>3, <2>5, <2>7 DEF WebInv
<1>6. ASSUME NEW t \in Tabs, NEW l \in Links, Web!LinkStatus(t, l) PROVE WebInv'
  <2> DEFINE k == [[Web!IdleTab EXCEPT !.pc = "expire"] EXCEPT !.link = l]
  <2>1. k \in WebRequests /\ RequestKnows(k)
    BY DEF Web!IdleTab, WebRequests, RequestKnows
  <2>2. tab' = [tab EXCEPT ![t] = k]
    BY <1>6 DEF Web!LinkStatus
  <2> HIDE DEF k
  <2>3. RequestsOK'
    BY <1>0, <1>6, <2>1, <2>2, RequestGoesOn DEF Web!LinkStatus
  <2> QED BY <1>1, <1>6, <2>3 DEF WebInv, Web!LinkStatus, CodesOK, AccountsOK, Spent
<1> QED BY <1>2, <1>3, <1>4, <1>5, <1>6 DEF Web!Linking, Web!WorkspaceLinkConfirm

\* create_account: only of a confirmed code, of an owner without account and
\* with a name nobody has.
LEMMA CreateKeeps ==
    ASSUME WebInv, Web!AccountsAssumption, NEW t \in Tabs, Web!create_account(t)
    PROVE  WebInv'
<1> DEFINE l == tab[t].link
           n == tab[t].name
           p == code[l].owner
           k == [code[l] EXCEPT !.state = "consumed"]
           new == [name |-> n, via |-> l]
           on == [tab[t] EXCEPT !.pc = "register"]
<1>0. /\ l \in Links /\ n \in UserNames /\ tab[t] \in WebRequests /\ tab[t].pc = "create"
      /\ CodesOK /\ RequestsOK /\ AccountsOK
  BY DEF WebInv, RequestsOK, RequestKnows, Web!create_account
<1>1. TurnsOK' /\ UNCHANGED registered
  BY DEF WebInv, TurnsOK, Web!create_account
<1>2. CASE Web!Registrable(t)
  <2>1. /\ code[l].state = "confirmed" /\ p \in People /\ account[p] = Unset
        /\ \A q \in People : account[q] # Unset => account[q].name # n
    BY <1>0, <1>2 DEF Web!Registrable, CodesOK
  <2>2. /\ account' = [account EXCEPT ![p] = new]
        /\ code' = [code EXCEPT ![l] = k]
        /\ tab' = [tab EXCEPT ![t] = on]
    <3>1. /\ account' = [account EXCEPT ![p] = new]
          /\ code' = [code EXCEPT ![l].state = "consumed"]
          /\ tab' = [tab EXCEPT ![t] = on]
      BY <1>2 DEF Web!create_account
    <3> QED BY <3>1
  <2>3. k \in Codes /\ k.state = "consumed" /\ k.owner = p
    BY <1>0 DEF CodesOK, Codes
  <2>4. /\ new \in [name : UserNames, via : Links] /\ new # Unset
        /\ new.name = n /\ new.via = l
    BY <1>0 DEF Web!AccountsAssumption
  <2>5. on \in WebRequests /\ on.pc = "register" /\ on.link = l
    BY <1>0 DEF WebRequests
  <2> HIDE DEF k, new, on, l, n, p
  <2>6. CodesOK'
    BY <1>0, <2>1, <2>2, <2>3 DEF CodesOK
  <2>7. /\ \A x \in Links : Spent(x) => Spent(x)' /\ code'[x].owner = code[x].owner
        /\ code'[l].state \in {"consumed", "expired"} /\ code'[l].owner = p
    BY <1>0, <2>1, <2>2, <2>3 DEF CodesOK, Spent
  <2>8. /\ account' \in [People -> [name : UserNames, via : Links] \cup {Unset}]
        /\ account'[p] = new
        /\ \A q \in People : q # p => account'[q] = account[q]
        /\ \A q \in People : account[q] # Unset => account'[q] = account[q]
    BY <1>0, <2>1, <2>2, <2>4 DEF AccountsOK
  <2>9. RequestsOK'
    <3>1. tab' \in [Tabs -> WebRequests]
      BY <1>0, <2>2, <2>5 DEF RequestsOK
    <3>2. ASSUME NEW x \in Tabs PROVE RequestKnows(tab[x])'
      <4>1. CASE x = t
        <5>1. tab'[x] = on
          BY <1>0, <2>2, <4>1 DEF RequestsOK
        <5> QED BY <1>0, <2>1, <2>4, <2>5, <2>7, <2>8, <5>1 DEF RequestKnows, Spent
      <4>2. CASE x # t
        <5>1. tab'[x] = tab[x] /\ RequestKnows(tab[x])
          BY <1>0, <2>2, <4>2 DEF RequestsOK
        <5>2. tab[x].pc = "register" =>
                Spent(tab[x].link)' /\ account'[code'[tab[x].link].owner] # Unset
          BY <5>1, <2>7, <2>8 DEF RequestKnows, Spent
        <5> QED BY <5>1, <5>2 DEF RequestKnows
      <4> QED BY <4>1, <4>2
    <3> QED BY <3>1, <3>2 DEF RequestsOK
  <2>10. AccountsOK'
    <3>1. ASSUME NEW q \in People, account'[q] # Unset
          PROVE  Spent(account[q].via)' /\ code'[account'[q].via].owner = q
      <4>1. CASE q = p
        BY <2>1, <2>4, <2>7, <2>8, <4>1 DEF Spent
      <4>2. CASE q # p
        BY <1>0, <2>7, <2>8, <3>1, <4>2 DEF AccountsOK
      <4> QED BY <4>1, <4>2
    <3>2. \A q, r \in People : account'[q] # Unset /\ account'[r] # Unset /\ q # r
             => account'[q].name # account'[r].name
      BY <1>0, <2>1, <2>4, <2>8 DEF AccountsOK
    <3>3. registered' \in SUBSET {q \in People : account'[q] # Unset}
      BY <1>0, <1>1, <2>8 DEF AccountsOK
    <3> QED BY <2>8, <3>1, <3>2, <3>3 DEF AccountsOK
  <2> QED BY <1>1, <2>6, <2>9, <2>10 DEF WebInv
<1>3. CASE ~Web!Registrable(t)
  <2>1. UNCHANGED <<account, code>>
    BY <1>3 DEF Web!create_account
  <2>2. /\ on \in WebRequests /\ on.pc = "register" /\ on.link = l
    BY <1>0 DEF WebRequests
  <2>3. \/ tab' = [tab EXCEPT ![t] = Web!IdleTab]
        \/ Web!Repeated(t) /\ tab' = [tab EXCEPT ![t] = on]
    BY <1>3 DEF Web!create_account
  <2>4. Web!Repeated(t) => RequestKnows(on)
    <3>1. Web!Repeated(t) => code[l].state = "consumed" /\ account[p] # Unset
      BY DEF Web!Repeated
    <3>2. code[l].state = "consumed" => Spent(l)
      BY <1>0 DEF CodesOK, Spent
    <3> HIDE DEF on, l, p
    <3> QED BY <1>0, <2>2, <3>1, <3>2 DEF RequestKnows, p
  <2> HIDE DEF on
  <2>5. RequestsOK'
    BY <1>0, <2>1, <2>2, <2>3, <2>4, RequestGoesOn, IdleIsKnown
  <2> QED BY <1>0, <1>1, <2>1, <2>5 DEF WebInv, CodesOK, AccountsOK, Spent
<1> QED BY <1>2, <1>3

\* The other steps of complete_enrollment.
LEMMA EnrollingKeeps ==
    ASSUME WebInv, Web!AccountsAssumption, Web!Enrolling
    PROVE  WebInv'
<1>0. CodesOK /\ RequestsOK /\ AccountsOK /\ TurnsOK
  BY DEF WebInv
<1>1. ASSUME NEW t \in Tabs, NEW l \in Links, NEW n \in UserNames, Web!BeginEnrollment(t, l, n)
      PROVE  WebInv'
  <2> DEFINE k == [pc |-> "create", link |-> l, name |-> n, late |-> code[l].late]
  <2>1. k \in WebRequests /\ RequestKnows(k)
    BY <1>0 DEF CodesOK, Codes, WebRequests, RequestKnows
  <2>2. tab' = [tab EXCEPT ![t] = k] /\ UNCHANGED <<code, account, registered, pass, turn>>
    BY <1>1 DEF Web!BeginEnrollment
  <2> HIDE DEF k
  <2>3. RequestsOK'
    BY <1>0, <2>1, <2>2, RequestGoesOn
  <2> QED BY <1>0, <2>2, <2>3 DEF WebInv, CodesOK, AccountsOK, TurnsOK, Spent
<1>2. ASSUME NEW t \in Tabs, Web!RegisterEndpoint(t) \/ Web!EnrollmentDies(t)
      PROVE  WebInv'
  <2>1. tab' = [tab EXCEPT ![t] = Web!IdleTab] /\ UNCHANGED <<code, account, pass, turn>>
    BY <1>2 DEF Web!RegisterEndpoint, Web!EnrollmentDies
  <2>2. RequestsOK'
    BY <1>0, <2>1, RequestGoesOn, IdleIsKnown
  <2>3. registered' \in SUBSET {p \in People : account'[p] # Unset}
    <3>1. CASE Web!EnrollmentDies(t)
      BY <1>0, <2>1, <3>1 DEF AccountsOK, Web!EnrollmentDies
    <3>2. CASE Web!RegisterEndpoint(t)
      <4>1. /\ code[tab[t].link].owner \in People
            /\ account[code[tab[t].link].owner] # Unset
        BY <1>0, <3>2 DEF RequestsOK, RequestKnows, Spent, Web!RegisterEndpoint
      <4> QED BY <1>0, <2>1, <3>2, <4>1 DEF AccountsOK, Web!RegisterEndpoint
    <3> QED BY <1>2, <3>1, <3>2
  <2> QED BY <1>0, <2>1, <2>2, <2>3 DEF WebInv, CodesOK, AccountsOK, TurnsOK, Spent
<1> QED BY <1>1, <1>2, CreateKeeps DEF Web!Enrolling

\* A grant is issued once and redeemed once, by its own account.
LEMMA GrantingKeeps ==
    ASSUME WebInv, Web!Granting PROVE WebInv'
<1>0. CodesOK /\ RequestsOK /\ AccountsOK /\ TurnsOK
  BY DEF WebInv
<1>1. UNCHANGED <<code, account, registered, tab>>
  BY DEF Web!Granting, Web!GrantRunsOut, Web!WorkspaceSessionBind, Web!redeem_gateway_grant,
     Web!issue_gateway_grant
<1>2. CodesOK' /\ RequestsOK' /\ AccountsOK'
  BY <1>0, <1>1 DEF CodesOK, RequestsOK, RequestKnows, AccountsOK, Spent
<1>3. ASSUME NEW g \in Grants, NEW k \in Passes, pass' = [pass EXCEPT ![g] = k],
             pass[g].state # "consumed", UNCHANGED turn
      PROVE  TurnsOK'
  BY <1>0, <1>3 DEF TurnsOK
<1>4. ASSUME NEW g \in Grants, NEW p \in People, Web!issue_gateway_grant(g, p) PROVE TurnsOK'
  <2> DEFINE k == [state |-> "pending", account |-> p, late |-> FALSE]
  <2>1. k \in Passes
    BY DEF Passes
  <2>2. pass' = [pass EXCEPT ![g] = k] /\ UNCHANGED turn /\ pass[g].state # "consumed"
    BY <1>4 DEF Web!issue_gateway_grant
  <2> HIDE DEF k
  <2> QED BY <1>3, <2>1, <2>2
<1>5. ASSUME NEW g \in Grants, Web!GrantRunsOut(g) PROVE TurnsOK'
  <2> DEFINE k == [pass[g] EXCEPT !.late = TRUE]
  <2>1. k \in Passes
    <3>1. pass[g] \in Passes
      BY <1>0 DEF TurnsOK
    <3> QED BY <3>1 DEF Passes
  <2>2. pass' = [pass EXCEPT ![g] = k] /\ UNCHANGED turn /\ pass[g].state # "consumed"
    BY <1>5 DEF Web!GrantRunsOut
  <2> HIDE DEF k
  <2> QED BY <1>3, <2>1, <2>2
<1>6. ASSUME NEW g \in Grants, NEW p \in People, Web!redeem_gateway_grant(g, p) PROVE TurnsOK'
  <2> DEFINE k == [pass[g] EXCEPT !.state = "consumed"]
  <2>1. k \in Passes /\ k.state = "consumed" /\ k.account = p
    BY <1>0, <1>6 DEF Passes, TurnsOK, Web!redeem_gateway_grant, Web!Redeemable
  <2>2. /\ pass' = [pass EXCEPT ![g] = k] /\ turn' = [turn EXCEPT ![p] = g]
        /\ pass[g].state # "consumed"
    BY <1>6 DEF Web!redeem_gateway_grant, Web!Redeemable
  <2> HIDE DEF k
  <2> QED BY <1>0, <2>1, <2>2 DEF TurnsOK
<1> QED BY <1>2, <1>4, <1>5, <1>6 DEF WebInv, Web!Granting, Web!WorkspaceSessionBind

LEMMA WebInvariant ==
    ASSUME Web!AccountsAssumption
    PROVE  Web!Spec => []WebInv
<1>1. ASSUME Web!Init PROVE WebInv
  <2>1. CodesOK /\ AccountsOK /\ TurnsOK
    BY <1>1 DEF Web!Init, CodesOK, Codes, AccountsOK, TurnsOK, Passes
  <2>2. RequestsOK
    BY <1>1, IdleIsKnown DEF Web!Init, RequestsOK
  <2> QED BY <2>1, <2>2 DEF WebInv
<1>2. ASSUME WebInv, [Web!Next]_Web!vars PROVE WebInv'
  <2>1. CASE Web!Administering \/ UNCHANGED Web!vars
    <3>1. UNCHANGED <<code, account, registered, tab, pass, turn>>
      BY <2>1 DEF Web!Administering, Web!authenticate, Web!CreateSession, Web!SessionEnds,
         Web!change_password, Web!revoke_account_sessions, Web!vars
    <3> QED BY <1>2, <3>1 DEF WebInv, CodesOK, RequestsOK, RequestKnows, AccountsOK, TurnsOK,
           Spent
  <2> QED BY <1>2, <2>1, LinkingKeeps, EnrollingKeeps, GrantingKeeps DEF Web!Next
<1> QED BY <1>1, <1>2, PTL DEF Web!Spec

\* See AccountsAreConfirmed below.
LEMMA AccountsAreConfirmedAlone ==
    ASSUME Web!AccountsAssumption
    PROVE  Web!Spec => []Web!AccountIsConfirmed
<1>1. WebInv => Web!AccountIsConfirmed
  BY DEF WebInv, AccountsOK, Web!AccountIsConfirmed
<1> QED BY <1>1, WebInvariant, PTL

\* Turns (workspace/stores.py, redeem_gateway_grant): the turn that a host
\* works on is one that this account was granted.
THEOREM TurnsAreOwn ==
    ASSUME Web!AccountsAssumption
    PROVE  Web!Spec => []Web!TurnIsOwn
<1>1. WebInv => Web!TurnIsOwn
  BY DEF WebInv, TurnsOK, Web!TurnIsOwn
<1> QED BY <1>1, WebInvariant, PTL

\* A password and the sign-ins that were made with it.
SignInsOK ==
    /\ password \in 0..1
    /\ login \in [Logins -> [pc : {"idle", "authenticated", "open", "revoking", "revoked"},
                             with : 0..1]]

LEMMA SignIns == Web!Spec => []SignInsOK
<1>1. ASSUME Web!Init PROVE SignInsOK
  BY <1>1 DEF Web!Init, SignInsOK
<1>2. ASSUME SignInsOK, [Web!Next]_Web!vars PROVE SignInsOK'
  <2>1. CASE ~Web!Administering
    <3>1. UNCHANGED <<password, login>>
      BY <1>2, <2>1 DEF Web!Next, Web!vars, Web!Linking, Web!Enrolling, Web!Granting,
         Web!start_link, Web!LinkRunsOut, Web!WorkspaceLinkConfirm, Web!confirm_link,
         Web!ExpireLink, Web!LinkStatus, Web!BeginEnrollment, Web!create_account,
         Web!RegisterEndpoint, Web!EnrollmentDies, Web!GrantRunsOut,
         Web!WorkspaceSessionBind, Web!redeem_gateway_grant, Web!issue_gateway_grant
    <3> QED BY <1>2, <3>1 DEF SignInsOK
  <2>2. ASSUME NEW i \in Logins,
               Web!authenticate(i) \/ Web!CreateSession(i) \/ Web!SessionEnds(i)
                 \/ Web!change_password(i)
        PROVE  SignInsOK'
    BY <1>2, <2>2 DEF SignInsOK, Web!authenticate, Web!CreateSession, Web!SessionEnds,
       Web!change_password
  <2>3. ASSUME NEW i \in Logins, Web!revoke_account_sessions(i) PROVE SignInsOK'
    BY <1>2, <2>3 DEF SignInsOK, Web!revoke_account_sessions
  <2> QED BY <2>1, <2>2, <2>3 DEF Web!Administering
<1> QED BY <1>1, <1>2, PTL DEF Web!Spec

\* The rows of the accounts keep to their domains.
LEMMA WebTypes ==
    ASSUME Web!AccountsAssumption
    PROVE  Web!Spec => []Web!TypeOK
<1>1. ASSUME WebInv, SignInsOK PROVE Web!TypeOK
  <2>1. \A t \in Tabs : tab[t] \in WebRequests
    BY <1>1 DEF WebInv, RequestsOK
  <2> QED BY <1>1, <2>1 DEF WebInv, CodesOK, Codes, WebRequests, AccountsOK, TurnsOK, Passes,
          SignInsOK, Web!TypeOK
<1> QED BY <1>1, WebInvariant, SignIns, PTL

(***************************************************************************)
(* Trusted field input (FieldSubmission).                                  *)
(***************************************************************************)

\* The variables of FieldSubmission; its tab is called page.
sub == v1
pres == v2
page == v3
exec == v4

USE DEF sub, pres, page, exec

SubRows == [state : Forms!States, key : KeyNames, due : BOOLEAN,
            values : Values \cup {Unset}, plan : Values \cup {Unset}]
PageRows == [pc : {"closed", "asked", "open", "refused"}, of : Submissions \cup {0},
             from : Pages \cup {Unset}, card : {"none", "pending", "consumed", "expired"}]
PresRows == [Pages -> {"none", "active", "submitted", "expired"}]

\* Values are there from the submission on, and the plan is made of them.
RowFits(k) ==
    /\ k.state \in {"none", "pending"} => k.values = Unset
    /\ k.state \in {"submitted", "consumed"} => k.values \in Values
    /\ k.state = "consumed" => k.plan = k.values
SubsOK == sub \in [Submissions -> SubRows] /\ \A s \in Submissions : RowFits(sub[s])

PagesOK ==
    /\ pres \in [Submissions -> PresRows]
    /\ page \in [Tabs -> PageRows]
    /\ \A t \in Tabs : page[t].pc # "closed" => page[t].of \in Submissions

\* What the executor holds is what the row holds, and the row keeps it.
ExecFits(k) ==
    k.pc = "prepared" =>
        /\ k.of \in Submissions /\ k.values \in Values
        /\ sub[k.of].state \notin {"none", "pending"}
        /\ sub[k.of].values = k.values
ExecOK ==
    /\ exec \in [pc : {"idle", "prepared"}, of : Submissions \cup {0},
                 values : Values \cup {Unset}]
    /\ ExecFits(exec)

\* The inductive invariant of the forms.
FormsInv == SubsOK /\ PagesOK /\ ExecOK /\ Forms!OpenPageIsCurrent

\* The rows S leave the open states, together with their pages; another row
\* may be opened in the place of rows that left.
LEMMA CloseKeeps ==
    ASSUME FormsInv, NEW S \in SUBSET Submissions, NEW rows \in [Submissions -> SubRows],
           Forms!Close(S, rows), UNCHANGED exec,
           \A s \in Submissions : RowFits(rows[s]),
           \A s \in S : rows[s].state \notin Forms!Open,
           \A s \in Submissions \ S : rows[s].state = sub[s].state \/ sub[s].state = "none",
           \A s \in Submissions : sub[s].state \notin {"none", "pending"} =>
              rows[s].state \notin {"none", "pending"} /\ rows[s].values = sub[s].values,
           \A s, r \in Submissions : s # r /\ {rows[r].state, rows[s].state} \subseteq Forms!Open
              => rows[r].key # rows[s].key
    PROVE  FormsInv'
<1>1. sub' = rows
  BY DEF Forms!Close
<1>2. SubsOK'
  BY <1>1 DEF SubsOK
<1>3. /\ pres' \in [Submissions -> PresRows]
      /\ \A s \in Submissions, e \in Pages :
            pres'[s][e] = "active" => s \notin S /\ pres[s][e] = "active"
  BY DEF FormsInv, PagesOK, PresRows, Forms!Close, Forms!ExpiredPages
<1>4. ASSUME NEW t \in Tabs
      PROVE  /\ page'[t] \in PageRows /\ page'[t].of = page[t].of /\ page'[t].pc = page[t].pc
             /\ page'[t].card = "pending" => page[t].of \notin S /\ page[t].card = "pending"
  <2>1. page[t] \in PageRows
    BY DEF FormsInv, PagesOK
  <2>2. page'[t] = IF page[t].of \in S /\ page[t].card = "pending"
                   THEN [page[t] EXCEPT !.card = "expired"] ELSE page[t]
    BY DEF Forms!Close, Forms!ExpiredTabs
  <2> QED BY <2>1, <2>2 DEF PageRows
<1>5. page' = [t \in Tabs |-> page'[t]]
  BY DEF Forms!Close, Forms!ExpiredTabs
<1>6. PagesOK'
  BY <1>3, <1>4, <1>5 DEF FormsInv, PagesOK
<1>7. ExecOK'
  BY <1>1 DEF FormsInv, ExecOK, ExecFits
<1>8. Forms!OpenPageIsCurrent'
  <2>1. ASSUME NEW s \in Submissions, NEW t \in Tabs, page'[t].of = s,
               page'[t].card = "pending"
        PROVE  rows[s].state = "pending"
    <3>1. page[t].of = s /\ page[t].card = "pending" /\ s \notin S
      BY <1>4, <2>1
    <3>2. sub[s].state = "pending"
      BY <3>1 DEF FormsInv, Forms!OpenPageIsCurrent
    <3> QED BY <3>1, <3>2
  <2>2. ASSUME NEW s \in Submissions, NEW e \in Pages, pres'[s][e] = "active"
        PROVE  rows[s].state = "pending"
    <3>1. pres[s][e] = "active" /\ s \notin S
      BY <1>3, <2>2
    <3>2. sub[s].state = "pending"
      BY <3>1 DEF FormsInv, Forms!OpenPageIsCurrent
    <3> QED BY <3>1, <3>2
  <2> QED BY <1>1, <2>1, <2>2 DEF Forms!OpenPageIsCurrent
<1> QED BY <1>2, <1>6, <1>7, <1>8 DEF FormsInv

\* A row of the open states is retired or expires.
LEMMA RowEnds ==
    ASSUME FormsInv, NEW s \in Submissions, sub[s].state \in Forms!Open,
           NEW k \in SubRows, k = [sub[s] EXCEPT !.state = k.state],
           k.state \in {"expired", "superseded"},
           Forms!Close({s}, [sub EXCEPT ![s] = k]), UNCHANGED exec
    PROVE  FormsInv'
<1> DEFINE rows == [sub EXCEPT ![s] = k]
<1>0. sub \in [Submissions -> SubRows] /\ \A x \in Submissions : RowFits(sub[x])
  BY DEF FormsInv, SubsOK
<1>1. /\ rows \in [Submissions -> SubRows] /\ rows[s] = k
      /\ \A x \in Submissions : x # s => rows[x] = sub[x]
  BY <1>0
<1>2. k.values = sub[s].values
  BY <1>0 DEF SubRows
<1>3. \A x \in Submissions : RowFits(rows[x])
  BY <1>0, <1>1 DEF RowFits
<1>4. /\ \A x \in {s} : rows[x].state \notin Forms!Open
      /\ \A x \in Submissions \ {s} : rows[x].state = sub[x].state \/ sub[x].state = "none"
      /\ \A x \in Submissions : sub[x].state \notin {"none", "pending"} =>
              rows[x].state \notin {"none", "pending"} /\ rows[x].values = sub[x].values
  BY <1>1, <1>2 DEF Forms!Open
<1>5. \A x, r \in Submissions :
         x # r /\ {rows[r].state, rows[x].state} \subseteq Forms!Open
            => rows[r].key # rows[x].key
  BY <1>1 DEF FormsInv, Forms!OpenPageIsCurrent, Forms!Open
<1>6. Forms!Close({s}, rows)
  OBVIOUS
<1> HIDE DEF rows
<1> QED BY <1>1, <1>3, <1>4, <1>5, <1>6, CloseKeeps

\* create: what waits for the same target is retired, and the form is open.
LEMMA CreateFormKeeps ==
    ASSUME FormsInv, NEW s \in Submissions, NEW k \in KeyNames, Forms!CreateSubmission(s, k)
    PROVE  FormsInv'
<1> DEFINE old == Forms!SupersededByKey(k)
           retired == Forms!Superseded(old)
           all == {r \in Submissions : retired[r].state = "superseded"}
           new == [[retired[s] EXCEPT !.state = "pending"] EXCEPT !.key = k]
           rows == [retired EXCEPT ![s] = new]
<1>0. /\ sub \in [Submissions -> SubRows] /\ \A x \in Submissions : RowFits(sub[x])
      /\ sub[s].state = "none"
  BY DEF FormsInv, SubsOK, Forms!CreateSubmission
<1>1. ASSUME NEW r \in Submissions
      PROVE  /\ retired[r] \in SubRows
             /\ retired[r].key = sub[r].key /\ retired[r].values = sub[r].values
             /\ RowFits(retired[r])
             /\ r \in old => retired[r].state = "superseded"
             /\ r \notin old => retired[r] = sub[r]
  <2>1. sub[r] \in SubRows /\ RowFits(sub[r])
    BY <1>0
  <2>2. retired[r] = IF r \in old THEN [sub[r] EXCEPT !.state = "superseded"] ELSE sub[r]
    BY DEF Forms!Superseded
  <2> QED BY <2>1, <2>2 DEF SubRows, RowFits, Forms!States
<1>2. /\ s \notin old /\ \A r \in old : r \in Submissions /\ sub[r].state \in Forms!Open
      /\ \A r \in Submissions : sub[r].state \in Forms!Open /\ sub[r].key = k => r \in old
  BY <1>0 DEF Forms!SupersededByKey, Forms!Open
<1>3. retired \in [Submissions -> SubRows]
  <2>1. retired = [r \in Submissions |-> retired[r]]
    BY DEF Forms!Superseded
  <2> QED BY <1>1, <2>1
<1>4. /\ new \in SubRows /\ new.state = "pending" /\ new.key = k /\ new.values = Unset
      /\ RowFits(new)
  <2>1. retired[s] \in SubRows /\ retired[s].values = Unset
    BY <1>0, <1>1 DEF RowFits
  <2> QED BY <2>1 DEF SubRows, RowFits, Forms!States
<1>5. Forms!Close(all, rows) /\ UNCHANGED exec
  <2>1. /\ Forms!Close(all, [retired EXCEPT ![s].state = "pending", ![s].key = k])
        /\ UNCHANGED exec
    BY DEF Forms!CreateSubmission
  <2>2. [retired EXCEPT ![s].state = "pending", ![s].key = k] = rows
    BY <1>3
  <2> QED BY <2>1, <2>2
<1>6. /\ \A r \in all : r \in Submissions /\ retired[r].state = "superseded"
      /\ \A r \in Submissions : r \notin all => retired[r].state # "superseded"
  OBVIOUS
<1> HIDE DEF old, retired, new, all
<1>7. /\ rows \in [Submissions -> SubRows] /\ rows[s] = new
      /\ \A x \in Submissions : x # s => rows[x] = retired[x]
  BY <1>3, <1>4
<1> HIDE DEF rows
<1>8. s \notin all
  BY <1>0, <1>1, <1>2, <1>6
<1>9. \A x \in Submissions : RowFits(rows[x])
  BY <1>1, <1>4, <1>7
<1>10. /\ all \in SUBSET Submissions
       /\ \A x \in all : rows[x].state \notin Forms!Open
  BY <1>6, <1>7, <1>8 DEF Forms!Open
<1>11. \A x \in Submissions \ all : rows[x].state = sub[x].state \/ sub[x].state = "none"
  BY <1>0, <1>1, <1>6, <1>7
<1>12. \A x \in Submissions : sub[x].state \notin {"none", "pending"} =>
          rows[x].state \notin {"none", "pending"} /\ rows[x].values = sub[x].values
  BY <1>0, <1>1, <1>7
<1>13. \A x, r \in Submissions :
         x # r /\ {rows[r].state, rows[x].state} \subseteq Forms!Open
            => rows[r].key # rows[x].key
  <2>1. \A x \in Submissions : x # s /\ rows[x].state \in Forms!Open =>
           sub[x].state \in Forms!Open /\ sub[x].key # k /\ rows[x].key = sub[x].key
    BY <1>1, <1>2, <1>7 DEF Forms!Open
  <2> QED BY <1>4, <1>7, <2>1 DEF FormsInv, Forms!OpenPageIsCurrent
<1> QED BY <1>5, <1>7, <1>9, <1>10, <1>11, <1>12, <1>13, CloseKeeps

\* Time, expiry and retirement of a form.
LEMMA FormEndsKeeps ==
    ASSUME FormsInv, NEW s \in Submissions,
           \/ Forms!TimePasses(s) \/ Forms!ExpireIfNeeded(s)
           \/ \E p \in BOOLEAN : Forms!Supersede(s, p)
    PROVE  FormsInv'
<1>0. sub \in [Submissions -> SubRows] /\ sub[s] \in SubRows
  BY DEF FormsInv, SubsOK
<1>1. CASE Forms!TimePasses(s)
  <2> DEFINE k == [sub[s] EXCEPT !.due = TRUE]
  <2>1. sub' = [sub EXCEPT ![s] = k] /\ UNCHANGED <<pres, page, exec>>
    BY <1>1 DEF Forms!TimePasses
  <2>2. /\ k \in SubRows /\ k.state = sub[s].state /\ k.values = sub[s].values
        /\ k.key = sub[s].key /\ k.plan = sub[s].plan
    BY <1>0 DEF SubRows
  <2> HIDE DEF k
  <2>3. /\ sub' \in [Submissions -> SubRows]
        /\ \A x \in Submissions :
             /\ sub'[x].state = sub[x].state /\ sub'[x].values = sub[x].values
             /\ sub'[x].key = sub[x].key /\ sub'[x].plan = sub[x].plan
    BY <1>0, <2>1, <2>2
  <2>4. SubsOK'
    BY <2>3 DEF FormsInv, SubsOK, RowFits
  <2>5. PagesOK' /\ ExecOK'
    BY <2>1, <2>3 DEF FormsInv, PagesOK, ExecOK, ExecFits
  <2>6. Forms!OpenPageIsCurrent'
    BY <2>1, <2>3 DEF FormsInv, Forms!OpenPageIsCurrent
  <2> QED BY <2>4, <2>5, <2>6 DEF FormsInv
<1>2. CASE Forms!ExpireIfNeeded(s)
  <2> DEFINE k == [sub[s] EXCEPT !.state = "expired"]
  <2>1. /\ Forms!Close({s}, [sub EXCEPT ![s] = k]) /\ UNCHANGED exec
        /\ sub[s].state \in Forms!Open
    BY <1>2 DEF Forms!ExpireIfNeeded, Forms!Due
  <2>2. k \in SubRows /\ k.state = "expired" /\ k = [sub[s] EXCEPT !.state = k.state]
    BY <1>0 DEF SubRows, Forms!States
  <2> HIDE DEF k
  <2> QED BY <2>1, <2>2, RowEnds
<1>3. ASSUME NEW p \in BOOLEAN, Forms!Supersede(s, p) PROVE FormsInv'
  <2> DEFINE k == [sub[s] EXCEPT !.state = "superseded"]
  <2>1. /\ Forms!Close({s}, Forms!Superseded({s})) /\ UNCHANGED exec
        /\ sub[s].state \in Forms!Open
    BY <1>3 DEF Forms!Supersede, Forms!Open
  <2>2. k \in SubRows /\ k.state = "superseded" /\ k = [sub[s] EXCEPT !.state = k.state]
    BY <1>0 DEF SubRows, Forms!States
  <2>3. Forms!Superseded({s}) = [sub EXCEPT ![s] = k]
    BY <1>0 DEF Forms!Superseded
  <2> HIDE DEF k
  <2> QED BY <2>1, <2>2, <2>3, RowEnds
<1> QED BY <1>1, <1>2, <1>3

\* Presentations and pages: a form is shown while it waits.
LEMMA ShowingKeeps ==
    ASSUME FormsInv,
           \/ \E s \in Submissions, e \in Pages : Forms!CreatePresentation(s, e)
           \/ \E s \in Submissions, t \in Tabs, f \in Pages \cup {Unset} : Forms!GetCard(t, s, f)
           \/ \E t \in Tabs : Forms!IssueCsrf(t)
    PROVE  FormsInv'
<1>0. PagesOK
  BY DEF FormsInv
<1>1. UNCHANGED <<sub, exec>>
  BY DEF Forms!CreatePresentation, Forms!GetCard, Forms!IssueCsrf
<1>2. SubsOK' /\ ExecOK'
  BY <1>1 DEF FormsInv, SubsOK, ExecOK, ExecFits
<1>3. ASSUME NEW s \in Submissions, NEW e \in Pages, Forms!CreatePresentation(s, e)
      PROVE  FormsInv'
  <2> DEFINE st == Forms!PresentationState(sub[s].state)
  <2>1. /\ st \in {"none", "active", "submitted", "expired"}
        /\ st = "active" => sub[s].state = "pending"
    BY DEF Forms!PresentationState
  <2>2. pres' = [pres EXCEPT ![s][e] = st] /\ UNCHANGED page
    BY <1>3 DEF Forms!CreatePresentation
  <2> HIDE DEF st
  <2>3. pres' \in [Submissions -> PresRows]
    BY <1>0, <2>1, <2>2 DEF PagesOK, PresRows
  <2>4. \A x \in Submissions, y \in Pages : pres'[x][y] = "active" =>
           pres[x][y] = "active" \/ (x = s /\ st = "active")
    BY <1>0, <2>2 DEF PagesOK, PresRows
  <2>5. PagesOK'
    BY <1>0, <2>2, <2>3 DEF PagesOK
  <2>6. Forms!OpenPageIsCurrent'
    BY <1>1, <2>1, <2>2, <2>4 DEF FormsInv, Forms!OpenPageIsCurrent
  <2> QED BY <1>2, <2>5, <2>6 DEF FormsInv
<1>4. ASSUME NEW t \in Tabs, NEW k \in PageRows, page' = [page EXCEPT ![t] = k],
             k.of \in Submissions, k.card = "pending" => sub[k.of].state = "pending",
             UNCHANGED pres
      PROVE  FormsInv'
  <2>1. PagesOK'
    BY <1>0, <1>4 DEF PagesOK
  <2>2. \A x \in Tabs : x # t => page'[x] = page[x]
    BY <1>0, <1>4 DEF PagesOK
  <2>3. page'[t] = k
    BY <1>0, <1>4 DEF PagesOK
  <2>4. Forms!OpenPageIsCurrent'
    BY <1>1, <1>4, <2>2, <2>3 DEF FormsInv, Forms!OpenPageIsCurrent
  <2> QED BY <1>2, <2>1, <2>4 DEF FormsInv
<1>5. ASSUME NEW s \in Submissions, NEW t \in Tabs, NEW f \in Pages \cup {Unset},
             Forms!GetCard(t, s, f)
      PROVE  FormsInv'
  <2> DEFINE k == [pc |-> "asked", of |-> s, from |-> f, card |-> "none"]
  <2>1. k \in PageRows /\ k.of = s /\ k.card = "none"
    BY DEF PageRows
  <2>2. page' = [page EXCEPT ![t] = k] /\ UNCHANGED pres
    BY <1>5 DEF Forms!GetCard
  <2> HIDE DEF k
  <2> QED BY <1>4, <2>1, <2>2
<1>6. ASSUME NEW t \in Tabs, Forms!IssueCsrf(t) PROVE FormsInv'
  <2>0. page[t] \in PageRows /\ page[t].of \in Submissions
    BY <1>0, <1>6 DEF PagesOK, Forms!IssueCsrf
  <2>1. CASE Forms!IssuesCsrf(page[t].of)
    <3> DEFINE k == [[page[t] EXCEPT !.pc = "open"] EXCEPT !.card = "pending"]
    <3>1. k \in PageRows /\ k.of = page[t].of
      BY <2>0 DEF PageRows
    <3>2. page' = [page EXCEPT ![t] = k] /\ UNCHANGED pres
      BY <1>6, <2>1 DEF Forms!IssueCsrf
    <3> HIDE DEF k
    <3> QED BY <1>4, <2>0, <2>1, <3>1, <3>2 DEF Forms!IssuesCsrf
  <2>2. CASE ~Forms!IssuesCsrf(page[t].of)
    <3> DEFINE k == [page[t] EXCEPT !.pc = "refused"]
    <3>1. k \in PageRows /\ k.of = page[t].of /\ k.card = page[t].card
      BY <2>0 DEF PageRows
    <3>2. page' = [page EXCEPT ![t] = k] /\ UNCHANGED pres
      BY <1>6, <2>2 DEF Forms!IssueCsrf
    <3>3. page[t].card = "pending" => sub[page[t].of].state = "pending"
      BY <2>0 DEF FormsInv, Forms!OpenPageIsCurrent
    <3> HIDE DEF k
    <3> QED BY <1>4, <2>0, <3>1, <3>2, <3>3
  <2> QED BY <2>1, <2>2
<1> QED BY <1>3, <1>5, <1>6

\* Where no row is opened and no key is replaced, targets keep one open form.
NothingOpens ==
    \A x \in Submissions : /\ sub'[x].key = sub[x].key
                           /\ sub'[x].state \in Forms!Open => sub[x].state \in Forms!Open
TargetsApart ==
    \A x \in Submissions : \A r \in Submissions \ {x} :
        {sub[r].state, sub[x].state} \subseteq Forms!Open => sub[r].key # sub[x].key
LEMMA KeysStayApart ==
    ASSUME Forms!OpenPageIsCurrent, NothingOpens
    PROVE  TargetsApart'
<1> SUFFICES ASSUME NEW x \in Submissions, NEW r \in Submissions \ {x},
                    sub'[r].state \in Forms!Open, sub'[x].state \in Forms!Open
             PROVE  sub'[r].key # sub'[x].key
  BY DEF TargetsApart
<1>1. {sub[r].state, sub[x].state} \subseteq Forms!Open
  BY DEF NothingOpens
<1>2. sub[r].key # sub[x].key
  BY <1>1 DEF Forms!OpenPageIsCurrent
<1> QED BY <1>2 DEF NothingOpens

\* submit: the values are written once, and every page of the form is closed.
LEMMA SubmitKeeps ==
    ASSUME FormsInv, Forms!FormsAssumption, NEW t \in Tabs, NEW v \in Values,
           Forms!SubmitCard(t, v)
    PROVE  FormsInv'
<1> DEFINE s == page[t].of
           k == [[sub[s] EXCEPT !.state = "submitted"] EXCEPT !.values = v]
<1>0. /\ SubsOK /\ PagesOK /\ ExecOK /\ s \in Submissions /\ sub[s].state = "pending"
  BY DEF FormsInv, PagesOK, Forms!SubmitCard, Forms!AcceptsValues
<1>1. sub' = [sub EXCEPT ![s] = k] /\ UNCHANGED exec
  BY <1>0 DEF Forms!SubmitCard, SubsOK
<1>2. /\ k \in SubRows /\ k.state = "submitted" /\ k.values = v /\ k.key = sub[s].key
  BY <1>0 DEF SubsOK, SubRows, Forms!States
<1>3. /\ pres' \in [Submissions -> PresRows]
      /\ \A x \in Submissions, e \in Pages :
            pres'[x][e] = "active" => x # s /\ pres[x][e] = "active"
  <2>1. /\ pres' = [pres EXCEPT ![s] = [e \in Pages |-> IF pres[s][e] = "none" THEN "none"
                                                      ELSE "submitted"]]
    BY DEF Forms!SubmitCard
  <2> HIDE DEF s
  <2> QED BY <1>0, <2>1 DEF PagesOK, PresRows
<1>4. ASSUME NEW r \in Tabs
      PROVE  /\ page'[r] \in PageRows /\ page'[r].of = page[r].of /\ page'[r].pc = page[r].pc
             /\ page'[r].card = "pending" => page[r].of # s /\ page[r].card = "pending"
  <2>1. page[r] \in PageRows
    BY <1>0 DEF PagesOK
  <2>2. page'[r] = IF page[r].of = s /\ page[r].card = "pending"
                   THEN [page[r] EXCEPT !.card = "consumed"] ELSE page[r]
    BY DEF Forms!SubmitCard
  <2> HIDE DEF s
  <2> QED BY <2>1, <2>2 DEF PageRows
<1>5. page' = [r \in Tabs |-> page'[r]]
  BY DEF Forms!SubmitCard
<1> HIDE DEF k, s
<1>6. /\ sub'[s] = k /\ \A x \in Submissions : x # s => sub'[x] = sub[x]
  BY <1>0, <1>1 DEF SubsOK
<1>7. SubsOK'
  BY <1>0, <1>1, <1>2, <1>6 DEF SubsOK, RowFits
<1>8. PagesOK'
  BY <1>0, <1>3, <1>4, <1>5 DEF PagesOK
<1>9. ExecOK'
  BY <1>0, <1>1, <1>6 DEF ExecOK, ExecFits
<1>10. Forms!OpenPageIsCurrent'
  <2>1. ASSUME NEW x \in Submissions, NEW r \in Tabs, page'[r].of = x,
               page'[r].card = "pending"
        PROVE  sub'[x].state = "pending"
    BY <1>4, <1>6, <2>1 DEF FormsInv, Forms!OpenPageIsCurrent
  <2>2. ASSUME NEW x \in Submissions, NEW e \in Pages, pres'[x][e] = "active"
        PROVE  sub'[x].state = "pending"
    BY <1>3, <1>6, <2>2 DEF FormsInv, Forms!OpenPageIsCurrent
  <2>3. NothingOpens
    BY <1>0, <1>2, <1>6 DEF Forms!Open, NothingOpens
  <2>4. TargetsApart'
    BY <2>3, KeysStayApart DEF FormsInv
  <2> QED BY <2>1, <2>2, <2>4 DEF Forms!OpenPageIsCurrent, Forms!Open, TargetsApart
<1> QED BY <1>7, <1>8, <1>9, <1>10 DEF FormsInv

\* The executor takes the values, and consumes the form one step later.
LEMMA ExecutorKeeps ==
    ASSUME FormsInv, Forms!FormsAssumption,
           \/ \E s \in Submissions : Forms!Prepare(s)
           \/ Forms!Consume \/ Forms!Restart
    PROVE  FormsInv'
<1>0. SubsOK /\ PagesOK /\ ExecOK /\ Forms!OpenPageIsCurrent
  BY DEF FormsInv
<1>1. UNCHANGED <<pres, page>> /\ PagesOK'
  BY <1>0 DEF PagesOK, Forms!Prepare, Forms!Consume, Forms!Restart
<1>2. ASSUME UNCHANGED sub, ExecOK' PROVE FormsInv'
  BY <1>0, <1>1, <1>2 DEF FormsInv, SubsOK, Forms!OpenPageIsCurrent
<1>3. ASSUME NEW s \in Submissions, Forms!Prepare(s) PROVE FormsInv'
  <2> DEFINE k == [pc |-> "prepared", of |-> s, values |-> sub[s].values]
  <2>1. sub[s].state = "submitted" /\ sub[s].values \in Values
    BY <1>0, <1>3 DEF SubsOK, RowFits, Forms!Prepare
  <2>2. /\ k \in [pc : {"idle", "prepared"}, of : Submissions \cup {0},
                  values : Values \cup {Unset}]
        /\ ExecFits(k)
    BY <2>1 DEF ExecFits
  <2>3. exec' = k /\ UNCHANGED sub
    BY <1>3 DEF Forms!Prepare
  <2> HIDE DEF k
  <2> QED BY <1>2, <2>2, <2>3 DEF ExecOK, ExecFits
<1>4. /\ Forms!IdleExec \in [pc : {"idle", "prepared"}, of : Submissions \cup {0},
                            values : Values \cup {Unset}]
      /\ Forms!IdleExec.pc = "idle"
  BY DEF Forms!IdleExec
<1>5. CASE Forms!Restart
  BY <1>2, <1>4, <1>5 DEF Forms!Restart, ExecOK, ExecFits
<1>6. CASE Forms!Consume
  <2> DEFINE s == exec.of
             k == [[sub[s] EXCEPT !.state = "consumed"] EXCEPT !.plan = exec.values]
  <2>0. /\ s \in Submissions /\ exec.values \in Values /\ sub[s].values = exec.values
        /\ exec' = Forms!IdleExec
    BY <1>0, <1>6 DEF ExecOK, ExecFits, Forms!Consume
  <2>1. ExecOK'
    BY <1>4, <2>0 DEF ExecOK, ExecFits
  <2>2. CASE ~Forms!MayConsume(s)
    BY <1>2, <1>6, <2>1, <2>2 DEF Forms!Consume
  <2>3. CASE Forms!MayConsume(s)
    <3>1. sub' = [sub EXCEPT ![s] = k] /\ sub[s].state = "submitted"
      BY <1>0, <1>6, <2>0, <2>3 DEF Forms!Consume, Forms!MayConsume, SubsOK
    <3>2. /\ k \in SubRows /\ k.state = "consumed" /\ k.plan = exec.values
          /\ k.values = exec.values /\ k.key = sub[s].key
      BY <1>0, <2>0 DEF SubsOK, SubRows, Forms!States
    <3> HIDE DEF k, s
    <3>3. /\ sub'[s] = k /\ \A x \in Submissions : x # s => sub'[x] = sub[x]
      BY <1>0, <2>0, <3>1 DEF SubsOK
    <3>4. SubsOK'
      BY <1>0, <2>0, <3>1, <3>2, <3>3 DEF SubsOK, RowFits
    <3>5. NothingOpens
      BY <3>1, <3>2, <3>3 DEF Forms!Open, NothingOpens
    <3>6. TargetsApart'
      BY <1>0, <3>5, KeysStayApart
    <3>7. \A x \in Submissions : sub[x].state = "pending" => sub'[x].state = "pending"
      BY <3>1, <3>3
    <3>8. Forms!OpenPageIsCurrent'
      BY <1>0, <1>1, <3>6, <3>7 DEF Forms!OpenPageIsCurrent, Forms!Open, TargetsApart
    <3> QED BY <1>1, <2>1, <3>4, <3>8 DEF FormsInv
  <2> QED BY <2>2, <2>3
<1> QED BY <1>3, <1>5, <1>6

LEMMA FormsInvariant ==
    ASSUME Forms!FormsAssumption
    PROVE  Forms!Spec => []FormsInv
<1>1. ASSUME Forms!Init PROVE FormsInv
  <2> DEFINE key == CHOOSE k \in KeyNames : TRUE
             none == [state |-> "none", key |-> key, values |-> Unset, due |-> FALSE,
                      plan |-> Unset]
  <2>1. key \in KeyNames
    BY DEF Forms!FormsAssumption
  <2>2. sub = [s \in Submissions |-> none]
    BY <1>1 DEF Forms!Init
  <2> HIDE DEF key
  <2>3. none \in SubRows /\ RowFits(none) /\ none.state = "none"
    BY <2>1 DEF SubRows, RowFits, Forms!States
  <2> HIDE DEF none
  <2>4. SubsOK
    BY <2>2, <2>3 DEF SubsOK
  <2>5. Forms!ClosedTab \in PageRows /\ Forms!ClosedTab.card = "none"
        /\ Forms!ClosedTab.pc = "closed"
    BY DEF Forms!ClosedTab, PageRows
  <2>6. PagesOK
    BY <1>1, <2>5 DEF Forms!Init, PagesOK, PresRows
  <2>7. ExecOK
    BY <1>1 DEF Forms!Init, Forms!IdleExec, ExecOK, ExecFits
  <2>8. Forms!OpenPageIsCurrent
    BY <1>1, <2>2, <2>3, <2>5 DEF Forms!Init, Forms!OpenPageIsCurrent, Forms!Open
  <2> QED BY <2>4, <2>6, <2>7, <2>8 DEF FormsInv
<1>2. ASSUME FormsInv, [Forms!Next]_Forms!vars PROVE FormsInv'
  <2>1. CASE UNCHANGED Forms!vars
    BY <1>2, <2>1 DEF Forms!vars, FormsInv, SubsOK, PagesOK, ExecOK, ExecFits,
       Forms!OpenPageIsCurrent
  <2> QED BY <1>2, <2>1, CreateFormKeeps, FormEndsKeeps, ShowingKeeps, SubmitKeeps,
         ExecutorKeeps DEF Forms!Next
<1> QED BY <1>1, <1>2, PTL DEF Forms!Spec

\* See PlansUseSubmitted below.
LEMMA PlansUseSubmittedAlone ==
    ASSUME Forms!FormsAssumption
    PROVE  Forms!Spec => []Forms!PlanUsesSubmitted
<1>1. FormsInv => Forms!PlanUsesSubmitted
  BY DEF FormsInv, SubsOK, RowFits, Forms!PlanUsesSubmitted, Forms!FormsAssumption
<1> QED BY <1>1, FormsInvariant, PTL

\* A page that can still be posted belongs to a form that waits for it, and
\* that form is the only open one for its target (field_submissions.py,
\* create, submit, supersede and _expire_if_needed).
THEOREM OpenPagesAreCurrent ==
    ASSUME Forms!FormsAssumption
    PROVE  Forms!Spec => []Forms!OpenPageIsCurrent
<1>1. FormsInv => Forms!OpenPageIsCurrent
  BY DEF FormsInv
<1> QED BY <1>1, FormsInvariant, PTL

\* The rows of the forms keep to their domains.
LEMMA FormTypes ==
    ASSUME Forms!FormsAssumption
    PROVE  Forms!Spec => []Forms!TypeOK
<1>1. FormsInv => Forms!TypeOK
  BY DEF FormsInv, SubsOK, SubRows, PagesOK, PageRows, PresRows, ExecOK, Forms!TypeOK
<1> QED BY <1>1, FormsInvariant, PTL

(***************************************************************************)
(* The approval batch of the task hub, for any number of items, of polls,  *)
(* of restarts and of calls that are served at a time: a resume of a       *)
(* committed card does not take the lock of its task.  The rows keep to    *)
(* their domains and the order of the targets is kept in the ledger.  That *)
(* the ledger is right about an item is not so (run TaskHubTwoResumes).    *)
(***************************************************************************)

\* The variables of TaskHub; call, task and link are defined above.
batch == v1
ordinal == v2
item == v4
op == v5
card == v6
crashes == v8
known == v10

USE DEF batch, ordinal, item, op, card, crashes, known

HubCalls ==
    [at : {"idle", "apply", "record", "observe", "settle", "next", "poll", "return"},
     op : Hub!Ops \cup Hub!Cards \cup {Hub!None}, seen : 0..N, locked : BOOLEAN,
     observes : BOOLEAN]
ItemRows ==
    [state : Hub!BATCH_ITEM_STATES, op : Hub!Ops \cup {Hub!None},
     card : Hub!Cards \cup {Hub!None}]

\* An operation of an item is the pair of the item and its kind.
LEMMA OpParts ==
    ASSUME NEW o \in Hub!Items \X Hub!Kinds
    PROVE  /\ o \in Hub!Ops /\ o[1] \in Hub!Items /\ o[2] \in Hub!Kinds
           /\ o = <<o[1], o[2]>>
BY DEF Hub!Ops

\* The operations and cards of an item.
LEMMA OpsOfItems ==
    /\ \A n \in Hub!Items : /\ <<n, "commit">> \in Hub!Ops
                            /\ <<n, "fill">> \in Hub!Ops /\ <<n, "prepare">> \in Hub!Ops
    /\ \A n \in Hub!Items : <<n, "field">> \in Hub!Cards /\ <<n, "auth">> \in Hub!Cards
BY DEF Hub!Ops, Hub!Cards, Hub!Kinds

\* What a thread without a call has to do.
LEMMA IdleIsACall ==
    ASSUME Hub!HubAssumption
    PROVE  /\ Hub!Idle \in HubCalls /\ Hub!Idle.at = "idle"
           /\ Hub!Idle = [at |-> "idle", op |-> Hub!None, seen |-> 0, locked |-> FALSE,
                          observes |-> TRUE]
BY DEF Hub!Idle, HubCalls, Hub!HubAssumption

\* A value that is not given leaves the stored one.
LEMMA CoalesceTypes ==
    ASSUME NEW S, NEW x \in S \cup {Hub!None}, NEW y \in S \cup {Hub!None}
    PROVE  Hub!Coalesce(x, y) \in S \cup {Hub!None}
BY DEF Hub!Coalesce

\* The rows of the ledger keep to their domains however many calls of the
\* task are served at a time.
HubStatuses == Hub!ACTIVE_TASK_STATUSES \cup Hub!TERMINAL_TASK_STATUSES
HubTasks == [status : HubStatuses, op : Hub!Ops \cup {Hub!None},
             card : Hub!Cards \cup {Hub!None}]
CardStates == Hub!CARD_STATES \cup {"none"}

\* A call that has an answer carries the operation it is of, and a poll that
\* goes on carries a card that ended.
CallIsTyped(k, o, cd) ==
    /\ k.at \in {"apply", "record", "observe", "settle", "return"} =>
           k.op \in Hub!Items \X Hub!Kinds /\ o[k.op] # "none"
    /\ k.at = "poll" => k.op \in Hub!Cards /\ cd[k.op] \in {"declined", "expired", "superseded"}

\* What is linked is there, and a card was left by its operation.
CardsOK(l, o, cd) ==
    /\ \A i \in Hub!Cards : cd[i] = "none" => l[i] = "none"
    /\ \A n \in Hub!Items : /\ cd[<<n, "field">>] # "none" => o[<<n, "fill">>] # "none"
                            /\ cd[<<n, "auth">>] # "none" => o[<<n, "prepare">>] # "none"

\* The items behind the current one have not been started.
RestIsQueued ==
    batch \in Hub!ACTIVE_BATCH_STATES \cup {"none"} =>
        \A m \in Hub!Items : m > ordinal => item[m].state = "queued"

LedgerInv ==
    /\ task \in HubTasks
    /\ batch \in Hub!BATCH_STATES \cup {"none"} /\ ordinal \in Hub!Items
    /\ item \in [Hub!Items -> ItemRows]
    /\ op \in [Hub!Ops -> Hub!OP_STATES \cup {"none"}]
    /\ card \in [Hub!Cards -> CardStates]
    /\ link \in [Hub!Cards -> CardStates]
    /\ known \subseteq Hub!Ops
    /\ call \in [Callers -> HubCalls]
    /\ crashes \in 0..MaxCrashes
    /\ batch = "none" => ordinal = 1
    /\ RestIsQueued
    /\ CardsOK(link, op, card)
    /\ \A c \in Callers : CallIsTyped(call[c], op, card)

LEMMA LedgerTypes == LedgerInv => Hub!TypeOK
BY DEF LedgerInv, Hub!TypeOK, HubTasks, HubStatuses, ItemRows, CardStates, HubCalls

LEMMA LedgerInit ==
    ASSUME Hub!HubAssumption, Hub!Init
    PROVE  LedgerInv
<1>1. 1 \in Hub!Items
  BY DEF Hub!HubAssumption, Hub!Items
<1>2. /\ task \in HubTasks /\ batch = "none" /\ ordinal = 1
      /\ item \in [Hub!Items -> ItemRows] /\ \A m \in Hub!Items : item[m].state = "queued"
  BY DEF Hub!Init, HubTasks, HubStatuses, Hub!ACTIVE_TASK_STATUSES, ItemRows,
     Hub!BATCH_ITEM_STATES
<1>3. /\ op \in [Hub!Ops -> Hub!OP_STATES \cup {"none"}]
      /\ card \in [Hub!Cards -> CardStates] /\ link \in [Hub!Cards -> CardStates]
      /\ \A i \in Hub!Cards : card[i] = "none" /\ link[i] = "none"
      /\ known \subseteq Hub!Ops
  BY DEF Hub!Init, CardStates
<1>4. crashes \in 0..MaxCrashes
  BY DEF Hub!Init, Hub!HubAssumption
<1>5. call \in [Callers -> HubCalls] /\ \A c \in Callers : call[c].at = "idle"
  BY IdleIsACall DEF Hub!Init
<1>6. \A n \in Hub!Items : <<n, "field">> \in Hub!Cards /\ <<n, "auth">> \in Hub!Cards
  BY DEF Hub!Cards
<1> QED BY <1>1, <1>2, <1>3, <1>4, <1>5, <1>6 DEF LedgerInv, RestIsQueued, CardsOK, CallIsTyped

\* Call c becomes k; the operations and cards stay, or there are more of them.
LEMMA CallGoesTo ==
    ASSUME LedgerInv, NEW c \in Callers, NEW k \in HubCalls,
           call' \in {call, [call EXCEPT ![c] = k]},
           CallIsTyped(k, op', card'),
           \A o \in Hub!Items \X Hub!Kinds : op[o] # "none" => op'[o] # "none",
           \A i \in Hub!Cards : card[i] \in {"declined", "expired", "superseded"}
                                  => card'[i] = card[i]
    PROVE  call' \in [Callers -> HubCalls] /\ \A d \in Callers : CallIsTyped(call'[d], op', card')
<1>1. call' \in [Callers -> HubCalls] /\ \A d \in Callers : call'[d] \in {call[d], k}
  BY DEF LedgerInv
<1>2. ASSUME NEW d \in Callers PROVE CallIsTyped(call[d], op', card')
  BY DEF LedgerInv, CallIsTyped
<1> QED BY <1>1, <1>2

\* What a step says of the task is one of its states.
LEMMA SaysOfTask ==
    ASSUME LedgerInv, NEW o \in Hub!Items \X Hub!Kinds, op[o] # "none"
    PROVE  /\ Hub!OperationObservation(task, o) \in HubTasks
           /\ Hub!CardOf(o) \in Hub!Cards \cup {Hub!None}
<1>1. Hub!OperationStatus(o) \in HubStatuses
  <2>1. op[o] \in Hub!OP_STATES
    BY OpParts DEF LedgerInv
  <2>2. CASE batch = "none"
    BY <2>1, <2>2 DEF Hub!OperationStatus, Hub!TaskStatusForOperation, Hub!OP_STATES, HubStatuses,
       Hub!ACTIVE_TASK_STATUSES, Hub!TERMINAL_TASK_STATUSES
  <2>3. CASE batch # "none"
    BY <2>3 DEF LedgerInv, Hub!OperationStatus, Hub!BATCH_STATES, Hub!ACTIVE_BATCH_STATES,
       HubStatuses, Hub!ACTIVE_TASK_STATUSES, Hub!TERMINAL_TASK_STATUSES
  <2> QED BY <2>2, <2>3
<1>2. o \in Hub!Ops /\ o[1] \in Hub!Items
  BY OpParts
<1>3. Hub!OperationObservation(task, o) \in HubTasks
  BY <1>1, <1>2 DEF LedgerInv, Hub!OperationObservation, HubTasks
<1>4. Hub!CardOf(o) \in Hub!Cards \cup {Hub!None}
  BY <1>2 DEF Hub!CardOf, Hub!CardKind, Hub!Cards
<1> QED BY <1>3, <1>4

LEMMA CardSaysOfTask ==
    ASSUME LedgerInv, NEW t \in HubTasks, NEW i \in Hub!Cards
    PROVE  Hub!InteractionObservation(t, i) \in HubTasks
<1>1. CASE card[i] = "none"
  <2>1. link[i] = card[i]
    BY <1>1 DEF LedgerInv, CardsOK
  <2> QED BY <2>1 DEF Hub!InteractionObservation
<1>2. CASE card[i] # "none"
  <2>1. card[i] \in Hub!CARD_STATES
    BY <1>2 DEF LedgerInv, CardStates
  <2>2. Hub!TaskStatusForInteraction(card[i]) \in HubStatuses
    BY <2>1 DEF Hub!TaskStatusForInteraction, Hub!CARD_STATES, HubStatuses,
       Hub!ACTIVE_TASK_STATUSES, Hub!TERMINAL_TASK_STATUSES
  <2> QED BY <2>2 DEF Hub!InteractionObservation, HubTasks
<1> QED BY <1>1, <1>2

LEMMA BatchSaysOfTask ==
    ASSUME LedgerInv, NEW b \in Hub!BATCH_STATES, NEW o \in Hub!Ops \cup {Hub!None},
           NEW i \in Hub!Cards \cup {Hub!None}
    PROVE  Hub!BatchTask(b, o, i) \in HubTasks
<1>1. b \in HubStatuses
  BY DEF Hub!BATCH_STATES, Hub!ACTIVE_BATCH_STATES, HubStatuses, Hub!ACTIVE_TASK_STATUSES,
     Hub!TERMINAL_TASK_STATUSES
<1>2. task.op \in Hub!Ops \cup {Hub!None} /\ task.card \in Hub!Cards \cup {Hub!None}
  BY DEF LedgerInv, HubTasks
<1>3. /\ Hub!Coalesce(o, task.op) \in Hub!Ops \cup {Hub!None}
      /\ Hub!Coalesce(i, task.card) \in Hub!Cards \cup {Hub!None}
  BY <1>2, CoalesceTypes
<1> QED BY <1>1, <1>3 DEF Hub!BatchTask, HubTasks

\* The observation of an operation.
LEMMA ObservedKeeps ==
    ASSUME LedgerInv, NEW o \in Hub!Items \X Hub!Kinds, op[o] # "none", Hub!Observed(o),
           UNCHANGED <<op, card>>
    PROVE  /\ task' \in HubTasks /\ known' \subseteq Hub!Ops
           /\ link' \in [Hub!Cards -> CardStates] /\ CardsOK(link', op', card')
<1>1. /\ Hub!OperationObservation(task, o) \in HubTasks
      /\ Hub!CardOf(o) \in Hub!Cards \cup {Hub!None}
  BY SaysOfTask
<1>2. known' \subseteq Hub!Ops
  BY OpParts DEF LedgerInv, Hub!Observed
<1>3. task' \in HubTasks
  BY <1>1, CardSaysOfTask DEF Hub!Observed
<1>4. link' = link \/ \E i \in Hub!Cards : link' = [link EXCEPT ![i] = card[i]]
  BY <1>1 DEF Hub!Observed
<1>5. link' \in [Hub!Cards -> CardStates] /\ CardsOK(link', op', card')
  BY <1>4 DEF LedgerInv, CardsOK
<1> QED BY <1>2, <1>3, <1>5

\* An operation of the engine by call c.
LEMMA InvokeTypes ==
    ASSUME Hub!HubAssumption, LedgerInv, NEW c \in Callers, NEW o \in Hub!Items \X Hub!Kinds,
           Hub!Invoke(c, o), UNCHANGED <<task, batch, ordinal, item, link, known, crashes>>
    PROVE  LedgerInv'
<1>0. o \in Hub!Ops /\ o[1] \in Hub!Items /\ o[2] \in Hub!Kinds /\ o = <<o[1], o[2]>>
  BY OpParts
<1> DEFINE i == <<o[1], Hub!CardKind(o[2])>>
<1>1. i \in Hub!Cards
  BY <1>0 DEF Hub!CardKind, Hub!Cards
<1>2. \/ UNCHANGED <<op, card>> /\ op[o] # "none"
      \/ UNCHANGED card /\ op[o] = "none" /\ op' = [op EXCEPT ![o] = "failed"]
      \/ /\ op[o] = "none"
         /\ \E s \in {"succeeded", "failed", "unknown"} : op' = [op EXCEPT ![o] = s]
         /\ UNCHANGED card
      \/ /\ op[o] = "none" /\ o[2] # "commit"
         /\ op' = [op EXCEPT ![o] = "requires_user_action"]
         /\ card' = [card EXCEPT ![i] = "pending"]
  <2>1. CASE Hub!Refused(o)
    <3>1. op' = [op EXCEPT ![o] = IF @ = "none" THEN "failed" ELSE @] /\ UNCHANGED card
      BY <2>1 DEF Hub!Invoke
    <3>2. op \in [Hub!Ops -> Hub!OP_STATES \cup {"none"}]
      BY DEF LedgerInv
    <3> QED BY <1>0, <3>1, <3>2
  <2>2. CASE ~Hub!Refused(o)
    <3>1. Hub!Execute(o)
      BY <2>2 DEF Hub!Invoke
    <3>2. CASE op[o] # "none"
      BY <3>1, <3>2 DEF Hub!Execute
    <3>3. CASE op[o] = "none"
      <4>1. PICK s \in Hub!Outcomes(o) :
               /\ op' = [op EXCEPT ![o] = s]
               /\ card' = IF s = "requires_user_action"
                          THEN [card EXCEPT ![i] = "pending"] ELSE card
        BY <3>1, <3>3 DEF Hub!Execute
      <4>2. \/ s \in {"succeeded", "failed", "unknown"}
            \/ s = "requires_user_action" /\ o[2] # "commit"
        BY DEF Hub!Outcomes
      <4> QED BY <3>3, <4>1, <4>2
    <3> QED BY <3>2, <3>3
  <2> QED BY <2>1, <2>2
<1>3. op \in [Hub!Ops -> Hub!OP_STATES \cup {"none"}] /\ card \in [Hub!Cards -> CardStates]
      /\ link \in [Hub!Cards -> CardStates]
  BY DEF LedgerInv
<1>4. /\ op' \in [Hub!Ops -> Hub!OP_STATES \cup {"none"}]
      /\ \A q \in Hub!Ops : op[q] # "none" => op'[q] # "none"
      /\ op'[o] # "none"
  BY <1>0, <1>2, <1>3 DEF Hub!OP_STATES
<1>5. /\ card' \in [Hub!Cards -> CardStates]
      /\ \A j \in Hub!Cards : card'[j] # card[j] => j = i /\ op[o] = "none" /\ o[2] # "commit"
                                                     /\ card'[j] = "pending"
  BY <1>1, <1>2, <1>3 DEF CardStates, Hub!CARD_STATES
<1>6. op[o] = "none" /\ o[2] # "commit" => card[i] = "none"
  <2>1. /\ card[<<o[1], "field">>] # "none" => op[<<o[1], "fill">>] # "none"
        /\ card[<<o[1], "auth">>] # "none" => op[<<o[1], "prepare">>] # "none"
    BY <1>0 DEF LedgerInv, CardsOK
  <2>2. CASE o[2] = "fill"
    BY <1>0, <2>1, <2>2 DEF Hub!CardKind
  <2>3. CASE o[2] = "prepare"
    BY <1>0, <2>1, <2>3 DEF Hub!CardKind
  <2> QED BY <1>0, <2>2, <2>3 DEF Hub!Kinds
<1>7. CardsOK(link', op', card')
  <2>1. ASSUME NEW j \in Hub!Cards, card'[j] = "none" PROVE link'[j] = "none"
    BY <1>5, <2>1 DEF LedgerInv, CardsOK
  <2>2. ASSUME NEW n \in Hub!Items
        PROVE  /\ card'[<<n, "field">>] # "none" => op'[<<n, "fill">>] # "none"
               /\ card'[<<n, "auth">>] # "none" => op'[<<n, "prepare">>] # "none"
    <3>1. /\ <<n, "field">> \in Hub!Cards /\ <<n, "auth">> \in Hub!Cards
          /\ <<n, "fill">> \in Hub!Ops /\ <<n, "prepare">> \in Hub!Ops
      BY DEF Hub!Cards, Hub!Ops, Hub!Kinds
    <3>2. /\ card[<<n, "field">>] # "none" => op[<<n, "fill">>] # "none"
          /\ card[<<n, "auth">>] # "none" => op[<<n, "prepare">>] # "none"
      BY DEF LedgerInv, CardsOK
    <3>3. CASE <<n, "field">> = i /\ o[2] # "commit"
      <4>1. o = <<n, "fill">>
        BY <1>0, <3>3 DEF Hub!CardKind, Hub!Kinds
      <4>2. <<n, "auth">> # i
        BY <3>3
      <4> QED BY <1>4, <1>5, <3>1, <3>2, <4>1, <4>2
    <3>4. CASE <<n, "auth">> = i /\ o[2] # "commit"
      <4>1. o = <<n, "prepare">>
        BY <1>0, <3>4 DEF Hub!CardKind, Hub!Kinds
      <4>2. <<n, "field">> # i
        BY <3>4
      <4> QED BY <1>4, <1>5, <3>1, <3>2, <4>1, <4>2
    <3>5. CASE o[2] = "commit" \/ (<<n, "field">> # i /\ <<n, "auth">> # i)
      <4> HIDE DEF i
      <4> QED BY <1>4, <1>5, <3>1, <3>2, <3>5
    <3> QED BY <3>3, <3>4, <3>5
  <2> QED BY <2>1, <2>2 DEF CardsOK
<1> DEFINE k == [call[c] EXCEPT !.at = IF Hub!Refused(o) THEN "return" ELSE "apply", !.op = o,
                                !.locked = TRUE]
<1>8. k \in HubCalls /\ call' = [call EXCEPT ![c] = k] /\ CallIsTyped(k, op', card')
  <2>1. call[c] \in HubCalls /\ call' = [call EXCEPT ![c] = k]
    BY DEF LedgerInv, Hub!Invoke
  <2>2. k \in HubCalls /\ k.op = o /\ k.at \in {"return", "apply"}
    BY <1>0, <2>1 DEF HubCalls
  <2> HIDE DEF k
  <2> QED BY <1>4, <2>1, <2>2 DEF CallIsTyped
<1>9. call' \in [Callers -> HubCalls] /\ \A d \in Callers : CallIsTyped(call'[d], op', card')
  <2>1. \A q \in Hub!Items \X Hub!Kinds : op[q] # "none" => op'[q] # "none"
    BY <1>4, OpParts
  <2>2. \A j \in Hub!Cards : card[j] \in {"declined", "expired", "superseded"}
                                => card'[j] = card[j]
    BY <1>5, <1>6
  <2> HIDE DEF k, i
  <2> QED BY <1>8, <2>1, <2>2, CallGoesTo
<1> QED BY <1>4, <1>5, <1>7, <1>9 DEF LedgerInv, RestIsQueued

\* The answer of an operation is carried through the batch.
LEMMA ServeTypes ==
    ASSUME Hub!HubAssumption, LedgerInv, NEW c \in Callers,
           Hub!ReadBatch(c) \/ Hub!Observe(c) \/ Hub!Return(c)
    PROVE  LedgerInv'
<1>0. /\ call[c] \in HubCalls /\ CallIsTyped(call[c], op, card) /\ ordinal \in 0..N
      /\ UNCHANGED <<batch, ordinal, item, op, card, crashes>>
  BY DEF LedgerInv, Hub!ReadBatch, Hub!Observe, Hub!Return, Hub!Items, Hub!HubAssumption
<1>1. call[c].op \in Hub!Items \X Hub!Kinds /\ op[call[c].op] # "none"
  BY <1>0 DEF CallIsTyped, Hub!ReadBatch, Hub!Observe, Hub!Return
<1>2. \E at \in {"record", "next", "return", "settle"}, n \in 0..N :
         call' \in {[call EXCEPT ![c] = [call[c] EXCEPT !.at = at, !.seen = n]],
                    [call EXCEPT ![c] = Hub!Idle]}
  <2>1. CASE Hub!ReadBatch(c)
    BY <1>0, <2>1 DEF Hub!ReadBatch
  <2>2. CASE Hub!Observe(c)
    <3>1. PICK at \in {"return", "settle"} : call' = [call EXCEPT ![c].at = at]
      BY <2>2 DEF Hub!Observe
    <3>2. [call[c] EXCEPT !.at = at] = [call[c] EXCEPT !.at = at, !.seen = call[c].seen]
          /\ call[c].seen \in 0..N
      BY <1>0 DEF HubCalls
    <3>3. call' = [call EXCEPT ![c] = [call[c] EXCEPT !.at = at, !.seen = call[c].seen]]
      BY <3>1, <3>2
    <3> QED BY <3>2, <3>3
  <2>3. CASE Hub!Return(c)
    BY <1>0, <2>3 DEF Hub!Return
  <2> QED BY <2>1, <2>2, <2>3
<1>3. PICK k \in HubCalls : call' = [call EXCEPT ![c] = k] /\ CallIsTyped(k, op', card')
  <2>1. PICK at \in {"record", "next", "return", "settle"}, n \in 0..N :
           call' \in {[call EXCEPT ![c] = [call[c] EXCEPT !.at = at, !.seen = n]],
                      [call EXCEPT ![c] = Hub!Idle]}
    BY <1>2
  <2> DEFINE k == [call[c] EXCEPT !.at = at, !.seen = n]
  <2>2. k \in HubCalls /\ k.at = at /\ k.op = call[c].op
    BY <1>0 DEF HubCalls
  <2> HIDE DEF k
  <2>3. CallIsTyped(k, op', card') /\ CallIsTyped(Hub!Idle, op', card')
    BY <1>0, <1>1, <2>2, IdleIsACall DEF CallIsTyped
  <2> QED BY <2>1, <2>2, <2>3, IdleIsACall DEF k
<1>4. call' \in [Callers -> HubCalls] /\ \A d \in Callers : CallIsTyped(call'[d], op', card')
  BY <1>0, <1>3, CallGoesTo
<1>5. /\ task' \in HubTasks /\ known' \subseteq Hub!Ops
      /\ link' \in [Hub!Cards -> CardStates] /\ CardsOK(link', op', card')
  <2>1. CASE UNCHANGED <<known, task, link>>
    BY <1>0, <2>1 DEF LedgerInv
  <2>2. CASE Hub!Observed(call[c].op)
    BY <1>0, <1>1, <2>2, ObservedKeeps
  <2> QED BY <2>1, <2>2 DEF Hub!ReadBatch, Hub!Observe, Hub!Return
<1> QED BY <1>0, <1>4, <1>5 DEF LedgerInv, RestIsQueued

\* The batch changes, with the operations and cards as they are.
LEMMA BatchMoves ==
    ASSUME LedgerInv, NEW c \in Callers, NEW k \in HubCalls, CallIsTyped(k, op, card),
           call' = [call EXCEPT ![c] = k],
           UNCHANGED <<op, card, link, known, crashes>>,
           task' \in HubTasks, batch' \in Hub!BATCH_STATES \cup {"none"},
           batch' = "none" => ordinal' = 1,
           ordinal' \in Hub!Items, item' \in [Hub!Items -> ItemRows], RestIsQueued'
    PROVE  LedgerInv'
<1>1. call' \in [Callers -> HubCalls] /\ \A d \in Callers : CallIsTyped(call'[d], op', card')
  BY CallGoesTo
<1> QED BY <1>1 DEF LedgerInv

LEMMA RecordTypes ==
    ASSUME Hub!HubAssumption, LedgerInv, NEW c \in Callers, Hub!RecordActivity(c)
    PROVE  LedgerInv'
<1> DEFINE o == call[c].op
           i == Hub!CardOf(o)
           n == IF batch \in Hub!ACTIVE_BATCH_STATES THEN ordinal ELSE call[c].seen
           k == [call[c] EXCEPT !.at = "observe", !.seen = n]
<1>0. /\ call[c] \in HubCalls /\ CallIsTyped(call[c], op, card) /\ ordinal \in 0..N
      /\ call' = [call EXCEPT ![c] = k]
      /\ UNCHANGED <<ordinal, op, card, link, known, crashes>>
  BY DEF LedgerInv, Hub!RecordActivity, Hub!Items, Hub!HubAssumption
<1>1. o \in Hub!Items \X Hub!Kinds /\ op[o] # "none" /\ o \in Hub!Ops
  <2>1. o \in Hub!Items \X Hub!Kinds /\ op[o] # "none"
    BY <1>0 DEF CallIsTyped, Hub!RecordActivity
  <2> QED BY <2>1, OpParts
<1>2. k \in HubCalls /\ CallIsTyped(k, op, card)
  <2>1. n \in 0..N
    BY <1>0 DEF HubCalls
  <2> HIDE DEF n
  <2>2. k \in HubCalls /\ k.at = "observe" /\ k.op = o
    BY <1>0, <2>1 DEF HubCalls
  <2> HIDE DEF k
  <2> QED BY <1>1, <2>2 DEF CallIsTyped
<1>3. i \in Hub!Cards \cup {Hub!None}
  BY <1>1, SaysOfTask
<1> HIDE DEF k, n
<1>4. CASE UNCHANGED <<item, batch, task>>
  BY <1>0, <1>2, <1>4, BatchMoves DEF LedgerInv, RestIsQueued
<1>5. CASE ~UNCHANGED <<item, batch, task>>
  <2> DEFINE waiting == IF i = Hub!None THEN "preparing" ELSE "waiting_user"
             b == IF i = Hub!None THEN "running" ELSE "waiting_user"
             x == [state |-> waiting, op |-> o, card |-> Hub!Coalesce(i, item[ordinal].card)]
  <2>1. /\ item' = [item EXCEPT ![ordinal] = x] /\ batch' = b
        /\ task' = Hub!BatchTask(b, o, i) /\ batch \in Hub!ACTIVE_BATCH_STATES
    BY <1>5 DEF Hub!RecordActivity
  <2>2. b \in Hub!BATCH_STATES /\ b # "none"
    BY DEF Hub!BATCH_STATES, Hub!ACTIVE_BATCH_STATES
  <2>3. x \in ItemRows
    <3>1. Hub!Coalesce(i, item[ordinal].card) \in Hub!Cards \cup {Hub!None}
      BY <1>3, CoalesceTypes DEF LedgerInv, ItemRows
    <3> QED BY <1>1, <3>1 DEF ItemRows, Hub!BATCH_ITEM_STATES
  <2> HIDE DEF x, b
  <2>4. task' \in HubTasks
    BY <1>1, <1>3, <2>1, <2>2, BatchSaysOfTask
  <2>5. item' \in [Hub!Items -> ItemRows] /\ RestIsQueued'
    BY <1>0, <2>1, <2>3 DEF LedgerInv, RestIsQueued, Hub!Items
  <2> HIDE DEF o, i
  <2> QED BY <1>0, <1>2, <2>1, <2>2, <2>4, <2>5, BatchMoves DEF LedgerInv
<1> QED BY <1>4, <1>5

\* fail_current_batch_item.
LEMMA FailItemTypes ==
    ASSUME LedgerInv, NEW n, NEW o \in Hub!Ops \cup {Hub!None},
           NEW s \in {"outcome_unknown", "failed", "canceled", "expired", "superseded"},
           Hub!FailItem(n, o, s), UNCHANGED ordinal
    PROVE  /\ task' \in HubTasks /\ batch' \in Hub!BATCH_STATES \cup {"none"}
           /\ batch' = "none" => batch = "none"
           /\ item' \in [Hub!Items -> ItemRows] /\ RestIsQueued'
<1>1. CASE UNCHANGED <<item, batch, task>>
  BY <1>1 DEF LedgerInv, RestIsQueued
<1>2. CASE ~UNCHANGED <<item, batch, task>>
  <2> DEFINE b == Hub!BatchFailureStatus(s, Hub!AnySucceeded)
             x == [item[n] EXCEPT !.state = s, !.op = Hub!Coalesce(o, item[n].op)]
  <2>1. /\ batch \in Hub!ACTIVE_BATCH_STATES /\ n = ordinal
        /\ item' = [item EXCEPT ![n] = x] /\ batch' = b
        /\ task' = Hub!BatchTask(b, o, Hub!None)
    BY <1>2 DEF Hub!FailItem
  <2>2. b \in Hub!BATCH_STATES /\ b # "none" /\ b \notin Hub!ACTIVE_BATCH_STATES
    BY DEF Hub!BatchFailureStatus, Hub!BATCH_STATES, Hub!ACTIVE_BATCH_STATES
  <2>3. x \in ItemRows
    <3>1. item[n] \in ItemRows
      BY <2>1 DEF LedgerInv
    <3>2. Hub!Coalesce(o, item[n].op) \in Hub!Ops \cup {Hub!None}
      BY <3>1, CoalesceTypes DEF ItemRows
    <3> QED BY <3>1, <3>2 DEF ItemRows, Hub!BATCH_ITEM_STATES
  <2> HIDE DEF x, b
  <2>4. task' \in HubTasks
    BY <2>1, <2>2, BatchSaysOfTask
  <2> QED BY <2>1, <2>2, <2>3, <2>4 DEF LedgerInv, RestIsQueued
<1> QED BY <1>1, <1>2

LEMMA FailuresTypes ==
    ASSUME Hub!HubAssumption, LedgerInv, NEW c \in Callers,
           Hub!SettleFailure(c) \/ Hub!PollFails(c)
    PROVE  LedgerInv'
<1>0. /\ call[c] \in HubCalls /\ CallIsTyped(call[c], op, card)
      /\ UNCHANGED <<ordinal, op, card, link, known, crashes>>
  BY DEF LedgerInv, Hub!SettleFailure, Hub!PollFails
<1>1. /\ task' \in HubTasks /\ batch' \in Hub!BATCH_STATES \cup {"none"}
      /\ batch' = "none" => batch = "none"
      /\ item' \in [Hub!Items -> ItemRows] /\ RestIsQueued'
  <2>1. CASE UNCHANGED <<item, batch, task>>
    BY <1>0, <2>1 DEF LedgerInv, RestIsQueued
  <2>2. CASE Hub!SettleFailure(c)
    <3>1. call[c].op \in Hub!Ops
      BY <1>0, <2>2, OpParts DEF CallIsTyped, Hub!SettleFailure
    <3>2. PICK s \in {"outcome_unknown", "failed"} : Hub!FailItem(call[c].seen, call[c].op, s)
      BY <2>2 DEF Hub!SettleFailure
    <3> QED BY <1>0, <3>1, <3>2, FailItemTypes
  <2>3. CASE Hub!PollFails(c) /\ ~UNCHANGED <<item, batch, task>>
    <3>1. card[call[c].op] \in {"declined", "expired", "superseded"}
      BY <1>0, <2>3 DEF CallIsTyped, Hub!PollFails
    <3>2. PICK s \in {"canceled", "expired", "superseded"} : Hub!FailItem(ordinal, Hub!None, s)
      BY <2>3, <3>1 DEF Hub!PollFails
    <3> QED BY <1>0, <3>2, FailItemTypes
  <2> QED BY <2>1, <2>2, <2>3
<1>2. PICK k \in HubCalls : call' = [call EXCEPT ![c] = k] /\ CallIsTyped(k, op, card)
  <2>1. CASE Hub!SettleFailure(c)
    <3> DEFINE k == [call[c] EXCEPT !.at = "return"]
    <3>1. call[c].op \in Hub!Items \X Hub!Kinds /\ op[call[c].op] # "none"
      BY <1>0, <2>1 DEF CallIsTyped, Hub!SettleFailure
    <3>2. call' = [call EXCEPT ![c] = k] /\ k \in HubCalls /\ k.at = "return" /\ k.op = call[c].op
      BY <1>0, <2>1 DEF HubCalls, Hub!SettleFailure
    <3> HIDE DEF k
    <3> QED BY <3>1, <3>2 DEF CallIsTyped
  <2>2. CASE Hub!PollFails(c)
    BY <2>2, IdleIsACall DEF Hub!PollFails, CallIsTyped
  <2> QED BY <2>1, <2>2
<1> QED BY <1>0, <1>1, <1>2, BatchMoves DEF LedgerInv

\* complete_current_batch_item: the next item is the one behind it.
LEMMA SuccessTypes ==
    ASSUME Hub!HubAssumption, LedgerInv, NEW c \in Callers, Hub!SettleSuccess(c)
    PROVE  LedgerInv'
<1> DEFINE o == call[c].op
           n == call[c].seen
           queued == {m \in Hub!Items : m > n /\ item[m].state = "queued"}
           next == CHOOSE m \in queued : \A q \in queued : m <= q
<1>0. /\ call[c] \in HubCalls /\ CallIsTyped(call[c], op, card)
      /\ UNCHANGED <<op, card, link, known, crashes>>
      /\ Hub!CompleteItem(n, o)
  BY DEF LedgerInv, Hub!SettleSuccess
<1>1. o \in Hub!Items \X Hub!Kinds /\ op[o] # "none" /\ o \in Hub!Ops
  <2>1. o \in Hub!Items \X Hub!Kinds /\ op[o] # "none"
    BY <1>0 DEF CallIsTyped, Hub!SettleSuccess
  <2> QED BY <2>1, OpParts
<1>2. PICK k \in HubCalls : call' = [call EXCEPT ![c] = k] /\ CallIsTyped(k, op, card)
  <2>1. PICK at \in {"next", "return"} :
           call' \in {[call EXCEPT ![c] = Hub!Idle],
                      [call EXCEPT ![c] = [call[c] EXCEPT !.at = at]]}
    BY DEF Hub!SettleSuccess
  <2> DEFINE k == [call[c] EXCEPT !.at = at]
  <2>2. k \in HubCalls /\ k.at = at /\ k.op = o
    BY <1>0 DEF HubCalls
  <2> HIDE DEF k
  <2>3. CallIsTyped(k, op, card) /\ CallIsTyped(Hub!Idle, op, card)
    BY <1>1, <2>2, IdleIsACall DEF CallIsTyped
  <2> QED BY <2>1, <2>2, <2>3, IdleIsACall DEF k
<1>3. CASE UNCHANGED <<batch, ordinal, item, task>>
  BY <1>0, <1>2, <1>3, BatchMoves DEF LedgerInv, RestIsQueued
<1>4. CASE ~UNCHANGED <<batch, ordinal, item, task>>
  <2>1. /\ batch \in Hub!ACTIVE_BATCH_STATES /\ n = ordinal
        /\ batch' = IF queued = {} THEN "succeeded" ELSE "running"
        /\ ordinal' = IF queued = {} THEN n ELSE next
        /\ item' = [m \in Hub!Items |->
              CASE m = n -> [item[m] EXCEPT !.state = "succeeded", !.op = o]
                [] m # n /\ queued # {} /\ m = next -> [item[m] EXCEPT !.state = "preparing"]
                [] OTHER -> item[m]]
        /\ task' = Hub!BatchTask(batch', o, Hub!None)
    BY <1>0, <1>4 DEF Hub!CompleteItem
  <2>2. n \in Nat /\ N \in Nat /\ n \in 1..N
    <3>1. n \in 1..N
      BY <2>1 DEF LedgerInv, Hub!Items
    <3> HIDE DEF n
    <3> QED BY <3>1 DEF Hub!HubAssumption
  <2>12. ordinal' = IF queued = {} THEN n ELSE next
    BY <2>1
  <2>3. queued = {m \in 1..N : m > n}
    <3>1. \A m \in Hub!Items : m > n => item[m].state = "queued"
      BY <2>1 DEF LedgerInv, RestIsQueued
    <3> QED BY <3>1 DEF Hub!Items
  <2>4. queued # {} => next = n + 1 /\ n + 1 \in 1..N
    <3>1. SUFFICES ASSUME queued # {} PROVE next = n + 1 /\ n + 1 \in 1..N
      OBVIOUS
    <3>2. n + 1 \in queued /\ \A q \in queued : n + 1 <= q
      BY <2>2, <2>3, <3>1
    <3>3. next \in queued /\ \A q \in queued : next <= q
      BY <3>2
    <3>4. next <= n + 1 /\ n + 1 <= next
      BY <3>2, <3>3
    <3>5. next \in Nat
      <4>1. next \in 1..N
        BY <2>3, <3>3
      <4> HIDE DEF next
      <4> QED BY <2>2, <4>1
    <3> HIDE DEF next
    <3> QED BY <2>2, <2>3, <3>2, <3>4, <3>5
  <2>5. ordinal' \in Hub!Items /\ ordinal' >= n /\ ordinal' \in Nat
    <3> HIDE DEF next, queued, n
    <3> QED BY <2>2, <2>4, <2>12 DEF Hub!Items
  <2>6. batch' \in {"succeeded", "running"} /\ batch' \in Hub!BATCH_STATES
    BY <2>1 DEF Hub!BATCH_STATES, Hub!ACTIVE_BATCH_STATES
  <2>7. task' \in HubTasks
    BY <1>1, <2>1, <2>6, BatchSaysOfTask
  <2>8. ASSUME NEW m \in Hub!Items
        PROVE  /\ item'[m] \in ItemRows
               /\ m # n /\ (queued = {} \/ m # next) => item'[m] = item[m]
    <3>1. item[m] \in ItemRows
      BY DEF LedgerInv
    <3>2. item'[m] = CASE m = n -> [item[m] EXCEPT !.state = "succeeded", !.op = o]
                       [] m # n /\ queued # {} /\ m = next -> [item[m] EXCEPT !.state = "preparing"]
                       [] OTHER -> item[m]
      BY <2>1
    <3> HIDE DEF next, queued, n, o
    <3> QED BY <1>1, <3>1, <3>2 DEF ItemRows, Hub!BATCH_ITEM_STATES
  <2>9. item' \in [Hub!Items -> ItemRows]
    <3>1. item' = [m \in Hub!Items |-> item'[m]]
      BY <2>1
    <3> QED BY <2>8, <3>1
  <2>10. RestIsQueued'
    <3>1. SUFFICES ASSUME NEW m \in Hub!Items, m > ordinal' PROVE item'[m].state = "queued"
      BY DEF RestIsQueued
    <3>2. m \in Nat /\ m > n
      BY <2>2, <2>5, <3>1 DEF Hub!Items
    <3>3. queued = {} \/ m # next
      <4> HIDE DEF next, queued, n
      <4> QED BY <2>5, <2>12, <3>1, <3>2
    <3>4. item'[m] = item[m]
      BY <2>2, <2>8, <3>2, <3>3
    <3> QED BY <2>1, <3>2, <3>4 DEF LedgerInv, RestIsQueued
  <2>11. batch' # "none"
    BY <2>6
  <2> HIDE DEF next, queued, n, o
  <2> QED BY <1>0, <1>2, <2>5, <2>6, <2>7, <2>9, <2>10, <2>11, BatchMoves
<1> QED BY <1>3, <1>4

\* Calls that begin.
LEMMA StartsTypes ==
    ASSUME Hub!HubAssumption, LedgerInv, NEW c \in Callers,
           \/ Hub!CallBatchTool(c) \/ Hub!NextItem(c)
           \/ \E i \in Hub!Cards : Hub!Resume(c, i) \/ Hub!Poll(c, i)
           \/ \E n \in Hub!Items : Hub!ResumeAgain(c, n)
    PROVE  LedgerInv'
<1>1. CASE Hub!NextItem(c)
  <2>1. <<ordinal, "fill">> \in Hub!Items \X Hub!Kinds
    BY DEF LedgerInv, Hub!Kinds
  <2> QED BY <1>1, <2>1, InvokeTypes DEF Hub!NextItem
<1>2. CASE \E i \in Hub!Cards : Hub!Resume(c, i)
  <2>1. PICK i \in Hub!Cards : Hub!Resume(c, i)
    BY <1>2
  <2> DEFINE o == <<i[1], IF i[2] = "field" THEN "prepare" ELSE "commit">>
  <2>2. o \in Hub!Items \X Hub!Kinds
    BY DEF Hub!Cards, Hub!Kinds
  <2> HIDE DEF o
  <2>3. Hub!Invoke(c, o) /\ UNCHANGED <<task, batch, ordinal, item, link, known, crashes>>
    BY <2>1 DEF o, Hub!Resume
  <2> QED BY <2>2, <2>3, InvokeTypes
<1>3. CASE Hub!CallBatchTool(c)
  <2> DEFINE k == [Hub!Idle EXCEPT !.at = "next", !.locked = TRUE]
  <2>1. k \in HubCalls /\ k.at = "next"
    BY IdleIsACall DEF HubCalls
  <2>2. call' = [call EXCEPT ![c] = k] /\ UNCHANGED <<item, op, card, link, known, crashes>>
    BY <1>3 DEF Hub!CallBatchTool
  <2> HIDE DEF k
  <2>3. CallIsTyped(k, op, card)
    BY <2>1 DEF CallIsTyped
  <2>4. CASE UNCHANGED <<batch, ordinal, task>>
    BY <2>1, <2>2, <2>3, <2>4, BatchMoves DEF LedgerInv, RestIsQueued
  <2>5. CASE ~UNCHANGED <<batch, ordinal, task>>
    <3>1. batch = "none" /\ batch' = "running" /\ ordinal' = 1
          /\ task' = [task EXCEPT !.status = "running"]
      BY <1>3, <2>5 DEF Hub!CallBatchTool
    <3>2. task' \in HubTasks
      BY <3>1 DEF LedgerInv, HubTasks, HubStatuses, Hub!ACTIVE_TASK_STATUSES
    <3>3. ordinal = 1 /\ ordinal' \in Hub!Items /\ batch' \in Hub!BATCH_STATES
      BY <3>1 DEF LedgerInv, Hub!BATCH_STATES, Hub!ACTIVE_BATCH_STATES
    <3>4. RestIsQueued'
      BY <2>2, <3>1, <3>3 DEF LedgerInv, RestIsQueued
    <3> QED BY <2>1, <2>2, <2>3, <3>1, <3>2, <3>3, <3>4, BatchMoves DEF LedgerInv
  <2> QED BY <2>4, <2>5
<1>4. CASE \E n \in Hub!Items : Hub!ResumeAgain(c, n)
  <2>1. PICK n \in Hub!Items : Hub!ResumeAgain(c, n)
    BY <1>4
  <2> DEFINE o == <<n, "commit">>
             k == [Hub!Idle EXCEPT !.at = "apply", !.op = o, !.observes = FALSE]
  <2>2. o \in Hub!Items \X Hub!Kinds /\ o \in Hub!Ops /\ op[o] # "none"
    BY <2>1 DEF Hub!Kinds, Hub!Ops, Hub!ResumeAgain
  <2> HIDE DEF o
  <2>3. k \in HubCalls /\ k.at = "apply" /\ k.op = o
    BY <2>2, IdleIsACall DEF HubCalls
  <2>4. call' = [call EXCEPT ![c] = k]
        /\ UNCHANGED <<task, batch, ordinal, item, op, card, link, known, crashes>>
    BY <2>1 DEF o, Hub!ResumeAgain
  <2> HIDE DEF k
  <2>5. CallIsTyped(k, op, card)
    BY <2>2, <2>3 DEF CallIsTyped
  <2> QED BY <2>3, <2>4, <2>5, BatchMoves DEF LedgerInv, RestIsQueued
<1>5. CASE \E i \in Hub!Cards : Hub!Poll(c, i)
  <2>1. PICK i \in Hub!Cards : Hub!Poll(c, i)
    BY <1>5
  <2>2. /\ link' = [link EXCEPT ![i] = card[i]]
        /\ task' = Hub!InteractionObservation(task, i)
        /\ UNCHANGED <<batch, ordinal, item, op, card, known, crashes>>
    BY <2>1 DEF Hub!Poll
  <2>3. task' \in HubTasks
    BY <2>2, CardSaysOfTask DEF LedgerInv
  <2>4. link' \in [Hub!Cards -> CardStates] /\ CardsOK(link', op', card')
    BY <2>2 DEF LedgerInv, CardsOK
  <2> DEFINE k == [Hub!Idle EXCEPT !.at = "poll", !.op = i]
  <2>5. k \in HubCalls /\ k.at = "poll" /\ k.op = i
    BY IdleIsACall DEF HubCalls
  <2>6. CASE UNCHANGED call
    BY <2>2, <2>3, <2>4, <2>6 DEF LedgerInv, RestIsQueued
  <2>7. CASE ~UNCHANGED call
    <3>1. card[i] \in {"declined", "expired", "superseded"} /\ call' = [call EXCEPT ![c] = k]
      BY <2>1, <2>7 DEF Hub!Poll
    <3> HIDE DEF k
    <3>2. CallIsTyped(k, op', card')
      BY <2>2, <2>5, <3>1 DEF CallIsTyped
    <3>3. call' \in [Callers -> HubCalls] /\ \A d \in Callers : CallIsTyped(call'[d], op', card')
      BY <2>2, <2>5, <3>1, <3>2, CallGoesTo
    <3> QED BY <2>2, <2>3, <2>4, <3>3 DEF LedgerInv, RestIsQueued
  <2> QED BY <2>6, <2>7
<1> QED BY <1>1, <1>2, <1>3, <1>4, <1>5

\* Steps of the user, of the hosts and of the service that no call makes.
LEMMA OutsideTypes ==
    ASSUME Hub!HubAssumption, LedgerInv,
           \/ \E i \in Hub!Cards, s \in Hub!CARD_STATES : Hub!Answer(i, s)
           \/ Hub!Cancel \/ Hub!RecoverHostTasks
           \/ \E s \in {"succeeded", "failed"} : Hub!FinishHostTask(s)
           \/ Hub!ExpireShells \/ Hub!Restart \/ Hub!InvokeRead
    PROVE  LedgerInv'
<1>1. CASE \E i \in Hub!Cards, s \in Hub!CARD_STATES : Hub!Answer(i, s)
  <2>1. PICK i \in Hub!Cards, s \in Hub!CARD_STATES : Hub!Answer(i, s)
    BY <1>1
  <2>2. /\ card[i] = "pending" /\ s # "none" /\ card' = [card EXCEPT ![i] = s]
        /\ UNCHANGED <<task, batch, ordinal, item, op, link, known, call, crashes>>
    BY <2>1 DEF Hub!Answer
  <2>3. card' \in [Hub!Cards -> CardStates]
        /\ \A j \in Hub!Cards : card'[j] = card[j] \/ (card[j] = "pending" /\ card'[j] # "none")
    BY <2>2 DEF LedgerInv, CardStates
  <2>4. CardsOK(link', op', card')
    <3>1. \A n \in Hub!Items : <<n, "field">> \in Hub!Cards /\ <<n, "auth">> \in Hub!Cards
      BY DEF Hub!Cards
    <3> QED BY <2>2, <2>3, <3>1 DEF LedgerInv, CardsOK
  <2>5. \A c \in Callers : CallIsTyped(call'[c], op', card')
    BY <2>2, <2>3 DEF LedgerInv, CallIsTyped
  <2> QED BY <2>2, <2>3, <2>4, <2>5 DEF LedgerInv, RestIsQueued
<1>2. CASE Hub!Cancel
  <2> DEFINE i == task.card
  <2>1. /\ i # Hub!None /\ card[i] = "pending"
        /\ card' = [card EXCEPT ![i] = "superseded"]
        /\ task' = [task EXCEPT !.status = "canceled"] /\ batch' = "canceled"
        /\ UNCHANGED <<ordinal, op, link, known, call, crashes>>
    BY <1>2 DEF Hub!Cancel
  <2>2. i \in Hub!Cards
    BY <2>1 DEF LedgerInv, HubTasks
  <2>3. card' \in [Hub!Cards -> CardStates]
        /\ \A j \in Hub!Cards : card'[j] = card[j] \/ (card[j] = "pending" /\ card'[j] # "none")
    BY <2>1, <2>2 DEF LedgerInv, CardStates, Hub!CARD_STATES
  <2>4. CardsOK(link', op', card')
    <3>1. \A n \in Hub!Items : <<n, "field">> \in Hub!Cards /\ <<n, "auth">> \in Hub!Cards
      BY DEF Hub!Cards
    <3> QED BY <2>1, <2>3, <3>1 DEF LedgerInv, CardsOK
  <2>5. \A c \in Callers : CallIsTyped(call'[c], op', card')
    BY <2>1, <2>3 DEF LedgerInv, CallIsTyped
  <2>6. task' \in HubTasks
    BY <2>1 DEF LedgerInv, HubTasks, HubStatuses, Hub!TERMINAL_TASK_STATUSES
  <2>7. item' \in [Hub!Items -> ItemRows]
    <3>1. item' = [n \in Hub!Items |->
             IF item[n].state \in {"queued", "preparing", "waiting_user"}
             THEN [item[n] EXCEPT !.state = "canceled"] ELSE item[n]]
      BY <1>2 DEF Hub!Cancel
    <3> QED BY <3>1 DEF LedgerInv, ItemRows, Hub!BATCH_ITEM_STATES
  <2>8. batch' \in Hub!BATCH_STATES /\ batch' \notin Hub!ACTIVE_BATCH_STATES /\ batch' # "none"
    BY <2>1 DEF Hub!BATCH_STATES, Hub!ACTIVE_BATCH_STATES
  <2> HIDE DEF i
  <2> QED BY <2>1, <2>3, <2>4, <2>5, <2>6, <2>7, <2>8 DEF LedgerInv, RestIsQueued
<1>3. CASE Hub!RecoverHostTasks
  <2> DEFINE i == task.card
  <2>1. /\ i # Hub!None /\ link' = [link EXCEPT ![i] = card[i]]
        /\ task' = Hub!InteractionObservation(task, i)
        /\ UNCHANGED <<batch, ordinal, item, op, card, known, call, crashes>>
    BY <1>3 DEF Hub!RecoverHostTasks
  <2>2. i \in Hub!Cards
    BY <2>1 DEF LedgerInv, HubTasks
  <2>3. task' \in HubTasks
    BY <2>1, <2>2, CardSaysOfTask DEF LedgerInv
  <2> HIDE DEF i
  <2>4. link' \in [Hub!Cards -> CardStates] /\ CardsOK(link', op', card')
    BY <2>1, <2>2 DEF LedgerInv, CardsOK
  <2> QED BY <2>1, <2>3, <2>4 DEF LedgerInv, RestIsQueued
<1>4. CASE (\E s \in {"succeeded", "failed"} : Hub!FinishHostTask(s)) \/ Hub!ExpireShells
  <2>1. /\ \E s \in {"succeeded", "failed", "expired"} : task' = [task EXCEPT !.status = s]
        /\ UNCHANGED <<batch, ordinal, item, op, card, link, known, call, crashes>>
    BY <1>4 DEF Hub!FinishHostTask, Hub!ExpireShells
  <2>2. task' \in HubTasks
    BY <2>1 DEF LedgerInv, HubTasks, HubStatuses, Hub!TERMINAL_TASK_STATUSES
  <2> QED BY <2>1, <2>2 DEF LedgerInv, RestIsQueued
<1>5. CASE Hub!Restart
  <2>1. /\ call' = [c \in Callers |-> Hub!Idle] /\ task' = Hub!Repair(task)
        /\ crashes < MaxCrashes /\ crashes' = crashes + 1
        /\ UNCHANGED <<batch, ordinal, item, op, card, link, known>>
    BY <1>5 DEF Hub!Restart
  <2>2. task' \in HubTasks
    BY <2>1 DEF LedgerInv, HubTasks, HubStatuses, Hub!TERMINAL_TASK_STATUSES, Hub!Repair
  <2>3. call' \in [Callers -> HubCalls] /\ \A c \in Callers : CallIsTyped(call'[c], op', card')
    BY <2>1, IdleIsACall DEF CallIsTyped
  <2>4. crashes' \in 0..MaxCrashes
    <3>1. crashes \in 0..MaxCrashes
      BY DEF LedgerInv
    <3> QED BY <2>1, <3>1 DEF Hub!HubAssumption
  <2> QED BY <2>1, <2>2, <2>3, <2>4 DEF LedgerInv, RestIsQueued
<1>6. CASE Hub!InvokeRead
  <2> DEFINE o == <<0, "read">>
  <2>1. PICK s \in Hub!OP_STATES \ {"unknown"} :
           /\ op' = [op EXCEPT ![o] = s]
           /\ task' = [task EXCEPT !.status = Hub!TaskStatusForOperation(s), !.op = o]
    BY <1>6 DEF Hub!InvokeRead
  <2>2. /\ known' = known \cup {o} /\ op[o] = "none"
        /\ UNCHANGED <<batch, ordinal, item, card, link, call, crashes>>
    BY <1>6 DEF Hub!InvokeRead
  <2>3. o \in Hub!Ops /\ \A q \in Hub!Items \X Hub!Kinds : q # o /\ q \in Hub!Ops
    BY DEF Hub!Ops, Hub!Kinds
  <2> HIDE DEF o
  <2>4. /\ op' \in [Hub!Ops -> Hub!OP_STATES \cup {"none"}]
        /\ \A q \in Hub!Items \X Hub!Kinds : op'[q] = op[q]
    BY <2>1, <2>3 DEF LedgerInv
  <2>5. task' \in HubTasks
    <3>1. Hub!TaskStatusForOperation(s) \in HubStatuses
      BY DEF Hub!TaskStatusForOperation, Hub!OP_STATES, HubStatuses,
         Hub!ACTIVE_TASK_STATUSES, Hub!TERMINAL_TASK_STATUSES
    <3> QED BY <2>1, <2>3, <3>1 DEF LedgerInv, HubTasks
  <2>6. CardsOK(link', op', card')
    <3>1. \A n \in Hub!Items : /\ <<n, "fill">> \in Hub!Items \X Hub!Kinds
                               /\ <<n, "prepare">> \in Hub!Items \X Hub!Kinds
      BY DEF Hub!Kinds
    <3> QED BY <2>2, <2>4, <3>1 DEF LedgerInv, CardsOK
  <2>7. \A c \in Callers : CallIsTyped(call'[c], op', card')
    BY <2>2, <2>4 DEF LedgerInv, CallIsTyped
  <2> QED BY <2>2, <2>3, <2>4, <2>5, <2>6, <2>7 DEF LedgerInv, RestIsQueued
<1> QED BY <1>1, <1>2, <1>3, <1>4, <1>5, <1>6

LEMMA LedgerInvariant ==
    ASSUME Hub!HubAssumption
    PROVE  Hub!Spec => []LedgerInv
<1>1. Hub!Init => LedgerInv
  BY LedgerInit
<1>2. ASSUME LedgerInv, [Hub!Next]_(Hub!vars) PROVE LedgerInv'
  <2>1. CASE UNCHANGED Hub!vars
    BY <1>2, <2>1 DEF Hub!vars, LedgerInv, RestIsQueued
  <2>2. ASSUME NEW c \in Callers, Hub!CallBatchTool(c) \/ Hub!Serve(c) PROVE LedgerInv'
    BY <1>2, <2>2, StartsTypes, ServeTypes, RecordTypes, FailuresTypes, SuccessTypes
       DEF Hub!Serve
  <2>3. ASSUME NEW c \in Callers, NEW i \in Hub!Cards, Hub!Resume(c, i) \/ Hub!Poll(c, i)
        PROVE  LedgerInv'
    BY <1>2, <2>3, StartsTypes
  <2>4. ASSUME NEW c \in Callers, NEW n \in Hub!Items, Hub!ResumeAgain(c, n)
        PROVE  LedgerInv'
    BY <1>2, <2>4, StartsTypes
  <2> QED BY <1>2, <2>1, <2>2, <2>3, <2>4, OutsideTypes DEF Hub!Next
<1> QED BY <1>1, <1>2, PTL DEF Hub!Spec

LEMMA HubTypesHold ==
    ASSUME Hub!HubAssumption
    PROVE  Hub!Spec => []Hub!TypeOK
BY LedgerInvariant, LedgerTypes, PTL

\* The order of the batch, for any number of calls at a time.  Before there is a batch
\* nothing of it has happened.
NotYet ==
    batch = "none" =>
        /\ \A m \in Hub!Items : item[m].state = "queued"
        /\ \A o \in Hub!Items \X Hub!Kinds : op[o] = "none"
        /\ \A c \in Callers : call[c].at = "idle"

\* While the batch is active the items before the current one are done.
DoneBefore ==
    batch \in Hub!ACTIVE_BATCH_STATES =>
        /\ \A m \in Hub!Items : m < ordinal => item[m].state = "succeeded"
        /\ item[ordinal].state # "succeeded"

\* What an item left, cards or a commit, it left after the items before it were done.
Behind ==
    \A n \in Hub!Items :
        \/ card[<<n, "field">>] # "none" \/ card[<<n, "auth">>] # "none"
        \/ op[<<n, "commit">>] # "none"
        => \A m \in Hub!Items : m < n => item[m].state = "succeeded"

\* An unknown outcome of the task is that of its batch.
UnknownIsOfBatch ==
    /\ op[<<0, "read">>] # "unknown"
    /\ task.status = "outcome_unknown" => batch = "outcome_unknown"

HubOrder == NotYet /\ DoneBefore /\ Behind /\ UnknownIsOfBatch

\* What no step does: an unknown task gets a status, an ended batch moves.
HubKeeps ==
    /\ task.status = "outcome_unknown" => task'.status = "outcome_unknown"
    /\ batch \notin Hub!ACTIVE_BATCH_STATES \cup {"none"} => batch' = batch

\* The ledger starts in order.
LEMMA OrderInit ==
    ASSUME Hub!HubAssumption, Hub!Init PROVE HubOrder
<1>1. /\ \A o \in Hub!Ops : op[o] = "none"
      /\ \A i \in Hub!Cards : card[i] = "none"
      /\ \A m \in Hub!Items : item[m].state = "queued"
      /\ \A c \in Callers : call[c].at = "idle"
      /\ batch = "none" /\ task.status = "active"
  BY IdleIsACall DEF Hub!Init
<1>2. <<0, "read">> \in Hub!Ops /\ \A o \in Hub!Items \X Hub!Kinds : o \in Hub!Ops
  BY DEF Hub!Ops
<1> QED BY <1>1, <1>2, OpsOfItems DEF HubOrder, NotYet, DoneBefore, Behind, UnknownIsOfBatch,
           Hub!ACTIVE_BATCH_STATES

\* No item is taken back, no card and no commit is new.
LEMMA StillBehind ==
    ASSUME HubOrder,
           \A m \in Hub!Items : item[m].state = "succeeded" => item'[m].state = "succeeded",
           \A i \in Hub!Cards : card[i] = "none" => card'[i] = "none",
           \A o \in Hub!Ops : op'[o] = op[o]
    PROVE  Behind'
BY OpsOfItems DEF HubOrder, Behind

\* Steps that leave the batch, its items, the operations and the cards alone.
LEMMA QuietInOrder ==
    ASSUME HubOrder, UNCHANGED <<batch, ordinal, item, op, card>>,
           batch = "none" => \A c \in Callers : call'[c].at = "idle",
           task'.status = "outcome_unknown" => batch = "outcome_unknown",
           task.status = "outcome_unknown" => task'.status = "outcome_unknown"
    PROVE  HubOrder' /\ HubKeeps
BY DEF HubOrder, NotYet, DoneBefore, Behind, UnknownIsOfBatch, HubKeeps

\* A call that runs has a batch.
LEMMA RunningHasBatch ==
    ASSUME HubOrder, NEW c \in Callers, call[c].at # "idle"
    PROVE  batch # "none"
BY DEF HubOrder, NotYet

\* An observation of a card says nothing of an unknown outcome.
LEMMA CardSaysNoUnknown ==
    ASSUME LedgerInv, NEW t \in HubTasks, NEW i \in Hub!Cards
    PROVE  Hub!InteractionObservation(t, i).status = "outcome_unknown"
               <=> t.status = "outcome_unknown"
<1>1. card[i] \in CardStates /\ (card[i] = "none" => link[i] = card[i])
  BY DEF LedgerInv, CardsOK
<1>2. ASSUME card[i] # "none" PROVE Hub!TaskStatusForInteraction(card[i]) # "outcome_unknown"
  BY <1>1, <1>2 DEF CardStates, Hub!CARD_STATES, Hub!TaskStatusForInteraction
<1>3. CASE Hub!MayUpdate(t, i) /\ link[i] # card[i]
  <2>1. t.status \in {"active", "waiting_user", "running"}
    BY <1>3 DEF Hub!MayUpdate, Hub!ACTIVE_TASK_STATUSES
  <2>2. Hub!InteractionObservation(t, i).status = Hub!TaskStatusForInteraction(card[i])
    BY <1>3 DEF Hub!InteractionObservation, HubTasks
  <2> QED BY <1>1, <1>2, <1>3, <2>1, <2>2
<1>4. CASE ~(Hub!MayUpdate(t, i) /\ link[i] # card[i])
  BY <1>4 DEF Hub!InteractionObservation
<1> QED BY <1>3, <1>4

\* An observation of an operation says of the task what its batch says.
LEMMA ObservedSays ==
    ASSUME LedgerInv, HubOrder, NEW o \in Hub!Items \X Hub!Kinds, op[o] # "none",
           batch # "none", Hub!Observed(o)
    PROVE  /\ task'.status = "outcome_unknown" => batch = "outcome_unknown"
           /\ task.status = "outcome_unknown" => task'.status = "outcome_unknown"
<1> DEFINE t == Hub!OperationObservation(task, o)
<1>1. t \in HubTasks /\ Hub!CardOf(o) \in Hub!Cards \cup {Hub!None}
  BY SaysOfTask
<1>2. Hub!OperationStatus(o) = batch
  BY DEF Hub!OperationStatus
<1>3. /\ t.status = "outcome_unknown" => batch = "outcome_unknown"
      /\ task.status = "outcome_unknown" => t.status = "outcome_unknown"
  BY <1>2 DEF Hub!OperationObservation, HubOrder, UnknownIsOfBatch, LedgerInv, HubTasks
<1>4. task' = t \/ \E i \in Hub!Cards : task' = Hub!InteractionObservation(t, i)
  BY <1>1 DEF Hub!Observed
<1> HIDE DEF t
<1> QED BY <1>1, <1>3, <1>4, CardSaysNoUnknown

\* An operation of the engine in order: its item is the current one, or it had its card.
LEMMA InvokeInOrder ==
    ASSUME LedgerInv, HubOrder, NEW c \in Callers, NEW o \in Hub!Items \X Hub!Kinds,
           Hub!Invoke(c, o), UNCHANGED <<task, batch, ordinal, item>>,
           batch # "none", o[2] = "commit" => card[<<o[1], "auth">>] # "none"
    PROVE  HubOrder' /\ HubKeeps
<1>0. o \in Hub!Ops /\ o[1] \in Hub!Items /\ o[2] \in Hub!Kinds /\ o = <<o[1], o[2]>>
  BY OpParts
<1>1. ASSUME NEW m \in Hub!Items, m < o[1], o[2] = "commit" \/ ~Hub!Refused(o)
      PROVE  item[m].state = "succeeded"
  <2>1. CASE o[2] = "commit"
    BY <1>0, <1>1, <2>1 DEF HubOrder, Behind
  <2>2. CASE o[2] # "commit"
    BY <1>1, <2>2 DEF HubOrder, DoneBefore, Hub!Refused
  <2> QED BY <2>1, <2>2
<1>2. /\ \A q \in Hub!Ops : q # o => op'[q] = op[q]
      /\ \A i \in Hub!Cards : i[1] # o[1] => card'[i] = card[i]
      /\ Hub!Refused(o) => card' = card
  <2>1. CASE Hub!Refused(o)
    BY <2>1 DEF Hub!Invoke, LedgerInv
  <2>2. CASE ~Hub!Refused(o) /\ op[o] # "none"
    BY <2>2 DEF Hub!Invoke, Hub!Execute
  <2>3. CASE ~Hub!Refused(o) /\ op[o] = "none"
    <3> DEFINE i == <<o[1], Hub!CardKind(o[2])>>
    <3>1. (\E s \in Hub!Outcomes(o) : op' = [op EXCEPT ![o] = s])
          /\ card' \in {card, [card EXCEPT ![i] = "pending"]}
      BY <2>3 DEF Hub!Invoke, Hub!Execute
    <3>2. i[1] = o[1]
      OBVIOUS
    <3> HIDE DEF i
    <3> QED BY <2>3, <3>1, <3>2 DEF LedgerInv
  <2> QED BY <2>1, <2>2, <2>3
<1>3. Behind'
  <2>1. SUFFICES ASSUME NEW n \in Hub!Items,
                        \/ card'[<<n, "field">>] # "none" \/ card'[<<n, "auth">>] # "none"
                        \/ op'[<<n, "commit">>] # "none",
                        NEW m \in Hub!Items, m < n
                 PROVE  item[m].state = "succeeded"
    BY DEF Behind
  <2>2. CASE n = o[1] /\ (o[2] = "commit" \/ ~Hub!Refused(o))
    BY <1>1, <2>1, <2>2
  <2>3. CASE n = o[1] /\ o[2] # "commit" /\ Hub!Refused(o)
    <3>1. card' = card /\ op'[<<n, "commit">>] = op[<<n, "commit">>]
      <4>1. <<n, "commit">> \in Hub!Ops /\ <<n, "commit">>[2] = "commit"
        BY OpsOfItems
      <4> QED BY <1>2, <2>3, <4>1
    <3> QED BY <2>1, <3>1 DEF HubOrder, Behind
  <2>4. CASE n # o[1]
    <3>1. /\ card'[<<n, "field">>] = card[<<n, "field">>]
          /\ card'[<<n, "auth">>] = card[<<n, "auth">>]
          /\ op'[<<n, "commit">>] = op[<<n, "commit">>]
      <4>1. /\ <<n, "field">> \in Hub!Cards /\ <<n, "field">>[1] = n
            /\ <<n, "auth">> \in Hub!Cards /\ <<n, "auth">>[1] = n
            /\ <<n, "commit">> \in Hub!Ops /\ <<n, "commit">>[1] = n
        BY OpsOfItems
      <4> QED BY <1>2, <2>4, <4>1
    <3> QED BY <2>1, <3>1 DEF HubOrder, Behind
  <2> QED BY <2>2, <2>3, <2>4
<1>4. UnknownIsOfBatch'
  <2>1. <<0, "read">> \in Hub!Ops /\ o # <<0, "read">>
    BY <1>0 DEF Hub!Ops, Hub!Kinds
  <2> QED BY <1>2, <2>1 DEF HubOrder, UnknownIsOfBatch
<1> QED BY <1>3, <1>4 DEF HubOrder, NotYet, DoneBefore, HubKeeps

\* The steps of a call that do not move the batch.
LEMMA ServeInOrder ==
    ASSUME LedgerInv, HubOrder, NEW c \in Callers,
           Hub!ReadBatch(c) \/ Hub!Observe(c) \/ Hub!Return(c)
    PROVE  HubOrder' /\ HubKeeps
<1>1. call[c].at \in {"apply", "observe", "return"} /\ CallIsTyped(call[c], op, card)
      /\ UNCHANGED <<batch, ordinal, item, op, card>>
  BY DEF LedgerInv, Hub!ReadBatch, Hub!Observe, Hub!Return
<1>2. batch # "none"
  BY <1>1, RunningHasBatch
<1>3. call[c].op \in Hub!Items \X Hub!Kinds /\ op[call[c].op] # "none"
  BY <1>1 DEF CallIsTyped
<1>4. UNCHANGED task \/ Hub!Observed(call[c].op)
  BY DEF Hub!ReadBatch, Hub!Observe, Hub!Return
<1>5. /\ task'.status = "outcome_unknown" => batch = "outcome_unknown"
      /\ task.status = "outcome_unknown" => task'.status = "outcome_unknown"
  BY <1>2, <1>3, <1>4, ObservedSays DEF HubOrder, UnknownIsOfBatch
<1> QED BY <1>1, <1>2, <1>5, QuietInOrder

\* The batch moves while it is active: the status of its task is its own.
LEMMA MovesInOrder ==
    ASSUME HubOrder, batch \in Hub!ACTIVE_BATCH_STATES, batch' # "none",
           task'.status = batch', UNCHANGED <<op, card>>,
           \A m \in Hub!Items : item[m].state = "succeeded" => item'[m].state = "succeeded",
           DoneBefore'
    PROVE  HubOrder' /\ HubKeeps
<1>1. Behind'
  BY StillBehind
<1> QED BY <1>1 DEF HubOrder, NotYet, UnknownIsOfBatch, HubKeeps, Hub!ACTIVE_BATCH_STATES

\* record_batch_item_activity works on the current item.
LEMMA RecordInOrder ==
    ASSUME LedgerInv, HubOrder, NEW c \in Callers, Hub!RecordActivity(c)
    PROVE  HubOrder' /\ HubKeeps
<1>1. call[c].at = "record" /\ UNCHANGED <<ordinal, op, card>>
  BY DEF Hub!RecordActivity
<1>2. CASE UNCHANGED <<item, batch, task>>
  <2>1. batch # "none"
    BY <1>1, RunningHasBatch
  <2> QED BY <1>1, <1>2, <2>1, QuietInOrder DEF HubOrder, UnknownIsOfBatch
<1>3. CASE ~UNCHANGED <<item, batch, task>>
  <2> DEFINE i == Hub!CardOf(call[c].op)
             x == Hub!Coalesce(i, item[ordinal].card)
  <2>1. PICK s \in {"preparing", "waiting_user"}, b \in Hub!ACTIVE_BATCH_STATES :
           /\ batch \in Hub!ACTIVE_BATCH_STATES /\ batch' = b
           /\ item' = [item EXCEPT ![ordinal] = [state |-> s, op |-> call[c].op, card |-> x]]
           /\ task' = Hub!BatchTask(b, call[c].op, i)
    BY <1>3 DEF Hub!RecordActivity, Hub!ACTIVE_BATCH_STATES
  <2> HIDE DEF x, i
  <2>2. /\ \A m \in Hub!Items : m # ordinal => item'[m] = item[m]
        /\ ordinal \in Hub!Items /\ item'[ordinal].state = s
    BY <2>1 DEF LedgerInv
  <2>3. item[ordinal].state # "succeeded" /\ DoneBefore'
    BY <1>1, <2>1, <2>2 DEF HubOrder, DoneBefore, LedgerInv, Hub!Items
  <2>4. task'.status = batch' /\ batch' # "none"
    BY <2>1 DEF Hub!BatchTask, Hub!ACTIVE_BATCH_STATES
  <2> QED BY <1>1, <2>1, <2>2, <2>3, <2>4, MovesInOrder
<1> QED BY <1>2, <1>3

\* fail_current_batch_item ends the batch.
LEMMA FailInOrder ==
    ASSUME LedgerInv, HubOrder, NEW n, NEW o, NEW s, Hub!FailItem(n, o, s),
           UNCHANGED <<ordinal, op, card>>,
           batch = "none" => \A c \in Callers : call'[c].at = "idle"
    PROVE  HubOrder' /\ HubKeeps
<1>1. CASE UNCHANGED <<item, batch, task>>
  BY <1>1, QuietInOrder DEF HubOrder, UnknownIsOfBatch
<1>2. CASE ~UNCHANGED <<item, batch, task>>
  <2> DEFINE b == Hub!BatchFailureStatus(s, Hub!AnySucceeded)
  <2>1. /\ batch \in Hub!ACTIVE_BATCH_STATES /\ n = ordinal /\ batch' = b
        /\ item' = [item EXCEPT ![n] = [item[n] EXCEPT !.state = s,
                                                       !.op = Hub!Coalesce(o, item[n].op)]]
        /\ task' = Hub!BatchTask(b, o, Hub!None)
    BY <1>2 DEF Hub!FailItem
  <2>2. b # "none" /\ b \notin Hub!ACTIVE_BATCH_STATES
    BY DEF Hub!BatchFailureStatus, Hub!ACTIVE_BATCH_STATES
  <2> HIDE DEF b
  <2>3. \A m \in Hub!Items : m # ordinal => item'[m] = item[m]
    BY <2>1 DEF LedgerInv
  <2>4. item[ordinal].state # "succeeded" /\ DoneBefore'
    BY <2>1, <2>2 DEF HubOrder, DoneBefore
  <2>5. task'.status = batch' /\ batch' # "none"
    BY <2>1, <2>2 DEF Hub!BatchTask
  <2> QED BY <2>1, <2>3, <2>4, <2>5, MovesInOrder
<1> QED BY <1>1, <1>2

LEMMA FailuresInOrder ==
    ASSUME LedgerInv, HubOrder, NEW c \in Callers, Hub!SettleFailure(c) \/ Hub!PollFails(c)
    PROVE  HubOrder' /\ HubKeeps
<1>1. call[c].at # "idle" /\ UNCHANGED <<ordinal, op, card>>
  BY DEF Hub!SettleFailure, Hub!PollFails
<1>2. batch # "none"
  BY <1>1, RunningHasBatch
<1>3. UNCHANGED <<item, batch, task>> \/ \E n, o, s : Hub!FailItem(n, o, s)
  BY DEF Hub!SettleFailure, Hub!PollFails
<1> QED BY <1>1, <1>2, <1>3, FailInOrder, QuietInOrder DEF HubOrder, UnknownIsOfBatch

\* complete_current_batch_item goes on with the item behind the one that is done.
LEMMA SuccessInOrder ==
    ASSUME Hub!HubAssumption, LedgerInv, HubOrder, NEW c \in Callers, Hub!SettleSuccess(c)
    PROVE  HubOrder' /\ HubKeeps
<1> DEFINE o == call[c].op
           n == call[c].seen
           queued == {m \in Hub!Items : m > n /\ item[m].state = "queued"}
           next == CHOOSE m \in queued : \A q \in queued : m <= q
<1>1. call[c].at = "settle" /\ UNCHANGED <<op, card>> /\ Hub!CompleteItem(n, o)
  BY DEF Hub!SettleSuccess
<1>2. CASE UNCHANGED <<batch, ordinal, item, task>>
  <2>1. batch # "none"
    BY <1>1, RunningHasBatch
  <2> QED BY <1>1, <1>2, <2>1, QuietInOrder DEF HubOrder, UnknownIsOfBatch
<1>3. CASE ~UNCHANGED <<batch, ordinal, item, task>>
  <2>1. /\ batch \in Hub!ACTIVE_BATCH_STATES /\ n = ordinal
        /\ batch' = IF queued = {} THEN "succeeded" ELSE "running"
        /\ ordinal' = IF queued = {} THEN n ELSE next
        /\ item' = [m \in Hub!Items |->
              CASE m = n -> [item[m] EXCEPT !.state = "succeeded", !.op = o]
                [] m # n /\ queued # {} /\ m = next -> [item[m] EXCEPT !.state = "preparing"]
                [] OTHER -> item[m]]
        /\ task' = Hub!BatchTask(batch', o, Hub!None)
    BY <1>1, <1>3 DEF Hub!CompleteItem
  <2>2. N \in Nat /\ n \in 1..N
    <3>1. n \in 1..N
      BY <2>1 DEF LedgerInv, Hub!Items
    <3> HIDE DEF n
    <3> QED BY <3>1 DEF Hub!HubAssumption
  <2>3. queued = {m \in 1..N : m > n}
    <3>1. \A m \in Hub!Items : m > n => item[m].state = "queued"
      BY <2>1 DEF LedgerInv, RestIsQueued
    <3> QED BY <3>1 DEF Hub!Items
  <2>4. ASSUME queued # {} PROVE next \in 1..N /\ n < next /\ \A m \in 1..N : m < next => m <= n
    <3>1. n + 1 \in queued /\ \A q \in queued : n + 1 <= q
      BY <2>2, <2>3, <2>4
    <3>2. next \in queued /\ \A q \in queued : next <= q
      BY <3>1
    <3>3. next \in 1..N /\ n < next /\ \A m \in 1..N : m > n => next <= m
      BY <2>3, <3>2
    <3> HIDE DEF next, queued, n
    <3> QED BY <2>2, <3>3
  <2>5. ASSUME NEW m \in Hub!Items
        PROVE  /\ m = n => item'[m].state = "succeeded"
               /\ m # n /\ queued # {} /\ m = next => item'[m].state = "preparing"
               /\ m # n /\ (queued = {} \/ m # next) => item'[m] = item[m]
    <3>1. item[m] \in ItemRows
      BY DEF LedgerInv
    <3>2. item'[m] = CASE m = n -> [item[m] EXCEPT !.state = "succeeded", !.op = o]
                       [] m # n /\ queued # {} /\ m = next -> [item[m] EXCEPT !.state = "preparing"]
                       [] OTHER -> item[m]
      BY <2>1
    <3> HIDE DEF next, queued, n, o
    <3> QED BY <3>1, <3>2 DEF ItemRows
  <2>6. /\ \A m \in 1..N : m < n => item[m].state = "succeeded"
        /\ \A m \in 1..N : m > n => item[m].state = "queued"
    BY <2>1 DEF HubOrder, DoneBefore, LedgerInv, RestIsQueued, Hub!Items
  <2>7. ASSUME NEW m \in Hub!Items, item[m].state = "succeeded"
        PROVE  item'[m].state = "succeeded"
    <3>1. queued # {} => item[next].state = "queued"
      BY <2>4, <2>6
    <3> HIDE DEF next, queued, n
    <3> QED BY <2>5, <2>7, <3>1
  <2>8. DoneBefore'
    <3>1. SUFFICES ASSUME queued # {}
                   PROVE  /\ \A m \in Hub!Items : m < next => item'[m].state = "succeeded"
                          /\ item'[next].state # "succeeded"
      <4>1. /\ queued = {} => batch' \notin Hub!ACTIVE_BATCH_STATES
            /\ queued # {} => ordinal' = next
        BY <2>1 DEF Hub!ACTIVE_BATCH_STATES
      <4> HIDE DEF next, queued
      <4> QED BY <4>1 DEF DoneBefore
    <3>2. next \in 1..N /\ n < next /\ \A m \in 1..N : m < next => m <= n
      BY <2>4, <3>1
    <3> HIDE DEF next, queued, n
    <3>3. next # n
      BY <2>2, <3>2
    <3>4. \A m \in 1..N : m < next => m = n \/ (m < n /\ m # next)
      BY <2>2, <3>2
    <3> QED BY <2>5, <2>6, <3>1, <3>2, <3>3, <3>4 DEF Hub!Items
  <2>9. batch' # "none" /\ task'.status = batch'
    BY <2>1 DEF Hub!BatchTask
  <2> HIDE DEF next, queued, n, o
  <2> QED BY <1>1, <2>1, <2>7, <2>8, <2>9, MovesInOrder
<1> QED BY <1>2, <1>3

\* Calls that begin.
LEMMA StartsInOrder ==
    ASSUME Hub!HubAssumption, LedgerInv, HubOrder, NEW c \in Callers,
           \/ Hub!CallBatchTool(c) \/ Hub!NextItem(c)
           \/ \E i \in Hub!Cards : Hub!Resume(c, i) \/ Hub!Poll(c, i)
           \/ \E n \in Hub!Items : Hub!ResumeAgain(c, n)
    PROVE  HubOrder' /\ HubKeeps
<1>1. CASE Hub!NextItem(c)
  <2>1. <<ordinal, "fill">> \in Hub!Items \X Hub!Kinds /\ batch # "none"
    BY <1>1, RunningHasBatch DEF LedgerInv, Hub!Kinds, Hub!NextItem
  <2>2. Hub!Invoke(c, <<ordinal, "fill">>) /\ UNCHANGED <<task, batch, ordinal, item>>
    BY <1>1 DEF Hub!NextItem
  <2> QED BY <2>1, <2>2, InvokeInOrder
<1>2. CASE \E i \in Hub!Cards : Hub!Resume(c, i)
  <2>1. PICK i \in Hub!Cards : Hub!Resume(c, i)
    BY <1>2
  <2> DEFINE o == <<i[1], IF i[2] = "field" THEN "prepare" ELSE "commit">>
  <2>2. /\ o \in Hub!Items \X Hub!Kinds /\ i = <<i[1], i[2]>> /\ i[2] \in {"field", "auth"}
        /\ o[1] = i[1] /\ i[1] \in Hub!Items
    BY DEF Hub!Cards, Hub!Kinds
  <2>3. card[i] = "completed" /\ (o[2] = "commit" => i = <<o[1], "auth">>)
    BY <2>1, <2>2 DEF Hub!Resume
  <2>4. batch # "none"
    <3>1. i[2] = "field" => op[<<i[1], "fill">>] # "none"
      BY <2>2, <2>3 DEF LedgerInv, CardsOK
    <3>2. i[2] = "auth" => op[<<i[1], "prepare">>] # "none"
      BY <2>2, <2>3 DEF LedgerInv, CardsOK
    <3>3. <<i[1], "fill">> \in Hub!Items \X Hub!Kinds /\ <<i[1], "prepare">> \in Hub!Items \X Hub!Kinds
      BY <2>2 DEF Hub!Kinds
    <3> QED BY <2>2, <3>1, <3>2, <3>3 DEF HubOrder, NotYet
  <2>5. Hub!Invoke(c, o) /\ UNCHANGED <<task, batch, ordinal, item>>
    BY <2>1 DEF Hub!Resume
  <2> HIDE DEF o
  <2> QED BY <2>2, <2>3, <2>4, <2>5, InvokeInOrder
<1>3. CASE Hub!CallBatchTool(c)
  <2>1. UNCHANGED <<item, op, card>>
    BY <1>3 DEF Hub!CallBatchTool
  <2>2. CASE batch \in Hub!ACTIVE_BATCH_STATES /\ UNCHANGED <<batch, ordinal, task>>
    BY <2>1, <2>2, QuietInOrder DEF HubOrder, UnknownIsOfBatch, Hub!ACTIVE_BATCH_STATES
  <2>3. CASE /\ batch = "none" /\ batch' = "running" /\ ordinal' = 1
             /\ task' = [task EXCEPT !.status = "running"]
    <3>1. task'.status = "running" /\ task.status # "outcome_unknown"
      BY <2>3 DEF LedgerInv, HubTasks, HubOrder, UnknownIsOfBatch
    <3>2. 1 \in Hub!Items /\ \A m \in Hub!Items : ~(m < 1)
      BY DEF Hub!Items, Hub!HubAssumption
    <3>3. DoneBefore'
      BY <2>1, <2>3, <3>2 DEF HubOrder, NotYet, DoneBefore
    <3>4. Behind'
      BY <2>1, StillBehind
    <3> QED BY <2>1, <2>3, <3>1, <3>3, <3>4 DEF HubOrder, NotYet, UnknownIsOfBatch, HubKeeps
  <2> QED BY <1>3, <2>2, <2>3 DEF Hub!CallBatchTool
<1>4. CASE \E n \in Hub!Items : Hub!ResumeAgain(c, n)
  <2>1. PICK n \in Hub!Items : Hub!ResumeAgain(c, n)
    BY <1>4
  <2>2. op[<<n, "commit">>] = "succeeded" /\ UNCHANGED <<task, batch, ordinal, item, op, card>>
    BY <2>1 DEF Hub!ResumeAgain
  <2>3. batch # "none"
    <3>1. <<n, "commit">> \in Hub!Items \X Hub!Kinds
      BY DEF Hub!Kinds
    <3> QED BY <2>2, <3>1 DEF HubOrder, NotYet
  <2> QED BY <2>2, <2>3, QuietInOrder DEF HubOrder, UnknownIsOfBatch
<1>5. CASE \E i \in Hub!Cards : Hub!Poll(c, i)
  <2>1. PICK i \in Hub!Cards : Hub!Poll(c, i)
    BY <1>5
  <2>2. /\ link[i] # "none" /\ task' = Hub!InteractionObservation(task, i)
        /\ UNCHANGED <<batch, ordinal, item, op, card>>
    BY <2>1 DEF Hub!Poll
  <2>3. batch # "none"
    <3>1. card[i] # "none" /\ i = <<i[1], i[2]>> /\ i[1] \in Hub!Items /\ i[2] \in {"field", "auth"}
      BY <2>2 DEF LedgerInv, CardsOK, Hub!Cards
    <3>2. op[<<i[1], "fill">>] # "none" \/ op[<<i[1], "prepare">>] # "none"
      BY <3>1 DEF LedgerInv, CardsOK
    <3>3. <<i[1], "fill">> \in Hub!Items \X Hub!Kinds /\ <<i[1], "prepare">> \in Hub!Items \X Hub!Kinds
      BY <3>1 DEF Hub!Kinds
    <3> QED BY <3>2, <3>3 DEF HubOrder, NotYet
  <2>4. task'.status = "outcome_unknown" <=> task.status = "outcome_unknown"
    BY <2>2, CardSaysNoUnknown DEF LedgerInv
  <2> QED BY <2>2, <2>3, <2>4, QuietInOrder DEF HubOrder, UnknownIsOfBatch
<1> QED BY <1>1, <1>2, <1>3, <1>4, <1>5

\* Steps of the user, of the hosts and of the service that no call makes.
LEMMA OutsideInOrder ==
    ASSUME Hub!HubAssumption, LedgerInv, HubOrder,
           \/ \E i \in Hub!Cards, s \in Hub!CARD_STATES : Hub!Answer(i, s)
           \/ Hub!Cancel \/ Hub!RecoverHostTasks
           \/ \E s \in {"succeeded", "failed"} : Hub!FinishHostTask(s)
           \/ Hub!ExpireShells \/ Hub!Restart \/ Hub!InvokeRead
    PROVE  HubOrder' /\ HubKeeps
<1>1. CASE \E i \in Hub!Cards, s \in Hub!CARD_STATES : Hub!Answer(i, s)
  <2>1. PICK i \in Hub!Cards, s \in Hub!CARD_STATES :
           /\ card[i] = "pending" /\ card' = [card EXCEPT ![i] = s]
           /\ UNCHANGED <<task, batch, ordinal, item, op, call>>
    BY <1>1 DEF Hub!Answer
  <2>2. \A j \in Hub!Cards : card[j] = "none" => card'[j] = "none"
    BY <2>1 DEF LedgerInv
  <2>3. Behind'
    BY <2>1, <2>2, StillBehind
  <2> QED BY <2>1, <2>3 DEF HubOrder, NotYet, DoneBefore, UnknownIsOfBatch, HubKeeps
<1>2. CASE Hub!Cancel
  <2> DEFINE i == task.card
  <2>1. /\ card[i] = "pending" /\ batch \in Hub!ACTIVE_BATCH_STATES
        /\ card' = [card EXCEPT ![i] = "superseded"] /\ task.status = "waiting_user"
        /\ task' = [task EXCEPT !.status = "canceled"] /\ batch' = "canceled"
        /\ item' = [n \in Hub!Items |->
              IF item[n].state \in {"queued", "preparing", "waiting_user"}
              THEN [item[n] EXCEPT !.state = "canceled"] ELSE item[n]]
        /\ UNCHANGED <<ordinal, op, call>>
    BY <1>2 DEF Hub!Cancel
  <2> HIDE DEF i
  <2>2. \A j \in Hub!Cards : card[j] = "none" => card'[j] = "none"
    BY <2>1 DEF LedgerInv
  <2>3. \A m \in Hub!Items : item[m].state = "succeeded" => item'[m].state = "succeeded"
    BY <2>1
  <2>4. Behind'
    BY <2>1, <2>2, <2>3, StillBehind
  <2>5. task'.status = "canceled"
    BY <2>1 DEF LedgerInv, HubTasks
  <2>6. batch' # "none" /\ batch' \notin Hub!ACTIVE_BATCH_STATES
    BY <2>1 DEF Hub!ACTIVE_BATCH_STATES
  <2> QED BY <2>1, <2>4, <2>5, <2>6 DEF HubOrder, NotYet, DoneBefore, UnknownIsOfBatch, HubKeeps
<1>3. CASE Hub!RecoverHostTasks
  <2> DEFINE i == task.card
  <2>1. /\ i # Hub!None /\ task' = Hub!InteractionObservation(task, i)
        /\ UNCHANGED <<batch, ordinal, item, op, card, call>>
    BY <1>3 DEF Hub!RecoverHostTasks
  <2>2. i \in Hub!Cards /\ task \in HubTasks
    BY <2>1 DEF LedgerInv, HubTasks
  <2> HIDE DEF i
  <2>3. task'.status = "outcome_unknown" <=> task.status = "outcome_unknown"
    BY <2>1, <2>2, CardSaysNoUnknown
  <2> QED BY <2>1, <2>3, QuietInOrder DEF HubOrder, NotYet, UnknownIsOfBatch
<1>4. CASE (\E s \in {"succeeded", "failed"} : Hub!FinishHostTask(s)) \/ Hub!ExpireShells
  <2>1. /\ \E s \in {"succeeded", "failed", "expired"} : task' = [task EXCEPT !.status = s]
        /\ batch = "none" /\ UNCHANGED <<batch, ordinal, item, op, card, call>>
    BY <1>4 DEF Hub!FinishHostTask, Hub!ExpireShells
  <2>2. task'.status # "outcome_unknown" /\ task.status # "outcome_unknown"
    BY <2>1 DEF LedgerInv, HubTasks, HubOrder, UnknownIsOfBatch
  <2> QED BY <2>1, <2>2, QuietInOrder DEF HubOrder, NotYet
<1>5. CASE Hub!Restart
  <2>1. /\ call' = [c \in Callers |-> Hub!Idle] /\ task' = Hub!Repair(task)
        /\ UNCHANGED <<batch, ordinal, item, op, card>>
    BY <1>5 DEF Hub!Restart
  <2>2. \A c \in Callers : call'[c].at = "idle"
    BY <2>1, IdleIsACall
  <2>3. task'.status = "outcome_unknown" <=> task.status = "outcome_unknown"
    <3>1. \/ task' = task
          \/ /\ task.status \in Hub!ACTIVE_TASK_STATUSES
             /\ \E s \in {"succeeded", "superseded"} : task' = [task EXCEPT !.status = s]
      BY <2>1 DEF Hub!Repair
    <3> QED BY <3>1 DEF LedgerInv, HubTasks, Hub!ACTIVE_TASK_STATUSES
  <2> QED BY <2>1, <2>2, <2>3, QuietInOrder DEF HubOrder, UnknownIsOfBatch
<1>6. CASE Hub!InvokeRead
  <2> DEFINE o == <<0, "read">>
  <2>1. PICK s \in Hub!OP_STATES \ {"unknown"} :
           /\ op' = [op EXCEPT ![o] = s]
           /\ task' = [task EXCEPT !.status = Hub!TaskStatusForOperation(s), !.op = o]
    BY <1>6 DEF Hub!InvokeRead
  <2>2. batch = "none" /\ UNCHANGED <<batch, ordinal, item, card, call>>
    BY <1>6 DEF Hub!InvokeRead
  <2>3. o \in Hub!Ops /\ \A q \in Hub!Items \X Hub!Kinds : q # o /\ q \in Hub!Ops
    BY DEF Hub!Ops, Hub!Kinds
  <2> HIDE DEF o
  <2>4. op'[o] = s /\ \A q \in Hub!Items \X Hub!Kinds : op'[q] = op[q]
    BY <2>1, <2>3 DEF LedgerInv
  <2>5. task'.status # "outcome_unknown" /\ task.status # "outcome_unknown"
    <3>1. Hub!TaskStatusForOperation(s) # "outcome_unknown"
      BY DEF Hub!TaskStatusForOperation, Hub!OP_STATES
    <3>2. task'.status = Hub!TaskStatusForOperation(s)
      BY <2>1 DEF LedgerInv, HubTasks
    <3> QED BY <2>2, <3>1, <3>2 DEF HubOrder, UnknownIsOfBatch
  <2>6. \A n \in Hub!Items : <<n, "commit">> \in Hub!Items \X Hub!Kinds
    BY DEF Hub!Kinds
  <2>7. Behind'
    BY <2>2, <2>4, <2>6 DEF HubOrder, Behind
  <2>8. UnknownIsOfBatch'
    BY <2>4, <2>5 DEF UnknownIsOfBatch, o
  <2> QED BY <2>2, <2>4, <2>5, <2>7, <2>8 DEF HubOrder, NotYet, DoneBefore, HubKeeps
<1> QED BY <1>1, <1>2, <1>3, <1>4, <1>5, <1>6

\* Types and order hold of every behaviour of the ledger, and no step breaks a promise.
LEMMA OrderSteps ==
    ASSUME Hub!HubAssumption, LedgerInv, HubOrder, [Hub!Next]_(Hub!vars)
    PROVE  HubOrder' /\ HubKeeps
<1>1. CASE UNCHANGED Hub!vars
  <2>1. UNCHANGED <<task, batch, ordinal, item, op, card, call>>
    BY <1>1 DEF Hub!vars
  <2> QED BY <2>1, QuietInOrder DEF HubOrder, NotYet, UnknownIsOfBatch
<1>2. ASSUME NEW c \in Callers, Hub!CallBatchTool(c) \/ Hub!Serve(c)
      PROVE  HubOrder' /\ HubKeeps
  BY <1>2, StartsInOrder, ServeInOrder, RecordInOrder, FailuresInOrder, SuccessInOrder
     DEF Hub!Serve
<1>3. ASSUME NEW c \in Callers, NEW i \in Hub!Cards, Hub!Resume(c, i) \/ Hub!Poll(c, i)
      PROVE  HubOrder' /\ HubKeeps
  BY <1>3, StartsInOrder
<1>4. ASSUME NEW c \in Callers, NEW n \in Hub!Items, Hub!ResumeAgain(c, n)
      PROVE  HubOrder' /\ HubKeeps
  BY <1>4, StartsInOrder
<1> QED BY <1>1, <1>2, <1>3, <1>4, OutsideInOrder DEF Hub!Next

\* See TargetsAreWrittenInOrder below.
LEMMA LedgerIsInOrder ==
    ASSUME Hub!HubAssumption
    PROVE  /\ Hub!Spec => []Hub!CommitsInOrder
           /\ Hub!Spec => [][HubKeeps]_(Hub!vars)
<1>1. Hub!Spec => []LedgerInv
  BY LedgerInvariant
<1>2. Hub!Init => HubOrder
  BY OrderInit
<1>3. LedgerInv /\ HubOrder /\ [Hub!Next]_(Hub!vars) => HubOrder' /\ HubKeeps
  BY OrderSteps
<1>4. HubOrder => Hub!CommitsInOrder
  <2>1. \A n \in Hub!Items : \A m \in 1..(n - 1) : m \in Hub!Items /\ m < n
    BY DEF Hub!Items, Hub!HubAssumption
  <2> QED BY <2>1 DEF HubOrder, Behind, Hub!CommitsInOrder
<1> QED BY <1>1, <1>2, <1>3, <1>4, PTL DEF Hub!Spec

\* A task whose outcome is unknown stays so, whatever is answered, polled, resumed
\* or repaired later, for any number of items and of calls at a time
\* (task_operation_observation and the updates of tasks.py).
THEOREM UnknownsAreKept ==
    ASSUME Hub!HubAssumption
    PROVE  Hub!Spec => Hub!UnknownIsSticky
<1>1. HubKeeps => (task.status = "outcome_unknown" => task'.status = "outcome_unknown")
  BY DEF HubKeeps
<1> QED BY <1>1, LedgerIsInOrder, PTL DEF Hub!UnknownIsSticky

\* A batch that ended is never restarted or relabelled, in particular not by a
\* second call that applies the outcome of an item again
\* (record_batch_item_activity, complete_current_batch_item,
\* fail_current_batch_item and the cancellation).
THEOREM EndedBatchesStay ==
    ASSUME Hub!HubAssumption
    PROVE  Hub!Spec => Hub!BatchEndsOnce
<1>1. HubKeeps => (batch \notin Hub!ACTIVE_BATCH_STATES \cup {"none"} => batch' = batch)
  BY DEF HubKeeps
<1> QED BY <1>1, LedgerIsInOrder, PTL DEF Hub!BatchEndsOnce

(***************************************************************************)
(* The logins of a session (Login).  A login of the interactive browser    *)
(* does not clear what is stored when it enters the session: the invariant *)
(* of the other logins does not hold of it, and it is its own only as long *)
(* as nobody interferes.                                                   *)
(***************************************************************************)

\* The variables of Login.
mode == v1
sess == v2
chal == v3
broker == v4
caller == v5
lock == v6
admin == v7
faults == v8

USE DEF mode, sess, chal, broker, caller, lock, admin, faults

Someone == Principals \cup {Unset}
Stored == Someone \cup {PreparedLogin}
RunRows ==
    [pc : {"idle", "bind", "wait", "auth", "set", "save", "complete", "fail",
           "quarantine", "failed"},
     seen : Someone]

LoginTypes ==
    /\ sess \in [state : {"new", "awaiting_login", "active", "expired", "quarantined"},
                 expected : Principals, observed : Someone, saved : Stored]
    /\ chal \in [Challenges -> [state : Sessions!ChallengeStates, principal : Someone,
                                csrf : BOOLEAN]]
    /\ broker \in [Challenges -> RunRows]
    /\ caller \in [pc : {"idle", "wait", "create", "probe", "check", "set"},
                   kind : {"use", "login"}, seen : Someone, state : Stored]
    /\ lock \in {Sessions!Free, Sessions!TheCall} \cup Challenges

\* The state that is stored for an active session is its own principal's, or the
\* form that was prepared for a login.
ActiveIsOwn == sess.state = "active" => sess.saved \in {Unset, PreparedLogin, sess.observed}

\* What a call that is inside the session works with, and what it may put back.
CallOK ==
    /\ caller.pc \in {"probe", "check", "set"} =>
          /\ caller.state \in {caller.seen, PreparedLogin}
          /\ sess.saved \in {Unset, PreparedLogin, caller.state}
    /\ caller.pc \in {"check", "set"} => caller.state = caller.seen
    /\ caller.pc \in {"probe", "check"} /\ sess.state = "active" => sess.observed = caller.seen

\* Where a login is inside the session, nobody's login is stored; where it has
\* activated the session, the session records what the login has seen.
RunOK(c) ==
    /\ broker[c].pc \in {"auth", "set", "save"} => sess.saved \in {Unset, PreparedLogin}
    /\ broker[c].pc = "save" /\ sess.state = "active" => sess.observed = broker[c].seen

\* The inductive invariant of the logins of a form.
LoginInv ==
    /\ LoginTypes
    /\ mode \in {"form", "captcha"}
    /\ Sessions!OneInside
    /\ ActiveIsOwn
    /\ CallOK
    /\ \A c \in Challenges : RunOK(c)

\* The holders of the lock are told apart.
LEMMA Holders ==
    ASSUME Sessions!LoginAssumption
    PROVE  Sessions!TheCall \notin Challenges /\ Sessions!Free \notin Challenges
           /\ Sessions!TheCall # Sessions!Free
<1> DEFINE Newest(n) == \A m \in Challenges : m <= n
<1>1. PICK n \in Challenges : Challenges = 1..n /\ n >= 1
  BY DEF Sessions!LoginAssumption
<1>2. n \in Nat
  BY <1>1
<1>3. Newest(n)
  BY <1>1, <1>2
<1>4. /\ (CHOOSE k \in Challenges : Newest(k)) \in Challenges
      /\ Newest(CHOOSE k \in Challenges : Newest(k))
  <2> HIDE DEF Newest
  <2> QED BY <1>1, <1>3
<1> DEFINE k == CHOOSE k \in Challenges : Newest(k)
<1>5. k \in Challenges /\ \A m \in Challenges : m <= k
  BY <1>4
<1>6. Sessions!TheCall = 1 + k
  BY DEF Sessions!TheCall
<1> HIDE DEF k
<1> QED BY <1>1, <1>2, <1>5, <1>6 DEF Sessions!Free

LEMMA LoginInit ==
    ASSUME Sessions!Init, mode # "browser", Sessions!LoginAssumption
    PROVE  LoginInv
<1>1. (CHOOSE p \in Principals : TRUE) \in Principals
  BY DEF Sessions!LoginAssumption
<1>2. LoginTypes
  BY <1>1 DEF Sessions!Init, LoginTypes, Someone, Stored, RunRows, Sessions!ChallengeStates,
              Sessions!Answered
<1> QED BY <1>2 DEF Sessions!LoginAssumption, Sessions!Init, LoginInv, Sessions!OneInside, ActiveIsOwn, CallOK, RunOK,
                    Sessions!Answered

\* The steps of a call, and the administrator's, leave the logins alone.
CallerStep == Sessions!StartLogin \/ Sessions!UseSession \/ Sessions!CallStep

LEMMA CallTypes ==
    ASSUME LoginTypes, CallerStep
    PROVE  LoginTypes' /\ UNCHANGED <<mode, broker>>
<1> USE DEF LoginTypes
<1>1. UNCHANGED <<mode, broker, chal>>
  BY DEF CallerStep, Sessions!StartLogin, Sessions!UseSession, Sessions!CallStep,
         Sessions!CallEnters, Sessions!CallAnswered, Sessions!CallFindsNoLogin,
         Sessions!CallFails, Sessions!CallChecks, Sessions!CallActivates
<1>2. lock' \in {Sessions!Free, Sessions!TheCall} \cup Challenges
  BY DEF CallerStep, Sessions!StartLogin, Sessions!UseSession, Sessions!CallStep,
         Sessions!CallEnters, Sessions!CallAnswered, Sessions!CallFindsNoLogin,
         Sessions!CallFails, Sessions!CallChecks, Sessions!CallActivates
<1> DEFINE CallRows == [pc : {"idle", "wait", "create", "probe", "check", "set"},
                      kind : {"use", "login"}, seen : Someone, state : Stored]
<1>3. caller' \in CallRows
  <2>1. Sessions!Answered \in CallRows /\ Sessions!AfterLost \in CallRows
    BY DEF Sessions!Answered, Sessions!AfterLost, Someone, Stored
  <2>2. CASE caller' \in {Sessions!Answered, Sessions!AfterLost}
    BY <2>1, <2>2
  <2>3. CASE Sessions!StartLogin \/ Sessions!UseSession
    BY <2>3 DEF Sessions!StartLogin, Sessions!UseSession
  <2>4. CASE Sessions!CallEnters
    BY <2>2, <2>4 DEF Sessions!CallEnters
  <2>5. CASE Sessions!CallAnswered \/ Sessions!CallChecks
    BY <2>2, <2>5 DEF Sessions!CallAnswered, Sessions!CallChecks
  <2> QED BY <2>2, <2>3, <2>4, <2>5 DEF CallerStep, Sessions!CallStep,
     Sessions!CallFindsNoLogin, Sessions!CallFails, Sessions!CallActivates
<1>4. sess' \in [state : {"new", "awaiting_login", "active", "expired", "quarantined"},
                 expected : Principals, observed : Someone, saved : Stored]
  BY DEF CallerStep, Sessions!StartLogin, Sessions!UseSession, Sessions!CallStep,
         Sessions!CallEnters, Sessions!CallAnswered, Sessions!CallFindsNoLogin,
         Sessions!CallFails, Sessions!CallChecks, Sessions!CallActivates,
         Sessions!SetState, Someone, Stored
<1> QED BY <1>1, <1>2, <1>3, <1>4

LEMMA CallsKeep ==
    ASSUME LoginInv, CallerStep, Sessions!LoginAssumption
    PROVE  LoginInv'
<1>1. LoginTypes' /\ UNCHANGED <<mode, broker>>
  BY CallTypes DEF LoginInv
<1>2. /\ Sessions!TheCall \notin Challenges /\ Sessions!Free \notin Challenges
      /\ Sessions!TheCall # Sessions!Free
  BY Holders
<1>3. /\ caller.pc \in {"probe", "check", "set"} => lock = Sessions!TheCall
      /\ \A c \in Challenges : broker[c].pc \in {"auth", "set", "save"} => lock = c
  BY DEF LoginInv, Sessions!OneInside
\* A call that leaves the lock, or has not entered it, owes nothing.
<1>4. ASSUME caller'.pc \in {"idle", "wait", "create"},
             \/ UNCHANGED <<sess, lock>>
             \/ /\ lock = Sessions!TheCall
                /\ ActiveIsOwn'
             \/ /\ UNCHANGED lock
                /\ sess.saved = Unset /\ sess' = [sess EXCEPT !.state = "expired"]
      PROVE  LoginInv'
  <2>1. ActiveIsOwn'
    BY <1>4 DEF LoginInv, LoginTypes, ActiveIsOwn
  <2>2. ASSUME NEW c \in Challenges PROVE RunOK(c)'
    BY <1>1, <1>2, <1>3, <1>4 DEF LoginInv, LoginTypes, RunOK
  <2>3. Sessions!OneInside'
    BY <1>1, <1>2, <1>3, <1>4 DEF Sessions!OneInside
  <2> QED BY <1>1, <1>4, <2>1, <2>2, <2>3 DEF LoginInv, CallOK
<1>5. CASE Sessions!StartLogin \/ Sessions!UseSession
  BY <1>4, <1>5 DEF Sessions!StartLogin, Sessions!UseSession, LoginInv, LoginTypes
<1>6. CASE Sessions!CallEnters
  <2>1. CASE sess.state = "active" /\ sess.saved # Unset
    <3>1. /\ lock = Sessions!Free /\ lock' = Sessions!TheCall
          /\ caller' = [caller EXCEPT !.pc = "probe", !.seen = sess.observed, !.state = sess.saved]
          /\ UNCHANGED sess
      BY <1>6, <2>1 DEF Sessions!CallEnters
    <3>2. /\ caller'.pc = "probe" /\ caller'.seen = sess.observed /\ caller'.state = sess.saved
      BY <3>1 DEF LoginInv, LoginTypes
    <3>3. ActiveIsOwn' /\ CallOK'
      BY <2>1, <3>1, <3>2 DEF LoginInv, ActiveIsOwn, CallOK
    <3>4. ASSUME NEW c \in Challenges PROVE RunOK(c)' /\ broker'[c].pc \notin {"auth", "set", "save"}
      BY <1>1, <1>2, <1>3, <3>1 DEF RunOK
    <3> QED BY <1>1, <3>1, <3>3, <3>4 DEF LoginInv, Sessions!OneInside
  <2>2. CASE ~(sess.state = "active" /\ sess.saved # Unset)
    BY <1>4, <1>6, <2>2
       DEF Sessions!CallEnters, Sessions!AfterLost, Sessions!Answered, Sessions!SetState, LoginInv, LoginTypes
  <2> QED BY <2>1, <2>2
<1>7. CASE Sessions!CallAnswered
  BY <1>1, <1>2, <1>3, <1>4, <1>7 DEF Sessions!CallAnswered, Sessions!Answered, LoginInv, LoginTypes,
     Sessions!OneInside, ActiveIsOwn, CallOK, RunOK
<1>8. CASE Sessions!CallFindsNoLogin
  <2>1. sess'.state = "expired" /\ caller'.pc \in {"idle", "wait", "create"} /\ lock = Sessions!TheCall
    BY <1>3, <1>8 DEF Sessions!CallFindsNoLogin, Sessions!AfterLost, Sessions!Answered,
                      LoginInv, LoginTypes
  <2> QED BY <1>4, <2>1 DEF ActiveIsOwn
<1>9. CASE Sessions!CallFails
  <2>1. UNCHANGED sess /\ caller'.pc = "idle" /\ lock = Sessions!TheCall
    BY <1>3, <1>9 DEF Sessions!CallFails, Sessions!Answered, LoginInv, LoginTypes
  <2> QED BY <1>4, <2>1 DEF LoginInv, ActiveIsOwn
<1>10. CASE Sessions!CallChecks
  BY <1>1, <1>2, <1>3, <1>4, <1>10 DEF Sessions!CallChecks, Sessions!Answered, Sessions!SetState,
     LoginInv, LoginTypes, Sessions!OneInside, ActiveIsOwn, CallOK, RunOK
<1>11. CASE Sessions!CallActivates
  BY <1>3, <1>4, <1>11 DEF Sessions!CallActivates, Sessions!Answered, LoginInv, LoginTypes,
     ActiveIsOwn, CallOK
<1> QED BY <1>5, <1>6, <1>7, <1>8, <1>9, <1>10, <1>11 DEF CallerStep, Sessions!CallStep

\* Nobody enters the session, and what is stored there is ended, dropped, or
\* replaced by the form of the next login.
Quiet ==
    /\ UNCHANGED mode
    /\ caller' \in {caller, Sessions!Answered}
    /\ \A c \in Challenges : broker'[c] = broker[c] \/ broker'[c].pc \notin {"auth", "set", "save"}
    /\ \/ UNCHANGED lock
       \/ /\ lock' = Sessions!Free
          /\ lock \in Challenges /\ broker'[lock].pc \notin {"auth", "set", "save"}
    /\ \/ sess' \in {sess, [sess EXCEPT !.saved = Unset]}
       \/ sess'.state # "active" /\ sess'.saved \in {sess.saved, Unset, PreparedLogin}

LEMMA QuietKeeps ==
    ASSUME LoginInv, LoginTypes', Quiet, Sessions!LoginAssumption
    PROVE  LoginInv'
<1>1. /\ Sessions!TheCall \notin Challenges /\ Sessions!Free \notin Challenges
      /\ Sessions!TheCall # Sessions!Free
  BY Holders
<1>2. /\ sess'.saved \in {sess.saved, Unset, PreparedLogin}
      /\ sess'.state = "active" => sess.state = "active" /\ sess'.observed = sess.observed
  BY DEF Quiet, LoginInv, LoginTypes
<1>3. caller' = caller \/ caller'.pc = "idle"
  BY DEF Quiet, Sessions!Answered
<1>4. ActiveIsOwn'
  BY <1>2 DEF LoginInv, ActiveIsOwn
<1>5. CallOK'
  BY <1>2, <1>3 DEF LoginInv, CallOK
<1>6. ASSUME NEW c \in Challenges PROVE RunOK(c)'
  <2>1. broker'[c] = broker[c] \/ broker'[c].pc \notin {"auth", "set", "save"}
    BY DEF Quiet
  <2> QED BY <1>2, <2>1 DEF LoginInv, RunOK
<1>7. Sessions!OneInside'
  BY <1>1, <1>3 DEF Quiet, LoginInv, Sessions!OneInside
<1> QED BY <1>4, <1>5, <1>6, <1>7 DEF Quiet, LoginInv

\* What is done for challenge c: its card, its login, and the clock.
ChallengeStep(c) ==
    \/ Sessions!CreateChallenge(c) \/ Sessions!GetCard(c) \/ Sessions!Claim(c)
    \/ Sessions!LoginStep(c) \/ Sessions!Expire(c)

LEMMA ChallengeTypes ==
    ASSUME LoginTypes, NEW c \in Challenges, ChallengeStep(c)
    PROVE  LoginTypes' /\ UNCHANGED mode
<1> USE DEF LoginTypes
<1> DEFINE ChalRows == [state : Sessions!ChallengeStates, principal : Someone, csrf : BOOLEAN]
<1>1. chal' \in [Challenges -> ChalRows]
  <2>1. CASE UNCHANGED chal
    BY <2>1
  <2>2. CASE chal' = Sessions!WithNewChallenge(c)
    BY <2>2 DEF Sessions!WithNewChallenge, Sessions!ChallengeStates, Someone
  <2>3. CASE \E st \in Sessions!ChallengeStates : chal' = [chal EXCEPT ![c].state = st]
    BY <2>3
  <2>4. CASE chal' = [chal EXCEPT ![c].csrf = TRUE]
    BY <2>4
  <2>5. CASE \E st \in Sessions!ChallengeStates :
               chal' = [chal EXCEPT ![c].state = st, ![c].csrf = FALSE]
    <3>1. PICK st \in Sessions!ChallengeStates :
            chal' = [chal EXCEPT ![c].state = st, ![c].csrf = FALSE]
      BY <2>5
    <3>2. [chal[c] EXCEPT !.state = st, !.csrf = FALSE] \in ChalRows
      OBVIOUS
    <3>3. chal' = [chal EXCEPT ![c] = [chal[c] EXCEPT !.state = st, !.csrf = FALSE]]
      BY <3>1
    <3> QED BY <3>2, <3>3
  <2>6. CASE Sessions!FailChallenge(c) \/ Sessions!Complete(c)
    BY <2>1, <2>3, <2>6 DEF Sessions!FailChallenge, Sessions!Complete, Sessions!ChallengeStates
  <2>7. CASE Sessions!Claim(c) \/ Sessions!Expire(c)
    BY <2>5, <2>7 DEF Sessions!Claim, Sessions!Expire, Sessions!ChallengeStates
  <2> QED BY <2>1, <2>2, <2>4, <2>6, <2>7 DEF ChallengeStep, Sessions!CreateChallenge,
       Sessions!GetCard, Sessions!LoginStep, Sessions!Bind, Sessions!Enter,
       Sessions!Authenticated, Sessions!AuthenticationFails, Sessions!Activate,
       Sessions!SaveState, Sessions!FailSession
<1>2. broker' \in [Challenges -> RunRows]
  <2>1. CASE UNCHANGED broker
    BY <2>1
  <2>2. CASE \E pc \in {"bind", "wait", "auth", "save", "complete", "fail", "failed"} :
               broker' = [broker EXCEPT ![c].pc = pc]
    BY <2>2 DEF RunRows
  <2>3. CASE \E row \in RunRows : broker' = [broker EXCEPT ![c] = row]
    BY <2>3
  <2>4. CASE Sessions!Authenticated(c)
    BY <2>2, <2>3, <2>4 DEF Sessions!Authenticated, RunRows, Someone
  <2>5. Sessions!Idle \in RunRows
    BY DEF Sessions!Idle, RunRows, Someone
  <2> QED BY <2>1, <2>2, <2>3, <2>4, <2>5 DEF ChallengeStep, Sessions!CreateChallenge,
       Sessions!GetCard, Sessions!Claim, Sessions!Expire, Sessions!LoginStep, Sessions!Bind,
       Sessions!Enter, Sessions!AuthenticationFails, Sessions!Activate,
       Sessions!SaveState, Sessions!Complete, Sessions!FailSession, Sessions!FailChallenge
<1>3. caller' \in [pc : {"idle", "wait", "create", "probe", "check", "set"},
                   kind : {"use", "login"}, seen : Someone, state : Stored]
  <2>1. caller' \in {caller, Sessions!Answered}
    BY DEF ChallengeStep, Sessions!CreateChallenge, Sessions!GetCard,
       Sessions!Claim, Sessions!Expire, Sessions!LoginStep, Sessions!Bind, Sessions!Enter,
       Sessions!Authenticated, Sessions!AuthenticationFails, Sessions!Activate,
       Sessions!SaveState, Sessions!Complete, Sessions!FailSession, Sessions!FailChallenge
  <2>2. Sessions!Answered \in [pc : {"idle", "wait", "create", "probe", "check", "set"},
                               kind : {"use", "login"}, seen : Someone, state : Stored]
    BY DEF Sessions!Answered, Someone, Stored
  <2> QED BY <2>1, <2>2
<1>4. lock' \in {Sessions!Free, Sessions!TheCall} \cup Challenges
  BY DEF ChallengeStep, Sessions!CreateChallenge,
       Sessions!GetCard,
       Sessions!Claim, Sessions!Expire, Sessions!LoginStep, Sessions!Bind, Sessions!Enter,
       Sessions!Authenticated, Sessions!AuthenticationFails, Sessions!Activate,
       Sessions!SaveState, Sessions!Complete, Sessions!FailSession, Sessions!FailChallenge
<1>5. sess' \in [state : {"new", "awaiting_login", "active", "expired", "quarantined"},
                 expected : Principals, observed : Someone, saved : Stored]
  <2>1. broker[c] \in RunRows /\ broker[c].seen \in Someone /\ broker[c].seen \in Stored
    BY DEF RunRows, Stored
  <2>2. CASE UNCHANGED sess
    BY <2>2
  <2>3. CASE Sessions!GetCard(c) \/ Sessions!Bind(c) \/ Sessions!Enter(c)
    BY <2>3 DEF Sessions!GetCard, Sessions!PrepareAuthentication, Sessions!Bind, Sessions!Enter,
                Stored, Someone
  <2>4. CASE Sessions!Authenticated(c) \/ Sessions!FailSession(c)
    BY <2>4 DEF Sessions!Authenticated, Sessions!FailSession, Stored, Someone
  <2>5. CASE Sessions!Activate(c) \/ Sessions!SaveState(c)
    BY <2>1, <2>5 DEF Sessions!Activate, Sessions!SaveState
  <2> QED BY <2>2, <2>3, <2>4, <2>5 DEF ChallengeStep, Sessions!CreateChallenge,
       Sessions!Claim, Sessions!Expire, Sessions!LoginStep,
       Sessions!AuthenticationFails, Sessions!Complete, Sessions!FailChallenge
<1>6. UNCHANGED mode
  BY DEF ChallengeStep, Sessions!CreateChallenge,
       Sessions!GetCard,
       Sessions!Claim, Sessions!Expire, Sessions!LoginStep, Sessions!Bind, Sessions!Enter,
       Sessions!Authenticated, Sessions!AuthenticationFails, Sessions!Activate,
       Sessions!SaveState, Sessions!Complete, Sessions!FailSession, Sessions!FailChallenge
<1> QED BY <1>1, <1>2, <1>3, <1>4, <1>5, <1>6

LEMMA ChallengesKeep ==
    ASSUME LoginInv, NEW c \in Challenges, ChallengeStep(c), Sessions!LoginAssumption
    PROVE  LoginInv'
<1>1. LoginTypes' /\ UNCHANGED mode
  BY ChallengeTypes DEF LoginInv
<1>2. /\ Sessions!TheCall \notin Challenges /\ Sessions!Free \notin Challenges
      /\ Sessions!TheCall # Sessions!Free
  BY Holders
<1>3. broker[c] \in RunRows /\ broker \in [Challenges -> RunRows] /\ mode \in {"form", "captcha"}
  BY DEF LoginInv, LoginTypes
<1>4. broker[c].pc \in {"auth", "set", "save"} => lock = c
  BY DEF LoginInv, Sessions!OneInside
<1>5. CASE Sessions!CreateChallenge(c) \/ Sessions!Claim(c) \/ Sessions!Expire(c)
  <2>1. UNCHANGED <<mode, sess, lock>> /\ caller' \in {caller, Sessions!Answered}
    BY <1>5 DEF Sessions!CreateChallenge, Sessions!Claim, Sessions!Expire
  <2>2. broker' = broker \/ broker' = [broker EXCEPT ![c].pc = "bind"]
    BY <1>5 DEF Sessions!CreateChallenge, Sessions!Claim, Sessions!Expire
  <2>3. \A d \in Challenges : broker'[d] = broker[d] \/ broker'[d].pc \notin {"auth", "set", "save"}
    BY <1>3, <2>2 DEF RunRows
  <2>4. Quiet
    BY <2>1, <2>3 DEF Quiet
  <2> QED BY <1>1, <2>4, QuietKeeps
<1>10. CASE Sessions!GetCard(c)
  <2>1. sess' = sess \/ sess' = [sess EXCEPT !.state = "awaiting_login", !.saved = PreparedLogin]
    BY <1>10 DEF Sessions!GetCard, Sessions!PrepareAuthentication
  <2>2. sess' = sess \/ (sess'.state = "awaiting_login" /\ sess'.saved = PreparedLogin)
    BY <2>1 DEF LoginInv, LoginTypes
  <2>3. UNCHANGED <<mode, broker, caller, lock>>
    BY <1>10 DEF Sessions!GetCard
  <2>4. Quiet
    BY <2>2, <2>3 DEF Quiet
  <2> QED BY <1>1, <2>4, QuietKeeps
<1>6. CASE Sessions!Bind(c) \/ Sessions!FailSession(c)
  <2>1. UNCHANGED <<mode, caller, lock>>
    BY <1>6 DEF Sessions!Bind, Sessions!FailSession
  <2>2. sess' = sess \/ (sess'.state # "active" /\ sess'.saved \in {sess.saved, Unset})
    BY <1>6 DEF Sessions!Bind, Sessions!FailSession, LoginInv, LoginTypes
  <2>3. \A d \in Challenges : broker'[d] = broker[d] \/ broker'[d].pc \notin {"auth", "set", "save"}
    BY <1>3, <1>6 DEF Sessions!Bind, Sessions!FailSession, RunRows
  <2>4. Quiet
    BY <2>1, <2>2, <2>3 DEF Quiet
  <2> QED BY <1>1, <2>4, QuietKeeps
<1>7. CASE Sessions!FailChallenge(c) \/ Sessions!Complete(c) \/ Sessions!AuthenticationFails(c)
  <2>1. Quiet
    BY <1>1, <1>3, <1>4, <1>7 DEF Quiet, Sessions!FailChallenge, Sessions!Complete, Sessions!Idle,
       Sessions!AuthenticationFails, RunRows
  <2> QED BY <1>1, <2>1, QuietKeeps
<1>8. CASE Sessions!Enter(c)
  <2>1. CASE mode = "captcha" /\ sess.saved # PreparedLogin
    <3>1. Quiet
      BY <1>1, <1>3, <1>8, <2>1 DEF Quiet, Sessions!Enter, RunRows
    <3> QED BY <1>1, <3>1, QuietKeeps
  <2>2. CASE ~(mode = "captcha" /\ sess.saved # PreparedLogin)
    <3>1. /\ lock = Sessions!Free /\ lock' = c
          /\ broker' = [broker EXCEPT ![c].pc = "auth"]
          /\ sess'.saved \in {Unset, PreparedLogin} /\ UNCHANGED caller
          /\ sess'.saved = sess.saved \/ sess'.saved = Unset
          /\ sess'.state = sess.state /\ sess'.observed = sess.observed
      BY <1>8, <2>2 DEF Sessions!Enter, LoginInv, LoginTypes
    <3>2. \A d \in Challenges : broker[d].pc \notin {"auth", "set", "save"}
      BY <1>2, <3>1 DEF LoginInv, Sessions!OneInside
    <3>3. /\ broker'[c].pc = "auth"
          /\ \A d \in Challenges : d # c => broker'[d] = broker[d]
      BY <1>3, <3>1 DEF RunRows
    <3>4. caller.pc \notin {"probe", "check", "set"}
      BY <1>2, <3>1 DEF LoginInv, Sessions!OneInside
    <3>5. Sessions!OneInside'
      BY <3>1, <3>2, <3>3, <3>4 DEF Sessions!OneInside
    <3>6. ActiveIsOwn' /\ CallOK'
      BY <3>1, <3>4 DEF LoginInv, ActiveIsOwn, CallOK
    <3>7. \A d \in Challenges : RunOK(d)'
      BY <3>1, <3>2, <3>3 DEF RunOK
    <3> QED BY <1>1, <3>5, <3>6, <3>7 DEF LoginInv
  <2> QED BY <2>1, <2>2
\* Whoever is inside is alone there.
<1>9. ASSUME lock = c
      PROVE  /\ caller.pc \notin {"probe", "check", "set"}
             /\ \A d \in Challenges : d # c => broker[d].pc \notin {"auth", "set", "save"}
  BY <1>2, <1>9 DEF LoginInv, Sessions!OneInside
<1>11. ASSUME lock = c, UNCHANGED caller, ActiveIsOwn', RunOK(c)',
              \A d \in Challenges : d # c => broker'[d] = broker[d],
              lock' = c \/ broker'[c].pc \notin {"auth", "set", "save"}
       PROVE  LoginInv'
  <2>1. ASSUME NEW d \in Challenges PROVE RunOK(d)'
    BY <1>9, <1>11 DEF RunOK
  <2>2. CallOK' /\ Sessions!OneInside'
    BY <1>9, <1>11 DEF CallOK, Sessions!OneInside
  <2> QED BY <1>1, <1>11, <2>1, <2>2 DEF LoginInv
<1>12. CASE Sessions!Authenticated(c)
  <2>1. lock = c
    BY <1>4, <1>12 DEF Sessions!Authenticated
  <2>2. PICK p \in Principals :
          \/ /\ broker' = [broker EXCEPT ![c] = [pc |-> "set", seen |-> p]]
             /\ UNCHANGED <<sess, lock>>
          \/ /\ sess' = [sess EXCEPT !.state = "quarantined", !.observed = p]
             /\ broker' = [broker EXCEPT ![c] = [pc |-> "quarantine", seen |-> p]]
             /\ lock' = Sessions!Free
    BY <1>12 DEF Sessions!Authenticated
  <2>3. UNCHANGED <<mode, caller>> /\ broker[c].pc = "auth"
    BY <1>12 DEF Sessions!Authenticated
  <2>4. CASE broker' = [broker EXCEPT ![c] = [pc |-> "set", seen |-> p]] /\ UNCHANGED <<sess, lock>>
    <3>1. RunOK(c)'
      BY <1>3, <2>3, <2>4 DEF LoginInv, RunOK
    <3> QED BY <1>3, <1>11, <2>1, <2>3, <2>4, <3>1 DEF LoginInv, ActiveIsOwn
  <2>5. CASE /\ sess' = [sess EXCEPT !.state = "quarantined", !.observed = p]
             /\ broker' = [broker EXCEPT ![c] = [pc |-> "quarantine", seen |-> p]]
             /\ lock' = Sessions!Free
    <3>1. sess'.state = "quarantined" /\ sess'.saved = sess.saved
      BY <2>5 DEF LoginInv, LoginTypes
    <3>2. broker'[c].pc = "quarantine" /\ \A d \in Challenges : d # c => broker'[d] = broker[d]
      BY <1>3, <2>5
    <3>3. Quiet
      BY <2>1, <2>3, <2>5, <3>1, <3>2 DEF Quiet
    <3> QED BY <1>1, <3>3, QuietKeeps
  <2> QED BY <2>2, <2>4, <2>5
<1>13. CASE Sessions!Activate(c)
  <2>1. /\ broker[c].pc = "set" /\ lock = c /\ UNCHANGED <<mode, caller, lock>>
        /\ sess' = [sess EXCEPT !.state = "active", !.observed = broker[c].seen]
        /\ broker' = [broker EXCEPT ![c].pc = "save"]
    BY <1>4, <1>13 DEF Sessions!Activate
  <2>2. /\ sess'.saved = sess.saved /\ sess'.observed = broker[c].seen
        /\ broker'[c].pc = "save" /\ broker'[c].seen = broker[c].seen
        /\ \A d \in Challenges : d # c => broker'[d] = broker[d]
    BY <1>3, <2>1 DEF LoginInv, LoginTypes, RunRows
  <2>3. sess.saved \in {Unset, PreparedLogin}
    BY <2>1 DEF LoginInv, RunOK
  <2> QED BY <1>11, <2>1, <2>2, <2>3 DEF ActiveIsOwn, RunOK
<1>14. CASE Sessions!SaveState(c)
  <2>1. broker[c].pc = "save" /\ lock = c /\ UNCHANGED <<mode, caller>>
    BY <1>4, <1>14 DEF Sessions!SaveState
  <2>2. \E pc \in {"complete", "fail"} : broker' = [broker EXCEPT ![c].pc = pc]
    BY <1>14 DEF Sessions!SaveState
  <2>3. /\ broker'[c].pc \notin {"auth", "set", "save"}
        /\ \A d \in Challenges : d # c => broker'[d] = broker[d]
    BY <1>3, <2>2 DEF RunRows
  <2>4. sess' = sess \/ sess' = [sess EXCEPT !.saved = broker[c].seen]
    BY <1>14 DEF Sessions!SaveState
  <2>5. sess.state = "active" => sess.observed = broker[c].seen
    BY <2>1 DEF LoginInv, RunOK
  <2>6. ActiveIsOwn'
    BY <2>4, <2>5 DEF LoginInv, LoginTypes, ActiveIsOwn
  <2> QED BY <1>11, <2>1, <2>3, <2>6 DEF RunOK
<1> QED BY <1>5, <1>6, <1>7, <1>8, <1>10, <1>12, <1>13, <1>14 DEF ChallengeStep, Sessions!LoginStep

\* The administrator's steps, and a restart.
AdminStep ==
    \/ Sessions!Invalidate \/ Sessions!InvalidateDeletes \/ Sessions!RebindDeletes
    \/ Sessions!ConflictingBinding \/ Sessions!Restart
    \/ \E p \in Principals : Sessions!Rebind(p)

\* They keep the rows to their domains.
LEMMA AdminTypes ==
    ASSUME LoginTypes, AdminStep
    PROVE  LoginTypes'
<1>1. CASE Sessions!Restart
  BY <1>1 DEF Sessions!Restart, Sessions!Idle, Sessions!Answered, LoginTypes, RunRows,
     Someone, Stored
<1>2. CASE ~Sessions!Restart
  <2>1. UNCHANGED <<chal, broker, caller, lock>>
    BY <1>2 DEF AdminStep, Sessions!Invalidate, Sessions!InvalidateDeletes,
       Sessions!RebindDeletes, Sessions!ConflictingBinding, Sessions!Rebind
  <2>2. sess' \in [state : {"new", "awaiting_login", "active", "expired", "quarantined"},
                   expected : Principals, observed : Someone, saved : Stored]
    BY <1>2 DEF LoginTypes, AdminStep, Sessions!Invalidate, Sessions!InvalidateDeletes,
       Sessions!RebindDeletes, Sessions!ConflictingBinding, Sessions!Rebind,
       Sessions!SetState, Someone, Stored
  <2> QED BY <2>1, <2>2 DEF LoginTypes
<1> QED BY <1>1, <1>2

LEMMA AdminKeeps ==
    ASSUME LoginInv, AdminStep, Sessions!LoginAssumption
    PROVE  LoginInv'
<1>1. CASE Sessions!Restart
  <2>1. LoginTypes'
    BY AdminTypes DEF LoginInv
  <2>2. UNCHANGED <<mode, sess>> /\ caller'.pc = "idle" /\ \A c \in Challenges : broker'[c].pc = "idle"
    BY <1>1 DEF Sessions!Restart, Sessions!Idle, Sessions!Answered
  <2> QED BY <2>1, <2>2 DEF LoginInv, Sessions!OneInside, ActiveIsOwn, CallOK, RunOK
<1>2. CASE ~Sessions!Restart
  <2>1. UNCHANGED <<mode, chal, broker, caller, lock>>
    BY <1>2 DEF AdminStep, Sessions!Invalidate, Sessions!InvalidateDeletes, Sessions!RebindDeletes,
                Sessions!ConflictingBinding, Sessions!Rebind
  <2>2. \/ sess' \in {[sess EXCEPT !.saved = Unset], [sess EXCEPT !.state = "expired"],
                      [sess EXCEPT !.state = "quarantined"]}
        \/ \E p \in Principals :
              sess' = [sess EXCEPT !.state = "expired", !.expected = p, !.observed = Unset]
    BY <1>2 DEF AdminStep, Sessions!Invalidate, Sessions!InvalidateDeletes, Sessions!RebindDeletes,
                Sessions!ConflictingBinding, Sessions!Rebind, Sessions!SetState
  <2>3. LoginTypes'
    BY AdminTypes DEF LoginInv
  <2>4. \/ sess' = [sess EXCEPT !.saved = Unset]
        \/ sess'.state # "active" /\ sess'.saved = sess.saved
    BY <2>2 DEF LoginInv, LoginTypes
  <2>5. Quiet
    BY <2>1, <2>4 DEF Quiet
  <2> QED BY <2>3, <2>5, QuietKeeps
<1> QED BY <1>1, <1>2

LEMMA FormLoginsKeep ==
    ASSUME LoginInv, [Sessions!Next]_(Sessions!vars), Sessions!LoginAssumption
    PROVE  LoginInv'
<1>1. CASE UNCHANGED Sessions!vars
  <2>1. UNCHANGED <<mode, sess, chal, broker, caller, lock>>
    BY <1>1 DEF Sessions!vars
  <2>2. LoginTypes' /\ Sessions!OneInside' /\ ActiveIsOwn' /\ CallOK'
    BY <2>1 DEF LoginInv, LoginTypes, Sessions!OneInside, ActiveIsOwn, CallOK
  <2>3. \A c \in Challenges : RunOK(c)'
    BY <2>1 DEF LoginInv, RunOK
  <2> QED BY <2>1, <2>2, <2>3 DEF LoginInv
<1>2. CASE Sessions!Next
  BY <1>2, CallsKeep, ChallengesKeep, AdminKeeps
     DEF Sessions!Next, CallerStep, ChallengeStep, AdminStep
<1> QED BY <1>1, <1>2

\* Until somebody interferes, whatever the mode, the session knows one
\* principal, and nobody else's login is stored, worked with or activated.
First == CHOOSE p \in Principals : TRUE
Untouched ==
    /\ admin = "idle"
    /\ sess.expected = First
    /\ sess.saved \in {Unset, PreparedLogin, First}
    /\ sess.state = "active" => sess.observed = First
    /\ caller.pc \in {"probe", "check", "set"} =>
          caller.seen = First /\ caller.state \in {First, PreparedLogin}
    /\ \A c \in Challenges : broker[c].pc \in {"set", "save"} => broker[c].seen = First

LEMMA CallsLeaveUntouched ==
    ASSUME LoginTypes, Untouched, CallerStep
    PROVE  Untouched'
<1> USE DEF LoginTypes, Untouched
<1>1. UNCHANGED <<admin, broker>>
  BY DEF CallerStep, Sessions!StartLogin, Sessions!UseSession, Sessions!CallStep,
         Sessions!CallEnters, Sessions!CallAnswered, Sessions!CallFindsNoLogin,
         Sessions!CallFails, Sessions!CallChecks, Sessions!CallActivates
<1>2. /\ Sessions!Answered.pc = "idle"
      /\ Sessions!AfterLost.pc \in {"idle", "create"}
  BY DEF Sessions!Answered, Sessions!AfterLost
<1>3. CASE Sessions!StartLogin \/ Sessions!UseSession
  BY <1>1, <1>3 DEF Sessions!StartLogin, Sessions!UseSession
<1>4. CASE Sessions!CallEnters
  BY <1>1, <1>2, <1>4 DEF Sessions!CallEnters, Sessions!SetState
<1>5. CASE Sessions!CallAnswered \/ Sessions!CallActivates
  BY <1>1, <1>2, <1>5 DEF Sessions!CallAnswered, Sessions!CallActivates
<1>6. CASE Sessions!CallFindsNoLogin \/ Sessions!CallFails \/ Sessions!CallChecks
  BY <1>1, <1>2, <1>6
     DEF Sessions!CallFindsNoLogin, Sessions!CallFails, Sessions!CallChecks, Sessions!SetState
<1> QED BY <1>3, <1>4, <1>5, <1>6 DEF CallerStep, Sessions!CallStep

LEMMA LoginsLeaveUntouched ==
    ASSUME LoginTypes, Untouched, NEW c \in Challenges, ChallengeStep(c)
    PROVE  Untouched'
<1>1. UNCHANGED admin /\ caller' \in {caller, Sessions!Answered}
  BY DEF ChallengeStep, Sessions!CreateChallenge, Sessions!GetCard,
     Sessions!Claim, Sessions!Expire, Sessions!LoginStep, Sessions!Bind, Sessions!Enter,
     Sessions!Authenticated, Sessions!AuthenticationFails, Sessions!Activate,
     Sessions!SaveState, Sessions!Complete, Sessions!FailSession, Sessions!FailChallenge
<1>2. caller' = caller \/ caller'.pc = "idle"
  BY <1>1 DEF Sessions!Answered
<1>3. broker \in [Challenges -> RunRows] /\ broker[c] \in RunRows
  BY DEF LoginTypes
<1>4. ASSUME sess'.expected = sess.expected,
             sess'.saved \in {sess.saved, Unset, PreparedLogin, First},
             sess'.state = "active" => \/ sess.state = "active" /\ sess'.observed = sess.observed
                                      \/ sess'.observed = First,
             \A d \in Challenges : d # c => broker'[d] = broker[d],
             broker'[c].pc \in {"set", "save"} => broker'[c].seen = First
      PROVE  Untouched'
  BY <1>1, <1>2, <1>4 DEF Untouched
<1>5. CASE Sessions!CreateChallenge(c) \/ Sessions!Claim(c) \/ Sessions!Expire(c)
           \/ Sessions!FailChallenge(c) \/ Sessions!Complete(c) \/ Sessions!AuthenticationFails(c)
  <2>1. UNCHANGED sess
    BY <1>5 DEF Sessions!CreateChallenge, Sessions!Claim, Sessions!Expire,
       Sessions!FailChallenge, Sessions!Complete, Sessions!AuthenticationFails
  <2>2. \/ UNCHANGED broker
        \/ \E pc \in {"bind", "fail"} : broker' = [broker EXCEPT ![c].pc = pc]
        \/ broker' = [broker EXCEPT ![c] = Sessions!Idle]
    BY <1>5 DEF Sessions!CreateChallenge, Sessions!Claim, Sessions!Expire,
       Sessions!FailChallenge, Sessions!Complete, Sessions!AuthenticationFails
  <2>3. /\ \A d \in Challenges : d # c => broker'[d] = broker[d]
        /\ broker'[c] = broker[c] \/ broker'[c].pc \in {"bind", "fail", "idle"}
    BY <1>3, <2>2 DEF RunRows, Sessions!Idle
  <2> QED BY <1>4, <2>1, <2>3 DEF Untouched
<1>6. CASE Sessions!GetCard(c)
  BY <1>4, <1>6 DEF Sessions!GetCard, Sessions!PrepareAuthentication, LoginTypes, Untouched
<1>7. CASE Sessions!Bind(c) \/ Sessions!FailSession(c) \/ Sessions!Enter(c)
  <2>1. /\ sess'.expected = sess.expected /\ sess'.saved \in {sess.saved, Unset}
        /\ sess'.state = "active" => sess.state = "active" /\ sess'.observed = sess.observed
    BY <1>7 DEF Sessions!Bind, Sessions!FailSession, Sessions!Enter, LoginTypes
  <2>2. \E pc \in {"wait", "fail", "failed", "auth"} : broker' = [broker EXCEPT ![c].pc = pc]
    BY <1>7 DEF Sessions!Bind, Sessions!FailSession, Sessions!Enter
  <2>3. /\ \A d \in Challenges : d # c => broker'[d] = broker[d]
        /\ broker'[c].pc \in {"wait", "fail", "failed", "auth"}
    BY <1>3, <2>2 DEF RunRows
  <2> QED BY <1>4, <2>1, <2>3
<1>8. CASE Sessions!Authenticated(c)
  <2>1. PICK p \in Principals :
          \/ /\ ~Sessions!Mismatch(p)
             /\ broker' = [broker EXCEPT ![c] = [pc |-> "set", seen |-> p]]
             /\ UNCHANGED sess
          \/ /\ sess' = [sess EXCEPT !.state = "quarantined", !.observed = p]
             /\ broker' = [broker EXCEPT ![c] = [pc |-> "quarantine", seen |-> p]]
    BY <1>8 DEF Sessions!Authenticated
  <2>2. \A d \in Challenges : d # c => broker'[d] = broker[d]
    BY <1>3, <2>1
  <2>3. \/ UNCHANGED sess
        \/ /\ sess'.state = "quarantined" /\ sess'.saved = sess.saved
           /\ sess'.expected = sess.expected
    BY <2>1 DEF LoginTypes
  <2>4. broker'[c].pc \in {"set", "save"} => broker'[c].seen = First
    BY <1>3, <2>1 DEF Untouched, Sessions!Mismatch
  <2> QED BY <1>4, <2>2, <2>3, <2>4
<1>9. CASE Sessions!Activate(c) \/ Sessions!SaveState(c)
  <2>1. broker[c].seen = First
    BY <1>9 DEF Sessions!Activate, Sessions!SaveState, Untouched
  <2>2. \E pc \in {"save", "complete", "fail"} : broker' = [broker EXCEPT ![c].pc = pc]
    BY <1>9 DEF Sessions!Activate, Sessions!SaveState
  <2>3. /\ \A d \in Challenges : d # c => broker'[d] = broker[d]
        /\ broker'[c].seen = First
    BY <1>3, <2>1, <2>2 DEF RunRows
  <2>4. \/ UNCHANGED sess
        \/ sess' = [sess EXCEPT !.state = "active", !.observed = First]
        \/ sess' = [sess EXCEPT !.saved = First]
    BY <1>9, <2>1 DEF Sessions!Activate, Sessions!SaveState
  <2> QED BY <1>4, <2>3, <2>4 DEF LoginTypes
<1> QED BY <1>5, <1>6, <1>7, <1>8, <1>9 DEF ChallengeStep, Sessions!LoginStep

\* The logins of every mode.
LoginsInv ==
    /\ LoginTypes /\ faults \in Nat
    /\ mode # "browser" => LoginInv
    /\ faults = 0 => Untouched

LEMMA LoginInvariant ==
    ASSUME Sessions!LoginAssumption
    PROVE  Sessions!Spec => []LoginsInv
<1>1. ASSUME Sessions!Init PROVE LoginsInv
  <2>1. First \in Principals
    BY DEF Sessions!LoginAssumption, First
  <2>2. LoginTypes
    BY <1>1, <2>1 DEF Sessions!Init, LoginTypes, Someone, Stored, RunRows, First,
       Sessions!ChallengeStates, Sessions!Answered
  <2>3. Untouched
    BY <1>1 DEF Sessions!Init, Untouched, First, Sessions!Answered
  <2> QED BY <1>1, <2>2, <2>3, LoginInit DEF LoginsInv, Sessions!Init
<1>2. ASSUME LoginsInv, [Sessions!Next]_(Sessions!vars) PROVE LoginsInv'
  <2>1. LoginTypes' /\ UNCHANGED mode
    <3>1. CASE UNCHANGED Sessions!vars
      BY <1>2, <3>1 DEF LoginsInv, LoginTypes, Sessions!vars
    <3>2. CASE AdminStep
      BY <1>2, <3>2, AdminTypes DEF LoginsInv, AdminStep, Sessions!Invalidate,
         Sessions!InvalidateDeletes, Sessions!RebindDeletes, Sessions!ConflictingBinding,
         Sessions!Restart, Sessions!Rebind
    <3> QED BY <1>2, <3>1, <3>2, CallTypes, ChallengeTypes
            DEF LoginsInv, Sessions!Next, CallerStep, ChallengeStep, AdminStep
  <2>2. mode' # "browser" => LoginInv'
    BY <1>2, <2>1, FormLoginsKeep DEF LoginsInv
  <2>3. faults' \in Nat /\ (faults' = 0 => Untouched')
    <3>1. CASE UNCHANGED Sessions!vars
      BY <1>2, <3>1 DEF LoginsInv, Untouched, Sessions!vars
    <3>2. CASE CallerStep
      <4>1. UNCHANGED faults
        BY <3>2 DEF CallerStep, Sessions!StartLogin, Sessions!UseSession, Sessions!CallStep,
           Sessions!CallEnters, Sessions!CallAnswered, Sessions!CallFindsNoLogin,
           Sessions!CallFails, Sessions!CallChecks, Sessions!CallActivates
      <4> QED BY <1>2, <3>2, <4>1, CallsLeaveUntouched DEF LoginsInv
    <3>3. ASSUME NEW c \in Challenges, ChallengeStep(c)
          PROVE  faults' \in Nat /\ (faults' = 0 => Untouched')
      <4>1. UNCHANGED faults
        BY <3>3 DEF ChallengeStep, Sessions!CreateChallenge, Sessions!GetCard,
           Sessions!Claim, Sessions!Expire, Sessions!LoginStep, Sessions!Bind, Sessions!Enter,
           Sessions!Authenticated, Sessions!AuthenticationFails, Sessions!Activate,
           Sessions!SaveState, Sessions!Complete, Sessions!FailSession, Sessions!FailChallenge
      <4> QED BY <1>2, <3>3, <4>1, LoginsLeaveUntouched DEF LoginsInv
    <3>4. CASE AdminStep
      <4>1. \/ faults' = faults + 1
            \/ UNCHANGED faults /\ admin # "idle"
        BY <3>4 DEF AdminStep, Sessions!Invalidate, Sessions!InvalidateDeletes,
           Sessions!RebindDeletes, Sessions!ConflictingBinding, Sessions!Restart,
           Sessions!Rebind
      <4> QED BY <1>2, <4>1 DEF LoginsInv, Untouched
    <3> QED BY <1>2, <3>1, <3>2, <3>3, <3>4
            DEF Sessions!Next, CallerStep, ChallengeStep, AdminStep
  <2> QED BY <2>1, <2>2, <2>3 DEF LoginsInv
<1> QED BY <1>1, <1>2, PTL DEF Sessions!Spec

\* Only the entry of a call in an active session makes it work there.
LEMMA EntersWithOwn ==
    ASSUME LoginsInv, [Sessions!Next]_(Sessions!vars)
    PROVE  Sessions!EntersOwnLogin
<1> SUFFICES ASSUME caller.pc = "wait", caller'.pc = "probe", Sessions!OwnLoginExpected
             PROVE  caller'.state \in {sess.observed, PreparedLogin}
  BY DEF Sessions!EntersOwnLogin
<1>1. caller' # caller /\ caller' # Sessions!Answered
  BY DEF Sessions!Answered
<1>2. Sessions!StartLogin \/ Sessions!UseSession \/ Sessions!CallStep
  <2>1. ASSUME NEW c \in Challenges, ChallengeStep(c) PROVE FALSE
    BY <1>1, <2>1 DEF ChallengeStep, Sessions!CreateChallenge, Sessions!GetCard,
       Sessions!Claim, Sessions!Expire, Sessions!LoginStep, Sessions!Bind, Sessions!Enter,
       Sessions!Authenticated, Sessions!AuthenticationFails, Sessions!Activate,
       Sessions!SaveState, Sessions!Complete, Sessions!FailSession, Sessions!FailChallenge
  <2>2. ~AdminStep /\ ~UNCHANGED Sessions!vars
    BY <1>1 DEF AdminStep, Sessions!Invalidate, Sessions!InvalidateDeletes,
       Sessions!RebindDeletes, Sessions!ConflictingBinding, Sessions!Rebind,
       Sessions!Restart, Sessions!vars
  <2> QED BY <2>1, <2>2 DEF Sessions!Next, ChallengeStep, AdminStep
<1>3. Sessions!CallEnters
  BY <1>2 DEF Sessions!StartLogin, Sessions!UseSession, Sessions!CallStep,
     Sessions!CallAnswered, Sessions!CallFindsNoLogin, Sessions!CallFails,
     Sessions!CallChecks, Sessions!CallActivates
<1>4. Sessions!AfterLost.pc # "probe"
  BY DEF Sessions!AfterLost, Sessions!Answered
<1>5. sess.state = "active" /\ sess.saved # Unset /\ caller'.state = sess.saved
  BY <1>3, <1>4 DEF Sessions!CallEnters, LoginsInv, LoginTypes
<1>6. CASE mode # "browser"
  BY <1>5, <1>6 DEF LoginsInv, LoginInv, ActiveIsOwn
<1>7. CASE faults = 0
  BY <1>5, <1>7 DEF LoginsInv, Untouched
<1> QED BY <1>6, <1>7 DEF Sessions!OwnLoginExpected

\* With every kind of login, the browser's too.
LEMMA SessionTypes ==
    ASSUME Sessions!LoginAssumption
    PROVE  Sessions!Spec => []Sessions!TypeOK
<1>1. ASSUME Sessions!Init PROVE LoginTypes
  <2>1. (CHOOSE p \in Principals : TRUE) \in Principals
    BY DEF Sessions!LoginAssumption
  <2> QED BY <1>1, <2>1 DEF Sessions!Init, LoginTypes, Someone, Stored, RunRows,
          Sessions!ChallengeStates, Sessions!Answered
<1>2. ASSUME LoginTypes, [Sessions!Next]_Sessions!vars PROVE LoginTypes'
  <2>1. CASE UNCHANGED Sessions!vars
    BY <1>2, <2>1 DEF LoginTypes, Sessions!vars
  <2> QED BY <1>2, <2>1, CallTypes, ChallengeTypes, AdminTypes
          DEF Sessions!Next, CallerStep, ChallengeStep, AdminStep
<1>3. LoginTypes => Sessions!TypeOK
  BY DEF LoginTypes, Sessions!TypeOK, RunRows, Someone, Stored
<1> QED BY <1>1, <1>2, <1>3, PTL DEF Sessions!Spec

(***************************************************************************)
(* The compilation and execution of plans.                                 *)
(***************************************************************************)

\* The variables of PlanCompilation.
proposal == v1
version == v2
phase == v4
range == v5
progress == v8
cover == v9
flow == v10

USE DEF proposal, version, phase, range, progress, cover, flow

PlanRefs(n) == [step : 1..n, at : {"whole", "items", "text"}]
PlanSteps(n) ==
    [name : Plans!Names, deps : SUBSET (1..n), many : BOOLEAN, main : SUBSET PlanRefs(n),
     side : SUBSET PlanRefs(n), days : {"none", "same", "other"}]
Proposals == UNION {[1..n -> PlanSteps(n)] : n \in {3, 4, 5}}

Named(p, names) == {k \in DOMAIN p : p[k].name \in names}
MainOf(p, k) == {r.step : r \in p[k].main}
SideOf(p, k) == {r.step : r \in p[k].side}

\* Whatever contains the dependencies of a step, and theirs, contains what the
\* step is bound to.
BoundToAncestors(p) ==
    \A k \in DOMAIN p : \A S \in SUBSET DOMAIN p :
        p[k].deps \subseteq S /\ (\A j \in S : p[j].deps \subseteq S) =>
            MainOf(p, k) \cup SideOf(p, k) \subseteq S

\* The write is a last step that comes from every source, and its text from a
\* draft.
Composed(p) ==
    \A w \in Named(p, Plans!Writes) :
        /\ \A S \in SUBSET DOMAIN p :
              w \in S /\ (\A j \in S : MainOf(p, j) \cup SideOf(p, j) \subseteq S) =>
                  Named(p, Plans!Sources) \subseteq S
        /\ p[w].name = "prepare" =>
              p[w].main # {} /\ MainOf(p, w) \subseteq Named(p, {"draft2"})

\* What the compiler has made sure of.
WellMade(p, ver, days) ==
    /\ \A k \in Named(p, Plans!Transforms) : p[k].main # {} /\ p[k].side = {}
    /\ \A k \in Named(p, Plans!Sources) : p[k].main = {} /\ p[k].side = {}
    /\ \A v, w \in Named(p, Plans!Writes) : v = w
    /\ BoundToAncestors(p)
    /\ ver = 2 => days # {} /\ Composed(p)

\* What a step that has succeeded has: the results of the steps it depends on
\* and is bound to, and the sources of those in its own.
StepGrounded(p, st, cov, fl, k) ==
    /\ \A d \in p[k].deps \cup MainOf(p, k) \cup SideOf(p, k) : st[d] = "succeeded"
    /\ p[k].name \in Plans!Sources => fl[k] = {k}
    /\ p[k].name \in Plans!Transforms \cup Plans!Writes => fl[k] = UNION {fl[j] : j \in MainOf(p, k)}
    /\ p[k].name = "merge" => MainOf(p, k) \subseteq Named(p, Plans!Sources)
    /\ p[k].name = "draft2" => MainOf(p, k) \subseteq Named(p, {"merge"})
    /\ p[k].name = "draft2" /\ Named(p, Plans!Writes) # {} => \A j \in fl[k] : cov[j] = "complete"
    /\ \A j \in fl[k] : st[j] = "succeeded" /\ p[j].name \in Plans!Sources
Grounded(p, st, cov, fl) ==
    /\ st \in [DOMAIN p -> {"queued", "succeeded"}]
    /\ cov \in [DOMAIN p -> {"complete", "partial"}]
    /\ fl \in [DOMAIN p -> SUBSET DOMAIN p]
    /\ \A k \in DOMAIN p : st[k] = "succeeded" => StepGrounded(p, st, cov, fl, k)

\* The inductive invariant of a plan.
PlansInv ==
    /\ proposal \in Proposals /\ version \in {1, 2} /\ range \subseteq Int
    /\ phase \in {"drafting", "rejected", "stored", "ended", "wrote"}
    /\ phase \in {"stored", "ended", "wrote"} =>
          WellMade(proposal, version, range) /\ Grounded(proposal, progress, cover, flow)
    /\ phase = "wrote" => \A w \in Named(proposal, Plans!Writes) : progress[w] = "succeeded"

LEMMA ProposalRows ==
    ASSUME NEW p \in Proposals
    PROVE  /\ IsFiniteSet(DOMAIN p)
           /\ \E n \in {3, 4, 5} : DOMAIN p = 1..n /\ p \in [1..n -> PlanSteps(n)]
           /\ \A k \in DOMAIN p : /\ p[k].name \in Plans!Names
                                  /\ p[k].deps \subseteq DOMAIN p
                                  /\ MainOf(p, k) \subseteq DOMAIN p
                                  /\ SideOf(p, k) \subseteq DOMAIN p
<1>1. PICK n \in {3, 4, 5} : p \in [1..n -> PlanSteps(n)]
  BY DEF Proposals
<1>2. DOMAIN p = 1..n
  BY <1>1
<1>3. IsFiniteSet(1..n)
  BY FS_Interval
<1>4. ASSUME NEW k \in 1..n
      PROVE  /\ p[k].name \in Plans!Names /\ p[k].deps \subseteq 1..n
             /\ MainOf(p, k) \subseteq 1..n /\ SideOf(p, k) \subseteq 1..n
  <2>1. p[k] \in PlanSteps(n)
    BY <1>1
  <2> QED BY <2>1 DEF PlanSteps, PlanRefs, MainOf, SideOf
<1> QED BY <1>1, <1>2, <1>3, <1>4

\* Of finitely many places one is the last.
LEMMA OneIsLast ==
    ASSUME NEW n \in {3, 4, 5}, NEW place, \A k \in 1..n : place[k] \in Nat
    PROVE  \E k \in 1..n : \A j \in 1..n : place[j] <= place[k]
<1> DEFINE Top(k, m) == k \in 1..m /\ \A j \in 1..m : place[j] <= place[k]
<1>1. ASSUME NEW m \in 1..n, m < n, NEW k \in 1..m, Top(k, m)
      PROVE  \E l \in 1..(m + 1) : Top(l, m + 1)
  <2>1. /\ 1..(m + 1) = 1..m \cup {m + 1} /\ m + 1 \in 1..n /\ 1..m \subseteq 1..n
        /\ place[m + 1] \in Nat /\ place[k] \in Nat
    BY <1>1
  <2>2. \A j \in 1..m : place[j] \in Nat /\ place[j] <= place[k]
    BY <1>1, <2>1
  <2>3. CASE place[m + 1] <= place[k]
    BY <2>1, <2>2, <2>3, <1>1
  <2>4. CASE place[k] <= place[m + 1]
    <3>1. \A j \in 1..m : place[j] <= place[m + 1]
      BY <2>1, <2>2, <2>4
    <3> QED BY <2>1, <3>1
  <2> QED BY <2>1, <2>3, <2>4
<1>2. Top(1, 1)
  <2>1. 1..1 = {1} /\ place[1] \in Nat
    OBVIOUS
  <2> QED BY <2>1
<1> HIDE DEF Top
<1>3. \E k \in 1..2 : Top(k, 2)
  BY <1>1, <1>2
<1>4. \E k \in 1..3 : Top(k, 3)
  BY <1>1, <1>3
<1>5. n \in {4, 5} => \E k \in 1..4 : Top(k, 4)
  BY <1>1, <1>4
<1>6. n = 5 => \E k \in 1..5 : Top(k, 5)
  BY <1>1, <1>5
<1>7. \E k \in 1..n : Top(k, n)
  BY <1>4, <1>5, <1>6
<1> QED BY <1>7 DEF Top

LEMMA PlansCount == \A T : Plans!Cardinality(T) = Cardinality(T)
  BY DEF Plans!Cardinality, Cardinality, Plans!IsFiniteSet, IsFiniteSet

LEMMA LastIsAStep ==
    ASSUME proposal \in Proposals
    PROVE  Plans!Last \in DOMAIN proposal
<1>1. IsFiniteSet(DOMAIN proposal)
  BY ProposalRows
<1>2. PICK n \in {3, 4, 5} : DOMAIN proposal = 1..n
  BY ProposalRows
<1>3. \A T \in SUBSET DOMAIN proposal : Plans!Cardinality(T) \in Nat
  BY <1>1, FS_Subset, FS_CardinalityType, PlansCount
<1> DEFINE place == Plans!Ordinals
<1>4. \A k \in 1..n : place[k] \in Nat
  <2>1. ASSUME NEW k \in 1..n
        PROVE  \E T \in SUBSET DOMAIN proposal : place[k] = 1 + Plans!Cardinality(T)
    <3> DEFINE placed == [m \in 1..Plans!Steps |-> Plans!Placed(m)]
               round == [i \in Plans!Keys |-> Plans!Cardinality({m \in 1..Plans!Steps : i \notin placed[m]})]
               earlier == {j \in Plans!Keys : round[j] < round[k] \/ (round[j] = round[k] /\ j < k)}
    <3>1. k \in Plans!Keys /\ earlier \in SUBSET DOMAIN proposal
      BY <1>2 DEF Plans!Keys
    <3>2. place[k] = 1 + Plans!Cardinality(earlier)
      BY <3>1, Zenon DEF Plans!Ordinals
    <3> QED BY <3>1, <3>2, Zenon
  <2> QED BY <1>3, <2>1
<1> HIDE DEF place
<1>5. \E k \in 1..n : \A j \in 1..n : place[j] <= place[k]
  BY <1>4, OneIsLast
<1> QED BY <1>2, <1>5 DEF Plans!Last, Plans!Keys, place

\* What a step is bound to is within every closed set.
LEMMA ClosureIsLeast ==
    /\ \A k \in Plans!Keys : \A S \in SUBSET Plans!Keys :
          Plans!DependsOn(k) \subseteq S /\ (\A j \in S : Plans!DependsOn(j) \subseteq S) =>
              Plans!Ancestors(k) \subseteq S
    /\ \A k \in Plans!Keys : \A S \in SUBSET Plans!Keys :
          k \in S /\ (\A j \in S : Plans!Bound(j) \subseteq S) => Plans!Lineage(k) \subseteq S
<1>1. ASSUME NEW k \in Plans!Keys, NEW S \in SUBSET Plans!Keys,
             Plans!DependsOn(k) \subseteq S, \A j \in S : Plans!DependsOn(j) \subseteq S
      PROVE  Plans!Ancestors(k) \subseteq S
  BY <1>1 DEF Plans!Ancestors, Plans!Closure
<1>2. ASSUME NEW k \in Plans!Keys, NEW S \in SUBSET Plans!Keys,
             k \in S, \A j \in S : Plans!Bound(j) \subseteq S
      PROVE  Plans!Lineage(k) \subseteq S
  BY <1>2 DEF Plans!Lineage, Plans!Closure
<1> QED BY <1>1, <1>2

LEMMA BoundIs ==
    ASSUME NEW k
    PROVE  Plans!Bound(k) = MainOf(proposal, k) \cup SideOf(proposal, k)
<1>1. \A x : x \in Plans!Bound(k) <=>
                 (\E r \in proposal[k].main : x = r.step) \/ (\E r \in proposal[k].side : x = r.step)
  BY DEF Plans!Bound
<1>2. \A x : x \in Plans!Bound(k) <=> x \in MainOf(proposal, k) \cup SideOf(proposal, k)
  BY <1>1 DEF MainOf, SideOf
<1> QED BY <1>2

LEMMA AcceptedIsWellMade ==
    ASSUME proposal \in Proposals, NEW days, Plans!Accepted(days)
    PROVE  WellMade(proposal, version, days)
<1>1. /\ \A k \in Plans!Keys : Plans!StepIsKnown(k)
      /\ Cardinality(Plans!WriteSteps) <= 1
      /\ \A k \in Plans!Keys : Plans!BindingsFit(k)
      /\ Plans!WriteSteps # {} => Plans!IsWrite(Plans!Last)
      /\ version = 2 => Plans!Provenance(days)
  BY PlansCount DEF Plans!Accepted
<1>2. Plans!Keys = DOMAIN proposal
  BY DEF Plans!Keys
<1>3. Plans!WriteSteps = Named(proposal, Plans!Writes)
  BY <1>2 DEF Plans!WriteSteps, Plans!IsWrite, Named
<1>4. /\ \A k \in Named(proposal, Plans!Transforms) :
            proposal[k].main # {} /\ proposal[k].side = {}
      /\ \A k \in Named(proposal, Plans!Sources) :
            proposal[k].main = {} /\ proposal[k].side = {}
  BY <1>1, <1>2 DEF Named, Plans!StepIsKnown
<1>5. ASSUME NEW v \in Named(proposal, Plans!Writes), NEW w \in Named(proposal, Plans!Writes)
      PROVE  v = w
  <2>1. IsFiniteSet(Plans!WriteSteps)
    <3>1. Plans!WriteSteps \subseteq DOMAIN proposal
      BY <1>3 DEF Named
    <3> QED BY <3>1, ProposalRows, FS_Subset
  <2>2. SUFFICES ASSUME v # w PROVE FALSE
    OBVIOUS
  <2>3. {v, w} \subseteq Plans!WriteSteps
    BY <1>3
  <2>4. IsFiniteSet({v, w}) /\ Cardinality({v, w}) = 2
    <3>1. IsFiniteSet({v}) /\ Cardinality({v}) = 1
      BY FS_Singleton
    <3>2. w \notin {v} /\ {v} \cup {w} = {v, w}
      BY <2>2
    <3> QED BY <3>1, <3>2, FS_AddElement
  <2>5. Cardinality({v, w}) <= Cardinality(Plans!WriteSteps) /\ Cardinality(Plans!WriteSteps) \in Nat
    BY <2>1, <2>3, FS_Subset, FS_CardinalityType
  <2> QED BY <1>1, <2>4, <2>5
<1>6. BoundToAncestors(proposal)
  <2> SUFFICES ASSUME NEW k \in DOMAIN proposal, NEW S \in SUBSET DOMAIN proposal,
                      proposal[k].deps \subseteq S, \A j \in S : proposal[j].deps \subseteq S
               PROVE  MainOf(proposal, k) \cup SideOf(proposal, k) \subseteq S
    BY DEF BoundToAncestors
  <2>1. Plans!Ancestors(k) \subseteq S
    BY <1>2, ClosureIsLeast DEF Plans!DependsOn
  <2>2. Plans!Bound(k) \subseteq Plans!Ancestors(k)
    BY <1>1, <1>2 DEF Plans!BindingsFit
  <2> QED BY <2>1, <2>2, BoundIs
<1>7. ASSUME version = 2, NEW w \in Named(proposal, Plans!Writes)
      PROVE  /\ days # {}
             /\ \A S \in SUBSET DOMAIN proposal :
                   w \in S /\ (\A j \in S : MainOf(proposal, j) \cup SideOf(proposal, j) \subseteq S) =>
                       Named(proposal, Plans!Sources) \subseteq S
             /\ proposal[w].name = "prepare" =>
                   proposal[w].main # {} /\ MainOf(proposal, w) \subseteq Named(proposal, {"draft2"})
  <2>1. Plans!UsesEverySource(days) /\ Plans!DerivedIsDrafted(w)
    BY <1>1, <1>3, <1>7 DEF Plans!Provenance
  <2>2. Plans!Last = w
    <3>1. Plans!Last \in Named(proposal, Plans!Writes)
      BY <1>1, <1>3, <1>7, LastIsAStep DEF Named, Plans!IsWrite
    <3> QED BY <1>5, <3>1
  <2>3. days # {} /\ Plans!BusinessSources \subseteq Plans!Lineage(w)
    BY <2>1, <2>2 DEF Plans!UsesEverySource
  <2>4. Plans!BusinessSources = Named(proposal, Plans!Sources)
    BY <1>2 DEF Plans!BusinessSources, Named
  <2>5. w \in Plans!Keys
    BY <1>2 DEF Named
  <2>6. ASSUME NEW S \in SUBSET DOMAIN proposal, w \in S,
               \A j \in S : MainOf(proposal, j) \cup SideOf(proposal, j) \subseteq S
        PROVE  Named(proposal, Plans!Sources) \subseteq S
    <3>1. Plans!Lineage(w) \subseteq S
      BY <1>2, <2>5, <2>6, BoundIs, ClosureIsLeast
    <3> QED BY <2>3, <2>4, <3>1
  <2>7. ASSUME proposal[w].name = "prepare"
        PROVE  proposal[w].main # {} /\ MainOf(proposal, w) \subseteq Named(proposal, {"draft2"})
    <3>1. MainOf(proposal, w) \subseteq DOMAIN proposal
      BY <1>2, <2>5, ProposalRows
    <3>2. proposal[w].main # {} /\ \A r \in proposal[w].main : proposal[r.step].name = "draft2"
      BY <2>1, <2>7 DEF Plans!DerivedIsDrafted
    <3> QED BY <3>1, <3>2 DEF Named, MainOf
  <2> QED BY <2>3, <2>6, <2>7
<1>8. version = 2 => days # {} /\ Composed(proposal)
  <2>1. version = 2 => days # {}
    BY <1>1 DEF Plans!Provenance, Plans!UsesEverySource
  <2> QED BY <1>7, <2>1 DEF Composed
<1> QED BY <1>4, <1>5, <1>6, <1>8 DEF WellMade

\* What a plan writes as the work log is complete.
LEMMA WritesAreComplete ==
    ASSUME PlansInv
    PROVE  Plans!WriteIsComplete
<1> DEFINE sources == Named(proposal, Plans!Sources)
<1>1. SUFFICES ASSUME phase = "wrote", version = 2, NEW w \in Plans!WriteSteps,
                      proposal[w].name = "prepare"
               PROVE  /\ flow[w] # {}
                      /\ \A j \in flow[w] : cover[j] = "complete"
                      /\ range # {}
                      /\ Plans!BusinessSources \subseteq
                            flow[w] \cup UNION {Plans!Lineage(r.step) : r \in proposal[w].side}
  BY DEF Plans!WriteIsComplete
<1>2. /\ w \in DOMAIN proposal /\ w \in Named(proposal, Plans!Writes)
      /\ Plans!BusinessSources = sources /\ Plans!Keys = DOMAIN proposal
  BY DEF Plans!WriteSteps, Plans!IsWrite, Plans!Keys, Plans!BusinessSources, Named
<1>3. WellMade(proposal, version, range) /\ Grounded(proposal, progress, cover, flow)
      /\ proposal \in Proposals /\ progress[w] = "succeeded"
  BY <1>1, <1>2 DEF PlansInv
<1>4. /\ range # {} /\ proposal[w].main # {}
      /\ MainOf(proposal, w) \subseteq Named(proposal, {"draft2"})
      /\ \A S \in SUBSET DOMAIN proposal :
            w \in S /\ (\A j \in S : MainOf(proposal, j) \cup SideOf(proposal, j) \subseteq S) =>
                sources \subseteq S
  BY <1>1, <1>2, <1>3 DEF WellMade, Composed
<1>5. \A k \in DOMAIN proposal : progress[k] = "succeeded" =>
          StepGrounded(proposal, progress, cover, flow, k)
  BY <1>3 DEF Grounded
<1>6. /\ flow[w] = UNION {flow[j] : j \in MainOf(proposal, w)}
      /\ \A j \in MainOf(proposal, w) : progress[j] = "succeeded"
      /\ flow[w] \subseteq sources
  <2>1. proposal[w].name \in Plans!Writes
    BY <1>2 DEF Named
  <2>2. flow[w] \subseteq DOMAIN proposal
    BY <1>2, <1>3 DEF Grounded
  <2> QED BY <1>2, <1>3, <1>5, <2>1, <2>2 DEF StepGrounded, Named
\* Drafts are made of what was merged, and that of sources.
<1>7. ASSUME NEW j \in Named(proposal, {"draft2"}), progress[j] = "succeeded"
      PROVE  /\ flow[j] = UNION {flow[i] : i \in MainOf(proposal, j)}
             /\ MainOf(proposal, j) \subseteq Named(proposal, {"merge"})
             /\ \A i \in MainOf(proposal, j) : progress[i] = "succeeded"
             /\ \A i \in flow[j] : cover[i] = "complete"
             /\ proposal[j].main # {} /\ proposal[j].side = {}
  <2>1. j \in DOMAIN proposal /\ proposal[j].name = "draft2" /\ j \in Named(proposal, Plans!Transforms)
    BY DEF Named, Plans!Transforms
  <2>2. StepGrounded(proposal, progress, cover, flow, j)
    BY <1>5, <1>7, <2>1
  <2>3. Named(proposal, Plans!Writes) # {}
    BY <1>2
  <2> QED BY <1>3, <2>1, <2>2, <2>3 DEF StepGrounded, WellMade, Plans!Transforms
<1>8. ASSUME NEW j \in Named(proposal, {"merge"}), progress[j] = "succeeded"
      PROVE  /\ flow[j] = UNION {flow[i] : i \in MainOf(proposal, j)}
             /\ \A i \in MainOf(proposal, j) : i \in sources /\ flow[i] = {i}
             /\ proposal[j].main # {} /\ proposal[j].side = {}
  <2>1. j \in DOMAIN proposal /\ proposal[j].name = "merge" /\ j \in Named(proposal, Plans!Transforms)
    BY DEF Named, Plans!Transforms
  <2>2. StepGrounded(proposal, progress, cover, flow, j)
    BY <1>5, <1>8, <2>1
  <2>3. \A i \in MainOf(proposal, j) : i \in sources /\ progress[i] = "succeeded"
    BY <2>1, <2>2 DEF StepGrounded
  <2>4. ASSUME NEW i \in MainOf(proposal, j)
        PROVE  flow[i] = {i}
    <3>1. i \in DOMAIN proposal /\ proposal[i].name \in Plans!Sources
      BY <2>3 DEF Named
    <3>2. StepGrounded(proposal, progress, cover, flow, i)
      BY <1>5, <2>3, <3>1
    <3> QED BY <3>1, <3>2 DEF StepGrounded
  <2> QED BY <1>3, <2>1, <2>2, <2>3, <2>4 DEF StepGrounded, WellMade, Plans!Transforms
<1>9. flow[w] # {}
  <2>1. PICK r \in proposal[w].main : TRUE
    BY <1>4
  <2>2. PICK j \in MainOf(proposal, w) : TRUE
    BY <2>1 DEF MainOf
  <2>3. j \in Named(proposal, {"draft2"}) /\ progress[j] = "succeeded"
    BY <1>4, <1>6, <2>2
  <2>4. PICK i \in MainOf(proposal, j) : TRUE
    BY <1>7, <2>3 DEF MainOf
  <2>5. i \in Named(proposal, {"merge"}) /\ progress[i] = "succeeded"
    BY <1>7, <2>3, <2>4
  <2>6. PICK h \in MainOf(proposal, i) : TRUE
    BY <1>8, <2>5 DEF MainOf
  <2>7. h \in flow[i]
    BY <1>8, <2>5, <2>6
  <2>8. h \in flow[j]
    BY <1>7, <2>3, <2>4, <2>7
  <2> QED BY <1>6, <2>2, <2>8
<1>10. \A j \in flow[w] : cover[j] = "complete"
  BY <1>4, <1>6, <1>7
<1>11. sources \subseteq flow[w] \cup UNION {Plans!Lineage(r.step) : r \in proposal[w].side}
  <2> DEFINE Drawn(names) ==
               {j \in Named(proposal, names) : progress[j] = "succeeded" /\ flow[j] \subseteq flow[w]}
             asked == UNION {Plans!Closure({r.step}, Plans!Bound) : r \in proposal[w].side}
             S == {w} \cup Drawn({"draft2"}) \cup Drawn({"merge"}) \cup flow[w] \cup asked
  <2>1. asked \subseteq DOMAIN proposal
    BY <1>2 DEF Plans!Closure
  <2>2. \A r \in proposal[w].side : r.step \in asked
    <3>1. ASSUME NEW r \in proposal[w].side
          PROVE  r.step \in Plans!Closure({r.step}, Plans!Bound)
      <4>1. r.step \in DOMAIN proposal
        BY <1>2, <1>3, ProposalRows DEF SideOf
      <4> QED BY <1>2, <4>1 DEF Plans!Closure
    <3> QED BY <3>1
  <2>3. \A j \in asked : MainOf(proposal, j) \cup SideOf(proposal, j) \subseteq asked
    <3>1. ASSUME NEW r \in proposal[w].side, NEW j \in Plans!Closure({r.step}, Plans!Bound)
          PROVE  MainOf(proposal, j) \cup SideOf(proposal, j) \subseteq
                     Plans!Closure({r.step}, Plans!Bound)
      <4>1. j \in DOMAIN proposal
        BY <1>2 DEF Plans!Closure
      <4>2. Plans!Bound(j) \subseteq DOMAIN proposal
        BY <1>3, <4>1, BoundIs, ProposalRows
      <4>3. Plans!Bound(j) \subseteq Plans!Closure({r.step}, Plans!Bound)
        BY <1>2, <3>1, <4>2 DEF Plans!Closure
      <4> QED BY <4>3, BoundIs
    <3> QED BY <3>1
  <2> HIDE DEF asked
  <2>4. S \subseteq DOMAIN proposal
    BY <1>2, <1>6, <2>1 DEF Named
  <2>5. ASSUME NEW j \in S
        PROVE  MainOf(proposal, j) \cup SideOf(proposal, j) \subseteq S
    <3>1. CASE j = w
      <4>1. ASSUME NEW i \in MainOf(proposal, w)
            PROVE  i \in Drawn({"draft2"})
        BY <1>4, <1>6
      <4>2. SideOf(proposal, w) \subseteq asked
        BY <2>2 DEF SideOf
      <4> QED BY <3>1, <4>1, <4>2
    <3>2. CASE j \in Drawn({"draft2"})
      <4>1. MainOf(proposal, j) \subseteq Drawn({"merge"})
        BY <1>7, <3>2
      <4>2. SideOf(proposal, j) = {}
        BY <1>7, <3>2 DEF SideOf
      <4> QED BY <4>1, <4>2
    <3>3. CASE j \in Drawn({"merge"})
      <4>1. MainOf(proposal, j) \subseteq flow[w]
        BY <1>8, <3>3
      <4>2. SideOf(proposal, j) = {}
        BY <1>8, <3>3 DEF SideOf
      <4> QED BY <4>1, <4>2
    <3>4. CASE j \in flow[w]
      <4>1. proposal[j].main = {} /\ proposal[j].side = {}
        BY <1>3, <1>6, <3>4 DEF WellMade
      <4> QED BY <4>1 DEF MainOf, SideOf
    <3>5. CASE j \in asked
      BY <2>3, <3>5
    <3> QED BY <3>1, <3>2, <3>3, <3>4, <3>5
  <2>6. sources \subseteq S
    BY <1>4, <2>4, <2>5
  <2>7. ASSUME NEW s \in sources
        PROVE  s \in flow[w] \/ s \in asked
    <3>1. proposal[s].name \in Plans!Sources
      BY DEF Named
    <3>2. proposal[s].name \notin {"prepare", "draft2", "merge"}
      BY <3>1 DEF Plans!Sources
    <3> QED BY <1>1, <2>6, <3>2 DEF Named
  <2>8. ASSUME NEW s \in sources, s \in asked
        PROVE  s \in UNION {Plans!Lineage(r.step) : r \in proposal[w].side}
    <3>1. PICK r \in proposal[w].side : s \in Plans!Closure({r.step}, Plans!Bound)
      BY <2>8 DEF asked
    <3>2. s \in Plans!Lineage(r.step)
      BY <1>2, <3>1 DEF Plans!Lineage
    <3> QED BY <3>2
  <2> QED BY <2>7, <2>8
<1> QED BY <1>2, <1>4, <1>9, <1>10, <1>11

LEMMA ExamplesFit ==
    ASSUME NEW n \in {3, 4, 5}
    PROVE  Plans!Example(n) \in Proposals
<1>1. ASSUME NEW k \in 1..n
      PROVE  Plans!Example(n)[k] \in PlanSteps(n)
  <2>1. \A name \in Plans!Names : \A deps \in SUBSET (1..n) : \A many \in BOOLEAN :
           \A main \in SUBSET PlanRefs(n) :
              Plans!Step(name, deps, many, main) \in PlanSteps(n)
    BY DEF Plans!Step, PlanSteps
  <2>2. \A j \in 1..n : Plans!Ref(j, "whole") \in PlanRefs(n) /\ Plans!Ref(j, "text") \in PlanRefs(n)
    BY DEF Plans!Ref, PlanRefs
  <2>3. {"done", "sent", "merge", "draft2", "prepare"} \subseteq Plans!Names
    BY DEF Plans!Names, Plans!Sources, Plans!Writes, Plans!Transforms
  <2>4. CASE k = 1
    <3>1. Plans!Example(n)[k] = Plans!Step("done", {}, FALSE, {})
      BY <2>4 DEF Plans!Example
    <3> QED BY <2>1, <2>3, <3>1
  <2>5. CASE k = 2
    <3>1. Plans!Example(n)[k] = Plans!Step("sent", {}, FALSE, {})
      BY <2>5 DEF Plans!Example
    <3> QED BY <2>1, <2>3, <3>1
  <2>6. CASE k = 3
    <3>1. Plans!Example(n)[k] =
            Plans!Step("merge", {1, 2}, TRUE, {Plans!Ref(1, "whole"), Plans!Ref(2, "whole")})
      BY <2>6 DEF Plans!Example
    <3>2. {1, 2} \in SUBSET (1..n) /\ 1 \in 1..n /\ 2 \in 1..n
      OBVIOUS
    <3> QED BY <2>1, <2>2, <2>3, <3>1, <3>2
  <2>7. CASE k = 4
    <3>1. Plans!Example(n)[k] = Plans!Step("draft2", {3}, FALSE, {Plans!Ref(3, "whole")})
      BY <2>7 DEF Plans!Example
    <3>2. {3} \in SUBSET (1..n) /\ 3 \in 1..n
      OBVIOUS
    <3> QED BY <2>1, <2>2, <2>3, <3>1, <3>2
  <2>8. CASE k = 5
    <3>1. Plans!Example(n)[k] = Plans!Step("prepare", {4}, FALSE, {Plans!Ref(4, "text")})
      BY <2>8 DEF Plans!Example
    <3>2. {4} \in SUBSET (1..n) /\ 4 \in 1..n
      BY <2>8
    <3> QED BY <2>1, <2>2, <2>3, <3>1, <3>2
  <2>9. k \in {1, 2, 3, 4, 5}
    OBVIOUS
  <2> QED BY <2>4, <2>5, <2>6, <2>7, <2>8, <2>9
<1>2. Plans!Example(n) \in [1..n -> PlanSteps(n)]
  BY <1>1 DEF Plans!Example
<1> QED BY <1>2 DEF Proposals

\* The host writes; nothing is stored yet.
LEMMA EditsKeepPlan ==
    ASSUME PlansInv, NEW k \in Plans!Keys,
           Plans!Rename(k) \/ Plans!EditDeps(k) \/ Plans!Rebind(k) \/ Plans!SetDays(k)
    PROVE  PlansInv'
<1>1. PICK n \in {3, 4, 5} : DOMAIN proposal = 1..n /\ proposal \in [1..n -> PlanSteps(n)]
  BY ProposalRows DEF PlansInv
<1>2. k \in 1..n /\ proposal[k] \in PlanSteps(n) /\ Plans!Keys = 1..n
  BY <1>1 DEF Plans!Keys
<1>3. /\ proposal[k].name \in Plans!Names /\ proposal[k].deps \in SUBSET (1..n)
      /\ proposal[k].many \in BOOLEAN /\ proposal[k].main \in SUBSET PlanRefs(n)
      /\ proposal[k].side \in SUBSET PlanRefs(n) /\ proposal[k].days \in {"none", "same", "other"}
  BY <1>2 DEF PlanSteps
<1>4. PICK step \in PlanSteps(n) : Plans!Edit(k, step)
  <2>1. CASE Plans!Rename(k)
    <3>1. PICK name \in Plans!Names : Plans!Edit(k, [proposal[k] EXCEPT !.name = name])
      BY <2>1 DEF Plans!Rename
    <3>2. [proposal[k] EXCEPT !.name = name] \in PlanSteps(n)
      BY <1>2 DEF PlanSteps
    <3> QED BY <3>1, <3>2
  <2>2. CASE Plans!EditDeps(k)
    <3>1. PICK deps \in SUBSET (1..n) : Plans!Edit(k, [proposal[k] EXCEPT !.deps = deps])
      BY <1>2, <1>3, <2>2 DEF Plans!EditDeps
    <3>2. [proposal[k] EXCEPT !.deps = deps] \in PlanSteps(n)
      BY <1>2 DEF PlanSteps
    <3> QED BY <3>1, <3>2
  <2>3. CASE Plans!Rebind(k)
    <3>1. PICK r \in Plans!Refs :
             \/ Plans!Edit(k, [proposal[k] EXCEPT !.many = FALSE, !.main = {r}])
             \/ Plans!Edit(k, [proposal[k] EXCEPT !.many = TRUE, !.main = @ \cup {r}])
             \/ Plans!Edit(k, [proposal[k] EXCEPT !.main = @ \ {r}])
             \/ Plans!Edit(k, [proposal[k] EXCEPT !.side = {r}])
      BY <2>3 DEF Plans!Rebind
    <3>2. r \in PlanRefs(n)
      BY <1>2 DEF Plans!Refs, Plans!Ref, PlanRefs
    <3>3. /\ [proposal[k] EXCEPT !.many = FALSE, !.main = {r}] \in PlanSteps(n)
          /\ [proposal[k] EXCEPT !.many = TRUE, !.main = @ \cup {r}] \in PlanSteps(n)
          /\ [proposal[k] EXCEPT !.main = @ \ {r}] \in PlanSteps(n)
          /\ [proposal[k] EXCEPT !.side = {r}] \in PlanSteps(n)
      BY <1>2, <1>3, <3>2 DEF PlanSteps
    <3> QED BY <3>1, <3>3
  <2>4. CASE Plans!SetDays(k)
    <3>1. PICK d \in {"same", "other"} : Plans!Edit(k, [proposal[k] EXCEPT !.days = d])
      BY <2>4 DEF Plans!SetDays
    <3>2. [proposal[k] EXCEPT !.days = d] \in PlanSteps(n)
      BY <1>2 DEF PlanSteps
    <3> QED BY <3>1, <3>2
  <2> QED BY <2>1, <2>2, <2>3, <2>4
<1>5. /\ phase = "drafting" /\ phase' = phase /\ version' = version /\ range' = range
      /\ proposal' = [proposal EXCEPT ![k] = step]
  BY <1>4 DEF Plans!Edit
<1>6. proposal' \in [1..n -> PlanSteps(n)]
  BY <1>1, <1>2, <1>5
<1>7. proposal' \in Proposals
  BY <1>6 DEF Proposals
<1> QED BY <1>5, <1>7 DEF PlansInv

LEMMA AcceptKeepsPlan ==
    ASSUME PlansInv, NEW days, days \subseteq Int, Plans!Prepare(days)
    PROVE  PlansInv'
<1>1. version' = version /\ version \in {1, 2} /\ proposal \in Proposals /\ range \subseteq Int
  BY DEF Plans!Prepare, PlansInv
<1>2. CASE Plans!Accepted(days)
  <2>1. /\ phase' = "stored" /\ range' = days /\ proposal' = proposal
        /\ progress' = [k \in DOMAIN proposal |-> "queued"]
        /\ cover' = [k \in DOMAIN proposal |-> "complete"]
        /\ flow' = [k \in DOMAIN proposal |-> {}]
    BY <1>2 DEF Plans!Prepare, Plans!Keys
  <2>2. WellMade(proposal, version, days)
    BY <1>1, <1>2, AcceptedIsWellMade
  <2>3. WellMade(proposal', version', range')
    BY <1>1, <2>1, <2>2
  <2>4. Grounded(proposal', progress', cover', flow')
    BY <2>1 DEF Grounded
  <2> QED BY <1>1, <2>1, <2>3, <2>4 DEF PlansInv
<1>3. CASE ~Plans!Accepted(days)
  <2>1. phase' = "rejected" /\ range' = range /\ proposal' = Plans!Example(3)
    BY <1>3 DEF Plans!Prepare
  <2>2. Plans!Example(3) \in Proposals
    BY ExamplesFit
  <2> QED BY <1>1, <2>1, <2>2 DEF PlansInv
<1> QED BY <1>2, <1>3

LEMMA DaysAreDays ==
    ASSUME NEW kind \in Plans!Kinds, NEW hour \in Anchors, Plans!AnchorsAssumption
    PROVE  Plans!Days(kind, Plans!LocalDay(hour)) \subseteq Int
<1>1. hour \in Nat
  BY DEF Plans!AnchorsAssumption
<1>2. Plans!LocalDay(hour) \in Int
  BY <1>1 DEF Plans!LocalDay
<1>3. Plans!ThisMonday(Plans!LocalDay(hour)) \in Int
  BY <1>2 DEF Plans!ThisMonday, Plans!WeekdayOf
<1> QED BY <1>2, <1>3 DEF Plans!Days, Plans!Kinds

\* A step that is taken leaves what the others have as it is.
LEMMA OthersStay ==
    ASSUME NEW p \in Proposals, NEW st, NEW cov, NEW fl, NEW st2, NEW cov2, NEW fl2,
           Grounded(p, st, cov, fl), NEW k \in DOMAIN p, st[k] = "queued",
           st2 \in [DOMAIN p -> {"queued", "succeeded"}],
           cov2 \in [DOMAIN p -> {"complete", "partial"}],
           fl2 \in [DOMAIN p -> SUBSET DOMAIN p],
           \A j \in DOMAIN p \ {k} : st2[j] = st[j] /\ cov2[j] = cov[j] /\ fl2[j] = fl[j],
           st2[k] = "succeeded" => StepGrounded(p, st2, cov2, fl2, k)
    PROVE  Grounded(p, st2, cov2, fl2)
<1>1. ASSUME NEW j \in DOMAIN p, st2[j] = "succeeded", j # k
      PROVE  StepGrounded(p, st2, cov2, fl2, j)
  <2>1. st[j] = "succeeded" /\ StepGrounded(p, st, cov, fl, j) /\ fl2[j] = fl[j]
    BY <1>1 DEF Grounded
  <2>2. /\ p[j].deps \cup MainOf(p, j) \cup SideOf(p, j) \subseteq DOMAIN p
        /\ fl[j] \subseteq DOMAIN p
    BY ProposalRows DEF Grounded
  <2>3. \A d \in DOMAIN p : st[d] = "succeeded" =>
           d # k /\ st2[d] = "succeeded" /\ cov2[d] = cov[d] /\ fl2[d] = fl[d]
    OBVIOUS
  <2>4. \A d \in p[j].deps \cup MainOf(p, j) \cup SideOf(p, j) :
           st2[d] = "succeeded" /\ fl2[d] = fl[d]
    BY <2>1, <2>2, <2>3 DEF StepGrounded
  <2>5. \A d \in fl2[j] : st2[d] = "succeeded" /\ cov2[d] = cov[d] /\ p[d].name \in Plans!Sources
    BY <2>1, <2>2, <2>3 DEF StepGrounded
  <2>6. UNION {fl2[i] : i \in MainOf(p, j)} = UNION {fl[i] : i \in MainOf(p, j)}
    BY <2>4
  <2> QED BY <2>1, <2>4, <2>5, <2>6 DEF StepGrounded
<1> QED BY <1>1 DEF Grounded

\* A step that may start finds the results of all it is bound to.
LEMMA InputsAreThere ==
    ASSUME NEW p \in Proposals, NEW st, NEW cov, NEW fl, BoundToAncestors(p),
           Grounded(p, st, cov, fl), NEW k \in DOMAIN p,
           \A d \in p[k].deps : st[d] = "succeeded"
    PROVE  \A d \in MainOf(p, k) \cup SideOf(p, k) : st[d] = "succeeded"
<1> DEFINE S == {j \in DOMAIN p : st[j] = "succeeded"}
<1>1. p[k].deps \subseteq S
  BY ProposalRows
<1>2. \A j \in S : p[j].deps \subseteq S
  BY ProposalRows DEF Grounded, StepGrounded
<1>3. MainOf(p, k) \cup SideOf(p, k) \subseteq S
  BY <1>1, <1>2 DEF BoundToAncestors
<1> QED BY <1>3

\* What is true of the step whose turn it is.
Turn(k) ==
    /\ proposal \in Proposals /\ k \in DOMAIN proposal /\ progress[k] = "queued"
    /\ Grounded(proposal, progress, cover, flow) /\ WellMade(proposal, version, range)
    /\ \A d \in proposal[k].deps \cup MainOf(proposal, k) \cup SideOf(proposal, k) :
          d \in DOMAIN proposal /\ progress[d] = "succeeded"

LEMMA NextHasItsTurn ==
    ASSUME PlansInv, NEW k \in Plans!Keys, Plans!IsNext(k)
    PROVE  Turn(k)
<1>1. /\ phase = "stored" /\ k \in DOMAIN proposal /\ progress[k] = "queued"
      /\ \A d \in proposal[k].deps : progress[d] = "succeeded"
  BY DEF Plans!IsNext, Plans!Startable, Plans!Keys
<1>2. /\ proposal \in Proposals /\ WellMade(proposal, version, range)
      /\ Grounded(proposal, progress, cover, flow) /\ BoundToAncestors(proposal)
  BY <1>1 DEF PlansInv, WellMade
<1>3. \A d \in MainOf(proposal, k) \cup SideOf(proposal, k) : progress[d] = "succeeded"
  BY <1>1, <1>2, InputsAreThere
<1>4. proposal[k].deps \cup MainOf(proposal, k) \cup SideOf(proposal, k) \subseteq DOMAIN proposal
  BY <1>1, <1>2, ProposalRows
<1> QED BY <1>1, <1>2, <1>3, <1>4 DEF Turn

LEMMA ReadKeepsPlan ==
    ASSUME PlansInv, NEW k \in Plans!Keys, NEW how \in {"complete", "partial"}, Plans!Read(k, how)
    PROVE  PlansInv'
<1>1. /\ Plans!IsNext(k) /\ proposal' = proposal /\ version' = version /\ range' = range
      /\ proposal[k].name \in Plans!Sources \cup {"lookup"}
      /\ progress' = [progress EXCEPT ![k] = "succeeded"]
      /\ cover' = [cover EXCEPT ![k] = how]
      /\ flow' = [flow EXCEPT ![k] = Plans!BusinessSources \cap {k}]
      /\ phase' \in {"ended", phase} /\ phase = "stored"
  BY DEF Plans!Read, Plans!IsNext
<1>2. Turn(k)
  BY <1>1, NextHasItsTurn
<1>3. /\ progress' \in [DOMAIN proposal -> {"queued", "succeeded"}] /\ progress'[k] = "succeeded"
      /\ cover' \in [DOMAIN proposal -> {"complete", "partial"}]
      /\ flow' \in [DOMAIN proposal -> SUBSET DOMAIN proposal]
      /\ flow'[k] = Plans!BusinessSources \cap {k}
      /\ \A j \in DOMAIN proposal \ {k} :
            progress'[j] = progress[j] /\ cover'[j] = cover[j] /\ flow'[j] = flow[j]
  BY <1>1, <1>2 DEF Turn, Grounded
<1>4. /\ proposal[k].name \notin Plans!Transforms \cup Plans!Writes
      /\ proposal[k].name \notin {"merge", "draft2"}
      /\ proposal[k].name \in Plans!Sources => flow'[k] = {k}
      /\ \A j \in flow'[k] : j = k /\ proposal[k].name \in Plans!Sources
  BY <1>1, <1>3 DEF Plans!BusinessSources, Plans!Sources, Plans!Transforms, Plans!Writes
<1>5. \A d \in proposal[k].deps \cup MainOf(proposal, k) \cup SideOf(proposal, k) :
         progress'[d] = "succeeded"
  BY <1>2, <1>3 DEF Turn
<1>6. StepGrounded(proposal, progress', cover', flow', k)
  BY <1>3, <1>4, <1>5 DEF StepGrounded
<1>7. Grounded(proposal, progress', cover', flow')
  BY <1>2, <1>3, <1>6, OthersStay DEF Turn
<1> QED BY <1>1, <1>2, <1>7 DEF PlansInv, Turn

LEMMA TransformKeepsPlan ==
    ASSUME PlansInv, NEW k \in Plans!Keys, NEW empty \in BOOLEAN, Plans!Transform(k, empty)
    PROVE  PlansInv'
<1>1. /\ Plans!IsNext(k) /\ proposal' = proposal /\ version' = version /\ range' = range
      /\ proposal[k].name \in Plans!Transforms
      /\ cover' = cover /\ phase' \in {"ended", phase} /\ phase = "stored"
      /\ flow' = [flow EXCEPT ![k] = UNION {flow[j] : j \in MainOf(proposal, k)}]
      /\ \/ /\ Plans!InputIsValid(k) /\ ~Plans!HaltsIncomplete(k)
            /\ progress' = [progress EXCEPT ![k] = "succeeded"]
         \/ progress' = progress
  BY DEF Plans!Transform, Plans!IsNext, Plans!IsTransform, Plans!Inputs, MainOf
<1>2. Turn(k)
  BY <1>1, NextHasItsTurn
<1>3. /\ UNION {flow[j] : j \in MainOf(proposal, k)} \subseteq DOMAIN proposal
      /\ flow'[k] = UNION {flow[j] : j \in MainOf(proposal, k)}
      /\ k \notin MainOf(proposal, k)
      /\ \A j \in UNION {flow[i] : i \in MainOf(proposal, k)} :
            progress[j] = "succeeded" /\ proposal[j].name \in Plans!Sources
  <2>1. \A j \in MainOf(proposal, k) : j # k /\ StepGrounded(proposal, progress, cover, flow, j)
                                      /\ flow[j] \subseteq DOMAIN proposal
    BY <1>2 DEF Turn, Grounded
  <2>2. flow'[k] = UNION {flow[j] : j \in MainOf(proposal, k)}
    BY <1>1, <1>2 DEF Turn, Grounded
  <2> QED BY <2>1, <2>2 DEF StepGrounded
<1>4. /\ progress' \in [DOMAIN proposal -> {"queued", "succeeded"}]
      /\ cover' \in [DOMAIN proposal -> {"complete", "partial"}]
      /\ flow' \in [DOMAIN proposal -> SUBSET DOMAIN proposal]
      /\ \A j \in DOMAIN proposal \ {k} :
            progress'[j] = progress[j] /\ cover'[j] = cover[j] /\ flow'[j] = flow[j]
  BY <1>1, <1>2, <1>3 DEF Turn, Grounded
<1>5. ASSUME progress'[k] = "succeeded"
      PROVE  StepGrounded(proposal, progress', cover', flow', k)
  <2>1. Plans!InputIsValid(k) /\ ~Plans!HaltsIncomplete(k)
    BY <1>1, <1>2, <1>5 DEF Turn
  <2>2. \A d \in proposal[k].deps \cup MainOf(proposal, k) \cup SideOf(proposal, k) :
           progress'[d] = "succeeded"
    BY <1>2, <1>4, <1>5 DEF Turn
  <2>3. proposal[k].name \notin Plans!Sources \cup Plans!Writes
    BY <1>1 DEF Plans!Sources, Plans!Transforms, Plans!Writes
  <2>4. flow'[k] = UNION {flow'[j] : j \in MainOf(proposal, k)}
    <3>1. \A j \in MainOf(proposal, k) : flow'[j] = flow[j]
      BY <1>2, <1>3, <1>4 DEF Turn
    <3> QED BY <1>3, <3>1
  <2>5. \A j \in flow'[k] : progress'[j] = "succeeded" /\ proposal[j].name \in Plans!Sources
    BY <1>2, <1>3, <1>4, <1>5 DEF Turn
  <2>6. /\ proposal[k].name = "merge" => MainOf(proposal, k) \subseteq Named(proposal, Plans!Sources)
        /\ proposal[k].name = "draft2" => MainOf(proposal, k) \subseteq Named(proposal, {"merge"})
    <3>1. /\ proposal[k].name = "merge" =>
                \A j \in Plans!Inputs(k) : proposal[j].name \in Plans!Sources
          /\ proposal[k].name = "draft2" =>
                \A j \in Plans!Inputs(k) : proposal[j].name = "merge"
      BY <2>1 DEF Plans!InputIsValid
    <3>2. Plans!Inputs(k) = MainOf(proposal, k) /\ MainOf(proposal, k) \subseteq DOMAIN proposal
      BY <1>2 DEF Plans!Inputs, MainOf, Turn
    <3> QED BY <3>1, <3>2 DEF Named
  <2>7. ASSUME proposal[k].name = "draft2", Named(proposal, Plans!Writes) # {}, NEW j \in flow'[k]
        PROVE  cover'[j] = "complete"
    <3>1. Plans!WriteSteps # {}
      BY <2>7 DEF Plans!WriteSteps, Plans!IsWrite, Plans!Keys, Named
    <3>2. ~Plans!IsPartial(k)
      BY <2>1, <2>7, <3>1 DEF Plans!HaltsIncomplete
    <3>3. cover'[j] # "partial"
      BY <2>7, <3>2 DEF Plans!IsPartial
    <3>4. j \in DOMAIN proposal
      BY <1>3, <2>7
    <3> QED BY <1>4, <3>3, <3>4
  <2> QED BY <2>2, <2>3, <2>4, <2>5, <2>6, <2>7 DEF StepGrounded
<1>6. Grounded(proposal, progress', cover', flow')
  BY <1>2, <1>4, <1>5, OthersStay DEF Turn
<1> QED BY <1>1, <1>2, <1>6 DEF PlansInv, Turn

LEMMA WriteKeepsPlan ==
    ASSUME PlansInv, NEW k \in Plans!Keys, Plans!Write(k)
    PROVE  PlansInv'
<1>1. /\ Plans!IsNext(k) /\ proposal' = proposal /\ version' = version /\ range' = range
      /\ proposal[k].name \in Plans!Writes
      /\ cover' = cover /\ phase' = "wrote" /\ phase = "stored"
      /\ flow' = [flow EXCEPT ![k] = UNION {flow[j] : j \in MainOf(proposal, k)}]
      /\ progress' = [progress EXCEPT ![k] = "succeeded"]
  BY DEF Plans!Write, Plans!IsNext, Plans!IsWrite, Plans!Inputs, MainOf
<1>2. Turn(k)
  BY <1>1, NextHasItsTurn
<1>3. /\ UNION {flow[j] : j \in MainOf(proposal, k)} \subseteq DOMAIN proposal
      /\ flow'[k] = UNION {flow[j] : j \in MainOf(proposal, k)}
      /\ k \notin MainOf(proposal, k)
      /\ \A j \in UNION {flow[i] : i \in MainOf(proposal, k)} :
            progress[j] = "succeeded" /\ proposal[j].name \in Plans!Sources
  <2>1. \A j \in MainOf(proposal, k) : j # k /\ StepGrounded(proposal, progress, cover, flow, j)
                                      /\ flow[j] \subseteq DOMAIN proposal
    BY <1>2 DEF Turn, Grounded
  <2>2. flow'[k] = UNION {flow[j] : j \in MainOf(proposal, k)}
    BY <1>1, <1>2 DEF Turn, Grounded
  <2> QED BY <2>1, <2>2 DEF StepGrounded
<1>4. /\ progress' \in [DOMAIN proposal -> {"queued", "succeeded"}] /\ progress'[k] = "succeeded"
      /\ cover' \in [DOMAIN proposal -> {"complete", "partial"}]
      /\ flow' \in [DOMAIN proposal -> SUBSET DOMAIN proposal]
      /\ \A j \in DOMAIN proposal \ {k} :
            progress'[j] = progress[j] /\ cover'[j] = cover[j] /\ flow'[j] = flow[j]
  BY <1>1, <1>2, <1>3 DEF Turn, Grounded
<1>5. StepGrounded(proposal, progress', cover', flow', k)
  <2>1. \A d \in proposal[k].deps \cup MainOf(proposal, k) \cup SideOf(proposal, k) :
           progress'[d] = "succeeded"
    BY <1>2, <1>4 DEF Turn
  <2>2. /\ proposal[k].name \notin Plans!Sources
        /\ proposal[k].name \notin {"merge", "draft2"}
    BY <1>1 DEF Plans!Sources, Plans!Writes
  <2>3. flow'[k] = UNION {flow'[j] : j \in MainOf(proposal, k)}
    <3>1. \A j \in MainOf(proposal, k) : flow'[j] = flow[j]
      BY <1>2, <1>3, <1>4 DEF Turn
    <3> QED BY <1>3, <3>1
  <2>4. \A j \in flow'[k] : progress'[j] = "succeeded" /\ proposal[j].name \in Plans!Sources
    BY <1>2, <1>3, <1>4 DEF Turn
  <2> QED BY <2>1, <2>2, <2>3, <2>4 DEF StepGrounded
<1>6. Grounded(proposal, progress', cover', flow')
  BY <1>2, <1>4, <1>5, OthersStay DEF Turn
<1>7. \A w \in Named(proposal, Plans!Writes) : w = k
  BY <1>1, <1>2 DEF Turn, WellMade, Named
<1> QED BY <1>1, <1>2, <1>4, <1>6, <1>7 DEF PlansInv, Turn

LEMMA PlansAlone ==
    ASSUME Plans!AnchorsAssumption
    PROVE  /\ Plans!Init => PlansInv
           /\ PlansInv /\ Plans!Next => PlansInv'
           /\ PlansInv => Plans!TypeOK /\ Plans!WriteIsComplete
<1>1. Plans!Init => PlansInv
  <2> SUFFICES ASSUME Plans!Init PROVE PlansInv
    OBVIOUS
  <2>1. proposal \in Proposals
    BY ExamplesFit DEF Plans!Init
  <2> QED BY <2>1 DEF Plans!Init, PlansInv
<1>2. ASSUME PlansInv, Plans!Next
      PROVE  PlansInv'
  <2>1. CASE \E k \in Plans!Keys : Plans!Rename(k) \/ Plans!EditDeps(k) \/ Plans!Rebind(k)
                                  \/ Plans!SetDays(k)
    BY <1>2, <2>1, EditsKeepPlan
  <2>2. CASE Plans!PrepareUndated
    BY <1>2, <2>2, AcceptKeepsPlan DEF Plans!PrepareUndated
  <2>3. CASE Plans!PrepareDated
    BY <1>2, <2>3, AcceptKeepsPlan, DaysAreDays DEF Plans!PrepareDated
  <2>4. ASSUME NEW k \in Plans!Keys, Plans!StepFails(k)
        PROVE  PlansInv'
    <3>1. /\ phase = "stored" /\ phase' = "ended" /\ proposal' = proposal /\ version' = version
          /\ range' = range /\ progress' = progress /\ cover' = cover /\ flow' = flow
      BY <2>4 DEF Plans!StepFails, Plans!IsNext
    <3> QED BY <1>2, <3>1 DEF PlansInv
  <2>5. CASE \E k \in Plans!Keys :
                \/ \E how \in {"complete", "partial"} : Plans!Read(k, how)
                \/ \E empty \in BOOLEAN : Plans!Transform(k, empty)
                \/ Plans!Write(k)
                \/ Plans!StepFails(k)
    BY <1>2, <2>4, <2>5, ReadKeepsPlan, TransformKeepsPlan, WriteKeepsPlan
  <2> QED BY <1>2, <2>1, <2>2, <2>3, <2>5 DEF Plans!Next
<1>3. ASSUME PlansInv
      PROVE  Plans!TypeOK
  <2>1. \A k \in DOMAIN proposal :
           proposal[k].name \in Plans!Names /\ proposal[k].deps \subseteq DOMAIN proposal
    BY <1>3, ProposalRows DEF PlansInv
  <2>2. range \subseteq Int /\ version \in {1, 2}
        /\ phase \in {"drafting", "rejected", "stored", "ended", "wrote"}
    BY <1>3 DEF PlansInv
  <2> QED BY <2>1, <2>2 DEF Plans!TypeOK, Plans!Keys
<1> QED BY <1>1, <1>2, <1>3, WritesAreComplete

LEMMA PlansInvariant ==
    ASSUME Plans!AnchorsAssumption
    PROVE  Plans!Spec => []PlansInv
<1>1. PlansInv /\ UNCHANGED Plans!vars => PlansInv'
  BY DEF PlansInv, Plans!vars
<1> QED BY <1>1, PlansAlone, PTL DEF Plans!Spec

\* A proposal keeps to its domain, and what is kept of it.
LEMMA PlanTypes ==
    ASSUME Plans!AnchorsAssumption
    PROVE  Plans!Spec => []Plans!TypeOK
  BY PlansAlone, PlansInvariant, PTL

(***************************************************************************)
(* The specification of MCPlatform.  A behaviour of it is one of the part  *)
(* that it names, or never runs that part; what was shown of a part alone  *)
(* carries over.                                                           *)
(***************************************************************************)

LEMMA ChatsRun == Spec => Chats!Spec \/ [](part # "chats")
<1>1. Init => Chats!Init \/ part # "chats"
  BY DEF Init
<1>2. [Next]_vars => [Chats!Next]_(Chats!vars) \/ part # "chats"
  BY DEF Next, vars, Chats!vars
<1>3. part # "chats" /\ [Next]_vars => (part # "chats")'
  BY DEF Next, vars
<1>4. ~(part # "chats") /\ [Next]_vars => ~(part # "chats")'
  BY DEF Next, vars
<1> QED BY <1>1, <1>2, <1>3, <1>4, PTL DEF Spec, Chats!Spec

LEMMA RightsRun == Spec => Rights!Spec \/ [](part # "access")
<1>1. Init => Rights!Init \/ part # "access"
  BY DEF Init
<1>2. [Next]_vars => [Rights!Next]_(Rights!vars) \/ part # "access"
  BY DEF Next, vars, Rights!vars
<1>3. part # "access" /\ [Next]_vars => (part # "access")'
  BY DEF Next, vars
<1>4. ~(part # "access") /\ [Next]_vars => ~(part # "access")'
  BY DEF Next, vars
<1> QED BY <1>1, <1>2, <1>3, <1>4, PTL DEF Spec, Rights!Spec

LEMMA WebRun == Spec => Web!Spec \/ [](part # "accounts")
<1>1. Init => Web!Init \/ part # "accounts"
  BY DEF Init
<1>2. [Next]_vars => [Web!Next]_(Web!vars) \/ part # "accounts"
  BY DEF Next, vars, Web!vars
<1>3. part # "accounts" /\ [Next]_vars => (part # "accounts")'
  BY DEF Next, vars
<1>4. ~(part # "accounts") /\ [Next]_vars => ~(part # "accounts")'
  BY DEF Next, vars
<1> QED BY <1>1, <1>2, <1>3, <1>4, PTL DEF Spec, Web!Spec

LEMMA FormsRun == Spec => Forms!Spec \/ [](part # "forms")
<1>1. Init => Forms!Init \/ part # "forms"
  BY DEF Init
<1>2. [Next]_vars => [Forms!Next]_(Forms!vars) \/ part # "forms"
  BY DEF Next, vars, Forms!vars
<1>3. part # "forms" /\ [Next]_vars => (part # "forms")'
  BY DEF Next, vars
<1>4. ~(part # "forms") /\ [Next]_vars => ~(part # "forms")'
  BY DEF Next, vars
<1> QED BY <1>1, <1>2, <1>3, <1>4, PTL DEF Spec, Forms!Spec

LEMMA HubRun == Spec => Hub!Spec \/ [](part # "hub")
<1>1. Init => Hub!Init \/ part # "hub"
  BY DEF Init
<1>2. [Next]_vars => [Hub!Next]_(Hub!vars) \/ part # "hub"
  BY DEF Next, vars, Hub!vars
<1>3. part # "hub" /\ [Next]_vars => (part # "hub")'
  BY DEF Next, vars
<1>4. ~(part # "hub") /\ [Next]_vars => ~(part # "hub")'
  BY DEF Next, vars
<1> QED BY <1>1, <1>2, <1>3, <1>4, PTL DEF Spec, Hub!Spec

\* Whatever part runs, the variables of Login behave as it says, or it is not
\* the one that runs.
LEMMA SessionsRun == Spec => Sessions!Spec \/ [](part # "sessions")
<1>1. Init => Sessions!Init \/ part # "sessions"
  BY DEF Init
<1>2. [Next]_vars => [Sessions!Next]_(Sessions!vars) \/ part # "sessions"
  BY DEF Next, vars, Sessions!vars
<1>3. part # "sessions" /\ [Next]_vars => (part # "sessions")'
  BY DEF Next, vars
<1>4. ~(part # "sessions") /\ [Next]_vars => ~(part # "sessions")'
  BY DEF Next, vars
<1> QED BY <1>1, <1>2, <1>3, <1>4, PTL DEF Spec, Sessions!Spec

LEMMA PlansRun == Spec => Plans!Spec \/ [](part # "plans")
<1>1. Init => Plans!Init \/ part # "plans"
  BY DEF Init
<1>2. [Next]_vars => [Plans!Next]_(Plans!vars) \/ part # "plans"
  BY DEF Next, vars, Plans!vars
<1>3. part # "plans" /\ [Next]_vars => (part # "plans")'
  BY DEF Next, vars
<1>4. ~(part # "plans") /\ [Next]_vars => ~(part # "plans")'
  BY DEF Next, vars
<1> QED BY <1>1, <1>2, <1>3, <1>4, PTL DEF Spec, Plans!Spec

\* Isolation of the users (tasks.py, violation_queries), for any number of
\* users, hosts, endpoints, tasks, messages and calls in progress: no row
\* of the task hub ever ties one user's endpoint, task, delivery, message,
\* list or selection to another's, in whatever order the transactions of
\* the calls interleave.
THEOREM UsersStayApart == Spec => []Isolated
<1>1. Chats!Isolated => Isolated
  BY DEF Isolated
<1>2. part # "chats" => Isolated
  BY DEF Isolated
<1>3. Chats!Spec => []Chats!Isolated
  BY ConstantsFit, UsersStayApartAlone DEF ConstantsFit
<1> QED BY <1>1, <1>2, <1>3, ChatsRun, PTL

\* A result is handed out only if its caller was permitted all the time while it
\* was read, whatever administrators save meanwhile and however often (user_grants.py,
\* permission_checked_tool and invoke): the revision of the row that both remember
\* moves on with every save, so that none is missed that is taken back.
THEOREM ReadsArePermitted == Spec => []ReadWasPermitted
<1>1. RightsInv => Rights!ReadWasPermitted
  BY DEF RightsInv, ReadOK, Rights!ReadWasPermitted
<1>2. Rights!ReadWasPermitted => ReadWasPermitted
  BY DEF ReadWasPermitted
<1>3. part # "access" => ReadWasPermitted
  BY DEF ReadWasPermitted
<1> QED BY <1>1, <1>2, <1>3, RightsInvariant, RightsRun, PTL

\* Accounts (workspace/stores.py, confirm_link and create_account): for any
\* number of codes and browser requests, an account is its confirmed owner's,
\* one to a code and one name to an account; only then has it an endpoint.
THEOREM AccountsAreConfirmed == Spec => []AccountIsConfirmed
<1>1. Web!AccountIsConfirmed => AccountIsConfirmed
  BY DEF AccountIsConfirmed
<1>2. part # "accounts" => AccountIsConfirmed
  BY DEF AccountIsConfirmed
<1>3. Web!Spec => []Web!AccountIsConfirmed
  BY ConstantsFit, AccountsAreConfirmedAlone DEF ConstantsFit
<1> QED BY <1>1, <1>2, <1>3, WebRun, PTL

\* What the user typed is what is planned (field_submissions.py, submit and
\* consume), for any number of forms, tabs and values, although the executor
\* reads the values in one transaction and consumes the form in a later one.
THEOREM PlansUseSubmitted == Spec => []PlanUsesSubmitted
<1>1. Forms!PlanUsesSubmitted => PlanUsesSubmitted
  BY DEF PlanUsesSubmitted
<1>2. part # "forms" => PlanUsesSubmitted
  BY DEF PlanUsesSubmitted
<1>3. Forms!Spec => []Forms!PlanUsesSubmitted
  BY ConstantsFit, PlansUseSubmittedAlone DEF ConstantsFit
<1> QED BY <1>1, <1>2, <1>3, FormsRun, PTL

\* The targets of a task are written in order, whatever the number of items, polls,
\* restarts and calls that apply outcomes at a time: an item is committed only
\* after the ledger has every earlier item of the batch as succeeded (create_batch,
\* complete_current_batch_item and _apply_batch_operation_response).
THEOREM TargetsAreWrittenInOrder == Spec => []CommitsInOrder
<1>1. Hub!CommitsInOrder => CommitsInOrder
  BY DEF CommitsInOrder
<1>2. part # "hub" => CommitsInOrder
  BY DEF CommitsInOrder
<1>3. Hub!Spec => []Hub!CommitsInOrder
  BY ConstantsFit, LedgerIsInOrder DEF ConstantsFit
<1> QED BY <1>1, <1>2, <1>3, HubRun, PTL

\* A call of the central service never works with the login of another
\* principal than the one its session records, for any number of challenges,
\* restarts, rebindings and invalidations where the logins are made with a form,
\* and until the first of them where they are made in the interactive browser
\* (sessions.py, credential.py, remote_browser.py and rebind_session_principal).
THEOREM CallsUseOwnLogin == Spec => UsesOwnLogin
<1>1. Sessions!LoginAssumption
  BY ConstantsFit DEF ConstantsFit
<1>2. Sessions!Spec => []LoginsInv
  BY <1>1, LoginInvariant
<1>3. LoginsInv /\ [Sessions!Next]_(Sessions!vars) => Sessions!EntersOwnLogin
  BY EntersWithOwn
<1>4. Sessions!EntersOwnLogin => [part = "sessions" => Sessions!EntersOwnLogin]_vars
  OBVIOUS
<1>5. part # "sessions" => [part = "sessions" => Sessions!EntersOwnLogin]_vars
  OBVIOUS
<1> QED BY <1>2, <1>3, <1>4, <1>5, SessionsRun, PTL DEF Sessions!Spec, UsesOwnLogin

\* A plan writes of the whole (task_plan_validation.py, _validate_v2_provenance,
\* and the readings that task_plan_runtime.py accepts): for any hours at which
\* a request is accepted, and whatever the steps, dependencies and bindings of
\* the proposal, the text that a plan of version 2 prepares comes from sources
\* that were each read completely, of a range of days that is not empty, and
\* no business source of the plan is left out of it or of what goes with it.
THEOREM WritesAreWhole == Spec => []WriteIsComplete
<1>1. Plans!WriteIsComplete => WriteIsComplete
  BY DEF WriteIsComplete
<1>2. part # "plans" => WriteIsComplete
  BY DEF WriteIsComplete
<1>3. Plans!Spec => []Plans!WriteIsComplete
  BY ConstantsFit, PlansAlone, PlansInvariant, PTL DEF ConstantsFit
<1> QED BY <1>1, <1>2, <1>3, PlansRun, PTL
==============================================================================
