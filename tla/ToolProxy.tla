----------------------------- MODULE ToolProxy ------------------------------
(* The OpenClaw plugin's proxy tools: whose identity a conversation speaks   *)
(* with (identity-router.js), and how one tool call becomes a task, a        *)
(* coordinator lease and one or more MCP requests (proxy-tools.js and        *)
(* mcp-client.js), up to the operation the server keeps for them             *)
(* (operations.py, capability_runtime.py).                                   *)
(*                                                                           *)
(* Left out: the arguments, the texts of the answers, the profiles that      *)
(* choose which tools are shown, and the guards that look at the content of  *)
(* a call (draft samples, terminal plans, cancellation targets); they refuse *)
(* a call before it is sent, as Refuse does.                                 *)
EXTENDS Naturals, Sequences

CONSTANTS
  Channels,     \* private chat sessions
  Webs,         \* workspace sessions
  Identities,   \* the configured identity bindings
  Owner,        \* the identity that owns each workspace session at the server
  Calls,        \* tool calls
  Kinds,        \* "read", "prepare" and "login": the classes of tools
  MaxAttempts,  \* the first request and the delays of SAFE_MCP_RETRY_DELAYS_MS
  MaxRemovals,  \* bound: sessions reset or deleted
  NoOne,        \* a session or a call without identity
  Conflict      \* a session that two identities claimed

ProxyAssumption ==
  /\ NoOne \notin Identities /\ Conflict \notin Identities /\ NoOne # Conflict
  /\ Channels \cap Webs = {} /\ NoOne \notin Channels \cup Webs
  /\ MaxAttempts \in Nat \ {0} /\ MaxRemovals \in Nat

VARIABLES
  binding,   \* sessionBindings
  endpoint,  \* the workspace sessions in sessionEndpoints
  call,      \* what each tool call has done so far
  request,   \* the MCP requests of each call still on their way
  reply,     \* the requests of each call the server has answered
  ops,       \* the operations the server keeps for each call
  task,      \* the status of the task of each call
  epoch      \* how often each session was removed

vars == <<binding, endpoint, call, request, reply, ops, task, epoch>>

Sessions == Channels \cup Webs

NoCall == [pc |-> "idle", session |-> NoOne, kind |-> "read",
           identity |-> NoOne, asked |-> {}, tries |-> 0, epoch |-> 0]

Init ==
  /\ binding = [s \in Sessions |-> NoOne]
  /\ endpoint = {}
  /\ call = [c \in Calls |-> NoCall]
  /\ request = [c \in Calls |-> {}]
  /\ reply = [c \in Calls |-> {}]
  /\ ops = [c \in Calls |-> <<>>]
  /\ task = [c \in Calls |-> "none"]
  /\ epoch = [s \in Sessions |-> 0]

-----------------------------------------------------------------------------
(* identity-router.js *)

\* A mutant: the latest identity takes the session over.
MayBindAnyone(s, i) == binding[s] # Conflict

\* A session that belongs to nobody, or to i, may be bound to i.
MayBind(s, i) == binding[s] \in {NoOne, i}

\* What binding s to i leaves behind: a second identity poisons the session.
Bound(s, i) == [binding EXCEPT ![s] = IF MayBind(s, i) THEN i ELSE Conflict]

\* The binding a tool context without a sender falls back on.
Pinned(s) == IF binding[s] = Conflict THEN NoOne ELSE binding[s]

(* resolveToolContext, once for the tools of a turn: the sender's identity,  *)
(* else the one the session is pinned to. The tools keep what it answered.   *)
Resolve(c, s, sender, kind) ==
  LET known == sender # NoOne
      identity == IF known /\ MayBind(s, sender) THEN sender
                  ELSE IF known THEN NoOne ELSE Pinned(s)
  IN  /\ call[c].pc = "idle"
      /\ s \in Webs => sender = NoOne
      /\ binding' = IF known THEN Bound(s, sender) ELSE binding
      /\ identity = NoOne => s \in Webs
      /\ call' = [call EXCEPT ![c] =
           [@ EXCEPT !.pc = IF identity = NoOne THEN "asking" ELSE "built",
                     !.session = s, !.kind = kind, !.identity = identity,
                     !.epoch = epoch[s]]]
      /\ UNCHANGED <<endpoint, request, reply, ops, task, epoch>>

(* bindSession, for every message that arrives, and the resolution of a turn *)
(* that another identity's session excludes (it offers no business tool).    *)
BindSession(s, sender) ==
  /\ s \in Channels
  /\ binding' = Bound(s, sender)
  /\ UNCHANGED <<endpoint, call, request, reply, ops, task, epoch>>

\* The account of a turn without a sender is not the pinned identity's.
PinnedMismatch(s) ==
  /\ s \in Channels
  /\ binding[s] \in Identities
  /\ binding' = [binding EXCEPT ![s] = Conflict]
  /\ UNCHANGED <<endpoint, call, request, reply, ops, task, epoch>>

\* A mutant: the first identity that answers gets the session.
OwnsSessionAnyway(s, i) == TRUE

\* resolve_workspace_gateway_session of the central service, asked with i's
\* credential: the session belongs to an account of that user and to its endpoint.
OwnsSession(s, i) == Owner[s] = i

(* resolveWorkspaceSession asks one identity after the other, and awaits     *)
(* each answer; restoreSessionBinding then looks at the session again.       *)
AskIdentity(c, i) ==
  LET s == call[c].session
      restored == OwnsSession(s, i) /\ MayBind(s, i)
  IN  /\ call[c].pc = "asking"
      /\ i \notin call[c].asked
      /\ binding' = IF OwnsSession(s, i) THEN Bound(s, i) ELSE binding
      /\ endpoint' = IF restored THEN endpoint \cup {s} ELSE endpoint
      /\ call' = [call EXCEPT ![c] =
           IF restored
           THEN [@ EXCEPT !.pc = "built", !.identity = i, !.epoch = epoch[s]]
           ELSE [@ EXCEPT !.asked = call[c].asked \cup {i}]]
      /\ UNCHANGED <<request, reply, ops, task, epoch>>

\* The question is lost: this identity is passed over.
AskFails(c, i) ==
  /\ call[c].pc = "asking"
  /\ i \notin call[c].asked
  /\ call' = [call EXCEPT ![c].asked = @ \cup {i}]
  /\ UNCHANGED <<binding, endpoint, request, reply, ops, task, epoch>>

\* Nobody owns the session: IDENTITY_NOT_PROVISIONED.
Unprovisioned(c) ==
  /\ call[c].pc = "asking"
  /\ call[c].asked = Identities
  /\ call' = [call EXCEPT ![c].pc = "refused"]
  /\ UNCHANGED <<binding, endpoint, request, reply, ops, task, epoch>>

\* session_end with the reason reset or deleted.
RemoveSession(s) ==
  /\ epoch[s] < MaxRemovals
  /\ binding' = [binding EXCEPT ![s] = NoOne]
  /\ endpoint' = endpoint \ {s}
  /\ epoch' = [epoch EXCEPT ![s] = @ + 1]
  /\ UNCHANGED <<call, request, reply, ops, task>>

-----------------------------------------------------------------------------
(* proxy-tools.js: the task and the lease before the business call *)

\* The turn continues a task that may only be observed, or another guard.
Refuse(c) ==
  /\ call[c].pc = "built"
  /\ call' = [call EXCEPT ![c].pc = "refused"]
  /\ UNCHANGED <<binding, endpoint, request, reply, ops, task, epoch>>

\* endpointKeyForSession, looked up again after the identity was resolved.
HasEndpoint(s) == IF s \in Webs THEN s \in endpoint ELSE binding[s] \in Identities

\* agentbridge_host_task_ensure, and without an endpoint no task at all.
ResolveTaskId(c) ==
  /\ call[c].pc = "built"
  /\ IF HasEndpoint(call[c].session)
     THEN /\ task' = [task EXCEPT ![c] = "active"]
          /\ call' = [call EXCEPT ![c].pc = "tasked"]
     ELSE /\ call' = [call EXCEPT ![c].pc = "ready"]
          /\ UNCHANGED task
  /\ UNCHANGED <<binding, endpoint, request, reply, ops, epoch>>

\* The task was not granted (TASK_CONTEXT_UNAVAILABLE), or a plan is required;
\* when only the answer was lost the task exists.
TaskUnavailable(c) ==
  /\ call[c].pc = "built"
  /\ HasEndpoint(call[c].session)
  /\ \E status \in {"none", "active"} : task' = [task EXCEPT ![c] = status]
  /\ call' = [call EXCEPT ![c].pc = "refused"]
  /\ UNCHANGED <<binding, endpoint, request, reply, ops, epoch>>

\* The lease is granted, or the call throws and leaves its task as it is.
RenewCoordinatorLease(c) ==
  /\ call[c].pc = "tasked"
  /\ \E pc \in {"ready", "refused"} : call' = [call EXCEPT ![c].pc = pc]
  /\ UNCHANGED <<binding, endpoint, request, reply, ops, task, epoch>>

-----------------------------------------------------------------------------
(* mcp-client.js and the server *)

\* supportsSafeTransportRetry: reads and prepares are declared idempotent.
Retries(kind) == kind \in {"read", "prepare"}

\* A mutant: a key of its own for every attempt.
KeyPerAttempt(c, try) == <<c, try>>

\* The idempotency key of a request: prepares carry one for the whole call.
Key(c, try) == IF call[c].kind = "prepare" THEN <<c>> ELSE <<>>

\* requestOnce: the request is on its way.
Send(c) ==
  /\ call[c].pc = "ready"
  /\ call' = [call EXCEPT ![c] = [@ EXCEPT !.pc = "sent", !.tries = call[c].tries + 1]]
  /\ request' = [request EXCEPT ![c] = @ \cup {call[c].tries + 1}]
  /\ UNCHANGED <<binding, endpoint, reply, ops, task, epoch>>

\* The operations the server already keeps under the key of this request.
SameKey(c, try) ==
  {n \in DOMAIN ops[c] : Key(c, try) # <<>> /\ ops[c][n].key = Key(c, try)}

(* OperationStore.create and the start of CapabilityEngine.invoke: a known   *)
(* key is answered with the operation there is, in whatever state it is.     *)
Accept(c, try) ==
  /\ try \in request[c]
  /\ request' = [request EXCEPT ![c] = @ \ {try}]
  /\ IF SameKey(c, try) # {}
     THEN /\ reply' = [reply EXCEPT ![c] = @ \cup {try}]
          /\ UNCHANGED ops
     ELSE /\ ops' = [ops EXCEPT ![c] =
               Append(@, [key |-> Key(c, try), try |-> try, status |-> "running"])]
          /\ UNCHANGED reply
  /\ UNCHANGED <<binding, endpoint, call, task, epoch>>

\* The request never reaches the server.
Lose(c, try) ==
  /\ try \in request[c]
  /\ request' = [request EXCEPT ![c] = @ \ {try}]
  /\ UNCHANGED <<binding, endpoint, call, reply, ops, task, epoch>>

\* What an operation makes of a task that has not ended.
TaskAfter(status) == IF status = "requires_user_action" THEN "waiting_user" ELSE status

(* The handler ends, and invoke links the operation to the task. A prepare   *)
(* ends at its trusted card, a read with its result.                         *)
RunOperation(c, n, status) ==
  /\ ops[c][n].status = "running"
  /\ call[c].kind = "read" => status # "requires_user_action"
  /\ ops' = [ops EXCEPT ![c][n].status = status]
  /\ reply' = [reply EXCEPT ![c] = @ \cup {ops[c][n].try}]
  /\ task' = [task EXCEPT ![c] =
       IF @ \in {"active", "waiting_user"} THEN TaskAfter(status) ELSE @]
  /\ UNCHANGED <<binding, endpoint, call, request, epoch>>

(* The answer of the current request arrives. It names its operation, so     *)
(* observeTaskResult finds a reference and nothing is left to finish.        *)
Answer(c) ==
  /\ call[c].pc = "sent"
  /\ call[c].tries \in reply[c]
  /\ call' = [call EXCEPT ![c].pc = "returned"]
  /\ UNCHANGED <<binding, endpoint, request, reply, ops, task, epoch>>

(* An answer without an operation: refused before OperationStore.create.     *)
(* finishHostTask then ends the task.                                        *)
AnswerUnreferenced(c) ==
  /\ call[c].pc = "sent"
  /\ call[c].tries \in request[c]
  /\ request' = [request EXCEPT ![c] = @ \ {call[c].tries}]
  /\ call' = [call EXCEPT ![c].pc = "failing"]
  /\ UNCHANGED <<binding, endpoint, reply, ops, task, epoch>>

\* A mutant: every retryable error is retried.
MayRetryAlways(c) == Retries(call[c].kind)

\* transportRetryAllowed, for an error that may be retried.
MayRetry(c) == Retries(call[c].kind) /\ call[c].tries < MaxAttempts

\* Unreachable, 502, 503, 504 or an unreadable answer: the next attempt.
Retry(c) ==
  /\ call[c].pc = "sent"
  /\ MayRetry(c)
  /\ call' = [call EXCEPT ![c].pc = "ready"]
  /\ UNCHANGED <<binding, endpoint, request, reply, ops, task, epoch>>

\* A timeout, an abort, another HTTP error, or no attempt left.
GiveUp(c) ==
  /\ call[c].pc = "sent"
  /\ call' = [call EXCEPT ![c].pc = "failing"]
  /\ UNCHANGED <<binding, endpoint, request, reply, ops, task, epoch>>

(* finishHostTask with "failed", for the call that threw: fail_task refuses  *)
(* a task that has ended; the request may be lost like any other.            *)
FinishHostTask(c) ==
  /\ call[c].pc = "failing"
  /\ \/ task' = [task EXCEPT ![c] =
          IF @ \in {"active", "waiting_user"} THEN "failed" ELSE @]
     \/ UNCHANGED task
  /\ call' = [call EXCEPT ![c].pc = "failed"]
  /\ UNCHANGED <<binding, endpoint, request, reply, ops, epoch>>

-----------------------------------------------------------------------------
Next ==
  \/ \E c \in Calls :
       \/ \E s \in Sessions, sender \in Identities \cup {NoOne}, kind \in Kinds :
            Resolve(c, s, sender, kind)
       \/ \E i \in Identities : AskIdentity(c, i) \/ AskFails(c, i)
       \/ Unprovisioned(c) \/ Refuse(c)
       \/ ResolveTaskId(c) \/ TaskUnavailable(c) \/ RenewCoordinatorLease(c)
       \/ Send(c)
       \/ \E try \in 1..MaxAttempts : Accept(c, try) \/ Lose(c, try)
       \/ \E n \in DOMAIN ops[c],
             status \in {"succeeded", "failed", "requires_user_action"} :
            RunOperation(c, n, status)
       \/ Answer(c) \/ AnswerUnreferenced(c)
       \/ Retry(c) \/ GiveUp(c) \/ FinishHostTask(c)
  \/ \E s \in Sessions :
       \/ \E i \in Identities : BindSession(s, i)
       \/ PinnedMismatch(s) \/ RemoveSession(s)

Spec == Init /\ [][Next]_vars

-----------------------------------------------------------------------------
\* The state is of the shape the plugin and the server keep.
TypeOK ==
  /\ binding \in [Sessions -> Identities \cup {NoOne, Conflict}]
  /\ endpoint \subseteq Webs
  /\ \A c \in Calls :
       /\ call[c].identity \in Identities \cup {NoOne}
       /\ call[c].tries \in 0..MaxAttempts
       /\ request[c] \cup reply[c] \subseteq 1..MaxAttempts
       /\ Len(ops[c]) <= MaxAttempts
  /\ task \in [Calls -> {"none", "active", "waiting_user", "succeeded", "failed"}]

(* However often the transport loses a request or an answer, one prepare     *)
(* call leaves one operation behind, and so one trusted card: the attempts   *)
(* share their idempotency key (paramsWithStableIdempotencyKey).             *)
PreparedOnce == \A c \in Calls : call[c].kind = "prepare" => Len(ops[c]) <= 1

(* A call from a workspace session is made with the identity that owns the   *)
(* session, also when the session was removed, or resolved by another call,  *)
(* while the router awaited the server.                                      *)
WebUsesOwner ==
  \A c \in Calls : call[c].session \in Webs /\ call[c].identity # NoOne
    => call[c].identity = Owner[call[c].session]

(* Until a session is removed, it stays with the identity a call in it used, *)
(* or is in conflict and serves nobody: whoever else speaks in the session,  *)
(* no two of its calls are made with different identities.                   *)
OneSpeaker ==
  \A c \in Calls : call[c].identity # NoOne /\ call[c].epoch = epoch[call[c].session]
    => binding[call[c].session] \in {call[c].identity, Conflict}

(* NOT an invariant: a call that timed out fails its task although the       *)
(* server prepared the write and its card can still be confirmed.            *)
FailedHasNoCard ==
  \A c \in Calls : task[c] = "failed" =>
    \A n \in DOMAIN ops[c] : ops[c][n].status # "requires_user_action"
=============================================================================
