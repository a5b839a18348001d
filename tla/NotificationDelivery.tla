------------------------ MODULE NotificationDelivery ------------------------
(***************************************************************************)
(* The notification outbox of the task hub (agentbridge/core/tasks.py) and *)
(* the OpenClaw loop that drains it (coordinator.js), for one endpoint.    *)
(*                                                                         *)
(* A row of notification_outbox is claimed under a lease, shown to the     *)
(* user and acknowledged.  The claim and the acknowledgement are calls     *)
(* over a network that loses and delays them; a loop may die with a batch  *)
(* in its hands, and a loop stopped with its gateway keeps working through *)
(* its batch while its successor claims.  Time is abstracted to the set    *)
(* `due' of rows whose next_attempt_at has passed.                         *)
(***************************************************************************)
EXTENDS Naturals, Sequences, FiniteSets

CONSTANTS
    Rows,          \* notifications, numbered in the order of creation
    Loops,         \* notification loops that serve the endpoint
    MaxAttempts,   \* attempt_count limit (5 in the code)
    BatchLimit,    \* rows taken by one claim (10 in coordinator.js)
    MaxRevivals    \* bound: requeues, archivings, reactivations, restarts

\* What the constants have to satisfy.
OutboxAssumption ==
    /\ Rows \subseteq Nat
    /\ MaxAttempts \in Nat \ {0}
    /\ BatchLimit \in Nat \ {0}
    /\ MaxRevivals \in Nat

VARIABLES
    state,      \* state column of each row, "none" before it is inserted
    kind,       \* what the row carries
    attempts,   \* attempt_count
    due,        \* rows whose next_attempt_at has passed
    client,     \* the endpoint: a chat, a WeChat chat, or a client that pulls
    subscribed, \* the endpoint's subscription is active
    batch,      \* rows each loop has claimed and not yet handled, in order
    wire,       \* acknowledgement calls that have not reached the hub
    shown,      \* rows the user was shown, can read elsewhere or need not see
    revivals    \* bound counter

vars == <<state, kind, attempts, due, client, subscribed, batch, wire, shown,
          revivals>>

Kinds == {"status", "quiet", "timeline"}
Clients == {"chat", "wechat", "pull"}
Unsettled == {"pending", "delivering"}
Settled == {"acknowledged", "failed", "deferred", "archived"}

Acks == [loop : Loops, row : Rows, ok : BOOLEAN, defer : BOOLEAN]

TypeOK ==
    /\ state \in [Rows -> {"none"} \cup Unsettled \cup Settled]
    /\ kind \in [Rows -> Kinds]
    /\ attempts \in [Rows -> 0 .. MaxAttempts]
    /\ due \in SUBSET Rows
    /\ client \in Clients
    /\ subscribed \in BOOLEAN
    /\ batch \in [Loops -> Seq(Rows)]
    /\ wire \in SUBSET Acks
    /\ shown \in SUBSET Rows
    /\ revivals \in 0 .. MaxRevivals

Init ==
    /\ state = [r \in Rows |-> "none"]
    /\ kind \in [Rows -> Kinds]
    /\ attempts = [r \in Rows |-> 0]
    /\ due = {}
    /\ client \in Clients \ {"pull"}
    /\ subscribed = TRUE
    /\ batch = [l \in Loops |-> << >>]
    /\ wire = {}
    /\ shown = {}
    /\ revivals = 0

Revive == revivals < MaxRevivals /\ revivals' = revivals + 1

(***************************************************************************)
(* The hub.                                                                *)
(***************************************************************************)

\* _append_event inserts a row for an active subscription, and
\* _enqueue_timeline_message one for every other active chat endpoint; both
\* are due at once.
AppendEvent(r) ==
    /\ state[r] = "none"
    /\ \A q \in Rows : q < r => state[q] # "none"
    /\ IF kind[r] = "timeline" THEN client # "pull" ELSE subscribed
    /\ state' = [state EXCEPT ![r] = "pending"]
    /\ due' = due \cup {r}
    /\ UNCHANGED <<kind, attempts, client, subscribed, batch, wire, shown, revivals>>

\* A mutant: the limit of attempts is not looked at.
ClaimableAlways == {r \in due : state[r] \in Unsettled}

\* Rows claim_outbox may hand out.
Claimable ==
    {r \in due : state[r] \in Unsettled /\ attempts[r] < MaxAttempts}

\* A mutant: nothing is ever given up.
ExhaustedNever == {}

\* Delivered at the limit with a lapsed lease: given up by the next claim.
Exhausted ==
    {r \in due : state[r] = "delivering" /\ attempts[r] >= MaxAttempts}

\* ORDER BY created_at LIMIT: the oldest BatchLimit claimable rows.
Oldest ==
    {r \in Claimable : Cardinality({q \in Claimable : q < r}) < BatchLimit}

InOrder(S) ==
    [i \in 1 .. Cardinality(S) |->
        CHOOSE r \in S : Cardinality({q \in S : q < r}) = i - 1]

\* claim_outbox: the store's part of a claim.
ClaimRows ==
    /\ state' = [r \in Rows |-> IF r \in Exhausted THEN "failed"
                                ELSE IF r \in Oldest THEN "delivering"
                                ELSE state[r]]
    /\ attempts' = [r \in Rows |-> IF r \in Oldest THEN attempts[r] + 1
                                   ELSE attempts[r]]
    /\ due' = due \ Oldest

\* acknowledge_outbox: neither the state of the row nor the claim the call
\* answers is looked at.
AckState(a) ==
    CASE a.ok                            -> "acknowledged"
      [] ~a.ok /\ a.defer                -> "deferred"
      [] ~a.ok /\ ~a.defer               ->
            IF attempts[a.row] >= MaxAttempts THEN "failed" ELSE "pending"

Acknowledge(a) ==
    /\ state' = [state EXCEPT ![a.row] = AckState(a)]
    /\ due' = CASE AckState(a) = "pending"  -> due \ {a.row}
                [] AckState(a) = "deferred" -> due \cup {a.row}
                [] OTHER                    -> due

\* next_attempt_at passes: a lease lapses or a retry delay ends.
TimePasses(r) ==
    /\ state[r] \in Unsettled
    /\ r \notin due
    /\ due' = due \cup {r}
    /\ UNCHANGED <<state, kind, attempts, client, subscribed, batch, wire, shown,
                   revivals>>

\* reactivate_deferred_outbox: the user wrote on the chat.  Missed chat copies
\* and outcomes of closed tasks are archived, the rest starts afresh.
Reactivate(closed) ==
    /\ Revive
    /\ LET deferred == {r \in Rows : state[r] = "deferred"}
           stale    == {r \in deferred :
                            /\ client = "wechat"
                            /\ \/ kind[r] = "timeline"
                               \/ kind[r] = "status" /\ r \in closed}
       IN /\ deferred # {}
          /\ state' = [r \in Rows |-> IF r \in stale THEN "archived"
                                      ELSE IF r \in deferred THEN "pending"
                                      ELSE state[r]]
          /\ attempts' = [r \in Rows |-> IF r \in deferred \ stale THEN 0
                                         ELSE attempts[r]]
          /\ due' = due \ (deferred \ stale)
    /\ UNCHANGED <<kind, client, subscribed, batch, wire, shown>>

\* requeue_delivery, from the administrator's console.
Requeue(r) ==
    /\ Revive
    /\ state[r] \in {"failed", "deferred", "archived"}
    /\ state' = [state EXCEPT ![r] = "pending"]
    /\ attempts' = [attempts EXCEPT ![r] = 0]
    /\ due' = due \cup {r}
    /\ UNCHANGED <<kind, client, subscribed, batch, wire, shown>>

\* archive_delivery, from the administrator's console.
Archive(r) ==
    /\ Revive
    /\ state[r] \in {"failed", "acknowledged"}
    /\ state' = [state EXCEPT ![r] = "archived"]
    /\ UNCHANGED <<kind, attempts, due, client, subscribed, batch, wire, shown>>

\* ensure_endpoint: the endpoint registers again, perhaps as another client;
\* _subscribe_companion_endpoints activates the subscription of a chat.
EnsureEndpoint(c) ==
    /\ Revive
    /\ c # client
    /\ client' = c
    /\ subscribed' = (subscribed \/ c # "pull")
    /\ UNCHANGED <<state, kind, attempts, due, batch, wire, shown>>

\* The hub restarts: _reconcile_pull_based_deliveries ends the subscription of
\* a pull client and acknowledges the task events that wait for it.
Restart ==
    /\ Revive
    /\ client = "pull"
    /\ subscribed' = FALSE
    /\ state' = [r \in Rows |->
                    IF kind[r] # "timeline" /\ state[r] \in Unsettled \cup {"failed"}
                    THEN "acknowledged" ELSE state[r]]
    /\ shown' = shown \cup {r \in Rows : kind[r] # "timeline"
                                /\ state[r] \in Unsettled \cup {"failed"}}
    /\ UNCHANGED <<kind, attempts, due, client, batch, wire>>

(***************************************************************************)
(* The loop: deliverEndpointNotifications.                                 *)
(***************************************************************************)

Waiting(l) == \E a \in wire : a.loop = l /\ batch[l] # << >> /\ a.row = Head(batch[l])

\* agentbridge_host_notification_claim: the answer comes back, or it is lost
\* and the rows wait for their leases to lapse.
Claim(l, answered) ==
    /\ batch[l] = << >>
    /\ Exhausted \cup Claimable # {}
    /\ ClaimRows
    /\ batch' = [batch EXCEPT ![l] = IF answered THEN InOrder(Oldest) ELSE << >>]
    /\ UNCHANGED <<kind, client, subscribed, wire, shown, revivals>>

\* A pull client reads the event elsewhere, and a quiet event needs no showing.
Silent(r) == client = "pull" \/ kind[r] = "quiet"

\* A mutant: a message the chat refused counts as delivered.
DeliveredAnyway(r, ok, kept) == ~kept

\* What the loop reports of a notification.
Delivered(r, ok, kept) == ~kept /\ (Silent(r) \/ ok)

\* One notification is handled.  `ok' is the answer of the delivery, `kept'
\* says that an interaction could not be restored and the notification is to
\* come again; a pull client and a quiet event need no delivery.
Deliver(l, ok, kept) ==
    /\ batch[l] # << >>
    /\ ~Waiting(l)
    /\ LET r         == Head(batch[l])
           delivered == Delivered(r, ok, kept)
       IN /\ shown' = IF ~kept /\ (Silent(r) \/ ok) THEN shown \cup {r} ELSE shown
          /\ wire' = wire \cup {[loop |-> l, row |-> r, ok |-> delivered,
                                 defer |-> /\ ~delivered /\ ~kept
                                           /\ client = "wechat"]}
    /\ UNCHANGED <<state, kind, attempts, due, client, subscribed, batch, revivals>>

\* The acknowledgement arrives, in time for the loop that waits for it or
\* after that loop has gone on.
AckArrives(a) ==
    /\ a \in wire
    /\ Acknowledge(a)
    /\ wire' = wire \ {a}
    /\ batch' = IF batch[a.loop] # << >> /\ Head(batch[a.loop]) = a.row
                THEN [batch EXCEPT ![a.loop] = Tail(@)] ELSE batch
    /\ UNCHANGED <<kind, attempts, client, subscribed, shown, revivals>>

\* The call fails for the loop, which only logs it; the call itself is lost,
\* or still on its way.
AckFails(a, lost) ==
    /\ a \in wire
    /\ Waiting(a.loop)
    /\ Head(batch[a.loop]) = a.row
    /\ wire' = IF lost THEN wire \ {a} ELSE wire
    /\ batch' = [batch EXCEPT ![a.loop] = Tail(@)]
    /\ UNCHANGED <<state, kind, attempts, due, client, subscribed, shown, revivals>>

\* The process of the loop dies with its batch.
LoopDies(l) ==
    /\ Revive
    /\ batch[l] # << >>
    /\ batch' = [batch EXCEPT ![l] = << >>]
    /\ UNCHANGED <<state, kind, attempts, due, client, subscribed, wire, shown>>

LoopClaims(l) == \E answered \in BOOLEAN : Claim(l, answered)
LoopDelivers(l) == \E ok, kept \in BOOLEAN : Deliver(l, ok, kept)

\* agentbridge_host_notification_ack, as it reaches the hub or does not.
HostNotificationAck ==
    \E a \in wire : AckArrives(a) \/ \E lost \in BOOLEAN : AckFails(a, lost)

Next ==
    \/ \E r \in Rows : AppendEvent(r) \/ TimePasses(r) \/ Requeue(r) \/ Archive(r)
    \/ \E closed \in SUBSET Rows : Reactivate(closed)
    \/ \E c \in Clients : EnsureEndpoint(c)
    \/ Restart
    \/ \E l \in Loops :
          LoopClaims(l) \/ LoopDelivers(l) \/ LoopDies(l)
    \/ HostNotificationAck

AckEnds(l) == \E a \in wire : a.loop = l /\ (AckArrives(a) \/ AckFails(a, TRUE))

\* The loops keep running, a call is answered or times out, and time passes.
Fairness ==
    /\ \A r \in Rows : WF_vars(TimePasses(r))
    /\ \A l \in Loops :
          WF_vars(LoopClaims(l)) /\ WF_vars(LoopDelivers(l)) /\ WF_vars(AckEnds(l))

Spec == Init /\ [][Next]_vars

FairSpec == Spec /\ Fairness

(***************************************************************************)
(* Properties.                                                             *)
(***************************************************************************)

\* acknowledge_outbox marks as acknowledged only what the user was shown, or
\* need not be shown: whatever is lost, late or repeated, no notification is
\* dropped as if it had been read.
AcknowledgedWasShown ==
    /\ \A r \in Rows : state[r] = "acknowledged" => r \in shown
    /\ \A a \in wire : a.ok => a.row \in shown

\* No row waits where claim_outbox cannot see it: a pending row always has an
\* attempt left, although late answers put rows back to pending.
PendingIsClaimable ==
    \A r \in Rows : state[r] = "pending" => attempts[r] < MaxAttempts

\* A delivery ends: it is acknowledged, deferred to the user's next message,
\* archived, or given up after its last attempt (claim_outbox).
DeliverySettles ==
    \A r \in Rows : state[r] \in Unsettled ~> state[r] \in Settled
====
