------------------------------ MODULE TaskHub ------------------------------
(***************************************************************************)
(* The task ledger of core/tasks.py, the decision rules of                 *)
(* core/task_state_rules.py and the batch coordinator of                   *)
(* core/central_service.py, for one task and the approval batch it owns.   *)
(*                                                                         *)
(* A batch item goes through three operations: "fill" leaves a field card, *)
(* "prepare" (the field card resumed) leaves an authorization card, and    *)
(* "commit" (the authorization resumed) writes.  Every transaction of the  *)
(* ledger is one action; what a server call still has to do between two of *)
(* them is kept in call, so that other calls, polls and a restart can come *)
(* in between.  invoke() runs under the lock of its task; a poll and the   *)
(* recovery of an already resumed card do not.                             *)
(***************************************************************************)
EXTENDS Naturals, Sequences, FiniteSets

CONSTANTS N,            \* items of the batch
          Callers,      \* server threads serving calls for this task
          MaxCrashes    \* restarts of the central service

HubAssumption == N \in Nat \ {0} /\ MaxCrashes \in Nat

None == <<0, "none">>
Items == 1..N
Kinds == {"fill", "prepare", "commit"}
Ops == (Items \X Kinds) \cup {<<0, "read">>}
Cards == Items \X {"field", "auth"}
CardKind(k) == IF k = "fill" THEN "field" ELSE "auth"

VARIABLES
    task,      \* agent_tasks: status, current operation, current interaction
    batch,     \* task_batches.state ("none" before create_batch)
    ordinal,   \* task_batches.current_ordinal
    item,      \* task_batch_items: state, operation and interaction of each
    op,        \* operations.status of each operation ("none" before it exists)
    card,      \* state of each trusted card ("none" before it exists)
    link,      \* task_interactions.last_state ("none" when not linked)
    known,     \* task_operations: the operations linked to the task
    call,      \* what each thread still has to do
    crashes

vars == <<task, batch, ordinal, item, op, card, link, known, call, crashes>>

ACTIVE_TASK_STATUSES == {"active", "waiting_user", "running"}
TERMINAL_TASK_STATUSES == {"succeeded", "failed", "outcome_unknown", "canceled",
                           "expired", "superseded", "partially_succeeded"}
ACTIVE_BATCH_STATES == {"running", "waiting_user"}
BATCH_STATES == ACTIVE_BATCH_STATES \cup {"succeeded", "partially_succeeded",
                 "failed", "outcome_unknown", "canceled", "expired"}
BATCH_ITEM_STATES == {"queued", "preparing", "waiting_user", "succeeded", "failed",
                      "outcome_unknown", "canceled", "expired", "superseded"}
CARD_STATES == {"pending", "completed", "declined", "expired", "superseded"}
OP_STATES == {"requires_user_action", "succeeded", "failed", "unknown"}

Idle == [at |-> "idle", op |-> None, seen |-> 0, locked |-> FALSE, observes |-> TRUE]
Locked == \E c \in Callers : call[c].locked

(***************************************************************************)
(* The pure decisions of task_state_rules.py.                              *)
(***************************************************************************)
TaskStatusForOperation(s) ==
    CASE s = "requires_user_action" -> "waiting_user"
      [] s = "unknown" -> "outcome_unknown"
      [] OTHER -> s

TaskStatusForInteraction(s) ==
    CASE s = "pending" -> "waiting_user"
      [] s = "completed" -> "active"
      [] s = "declined" -> "canceled"
      [] OTHER -> s

BatchFailureStatus(s, anySucceeded) ==
    CASE s = "outcome_unknown" -> "outcome_unknown"
      [] s # "outcome_unknown" /\ anySucceeded -> "partially_succeeded"
      [] s \in {"canceled", "expired"} /\ ~anySucceeded -> s
      [] OTHER -> "failed"

\* The batch, when there is one, decides what an operation says of its task.
OperationStatus(o) ==
    IF batch = "none" THEN TaskStatusForOperation(op[o]) ELSE batch

\* An unknown outcome alone is sticky: other terminal states may be reopened.
OperationObservation(t, o) ==
    IF t.status # "outcome_unknown" \/ OperationStatus(o) = "outcome_unknown"
    THEN [t EXCEPT !.status = OperationStatus(o), !.op = o] ELSE t

MayUpdate(t, i) == t.status \in ACTIVE_TASK_STATUSES /\ (link[i] = "none" \/ t.card = i)

InteractionObservation(t, i) ==
    IF MayUpdate(t, i) /\ link[i] # card[i]
    THEN [t EXCEPT !.status = TaskStatusForInteraction(card[i]), !.card = i] ELSE t

TypeOK ==
    /\ task \in [status : ACTIVE_TASK_STATUSES \cup TERMINAL_TASK_STATUSES,
                 op : Ops \cup {None}, card : Cards \cup {None}]
    /\ batch \in BATCH_STATES \cup {"none"} /\ ordinal \in Items
    /\ item \in [Items -> [state : BATCH_ITEM_STATES, op : Ops \cup {None},
                           card : Cards \cup {None}]]
    /\ op \in [Ops -> OP_STATES \cup {"none"}]
    /\ card \in [Cards -> CARD_STATES \cup {"none"}]
    /\ link \in [Cards -> CARD_STATES \cup {"none"}]
    /\ known \subseteq Ops
    /\ call \in [Callers -> [at : {"idle", "apply", "record", "observe", "settle", "next",
                                   "poll", "return"},
                             op : Ops \cup Cards \cup {None}, seen : 0..N,
                             locked : BOOLEAN, observes : BOOLEAN]]
    /\ crashes \in 0..MaxCrashes

Init ==
    /\ task = [status |-> "active", op |-> None, card |-> None]
    /\ batch = "none" /\ ordinal = 1
    /\ item = [n \in Items |-> [state |-> "queued", op |-> None, card |-> None]]
    /\ op = [o \in Ops |-> "none"]
    /\ card = [i \in Cards |-> "none"] /\ link = [i \in Cards |-> "none"]
    /\ known = {}
    /\ call = [c \in Callers |-> Idle]
    /\ crashes = 0

(***************************************************************************)
(* An operation of the engine.  Its key is fixed, so an operation that     *)
(* exists is returned as it is.  A prepare is refused (BATCH_* error, the  *)
(* batch untouched) unless its item is the current one of an active batch. *)
(***************************************************************************)
Refused(o) == o[2] # "commit" /\ ~(batch \in ACTIVE_BATCH_STATES /\ o[1] = ordinal)

Outcomes(o) ==
    IF o[2] = "commit" THEN {"succeeded", "failed", "unknown"}
                       ELSE {"requires_user_action", "failed"}

Execute(o) ==
    IF op[o] # "none" THEN UNCHANGED <<op, card>>
    ELSE \E s \in Outcomes(o) :
        /\ op' = [op EXCEPT ![o] = s]
        /\ card' = IF s = "requires_user_action"
                   THEN [card EXCEPT ![<<o[1], CardKind(o[2])>>] = "pending"] ELSE card

\* invoke() by caller c, under the task lock until the call returns.
Invoke(c, o) ==
    /\ ~(\E d \in Callers \ {c} : call[d].locked)
    /\ IF Refused(o)
       THEN /\ op' = [op EXCEPT ![o] = IF @ = "none" THEN "failed" ELSE @]
            /\ UNCHANGED card
       ELSE Execute(o)
    /\ call' = [call EXCEPT ![c] =
           [call[c] EXCEPT !.at = IF Refused(o) THEN "return" ELSE "apply", !.op = o,
                           !.locked = TRUE]]

(***************************************************************************)
(* Calls of the hosts.                                                     *)
(***************************************************************************)
\* A plain read: no batch, the operation is observed at once.  Only a write has an
\* unknown outcome.
InvokeRead ==
    /\ batch = "none" /\ op[0, "read"] = "none" /\ ~Locked
    /\ \E s \in OP_STATES \ {"unknown"} :
        /\ op' = [op EXCEPT ![<<0, "read">>] = s]
        /\ task' = [task EXCEPT !.status = TaskStatusForOperation(s), !.op = <<0, "read">>]
    /\ known' = known \cup {<<0, "read">>}
    /\ UNCHANGED <<batch, ordinal, item, card, link, call, crashes>>

\* The batch tool: create_batch and the summary it writes into the task.  Called
\* again for a batch that exists, it goes on with the current item.
CallBatchTool(c) ==
    /\ call[c] = Idle /\ ~Locked
    /\ \/ /\ batch = "none"
          /\ batch' = "running" /\ ordinal' = 1
          /\ task' = [task EXCEPT !.status = "running"]
       \/ /\ batch \in ACTIVE_BATCH_STATES /\ item[ordinal].op = None
          /\ UNCHANGED <<batch, ordinal, task>>
    /\ call' = [call EXCEPT ![c] = [Idle EXCEPT !.at = "next", !.locked = TRUE]]
    /\ UNCHANGED <<item, op, card, link, known, crashes>>

\* The prepare of the current item, nested in the call of c.
NextItem(c) ==
    /\ call[c].at = "next"
    /\ Invoke(c, <<ordinal, "fill">>)
    /\ UNCHANGED <<task, batch, ordinal, item, link, known, crashes>>

\* resume_interaction of a completed card that has not been consumed.
Resume(c, i) ==
    LET o == <<i[1], IF i[2] = "field" THEN "prepare" ELSE "commit">>
    IN /\ call[c] = Idle /\ card[i] = "completed" /\ op[o] = "none"
       /\ Invoke(c, o)
       /\ UNCHANGED <<task, batch, ordinal, item, link, known, crashes>>

\* resume_interaction of an authorization already committed: the response of the
\* stored operation is applied to the batch again, without the task lock.
ResumeAgain(c, n) ==
    LET o == <<n, "commit">>
    IN /\ call[c] = Idle /\ op[o] = "succeeded" /\ o \in known
       /\ call' = [call EXCEPT ![c] = [Idle EXCEPT !.at = "apply", !.op = o,
                                                    !.observes = FALSE]]
       /\ UNCHANGED <<task, batch, ordinal, item, op, card, link, known, crashes>>

(***************************************************************************)
(* _apply_batch_operation_response, transaction by transaction.            *)
(***************************************************************************)
\* The batch is read; an operation that already completed its item only makes
\* sure that the current item has been started.
ReadBatch(c) ==
    LET o == call[c].op
        done == \E n \in Items : item[n].op = o /\ item[n].state = "succeeded"
    IN /\ call[c].at = "apply"
       /\ call' = [call EXCEPT ![c] = [call[c] EXCEPT !.seen = ordinal,
              !.at = IF ~done THEN "record"
                     ELSE IF batch \in ACTIVE_BATCH_STATES /\ item[ordinal].op = None
                          THEN "next" ELSE "return"]]
       /\ UNCHANGED <<task, batch, ordinal, item, op, card, link, known, crashes>>

CardOf(o) ==
    IF op[o] = "requires_user_action" THEN <<o[1], CardKind(o[2])>> ELSE None

Coalesce(x, y) == IF x = None THEN y ELSE x

\* _sync_batch_task_summary and _update_task_state: the batch sets the status of
\* its task; an operation or card that is not given stays.
BatchTask(status, o, i) ==
    [status |-> status, op |-> Coalesce(o, task.op), card |-> Coalesce(i, task.card)]

\* record_batch_item_activity: the operation of another item changes nothing, and
\* the snapshot returned carries the ordinal that is current now.
RecordActivity(c) ==
    LET o == call[c].op
        i == CardOf(o)
        other == \E n \in Items \ {ordinal} : item[n].op = o
        waiting == IF i = None THEN "preparing" ELSE "waiting_user"
        state == IF i = None THEN "running" ELSE "waiting_user"
    IN /\ call[c].at = "record"
       /\ IF batch \in ACTIVE_BATCH_STATES /\ ~other
          THEN /\ item' = [item EXCEPT ![ordinal] =
                     [state |-> waiting, op |-> o, card |-> Coalesce(i, item[ordinal].card)]]
               /\ batch' = state
               /\ task' = BatchTask(state, o, i)
          ELSE UNCHANGED <<item, batch, task>>
       /\ call' = [call EXCEPT ![c] = [call[c] EXCEPT !.at = "observe",
                       !.seen = IF batch \in ACTIVE_BATCH_STATES THEN ordinal ELSE call[c].seen]]
       /\ UNCHANGED <<ordinal, op, card, link, known, crashes>>

\* observe_host_task: link_operation, then link_interaction of the card.
Observed(o) ==
    LET i == CardOf(o)
        t == OperationObservation(task, o)
    IN /\ known' = known \cup {o}
       /\ task' = IF i = None THEN t ELSE InteractionObservation(t, i)
       /\ link' = IF i = None THEN link ELSE [link EXCEPT ![i] = card[i]]

Observe(c) ==
    /\ call[c].at = "observe"
    /\ Observed(call[c].op)
    /\ call' = [call EXCEPT ![c].at =
                    IF op[call[c].op] = "requires_user_action" THEN "return" ELSE "settle"]
    /\ UNCHANGED <<batch, ordinal, item, op, card, crashes>>

AnySucceeded == \E n \in Items : item[n].state = "succeeded"

\* fail_current_batch_item for the item numbered n.
FailItem(n, o, s) ==
    IF batch \in ACTIVE_BATCH_STATES /\ n = ordinal
    THEN LET b == BatchFailureStatus(s, AnySucceeded)
         IN /\ item' = [item EXCEPT ![n] =
                  [item[n] EXCEPT !.state = s, !.op = Coalesce(o, item[n].op)]]
            /\ batch' = b
            /\ task' = BatchTask(b, o, None)
    ELSE UNCHANGED <<item, batch, task>>

\* complete_current_batch_item for the item numbered n: it must be the current
\* item of an active batch, and the next queued item becomes the current one.
CompleteItem(n, o) ==
    LET queued == {m \in Items : m > n /\ item[m].state = "queued"}
        next == CHOOSE m \in queued : \A k \in queued : m <= k
    IN IF item[n].state # "succeeded" /\ batch \in ACTIVE_BATCH_STATES /\ n = ordinal
       THEN /\ batch' = IF queued = {} THEN "succeeded" ELSE "running"
            /\ ordinal' = IF queued = {} THEN n ELSE next
            /\ item' = [m \in Items |->
                  CASE m = n -> [item[m] EXCEPT !.state = "succeeded", !.op = o]
                    [] m # n /\ queued # {} /\ m = next -> [item[m] EXCEPT !.state = "preparing"]
                    [] OTHER -> item[m]]
            /\ task' = BatchTask(batch', o, None)
       ELSE UNCHANGED <<batch, ordinal, item, task>>

\* A mutant: a failed item is left behind and the batch goes on with the next.
SettleFailureGoesOn(c) ==
    LET o == call[c].op
        n == call[c].seen
    IN /\ call[c].at = "settle" /\ op[o] \in {"failed", "unknown"}
       /\ IF batch \in ACTIVE_BATCH_STATES /\ n = ordinal /\ n < N
          THEN /\ item' = [item EXCEPT ![n].state = "failed"]
               /\ ordinal' = n + 1
          ELSE UNCHANGED <<item, ordinal>>
       /\ call' = [call EXCEPT ![c].at = IF ordinal' > n THEN "next" ELSE "return"]
       /\ UNCHANGED <<task, batch, op, card, link, known, crashes>>

SettleFailure(c) ==
    LET o == call[c].op
    IN /\ call[c].at = "settle" /\ op[o] \in {"failed", "unknown"}
       /\ FailItem(call[c].seen, o, IF op[o] = "unknown" THEN "outcome_unknown" ELSE "failed")
       /\ call' = [call EXCEPT ![c].at = "return"]
       /\ UNCHANGED <<ordinal, op, card, link, known, crashes>>

\* The item the snapshot called current is completed, and the prepare of the
\* next one follows; a completion the ledger refuses ends the call in an error.
SettleSuccess(c) ==
    LET o == call[c].op
        n == call[c].seen
        refused == item[n].state # "succeeded" /\ ~(batch \in ACTIVE_BATCH_STATES /\ n = ordinal)
    IN /\ call[c].at = "settle" /\ op[o] = "succeeded"
       /\ CompleteItem(n, o)
       /\ call' = [call EXCEPT ![c] =
              IF refused THEN Idle
              ELSE [call[c] EXCEPT !.at = IF batch' \in ACTIVE_BATCH_STATES /\ ordinal' > n
                                         THEN "next" ELSE "return"]]
       /\ UNCHANGED <<op, card, link, known, crashes>>

\* The call returns; a resume observes the operation it answers with once more.
Return(c) ==
    /\ call[c].at = "return"
    /\ IF call[c].observes THEN Observed(call[c].op) ELSE UNCHANGED <<known, task, link>>
    /\ call' = [call EXCEPT ![c] = Idle]
    /\ UNCHANGED <<batch, ordinal, item, op, card, crashes>>

(***************************************************************************)
(* The user, polls, cancellation and the startup repair.                   *)
(***************************************************************************)
\* A card is answered on its page, or its time is over.
Answer(i, s) ==
    /\ card[i] = "pending" /\ s \in {"completed", "expired"} \cup
                                     (IF i[2] = "auth" THEN {"declined"} ELSE {})
    /\ card' = [card EXCEPT ![i] = s]
    /\ UNCHANGED <<task, batch, ordinal, item, op, link, known, call, crashes>>

\* get_interaction of a linked card: the observation, in a transaction of its own.
Poll(c, i) ==
    /\ call[c] = Idle /\ link[i] # "none"
    /\ link' = [link EXCEPT ![i] = card[i]]
    /\ task' = InteractionObservation(task, i)
    /\ call' = IF card[i] \in {"declined", "expired", "superseded"}
               THEN [call EXCEPT ![c] = [Idle EXCEPT !.at = "poll", !.op = i]] ELSE call
    /\ UNCHANGED <<batch, ordinal, item, op, card, known, crashes>>

\* ... and the end of the current item, when the card that ended is its card.
PollFails(c) ==
    LET i == call[c].op
    IN /\ call[c].at = "poll"
       /\ IF item[ordinal].card = i
          THEN FailItem(ordinal, None, IF card[i] = "declined" THEN "canceled" ELSE card[i])
          ELSE UNCHANGED <<item, batch, task>>
       /\ call' = [call EXCEPT ![c] = Idle]
       /\ UNCHANGED <<ordinal, op, card, link, known, crashes>>

\* recover_host_tasks of a host that starts: an ended card is linked, no more.
RecoverHostTasks ==
    LET i == task.card
    IN /\ i # None /\ task.status \in ACTIVE_TASK_STATUSES
       /\ card[i] \in {"declined", "expired", "superseded"}
       /\ link' = [link EXCEPT ![i] = card[i]]
       /\ task' = InteractionObservation(task, i)
       /\ UNCHANGED <<batch, ordinal, item, op, card, known, call, crashes>>

\* cancel_unsubmitted_task of a batch: the pending card and the batch are retired
\* in one transaction, under the task lock.
Cancel ==
    LET i == task.card
    IN /\ task.status = "waiting_user" /\ i # None /\ ~Locked
       /\ batch \in ACTIVE_BATCH_STATES /\ card[i] = "pending"
       /\ card' = [card EXCEPT ![i] = "superseded"]
       /\ task' = [task EXCEPT !.status = "canceled"]
       /\ batch' = "canceled"
       /\ item' = [n \in Items |->
             IF item[n].state \in {"queued", "preparing", "waiting_user"}
             THEN [item[n] EXCEPT !.state = "canceled"] ELSE item[n]]
       /\ UNCHANGED <<ordinal, op, link, known, call, crashes>>

\* finish_host_task for a call that left neither an operation nor a card.
FinishHostTask(s) ==
    /\ known = {} /\ batch = "none" /\ task.status \in ACTIVE_TASK_STATUSES
    /\ task' = [task EXCEPT !.status = s]
    /\ UNCHANGED <<batch, ordinal, item, op, card, link, known, call, crashes>>

\* _expire_orphan_task_shells, run by every listing of tasks: a stale shell, or a
\* stale wait for a user that has no card to answer.
ExpireShells ==
    /\ batch = "none" /\ \A i \in Cards : link[i] = "none"
    /\ \/ task.status \in ACTIVE_TASK_STATUSES /\ known = {}
       \/ task.status = "waiting_user" /\ task.card = None
          /\ task.op # None /\ op[task.op] = "requires_user_action"
    /\ task' = [task EXCEPT !.status = "expired"]
    /\ UNCHANGED <<batch, ordinal, item, op, card, link, known, call, crashes>>

\* _repair_terminal_task_statuses, then nothing else of the ledger: an open task
\* whose current operation succeeded is a success, one whose current card was
\* superseded is superseded.
Repair(t) ==
    CASE t.status \in ACTIVE_TASK_STATUSES /\ t.op # None /\ op[t.op] = "succeeded"
           -> [t EXCEPT !.status = "succeeded"]
      [] t.status \in ACTIVE_TASK_STATUSES /\ ~(t.op # None /\ op[t.op] = "succeeded")
         /\ t.card # None /\ link[t.card] = "superseded"
           -> [t EXCEPT !.status = "superseded"]
      [] OTHER -> t

\* The service restarts: every call is lost, and run_startup_maintenance runs.
Restart ==
    /\ crashes < MaxCrashes
    /\ crashes' = crashes + 1
    /\ call' = [c \in Callers |-> Idle]
    /\ task' = Repair(task)
    /\ UNCHANGED <<batch, ordinal, item, op, card, link, known>>

Serve(c) == \/ ReadBatch(c) \/ RecordActivity(c) \/ Observe(c)
            \/ SettleFailure(c) \/ SettleSuccess(c) \/ NextItem(c) \/ PollFails(c)
            \/ Return(c)

Next ==
    \/ InvokeRead
    \/ \E c \in Callers : CallBatchTool(c) \/ Serve(c)
    \/ \E c \in Callers, i \in Cards : Resume(c, i)
    \/ \E c \in Callers, n \in Items : ResumeAgain(c, n)
    \/ \E i \in Cards, s \in CARD_STATES : Answer(i, s)
    \/ \E c \in Callers, i \in Cards : Poll(c, i)
    \/ RecoverHostTasks
    \/ Cancel
    \/ \E s \in {"succeeded", "failed"} : FinishHostTask(s)
    \/ ExpireShells
    \/ Restart

Spec == Init /\ [][Next]_vars

(***************************************************************************)
(* What the ledger promises.                                               *)
(***************************************************************************)
\* An item is recorded as succeeded only when its own commit succeeded: no
\* callback that comes late, twice or after a restart counts for another item.
ItemSuccessWasCommitted ==
    \A n \in Items : item[n].state = "succeeded" => op[n, "commit"] = "succeeded"

\* Targets are written one after the other, also while two calls apply the same
\* outcome: an item is committed only when the ledger has every earlier item as
\* succeeded, so a failure, an unknown outcome or a decline is the last thing the
\* batch does.  (The ledger itself may be wrong: see ItemSuccessWasCommitted.)
CommitsInOrder ==
    \A n \in Items : op[n, "commit"] # "none" =>
        \A m \in 1..(n - 1) : item[m].state = "succeeded"

\* A task whose outcome is unknown stays so, whatever is observed later.
UnknownIsSticky ==
    [][task.status = "outcome_unknown" => task'.status = "outcome_unknown"]_vars

\* A batch that ended is never restarted or relabelled.
BatchEndsOnce ==
    [][batch \notin ACTIVE_BATCH_STATES \cup {"none"} => batch' = batch]_vars

\* The parent task succeeds only when every frozen item did.
\* Does not hold (README, section 6).
TaskSuccessIsComplete ==
    batch # "none" /\ task.status = "succeeded" => \A n \in Items : item[n].state = "succeeded"
============================================================================
