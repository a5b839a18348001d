-------------------------- MODULE FieldSubmission --------------------------
(***************************************************************************)
(* Trusted field input: the submissions, their per-endpoint presentations  *)
(* and the card sessions that carry CSRF tokens (field_submissions.py),    *)
(* the card pages that read the store and then write it in a second        *)
(* transaction (auth/field_card.py), the executor that turns submitted     *)
(* values into a write authorization (controlled_write_executor.py), and   *)
(* the cancel of a task that retires a form.                               *)
(*                                                                         *)
(* One user, one capability, one session.  The clock is the flag `due` of  *)
(* a submission; a transaction that raises rolls its own expiry back.      *)
(***************************************************************************)
EXTENDS Naturals, FiniteSets

CONSTANTS
    Submissions,    \* 1 .. n, in the order of their creation
    Keys,           \* supersession keys, one per write target
    Endpoints,      \* hosts that present the form on a page of their own
    Link,           \* the page without a presentation (presentation_id IS NULL)
    Tabs,           \* browser tabs, each asking for the form once
    Values,         \* normalized values a user may type
    NoValue

FormsAssumption == NoValue \notin Values /\ Keys # {}

VARIABLES
    sub,    \* rows of field_submissions; `due` is past expires_at
    pres,   \* pres[s][e]: row of field_submission_presentations
    tab,    \* a browser tab, with its row of field_submission_card_sessions
    exec    \* the executor, serialised by the session lock

vars == <<sub, pres, tab, exec>>

States == {"none", "pending", "submitted", "consumed", "expired", "superseded"}
Open == {"pending", "submitted"}
ClosedTab == [pc |-> "closed", of |-> 0, from |-> Link, card |-> "none"]
IdleExec == [pc |-> "idle", of |-> 0, values |-> NoValue]

Init ==
    /\ sub = [s \in Submissions |->
                 [state |-> "none", key |-> CHOOSE k \in Keys : TRUE,
                  values |-> NoValue, due |-> FALSE, plan |-> NoValue]]
    /\ pres = [s \in Submissions |-> [e \in Endpoints |-> "none"]]
    /\ tab = [t \in Tabs |-> ClosedTab]
    /\ exec = IdleExec

\* Rows the three UPDATEs of a closing transaction touch: the submissions in
\* `closed`, their active presentations and their pending card sessions.
ExpiredPages(closed) ==
    [s \in Submissions |-> [e \in Endpoints |->
        IF s \in closed /\ pres[s][e] = "active" THEN "expired" ELSE pres[s][e]]]
ExpiredTabs(closed) ==
    [t \in Tabs |->
        IF tab[t].of \in closed /\ tab[t].card = "pending"
        THEN [tab[t] EXCEPT !.card = "expired"] ELSE tab[t]]
Close(closed, rows) ==
    /\ sub' = rows
    /\ pres' = ExpiredPages(closed)
    /\ tab' = ExpiredTabs(closed)

Superseded(ss) ==
    [s \in Submissions |->
        IF s \in ss THEN [sub[s] EXCEPT !.state = "superseded"] ELSE sub[s]]
\* A mutant: nothing is superseded.
SupersededNothing(k) == {}

SupersededByKey(k) == {s \in Submissions : sub[s].state \in Open /\ sub[s].key = k}

\* create: the executor asks for input, retiring what waits for the same target.
CreateSubmission(s, k) ==
    /\ exec.pc = "idle"
    /\ sub[s].state = "none"
    /\ \A r \in Submissions : r < s => sub[r].state # "none"
    /\ LET old == SupersededByKey(k)
           retired == Superseded(old)
           \* the two card UPDATEs select every superseded row of the capability
           all == {r \in Submissions : retired[r].state = "superseded"}
       IN Close(all, [retired EXCEPT ![s].state = "pending", ![s].key = k])
    /\ UNCHANGED exec

Due(s) == sub[s].state \in Open /\ sub[s].due

TimePasses(s) ==
    /\ sub[s].state \in Open /\ ~sub[s].due
    /\ sub' = [sub EXCEPT ![s].due = TRUE]
    /\ UNCHANGED <<pres, tab, exec>>

\* _expire_if_needed as get() commits it: every poll of the interaction does.
ExpireIfNeeded(s) ==
    /\ Due(s)
    /\ Close({s}, [sub EXCEPT ![s].state = "expired"])
    /\ UNCHANGED exec

PresentationState(st) ==
    CASE st = "pending" -> "active"
      [] st \in {"expired", "superseded"} -> "expired"
      [] OTHER -> "submitted"
CreatePresentation(s, e) ==
    /\ sub[s].state # "none" /\ ~Due(s)
    /\ pres[s][e] = "none"
    /\ pres' = [pres EXCEPT ![s][e] = PresentationState(sub[s].state)]
    /\ UNCHANGED <<sub, tab, exec>>

\* get_card, first transaction: get() says the form is pending.
GetCard(t, s, from) ==
    /\ tab[t].pc = "closed"
    /\ sub[s].state = "pending" /\ ~Due(s)
    /\ from # Link => pres[s][from] # "none"
    /\ tab' = [tab EXCEPT ![t] =
                 [pc |-> "asked", of |-> s, from |-> from, card |-> "none"]]
    /\ UNCHANGED <<sub, pres, exec>>

\* A mutant: a token is issued for any submission.
IssuesCsrfUnchecked(s) == TRUE

\* get_card, second transaction: issue_csrf looks again.
IssuesCsrf(s) == sub[s].state = "pending" /\ ~sub[s].due
IssueCsrf(t) ==
    /\ tab[t].pc = "asked"
    /\ tab' = [tab EXCEPT ![t] =
                 IF IssuesCsrf(tab[t].of) THEN [@ EXCEPT !.pc = "open", !.card = "pending"]
                                          ELSE [@ EXCEPT !.pc = "refused"]]
    /\ UNCHANGED <<sub, pres, exec>>

\* A mutant: the state of the token is not looked at.
AcceptsAnyToken(t) ==
    LET s == tab[t].of IN sub[s].state \in Open /\ ~sub[s].due

\* submit_card: _normalize_submission accepted the fields; submit() takes the
\* token of this tab while both the form and the token are pending.
AcceptsValues(t) ==
    LET s == tab[t].of IN sub[s].state = "pending" /\ ~sub[s].due /\ tab[t].card = "pending"
SubmitCard(t, v) ==
    LET s == tab[t].of IN
    /\ tab[t].pc = "open"
    /\ AcceptsValues(t)
    /\ sub' = [sub EXCEPT ![s].state = "submitted", ![s].values = v]
    /\ tab' = [r \in Tabs |-> IF tab[r].of = s /\ tab[r].card = "pending"
                              THEN [tab[r] EXCEPT !.card = "consumed"] ELSE tab[r]]
    /\ pres' = [pres EXCEPT ![s] =
                  [e \in Endpoints |-> IF @[e] = "none" THEN "none" ELSE "submitted"]]
    /\ UNCHANGED exec

\* supersede: the task of a form is canceled (pending only) or its plan is
\* retired after it was submitted.
Supersede(s, pendingOnly) ==
    /\ sub[s].state \in (IF pendingOnly THEN {"pending"} ELSE Open)
    /\ Close({s}, Superseded({s}))
    /\ UNCHANGED exec

\* resolve_field_input, then prepare up to write_authorizations.create.
Prepare(s) ==
    /\ exec.pc = "idle"
    /\ sub[s].state = "submitted" /\ ~Due(s)
    /\ exec' = [pc |-> "prepared", of |-> s, values |-> sub[s].values]
    /\ UNCHANGED <<sub, pres, tab>>

\* A mutant: an ended submission is consumed.
MayConsumeEnded(s) == sub[s].state # "pending"

\* consume: one transaction later; a refusal is the ValueError of prepare.
MayConsume(s) == sub[s].state = "submitted" /\ ~sub[s].due
Consume ==
    LET s == exec.of IN
    /\ exec.pc = "prepared"
    /\ sub' = IF MayConsume(s)
              THEN [sub EXCEPT ![s].state = "consumed", ![s].plan = exec.values] ELSE sub
    /\ exec' = IdleExec
    /\ UNCHANGED <<pres, tab>>

\* The service restarts between the two: the authorization stays, the form too.
Restart ==
    /\ exec.pc = "prepared"
    /\ exec' = IdleExec
    /\ UNCHANGED <<sub, pres, tab>>

Next ==
    \/ \E s \in Submissions :
          \/ \E k \in Keys : CreateSubmission(s, k)
          \/ TimePasses(s) \/ ExpireIfNeeded(s) \/ Prepare(s)
          \/ \E e \in Endpoints : CreatePresentation(s, e)
          \/ \E p \in BOOLEAN : Supersede(s, p)
          \/ \E t \in Tabs, f \in Endpoints \cup {Link} : GetCard(t, s, f)
    \/ \E t \in Tabs : IssueCsrf(t) \/ \E v \in Values : SubmitCard(t, v)
    \/ Consume
    \/ Restart

Spec == Init /\ [][Next]_vars
-----------------------------------------------------------------------------
TypeOK ==
    /\ sub \in [Submissions -> [state : States, key : Keys, due : BOOLEAN,
                                values : Values \cup {NoValue},
                                plan : Values \cup {NoValue}]]
    /\ pres \in [Submissions -> [Endpoints -> {"none", "active", "submitted", "expired"}]]
    /\ tab \in [Tabs -> [pc : {"closed", "asked", "open", "refused"},
                         of : Submissions \cup {0}, from : Endpoints \cup {Link},
                         card : {"none", "pending", "consumed", "expired"}]]
    /\ exec \in [pc : {"idle", "prepared"}, of : Submissions \cup {0},
                 values : Values \cup {NoValue}]

\* A page that can still be posted belongs to a form that still waits for it,
\* and that form is the only open one for its write target: no order of opening,
\* superseding, expiring, canceling and submitting leaves a live token or an
\* active presentation behind (create, submit, supersede, _expire_if_needed).
OpenPageIsCurrent ==
    \A s \in Submissions :
        /\ (\E t \in Tabs : tab[t].of = s /\ tab[t].card = "pending")
              => sub[s].state = "pending"
        /\ (\E e \in Endpoints : pres[s][e] = "active") => sub[s].state = "pending"
        /\ \A r \in Submissions \ {s} :
              {sub[r].state, sub[s].state} \subseteq Open => sub[r].key # sub[s].key

\* What the user typed is what is planned: values are written once, by one
\* tab, and the operation that consumes the form planned exactly those values
\* although it read them in an earlier transaction.
PlanUsesSubmitted ==
    \A s \in Submissions :
        /\ sub[s].state = "consumed" => sub[s].plan = sub[s].values /\ sub[s].plan # NoValue
        /\ sub[s].state = "pending" => sub[s].values = NoValue
=============================================================================
