-------------------------- MODULE WriteAuthorization --------------------------
(***************************************************************************)
(* The one-shot write authorizations of agentbridge/core/                  *)
(* write_authorizations.py: the SQLite tables write_authorizations,        *)
(* write_authorization_presentations and write_authorization_card_sessions *)
(* and the transactions of WriteAuthorizationStore on them.  Each public   *)
(* method runs in one BEGIN IMMEDIATE transaction, so it is one action;    *)
(* _connect rolls the transaction back when the method raises, so a call   *)
(* that raises is a stuttering step and has no action of its own.          *)
(*                                                                         *)
(* Abstractions: the clock is one bit per authorization (has expires_at    *)
(* passed); user_subject and capability_name together are a scope; the     *)
(* bindings consume compares (user, system, session, capability, version)  *)
(* are a context; a CSRF token is the card session it was issued for.      *)
(***************************************************************************)
EXTENDS FiniteSets

CONSTANTS
    Auths,        \* authorization ids
    Scopes,       \* (user_subject, capability_name) pairs
    Keys,         \* supersession keys
    Contexts,     \* the bindings an authorization is issued for
    Endpoints,    \* endpoints a card can be presented on
    Cards,        \* card sessions, each with its CSRF token
    Ops,          \* commit operation ids
    Null          \* an unset column

ASSUME NullAssumption == Null \notin Endpoints \cup Ops \cup Auths

VARIABLES
    state,         \* write_authorizations.state
    target,        \* its frozen columns: scope, supersession key, bindings
    commit_op,     \* its commit_operation_id
    pres,          \* presentation state per authorization and endpoint
    card_state,    \* write_authorization_card_sessions.state
    card_for,      \* the authorization and the presentation of a card session
    overdue,       \* authorizations whose expires_at has passed
    verdict        \* history: the first decision posted for an authorization

vars == <<state, target, commit_op, pres, card_state, card_for, overdue, verdict>>

LiveStates == {"pending", "approved"}
FinalStates == {"rejected", "consumed", "expired", "superseded"}
AuthStates == {"absent"} \cup LiveStates \cup FinalStates
PresentationStates == {"absent", "active", "decided", "expired"}
CardStates == {"unissued", "pending", "consumed", "expired"}

\* A card is opened through the presentation of an endpoint, or directly.
Channels == Endpoints \cup {Null}

Targets == [scope : Scopes, key : Keys, context : Contexts]
CardTargets == [auth : Auths, channel : Channels]

-----------------------------------------------------------------------------
(* Helpers: what the transactions share.                                    *)

\* The presentations and the card sessions of the authorizations in S, closed
\* by the UPDATEs that accompany a supersession or an expiry.
ExpiredPresentations(S) ==
    [a \in Auths |-> [e \in Endpoints |->
        IF a \in S /\ pres[a][e] = "active" THEN "expired" ELSE pres[a][e]]]

\* Mutant: card sessions survive the closing of their authorization.
ExpiredCardsForgotten(S) == card_state

ExpiredCards(S) ==
    [c \in Cards |->
        IF card_state[c] = "pending" /\ card_for[c].auth \in S
        THEN "expired" ELSE card_state[c]]

\* _expire_if_needed: the state a transaction sees once it has expired the row.
Expires(a) == state[a] \in LiveStates /\ a \in overdue

EffectiveState(a) == IF Expires(a) THEN "expired" ELSE state[a]

-----------------------------------------------------------------------------
Init ==
    /\ state = [a \in Auths |-> "absent"]
    /\ target = [a \in Auths |-> Null]
    /\ commit_op = [a \in Auths |-> Null]
    /\ pres = [a \in Auths |-> [e \in Endpoints |-> "absent"]]
    /\ card_state = [c \in Cards |-> "unissued"]
    /\ card_for = [c \in Cards |-> Null]
    /\ overdue = {}
    /\ verdict = [a \in Auths |-> "none"]

\* create: the live authorizations of the same scope and key are superseded,
\* the open cards of every superseded authorization of the scope are closed,
\* and the new authorization starts pending.
\* Mutant: an approved authorization is not superseded by a new prepare.
SupersededPendingOnly(t) ==
    {b \in Auths : state[b] = "pending" /\ target[b].scope = t.scope
                                        /\ target[b].key = t.key}

Superseded(t) ==
    {b \in Auths : state[b] \in LiveStates /\ target[b].scope = t.scope
                                           /\ target[b].key = t.key}

Create(a, t) ==
    LET new == Superseded(t)
        closed == new \cup {b \in Auths : state[b] = "superseded" /\ target[b].scope = t.scope}
    IN  /\ state[a] = "absent"
        /\ state' = [b \in Auths |-> IF b = a THEN "pending"
                                     ELSE IF b \in new THEN "superseded"
                                     ELSE state[b]]
        /\ target' = [target EXCEPT ![a] = t]
        /\ pres' = ExpiredPresentations(closed)
        /\ card_state' = ExpiredCards(closed)
        /\ UNCHANGED <<commit_op, card_for, overdue, verdict>>

\* get: the read that makes an expiry durable.
Get(a) ==
    /\ Expires(a)
    /\ state' = [state EXCEPT ![a] = "expired"]
    /\ pres' = ExpiredPresentations({a})
    /\ card_state' = ExpiredCards({a})
    /\ UNCHANGED <<target, commit_op, card_for, overdue, verdict>>

\* create_presentation: expires the row first, then inserts the one
\* presentation of the endpoint in the state the authorization is in.
PresentationState(s) ==
    IF s = "pending" THEN "active"
    ELSE IF s \in {"expired", "superseded"} THEN "expired"
    ELSE "decided"

CreatePresentation(a, e) ==
    LET closed == IF Expires(a) THEN {a} ELSE {}
    IN  /\ state[a] # "absent"
        /\ state' = [state EXCEPT ![a] = EffectiveState(a)]
        /\ pres' = [ExpiredPresentations(closed) EXCEPT ![a][e] =
                       IF @ = "absent" THEN PresentationState(EffectiveState(a)) ELSE @]
        /\ card_state' = ExpiredCards(closed)
        /\ UNCHANGED <<target, commit_op, card_for, overdue, verdict>>

\* issue_csrf: opening the card of a pending authorization.  On an overdue row
\* the method raises, and the expiry it had just written is rolled back.
IssueCsrf(a, c, ch) ==
    /\ EffectiveState(a) = "pending"
    /\ ch \in Endpoints => pres[a][ch] # "absent"
    /\ card_state[c] = "unissued"
    /\ card_state' = [card_state EXCEPT ![c] = "pending"]
    /\ card_for' = [card_for EXCEPT ![c] = [auth |-> a, channel |-> ch]]
    /\ UNCHANGED <<state, target, commit_op, pres, overdue, verdict>>

\* decide: the first decision posted with the CSRF token of an open card of
\* this authorization wins, and closes every other card.
\* Mutant: a CSRF token is accepted for any authorization.
CardAcceptedAnywhere(a, c, ch) ==
    card_state[c] = "pending" /\ card_for[c].channel = ch

CardAccepted(a, c, ch) ==
    /\ card_state[c] = "pending"
    /\ card_for[c] = [auth |-> a, channel |-> ch]

\* Mutant: the posted verb is stored as the state.
DecidedStateVerbatim(decision) == decision

DecidedState(decision) == IF decision = "approve" THEN "approved" ELSE "rejected"

\* The first decision is the one the user relies on.
FirstVerdict(a, decision) ==
    [verdict EXCEPT ![a] = IF @ = "none" THEN decision ELSE @]

\* Mutant: a card left open on another endpoint decides an approved
\* authorization again, and the last decision wins.
DecideAgain(a, c, ch, decision) ==
    /\ EffectiveState(a) \in LiveStates
    /\ CardAccepted(a, c, ch)
    /\ state' = [state EXCEPT ![a] = DecidedState(decision)]
    /\ card_state' = [card_state EXCEPT ![c] = "consumed"]
    /\ verdict' = FirstVerdict(a, decision)
    /\ UNCHANGED <<target, commit_op, pres, card_for, overdue>>

Decide(a, c, ch, decision) ==
    /\ EffectiveState(a) = "pending"
    /\ ch \in Endpoints => pres[a][ch] # "absent"
    /\ CardAccepted(a, c, ch)
    /\ state' = [state EXCEPT ![a] = DecidedState(decision)]
    /\ card_state' = [d \in Cards |->
                        IF card_state[d] = "pending" /\ card_for[d].auth = a
                        THEN "consumed" ELSE card_state[d]]
    /\ pres' = [b \in Auths |-> [e \in Endpoints |->
                  IF b = a /\ pres[b][e] # "absent" THEN "decided" ELSE pres[b][e]]]
    /\ verdict' = FirstVerdict(a, decision)
    /\ UNCHANGED <<target, commit_op, card_for, overdue>>

\* supersede: withdraws a live authorization.  It does not look at the clock;
\* pending_only makes it refuse an approved one.
\* Mutant: an authorization a commit already took is withdrawn.
SupersedableTooLate(pendingOnly) == {"pending", "approved", "consumed"}

Supersedable(pendingOnly) == IF pendingOnly THEN {"pending"} ELSE LiveStates

Supersede(a, pendingOnly) ==
    /\ state[a] \in Supersedable(pendingOnly)
    /\ state' = [state EXCEPT ![a] = "superseded"]
    /\ pres' = ExpiredPresentations({a})
    /\ card_state' = ExpiredCards({a})
    /\ UNCHANGED <<target, commit_op, card_for, overdue, verdict>>

\* consume: the commit boundary.  One operation, presenting the bindings the
\* authorization was issued for, takes an approved and unexpired authorization.
\* Mutant: the row's state is used without the expiry check.
ConsumableOverdue(a, x) == state[a] = "approved" /\ target[a].context = x

Consumable(a, x) == EffectiveState(a) = "approved" /\ target[a].context = x

Consume(a, x, op) ==
    /\ Consumable(a, x)
    /\ state' = [state EXCEPT ![a] = "consumed"]
    /\ commit_op' = [commit_op EXCEPT ![a] = op]
    /\ UNCHANGED <<target, pres, card_state, card_for, overdue, verdict>>

\* The clock reaches expires_at of an authorization.
ClockPasses(a) ==
    /\ state[a] # "absent"
    /\ a \notin overdue
    /\ overdue' = overdue \cup {a}
    /\ UNCHANGED <<state, target, commit_op, pres, card_state, card_for, verdict>>

Next ==
    \E a \in Auths :
        \/ \E t \in Targets : Create(a, t)
        \/ Get(a)
        \/ \E e \in Endpoints : CreatePresentation(a, e)
        \/ \E c \in Cards, ch \in Channels : IssueCsrf(a, c, ch)
        \/ \E c \in Cards, ch \in Channels, d \in {"approve", "reject"} :
              Decide(a, c, ch, d)
        \/ \E p \in BOOLEAN : Supersede(a, p)
        \/ \E x \in Contexts, op \in Ops : Consume(a, x, op)
        \/ ClockPasses(a)

Spec == Init /\ [][Next]_vars

-----------------------------------------------------------------------------
\* Type correctness of the three tables; the frozen columns are set exactly
\* for the rows that exist.
TypeOK ==
    /\ state \in [Auths -> AuthStates]
    /\ target \in [Auths -> Targets \cup {Null}]
    /\ \A a \in Auths : state[a] # "absent" => target[a] \in Targets
    /\ commit_op \in [Auths -> Ops \cup {Null}]
    /\ pres \in [Auths -> [Endpoints -> PresentationStates]]
    /\ card_state \in [Cards -> CardStates]
    /\ card_for \in [Cards -> CardTargets \cup {Null}]
    /\ \A c \in Cards : card_state[c] # "unissued" => card_for[c] \in CardTargets
    /\ overdue \subseteq {a \in Auths : state[a] # "absent"}
    /\ verdict \in [Auths -> {"none", "approve", "reject"}]

\* A card is open exactly as long as its authorization awaits a decision: no
\* presentation stays active and no CSRF token stays usable once any path
\* (decision on another endpoint, supersession, expiry seen by a poll) has
\* closed the authorization, and no presentation is closed before that.
OpenCardsArePending ==
    /\ \A a \in Auths, e \in Endpoints :
          pres[a][e] # "absent" =>
             /\ state[a] # "absent"
             /\ pres[a][e] = "active" <=> state[a] = "pending"
    /\ \A c \in Cards : card_state[c] = "pending" => state[card_for[c].auth] = "pending"

\* However prepares interleave, at most one authorization of a target (scope
\* and supersession key) can still be approved or committed.
OneLivePerTarget ==
    \A a, b \in Auths :
        /\ state[a] \in LiveStates /\ state[b] \in LiveStates
        /\ target[a].scope = target[b].scope /\ target[a].key = target[b].key
        => a = b

\* An authorization that was approved, rejected or committed was decided on a
\* card opened for that very authorization, and the first decision stands: of
\* two cards that are posted at the same time, or of a card that is posted after
\* the decision, the second changes nothing.  The decision leaves a consumed card
\* session behind, and exactly a commit leaves the operation that took it.
DecisionHasItsCard ==
    \A a \in Auths :
        /\ state[a] \in {"absent", "pending"} => verdict[a] = "none"
        /\ state[a] \in {"approved", "consumed"} => verdict[a] = "approve"
        /\ verdict[a] = "reject" <=> state[a] = "rejected"
        /\ verdict[a] # "none" =>
              \E c \in Cards : card_state[c] = "consumed" /\ card_for[c].auth = a
        /\ state[a] = "consumed" <=> commit_op[a] # Null

\* A closed authorization stays closed: no later poll, card, supersession,
\* clock step or second commit changes its row.
ClosedIsFinal ==
    [][\A a \in Auths : state[a] \in FinalStates =>
          /\ state'[a] = state[a]
          /\ commit_op'[a] = commit_op[a]]_vars

\* An approval does not outlive its TTL: although only get and
\* create_presentation make an expiry durable, an overdue authorization is
\* neither decided nor committed by any later step.
OverdueIsPowerless ==
    [][\A a \in overdue :
          state'[a] # state[a] => state'[a] \in {"expired", "superseded"}]_vars
=============================================================================
