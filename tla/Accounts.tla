------------------------------ MODULE Accounts ------------------------------
(***************************************************************************)
(* The accounts of the Agent Workspace (workspace/stores.py): a browser    *)
(* asks for a link code, the owner of an identity confirms it from another *)
(* endpoint, the browser registers the account and its endpoint and opens  *)
(* a session; each message sent to the host carries a one-time grant that  *)
(* binds the turn to the account.  And the sessions of administrators      *)
(* (admin/stores.py, admin/server.py).                                     *)
(*                                                                         *)
(* confirm_link, create_account and redeem_gateway_grant are immediate     *)
(* transactions; create_account takes the time before it hashes the        *)
(* password and waits for the lock; link_status reads and writes in two    *)
(* statements.                                                             *)
(***************************************************************************)
EXTENDS Naturals

CONSTANTS
    People,      \* user subjects
    Names,       \* user names
    Links,       \* rows of workspace_link_challenges
    Tabs,        \* browser requests
    Grants,      \* rows of workspace_gateway_grants
    Logins,      \* sign-ins of the administrator
    None

\* No row is the absence of one.
AccountsAssumption == None \notin [name : Names, via : Links]

VARIABLES
    link,        \* link[l]: state, who confirmed it, past its expiry or not
    account,     \* account[p]: row of workspace_accounts, None or a record
    endpoint,    \* people with a web endpoint in the task hub
    tab,         \* complete_enrollment and link_status, step by step
    grant,       \* grant[g]: state, account, past its expiry or not
    turn,        \* turn[p]: the grant whose message is the current turn
    password,    \* generation of the administrator's password
    login        \* login[i]: the sign-in and its session

vars == <<link, account, endpoint, tab, grant, turn, password, login>>

IdleTab == [pc |-> "idle", link |-> None, name |-> None, late |-> FALSE]

Init ==
    /\ link = [l \in Links |-> [state |-> "none", owner |-> None, late |-> FALSE]]
    /\ account = [p \in People |-> None]
    /\ endpoint = {}
    /\ tab = [t \in Tabs |-> IdleTab]
    /\ grant = [g \in Grants |-> [state |-> "none", account |-> None, late |-> FALSE]]
    /\ turn = [p \in People |-> None]
    /\ password = 0
    /\ login = [i \in Logins |-> [pc |-> "idle", with |-> 0]]

-----------------------------------------------------------------------------
(* Links.                                                                  *)

start_link(l) ==
    /\ link[l].state = "none"
    /\ link' = [link EXCEPT ![l].state = "pending"]
    /\ UNCHANGED <<account, endpoint, tab, grant, turn, password, login>>
LinkRunsOut(l) ==
    /\ link[l].state # "none" /\ ~link[l].late
    /\ link' = [link EXCEPT ![l].late = TRUE]
    /\ UNCHANGED <<account, endpoint, tab, grant, turn, password, login>>

\* link_status: a link past its expiry is read, ...
LinkStatus(t, l) ==
    /\ tab[t].pc = "idle"
    /\ link[l].state \in {"pending", "confirmed"} /\ link[l].late
    /\ tab' = [tab EXCEPT ![t] = [IdleTab EXCEPT !.pc = "expire", !.link = l]]
    /\ UNCHANGED <<link, account, endpoint, grant, turn, password, login>>
\* ... and set to expired, whatever it has become.
ExpireLink(t) ==
    /\ tab[t].pc = "expire"
    /\ link' = [link EXCEPT ![tab[t].link].state = "expired"]
    /\ tab' = [tab EXCEPT ![t] = IdleTab]
    /\ UNCHANGED <<account, endpoint, grant, turn, password, login>>

\* A mutant: a code that was confirmed is confirmed again by somebody else.
ConfirmableTwice(l, p) == link[l].state \in {"pending", "confirmed", "consumed"}

\* confirm_link: the conversation that sends the code gives its identity.
Confirmable(l, p) == link[l].state = "pending" /\ ~link[l].late /\ account[p] = None
confirm_link(l, p) ==
    /\ Confirmable(l, p)
    /\ link' = [link EXCEPT ![l].state = "confirmed", ![l].owner = p]
    /\ UNCHANGED <<account, endpoint, tab, grant, turn, password, login>>

-----------------------------------------------------------------------------
(* complete_enrollment: create_account, register_workspace_endpoint and    *)
(* create_session; a request may be repeated, and die between its steps.   *)

BeginEnrollment(t, l, n) ==
    /\ tab[t].pc = "idle" /\ link[l].state # "none"
    /\ tab' = [tab EXCEPT ![t] = [pc |-> "create", link |-> l, name |-> n,
                                  late |-> link[l].late]]
    /\ UNCHANGED <<link, account, endpoint, grant, turn, password, login>>

\* A consumed link answers its own account to who repeats the request.
Repeated(t) ==
    LET l == link[tab[t].link] IN
    /\ l.state = "consumed" /\ account[l.owner] # None
    /\ account[l.owner].name = tab[t].name
\* user name and identity are unique.
Registrable(t) ==
    LET l == link[tab[t].link] IN
    /\ l.state = "confirmed" /\ ~tab[t].late
    /\ account[l.owner] = None
    /\ \A p \in People : account[p] # None => account[p].name # tab[t].name
create_account(t) ==
    LET l == tab[t].link IN
    /\ tab[t].pc = "create"
    /\ IF Registrable(t)
       THEN /\ account' = [account EXCEPT ![link[l].owner] = [name |-> tab[t].name, via |-> l]]
            /\ link' = [link EXCEPT ![l].state = "consumed"]
       ELSE UNCHANGED <<account, link>>
    /\ tab' = [tab EXCEPT ![t] = IF Registrable(t) \/ Repeated(t)
                                 THEN [@ EXCEPT !.pc = "register"] ELSE IdleTab]
    /\ UNCHANGED <<endpoint, grant, turn, password, login>>

\* ensure_endpoint and attach_endpoint, then a session.
RegisterEndpoint(t) ==
    /\ tab[t].pc = "register"
    /\ endpoint' = endpoint \cup {link[tab[t].link].owner}
    /\ tab' = [tab EXCEPT ![t] = IdleTab]
    /\ UNCHANGED <<link, account, grant, turn, password, login>>
EnrollmentDies(t) ==
    /\ tab[t].pc \in {"create", "register"}
    /\ tab' = [tab EXCEPT ![t] = IdleTab]
    /\ UNCHANGED <<link, account, endpoint, grant, turn, password, login>>

-----------------------------------------------------------------------------
(* Grants of the gateway.                                                  *)

issue_gateway_grant(g, p) ==
    /\ grant[g].state = "none"
    /\ account[p] # None /\ p \in endpoint
    /\ grant' = [grant EXCEPT ![g] = [state |-> "pending", account |-> p, late |-> FALSE]]
    /\ UNCHANGED <<link, account, endpoint, tab, turn, password, login>>
GrantRunsOut(g) ==
    /\ grant[g].state = "pending" /\ ~grant[g].late
    /\ grant' = [grant EXCEPT ![g].late = TRUE]
    /\ UNCHANGED <<link, account, endpoint, tab, turn, password, login>>

\* A mutant: whoever presents the grant is believed.
RedeemableByAnyone(g, p) == grant[g].state \in {"pending", "consumed"}

\* redeem_gateway_grant by a host that is connected as p.
Redeemable(g, p) == grant[g].state = "pending" /\ ~grant[g].late /\ grant[g].account = p
redeem_gateway_grant(g, p) ==
    /\ Redeemable(g, p)
    /\ grant' = [grant EXCEPT ![g].state = "consumed"]
    /\ turn' = [turn EXCEPT ![p] = g]
    /\ UNCHANGED <<link, account, endpoint, tab, password, login>>

-----------------------------------------------------------------------------
(* Administrators.                                                         *)

\* _login: authenticate against the password of the moment, then a session.
authenticate(i) ==
    /\ login[i].pc = "idle"
    /\ login' = [login EXCEPT ![i] = [pc |-> "authenticated", with |-> password]]
    /\ UNCHANGED <<link, account, endpoint, tab, grant, turn, password>>
CreateSession(i) ==
    /\ login[i].pc = "authenticated"
    /\ login' = [login EXCEPT ![i].pc = "open"]
    /\ UNCHANGED <<link, account, endpoint, tab, grant, turn, password>>

\* change_password commits, then revoke_account_sessions ends the others.
change_password(i) ==
    /\ login[i].pc = "open" /\ password = 0
    /\ password' = 1
    /\ login' = [login EXCEPT ![i].pc = "revoking"]
    /\ UNCHANGED <<link, account, endpoint, tab, grant, turn>>
revoke_account_sessions(i) ==
    /\ login[i].pc = "revoking"
    /\ login' = [j \in Logins |->
                   IF j = i THEN [pc |-> "open", with |-> password]
                   ELSE IF login[j].pc = "open" THEN [login[j] EXCEPT !.pc = "revoked"]
                   ELSE login[j]]
    /\ UNCHANGED <<link, account, endpoint, tab, grant, turn, password>>

\* Sign-out, the end of the lifetime, or no request for too long.
SessionEnds(i) ==
    /\ login[i].pc = "open"
    /\ login' = [login EXCEPT ![i].pc = "revoked"]
    /\ UNCHANGED <<link, account, endpoint, tab, grant, turn, password>>

\* The tools agentbridge_host_workspace_link_confirm and
\* agentbridge_host_workspace_session_bind: p is the owner of the token.
WorkspaceLinkConfirm(l) == \E p \in People : confirm_link(l, p)
WorkspaceSessionBind(g) == \E p \in People : redeem_gateway_grant(g, p)

Linking == \/ \E l \in Links : start_link(l) \/ LinkRunsOut(l) \/ WorkspaceLinkConfirm(l)
           \/ \E t \in Tabs : \/ ExpireLink(t) \/ \E l \in Links : LinkStatus(t, l)
Enrolling == \E t \in Tabs :
    \/ \E l \in Links, n \in Names : BeginEnrollment(t, l, n)
    \/ create_account(t) \/ RegisterEndpoint(t) \/ EnrollmentDies(t)
Granting == \E g \in Grants :
    \/ GrantRunsOut(g) \/ WorkspaceSessionBind(g)
    \/ \E p \in People : issue_gateway_grant(g, p)
Administering == \E i \in Logins :
    \/ authenticate(i) \/ CreateSession(i) \/ SessionEnds(i)
    \/ change_password(i) \/ revoke_account_sessions(i)

Next == Linking \/ Enrolling \/ Granting \/ Administering

Spec == Init /\ [][Next]_vars

-----------------------------------------------------------------------------
TypeOK ==
    /\ link \in [Links -> [state : {"none", "pending", "confirmed", "consumed", "expired"},
                           owner : People \cup {None}, late : BOOLEAN]]
    /\ account \in [People -> [name : Names, via : Links] \cup {None}]
    /\ endpoint \subseteq People
    /\ \A t \in Tabs : tab[t].pc \in {"idle", "expire", "create", "register"}
    /\ grant \in [Grants -> [state : {"none", "pending", "consumed"},
                             account : People \cup {None}, late : BOOLEAN]]
    /\ turn \in [People -> Grants \cup {None}]
    /\ password \in 0..1
    /\ login \in [Logins -> [pc : {"idle", "authenticated", "open", "revoking", "revoked"},
                             with : 0..1]]

\* An account belongs to who confirmed the code it was registered with, one
\* account to a code and one name to an account, however many tabs register,
\* repeat and die; only then has it an endpoint.
AccountIsConfirmed ==
    \A p \in People :
       /\ account[p] # None => link[account[p].via].owner = p
       /\ p \in endpoint => account[p] # None
       /\ \A q \in People \ {p} :
            account[p] # None /\ account[q] # None
              => account[p].name # account[q].name /\ account[p].via # account[q].via

\* The turn a host works on is one that this account was granted.
TurnIsOwn == \A p \in People : turn[p] # None => grant[turn[p]].account = p

\* Who registered can repeat the request until the endpoint is there.  (It
\* does not hold: link_status may expire a link that has just been consumed.)
EnrollmentIsRepeatable ==
    \A p \in People : account[p] # None => link[account[p].via].state = "consumed"

\* Once a changed password has ended the other sessions, no session is open
\* that was authenticated with the old one.  (It does not hold: a sign-in
\* between its two steps is not a session yet.)
OldPasswordIsOut ==
    (password = 1 /\ \A i \in Logins : login[i].pc # "revoking")
      => \A i \in Logins : login[i].pc = "open" => login[i].with = 1
=============================================================================
