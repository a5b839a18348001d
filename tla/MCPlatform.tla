----------------------------- MODULE MCPlatform -----------------------------
(***************************************************************************)
(* Fifteen specifications of what users, hosts and administrators do with  *)
(* the service and of how it is watched, saved and released: a behaviour   *)
(* of Spec is a behaviour of the one that `part' names.  v1, v2, ... are   *)
(* its variables; those it does not need are unused.  A variable or a      *)
(* constant that several specifications call by the same name is the same  *)
(* here wherever that is possible.                                         *)
(***************************************************************************)
EXTENDS Naturals

CONSTANTS
    Unset,                                                      \* nothing, or nobody
    Submissions, Pages, Tabs, Values, KeyNames,                 \* forms
    People, UserNames, Links, Grants, Logins,                   \* accounts
    Users, Hosts, Endpoints, HostOf, Tasks, Messages, EffectRefs, RefOwner,
    Calls, MaxCalls, MaxReports,                                \* chats
    MaxRuns, MaxSends, MaxFaults,                               \* gateway
    MaxEdits, Anchors,                                          \* plans
    N, Callers, MaxCrashes,                                     \* hub
    Downloads, Requests, MaxRestarts,                           \* documents
    Posts, Bodies, Size, Ids, Creators,                         \* pictures
    Channels, Webs, Identities, Owner, ToolKinds, MaxAttempts,
    MaxRemovals, ConflictMark,                                  \* proxy
    Admins, Scopes, MaxRevision, MaxRenewals,                                \* access
    Readership, Audiences, Texts, Profiles, Jobs, Decisions, MaxRevisions,
    MaxRequests, MaxBindings, MaxEvaluated,                     \* skills
    Principals, PreparedLogin, Challenges, LoginModes,          \* sessions
    Dbs, MaxWrites, Generations, Attempts, KeepMin,             \* backup
    Efforts,                                                    \* traces
    Releases, Base, Migrates, Reviewed, MaxOutages              \* release

LOCAL INSTANCE TLC

\* Callers may be exchanged.
CallerSymmetry == Permutations(Callers)

VARIABLES part, v1, v2, v3, v4, v5, v6, v7, v8, v9, v10, v11

vars == <<part, v1, v2, v3, v4, v5, v6, v7, v8, v9, v10, v11>>

\* Values of HostOf, RefOwner and Owner for TLC: one host has every endpoint,
\* and one user, or identity, everything there is.
OneHost == [e \in Endpoints |-> CHOOSE h \in Hosts : TRUE]
OneUser == [r \in EffectRefs |-> CHOOSE u \in Users : TRUE]
OneOwner == [w \in Webs |-> CHOOSE i \in Identities : TRUE]

Forms == INSTANCE FieldSubmission WITH
    Endpoints <- Pages, Link <- Unset, NoValue <- Unset,
    sub <- v1, pres <- v2, tab <- v3, exec <- v4,
    Keys <- KeyNames

Web == INSTANCE Accounts WITH
    link <- v1, account <- v2, endpoint <- v3, tab <- v4, grant <- v5,
    turn <- v6, password <- v7, login <- v8, None <- Unset,
    Names <- UserNames

Chats == INSTANCE Continuation WITH
    endpoint <- v1, event <- v2, call <- v3, subscription <- v4, outbox <- v5,
    timeline <- v6, task <- v7, cont <- v8, link <- v9, made <- v10,
    None <- Unset,
    Keys <- KeyNames, Refs <- EffectRefs

Gateway == INSTANCE ChatGateway WITH
    MaxAttempts <- MaxSends, run <- v1, tool <- v2, saved <- v3, other <- v4,
    news <- v5, node <- v6, py <- v7, faults <- v8

Plans == INSTANCE PlanCompilation WITH
    proposal <- v1, version <- v2, edits <- v3, phase <- v4, range <- v5,
    granted <- v6, ordinal <- v7, state <- v8, cover <- v9, flow <- v10

Hub == INSTANCE TaskHub WITH
    batch <- v1, ordinal <- v2, call <- v3, item <- v4, op <- v5, card <- v6,
    task <- v7, crashes <- v8, link <- v9, known <- v10

Files == INSTANCE Documents WITH
    dl <- v1, art <- v2, req <- v3, granted <- v4, restarts <- v5

Pictures == INSTANCE Attachments WITH
    Messages <- Posts, row <- v1, disk <- v2, drawn <- v3, writer <- v4,
    maker <- v5, reader <- v6, pruner <- v7, crashes <- v8, None <- Unset

Proxy == INSTANCE ToolProxy WITH
    NoOne <- Unset, binding <- v1, endpoint <- v2, call <- v3, request <- v4,
    reply <- v5, ops <- v6, task <- v7, epoch <- v8,
    Kinds <- ToolKinds, Conflict <- ConflictMark

Rights == INSTANCE Access WITH
    grant <- v1, token <- v2, renewals <- v3, paused <- v4, form <- v5,
    reader <- v6, writer <- v7, lost <- v8

Skills == INSTANCE SkillPublication WITH
    Users <- Readership, Tasks <- Jobs, state <- v1, revisions <- v2,
    tests <- v3, report <- v4, requests <- v5, versions <- v6, config <- v7,
    global <- v8, bindings <- v9, attached <- v10

Sessions == INSTANCE Login WITH
    NoPrincipal <- Unset, mode <- v1, sess <- v2, chal <- v3, run <- v4,
    call <- v5, lock <- v6, admin <- v7, faults <- v8,
    Modes <- LoginModes, Prepared <- PreparedLogin

Backup == INSTANCE RecoveryPoint WITH
    live <- v1, files <- v2, snap <- v3, report <- v4, manifests <- v5,
    pull <- v6, copies <- v7, faults <- v8, archives <- v9, age <- v10,
    drill <- v11

Traces == INSTANCE RuntimeTrace WITH
    effort <- v1, adapter <- v2, call <- v3, trace <- v4, op <- v5, spans <- v6

Release == INSTANCE ReleaseSwitch WITH
    MaxFaults <- MaxOutages, units <- v1, env <- v2, service <- v3,
    schema <- v4, timer <- v5, receipt <- v6, proc <- v7, faults <- v8,
    link <- v9

ASSUME ConstantsFit ==
    /\ Forms!FormsAssumption
    /\ Web!AccountsAssumption
    /\ Chats!ContinuationAssumption
    /\ Gateway!GatewayAssumption
    /\ Plans!AnchorsAssumption
    /\ Hub!HubAssumption
    /\ Files!DocumentsAssumption
    /\ Pictures!AttachmentsAssumption
    /\ Proxy!ProxyAssumption
    /\ Rights!AccessAssumption
    /\ Skills!PublicationAssumption
    /\ Sessions!LoginAssumption
    /\ Backup!RecoveryAssumption
    /\ Traces!TraceAssumption
    /\ Release!ReleaseAssumption

\* The variables a specification with fewer variables leaves over.
After10 == <<v11>>
After9 == <<v10, After10>>
After8 == <<v9, After9>>
After6 == <<v7, v8, After8>>
After5 == <<v6, After6>>
After4 == <<v5, After5>>
Unused10 == v11 = Unset
Unused9 == v10 = Unset /\ Unused10
Unused8 == v9 = Unset /\ Unused9
Unused6 == v7 = Unset /\ v8 = Unset /\ Unused8
Unused5 == v6 = Unset /\ Unused6
Unused4 == v5 = Unset /\ Unused5

Init ==
    \/ part = "sessions" /\ Sessions!Init /\ Unused8
    \/ part = "forms" /\ Forms!Init /\ Unused4
    \/ part = "accounts" /\ Web!Init /\ Unused8
    \/ part = "chats" /\ Chats!Init /\ Unused10
    \/ part = "gateway" /\ Gateway!Init /\ Unused8
    \/ part = "plans" /\ Plans!Init /\ Unused10
    \/ part = "hub" /\ Hub!Init /\ Unused10
    \/ part = "documents" /\ Files!Init /\ Unused5
    \/ part = "pictures" /\ Pictures!Init /\ Unused8
    \/ part = "proxy" /\ Proxy!Init /\ Unused8
    \/ part = "access" /\ Rights!Init /\ Unused8
    \/ part = "skills" /\ Skills!Init /\ Unused10
    \/ part = "backup" /\ Backup!Init
    \/ part = "traces" /\ Traces!Init /\ Unused6
    \/ part = "release" /\ Release!Init /\ Unused9

Next ==
    \/ part = "sessions" /\ Sessions!Next /\ UNCHANGED <<part, After8>>
    \/ part = "forms" /\ Forms!Next /\ UNCHANGED <<part, After4>>
    \/ part = "accounts" /\ Web!Next /\ UNCHANGED <<part, After8>>
    \/ part = "chats" /\ Chats!Next /\ UNCHANGED <<part, After10>>
    \/ part = "gateway" /\ Gateway!Next /\ UNCHANGED <<part, After8>>
    \/ part = "plans" /\ Plans!Next /\ UNCHANGED <<part, After10>>
    \/ part = "hub" /\ Hub!Next /\ UNCHANGED <<part, After10>>
    \/ part = "documents" /\ Files!Next /\ UNCHANGED <<part, After5>>
    \/ part = "pictures" /\ Pictures!Next /\ UNCHANGED <<part, After8>>
    \/ part = "proxy" /\ Proxy!Next /\ UNCHANGED <<part, After8>>
    \/ part = "access" /\ Rights!Next /\ UNCHANGED <<part, After8>>
    \/ part = "skills" /\ Skills!Next /\ UNCHANGED <<part, After10>>
    \/ part = "backup" /\ Backup!Next /\ UNCHANGED part
    \/ part = "traces" /\ Traces!Next /\ UNCHANGED <<part, After6>>
    \/ part = "release" /\ Release!Next /\ UNCHANGED <<part, After9>>

Spec == Init /\ [][Next]_vars

-----------------------------------------------------------------------------
\* The variables of the specification that runs stay in their domains.
TypeOK ==
    /\ part = "sessions" => Sessions!TypeOK
    /\ part = "forms" => Forms!TypeOK
    /\ part = "accounts" => Web!TypeOK
    /\ part = "chats" => Chats!TypeOK
    /\ part = "gateway" => Gateway!TypeOK
    /\ part = "plans" => Plans!TypeOK
    /\ part = "hub" => Hub!TypeOK
    /\ part = "documents" => Files!TypeOK
    /\ part = "pictures" => Pictures!TypeOK
    /\ part = "proxy" => Proxy!TypeOK
    /\ part = "access" => Rights!TypeOK
    /\ part = "skills" => Skills!TypeOK
    /\ part = "backup" => Backup!TypeOK
    /\ part = "traces" => Traces!TypeOK
    /\ part = "release" => Release!TypeOK

\* rebind_session_principal and the session lock: a call works with the login
\* of the principal its session records (Login).
UsesOwnLogin == [][part = "sessions" => Sessions!EntersOwnLogin]_vars

\* submit and consume of field_submissions.py: a plan is made of the values of
\* the form that was current (FieldSubmission).
PlanUsesSubmitted == part = "forms" => Forms!PlanUsesSubmitted

\* complete_enrollment: an account is its confirmed owner's (Accounts).
AccountIsConfirmed == part = "accounts" => Web!AccountIsConfirmed

\* tasks.py and central_service.py: no row of one user's task names another
\* user (Continuation).
Isolated == part = "chats" => Chats!Isolated

\* gateway_bridge.mjs: what is reported safe to repeat did not run a tool
\* (ChatGateway).
SafeIsTrue == part = "gateway" => Gateway!SafeIsTrue

\* task_plan_validation.py: no write is made of an incomplete reading
\* (PlanCompilation).
WriteIsComplete == part = "plans" => Plans!WriteIsComplete

\* complete_current_batch_item: items are written one after the other
\* (TaskHub).
CommitsInOrder == part = "hub" => Hub!CommitsInOrder

\* document_downloads.py and timeline_attachments.py: what is offered is there
\* (Documents, Attachments).
ReadyArtifactHasFile ==
    /\ part = "documents" => Files!ReadyArtifactHasFile
    /\ part = "pictures" => Pictures!PicturesAreWhole

\* proxy-tools.js and mcp-client.js: a retried prepare leaves one operation
\* (ToolProxy).
PreparedOnce == part = "proxy" => Proxy!PreparedOnce

\* permission_checked_tool and invoke: what is handed out was permitted while
\* it was read (Access).
ReadWasPermitted == part = "access" => Rights!ReadWasPermitted

\* skill_authoring.py: what is published was tried as it is (SkillPublication).
PublishedWasTried == part = "skills" => Skills!PublishedWasTried

\* create_recovery_bundle: the databases of a recovery point are of one moment
\* (RecoveryPoint).
OneMoment == part = "backup" => Backup!OneMoment

\* runtime_governance.py: the trace of an operation tells what happened
\* (RuntimeTrace).
TraceIsReal == part = "traces" => Traces!TraceIsReal

\* agentbridge_release.py: a release that is closed runs the program, units and
\* schema of one release (ReleaseSwitch).
ClosedIsWhole == part = "release" => Release!ClosedIsWhole
=============================================================================
