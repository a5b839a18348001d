-------------------------- MODULE HostCoordination --------------------------
(***************************************************************************)
(* How hosts drive the trusted interactions of a task to their end: the    *)
(* coordinator of the OpenClaw plugin (coordinator.js), the lease it takes *)
(* (HostContract) and the resume endpoint of the server (mcp/central.py).  *)
(*                                                                         *)
(* The interactions of the task follow each other: the user completes one  *)
(* on its card, a host resumes it, and the server answers with the next or *)
(* ends the task.  A host learns of an interaction from a tool result,     *)
(* from a notification of the outbox or from its recovery at start, and    *)
(* polls it.  resumeStarted and resumeClaims are the claim that keeps a    *)
(* host from resuming an interaction twice.  A host may stop at any step,  *)
(* calls and answers may be lost, and a lease may lapse under a call.      *)
(***************************************************************************)
EXTENDS HostContract, FiniteSets

CONSTANTS Subscribed, \* hosts whose endpoints are notified of the task
          Steps,      \* the task has interactions 1 .. Steps
          MaxFaults   \* bound: stops, prunings, losses, refusals, upgrades

VARIABLES
    inter,     \* state of each interaction on the server
    ended,     \* the task is terminal on the server
    notice,    \* interactions the outbox has a notification of, per host
    record,    \* what each host does about each interaction
    claims,    \* interactions each host has claimed to resume
    terminal,  \* hosts that know the task to be terminal
    calls,     \* resume calls on their way or being executed
    sent,      \* resume calls each host has made in its present life
    told,      \* interactions of which the user was told how they stand
    pruned,    \* interactions some host has dropped from its memory
    faults     \* bound counter

coordVars == <<inter, ended, notice, record, claims, terminal, calls, sent,
               told, pruned, faults>>
vars == <<contractVars, coordVars>>

Interactions == 1 .. Steps
Stages == {"none", "polling", "leasing", "waiting", "idle"}
Calls == [host : Hosts, inter : Interactions, version : 1 .. MaxVersion,
          admitted : BOOLEAN]

TypeOK ==
    /\ ContractTypeOK
    /\ inter \in [Interactions -> {"none", "pending", "ready", "resumed", "closed"}]
    /\ ended \in BOOLEAN
    /\ notice \in [Hosts -> SUBSET Interactions]
    /\ record \in [Hosts -> [Interactions -> Stages]]
    /\ claims \in [Hosts -> SUBSET Interactions]
    /\ terminal \in SUBSET Hosts
    /\ calls \in SUBSET Calls
    /\ sent \in [Hosts -> [Interactions -> 0 .. MaxFaults + 1]]
    /\ told \in SUBSET Interactions
    /\ pruned \in SUBSET Interactions
    /\ faults \in 0 .. MaxFaults

Init ==
    /\ ContractInit
    /\ inter = [i \in Interactions |-> IF i = 1 THEN "pending" ELSE "none"]
    /\ ended = FALSE
    /\ notice = [h \in Hosts |-> IF h \in Subscribed THEN {1} ELSE {}]
    /\ record = [h \in Hosts |-> [i \in Interactions |-> "none"]]
    /\ claims = [h \in Hosts |-> {}]
    /\ terminal = {}
    /\ calls = {}
    /\ sent = [h \in Hosts |-> [i \in Interactions |-> 0]]
    /\ told = {}
    /\ pruned = {}
    /\ faults = 0

Fault == faults < MaxFaults /\ faults' = faults + 1

(***************************************************************************)
(* The server.                                                             *)
(***************************************************************************)

\* _append_event: the subscribed hosts find a notification in the outbox.
Announce(i) ==
    notice' = [h \in Hosts |-> IF h \in Subscribed THEN notice[h] \cup {i}
                               ELSE notice[h]]

\* The user completes the interaction on its card.
Complete(i) ==
    /\ inter[i] = "pending" /\ ~ended
    /\ inter' = [inter EXCEPT ![i] = "ready"]
    /\ Announce(i)
    /\ UNCHANGED <<contractVars, ended, record, claims, terminal, calls, sent,
                   told, pruned, faults>>

\* The user declines it, or it expires: the task ends.
Close(i) ==
    /\ inter[i] = "pending"
    /\ inter' = [inter EXCEPT ![i] = "closed"]
    /\ ended' = TRUE
    /\ UNCHANGED <<contractVars, notice, record, claims, terminal, calls, sent,
                   told, pruned, faults>>

\* agentbridge_interaction_resume asks assert_coordinator_lease first; a
\* refusal is an error for the host that called.
Admit(c) ==
    /\ c \in calls /\ ~c.admitted
    /\ Registered(c.host) /\ HoldsLease(c.host, c.version)
    /\ calls' = (calls \ {c}) \cup {[c EXCEPT !.admitted = TRUE]}
    /\ UNCHANGED <<contractVars, inter, ended, notice, record, claims, terminal,
                   sent, told, pruned, faults>>

\* A mutant: the user is not told.
CallFailsSilently(c) ==
    /\ record' = [record EXCEPT ![c.host][c.inter] =
                    IF @ = "waiting" THEN "idle" ELSE @]
    /\ UNCHANGED told

\* The host hears nothing of its call, or hears that it was refused: the user
\* is told, the claim stays.
CallFails(c) ==
    /\ record' = [record EXCEPT ![c.host][c.inter] =
                    IF @ = "waiting" THEN "idle" ELSE @]
    /\ told' = IF record[c.host][c.inter] = "waiting" THEN told \cup {c.inter} ELSE told

Refuse(c) ==
    /\ c \in calls /\ ~c.admitted
    /\ ~(Registered(c.host) /\ HoldsLease(c.host, c.version))
    /\ calls' = calls \ {c}
    /\ CallFails(c)
    /\ UNCHANGED <<contractVars, inter, ended, notice, claims, terminal, sent, pruned, faults>>

\* The resumed step runs once; a repeated resume of it is answered from what
\* is stored.  The answer brings the next interaction, or the end of the task.
Resume(c, last, answered) ==
    /\ c \in calls /\ c.admitted
    /\ LET i      == c.inter
           first  == inter[i] = "ready" /\ ~ended
           more   == first /\ ~last /\ i < Steps
           heard  == answered /\ record[c.host][i] = "waiting"
       IN /\ inter' = [j \in Interactions |->
                          IF first /\ j = i THEN "resumed"
                          ELSE IF more /\ j = i + 1 THEN "pending" ELSE inter[j]]
          /\ ended' = (ended \/ (first /\ ~more))
          /\ IF more THEN Announce(i + 1) ELSE UNCHANGED notice
          /\ record' = [record EXCEPT ![c.host] =
                [j \in Interactions |->
                    IF j = i /\ record[c.host][i] = "waiting" THEN "idle"
                    ELSE IF heard /\ more /\ j = i + 1 THEN "polling" ELSE @[j]]]
          /\ told' = IF ~answered /\ record[c.host][i] = "waiting" THEN told \cup {i}
                     ELSE told
    /\ calls' = calls \ {c}
    /\ IF answered THEN UNCHANGED faults ELSE Fault
    /\ UNCHANGED <<contractVars, claims, terminal, sent, pruned>>

\* The request or its answer is lost before the server runs it.
LoseCall(c) ==
    /\ c \in calls /\ ~c.admitted
    /\ Fault
    /\ calls' = calls \ {c}
    /\ CallFails(c)
    /\ UNCHANGED <<contractVars, inter, ended, notice, claims, terminal, sent, pruned>>

(***************************************************************************)
(* A host.                                                                 *)
(***************************************************************************)

\* resumeClaimAllowed.
MayClaim(h, i) == i \notin claims[h] /\ h \notin terminal

\* resume: claim the interaction, then ask for the lease.
Claim(h, i) ==
    /\ claims' = [claims EXCEPT ![h] = @ \cup {i}]
    /\ record' = [record EXCEPT ![h][i] = "leasing"]

\* poll: one answer of agentbridge_interaction_get.
Poll(h, i) ==
    /\ record[h][i] = "polling"
    /\ \/ /\ inter[i] = "ready" /\ MayClaim(h, i)
          /\ Claim(h, i)
          /\ UNCHANGED told
       \/ /\ inter[i] = "ready" /\ ~MayClaim(h, i)
          /\ record' = [record EXCEPT ![h][i] = "idle"]
          /\ UNCHANGED <<claims, told>>
       \/ /\ inter[i] \in {"closed", "resumed"}
          /\ record' = [record EXCEPT ![h][i] = "idle"]
          /\ told' = told \cup {i}
          /\ UNCHANGED claims
    /\ UNCHANGED <<contractVars, inter, ended, notice, terminal, calls, sent, pruned, faults>>

\* The poll ends at its deadline, or at its fifth error that is not to be
\* retried: the user is told.
PollEnds(h, i) ==
    /\ Fault
    /\ record[h][i] = "polling"
    /\ record' = [record EXCEPT ![h][i] = "idle"]
    /\ told' = told \cup {i}
    /\ UNCHANGED <<contractVars, inter, ended, notice, claims, terminal, calls, sent, pruned>>

\* restoreInteractionFromNotification and restoreRecoveredInteraction: polls
\* or resumes what the notification or the recovery list names; a notification
\* that needs nothing is acknowledged.
Restore(h, i) ==
    /\ i \in notice[h]
    /\ record[h][i] # "leasing"
    /\ notice' = [notice EXCEPT ![h] = @ \ {i}]
    /\ IF ~MayClaim(h, i) \/ inter[i] \in {"closed", "resumed"}
       THEN UNCHANGED <<record, claims>>
       ELSE IF inter[i] = "ready" THEN Claim(h, i)
       ELSE record' = [record EXCEPT ![h][i] = "polling"] /\ UNCHANGED claims
    /\ UNCHANGED <<contractVars, inter, ended, terminal, calls, sent, told, pruned, faults>>

\* The plugin registers before it coordinates; a release list that does not
\* name its version leaves it at L1.
Register(h, approved) ==
    /\ level[h] # "L3"
    /\ IF approved = "L3" THEN UNCHANGED faults ELSE Fault
    /\ Negotiate(h, "L3", approved, TRUE)
    /\ UNCHANGED <<inter, ended, notice, record, claims, terminal, calls, sent, told, pruned>>

\* The answer to agentbridge_host_coordinator_lease_acquire.  A terminal task
\* is marked; a refusal or an error before the resume was sent gives the claim
\* back; a granted lease sends the resume with its version.
LeaseAnswer(h, i) ==
    /\ record[h][i] = "leasing"
    /\ \/ /\ ended
          /\ terminal' = terminal \cup {h}
          /\ record' = [record EXCEPT ![h] = [j \in Interactions |-> "none"]]
          /\ claims' = [claims EXCEPT ![h] = {}]
          /\ UNCHANGED <<contractVars, calls, sent, told, notice>>
       \/ /\ ~ended /\ Registered(h) /\ GrantsLease(h, FALSE, 0)
          /\ lease' = LeaseOf(h)
          /\ record' = [record EXCEPT ![h][i] = "waiting"]
          /\ calls' = calls \cup {[host |-> h, inter |-> i,
                                   version |-> LeaseOf(h).version,
                                   admitted |-> FALSE]}
          /\ sent' = [sent EXCEPT ![h][i] = @ + 1]
          /\ UNCHANGED <<level, claims, terminal, told, notice>>
       \/ /\ ~ended /\ ~(Registered(h) /\ GrantsLease(h, FALSE, 0))
          /\ record' = [record EXCEPT ![h][i] = "idle"]
          /\ claims' = [claims EXCEPT ![h] = @ \ {i}]
          /\ told' = told \cup {i}
          /\ UNCHANGED <<contractVars, calls, sent, terminal, notice>>
    /\ UNCHANGED <<inter, ended, pruned, faults>>

\* A terminal event of the task reaches the host: markTaskTerminal.
MarkTerminal(h) ==
    /\ ended /\ h \notin terminal
    /\ terminal' = terminal \cup {h}
    /\ record' = [record EXCEPT ![h] = [i \in Interactions |-> "none"]]
    /\ claims' = [claims EXCEPT ![h] = {}]
    /\ UNCHANGED <<contractVars, inter, ended, notice, calls, sent, told, pruned, faults>>

\* prune: the interaction's expires_at has passed, or more records than
\* MAX_INTERACTIONS are kept.  The claim goes with the record.
Prune(h, i) ==
    /\ Fault
    /\ record[h][i] \in {"waiting", "idle"}
    /\ record' = [record EXCEPT ![h][i] = "none"]
    /\ claims' = [claims EXCEPT ![h] = @ \ {i}]
    /\ pruned' = pruned \cup {i}
    /\ UNCHANGED <<contractVars, inter, ended, notice, terminal, calls, sent, told>>

\* gateway_stop and gateway_start: the memory of the host is gone, and
\* recoverHostTasks asks the server for the open interaction of the task.
GatewayRestarts(h) ==
    /\ Fault
    /\ record' = [record EXCEPT ![h] = [i \in Interactions |-> "none"]]
    /\ claims' = [claims EXCEPT ![h] = {}]
    /\ terminal' = terminal \ {h}
    /\ sent' = [sent EXCEPT ![h] = [i \in Interactions |-> 0]]
    /\ notice' = [notice EXCEPT ![h] = IF h \notin Subscribed THEN @ ELSE @ \cup
                    {i \in Interactions : inter[i] \in {"pending", "ready"} /\ ~ended}]
    /\ UNCHANGED <<contractVars, inter, ended, calls, told, pruned>>

\* A host that reconciled the task takes a lapsed lease over; it names the
\* version it has seen, or none.
TakeOver(h, expected) ==
    /\ Fault
    /\ Registered(h) /\ GrantsLease(h, TRUE, expected)
    /\ lease.version < MaxVersion
    /\ lease' = LeaseOf(h)
    /\ UNCHANGED <<level, inter, ended, notice, record, claims, terminal, calls,
                   sent, told, pruned>>

\* agentbridge_host_coordinator_lease_release, and an upgrade of the host.
Contract(h) ==
    /\ Fault
    /\ Release(h) \/ Upgrade(h)
    /\ UNCHANGED <<inter, ended, notice, record, claims, terminal, calls, sent, told, pruned>>

Next ==
    \/ \E i \in Interactions : Complete(i) \/ Close(i)
    \/ \E c \in calls : Admit(c) \/ Refuse(c) \/ LoseCall(c)
    \/ \E c \in calls, last, answered \in BOOLEAN : Resume(c, last, answered)
    \/ \E h \in Hosts, i \in Interactions :
          Poll(h, i) \/ PollEnds(h, i) \/ Restore(h, i) \/ LeaseAnswer(h, i)
          \/ Prune(h, i)
    \/ \E h \in Hosts : MarkTerminal(h) \/ GatewayRestarts(h) \/ Contract(h)
    \/ \E h \in Hosts, approved \in Approvals : Register(h, approved)
    \/ \E h \in Hosts, expected \in 0 .. MaxVersion : TakeOver(h, expected)
    \/ LeaseLapses /\ UNCHANGED coordVars

Spec == Init /\ [][Next]_vars

\* The server decides on a call about interaction i and executes it.
ServeResume(i) ==
    \E c \in calls : /\ c.inter = i
                     /\ Admit(c) \/ Refuse(c) \/ \E last \in BOOLEAN : Resume(c, last, TRUE)

Fairness ==
    /\ \A i \in Interactions : WF_vars(ServeResume(i))
    /\ \A h \in Hosts, i \in Interactions :
          WF_vars(Poll(h, i)) /\ WF_vars(Restore(h, i)) /\ WF_vars(LeaseAnswer(h, i))

FairSpec == Spec /\ Fairness

(***************************************************************************)
(* Properties.                                                             *)
(***************************************************************************)

\* The version of the lease fences a host that lost it: a resume call under
\* the current version is a call of the current owner, and a call that was
\* let in before the lease changed hands carries an older version.
VersionFences ==
    \A c \in calls :
        /\ c.version <= lease.version
        /\ c.version = lease.version => c.host = lease.owner

\* A completed interaction is not forgotten: it is resumed, or the task ends,
\* or the user is told that it is stuck.  The one way to lose it is prune.
ReadyIsResumed ==
    \A i \in Interactions :
        inter[i] = "ready" ~> inter[i] = "resumed" \/ ended
                                  \/ i \in told \cup pruned

\* A host sends the resume of an interaction once: "A lost resume reply may
\* follow a business write.  Outbox recovery must not turn that uncertainty
\* into a second execution attempt" (coordinator.js).
\* Does not hold (README, section 6).
SentOnce == \A h \in Hosts, i \in Interactions : sent[h][i] <= 1
====
