------------------------------- MODULE MCHosts -------------------------------
(***************************************************************************)
(* The three specifications of what hosts do with the service, checked     *)
(* side by side: a behaviour of Spec is a behaviour of the one that `part' *)
(* names, while the variables of the other two keep their initial values.  *)
(***************************************************************************)
EXTENDS Naturals

CONSTANTS
    Rows, Loops, MaxAttempts, BatchLimit, MaxRevivals,       \* the outbox
    Hosts, NoHost, MaxVersion, Subscribed, Steps, MaxFaults, \* coordination
    Chain, MaxRestarts                                       \* reference host

VARIABLES
    part,
    state, kind, attempts, due, client, subscribed, batch, wire, shown, revivals,
    level, lease, inter, ended, notice, record, claims, terminal, calls, sent,
    told, pruned, faults,
    local, bound, active, tool, step, started, restarts, central, mine, current,
    chain, running, wrote

Outbox == INSTANCE NotificationDelivery
Coordination == INSTANCE HostCoordination
Reference == INSTANCE ReferenceHost WITH inter <- chain, Steps <- Chain

ASSUME ConstantsFit ==
    /\ Outbox!OutboxAssumption
    /\ Coordination!HostAssumption
    /\ Reference!ReferenceAssumption

outboxVars == <<state, kind, attempts, due, client, subscribed, batch, wire, shown,
                revivals>>
coordinationVars == <<level, lease, inter, ended, notice, record, claims, terminal,
                      calls, sent, told, pruned, faults>>
referenceVars == <<local, bound, active, tool, step, started, restarts, central,
                   mine, current, chain, running, wrote>>
vars == <<part, outboxVars, coordinationVars, referenceVars>>

Init ==
    /\ part \in {"outbox", "coordination", "reference"}
    /\ Outbox!Init /\ Coordination!Init /\ Reference!Init
    /\ part # "outbox" => client = "chat" /\ \A r \in Rows : kind[r] = "status"
    /\ part # "reference" => tool = "read"

Next ==
    \/ /\ part = "outbox" /\ Outbox!Next
       /\ UNCHANGED <<part, coordinationVars, referenceVars>>
    \/ /\ part = "coordination" /\ Coordination!Next
       /\ UNCHANGED <<part, outboxVars, referenceVars>>
    \/ /\ part = "reference" /\ Reference!Next
       /\ UNCHANGED <<part, outboxVars, coordinationVars>>

\* The fairness of the specification that is running: see the Fairness of
\* NotificationDelivery and of HostCoordination.
OutboxFairness ==
    /\ \A r \in Rows : WF_outboxVars(part = "outbox" /\ Outbox!TimePasses(r))
    /\ \A l \in Loops :
          /\ WF_outboxVars(part = "outbox" /\ Outbox!LoopClaims(l))
          /\ WF_outboxVars(part = "outbox" /\ Outbox!LoopDelivers(l))
          /\ WF_outboxVars(part = "outbox" /\ Outbox!AckEnds(l))

CoordinationFairness ==
    /\ \A i \in Coordination!Interactions :
          WF_coordinationVars(part = "coordination" /\ Coordination!ServeResume(i))
    /\ \A h \in Hosts, i \in Coordination!Interactions :
          /\ WF_coordinationVars(part = "coordination" /\ Coordination!Poll(h, i))
          /\ WF_coordinationVars(part = "coordination" /\ Coordination!Restore(h, i))
          /\ WF_coordinationVars(part = "coordination" /\ Coordination!LeaseAnswer(h, i))

Spec == Init /\ [][Next]_vars /\ OutboxFairness /\ CoordinationFairness

\* The variables of the three specifications stay in their domains.
TypeOK == Outbox!TypeOK /\ Coordination!TypeOK /\ Reference!TypeOK

\* acknowledge_outbox: what is acknowledged was shown (NotificationDelivery).
AcknowledgedWasShown == Outbox!AcknowledgedWasShown

\* claim_outbox and the loop: every delivery ends (NotificationDelivery).
DeliverySettles == Outbox!DeliverySettles

\* acquire_coordinator_lease: the version fences a former owner's calls
\* (HostCoordination).
VersionFences == Coordination!VersionFences

\* poll and resume of coordinator.js: a completed interaction is resumed, or
\* the user is told (HostCoordination).
ReadyIsResumed == Coordination!ReadyIsResumed

\* task_driver.py: no write behind a task reported failed (ReferenceHost).
FailedNeverWrote == Reference!FailedNeverWrote
=============================================================================
