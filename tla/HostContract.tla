---------------------------- MODULE HostContract ----------------------------
(***************************************************************************)
(* The host contract store (agentbridge/core/host_contract.py): which      *)
(* hosts are registered at which level, and the coordinator lease of one   *)
(* task, the row that says which host may drive the task.                  *)
(*                                                                         *)
(* The lease row is never deleted.  It keeps its owner after it lapses or  *)
(* is released, and every change of owner adds one to its version, which   *)
(* hosts send along with the calls they make under the lease.              *)
(***************************************************************************)
EXTENDS Naturals

CONSTANTS Hosts, NoHost, MaxVersion

\* What the constants have to satisfy.
HostAssumption == NoHost \notin Hosts /\ MaxVersion \in Nat

VARIABLES
    level,  \* level of each registration; "stale": made for another version
    lease   \* the row of agent_task_coordinator_leases

contractVars == <<level, lease>>

Levels == {"none", "stale", "L1", "L3"}

ContractTypeOK ==
    /\ level \in [Hosts -> Levels]
    /\ lease \in [owner : Hosts \cup {NoHost}, version : 0 .. MaxVersion,
                  state : {"active", "released"}, live : BOOLEAN]

ContractInit ==
    /\ level = [h \in Hosts |-> "none"]
    /\ lease = [owner |-> NoHost, version |-> 0, state |-> "active", live |-> FALSE]

\* _bootstrap_compatibility: what the release list may say of a version of a
\* host; one it does not name keeps the lowest level.
Approvals == {"L1", "L3"}

\* highest_accepted_level: what the host declares, capped by what the release
\* list approves for its version and by the capabilities it really has.
AcceptedLevel(declared, approved, capable) ==
    IF declared = "L3" /\ approved = "L3" /\ capable THEN "L3" ELSE "L1"

\* negotiate: the registration of the host is written or written over.
Negotiate(h, declared, approved, capable) ==
    /\ level' = [level EXCEPT ![h] = AcceptedLevel(declared, approved, capable)]
    /\ UNCHANGED lease

\* A host is upgraded: its registration names the version it had before.
Upgrade(h) ==
    /\ level[h] \in {"L1", "L3"}
    /\ level' = [level EXCEPT ![h] = "stale"]
    /\ UNCHANGED lease

\* require_registration at the level the coordinating calls ask for.
Registered(h) == level[h] = "L3"

\* acquire_coordinator_lease; `expected' is 0 when the host names no version.
GrantsLease(h, takeover, expected) ==
    \/ lease.version = 0
    \/ /\ expected \in {0, lease.version}
       /\ lease.owner = h \/ (~lease.live /\ takeover)

\* A mutant: a takeover keeps the version.
LeaseOfUnfenced(h) ==
    [owner   |-> h,
     version |-> IF lease.version = 0 THEN 1 ELSE lease.version,
     state   |-> "active",
     live    |-> TRUE]

\* The row after the lease is granted to h.
LeaseOf(h) ==
    [owner   |-> h,
     version |-> IF lease.version # 0 /\ lease.owner = h THEN lease.version
                 ELSE lease.version + 1,
     state   |-> "active",
     live    |-> TRUE]

\* assert_coordinator_lease.
HoldsLease(h, expected) ==
    /\ lease.version # 0
    /\ lease.state = "active" /\ lease.live
    /\ lease.owner = h
    /\ expected \in {0, lease.version}

\* release_coordinator_lease: the lease is asserted, then released by version.
Release(h) ==
    /\ Registered(h)
    /\ HoldsLease(h, 0)
    /\ lease' = [lease EXCEPT !.state = "released"]
    /\ UNCHANGED level

\* expires_at passes.
LeaseLapses ==
    /\ lease.live
    /\ lease' = [lease EXCEPT !.live = FALSE]
    /\ UNCHANGED level
====
