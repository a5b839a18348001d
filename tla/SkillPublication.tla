-------------------------- MODULE SkillPublication --------------------------
(***************************************************************************)
(* From a private draft to a published business skill and its use          *)
(* (skill_authoring.py, business_skills.py): the author saves revisions,   *)
(* tries them and asks for a release; an administrator decides on exactly  *)
(* what was submitted; a release fixes a version, an audience and the      *)
(* profiles; users bind to it for a task, and an administrator may take    *)
(* profiles or the whole skill away.                                       *)
(*                                                                         *)
(* One draft, thus one skill.  Every operation is one BEGIN IMMEDIATE      *)
(* transaction whose caller names the revision it has read: a stale caller *)
(* is refused, a repeated request key returns its first receipt, and       *)
(* neither changes anything, so both are the stuttering step.              *)
(***************************************************************************)
EXTENDS Naturals, Sequences, FiniteSets

CONSTANTS
    Users,           \* the author is one of them
    Audiences,       \* the sets of users a release is asked for
    Texts,           \* what a bundle can say
    Profiles,        \* the profiles every bundle declares
    Tasks,
    Decisions,       \* "changes_requested", "rejected": how a request is declined
    MaxRevisions, MaxRequests, MaxBindings,  \* bounds (500 revisions per draft)
    MaxEvaluated     \* bound on the revisions that are evaluated

PublicationAssumption == MaxRevisions \in Nat

VARIABLES
    state,      \* of the draft: "none", "editing", "archived"
    revisions,  \* sequence of texts, the last one is the current revision
    tests,      \* set of [revision, profile, status]
    report,     \* revision -> latest finished evaluation: "none", "passed", "failed"
    requests,   \* skill_review_requests
    versions,   \* skill_versions, the last one is the publication
    config,     \* user -> profiles assigned, {} if the skill is not assigned
    global,     \* "enabled" or "disabled"
    bindings,   \* skill_bindings
    attached    \* task -> binding, 0 if none

vars == <<state, revisions, tests, report, requests, versions, config, global, bindings, attached>>
draftVars == <<state, revisions, tests, report>>
useVars == <<bindings, attached>>

Init ==
    /\ state = "none" /\ revisions = << >> /\ tests = {}
    /\ report = [r \in 1..MaxRevisions |-> "none"]
    /\ requests = << >>
    /\ versions = << >>
    /\ config = [u \in Users |-> {}]
    /\ global = "enabled"
    /\ bindings = << >>
    /\ attached = [t \in Tasks |-> 0]

Current == Len(revisions)
Pending == \E q \in 1..Len(requests) : requests[q].state = "submitted"

-----------------------------------------------------------------------------
(* The author.                                                             *)

Save(text) ==
    /\ state # "archived"
    /\ Current < MaxRevisions
    /\ revisions' = Append(revisions, text)
    /\ state' = "editing"
    /\ UNCHANGED <<tests, report, requests, versions, config, global, useVars>>

\* An old revision becomes a new one; what was tried of it is not carried over.
Restore(target) ==
    /\ target \in 1..Current
    /\ Current < MaxRevisions
    /\ revisions' = Append(revisions, revisions[target])
    /\ state' = "editing"
    /\ UNCHANGED <<tests, report, requests, versions, config, global, useVars>>

Archive ==
    /\ Current > 0
    /\ ~Pending
    /\ state' = "archived"
    /\ UNCHANGED <<revisions, tests, report, requests, versions, config, global, useVars>>

Test(r, p, status) == [revision |-> r, profile |-> p, status |-> status]

TestStart(p) ==
    /\ Current > 0
    /\ \A s \in {"running", "reported"} : Test(Current, p, s) \notin tests
    /\ tests' = tests \cup {Test(Current, p, "running")}
    /\ UNCHANGED <<state, revisions, report, requests, versions, config, global, useVars>>

\* The result may arrive after the draft went on to another revision.
TestResult(t) ==
    /\ t.status = "running"
    /\ tests' = (tests \ {t}) \cup {[t EXCEPT !.status = "reported"]}
    /\ UNCHANGED <<state, revisions, report, requests, versions, config, global, useVars>>

\* So may the result of an evaluation job, which carries its own revision.
EvaluationFinishes(r, outcome) ==
    /\ r \in 1..Current
    /\ report[r] # outcome
    /\ report[r] = "none" => Cardinality({q \in 1..MaxRevisions : report[q] # "none"}) < MaxEvaluated
    /\ report' = [report EXCEPT ![r] = outcome]
    /\ UNCHANGED <<state, revisions, tests, requests, versions, config, global, useVars>>

\* The profiles tried at a revision: samples reported, or a passed evaluation
\* of all of them.
Tried(r) == {p \in Profiles : Test(r, p, "reported") \in tests \/ report[r] = "passed"}

Submit(audience, profiles) ==
    /\ state = "editing"
    /\ profiles # {}
    /\ profiles \subseteq Tried(Current)
    /\ ~Pending
    /\ Len(requests) < MaxRequests
    /\ requests' = Append(requests, [revision |-> Current, text |-> revisions[Current], audience |-> audience,
                                     profiles |-> profiles, expected |-> Len(versions), state |-> "submitted",
                                     evaluation |-> report[Current], tried |-> Tried(Current)])
    /\ UNCHANGED <<draftVars, versions, config, global, useVars>>

Withdraw(q) ==
    /\ requests[q].state = "submitted"
    /\ requests' = [requests EXCEPT ![q].state = "withdrawn"]
    /\ UNCHANGED <<draftVars, versions, config, global, useVars>>

-----------------------------------------------------------------------------
(* decide                                                                  *)

Decline(q, decision) ==
    /\ requests[q].state = "submitted"
    /\ requests' = [requests EXCEPT ![q].state = decision]
    /\ UNCHANGED <<draftVars, versions, config, global, useVars>>

\* A mutant: what the draft says now, not what was submitted.
BundleAsItIsNow(q) == revisions[Current]

\* The bundle of the revision that the request names.
BundleOf(q) == revisions[requests[q].revision]

\* Audience reduction revokes bindings; so does a profile that is left out.
LosesByRelease(b, q) == b.user \notin requests[q].audience \/ b.profile \notin requests[q].profiles

Approve(q) ==
    /\ requests[q].state = "submitted"
    /\ requests[q].evaluation # "failed"
    /\ requests[q].text = revisions[requests[q].revision]
    /\ requests[q].expected = Len(versions)
    /\ versions' = Append(versions, [text |-> BundleOf(q), profiles |-> requests[q].profiles, request |-> q])
    /\ config' = [u \in Users |-> IF u \in requests[q].audience THEN requests[q].profiles ELSE {}]
    /\ bindings' = [b \in DOMAIN bindings |->
                      [bindings[b] EXCEPT !.revoked = @ \/ LosesByRelease(bindings[b], q)]]
    /\ requests' = [requests EXCEPT ![q].state = "published"]
    /\ UNCHANGED <<draftVars, global, attached>>

-----------------------------------------------------------------------------
(* SkillStore: assignment and use.                                         *)

Published == Len(versions) > 0
Release == requests[versions[Len(versions)].request]
ApprovedScope(u, profiles) == Published /\ u \in Release.audience /\ profiles \subseteq Release.profiles

\* A mutant: bindings are left to the check at their next use.
KeepsBinding(b, u, profiles) == FALSE

LosesByConfig(b, u, profiles) == b.user = u /\ b.profile \notin profiles

SaveConfig(u, profiles) ==
    /\ profiles = {} \/ ApprovedScope(u, profiles)
    /\ config' = [config EXCEPT ![u] = profiles]
    /\ bindings' = [b \in DOMAIN bindings |->
                      [bindings[b] EXCEPT !.revoked = @ \/ LosesByConfig(bindings[b], u, profiles)]]
    /\ UNCHANGED <<draftVars, requests, versions, global, attached>>

SaveGlobal(status) ==
    /\ Published
    /\ global' = status
    /\ bindings' = [b \in DOMAIN bindings |-> [bindings[b] EXCEPT !.revoked = @ \/ status = "disabled"]]
    /\ UNCHANGED <<draftVars, requests, versions, config, attached>>

Allowed(u, p) == global # "disabled" /\ p \in config[u] /\ ApprovedScope(u, {p})

\* agentbridge_skill_get: the checks before it are repeated by bind.
Bind(u, p) ==
    /\ Allowed(u, p)
    /\ Len(bindings) < MaxBindings
    /\ bindings' = Append(bindings, [user |-> u, profile |-> p, version |-> Len(versions), revoked |-> FALSE])
    /\ UNCHANGED <<draftVars, requests, versions, config, global, attached>>

\* binding(): what a call of the user may go on with.
Usable(b) == ~b.revoked /\ Allowed(b.user, b.profile)

Attach(t, b) ==
    /\ Usable(bindings[b])
    /\ attached[t] = 0
    /\ attached' = [attached EXCEPT ![t] = b]
    /\ UNCHANGED <<draftVars, requests, versions, config, global, bindings>>

-----------------------------------------------------------------------------
Next ==
    \/ \E text \in Texts : Save(text)
    \/ \E r \in 1..MaxRevisions : Restore(r) \/ \E outcome \in {"passed", "failed"} : EvaluationFinishes(r, outcome)
    \/ Archive
    \/ \E p \in Profiles : TestStart(p)
    \/ \E t \in tests : TestResult(t)
    \/ \E audience \in Audiences, profiles \in SUBSET Profiles : Submit(audience, profiles)
    \/ \E q \in 1..Len(requests) :
         Withdraw(q) \/ Approve(q) \/ \E d \in Decisions : Decline(q, d)
    \/ \E u \in Users, profiles \in SUBSET Profiles : SaveConfig(u, profiles)
    \/ \E s \in {"enabled", "disabled"} : SaveGlobal(s)
    \/ \E u \in Users, p \in Profiles : Bind(u, p)
    \/ \E t \in Tasks, b \in 1..Len(bindings) : Attach(t, b)

Spec == Init /\ [][Next]_vars

-----------------------------------------------------------------------------
TypeOK ==
    /\ state \in {"none", "editing", "archived"}
    /\ revisions \in Seq(Texts)
    /\ config \in [Users -> SUBSET Profiles]
    /\ \A b \in 1..Len(bindings) : bindings[b].version \in 1..Len(versions)
    /\ attached \in [Tasks -> 0..Len(bindings)]

\* What is published was tried and reviewed as it is: its text is the text of
\* the approved request, and every profile it offers was tried at the revision
\* with that text, whatever the author saved, restored or withdrew meanwhile
\* (submit, decide).
PublishedWasTried ==
    \A v \in 1..Len(versions) :
        LET q == requests[versions[v].request] IN
        /\ q.state = "published"
        /\ versions[v].text = q.text
        /\ versions[v].profiles \subseteq q.tried

\* A binding that a user may not use any more stays out of use: to assign the
\* profile again, to enable the skill again or to approve a wider audience
\* later does not bring it back ("Audience reduction must revoke old bindings,
\* not merely hide the catalog", skill_authoring.py:377).
OutIsOut ==
    [][\A b \in 1..Len(bindings) : ~Usable(bindings[b]) => ~Usable(bindings[b])']_vars

\* A binding that may be used pins a version that offers its profile, although
\* versions are published and audiences are cut after it was made
\* (bind, binding, decide).
BoundProfileExists ==
    \A b \in 1..Len(bindings) : bindings[b].profile \in versions[bindings[b].version].profiles
=============================================================================
