--------------------------- MODULE PlatformProofs ---------------------------
(***************************************************************************)
(* Eight parts of MCPlatform for every value of their constants: the       *)
(* publication of skills (SkillPublication), prepared documents            *)
(* (Documents), the pictures of messages (Attachments), the tool calls of  *)
(* the OpenClaw plugin (ToolProxy), the chat with the agent host           *)
(* (ChatGateway), the recovery point (RecoveryPoint), the trace of an      *)
(* operation (RuntimeTrace) and the release transaction (ReleaseSwitch).   *)
(* Each part has its inductive invariant, a lemma for each group of        *)
(* actions, its theorems, and that its rows keep to their domains; the     *)
(* theorems on the specification of MCPlatform are at the end.             *)
(***************************************************************************)
EXTENDS IsolationProofs

(***************************************************************************)
(* The publication of skills.                                              *)
(***************************************************************************)

\* The variables of SkillPublication.
state == v1
revisions == v2
tests == v3
report == v4
requests == v5
versions == v6
config == v7
global == v8
bindings == v9
attached == v10

USE DEF state, revisions, tests, report, requests, versions, config, global, bindings, attached

RequestRows ==
    [revision : Nat, text : Texts, audience : Audiences, profiles : SUBSET Profiles,
     expected : Nat, state : Decisions \cup {"submitted", "withdrawn", "published"},
     evaluation : {"none", "passed", "failed"}, tried : SUBSET Profiles]
VersionRows == [text : Texts, profiles : SUBSET Profiles, request : Nat]
BindingRows == [user : Readership, profile : Profiles, version : Nat, revoked : BOOLEAN]

SkillTypes ==
    /\ revisions \in Seq(Texts) /\ Len(revisions) <= MaxRevisions
    /\ state = "editing" => Len(revisions) > 0
    /\ report \in [1..MaxRevisions -> {"none", "passed", "failed"}]
    /\ requests \in Seq(RequestRows)
    /\ versions \in Seq(VersionRows)
    /\ config \in [Readership -> SUBSET Profiles]
    /\ bindings \in Seq(BindingRows)

\* A request asks only for what was tried.
RequestsFit ==
    \A q \in 1..Len(requests) : requests[q].profiles \subseteq requests[q].tried

\* A version is what its request asked for.
VersionsOK ==
    \A v \in 1..Len(versions) :
        /\ versions[v].request \in 1..Len(requests)
        /\ requests[versions[v].request].state = "published"
        /\ versions[v].text = requests[versions[v].request].text
        /\ versions[v].profiles = requests[versions[v].request].profiles

\* A binding pins a version that offers its profile, and one that has not been
\* revoked may be used.
BindingsOK ==
    \A b \in 1..Len(bindings) :
        /\ bindings[b].version \in 1..Len(versions)
        /\ bindings[b].profile \in versions[bindings[b].version].profiles
        /\ ~bindings[b].revoked => Skills!Allowed(bindings[b].user, bindings[b].profile)

\* The inductive invariant of the publication of skills.
SkillInv == SkillTypes /\ RequestsFit /\ VersionsOK /\ BindingsOK

LEMMA SkillInit ==
    ASSUME Skills!PublicationAssumption, Skills!Init
    PROVE  SkillInv
BY DEF Skills!PublicationAssumption, Skills!Init, SkillInv, SkillTypes, RequestsFit,
       VersionsOK, BindingsOK

\* The author's steps change neither requests nor what is published.
DraftStep ==
    \/ \E text \in Texts : Skills!Save(text)
    \/ \E r \in 1..MaxRevisions : Skills!Restore(r)
    \/ \E r \in 1..MaxRevisions, outcome \in {"passed", "failed"} :
          Skills!EvaluationFinishes(r, outcome)
    \/ Skills!Archive
    \/ \E p \in Profiles : Skills!TestStart(p)
    \/ \E t \in tests : Skills!TestResult(t)

LEMMA DraftSteps ==
    ASSUME SkillInv, DraftStep, Skills!PublicationAssumption
    PROVE  SkillInv' /\ UNCHANGED <<requests, versions, config, global, bindings>>
<1>1. UNCHANGED <<requests, versions, config, global, bindings>>
  BY DEF DraftStep, Skills!Save, Skills!Restore, Skills!EvaluationFinishes,
         Skills!Archive, Skills!TestStart, Skills!TestResult, Skills!useVars
<1>2. /\ revisions' \in Seq(Texts) /\ Len(revisions') <= MaxRevisions
      /\ state' = "editing" => Len(revisions') > 0
  <2>1. CASE \E text \in Texts : Skills!Save(text)
    BY <2>1 DEF Skills!PublicationAssumption, Skills!Save, Skills!Current, SkillInv, SkillTypes
  <2>2. CASE \E r \in 1..MaxRevisions : Skills!Restore(r)
    BY <2>2 DEF Skills!PublicationAssumption, Skills!Restore, Skills!Current, SkillInv, SkillTypes
  <2>3. CASE UNCHANGED revisions /\ (state' = "editing" => state = "editing")
    BY <2>3 DEF SkillInv, SkillTypes
  <2> QED
    BY <2>1, <2>2, <2>3 DEF DraftStep, Skills!EvaluationFinishes, Skills!Archive,
                            Skills!TestStart, Skills!TestResult
<1>3. report' \in [1..MaxRevisions -> {"none", "passed", "failed"}]
  BY DEF DraftStep, Skills!Save, Skills!Restore, Skills!EvaluationFinishes,
         Skills!Archive, Skills!TestStart, Skills!TestResult, SkillInv, SkillTypes
<1>4. BindingsOK'
  BY <1>1 DEF SkillInv, BindingsOK, Skills!Allowed, Skills!ApprovedScope,
              Skills!Published, Skills!Release
<1> QED
  BY <1>1, <1>2, <1>3, <1>4 DEF SkillInv, SkillTypes, RequestsFit, VersionsOK

\* Where the rows of published versions stay as they are, so does what the users
\* may do.
RowsStay ==
    \A v \in 1..Len(versions) :
        /\ versions[v].request \in 1..Len(requests')
        /\ requests'[versions[v].request] = requests[versions[v].request]

LEMMA ReleaseStays ==
    ASSUME SkillInv, RowsStay, UNCHANGED <<versions, config, global, bindings>>
    PROVE  VersionsOK' /\ BindingsOK'
<1>1. VersionsOK'
  BY DEF SkillInv, RowsStay, VersionsOK
<1>2. \A u, p : Skills!Allowed(u, p) => Skills!Allowed(u, p)'
  <2> SUFFICES ASSUME NEW u, NEW p, Skills!Allowed(u, p)
               PROVE  Skills!Allowed(u, p)'
    OBVIOUS
  <2>1. Len(versions) \in 1..Len(versions)
    BY DEF Skills!Allowed, Skills!ApprovedScope, Skills!Published, SkillInv, SkillTypes
  <2>2. Skills!Release' = Skills!Release
    BY <2>1 DEF Skills!Release, RowsStay
  <2> QED
    BY <2>2 DEF Skills!Allowed, Skills!ApprovedScope, Skills!Published
<1>3. BindingsOK'
  BY <1>2 DEF SkillInv, BindingsOK
<1> QED BY <1>1, <1>3

\* submit: a new request.
LEMMA SubmitStep ==
    ASSUME SkillInv, Skills!PublicationAssumption, NEW audience \in Audiences,
           NEW profiles \in SUBSET Profiles, Skills!Submit(audience, profiles)
    PROVE  SkillInv' /\ UNCHANGED <<versions, config, global, bindings>>
<1> DEFINE q == [revision |-> Len(revisions), text |-> revisions[Len(revisions)],
                 audience |-> audience, profiles |-> profiles, expected |-> Len(versions),
                 state |-> "submitted", evaluation |-> report[Len(revisions)],
                 tried |-> Skills!Tried(Len(revisions))]
<1>1. requests' = Append(requests, q)
  BY DEF Skills!Submit, Skills!Current
<1>2. UNCHANGED <<state, revisions, report, versions, config, global, bindings>>
  BY DEF Skills!Submit, Skills!draftVars, Skills!useVars
<1>3. profiles \subseteq Skills!Tried(Len(revisions)) /\ Len(revisions) > 0
  BY DEF Skills!Submit, Skills!Current, SkillInv, SkillTypes
<1>4. q \in RequestRows
  <2>1. Len(revisions) \in 1..MaxRevisions /\ Len(revisions) \in 1..Len(revisions)
    BY <1>3 DEF SkillInv, SkillTypes, Skills!PublicationAssumption
  <2>2. report[Len(revisions)] \in {"none", "passed", "failed"}
    BY <2>1 DEF SkillInv, SkillTypes
  <2>3. revisions[Len(revisions)] \in Texts
    BY <2>1 DEF SkillInv, SkillTypes
  <2>4. Len(versions) \in Nat /\ Len(revisions) \in Nat
    BY DEF SkillInv, SkillTypes
  <2>5. Skills!Tried(Len(revisions)) \in SUBSET Profiles
    BY DEF Skills!Tried
  <2> QED BY <2>2, <2>3, <2>4, <2>5 DEF RequestRows
<1>5. q.profiles \subseteq q.tried
  BY <1>3
<1> HIDE DEF q
<1>6. /\ requests' \in Seq(RequestRows) /\ Len(requests') = Len(requests) + 1
      /\ \A k \in 1..Len(requests) : requests'[k] = requests[k]
      /\ requests'[Len(requests) + 1] = q
  BY <1>1, <1>4 DEF SkillInv, SkillTypes
<1>7. Len(requests) \in Nat
  BY DEF SkillInv, SkillTypes
<1>8. RequestsFit'
  BY <1>5, <1>6, <1>7 DEF SkillInv, RequestsFit
<1>9. RowsStay
  BY <1>6, <1>7 DEF SkillInv, VersionsOK, RowsStay
<1>10. VersionsOK' /\ BindingsOK'
  BY <1>2, <1>9, ReleaseStays
<1> QED BY <1>2, <1>6, <1>8, <1>10 DEF SkillInv, SkillTypes

\* withdraw and the decisions that decline: a request that was submitted gets
\* another state, which no version names.
LEMMA DeclineSteps ==
    ASSUME SkillInv, NEW q \in 1..Len(requests),
           Skills!Withdraw(q) \/ \E d \in Decisions : Skills!Decline(q, d)
    PROVE  SkillInv' /\ UNCHANGED <<versions, config, global, bindings>>
<1>1. PICK d \in Decisions \cup {"withdrawn"} :
         requests' = [requests EXCEPT ![q].state = d]
  BY DEF Skills!Withdraw, Skills!Decline
<1>2. requests[q].state = "submitted" /\ requests[q] \in RequestRows
  BY DEF Skills!Withdraw, Skills!Decline, SkillInv, SkillTypes
<1>3. UNCHANGED <<state, revisions, report, versions, config, global, bindings>>
  BY DEF Skills!Withdraw, Skills!Decline, Skills!draftVars, Skills!useVars
<1> DEFINE k == [requests[q] EXCEPT !.state = d]
<1>4. k \in RequestRows /\ k.profiles = requests[q].profiles /\ k.tried = requests[q].tried
  BY <1>2 DEF RequestRows
<1>5. requests' = [requests EXCEPT ![q] = k]
  BY <1>1
<1> HIDE DEF k
<1>6. /\ requests' \in Seq(RequestRows) /\ Len(requests') = Len(requests)
      /\ requests'[q] = k
      /\ \A n \in 1..Len(requests) : n # q => requests'[n] = requests[n]
  BY <1>4, <1>5 DEF SkillInv, SkillTypes
<1>7. RequestsFit'
  BY <1>4, <1>6 DEF SkillInv, RequestsFit
<1>8. RowsStay
  BY <1>2, <1>6 DEF SkillInv, VersionsOK, RowsStay
<1>9. VersionsOK' /\ BindingsOK'
  BY <1>3, <1>8, ReleaseStays
<1> QED BY <1>3, <1>6, <1>7, <1>9 DEF SkillInv, SkillTypes

\* A function on 1..n is a sequence of length n.
LEMMA FunctionIsSeq ==
    ASSUME NEW S, NEW n \in Nat, NEW f \in [1..n -> S]
    PROVE  f \in Seq(S) /\ Len(f) = n
OBVIOUS

\* Bindings may be revoked, and nothing else happens to them.
OnlyRevoked ==
    /\ bindings' \in Seq(BindingRows) /\ Len(bindings') = Len(bindings)
    /\ \A b \in 1..Len(bindings) :
          /\ bindings'[b].user = bindings[b].user
          /\ bindings'[b].profile = bindings[b].profile
          /\ bindings'[b].version = bindings[b].version
          /\ bindings[b].revoked => bindings'[b].revoked

\* decide with approval: the release takes the place of the one before.
LEMMA ApproveStep ==
    ASSUME SkillInv, NEW q \in 1..Len(requests), Skills!Approve(q)
    PROVE  SkillInv' /\ OnlyRevoked
<1> DEFINE r == requests[q]
           k == [requests[q] EXCEPT !.state = "published"]
           w == [text |-> r.text, profiles |-> r.profiles, request |-> q]
<1>1. r \in RequestRows /\ r.state = "submitted"
  BY DEF Skills!Approve, SkillInv, SkillTypes
<1>2. /\ k \in RequestRows /\ k.profiles = r.profiles /\ k.tried = r.tried
      /\ k.audience = r.audience /\ k.text = r.text /\ k.state = "published"
  BY <1>1 DEF RequestRows
<1>3. w \in VersionRows
  <2>1. q \in Nat
    BY DEF SkillInv, SkillTypes
  <2> QED BY <1>1, <2>1 DEF RequestRows, VersionRows
<1>4. requests' = [requests EXCEPT ![q] = k] /\ versions' = Append(versions, w)
  BY DEF Skills!Approve, Skills!BundleOf
<1>5. /\ config' = [u \in Readership |-> IF u \in r.audience THEN r.profiles ELSE {}]
      /\ UNCHANGED <<state, revisions, report, global>>
  BY DEF Skills!Approve, Skills!draftVars
<1>6. bindings' = [b \in DOMAIN bindings |->
                     [bindings[b] EXCEPT !.revoked =
                        @ \/ bindings[b].user \notin r.audience
                          \/ bindings[b].profile \notin r.profiles]]
  BY DEF Skills!Approve, Skills!LosesByRelease
<1>7. /\ w.text = r.text /\ w.profiles = r.profiles /\ w.request = q
      /\ r.profiles \subseteq Profiles /\ r.profiles \subseteq r.tried
  BY <1>1 DEF RequestRows, SkillInv, RequestsFit
<1> HIDE DEF r, k, w
<1>8. /\ requests' \in Seq(RequestRows) /\ Len(requests') = Len(requests)
      /\ requests'[q] = k
      /\ \A n \in 1..Len(requests) : n # q => requests'[n] = requests[n]
  BY <1>2, <1>4 DEF SkillInv, SkillTypes
<1>9. /\ versions' \in Seq(VersionRows) /\ Len(versions') = Len(versions) + 1
      /\ versions'[Len(versions) + 1] = w /\ Len(versions) \in Nat
      /\ \A v \in 1..Len(versions) : versions'[v] = versions[v]
  BY <1>3, <1>4 DEF SkillInv, SkillTypes
<1>10. OnlyRevoked /\ \A b \in 1..Len(bindings) : ~bindings'[b].revoked =>
          bindings[b].user \in r.audience /\ bindings[b].profile \in r.profiles
  <2>1. bindings \in Seq(BindingRows)
    BY DEF SkillInv, SkillTypes
  <2>2. \A b \in 1..Len(bindings) : bindings[b] \in BindingRows
    BY <2>1
  <2>3. DOMAIN bindings = 1..Len(bindings) /\ Len(bindings) \in Nat
    BY <2>1
  <2>4. ASSUME NEW b \in 1..Len(bindings)
        PROVE  /\ bindings'[b] \in BindingRows
               /\ bindings'[b].user = bindings[b].user
               /\ bindings'[b].profile = bindings[b].profile
               /\ bindings'[b].version = bindings[b].version
               /\ bindings[b].revoked => bindings'[b].revoked
               /\ ~bindings'[b].revoked =>
                     bindings[b].user \in r.audience /\ bindings[b].profile \in r.profiles
    BY <1>6, <2>2, <2>3 DEF BindingRows
  <2>5. bindings' \in Seq(BindingRows) /\ Len(bindings') = Len(bindings)
    <3>1. bindings' \in [1..Len(bindings) -> BindingRows]
      BY <1>6, <2>3, <2>4
    <3> QED BY <2>3, <3>1, FunctionIsSeq
  <2> QED BY <2>4, <2>5 DEF OnlyRevoked
<1>11. RequestsFit'
  BY <1>2, <1>8, <1>7 DEF SkillInv, RequestsFit
<1>12. VersionsOK'
  <2> SUFFICES ASSUME NEW v \in 1..Len(versions')
               PROVE  /\ versions'[v].request \in 1..Len(requests')
                      /\ requests'[versions'[v].request].state = "published"
                      /\ versions'[v].text = requests'[versions'[v].request].text
                      /\ versions'[v].profiles = requests'[versions'[v].request].profiles
    BY DEF VersionsOK
  <2>1. CASE v = Len(versions) + 1
    BY <1>2, <1>7, <1>8, <1>9, <2>1
  <2>2. CASE v \in 1..Len(versions)
    <3>1. versions'[v] = versions[v]
      BY <1>9, <2>2
    <3>2. /\ versions[v].request \in 1..Len(requests)
          /\ requests[versions[v].request].state = "published"
          /\ versions[v].text = requests[versions[v].request].text
          /\ versions[v].profiles = requests[versions[v].request].profiles
      BY <2>2 DEF SkillInv, VersionsOK
    <3>3. versions[v].request # q
      BY <1>1, <3>2 DEF r
    <3> QED BY <1>8, <3>1, <3>2, <3>3
  <2> QED BY <1>9, <2>1, <2>2
<1>13. Skills!Release' = k /\ Skills!Published'
  BY <1>7, <1>8, <1>9 DEF Skills!Release, Skills!Published
<1>14. BindingsOK'
  <2> SUFFICES ASSUME NEW b \in 1..Len(bindings')
               PROVE  /\ bindings'[b].version \in 1..Len(versions')
                      /\ bindings'[b].profile \in versions'[bindings'[b].version].profiles
                      /\ ~bindings'[b].revoked =>
                           Skills!Allowed(bindings[b].user, bindings[b].profile)'
    BY DEF BindingsOK
  <2>1. b \in 1..Len(bindings)
    BY <1>10 DEF OnlyRevoked
  <2>2. /\ bindings[b].version \in 1..Len(versions)
        /\ bindings[b].profile \in versions[bindings[b].version].profiles
        /\ ~bindings[b].revoked => Skills!Allowed(bindings[b].user, bindings[b].profile)
    BY <2>1 DEF SkillInv, BindingsOK
  <2>3. bindings[b].user \in Readership
    <3>1. bindings[b] \in BindingRows
      BY <2>1 DEF SkillInv, SkillTypes
    <3> QED BY <3>1 DEF BindingRows
  <2>4. ASSUME ~bindings'[b].revoked
        PROVE  Skills!Allowed(bindings[b].user, bindings[b].profile)'
    <3>1. global # "disabled"
      BY <1>10, <2>1, <2>2, <2>4 DEF OnlyRevoked, Skills!Allowed
    <3>2. bindings[b].user \in r.audience /\ bindings[b].profile \in r.profiles
      BY <1>10, <2>1, <2>4
    <3>3. bindings'[b].user = bindings[b].user /\ bindings'[b].profile = bindings[b].profile
      BY <1>10, <2>1 DEF OnlyRevoked
    <3>4. config'[bindings[b].user] = r.profiles
      BY <1>5, <2>3, <3>2
    <3> QED
      BY <1>2, <1>5, <1>13, <3>1, <3>2, <3>3, <3>4 DEF Skills!Allowed, Skills!ApprovedScope
  <2> QED
    BY <1>9, <1>10, <2>1, <2>2, <2>4 DEF OnlyRevoked
<1>15. config' \in [Readership -> SUBSET Profiles]
  BY <1>5, <1>7
<1> QED
  BY <1>5, <1>8, <1>9, <1>10, <1>11, <1>12, <1>14, <1>15
     DEF SkillInv, SkillTypes, OnlyRevoked

\* Revoking some bindings (gone) leaves rows, users, profiles and versions.
LEMMA SomeAreRevoked ==
    ASSUME bindings \in Seq(BindingRows), NEW gone,
           bindings' = [b \in DOMAIN bindings |->
                          [bindings[b] EXCEPT !.revoked = @ \/ b \in gone]]
    PROVE  OnlyRevoked /\ \A b \in 1..Len(bindings) : ~bindings'[b].revoked => b \notin gone
<1>1. \A b \in 1..Len(bindings) : bindings[b] \in BindingRows
  OBVIOUS
<1>2. DOMAIN bindings = 1..Len(bindings) /\ Len(bindings) \in Nat
  OBVIOUS
<1>3. ASSUME NEW b \in 1..Len(bindings)
      PROVE  /\ bindings'[b] \in BindingRows
             /\ bindings'[b].user = bindings[b].user
             /\ bindings'[b].profile = bindings[b].profile
             /\ bindings'[b].version = bindings[b].version
             /\ bindings[b].revoked => bindings'[b].revoked
             /\ ~bindings'[b].revoked => b \notin gone
  BY <1>1, <1>2 DEF BindingRows
<1>4. bindings' \in [1..Len(bindings) -> BindingRows]
  BY <1>2, <1>3
<1> QED BY <1>2, <1>3, <1>4, FunctionIsSeq DEF OnlyRevoked

\* Where bindings are only revoked, and what is left may still be used, the
\* bindings are as they should be.
StillAllowed ==
    \A b \in 1..Len(bindings) :
        ~bindings'[b].revoked /\ Skills!Allowed(bindings[b].user, bindings[b].profile)
            => Skills!Allowed(bindings[b].user, bindings[b].profile)'

LEMMA RevokedAreOK ==
    ASSUME SkillInv, OnlyRevoked, StillAllowed, UNCHANGED versions
    PROVE  BindingsOK'
BY DEF SkillInv, OnlyRevoked, StillAllowed, BindingsOK

\* save_config and the switch of the whole skill.
LEMMA AdminSteps ==
    ASSUME SkillInv,
           \/ \E u \in Readership, profiles \in SUBSET Profiles : Skills!SaveConfig(u, profiles)
           \/ \E s \in {"enabled", "disabled"} : Skills!SaveGlobal(s)
    PROVE  SkillInv' /\ OnlyRevoked
<1>1. UNCHANGED <<state, revisions, report, requests, versions>>
  BY DEF Skills!SaveConfig, Skills!SaveGlobal, Skills!draftVars
<1>2. bindings \in Seq(BindingRows) /\ config \in [Readership -> SUBSET Profiles]
  BY DEF SkillInv, SkillTypes
<1>3. UNCHANGED <<Skills!Release, Skills!Published>>
  BY <1>1 DEF Skills!Release, Skills!Published
<1>4. \A b \in 1..Len(bindings) : bindings[b] \in BindingRows
  BY <1>2
<1>5. ASSUME NEW u \in Readership, NEW profiles \in SUBSET Profiles, Skills!SaveConfig(u, profiles)
      PROVE  /\ OnlyRevoked /\ StillAllowed
             /\ config' \in [Readership -> SUBSET Profiles]
  <2> DEFINE gone == {b \in 1..Len(bindings) :
                        bindings[b].user = u /\ bindings[b].profile \notin profiles}
  <2>1. bindings' = [b \in DOMAIN bindings |->
                       [bindings[b] EXCEPT !.revoked = @ \/ b \in gone]]
    <3>1. DOMAIN bindings = 1..Len(bindings)
      BY <1>2
    <3>2. bindings' = [b \in DOMAIN bindings |->
                       [bindings[b] EXCEPT !.revoked =
                          @ \/ (bindings[b].user = u /\ bindings[b].profile \notin profiles)]]
      BY <1>5 DEF Skills!SaveConfig, Skills!LosesByConfig
    <3> QED BY <3>1, <3>2
  <2>2. OnlyRevoked /\ \A b \in 1..Len(bindings) : ~bindings'[b].revoked => b \notin gone
    <3> HIDE DEF gone
    <3> QED BY <1>2, <2>1, SomeAreRevoked
  <2>3. config' = [config EXCEPT ![u] = profiles] /\ global' = global
    BY <1>5 DEF Skills!SaveConfig
  <2>4. StillAllowed
    <3> SUFFICES ASSUME NEW b \in 1..Len(bindings), ~bindings'[b].revoked,
                        Skills!Allowed(bindings[b].user, bindings[b].profile)
                 PROVE  Skills!Allowed(bindings[b].user, bindings[b].profile)'
      BY DEF StillAllowed
    <3>1. bindings'[b].user = bindings[b].user /\ bindings'[b].profile = bindings[b].profile
      BY <2>2 DEF OnlyRevoked
    <3>2. bindings[b].user = u => bindings[b].profile \in profiles
      BY <2>2
    <3>3. bindings[b].user \in Readership
      BY <1>4 DEF BindingRows
    <3>4. bindings[b].profile \in config'[bindings[b].user]
      BY <1>2, <2>3, <3>2, <3>3 DEF Skills!Allowed
    <3> QED BY <1>3, <2>3, <3>1, <3>4 DEF Skills!Allowed, Skills!ApprovedScope
  <2> QED BY <1>2, <2>2, <2>3, <2>4
<1>6. ASSUME NEW s \in {"enabled", "disabled"}, Skills!SaveGlobal(s)
      PROVE  OnlyRevoked /\ StillAllowed /\ config' \in [Readership -> SUBSET Profiles]
  <2> DEFINE gone == {b \in 1..Len(bindings) : s = "disabled"}
  <2>1. bindings' = [b \in DOMAIN bindings |->
                       [bindings[b] EXCEPT !.revoked = @ \/ b \in gone]]
    <3>1. DOMAIN bindings = 1..Len(bindings)
      BY <1>2
    <3>2. bindings' = [b \in DOMAIN bindings |->
                       [bindings[b] EXCEPT !.revoked = @ \/ s = "disabled"]]
      BY <1>6 DEF Skills!SaveGlobal
    <3> QED BY <3>1, <3>2
  <2>2. OnlyRevoked /\ \A b \in 1..Len(bindings) : ~bindings'[b].revoked => b \notin gone
    <3> HIDE DEF gone
    <3> QED BY <1>2, <2>1, SomeAreRevoked
  <2>3. config' = config /\ global' = s
    BY <1>6 DEF Skills!SaveGlobal
  <2>4. StillAllowed
    <3> SUFFICES ASSUME NEW b \in 1..Len(bindings), ~bindings'[b].revoked,
                        Skills!Allowed(bindings[b].user, bindings[b].profile)
                 PROVE  Skills!Allowed(bindings[b].user, bindings[b].profile)'
      BY DEF StillAllowed
    <3>1. bindings'[b].user = bindings[b].user /\ bindings'[b].profile = bindings[b].profile
      BY <2>2 DEF OnlyRevoked
    <3>2. s # "disabled"
      BY <2>2
    <3> QED BY <1>3, <2>3, <3>1, <3>2 DEF Skills!Allowed, Skills!ApprovedScope
  <2> QED BY <1>2, <2>2, <2>3, <2>4
<1>7. OnlyRevoked /\ StillAllowed /\ config' \in [Readership -> SUBSET Profiles]
  BY <1>5, <1>6
<1>8. BindingsOK'
  BY <1>1, <1>7, RevokedAreOK
<1> QED
  BY <1>1, <1>7, <1>8 DEF SkillInv, SkillTypes, RequestsFit, VersionsOK, OnlyRevoked

\* bind, and a task that attaches a binding.
LEMMA UseSteps ==
    ASSUME SkillInv,
           \/ \E u \in Readership, p \in Profiles : Skills!Bind(u, p)
           \/ \E t \in Jobs, b \in 1..Len(bindings) : Skills!Attach(t, b)
    PROVE  /\ SkillInv'
           /\ \A b \in 1..Len(bindings) : b \in 1..Len(bindings') /\ bindings'[b] = bindings[b]
<1>1. UNCHANGED <<state, revisions, report, requests, versions, config, global>>
  BY DEF Skills!Bind, Skills!Attach, Skills!draftVars
<1>2. \A u, p : Skills!Allowed(u, p)' <=> Skills!Allowed(u, p)
  BY <1>1 DEF Skills!Allowed, Skills!ApprovedScope, Skills!Release, Skills!Published
<1>3. ASSUME NEW u \in Readership, NEW p \in Profiles, Skills!Bind(u, p)
      PROVE  /\ bindings' \in Seq(BindingRows) /\ BindingsOK'
             /\ \A b \in 1..Len(bindings) : b \in 1..Len(bindings') /\ bindings'[b] = bindings[b]
  <2> DEFINE k == [user |-> u, profile |-> p, version |-> Len(versions), revoked |-> FALSE]
  <2>1. bindings' = Append(bindings, k) /\ Skills!Allowed(u, p)
    BY <1>3 DEF Skills!Bind
  <2>2. Len(versions) \in 1..Len(versions) /\ Len(versions) \in Nat
    BY <2>1 DEF Skills!Allowed, Skills!ApprovedScope, Skills!Published, SkillInv, SkillTypes
  <2>3. p \in versions[Len(versions)].profiles
    BY <2>1, <2>2 DEF Skills!Allowed, Skills!ApprovedScope, Skills!Release, SkillInv, VersionsOK
  <2>4. /\ k \in BindingRows /\ k.user = u /\ k.profile = p /\ k.version = Len(versions)
    BY <2>2 DEF BindingRows
  <2> HIDE DEF k
  <2>5. /\ bindings' \in Seq(BindingRows) /\ Len(bindings') = Len(bindings) + 1
        /\ Len(bindings) \in Nat /\ bindings'[Len(bindings) + 1] = k
        /\ \A b \in 1..Len(bindings) : bindings'[b] = bindings[b]
    BY <2>1, <2>4 DEF SkillInv, SkillTypes
  <2>6. BindingsOK'
    <3> SUFFICES ASSUME NEW b \in 1..Len(bindings')
                 PROVE  /\ bindings'[b].version \in 1..Len(versions')
                        /\ bindings'[b].profile \in versions'[bindings'[b].version].profiles
                        /\ ~bindings'[b].revoked =>
                             Skills!Allowed(bindings[b].user, bindings[b].profile)'
      BY DEF BindingsOK
    <3>1. CASE b = Len(bindings) + 1
      <4>1. bindings'[b].user = u /\ bindings'[b].profile = p
        BY <2>4, <2>5, <3>1
      <4>2. Skills!Allowed(bindings[b].user, bindings[b].profile)'
        BY <1>1, <2>1, <4>1
           DEF Skills!Allowed, Skills!ApprovedScope, Skills!Release, Skills!Published
      <4> QED BY <1>1, <2>2, <2>3, <2>4, <2>5, <3>1, <4>2
    <3>2. CASE b \in 1..Len(bindings)
      <4>1. bindings'[b] = bindings[b]
        BY <2>5, <3>2
      <4>2. /\ bindings[b].version \in 1..Len(versions)
            /\ bindings[b].profile \in versions[bindings[b].version].profiles
            /\ ~bindings[b].revoked => Skills!Allowed(bindings[b].user, bindings[b].profile)
        BY <3>2 DEF SkillInv, BindingsOK
      <4>3. ~bindings'[b].revoked => Skills!Allowed(bindings[b].user, bindings[b].profile)'
        BY <1>1, <4>1, <4>2
           DEF Skills!Allowed, Skills!ApprovedScope, Skills!Release, Skills!Published
      <4> QED BY <1>1, <4>1, <4>2, <4>3
    <3> QED BY <2>5, <3>1, <3>2
  <2> QED BY <2>5, <2>6
<1>4. ASSUME \E t \in Jobs, b \in 1..Len(bindings) : Skills!Attach(t, b)
      PROVE  /\ bindings' \in Seq(BindingRows) /\ BindingsOK'
             /\ \A b \in 1..Len(bindings) : b \in 1..Len(bindings') /\ bindings'[b] = bindings[b]
  <2>1. bindings' = bindings
    BY <1>4 DEF Skills!Attach
  <2> QED
    BY <1>1, <2>1 DEF SkillInv, SkillTypes, BindingsOK, Skills!Allowed, Skills!ApprovedScope,
                      Skills!Release, Skills!Published
<1>5. /\ bindings' \in Seq(BindingRows) /\ BindingsOK'
      /\ \A b \in 1..Len(bindings) : b \in 1..Len(bindings') /\ bindings'[b] = bindings[b]
  BY <1>3, <1>4
<1> QED BY <1>1, <1>5 DEF SkillInv, SkillTypes, RequestsFit, VersionsOK

LEMMA SkillStep ==
    ASSUME SkillInv, Skills!PublicationAssumption, [Skills!Next]_(Skills!vars)
    PROVE  /\ SkillInv'
           /\ \A b \in 1..Len(bindings) :
                 /\ b \in 1..Len(bindings')
                 /\ bindings[b].revoked => bindings'[b].revoked
<1>1. CASE UNCHANGED Skills!vars
  BY <1>1 DEF Skills!vars, SkillInv, SkillTypes, RequestsFit, VersionsOK, BindingsOK,
              Skills!Allowed, Skills!ApprovedScope, Skills!Release, Skills!Published
<1>2. CASE DraftStep
  BY <1>2, DraftSteps
<1>3. CASE \E audience \in Audiences, profiles \in SUBSET Profiles :
              Skills!Submit(audience, profiles)
  BY <1>3, SubmitStep
<1>4. CASE \E q \in 1..Len(requests) :
              Skills!Withdraw(q) \/ \E d \in Decisions : Skills!Decline(q, d)
  BY <1>4, DeclineSteps
<1>5. CASE \E q \in 1..Len(requests) : Skills!Approve(q)
  BY <1>5, ApproveStep DEF OnlyRevoked
<1>6. CASE \/ \E u \in Readership, profiles \in SUBSET Profiles : Skills!SaveConfig(u, profiles)
           \/ \E s \in {"enabled", "disabled"} : Skills!SaveGlobal(s)
  BY <1>6, AdminSteps DEF OnlyRevoked
<1>7. CASE \/ \E u \in Readership, p \in Profiles : Skills!Bind(u, p)
           \/ \E t \in Jobs, b \in 1..Len(bindings) : Skills!Attach(t, b)
  BY <1>7, UseSteps
<1> QED
  BY <1>1, <1>2, <1>3, <1>4, <1>5, <1>6, <1>7 DEF Skills!Next, DraftStep

\* See PublishedIsTried below.
LEMMA PublishedIsTriedAlone ==
    ASSUME Skills!PublicationAssumption
    PROVE  Skills!Spec => []Skills!PublishedWasTried
<1>1. Skills!Init => SkillInv
  BY SkillInit
<1>2. SkillInv /\ [Skills!Next]_(Skills!vars) => SkillInv'
  BY SkillStep
<1>3. SkillInv => Skills!PublishedWasTried
  BY DEF SkillInv, RequestsFit, VersionsOK, Skills!PublishedWasTried
<1> QED BY <1>1, <1>2, <1>3, PTL DEF Skills!Spec

\* A binding pins a version that offers its profile, whatever is published,
\* narrowed or switched off after bind.
THEOREM BindingsFit ==
    ASSUME Skills!PublicationAssumption
    PROVE  Skills!Spec => []Skills!BoundProfileExists
<1>1. Skills!Init => SkillInv
  BY SkillInit
<1>2. SkillInv /\ [Skills!Next]_(Skills!vars) => SkillInv'
  BY SkillStep
<1>3. SkillInv => Skills!BoundProfileExists
  BY DEF SkillInv, BindingsOK, Skills!BoundProfileExists
<1> QED BY <1>1, <1>2, <1>3, PTL DEF Skills!Spec

\* A binding that may not be used any more stays out of use: a narrower release,
\* an assignment taken away or the switch revoke it for good, for what is not
\* revoked may always be used ("Audience reduction must revoke old bindings").
THEOREM OutStaysOut ==
    ASSUME Skills!PublicationAssumption
    PROVE  Skills!Spec => Skills!OutIsOut
<1>1. Skills!Init => SkillInv
  BY SkillInit
<1>2. SkillInv /\ [Skills!Next]_(Skills!vars) => SkillInv'
  BY SkillStep
<1>3. SkillInv /\ [Skills!Next]_(Skills!vars) =>
        [\A b \in 1..Len(bindings) :
            ~Skills!Usable(bindings[b]) => ~Skills!Usable(bindings[b])']_(Skills!vars)
  <2> SUFFICES ASSUME SkillInv, [Skills!Next]_(Skills!vars), NEW b \in 1..Len(bindings),
                      ~Skills!Usable(bindings[b])
               PROVE  ~Skills!Usable(bindings[b])'
    OBVIOUS
  <2>1. bindings[b].revoked
    BY DEF SkillInv, BindingsOK, Skills!Usable
  <2>2. bindings'[b].revoked
    BY <2>1, SkillStep
  <2> QED BY <2>2 DEF Skills!Usable
<1> QED BY <1>1, <1>2, <1>3, PTL DEF Skills!Spec, Skills!OutIsOut

\* The draft has one of its states, and a task is attached to a binding there is.
AttachedOK == attached \in [Jobs -> 0..Len(bindings)] /\ state \in {"none", "editing", "archived"}

LEMMA AttachedKeeps ==
    ASSUME SkillInv, AttachedOK, [Skills!Next]_(Skills!vars), Skills!PublicationAssumption
    PROVE  AttachedOK'
<1>1. SkillInv'
  BY SkillStep
<1>2. Len(bindings) \in Nat /\ Len(bindings') \in Nat
  BY <1>1 DEF SkillInv, SkillTypes
<1>3. \A b \in 1..Len(bindings) : b \in 1..Len(bindings')
  BY SkillStep
<1>4. Len(bindings) <= Len(bindings')
  BY <1>2, <1>3
<1>5. attached' \in [Jobs -> 0..Len(bindings)]
  <2>1. CASE \E t \in Jobs, b \in 1..Len(bindings) : Skills!Attach(t, b)
    <3>1. PICK t \in Jobs, b \in 1..Len(bindings) : attached' = [attached EXCEPT ![t] = b]
      BY <2>1 DEF Skills!Attach
    <3>2. b \in 0..Len(bindings)
      BY <1>2
    <3> QED BY <3>1, <3>2 DEF AttachedOK
  <2>2. CASE attached' = attached
    BY <2>2 DEF AttachedOK
  <2> QED
    BY <2>1, <2>2 DEF Skills!Next, Skills!vars, Skills!useVars, Skills!Save, Skills!Restore,
         Skills!EvaluationFinishes, Skills!Archive, Skills!TestStart, Skills!TestResult,
         Skills!Submit, Skills!Withdraw, Skills!Decline, Skills!Approve, Skills!SaveConfig,
         Skills!SaveGlobal, Skills!Bind
<1>6. state' \in {"none", "editing", "archived"}
  BY DEF AttachedOK, Skills!Next, Skills!vars, Skills!draftVars, Skills!Save, Skills!Restore,
       Skills!EvaluationFinishes, Skills!Archive, Skills!TestStart, Skills!TestResult,
       Skills!Submit, Skills!Withdraw, Skills!Decline, Skills!Approve, Skills!SaveConfig,
       Skills!SaveGlobal, Skills!Bind, Skills!Attach
<1>7. \A n \in 0..Len(bindings) : n \in 0..Len(bindings')
  BY <1>2, <1>4
<1> QED BY <1>5, <1>6, <1>7 DEF AttachedOK

\* The rows of the skills keep to their domains.
LEMMA SkillTypesHold ==
    ASSUME Skills!PublicationAssumption
    PROVE  Skills!Spec => []Skills!TypeOK
<1>1. Skills!Init => SkillInv /\ AttachedOK
  <2>1. Skills!Init => AttachedOK
    BY DEF Skills!Init, AttachedOK
  <2> QED BY <2>1, SkillInit
<1>2. SkillInv /\ AttachedOK /\ [Skills!Next]_(Skills!vars) => SkillInv' /\ AttachedOK'
  BY SkillStep, AttachedKeeps
<1>3. SkillInv /\ AttachedOK => Skills!TypeOK
  BY DEF SkillInv, SkillTypes, BindingsOK, AttachedOK, Skills!TypeOK
<1> QED BY <1>1, <1>2, <1>3, PTL DEF Skills!Spec

(***************************************************************************)
(* Prepared documents.                                                     *)
(***************************************************************************)

\* The variables of Documents.
dl == v1
art == v2
req == v3
granted == v4
restarts == v5

USE DEF dl, art, req, granted, restarts

DownloadRows ==
    [state : Files!Alive \cup {"none", "completed", "expired"},
     csrf : BOOLEAN, past : BOOLEAN, stale : BOOLEAN, file : BOOLEAN]
RequestStates ==
    [pc : {"idle", "claimed", "fetched", "written", "link", "refresh"},
     kind : {"none", "card", "prepare", "reissue"},
     of : Downloads \cup {0}, seen : Downloads \cup {0}]

FileTypes ==
    /\ dl \in [Downloads -> DownloadRows]
    /\ art \in [state : {"none", "ready", "expired"}, source : Downloads \cup {0},
                past : BOOLEAN]
    /\ req \in [Requests -> RequestStates]
    /\ \A r \in Requests : req[r].pc # "idle" => req[r].of \in Downloads

Holding == {"claimed", "fetched", "written"}

\* What a row can say: only a link that is over makes a prepared file stale, and
\* a ready row whose link is not over has its file.
RowIsRight(row) ==
    /\ row.stale => row.past
    /\ row.state = "ready" /\ ~row.past => row.file

\* What a request knows of its row k.  The holder of a claim finds it processing,
\* or expired meanwhile; what it has written is there while the link is alive.
\* Who goes on to the artifact comes from a row that was ready.
KnowsRow(pc, k) ==
    /\ pc \in Holding => k.state \in {"processing", "expired"}
    /\ pc = "written" /\ k.state = "processing" /\ ~k.past => k.file
    /\ pc \in {"link", "refresh"} /\ ~k.past => k.state = "ready"

ClaimsOK ==
    /\ \A r \in Requests : req[r].pc # "idle" => KnowsRow(req[r].pc, dl[req[r].of])
    /\ \A r, q \in Requests :
          req[r].pc \in Holding /\ req[q].pc \in Holding /\ req[r].of = req[q].of => r = q

\* The link of a ready artifact is as old as its download, which is ready.
ArtifactOK ==
    art.state = "ready" /\ ~art.past =>
        art.source \in Downloads /\ dl[art.source].state = "ready" /\ ~dl[art.source].past

\* The inductive invariant of prepared documents.
FilesInv ==
    FileTypes /\ (\A d \in Downloads : RowIsRight(dl[d])) /\ ClaimsOK /\ ArtifactOK

LEMMA FilesInit ==
    ASSUME Files!Init PROVE FilesInv
<1>1. FileTypes
  BY DEF Files!Init, FileTypes, DownloadRows, RequestStates, Files!Alive, Files!Idle,
         Files!NoDownload
<1>2. \A d \in Downloads : RowIsRight(dl[d])
  BY DEF Files!Init, RowIsRight
<1>3. ClaimsOK
  BY DEF Files!Init, ClaimsOK, Holding, Files!Idle
<1> QED BY <1>1, <1>2, <1>3 DEF Files!Init, FilesInv, ArtifactOK

\* A row d becomes k, and nothing else of the downloads changes.
RowBecomes(d, k) == dl' = [dl EXCEPT ![d] = k]

\* The step is right when the new row is, when those who know the old row know
\* the new one, and when it stays ready as long as its link is alive.
Follows(d, k) ==
    /\ k \in DownloadRows /\ RowIsRight(k)
    /\ \A r \in Requests : req[r].pc # "idle" /\ req[r].of = d => KnowsRow(req[r].pc, k)
    /\ dl[d].state = "ready" => k.state = "ready" \/ k.past
    /\ k.past = dl[d].past

\* A row changes and the requests and the artifact do not.
LEMMA RowStep ==
    ASSUME FilesInv, NEW d \in Downloads, NEW k, RowBecomes(d, k), Follows(d, k),
           UNCHANGED <<art, req>>
    PROVE  FilesInv'
<1>1. /\ dl' \in [Downloads -> DownloadRows] /\ dl'[d] = k
      /\ \A e \in Downloads : e # d => dl'[e] = dl[e]
  BY DEF RowBecomes, Follows, FilesInv, FileTypes
<1>2. FileTypes'
  BY <1>1 DEF FilesInv, FileTypes
<1>3. (\A e \in Downloads : RowIsRight(dl[e]))'
  BY <1>1 DEF FilesInv, Follows
<1>4. ClaimsOK'
  BY <1>1 DEF FilesInv, FileTypes, ClaimsOK, Follows
<1>5. ArtifactOK'
  BY <1>1 DEF FilesInv, ArtifactOK, Follows
<1> QED BY <1>2, <1>3, <1>4, <1>5 DEF FilesInv

\* Request r goes on to p, and the row d becomes k.
RequestFollows(r, p, d, k) ==
    /\ req' = [req EXCEPT ![r] = p]
    /\ p \in RequestStates
    /\ p.pc # "idle" => p.of = d /\ KnowsRow(p.pc, k)
    /\ p.pc \in Holding => \A q \in Requests \ {r} : req[q].pc \in Holding => req[q].of # d
    /\ \A q \in Requests \ {r} : req[q].pc # "idle" /\ req[q].of = d => KnowsRow(req[q].pc, k)
    /\ k \in DownloadRows /\ RowIsRight(k)
    /\ dl[d].state = "ready" => k.state = "ready" \/ k.past
    /\ k.past = dl[d].past

LEMMA RequestStep ==
    ASSUME FilesInv, NEW r \in Requests, NEW p, NEW d \in Downloads, NEW k,
           RowBecomes(d, k), RequestFollows(r, p, d, k), UNCHANGED art
    PROVE  FilesInv'
<1>1. /\ dl' \in [Downloads -> DownloadRows] /\ dl'[d] = k
      /\ \A e \in Downloads : e # d => dl'[e] = dl[e]
  BY DEF RowBecomes, RequestFollows, FilesInv, FileTypes
<1>2. /\ req' \in [Requests -> RequestStates] /\ req'[r] = p
      /\ \A q \in Requests \ {r} : req'[q] = req[q]
  BY DEF RequestFollows, FilesInv, FileTypes
<1>3. p.pc # "idle" => p.of = d /\ KnowsRow(p.pc, k)
  BY DEF RequestFollows
<1>4. FileTypes'
  BY <1>1, <1>2, <1>3 DEF FilesInv, FileTypes
<1>5. (\A e \in Downloads : RowIsRight(dl[e]))'
  BY <1>1 DEF FilesInv, RequestFollows
<1>6. ClaimsOK'
  <2>1. ASSUME NEW q \in Requests, req'[q].pc # "idle"
        PROVE  KnowsRow(req'[q].pc, dl'[req'[q].of])
    <3>1. CASE q = r
      BY <1>1, <1>2, <1>3, <2>1, <3>1
    <3>2. CASE q # r
      <4>1. req'[q] = req[q] /\ req[q].of \in Downloads /\ KnowsRow(req[q].pc, dl[req[q].of])
        BY <1>2, <2>1, <3>2 DEF FilesInv, FileTypes, ClaimsOK
      <4>2. req[q].of = d => KnowsRow(req[q].pc, k)
        BY <1>2, <2>1, <3>2 DEF RequestFollows
      <4> QED BY <1>1, <4>1, <4>2
    <3> QED BY <3>1, <3>2
  <2>2. ASSUME NEW q \in Requests, NEW q2 \in Requests, req'[q].pc \in Holding,
               req'[q2].pc \in Holding, req'[q].of = req'[q2].of, q # q2
        PROVE  FALSE
    <3>1. "idle" \notin Holding
      BY DEF Holding
    <3>2. ASSUME NEW x \in Requests \ {r}, req[x].pc \in Holding, p.pc \in Holding
          PROVE  req[x].of # p.of
      BY <1>3, <3>1, <3>2 DEF RequestFollows
    <3>3. CASE q # r /\ q2 # r
      BY <1>2, <2>2, <3>3 DEF FilesInv, ClaimsOK
    <3> QED BY <1>2, <2>2, <3>2, <3>3
  <2> QED BY <2>1, <2>2 DEF ClaimsOK
<1>7. ArtifactOK'
  BY <1>1 DEF FilesInv, ArtifactOK, RequestFollows
<1> QED BY <1>4, <1>5, <1>6, <1>7 DEF FilesInv

\* The clocks.
LEMMA ClocksKeep ==
    ASSUME FilesInv, NEW d \in Downloads, Files!TimePasses(d) \/ Files!PreparedTimePasses(d)
    PROVE  FilesInv'
<1>0. dl[d] \in DownloadRows /\ RowIsRight(dl[d])
  BY DEF FilesInv, FileTypes
<1>1. CASE Files!PreparedTimePasses(d)
  <2> DEFINE k == [dl[d] EXCEPT !.stale = TRUE]
  <2>1. RowBecomes(d, k) /\ UNCHANGED <<art, req>> /\ dl[d].past /\ dl[d].state = "ready"
    BY <1>1 DEF Files!PreparedTimePasses, RowBecomes
  <2>2. /\ k \in DownloadRows /\ RowIsRight(k) /\ k.state = dl[d].state
        /\ k.past = dl[d].past /\ k.file = dl[d].file
    BY <1>0, <2>1 DEF DownloadRows, RowIsRight
  <2> HIDE DEF k
  <2>3. Follows(d, k)
    BY <2>2 DEF Follows, FilesInv, ClaimsOK, KnowsRow
  <2> QED BY <2>1, <2>3, RowStep
<1>2. CASE Files!TimePasses(d)
  <2> DEFINE k == [dl[d] EXCEPT !.past = TRUE]
  <2>1. dl' = [dl EXCEPT ![d] = k] /\ req' = req
        /\ art' = IF art.source = d THEN [art EXCEPT !.past = TRUE] ELSE art
    BY <1>2 DEF Files!TimePasses
  <2>2. /\ k \in DownloadRows /\ RowIsRight(k) /\ k.state = dl[d].state
        /\ k.past /\ k.file = dl[d].file
    BY <1>0 DEF DownloadRows, RowIsRight
  <2> HIDE DEF k
  <2>3. /\ dl' \in [Downloads -> DownloadRows] /\ dl'[d] = k
        /\ \A e \in Downloads : e # d => dl'[e] = dl[e]
    BY <2>1, <2>2 DEF FilesInv, FileTypes
  <2>4. FileTypes'
    BY <2>1, <2>3 DEF FilesInv, FileTypes
  <2>5. (\A e \in Downloads : RowIsRight(dl[e]))'
    BY <2>2, <2>3 DEF FilesInv
  <2>6. ClaimsOK'
    BY <2>1, <2>2, <2>3 DEF FilesInv, FileTypes, ClaimsOK, KnowsRow
  <2>7. ArtifactOK'
    BY <2>1, <2>2, <2>3 DEF FilesInv, FileTypes, ArtifactOK
  <2> QED BY <2>4, <2>5, <2>6, <2>7 DEF FilesInv
<1> QED BY <1>1, <1>2

\* A page is opened; a row that is due expires, or loses its file in a
\* transaction that rolls back.
LEMMA RowsKeep ==
    ASSUME FilesInv, NEW d \in Downloads,
           Files!OpenPage(d) \/ Files!Get(d) \/ Files!ReadFails(d)
    PROVE  FilesInv'
<1>0. dl[d] \in DownloadRows /\ RowIsRight(dl[d]) /\ UNCHANGED <<art, req>>
  BY DEF FilesInv, FileTypes, Files!OpenPage, Files!Get, Files!ReadFails
<1>1. Files!Due(dl[d]) => dl[d].past /\ dl[d].state \in Files!Alive
  BY <1>0 DEF Files!Due, RowIsRight, DownloadRows, Files!Alive
<1>2. CASE Files!OpenPage(d)
  <2> DEFINE k == [dl[d] EXCEPT !.csrf = TRUE]
  <2>1. RowBecomes(d, k)
    BY <1>2 DEF Files!OpenPage, RowBecomes
  <2>2. /\ k \in DownloadRows /\ RowIsRight(k) /\ k.state = dl[d].state
        /\ k.past = dl[d].past /\ k.file = dl[d].file
    BY <1>0 DEF DownloadRows, RowIsRight
  <2> HIDE DEF k
  <2>3. Follows(d, k)
    BY <2>2 DEF Follows, FilesInv, ClaimsOK, KnowsRow
  <2> QED BY <1>0, <2>1, <2>3, RowStep
<1>3. CASE Files!Get(d)
  <2> DEFINE k == Files!Expired(dl[d])
  <2>1. RowBecomes(d, k) /\ Files!Due(dl[d])
    BY <1>3 DEF Files!Get, RowBecomes
  <2>2. /\ k \in DownloadRows /\ k.stale = dl[d].stale /\ k.state = "expired"
        /\ k.past = dl[d].past
    BY <1>0, <2>1 DEF DownloadRows, Files!Expired, Files!Alive
  <2>3. RowIsRight(k) /\ k.past
    BY <1>0, <1>1, <2>1, <2>2 DEF RowIsRight
  <2> HIDE DEF k
  <2>4. Follows(d, k)
    BY <2>2, <2>3 DEF Follows, FilesInv, ClaimsOK, KnowsRow
  <2> QED BY <1>0, <2>1, <2>4, RowStep
<1>4. CASE Files!ReadFails(d)
  <2> DEFINE k == Files!RolledBack(dl[d])
  <2>1. RowBecomes(d, k) /\ Files!Due(dl[d])
    BY <1>4 DEF Files!ReadFails, RowBecomes
  <2>2. /\ k \in DownloadRows /\ k.stale = dl[d].stale /\ k.state = dl[d].state
        /\ k.past = dl[d].past
    BY <1>0, <2>1 DEF DownloadRows, Files!RolledBack
  <2>3. RowIsRight(k) /\ k.past
    BY <1>0, <1>1, <2>1, <2>2 DEF RowIsRight
  <2> HIDE DEF k
  <2>4. Follows(d, k)
    BY <2>2, <2>3 DEF Follows, FilesInv, ClaimsOK, KnowsRow
  <2> QED BY <1>0, <2>1, <2>4, RowStep
<1> QED BY <1>2, <1>3, <1>4

\* Who takes a row that nobody holds: Claim, a report, a reissue; and a download
\* that is ready already.
LEMMA StartsKeepFiles ==
    ASSUME FilesInv, NEW r \in Requests, NEW d \in Downloads,
           \/ \E kind \in {"card", "prepare"} : Files!Claim(r, d, kind)
           \/ Files!PrepareAgain(r, d) \/ Files!MaterializeReport(r, d) \/ Files!Reissue(r, d)
    PROVE  FilesInv'
<1>0. dl[d] \in DownloadRows /\ RowIsRight(dl[d]) /\ req[r] \in RequestStates
  BY DEF FilesInv, FileTypes
<1>1. CASE Files!PrepareAgain(r, d)
  <2> DEFINE p == [pc |-> "link", kind |-> "prepare", of |-> d, seen |-> 0]
  <2>1. /\ req' = [req EXCEPT ![r] = p] /\ dl[d].state = "ready"
        /\ UNCHANGED <<dl, art>>
    BY <1>1 DEF Files!PrepareAgain, Files!NoDownload
  <2>2. p \in RequestStates /\ p.pc = "link" /\ p.of = d
    BY DEF RequestStates
  <2> HIDE DEF p
  <2>3. RowBecomes(d, dl[d])
    BY <2>1 DEF RowBecomes, FilesInv, FileTypes
  <2>4. KnowsRow("link", dl[d])
    BY <2>1 DEF KnowsRow, Holding
  <2>5. RequestFollows(r, p, d, dl[d])
    BY <1>0, <2>1, <2>2, <2>4 DEF RequestFollows, Holding, FilesInv, ClaimsOK
  <2> QED BY <2>1, <2>3, <2>5, RequestStep
<1>2. ASSUME NEW p, NEW k, RowBecomes(d, k), req' = [req EXCEPT ![r] = p], UNCHANGED art,
             dl[d].state \in {"pending", "none"}, k \in DownloadRows, k.state = "processing",
             k.past = dl[d].past, k.stale = dl[d].stale, p \in RequestStates,
             p.pc \in {"claimed", "fetched"}, p.of = d
      PROVE  FilesInv'
  <2>1. RowIsRight(k)
    BY <1>0, <1>2 DEF RowIsRight
  <2>2. KnowsRow(p.pc, k)
    BY <1>2 DEF KnowsRow
  <2>3. \A q \in Requests : req[q].pc \in Holding => req[q].of # d
    BY <1>2 DEF FilesInv, ClaimsOK, KnowsRow, Holding
  <2>4. ASSUME NEW q \in Requests, req[q].pc # "idle", req[q].of = d
        PROVE  KnowsRow(req[q].pc, k)
    <3>1. KnowsRow(req[q].pc, dl[d])
      BY <2>4 DEF FilesInv, ClaimsOK
    <3>2. req[q].pc \notin Holding
      BY <2>3, <2>4
    <3> QED BY <1>2, <3>1, <3>2 DEF KnowsRow, Holding
  <2>5. RequestFollows(r, p, d, k)
    BY <1>2, <2>1, <2>2, <2>3, <2>4 DEF RequestFollows
  <2> QED BY <1>2, <2>5, RequestStep
<1>3. CASE \E kind \in {"card", "prepare"} : Files!Claim(r, d, kind)
  <2>1. PICK kind \in {"card", "prepare"} : Files!Claim(r, d, kind)
    BY <1>3
  <2> DEFINE k == [[dl[d] EXCEPT !.state = "processing"] EXCEPT !.csrf = FALSE]
             p == [pc |-> "claimed", kind |-> kind, of |-> d, seen |-> req[r].seen]
  <2>2. RowBecomes(d, k) /\ req' = [req EXCEPT ![r] = p] /\ UNCHANGED art
        /\ dl[d].state = "pending"
    BY <2>1 DEF Files!Claim, RowBecomes
  <2>3. /\ k \in DownloadRows /\ k.state = "processing"
        /\ k.past = dl[d].past /\ k.stale = dl[d].stale
    BY <1>0 DEF DownloadRows, Files!Alive
  <2>4. p \in RequestStates /\ p.pc = "claimed" /\ p.of = d
    BY <1>0 DEF RequestStates
  <2> HIDE DEF k, p
  <2> QED BY <1>2, <2>2, <2>3, <2>4
<1>4. CASE Files!MaterializeReport(r, d)
  <2> DEFINE k == [dl[d] EXCEPT !.state = "processing"]
             p == [pc |-> "fetched", kind |-> "prepare", of |-> d, seen |-> 0]
  <2>2. RowBecomes(d, k) /\ req' = [req EXCEPT ![r] = p] /\ UNCHANGED art
        /\ dl[d].state = "none"
    BY <1>4 DEF Files!MaterializeReport, RowBecomes, Files!NoDownload
  <2>3. /\ k \in DownloadRows /\ k.state = "processing"
        /\ k.past = dl[d].past /\ k.stale = dl[d].stale
    BY <1>0 DEF DownloadRows, Files!Alive
  <2>4. p \in RequestStates /\ p.pc = "fetched" /\ p.of = d
    BY DEF RequestStates
  <2> HIDE DEF k, p
  <2> QED BY <1>2, <2>2, <2>3, <2>4
<1>5. CASE Files!Reissue(r, d)
  <2> DEFINE k == [dl[d] EXCEPT !.state = "processing"]
             p == [pc |-> "claimed", kind |-> "reissue", of |-> d, seen |-> art.source]
  <2>2. RowBecomes(d, k) /\ req' = [req EXCEPT ![r] = p] /\ UNCHANGED art
        /\ dl[d].state = "none"
    BY <1>5 DEF Files!Reissue, RowBecomes
  <2>3. /\ k \in DownloadRows /\ k.state = "processing"
        /\ k.past = dl[d].past /\ k.stale = dl[d].stale
    BY <1>0 DEF DownloadRows, Files!Alive
  <2>4. p \in RequestStates /\ p.pc = "claimed" /\ p.of = d
    <3>1. art.source \in Downloads \cup {0}
      BY DEF FilesInv, FileTypes
    <3> QED BY <3>1 DEF RequestStates
  <2> HIDE DEF k, p
  <2> QED BY <1>2, <2>2, <2>3, <2>4
<1> QED BY <1>1, <1>3, <1>4, <1>5

\* The holder r of a claim moves on: nobody else holds its row.
LEMMA HoldersKeep ==
    ASSUME FilesInv, NEW r \in Requests, req[r].pc \in Holding, NEW p, NEW k,
           RowBecomes(req[r].of, k), req' = [req EXCEPT ![r] = p], UNCHANGED art,
           p \in RequestStates, p.pc # "idle" => p.of = req[r].of /\ KnowsRow(p.pc, k),
           k \in DownloadRows, RowIsRight(k), k.past = dl[req[r].of].past
    PROVE  FilesInv'
<1> DEFINE d == req[r].of
<1>1. d \in Downloads /\ "idle" \notin Holding /\ "link" \notin Holding /\ "refresh" \notin Holding
  BY DEF FilesInv, FileTypes, Holding
<1>2. KnowsRow(req[r].pc, dl[d])
  BY <1>1 DEF FilesInv, ClaimsOK
<1>3. dl[d].state \in {"processing", "expired"}
  BY <1>2 DEF KnowsRow
<1>4. \A q \in Requests \ {r} : req[q].pc \in Holding => req[q].of # d
  BY DEF FilesInv, ClaimsOK
<1>5. ASSUME NEW q \in Requests \ {r}, req[q].pc # "idle", req[q].of = d
      PROVE  KnowsRow(req[q].pc, k)
  <2>1. KnowsRow(req[q].pc, dl[d])
    BY <1>5 DEF FilesInv, ClaimsOK
  <2>2. req[q].pc \notin Holding
    BY <1>4, <1>5
  <2>3. req[q].pc # "written"
    BY <2>2 DEF Holding
  <2>4. req[q].pc \in {"link", "refresh"} => k.past
    BY <1>3, <2>1 DEF KnowsRow
  <2> QED BY <2>2, <2>3, <2>4 DEF KnowsRow
<1> HIDE DEF d
<1>6. RequestFollows(r, p, d, k)
  BY <1>3, <1>4, <1>5 DEF RequestFollows, d
<1> QED BY <1>1, <1>6, RequestStep DEF d

\* release: the row goes back, or expires at once.
LEMMA ReleasedIsRight ==
    ASSUME FilesInv, NEW d \in Downloads, Files!Release(d)
    PROVE  \E k \in DownloadRows :
              RowBecomes(d, k) /\ RowIsRight(k) /\ k.past = dl[d].past
<1>0. dl[d] \in DownloadRows /\ RowIsRight(dl[d])
  BY DEF FilesInv, FileTypes
<1>1. CASE dl[d].state # "processing"
  BY <1>0, <1>1 DEF Files!Release, RowBecomes
<1>2. CASE dl[d].state = "processing"
  <2> DEFINE k == Files!Expired([dl[d] EXCEPT !.state = "pending"])
             g == [dl[d] EXCEPT !.state = "pending"]
  <2>1. RowBecomes(d, k)
    BY <1>2 DEF Files!Release, RowBecomes
  <2>2. g \in DownloadRows /\ RowIsRight(g) /\ g.past = dl[d].past
    BY <1>0 DEF DownloadRows, RowIsRight, Files!Alive
  <2> HIDE DEF g
  <2>3. k = Files!Expired(g)
    BY DEF g
  <2>4. k \in DownloadRows /\ RowIsRight(k) /\ k.past = g.past
    BY <2>2, <2>3 DEF Files!Expired, DownloadRows, RowIsRight
  <2> QED BY <2>1, <2>2, <2>4
<1> QED BY <1>1, <1>2

\* fetch, complete, mark_ready: what the holder of a claim does.
LEMMA HolderSteps ==
    ASSUME FilesInv, NEW r \in Requests,
           \/ Files!Fetch(r) \/ Files!FetchFails(r) \/ Files!CompleteCard(r)
           \/ Files!WriteFile(r) \/ Files!MarkReady(r)
    PROVE  FilesInv'
<1> DEFINE d == req[r].of
<1>0. req[r].pc \in Holding
  BY DEF Holding, Files!Fetch, Files!FetchFails, Files!CompleteCard, Files!WriteFile,
         Files!MarkReady
<1>1. /\ d \in Downloads /\ dl[d] \in DownloadRows /\ RowIsRight(dl[d])
      /\ req[r] \in RequestStates /\ KnowsRow(req[r].pc, dl[d])
  BY <1>0 DEF FilesInv, FileTypes, ClaimsOK, Holding
<1>2. UNCHANGED art
  BY DEF Files!Fetch, Files!FetchFails, Files!CompleteCard, Files!WriteFile, Files!MarkReady
<1>3. Files!Idle \in RequestStates /\ Files!Idle.pc = "idle"
  BY DEF Files!Idle, RequestStates, Files!NoDownload
<1>4. ASSUME NEW pc \in {"claimed", "fetched", "written", "link", "refresh"}
      PROVE  /\ [req[r] EXCEPT !.pc = pc] \in RequestStates
             /\ [req[r] EXCEPT !.pc = pc].pc = pc
             /\ [req[r] EXCEPT !.pc = pc].of = d
  BY <1>1 DEF RequestStates
<1>5. CASE Files!Fetch(r)
  <2> DEFINE p == [req[r] EXCEPT !.pc = "fetched"]
  <2>1. req' = [req EXCEPT ![r] = p] /\ RowBecomes(d, dl[d])
    BY <1>5 DEF Files!Fetch, Files!Goto, RowBecomes, FilesInv, FileTypes
  <2>2. KnowsRow("fetched", dl[d])
    BY <1>0, <1>1 DEF KnowsRow, Holding
  <2>3. p \in RequestStates /\ p.pc = "fetched" /\ p.of = d
    BY <1>4
  <2> HIDE DEF p
  <2> QED BY <1>0, <1>1, <1>2, <2>1, <2>2, <2>3, HoldersKeep
<1>6. CASE Files!FetchFails(r)
  <2>1. req' = [req EXCEPT ![r] = Files!Idle] /\ Files!Release(d)
    BY <1>6 DEF Files!FetchFails, Files!Done
  <2>2. PICK k \in DownloadRows : RowBecomes(d, k) /\ RowIsRight(k) /\ k.past = dl[d].past
    BY <1>1, <2>1, ReleasedIsRight
  <2> QED BY <1>0, <1>2, <1>3, <2>1, <2>2, HoldersKeep
<1>7. CASE Files!CompleteCard(r)
  <2>1. req' = [req EXCEPT ![r] = Files!Idle]
    BY <1>7 DEF Files!CompleteCard, Files!Done
  <2>2. CASE granted /\ dl[d].state = "processing"
    <3> DEFINE k == [dl[d] EXCEPT !.state = "completed"]
    <3>1. RowBecomes(d, k)
      BY <1>7, <2>2 DEF Files!CompleteCard, RowBecomes
    <3>2. k \in DownloadRows /\ RowIsRight(k) /\ k.past = dl[d].past
      BY <1>1 DEF DownloadRows, RowIsRight
    <3> HIDE DEF k
    <3> QED BY <1>0, <1>2, <1>3, <2>1, <3>1, <3>2, HoldersKeep
  <2>3. CASE ~(granted /\ dl[d].state = "processing")
    <3>1. Files!Release(d)
      BY <1>7, <2>3 DEF Files!CompleteCard
    <3>2. PICK k \in DownloadRows : RowBecomes(d, k) /\ RowIsRight(k) /\ k.past = dl[d].past
      BY <1>1, <3>1, ReleasedIsRight
    <3> QED BY <1>0, <1>2, <1>3, <2>1, <3>2, HoldersKeep
  <2> QED BY <2>2, <2>3
<1>8. CASE Files!WriteFile(r)
  <2> DEFINE p == [req[r] EXCEPT !.pc = "written"]
             k == [dl[d] EXCEPT !.file = TRUE]
  <2>1. req' = [req EXCEPT ![r] = p] /\ RowBecomes(d, k)
    BY <1>8 DEF Files!WriteFile, Files!Goto, RowBecomes
  <2>2. /\ k \in DownloadRows /\ RowIsRight(k) /\ k.past = dl[d].past
        /\ k.file /\ k.state = dl[d].state
    BY <1>1 DEF DownloadRows, RowIsRight
  <2>3. p \in RequestStates /\ p.pc = "written" /\ p.of = d
    BY <1>4
  <2> HIDE DEF k, p
  <2>4. KnowsRow("written", k)
    BY <1>0, <1>1, <2>2 DEF KnowsRow, Holding
  <2> QED BY <1>0, <1>2, <2>1, <2>2, <2>3, <2>4, HoldersKeep
<1>9. CASE Files!MarkReady(r) /\ dl[d].state = "processing"
  <2>0. PICK pc \in {"link", "refresh"} : Files!Goto(r, pc)
    BY <1>9 DEF Files!MarkReady
  <2> DEFINE p == [req[r] EXCEPT !.pc = pc]
             k == [dl[d] EXCEPT !.state = "ready"]
  <2>1. req' = [req EXCEPT ![r] = p] /\ RowBecomes(d, k) /\ req[r].pc = "written"
    BY <1>9, <2>0 DEF Files!MarkReady, Files!Goto, RowBecomes
  <2>2. /\ k \in DownloadRows /\ k.past = dl[d].past /\ k.stale = dl[d].stale
        /\ k.file = dl[d].file /\ k.state = "ready"
    BY <1>1 DEF DownloadRows, Files!Alive
  <2>3. p \in RequestStates /\ p.pc = pc /\ p.of = d
    BY <1>4
  <2> HIDE DEF k, p
  <2>4. KnowsRow(pc, k)
    BY <2>2 DEF KnowsRow, Holding
  <2>5. RowIsRight(k)
    BY <1>1, <1>9, <2>1, <2>2 DEF KnowsRow, RowIsRight
  <2> QED BY <1>0, <1>2, <2>1, <2>2, <2>3, <2>4, <2>5, HoldersKeep
<1>10. CASE Files!MarkReady(r) /\ dl[d].state # "processing"
  <2> DEFINE k == [dl[d] EXCEPT !.file = FALSE]
  <2>1. req' = [req EXCEPT ![r] = Files!Idle] /\ RowBecomes(d, k)
    BY <1>10 DEF Files!MarkReady, Files!Done, RowBecomes
  <2>2. dl[d].state = "expired"
    BY <1>0, <1>1, <1>10 DEF KnowsRow
  <2>3. k \in DownloadRows /\ RowIsRight(k) /\ k.past = dl[d].past
    BY <1>1, <2>2 DEF DownloadRows, RowIsRight
  <2> HIDE DEF k
  <2> QED BY <1>0, <1>2, <1>3, <2>1, <2>3, HoldersKeep
<1> QED BY <1>5, <1>6, <1>7, <1>8, <1>9, <1>10

\* link_artifact, refresh_artifact, get_artifact, a change of the grants and a
\* restart leave the rows alone.
LEMMA ArtifactSteps ==
    ASSUME FilesInv,
           \/ \E r \in Requests : Files!LinkArtifact(r) \/ Files!RefreshArtifact(r)
           \/ Files!GetArtifact \/ Files!ChangeGrant \/ Files!Restart
    PROVE  FilesInv'
<1>1. dl' = dl
  BY DEF Files!LinkArtifact, Files!RefreshArtifact, Files!GetArtifact, Files!ChangeGrant,
         Files!Restart
<1>2. ASSUME NEW q \in Requests
      PROVE  req'[q] = req[q] \/ req'[q] = Files!Idle
  BY DEF Files!LinkArtifact, Files!RefreshArtifact, Files!GetArtifact, Files!ChangeGrant,
         Files!Restart, Files!Done, FilesInv, FileTypes
<1>3. req' \in [Requests -> RequestStates]
  <2>1. Files!Idle \in RequestStates
    BY DEF Files!Idle, RequestStates, Files!NoDownload
  <2> QED
    BY <2>1 DEF Files!LinkArtifact, Files!RefreshArtifact, Files!GetArtifact,
                Files!ChangeGrant, Files!Restart, Files!Done, FilesInv, FileTypes
<1>4. \A q \in Requests : req'[q].pc # "idle" => req'[q] = req[q]
  BY <1>2 DEF Files!Idle
<1>5. (\A q \in Requests : req[q].pc # "idle" => req[q].of \in Downloads)' /\ ClaimsOK'
  <2>1. "idle" \notin Holding
    BY DEF Holding
  <2> QED BY <1>1, <1>4, <2>1 DEF FilesInv, FileTypes, ClaimsOK
<1>6. /\ art' \in [state : {"none", "ready", "expired"}, source : Downloads \cup {0},
                   past : BOOLEAN]
      /\ ArtifactOK'
  <2>1. ASSUME NEW r \in Requests, Files!LinkArtifact(r) \/ Files!RefreshArtifact(r),
               art' # art
        PROVE  /\ art' = [state |-> "ready", source |-> req[r].of, past |-> FALSE]
               /\ req[r].of \in Downloads /\ dl[req[r].of].state = "ready"
               /\ ~dl[req[r].of].past
    BY <2>1 DEF Files!LinkArtifact, Files!RefreshArtifact, FilesInv, FileTypes, ClaimsOK,
                KnowsRow
  <2>2. CASE UNCHANGED art
    BY <1>1, <2>2 DEF FilesInv, FileTypes, ArtifactOK
  <2>3. CASE Files!GetArtifact
    BY <1>1, <2>3 DEF Files!GetArtifact, FilesInv, FileTypes, ArtifactOK
  <2>4. CASE art' # art /\ \E r \in Requests : Files!LinkArtifact(r) \/ Files!RefreshArtifact(r)
    <3>1. PICK r \in Requests : Files!LinkArtifact(r) \/ Files!RefreshArtifact(r)
      BY <2>4
    <3> DEFINE d == req[r].of
    <3>2. /\ art' = [state |-> "ready", source |-> d, past |-> FALSE]
          /\ d \in Downloads /\ dl[d].state = "ready" /\ ~dl[d].past
      BY <2>1, <2>4, <3>1
    <3> HIDE DEF d
    <3> QED BY <1>1, <3>2 DEF ArtifactOK
  <2> QED BY <2>2, <2>3, <2>4 DEF Files!ChangeGrant, Files!Restart
<1> QED BY <1>1, <1>3, <1>5, <1>6 DEF FilesInv, FileTypes

LEMMA FilesInvariant ==
    Files!Spec => []FilesInv
<1>1. Files!Init => FilesInv
  BY FilesInit
<1>2. ASSUME FilesInv, [Files!Next]_(Files!vars) PROVE FilesInv'
  <2>1. CASE UNCHANGED Files!vars
    BY <1>2, <2>1 DEF Files!vars, FilesInv, FileTypes, ClaimsOK, ArtifactOK
  <2> QED
    BY <1>2, <2>1, ClocksKeep, RowsKeep, StartsKeepFiles, HolderSteps, ArtifactSteps
       DEF Files!Next
<1> QED BY <1>1, <1>2, PTL DEF Files!Spec

\* See LinksWork below.
LEMMA LinksWorkAlone == Files!Spec => []Files!ReadyArtifactHasFile
<1>1. FilesInv => Files!ReadyArtifactHasFile
  BY DEF FilesInv, ArtifactOK, RowIsRight, Files!ReadyArtifactHasFile
<1> QED BY <1>1, FilesInvariant, PTL

\* Two requests never hold the same claim (claim, claim_for_prepare).
THEOREM ClaimsHaveOneHolder == Files!Spec => []Files!OneHolder
<1>1. FilesInv => Files!OneHolder
  BY DEF FilesInv, ClaimsOK, Holding, Files!OneHolder
<1> QED BY <1>1, FilesInvariant, PTL

\* The rows of the documents keep to their domains.
LEMMA FileTypesHold ==
    ASSUME Files!DocumentsAssumption
    PROVE  Files!Spec => []Files!TypeOK
<1> DEFINE Restarts == 0..MaxRestarts
           Counted == granted \in BOOLEAN /\ restarts \in Restarts
<1>1. Files!Init => Counted
  BY DEF Files!Init, Files!DocumentsAssumption
<1>2. Counted /\ [Files!Next]_(Files!vars) => Counted'
  <2>1. ASSUME Counted, Files!Restart PROVE Counted'
    BY <2>1 DEF Files!Restart, Files!DocumentsAssumption
  <2>2. ASSUME Counted, UNCHANGED restarts, granted' \in {granted, ~granted} PROVE Counted'
    BY <2>2
  <2> HIDE DEF Counted
  <2>3. [Files!Next]_(Files!vars) =>
          \/ Files!Restart
          \/ UNCHANGED restarts /\ granted' \in {granted, ~granted}
    BY DEF Files!Next, Files!vars, Files!TimePasses, Files!PreparedTimePasses, Files!OpenPage,
         Files!Get, Files!ReadFails, Files!Claim, Files!PrepareAgain, Files!MaterializeReport,
         Files!Reissue, Files!Fetch, Files!FetchFails, Files!CompleteCard, Files!WriteFile,
         Files!MarkReady, Files!LinkArtifact, Files!RefreshArtifact, Files!GetArtifact,
         Files!ChangeGrant
  <2> QED BY <2>1, <2>2, <2>3
<1>3. FilesInv /\ Counted => Files!TypeOK
  BY DEF FilesInv, FileTypes, DownloadRows, RequestStates, Files!TypeOK, Files!NoDownload
<1> QED BY <1>1, <1>2, <1>3, FilesInvariant, PTL DEF Files!Spec

(***************************************************************************)
(* The pictures of messages.                                               *)
(***************************************************************************)

\* The variables of Attachments.
row == v1
disk == v2
drawn == v3
drawing == v4
maker == v5
pruner == v7

USE DEF row, disk, drawn, drawing, maker, reader, pruner, crashes

PictureRows ==
    [state : {"none", "ready", "expired"}, of : Posts \cup {Unset},
     body : Bodies \cup {Unset}, late : BOOLEAN]
MakerStates ==
    [pc : {"idle", "write", "rename", "discard"}, of : Posts \cup {Unset},
     body : Bodies \cup {Unset}, files : SUBSET Ids]
Writing == {"write", "rename"}

PictureTypes ==
    /\ row \in [Ids -> PictureRows]
    /\ disk \in [Ids -> {"none", "tmp", "whole"}]
    /\ drawn \in SUBSET Ids
    /\ maker \in [Creators -> MakerStates]

\* The one who writes has the transaction, and its message has no rows yet; the
\* files of a creator have no rows, are nobody else's, and are there in full
\* whenever their transaction could commit.
MakersOK ==
    /\ \A c \in Creators :
          /\ maker[c].pc \in Writing => drawing = c /\ Pictures!Rows(maker[c].of) = {}
          /\ \A i \in maker[c].files : i \in drawn /\ row[i].state = "none"
          /\ maker[c].pc = "write" => \A i \in maker[c].files : disk[i] = "whole"
    /\ \A c, e \in Creators : c # e => maker[c].files \cap maker[e].files = {}

\* Rows have ids that were drawn; the maintenance removes files of expired rows.
PictureRowsOK ==
    /\ \A i \in Ids : row[i].state # "none" => i \in drawn
    /\ \A i \in pruner : i \in Ids /\ row[i].state = "expired"

\* The inductive invariant of the pictures.
PicturesInv == PictureTypes /\ MakersOK /\ PictureRowsOK /\ Pictures!PicturesAreWhole

LEMMA PicturesInit ==
    ASSUME Pictures!Init, Pictures!AttachmentsAssumption PROVE PicturesInv
<1>1. PictureTypes
  BY DEF Pictures!Init, PictureTypes, PictureRows, MakerStates, Pictures!NoRow, Pictures!Idle
<1>2. MakersOK
  BY DEF Pictures!Init, MakersOK, Pictures!Idle, Writing
<1>3. PictureRowsOK /\ Pictures!ReadyHasFile
  BY DEF Pictures!Init, PictureRowsOK, Pictures!ReadyHasFile, Pictures!NoRow
<1>4. Pictures!AllOrNone
  BY DEF Pictures!Init, Pictures!AllOrNone, Pictures!Rows, Pictures!NoRow
<1> QED BY <1>1, <1>2, <1>3, <1>4 DEF PicturesInv, Pictures!PicturesAreWhole

\* Where no row is new and none changes its message or its body, a message has
\* the pictures it had.
SameRows ==
    \A i \in Ids : /\ row'[i].state = "none" <=> row[i].state = "none"
                   /\ row'[i].of = row[i].of /\ row'[i].body = row[i].body

LEMMA SameRowsKeep ==
    ASSUME SameRows, Pictures!AllOrNone
    PROVE  Pictures!AllOrNone' /\ \A m : Pictures!Rows(m)' = Pictures!Rows(m)
<1>1. \A m : Pictures!Rows(m)' = Pictures!Rows(m)
  BY DEF SameRows, Pictures!Rows
<1>2. ASSUME NEW m \in Posts, NEW i \in Pictures!Rows(m)', NEW j \in Pictures!Rows(m)'
      PROVE  row'[i].body = row'[j].body /\ Pictures!Cardinality(Pictures!Rows(m)') = Size
  <2>1. i \in Pictures!Rows(m) /\ j \in Pictures!Rows(m) /\ i \in Ids /\ j \in Ids
    BY <1>1, <1>2 DEF Pictures!Rows
  <2> QED BY <1>1, <2>1 DEF Pictures!AllOrNone, SameRows
<1> QED BY <1>1, <1>2 DEF Pictures!AllOrNone

\* begin, and the two steps of every file.
LEMMA MakingKeeps ==
    ASSUME PicturesInv, Pictures!AttachmentsAssumption, NEW c \in Creators,
           \/ \E m \in Posts, b \in Bodies : Pictures!Begin(c, m, b)
           \/ \E i \in Ids : Pictures!WriteFile(c, i)
           \/ Pictures!RenameFile(c)
    PROVE  PicturesInv'
<1>0. /\ row' = row /\ pruner' = pruner
      /\ maker \in [Creators -> MakerStates] /\ maker[c] \in MakerStates
      /\ disk \in [Ids -> {"none", "tmp", "whole"}] /\ drawn \in SUBSET Ids
      /\ row \in [Ids -> PictureRows]
  BY DEF Pictures!Begin, Pictures!WriteFile, Pictures!RenameFile, PicturesInv, PictureTypes
<1>1. Pictures!AllOrNone' /\ \A m : Pictures!Rows(m)' = Pictures!Rows(m)
  BY <1>0, SameRowsKeep DEF SameRows, PicturesInv, Pictures!PicturesAreWhole
<1>2. ASSUME NEW k \in MakerStates, maker' = [maker EXCEPT ![c] = k],
             k.pc \in Writing, drawing' = c, Pictures!Rows(k.of) = {},
             k.files \subseteq drawn',
             \A i \in k.files : row[i].state = "none",
             k.pc = "write" => \A i \in k.files : disk'[i] = "whole",
             \A e \in Creators \ {c} : maker[e].pc \notin Writing,
             \A e \in Creators \ {c} : maker[e].files \cap k.files = {},
             drawn \subseteq drawn', drawn' \subseteq Ids,
             disk' \in [Ids -> {"none", "tmp", "whole"}],
             \A i \in Ids : row[i].state # "none" => disk'[i] = disk[i]
      PROVE  PicturesInv'
  <2>1. /\ maker' \in [Creators -> MakerStates] /\ maker'[c] = k
        /\ \A e \in Creators \ {c} : maker'[e] = maker[e]
    BY <1>0, <1>2
  <2>2. PictureTypes'
    BY <1>0, <1>2, <2>1 DEF PicturesInv, PictureTypes
  <2>3. MakersOK'
    <3>1. ASSUME NEW e \in Creators
          PROVE  /\ maker'[e].pc \in Writing =>
                      drawing' = e /\ Pictures!Rows(maker'[e].of) = {}
                 /\ \A i \in maker'[e].files : i \in drawn' /\ row'[i].state = "none"
                 /\ maker'[e].pc = "write" => \A i \in maker'[e].files : disk'[i] = "whole"
      <4>1. CASE e = c
        BY <1>0, <1>2, <2>1, <4>1
      <4>2. CASE e # c
        BY <1>0, <1>2, <2>1, <4>2 DEF PicturesInv, MakersOK, Writing
      <4> QED BY <4>1, <4>2
    <3>2. ASSUME NEW e \in Creators, NEW f \in Creators, e # f
          PROVE  maker'[e].files \cap maker'[f].files = {}
      BY <1>2, <2>1, <3>2 DEF PicturesInv, MakersOK
    <3>3. ASSUME NEW e \in Creators, maker'[e].pc \in Writing
          PROVE  Pictures!Rows(maker[e].of)' = {}
      BY <1>0, <3>1, <3>3 DEF Pictures!Rows
    <3> QED BY <3>1, <3>2, <3>3 DEF MakersOK
  <2>4. PictureRowsOK' /\ Pictures!ReadyHasFile'
    BY <1>0, <1>2 DEF PicturesInv, PictureRowsOK, Pictures!PicturesAreWhole,
                      Pictures!ReadyHasFile
  <2> QED BY <1>1, <2>2, <2>3, <2>4 DEF PicturesInv, Pictures!PicturesAreWhole
<1>3. CASE \E m \in Posts, b \in Bodies : Pictures!Begin(c, m, b)
  <2>1. PICK m \in Posts, b \in Bodies : Pictures!Begin(c, m, b)
    BY <1>3
  <2> DEFINE k == [pc |-> "write", of |-> m, body |-> b, files |-> {}]
  <2>2. /\ maker' = [maker EXCEPT ![c] = k] /\ drawing' = c /\ drawing = Unset
        /\ Pictures!Rows(m) = {} /\ drawn' = drawn /\ disk' = disk
    BY <2>1 DEF Pictures!Begin
  <2>3. k \in MakerStates /\ k.pc = "write" /\ k.files = {} /\ k.of = m
    BY DEF MakerStates
  <2>4. \A e \in Creators \ {c} : maker[e].pc \notin Writing
    BY <2>2 DEF PicturesInv, MakersOK, Pictures!AttachmentsAssumption
  <2> HIDE DEF k
  <2> QED BY <1>0, <1>2, <2>2, <2>3, <2>4 DEF Writing
<1>4. CASE \E i \in Ids : Pictures!WriteFile(c, i)
  <2>1. PICK i \in Ids : Pictures!WriteFile(c, i)
    BY <1>4
  <2> DEFINE k == [[maker[c] EXCEPT !.pc = "rename"] EXCEPT !.files = @ \cup {i}]
  <2>2. /\ maker' = [maker EXCEPT ![c] = k] /\ drawing' = drawing
        /\ i \notin drawn /\ drawn' = drawn \cup {i} /\ disk' = [disk EXCEPT ![i] = "tmp"]
        /\ maker[c].pc = "write"
    BY <2>1 DEF Pictures!WriteFile
  <2>3. /\ k \in MakerStates /\ k.pc = "rename" /\ k.files = maker[c].files \cup {i}
        /\ k.of = maker[c].of
    BY <1>0 DEF MakerStates
  <2>4. drawing = c /\ Pictures!Rows(maker[c].of) = {}
    BY <2>2 DEF PicturesInv, MakersOK, Writing
  <2>5. \A e \in Creators \ {c} : maker[e].pc \notin Writing
    BY <2>4 DEF PicturesInv, MakersOK
  <2>6. \A e \in Creators \ {c} : maker[e].files \cap k.files = {}
    BY <2>2, <2>3 DEF PicturesInv, MakersOK
  <2>7. row[i].state = "none"
    BY <2>2 DEF PicturesInv, PictureRowsOK
  <2>8. k.files \subseteq drawn' /\ \A j \in k.files : row[j].state = "none"
    BY <2>2, <2>3, <2>7 DEF PicturesInv, MakersOK
  <2>9. /\ disk' \in [Ids -> {"none", "tmp", "whole"}]
        /\ \A j \in Ids : row[j].state # "none" => disk'[j] = disk[j]
    BY <1>0, <2>2, <2>7
  <2> HIDE DEF k
  <2>10. drawn \subseteq drawn' /\ drawn' \subseteq Ids
    BY <1>0, <2>2
  <2>11. k.pc \in Writing /\ k.pc # "write" /\ drawing' = c /\ Pictures!Rows(k.of) = {}
    BY <2>2, <2>3, <2>4 DEF Writing
  <2> QED BY <1>2, <2>2, <2>3, <2>5, <2>6, <2>8, <2>9, <2>10, <2>11
<1>5. CASE Pictures!RenameFile(c)
  <2> DEFINE k == [maker[c] EXCEPT !.pc = "write"]
  <2>2. /\ maker' = [maker EXCEPT ![c] = k] /\ drawing' = drawing /\ drawn' = drawn
        /\ disk' = [i \in Ids |-> IF i \in maker[c].files THEN "whole" ELSE disk[i]]
        /\ maker[c].pc = "rename"
    BY <1>5 DEF Pictures!RenameFile
  <2>3. k \in MakerStates /\ k.pc = "write" /\ k.files = maker[c].files /\ k.of = maker[c].of
    BY <1>0 DEF MakerStates
  <2>4. drawing = c /\ Pictures!Rows(maker[c].of) = {}
    BY <2>2 DEF PicturesInv, MakersOK, Writing
  <2>5. \A e \in Creators \ {c} : maker[e].pc \notin Writing
    BY <2>4 DEF PicturesInv, MakersOK
  <2>6. /\ \A e \in Creators \ {c} : maker[e].files \cap k.files = {}
        /\ k.files \subseteq drawn /\ \A j \in k.files : row[j].state = "none"
    BY <2>3 DEF PicturesInv, MakersOK
  <2>7. maker[c].files \subseteq Ids
    BY <1>0 DEF MakerStates
  <2>8. /\ disk' \in [Ids -> {"none", "tmp", "whole"}]
        /\ \A j \in Ids : row[j].state # "none" => disk'[j] = disk[j]
        /\ \A j \in k.files : disk'[j] = "whole"
    BY <1>0, <2>2, <2>3, <2>6, <2>7
  <2> HIDE DEF k
  <2> QED BY <1>0, <1>2, <2>2, <2>3, <2>4, <2>5, <2>6, <2>8 DEF Writing
<1> QED BY <1>3, <1>4, <1>5

\* commit: the rows of a message that had none appear together.
LEMMA CommitKeeps ==
    ASSUME PicturesInv, Pictures!AttachmentsAssumption, NEW c \in Creators,
           Pictures!Commit(c)
    PROVE  PicturesInv'
<1> DEFINE F == maker[c].files
           m0 == maker[c].of
           k == [state |-> "ready", of |-> m0, body |-> maker[c].body, late |-> FALSE]
<1>1. /\ maker[c].pc = "write" /\ Pictures!Cardinality(F) = Size
      /\ row' = [i \in Ids |-> IF i \in F THEN k ELSE row[i]]
      /\ maker' = [maker EXCEPT ![c] = Pictures!Idle] /\ UNCHANGED <<disk, drawn, pruner>>
  BY DEF Pictures!Commit
<1>2. /\ maker \in [Creators -> MakerStates] /\ maker[c] \in MakerStates
      /\ row \in [Ids -> PictureRows]
  BY DEF PicturesInv, PictureTypes
<1>3. /\ k \in PictureRows /\ k.state = "ready" /\ k.of = m0 /\ k.body = maker[c].body
      /\ F \subseteq Ids
  BY <1>2 DEF MakerStates, PictureRows
<1>4. /\ drawing = c /\ Pictures!Rows(m0) = {}
      /\ \A i \in F : i \in drawn /\ row[i].state = "none" /\ disk[i] = "whole"
  BY <1>1 DEF PicturesInv, MakersOK, Writing
<1>5. Pictures!Idle \in MakerStates /\ Pictures!Idle.pc = "idle" /\ Pictures!Idle.files = {}
  BY DEF Pictures!Idle, MakerStates
<1>6. /\ maker' \in [Creators -> MakerStates] /\ maker'[c] = Pictures!Idle
      /\ \A e \in Creators \ {c} : maker'[e] = maker[e]
  BY <1>1, <1>2, <1>5
<1> HIDE DEF k, F, m0
<1>7. /\ row' \in [Ids -> PictureRows]
      /\ \A i \in F : row'[i] = k
      /\ \A i \in Ids \ F : row'[i] = row[i]
  BY <1>1, <1>2, <1>3
<1>8. PictureTypes'
  BY <1>1, <1>6, <1>7 DEF PicturesInv, PictureTypes
<1>9. MakersOK'
  <2>1. ASSUME NEW e \in Creators
        PROVE  /\ maker'[e].pc \notin Writing
               /\ \A i \in maker'[e].files : i \in drawn' /\ row'[i].state = "none"
               /\ maker'[e].pc # "write"
    <3>1. CASE e = c
      BY <1>5, <1>6, <3>1 DEF Writing
    <3>2. CASE e # c
      <4>1. maker'[e] = maker[e] /\ maker[e].pc \notin Writing
        BY <1>4, <1>6, <3>2 DEF PicturesInv, MakersOK
      <4>2. maker[e].files \cap F = {} /\ maker[e].files \subseteq Ids
        BY <1>2, <3>2 DEF PicturesInv, MakersOK, F, MakerStates
      <4>3. \A i \in maker[e].files : i \in drawn /\ row[i].state = "none"
        BY DEF PicturesInv, MakersOK
      <4> QED BY <1>1, <1>7, <4>1, <4>2, <4>3 DEF Writing
    <3> QED BY <3>1, <3>2
  <2>2. ASSUME NEW e \in Creators, NEW f \in Creators, e # f
        PROVE  maker'[e].files \cap maker'[f].files = {}
    BY <1>5, <1>6, <2>2 DEF PicturesInv, MakersOK
  <2> QED BY <2>1, <2>2 DEF MakersOK
<1>10. PictureRowsOK'
  BY <1>1, <1>4, <1>7 DEF PicturesInv, PictureRowsOK
<1>11. Pictures!ReadyHasFile'
  BY <1>1, <1>4, <1>7 DEF PicturesInv, Pictures!PicturesAreWhole, Pictures!ReadyHasFile
<1>12. Pictures!AllOrNone'
  <2>1. ASSUME NEW m \in Posts, m # m0
        PROVE  /\ Pictures!Rows(m)' = Pictures!Rows(m)
               /\ \A i \in Pictures!Rows(m) : row'[i] = row[i]
    BY <1>3, <1>4, <1>7, <2>1 DEF Pictures!Rows
  <2>2. ASSUME NEW m \in Posts, m = m0
        PROVE  Pictures!Rows(m)' = F /\ \A i \in F : row'[i].body = k.body
    BY <1>3, <1>4, <1>7, <2>2 DEF Pictures!Rows
  <2>3. ASSUME NEW m \in Posts, NEW i \in Pictures!Rows(m)', NEW j \in Pictures!Rows(m)'
        PROVE  row'[i].body = row'[j].body /\ Pictures!Cardinality(Pictures!Rows(m)') = Size
    <3>1. CASE m = m0
      BY <1>1, <2>2, <2>3, <3>1
    <3>2. CASE m # m0
      BY <2>1, <2>3, <3>2 DEF PicturesInv, Pictures!PicturesAreWhole, Pictures!AllOrNone
    <3> QED BY <3>1, <3>2
  <2> QED BY <2>3 DEF Pictures!AllOrNone
<1> QED BY <1>8, <1>9, <1>10, <1>11, <1>12 DEF PicturesInv, Pictures!PicturesAreWhole

\* The creators that go on hold files as before; the others are idle or clean up.
MakersFollow ==
    /\ maker' \in [Creators -> MakerStates]
    /\ \A c \in Creators :
          /\ maker'[c].files \subseteq maker[c].files
          /\ maker'[c].pc \in Writing =>
                maker'[c] = maker[c] /\ drawing' = drawing

\* Where rows only grow older and files disappear only when nothing needs them,
\* the pictures stay whole.
RowsFollow ==
    /\ row' \in [Ids -> PictureRows] /\ SameRows
    /\ \A i \in Ids : row'[i].state = "ready" /\ ~row'[i].late =>
          row[i].state = "ready" /\ ~row[i].late
    /\ \A i \in Ids : row[i].state = "expired" => row'[i].state = "expired"

FilesFollow ==
    /\ disk' \in [Ids -> {"none", "tmp", "whole"}]
    /\ \A i \in Ids : row'[i].state = "ready" /\ ~row'[i].late => disk'[i] = disk[i]
    /\ \A c \in Creators : maker'[c].pc \in Writing =>
          \A i \in maker[c].files : disk'[i] = disk[i]

LEMMA PicturesFollow ==
    ASSUME PicturesInv, MakersFollow, RowsFollow, FilesFollow, drawn' = drawn,
           \A i \in pruner' : i \in Ids /\ row'[i].state = "expired"
    PROVE  PicturesInv'
<1>1. Pictures!AllOrNone' /\ \A m : Pictures!Rows(m)' = Pictures!Rows(m)
  BY SameRowsKeep DEF RowsFollow, PicturesInv, Pictures!PicturesAreWhole
<1>2. PictureTypes'
  BY DEF PicturesInv, PictureTypes, MakersFollow, RowsFollow, FilesFollow
<1>3. MakersOK'
  <2>1. ASSUME NEW c \in Creators
        PROVE  /\ \A i \in maker'[c].files : i \in drawn' /\ row'[i].state = "none"
               /\ maker'[c].pc \in Writing =>
                    drawing' = c /\ {i \in Ids : row'[i].state # "none" /\ row'[i].of = maker'[c].of} = {}
               /\ maker'[c].pc = "write" => \A i \in maker'[c].files : disk'[i] = "whole"
    <3>1. \A i \in maker[c].files : i \in Ids /\ i \in drawn /\ row[i].state = "none"
      BY DEF PicturesInv, MakersOK, PictureTypes
    <3>2. \A i \in maker'[c].files : i \in drawn' /\ row'[i].state = "none"
      BY <3>1 DEF MakersFollow, RowsFollow, SameRows
    <3>3. ASSUME maker'[c].pc \in Writing
          PROVE  drawing' = c /\ {i \in Ids : row'[i].state # "none" /\ row'[i].of = maker'[c].of} = {}
      <4>1. maker'[c] = maker[c] /\ drawing' = drawing
        BY <3>3 DEF MakersFollow
      <4>2. drawing = c /\ Pictures!Rows(maker[c].of) = {}
        BY <3>3, <4>1 DEF PicturesInv, MakersOK
      <4> QED BY <4>1, <4>2 DEF Pictures!Rows, RowsFollow, SameRows
    <3>4. ASSUME maker'[c].pc = "write"
          PROVE  \A i \in maker'[c].files : disk'[i] = "whole"
      <4>1. maker'[c] = maker[c] /\ maker'[c].pc \in Writing
        BY <3>4 DEF MakersFollow, Writing
      <4> QED BY <3>4, <4>1 DEF PicturesInv, MakersOK, FilesFollow
    <3> QED BY <3>2, <3>3, <3>4
  <2>2. ASSUME NEW c \in Creators, NEW e \in Creators, c # e
        PROVE  maker'[c].files \cap maker'[e].files = {}
    BY <2>2 DEF PicturesInv, MakersOK, MakersFollow
  <2> QED BY <2>1, <2>2 DEF MakersOK, Pictures!Rows
<1>4. PictureRowsOK'
  BY DEF PicturesInv, PictureRowsOK, RowsFollow, SameRows
<1>5. Pictures!ReadyHasFile'
  BY DEF PicturesInv, Pictures!PicturesAreWhole, Pictures!ReadyHasFile, RowsFollow, FilesFollow
<1> QED BY <1>1, <1>2, <1>3, <1>4, <1>5 DEF PicturesInv, Pictures!PicturesAreWhole

\* What stays as it is, follows.
LEMMA UnchangedFollows ==
    ASSUME PicturesInv
    PROVE  /\ row' = row => RowsFollow
           /\ maker' = maker /\ drawing' = drawing => MakersFollow
           /\ disk' = disk => FilesFollow
BY DEF PicturesInv, PictureTypes, RowsFollow, SameRows, MakersFollow, FilesFollow

\* An error rolls the transaction back and then discards the files; a crash
\* forgets who was doing what.
LEMMA FailuresKeep ==
    ASSUME PicturesInv, Pictures!AttachmentsAssumption,
           \/ \E c \in Creators : Pictures!Rollback(c) \/ Pictures!Discard(c)
           \/ Pictures!Crash
    PROVE  PicturesInv'
<1>0. /\ row' = row /\ drawn' = drawn /\ (pruner' = pruner \/ pruner' = {})
      /\ maker \in [Creators -> MakerStates] /\ disk \in [Ids -> {"none", "tmp", "whole"}]
  BY DEF Pictures!Rollback, Pictures!Discard, Pictures!Crash, PicturesInv, PictureTypes
<1>1. Pictures!Idle \in MakerStates /\ Pictures!Idle.pc = "idle" /\ Pictures!Idle.files = {}
  BY DEF Pictures!Idle, MakerStates
<1>2. RowsFollow /\ \A i \in pruner' : i \in Ids /\ row'[i].state = "expired"
  BY <1>0, UnchangedFollows DEF PicturesInv, PictureRowsOK
<1>3. CASE Pictures!Crash
  <2>1. maker' = [c \in Creators |-> Pictures!Idle] /\ disk' = disk
    BY <1>3 DEF Pictures!Crash
  <2>2. MakersFollow
    BY <1>1, <2>1 DEF MakersFollow, Writing
  <2> QED BY <1>0, <1>2, <2>1, <2>2, UnchangedFollows, PicturesFollow
<1>4. ASSUME NEW c \in Creators, Pictures!Rollback(c)
      PROVE  PicturesInv'
  <2> DEFINE k == [maker[c] EXCEPT !.pc = "discard"]
  <2>1. /\ maker' = [maker EXCEPT ![c] = k] /\ disk' = disk
        /\ maker[c].pc \in Writing
    BY <1>4 DEF Pictures!Rollback, Writing
  <2>2. k \in MakerStates /\ k.pc = "discard" /\ k.files = maker[c].files
    BY <1>0 DEF MakerStates
  <2> HIDE DEF k
  <2>3. \A e \in Creators \ {c} : maker'[e] = maker[e] /\ maker[e].pc \notin Writing
    BY <1>0, <2>1 DEF PicturesInv, MakersOK
  <2>4. maker' \in [Creators -> MakerStates] /\ maker'[c] = k
    BY <1>0, <2>1, <2>2
  <2>5. MakersFollow
    BY <2>2, <2>3, <2>4 DEF MakersFollow, Writing
  <2> QED BY <1>0, <1>2, <2>1, <2>5, UnchangedFollows, PicturesFollow
<1>5. ASSUME NEW c \in Creators, Pictures!Discard(c)
      PROVE  PicturesInv'
  <2>1. /\ maker' = [maker EXCEPT ![c] = Pictures!Idle] /\ drawing' = drawing
        /\ disk' = [i \in Ids |-> IF i \in maker[c].files THEN "none" ELSE disk[i]]
        /\ maker[c].pc = "discard"
    BY <1>5 DEF Pictures!Discard
  <2>2. /\ \A e \in Creators \ {c} : maker'[e] = maker[e]
        /\ maker' \in [Creators -> MakerStates] /\ maker'[c] = Pictures!Idle
    BY <1>0, <1>1, <2>1
  <2>3. MakersFollow
    BY <1>1, <2>1, <2>2 DEF MakersFollow, Writing
  <2>4. FilesFollow
    <3>1. disk' \in [Ids -> {"none", "tmp", "whole"}]
      BY <1>0, <2>1
    <3>2. \A i \in Ids \ maker[c].files : disk'[i] = disk[i]
      BY <2>1
    <3>3. \A i \in maker[c].files : row'[i].state = "none"
      BY <1>0 DEF PicturesInv, MakersOK
    <3>4. ASSUME NEW e \in Creators, maker'[e].pc \in Writing
          PROVE  \A i \in maker[e].files : disk'[i] = disk[i]
      <4>1. e # c
        BY <1>1, <2>2, <3>4 DEF Writing
      <4>2. maker[e].files \cap maker[c].files = {} /\ maker[e].files \subseteq Ids
        BY <1>0, <4>1 DEF PicturesInv, MakersOK, MakerStates
      <4> QED BY <3>2, <4>2
    <3> QED BY <3>1, <3>2, <3>3, <3>4 DEF FilesFollow
  <2> QED BY <1>0, <1>2, <2>3, <2>4, PicturesFollow
<1> QED BY <1>3, <1>4, <1>5

\* The clock, readers and the maintenance.
LEMMA PruningKeeps ==
    ASSUME PicturesInv, Pictures!AttachmentsAssumption,
           \/ \E i \in Ids : Pictures!TimePasses(i) \/ Pictures!ReadyPayload(i)
                             \/ Pictures!PruneRemoves(i)
           \/ Pictures!ReadBody \/ Pictures!PruneBegins
    PROVE  PicturesInv'
<1>0. /\ maker' = maker /\ drawing' = drawing /\ drawn' = drawn
      /\ row \in [Ids -> PictureRows] /\ disk \in [Ids -> {"none", "tmp", "whole"}]
      /\ \A i \in pruner : i \in Ids /\ row[i].state = "expired"
  BY DEF Pictures!TimePasses, Pictures!ReadyPayload, Pictures!PruneRemoves, Pictures!ReadBody,
         Pictures!PruneBegins, PicturesInv, PictureTypes, PictureRowsOK
<1>1. MakersFollow
  BY <1>0, UnchangedFollows
<1>2. ASSUME NEW i \in Ids, row'[i].state # "ready" \/ row'[i].late, row[i].state # "none",
             disk' = [disk EXCEPT ![i] = "none"]
      PROVE  FilesFollow
  <2>1. \A c \in Creators : i \notin maker[c].files
    BY <1>2 DEF PicturesInv, MakersOK
  <2> QED BY <1>0, <1>2, <2>1 DEF FilesFollow
<1>3. CASE Pictures!ReadBody
  BY <1>0, <1>1, <1>3, UnchangedFollows, PicturesFollow DEF Pictures!ReadBody
<1>4. ASSUME NEW i \in Ids, Pictures!TimePasses(i)
      PROVE  PicturesInv'
  <2> DEFINE k == [row[i] EXCEPT !.late = TRUE]
  <2>1. /\ row' = [row EXCEPT ![i] = k] /\ disk' = disk /\ pruner' = pruner
        /\ row[i].state = "ready"
    BY <1>4 DEF Pictures!TimePasses
  <2>2. /\ k \in PictureRows /\ k.state = row[i].state /\ k.of = row[i].of
        /\ k.body = row[i].body /\ k.late
    BY <1>0 DEF PictureRows
  <2> HIDE DEF k
  <2>3. /\ row' \in [Ids -> PictureRows] /\ row'[i] = k
        /\ \A j \in Ids \ {i} : row'[j] = row[j]
    BY <1>0, <2>1, <2>2
  <2>4. RowsFollow
    BY <2>2, <2>3 DEF RowsFollow, SameRows
  <2>5. \A j \in pruner' : j \in Ids /\ row'[j].state = "expired"
    BY <1>0, <2>1, <2>4 DEF RowsFollow
  <2> QED BY <1>0, <1>1, <2>1, <2>4, <2>5, UnchangedFollows, PicturesFollow
<1>5. ASSUME NEW i \in Ids, Pictures!ReadyPayload(i)
      PROVE  PicturesInv'
  <2>1. row' = row /\ pruner' = pruner /\ row[i].state = "ready"
    BY <1>5 DEF Pictures!ReadyPayload
  <2>2. FilesFollow
    <3>1. CASE row[i].late
      BY <1>2, <1>5, <2>1, <3>1 DEF Pictures!ReadyPayload
    <3>2. CASE ~row[i].late
      BY <1>5, <3>2, UnchangedFollows DEF Pictures!ReadyPayload
    <3> QED BY <3>1, <3>2
  <2> QED BY <1>0, <1>1, <2>1, <2>2, UnchangedFollows, PicturesFollow
<1>6. ASSUME NEW i \in Ids, Pictures!PruneRemoves(i)
      PROVE  PicturesInv'
  <2>1. row' = row /\ pruner' = pruner \ {i} /\ i \in pruner
        /\ disk' = [disk EXCEPT ![i] = "none"]
    BY <1>6 DEF Pictures!PruneRemoves
  <2>2. row[i].state = "expired"
    BY <1>0, <2>1
  <2>3. FilesFollow
    BY <1>2, <2>1, <2>2
  <2> QED BY <1>0, <1>1, <2>1, <2>3, UnchangedFollows, PicturesFollow
<1>7. CASE Pictures!PruneBegins
  <2>1. /\ drawing = Unset /\ pruner' = Pictures!Overdue
        /\ row' = [i \in Ids |-> IF i \in Pictures!Overdue
                                 THEN [row[i] EXCEPT !.state = "expired"] ELSE row[i]]
        /\ disk' = [i \in Ids |-> IF i \in Pictures!Unreferenced THEN "none" ELSE disk[i]]
    BY <1>7 DEF Pictures!PruneBegins
  <2>2. \A c \in Creators : maker[c].pc \notin Writing
    BY <2>1 DEF PicturesInv, MakersOK, Pictures!AttachmentsAssumption
  <2>3. ASSUME NEW i \in Ids
        PROVE  /\ row'[i] \in PictureRows
               /\ row'[i].of = row[i].of /\ row'[i].body = row[i].body
               /\ row'[i].late = row[i].late
               /\ i \in Pictures!Overdue =>
                     row'[i].state = "expired" /\ row[i].state = "ready" /\ row[i].late
               /\ i \notin Pictures!Overdue => row'[i] = row[i]
    BY <1>0, <2>1 DEF PictureRows, Pictures!Overdue
  <2>4. row' \in [Ids -> PictureRows]
    BY <2>1, <2>3
  <2>5. RowsFollow
    BY <2>3, <2>4 DEF RowsFollow, SameRows
  <2>6. FilesFollow
    <3>1. disk' \in [Ids -> {"none", "tmp", "whole"}]
      BY <1>0, <2>1
    <3>2. ASSUME NEW i \in Ids, row'[i].state = "ready"
          PROVE  disk'[i] = disk[i]
      <4>1. row[i].state = "ready"
        BY <2>3, <3>2
      <4> QED BY <2>1, <4>1 DEF Pictures!Unreferenced
    <3> QED BY <1>0, <2>2, <3>1, <3>2 DEF FilesFollow
  <2>7. \A i \in pruner' : i \in Ids /\ row'[i].state = "expired"
    BY <2>1, <2>3 DEF Pictures!Overdue
  <2> QED BY <1>0, <1>1, <2>5, <2>6, <2>7, PicturesFollow
<1> QED BY <1>3, <1>4, <1>5, <1>6, <1>7

LEMMA PicturesInvariant ==
    ASSUME Pictures!AttachmentsAssumption
    PROVE  Pictures!Spec => []PicturesInv
<1>1. Pictures!Init => PicturesInv
  BY PicturesInit
<1>2. ASSUME PicturesInv, [Pictures!Next]_(Pictures!vars) PROVE PicturesInv'
  <2>1. CASE UNCHANGED Pictures!vars
    <3>1. /\ row' = row /\ maker' = maker /\ drawing' = drawing /\ disk' = disk
          /\ drawn' = drawn /\ pruner' = pruner
      BY <2>1 DEF Pictures!vars
    <3>2. \A i \in pruner' : i \in Ids /\ row'[i].state = "expired"
      BY <1>2, <3>1 DEF PicturesInv, PictureRowsOK
    <3> QED BY <1>2, <3>1, <3>2, UnchangedFollows, PicturesFollow
  <2> QED
    BY <1>2, <2>1, MakingKeeps, CommitKeeps, FailuresKeep, PruningKeeps DEF Pictures!Next
<1> QED BY <1>1, <1>2, PTL DEF Pictures!Spec

\* A picture that is offered and not past its time is there in full, and a
\* message has all the pictures of one call or none: while creators fail, die
\* or clean up, and whenever prune_expired runs (timeline_attachments.py).
THEOREM PicturesStayWhole ==
    ASSUME Pictures!AttachmentsAssumption
    PROVE  Pictures!Spec => []Pictures!PicturesAreWhole
<1>1. PicturesInv => Pictures!PicturesAreWhole
  BY DEF PicturesInv
<1> QED BY <1>1, PicturesInvariant, PTL

\* Who has the transaction, what is read and what is removed are in their domains.
PicturesAreTyped ==
    /\ drawing \in Creators \cup {Unset} /\ reader \in Ids \cup {Unset}
    /\ pruner \in SUBSET Ids /\ crashes \in Nat

LEMMA PictureTypesKeep ==
    ASSUME PicturesAreTyped, [Pictures!Next]_(Pictures!vars)
    PROVE  PicturesAreTyped'
<1>1. drawing' \in Creators \cup {Unset}
  BY DEF PicturesAreTyped, Pictures!Next, Pictures!vars, Pictures!Begin, Pictures!WriteFile,
       Pictures!RenameFile, Pictures!Commit, Pictures!Rollback, Pictures!Discard,
       Pictures!TimePasses, Pictures!ReadyPayload, Pictures!PruneRemoves, Pictures!ReadBody,
       Pictures!PruneBegins, Pictures!Crash
<1>2. reader' \in Ids \cup {Unset}
  BY DEF PicturesAreTyped, Pictures!Next, Pictures!vars, Pictures!Begin, Pictures!WriteFile,
       Pictures!RenameFile, Pictures!Commit, Pictures!Rollback, Pictures!Discard,
       Pictures!TimePasses, Pictures!ReadyPayload, Pictures!PruneRemoves, Pictures!ReadBody,
       Pictures!PruneBegins, Pictures!Crash
<1>3. pruner' \in SUBSET Ids
  BY DEF PicturesAreTyped, Pictures!Next, Pictures!vars, Pictures!Begin, Pictures!WriteFile,
       Pictures!RenameFile, Pictures!Commit, Pictures!Rollback, Pictures!Discard,
       Pictures!TimePasses, Pictures!ReadyPayload, Pictures!PruneRemoves, Pictures!ReadBody,
       Pictures!PruneBegins, Pictures!Crash, Pictures!Overdue
<1>4. UNCHANGED crashes \/ crashes' = crashes + 1
  BY DEF Pictures!Next, Pictures!vars, Pictures!Begin, Pictures!WriteFile,
       Pictures!RenameFile, Pictures!Commit, Pictures!Rollback, Pictures!Discard,
       Pictures!TimePasses, Pictures!ReadyPayload, Pictures!PruneRemoves, Pictures!ReadBody,
       Pictures!PruneBegins, Pictures!Crash
<1>5. crashes' \in Nat
  BY <1>4 DEF PicturesAreTyped
<1> QED BY <1>1, <1>2, <1>3, <1>5 DEF PicturesAreTyped

\* The rows of the pictures keep to their domains.
LEMMA PictureTypesHold ==
    ASSUME Pictures!AttachmentsAssumption
    PROVE  Pictures!Spec => []Pictures!TypeOK
<1>1. Pictures!Init => PicturesAreTyped
  BY DEF Pictures!Init, PicturesAreTyped
<1>2. PicturesInv /\ PicturesAreTyped => Pictures!TypeOK
  BY DEF PicturesInv, PictureTypes, PictureRows, MakerStates, PicturesAreTyped, Pictures!TypeOK
<1> QED BY <1>1, <1>2, PictureTypesKeep, PicturesInvariant, PTL DEF Pictures!Spec

(***************************************************************************)
(* The tool calls of the plugin.                                           *)
(***************************************************************************)

\* The variables of ToolProxy.
binding == v1
webs == v2
request == v4
reply == v5
ops == v6
epoch == v8

USE DEF binding, webs, call, request, reply, ops, task, epoch

CallRows ==
    [pc : {"idle", "asking", "built", "tasked", "ready", "sent", "failing", "refused",
           "returned", "failed"},
     session : Proxy!Sessions \cup {Unset}, kind : ToolKinds \cup {"read"},
     identity : Identities \cup {Unset}, asked : SUBSET Identities, tries : Nat, epoch : Nat]
OpRows ==
    [key : {<<>>} \cup {<<c>> : c \in Calls}, try : Nat,
     status : {"running", "succeeded", "failed", "requires_user_action"}]

ProxyTypes ==
    /\ binding \in [Proxy!Sessions -> Identities \cup {Unset, ConflictMark}]
    /\ call \in [Calls -> CallRows]
    /\ request \in [Calls -> SUBSET Nat]
    /\ ops \in [Calls -> Seq(OpRows)]
    /\ epoch \in [Proxy!Sessions -> Nat]

\* A call that has not begun has sent nothing; one that has belongs to a session,
\* and has an identity only when it has been built.
CallIsRight(k) ==
    /\ k.pc # "idle" => k.session \in Proxy!Sessions /\ k.epoch <= epoch[k.session]
    /\ k.pc \in {"idle", "asking"} => k.identity = Unset
    /\ k.pc = "asking" => k.session \in Webs

\* The operations of a prepare have the key of the call, so there is one.
OpsAreRight(c) ==
    /\ call[c].pc = "idle" => ops[c] = <<>> /\ request[c] = {}
    /\ call[c].kind = "prepare" =>
          Len(ops[c]) <= 1 /\ \A n \in 1..Len(ops[c]) : ops[c][n].key = <<c>>

\* A workspace session is bound to its owner or to nobody.
WebsAreOwned == \A s \in Webs : binding[s] \in {Unset, Owner[s]}

\* The inductive invariant of the tool calls.
ProxyInv ==
    /\ ProxyTypes
    /\ \A c \in Calls : CallIsRight(call[c]) /\ OpsAreRight(c)
    /\ WebsAreOwned /\ Proxy!WebUsesOwner /\ Proxy!OneSpeaker

LEMMA ProxyInit ==
    ASSUME Proxy!Init, Proxy!ProxyAssumption PROVE ProxyInv
<1>1. ProxyTypes
  BY DEF Proxy!Init, ProxyTypes, CallRows, Proxy!NoCall
<1>2. \A c \in Calls : CallIsRight(call[c]) /\ OpsAreRight(c)
  BY DEF Proxy!Init, CallIsRight, OpsAreRight, Proxy!NoCall
<1>3. WebsAreOwned /\ Proxy!WebUsesOwner /\ Proxy!OneSpeaker
  BY DEF Proxy!Init, WebsAreOwned, Proxy!WebUsesOwner, Proxy!OneSpeaker, Proxy!NoCall,
         Proxy!Sessions
<1> QED BY <1>1, <1>2, <1>3 DEF ProxyInv

\* The call c goes on as k in the session, with the identity and for the purpose
\* it has.
GoesOn(c, k) ==
    /\ call' = [call EXCEPT ![c] = k] /\ k \in CallRows
    /\ call[c].pc # "idle" /\ k.pc # "idle"
    /\ k.pc = "asking" => call[c].pc = "asking"
    /\ k.session = call[c].session /\ k.kind = call[c].kind
    /\ k.identity = call[c].identity /\ k.epoch = call[c].epoch

LEMMA GoingOnKeeps ==
    ASSUME ProxyInv, NEW c \in Calls, NEW k, GoesOn(c, k), UNCHANGED <<binding, ops, epoch>>,
           request' \in [Calls -> SUBSET Nat],
           \A e \in Calls \ {c} : request'[e] = request[e]
    PROVE  ProxyInv'
<1>1. /\ call' \in [Calls -> CallRows] /\ call'[c] = k
      /\ \A e \in Calls \ {c} : call'[e] = call[e]
  BY DEF GoesOn, ProxyInv, ProxyTypes
<1>2. ProxyTypes'
  BY <1>1 DEF ProxyInv, ProxyTypes
<1>3. ASSUME NEW e \in Calls
      PROVE  CallIsRight(call[e])' /\ OpsAreRight(e)'
  <2>1. CASE e # c
    BY <1>1, <2>1 DEF ProxyInv, CallIsRight, OpsAreRight
  <2>2. CASE e = c
    BY <1>1, <2>2 DEF ProxyInv, CallIsRight, OpsAreRight, GoesOn
  <2> QED BY <2>1, <2>2
<1>4. WebsAreOwned'
  BY DEF ProxyInv, WebsAreOwned
<1>5. Proxy!WebUsesOwner'
  BY <1>1 DEF ProxyInv, Proxy!WebUsesOwner, GoesOn
<1>6. Proxy!OneSpeaker'
  BY <1>1 DEF ProxyInv, Proxy!OneSpeaker, GoesOn
<1> QED BY <1>2, <1>3, <1>4, <1>5, <1>6 DEF ProxyInv

\* Steps of a call that only move it on.
CallMoves(c, pc) == call' = [call EXCEPT ![c].pc = pc]

LEMMA MovesKeep ==
    ASSUME ProxyInv, NEW c \in Calls,
           NEW pc \in {"built", "tasked", "ready", "sent", "failing", "refused",
                       "returned", "failed"},
           call[c].pc # "idle", CallMoves(c, pc), UNCHANGED <<binding, ops, epoch>>,
           request' \in [Calls -> SUBSET Nat],
           \A e \in Calls \ {c} : request'[e] = request[e]
    PROVE  ProxyInv'
<1> DEFINE k == [call[c] EXCEPT !.pc = pc]
<1>1. call[c] \in CallRows
  BY DEF ProxyInv, ProxyTypes
<1>2. /\ k \in CallRows /\ k.pc = pc /\ k.session = call[c].session /\ k.kind = call[c].kind
      /\ k.identity = call[c].identity /\ k.epoch = call[c].epoch
  BY <1>1 DEF CallRows
<1>3. call' = [call EXCEPT ![c] = k]
  BY DEF CallMoves
<1> HIDE DEF k
<1>4. GoesOn(c, k)
  BY <1>2, <1>3 DEF GoesOn
<1> QED BY <1>4, GoingOnKeeps

\* Everything a call does after it has been built, but for the server's part.
LEMMA CallSteps ==
    ASSUME ProxyInv, NEW c \in Calls,
           \/ \E i \in Identities : Proxy!AskFails(c, i)
           \/ Proxy!Unprovisioned(c) \/ Proxy!Refuse(c)
           \/ Proxy!ResolveTaskId(c) \/ Proxy!TaskUnavailable(c) \/ Proxy!RenewCoordinatorLease(c)
           \/ Proxy!Send(c)
           \/ Proxy!Answer(c) \/ Proxy!AnswerUnreferenced(c)
           \/ Proxy!Retry(c) \/ Proxy!GiveUp(c) \/ Proxy!FinishHostTask(c)
    PROVE  ProxyInv'
<1>0. /\ call[c] \in CallRows /\ request \in [Calls -> SUBSET Nat]
      /\ UNCHANGED <<binding, ops, epoch>> /\ call[c].pc # "idle"
  BY DEF ProxyInv, ProxyTypes, Proxy!AskFails, Proxy!Unprovisioned, Proxy!Refuse,
         Proxy!ResolveTaskId, Proxy!TaskUnavailable, Proxy!RenewCoordinatorLease, Proxy!Send,
         Proxy!Answer, Proxy!AnswerUnreferenced, Proxy!Retry, Proxy!GiveUp, Proxy!FinishHostTask
<1>1. CASE \E i \in Identities : Proxy!AskFails(c, i)
  <2>1. PICK i \in Identities : Proxy!AskFails(c, i)
    BY <1>1
  <2> DEFINE k == [call[c] EXCEPT !.asked = @ \cup {i}]
  <2>2. /\ k \in CallRows /\ k.pc = call[c].pc /\ k.session = call[c].session
        /\ k.kind = call[c].kind /\ k.identity = call[c].identity /\ k.epoch = call[c].epoch
    BY <1>0 DEF CallRows
  <2>3. call' = [call EXCEPT ![c] = k] /\ request' = request
    BY <2>1 DEF Proxy!AskFails
  <2> HIDE DEF k
  <2>4. GoesOn(c, k)
    BY <1>0, <2>2, <2>3 DEF GoesOn
  <2> QED BY <1>0, <2>3, <2>4, GoingOnKeeps
<1>2. CASE Proxy!Send(c)
  <2> DEFINE n == call[c].tries + 1
             k == [[call[c] EXCEPT !.pc = "sent"] EXCEPT !.tries = n]
  <2>1. n \in Nat
    BY <1>0 DEF CallRows
  <2>2. /\ k \in CallRows /\ k.pc = "sent" /\ k.session = call[c].session
        /\ k.kind = call[c].kind /\ k.identity = call[c].identity /\ k.epoch = call[c].epoch
    <3> HIDE DEF n
    <3> QED BY <1>0, <2>1 DEF CallRows
  <2>3. call' = [call EXCEPT ![c] = k]
    BY <1>2 DEF Proxy!Send
  <2>4. /\ request' = [request EXCEPT ![c] = @ \cup {call[c].tries + 1}]
        /\ call[c].tries + 1 \in Nat
    BY <1>0, <1>2 DEF Proxy!Send, CallRows
  <2> HIDE DEF k
  <2>5. GoesOn(c, k)
    BY <1>0, <2>2, <2>3 DEF GoesOn
  <2>6. request' \in [Calls -> SUBSET Nat] /\ \A e \in Calls \ {c} : request'[e] = request[e]
    BY <1>0, <2>4
  <2> QED BY <1>0, <2>5, <2>6, GoingOnKeeps
<1>3. CASE Proxy!AnswerUnreferenced(c)
  <2>1. request' \in [Calls -> SUBSET Nat] /\ \A e \in Calls \ {c} : request'[e] = request[e]
    BY <1>0, <1>3 DEF Proxy!AnswerUnreferenced
  <2>2. CallMoves(c, "failing")
    BY <1>3 DEF Proxy!AnswerUnreferenced, CallMoves
  <2> QED BY <1>0, <2>1, <2>2, MovesKeep
<1>4. CASE \/ Proxy!Unprovisioned(c) \/ Proxy!Refuse(c)
           \/ Proxy!ResolveTaskId(c) \/ Proxy!TaskUnavailable(c)
           \/ Proxy!RenewCoordinatorLease(c)
           \/ Proxy!Answer(c) \/ Proxy!Retry(c) \/ Proxy!GiveUp(c) \/ Proxy!FinishHostTask(c)
  <2>1. request' = request
    BY <1>4 DEF Proxy!Unprovisioned, Proxy!Refuse, Proxy!ResolveTaskId, Proxy!TaskUnavailable,
                Proxy!RenewCoordinatorLease, Proxy!Answer, Proxy!Retry, Proxy!GiveUp,
                Proxy!FinishHostTask
  <2>2. \E pc \in {"built", "tasked", "ready", "sent", "failing", "refused",
                   "returned", "failed"} : CallMoves(c, pc)
    BY <1>4 DEF CallMoves, Proxy!Unprovisioned, Proxy!Refuse, Proxy!ResolveTaskId,
                Proxy!TaskUnavailable, Proxy!RenewCoordinatorLease, Proxy!Answer, Proxy!Retry,
                Proxy!GiveUp, Proxy!FinishHostTask
  <2> QED BY <1>0, <2>1, <2>2, MovesKeep
<1> QED BY <1>1, <1>2, <1>3, <1>4

\* An identity or a conflict stays with the session, and a workspace session goes
\* to its owner only.
BindingFollows ==
    /\ binding' \in [Proxy!Sessions -> Identities \cup {Unset, ConflictMark}]
    /\ \A s \in Proxy!Sessions : binding[s] # Unset => binding'[s] \in {binding[s], ConflictMark}
    /\ WebsAreOwned'

\* Binding s to i, where a workspace session meets only its owner.
LEMMA BoundFollows ==
    ASSUME ProxyInv, Proxy!ProxyAssumption, NEW s \in Proxy!Sessions, NEW i \in Identities,
           s \in Webs => i = Owner[s], binding' = Proxy!Bound(s, i)
    PROVE  BindingFollows /\ binding'[s] \in {i, ConflictMark}
           /\ (Proxy!MayBind(s, i) => binding'[s] = i)
<1> DEFINE b == IF Proxy!MayBind(s, i) THEN i ELSE ConflictMark
<1>1. binding' = [binding EXCEPT ![s] = b] /\ binding \in [Proxy!Sessions -> Identities \cup {Unset, ConflictMark}]
  BY DEF Proxy!Bound, ProxyInv, ProxyTypes
<1>2. b \in {i, ConflictMark} /\ (Proxy!MayBind(s, i) => b = i)
      /\ (binding[s] # Unset => b \in {binding[s], ConflictMark})
      /\ (s \in Webs => b = Owner[s])
  <2>1. s \in Webs => binding[s] \in {Unset, i}
    BY DEF ProxyInv, WebsAreOwned
  <2> QED BY <2>1 DEF Proxy!MayBind
<1> HIDE DEF b
<1>3. /\ binding' \in [Proxy!Sessions -> Identities \cup {Unset, ConflictMark}] /\ binding'[s] = b
      /\ \A t \in Proxy!Sessions : t # s => binding'[t] = binding[t]
  BY <1>1, <1>2
<1>4. WebsAreOwned'
  BY <1>2, <1>3 DEF ProxyInv, WebsAreOwned, Proxy!Sessions
<1> QED BY <1>2, <1>3, <1>4 DEF BindingFollows

\* The call c takes its identity, or none yet, and the others keep theirs.
Speaks(c, k) ==
    /\ call' = [call EXCEPT ![c] = k] /\ k \in CallRows
    /\ k.pc # "idle" /\ k.session \in Proxy!Sessions /\ k.epoch <= epoch[k.session]
    /\ k.pc = "asking" => k.identity = Unset /\ k.session \in Webs
    /\ k.identity # Unset => binding'[k.session] \in {k.identity, ConflictMark}
    /\ k.identity # Unset /\ k.session \in Webs => k.identity = Owner[k.session]
    /\ call[c].pc = "idle" \/ k.kind = call[c].kind

LEMMA SpeakingKeeps ==
    ASSUME ProxyInv, Proxy!ProxyAssumption, NEW c \in Calls, NEW k, Speaks(c, k),
           BindingFollows, UNCHANGED <<request, ops, epoch>>
    PROVE  ProxyInv'
<1>1. /\ call' \in [Calls -> CallRows] /\ call'[c] = k
      /\ \A e \in Calls \ {c} : call'[e] = call[e]
  BY DEF Speaks, ProxyInv, ProxyTypes
<1>2. ProxyTypes'
  BY <1>1 DEF ProxyInv, ProxyTypes, BindingFollows
<1>3. ASSUME NEW e \in Calls
      PROVE  CallIsRight(call[e])' /\ OpsAreRight(e)'
  <2>1. CASE e # c
    BY <1>1, <2>1 DEF ProxyInv, CallIsRight, OpsAreRight
  <2>2. CASE e = c
    <3>1. CallIsRight(call[e])'
      BY <1>1, <2>2 DEF CallIsRight, Speaks
    <3>2. CASE call[c].pc = "idle"
      BY <1>1, <2>2, <3>1, <3>2 DEF ProxyInv, OpsAreRight, Speaks
    <3>3. CASE k.kind = call[c].kind
      BY <1>1, <2>2, <3>1, <3>3 DEF ProxyInv, OpsAreRight, Speaks
    <3> QED BY <3>2, <3>3 DEF Speaks
  <2> QED BY <2>1, <2>2
<1>4. Proxy!WebUsesOwner'
  BY <1>1 DEF ProxyInv, Proxy!WebUsesOwner, Speaks
<1>5. Proxy!OneSpeaker'
  <2> SUFFICES ASSUME NEW e \in Calls, call'[e].identity # Unset,
                      call'[e].epoch = epoch[call'[e].session]
               PROVE  binding'[call'[e].session] \in {call'[e].identity, ConflictMark}
    BY DEF Proxy!OneSpeaker
  <2>1. CASE e = c
    BY <1>1, <2>1 DEF Speaks
  <2>2. CASE e # c
    <3>1. call'[e] = call[e] /\ call[e].pc # "idle" /\ call[e] \in CallRows
      BY <1>1, <2>2 DEF ProxyInv, ProxyTypes, CallIsRight
    <3>2. call[e].session \in Proxy!Sessions /\ call[e].identity \in Identities
      BY <3>1 DEF ProxyInv, CallIsRight, CallRows
    <3>3. binding[call[e].session] \in {call[e].identity, ConflictMark}
      BY <3>1 DEF ProxyInv, Proxy!OneSpeaker
    <3> QED BY <3>1, <3>2, <3>3 DEF BindingFollows, Proxy!ProxyAssumption
  <2> QED BY <2>1, <2>2
<1> QED BY <1>2, <1>3, <1>4, <1>5 DEF ProxyInv, BindingFollows

LEMMA BindingStays ==
    ASSUME ProxyInv, binding' = binding PROVE BindingFollows
BY DEF ProxyInv, ProxyTypes, WebsAreOwned, BindingFollows

\* resolveToolContext.
LEMMA ResolveKeeps ==
    ASSUME ProxyInv, Proxy!ProxyAssumption, NEW c \in Calls, NEW s \in Proxy!Sessions,
           NEW sender \in Identities \cup {Unset}, NEW kind \in ToolKinds,
           Proxy!Resolve(c, s, sender, kind)
    PROVE  ProxyInv'
<1> DEFINE identity == IF sender # Unset /\ Proxy!MayBind(s, sender) THEN sender
                       ELSE IF sender # Unset THEN Unset ELSE Proxy!Pinned(s)
           pc == IF identity = Unset THEN "asking" ELSE "built"
           k == [[[[[call[c] EXCEPT !.pc = pc] EXCEPT !.session = s] EXCEPT !.kind = kind]
                  EXCEPT !.identity = identity] EXCEPT !.epoch = epoch[s]]
<1>1. call[c] \in CallRows /\ epoch[s] \in Nat /\ call[c].pc = "idle"
      /\ binding[s] \in Identities \cup {Unset, ConflictMark}
  BY DEF ProxyInv, ProxyTypes, Proxy!Resolve
<1>2. /\ binding' = IF sender # Unset THEN Proxy!Bound(s, sender) ELSE binding
      /\ identity = Unset => s \in Webs
      /\ s \in Webs => sender = Unset
      /\ UNCHANGED <<request, ops, epoch>>
  BY DEF Proxy!Resolve
<1>3. call' = [call EXCEPT ![c] = k]
  BY DEF Proxy!Resolve
<1>4. identity \in Identities \cup {Unset} /\ pc \in {"asking", "built"}
  BY <1>1 DEF Proxy!Pinned
<1>5. BindingFollows /\ (sender # Unset =>
         binding'[s] \in {sender, ConflictMark} /\ (Proxy!MayBind(s, sender) => binding'[s] = sender))
  <2>1. CASE sender = Unset
    BY <1>2, <2>1, BindingStays
  <2>2. CASE sender # Unset
    BY <1>2, <2>2, BoundFollows
  <2> QED BY <2>1, <2>2
<1>6. /\ identity # Unset => binding'[s] \in {identity, ConflictMark}
      /\ identity # Unset /\ s \in Webs => identity = Owner[s]
  <2>1. CASE sender # Unset
    BY <1>2, <1>5, <2>1
  <2>2. CASE sender = Unset
    BY <1>2, <2>2 DEF Proxy!Pinned, ProxyInv, WebsAreOwned
  <2> QED BY <2>1, <2>2
<1>7. pc = "asking" <=> identity = Unset
  OBVIOUS
<1> HIDE DEF identity, pc
<1>8. /\ k \in CallRows /\ k.pc = pc /\ k.session = s /\ k.identity = identity
      /\ k.epoch = epoch[s]
  BY <1>1, <1>4 DEF CallRows
<1> HIDE DEF k
<1>9. Speaks(c, k)
  BY <1>1, <1>2, <1>3, <1>4, <1>6, <1>7, <1>8 DEF Speaks
<1> QED BY <1>2, <1>5, <1>9, SpeakingKeeps

\* resolveWorkspaceSession, restoreSessionBinding.
LEMMA AskKeeps ==
    ASSUME ProxyInv, Proxy!ProxyAssumption, NEW c \in Calls, NEW i \in Identities,
           Proxy!AskIdentity(c, i)
    PROVE  ProxyInv'
<1> DEFINE s == call[c].session
<1>1. call[c] \in CallRows /\ call[c].pc = "asking"
  BY DEF ProxyInv, ProxyTypes, Proxy!AskIdentity
<1>2. s \in Proxy!Sessions /\ s \in Webs /\ call[c].identity = Unset
      /\ call[c].epoch <= epoch[s]
  BY <1>1 DEF ProxyInv, CallIsRight
<1>3. epoch[s] \in Nat /\ UNCHANGED <<request, ops, epoch>>
  BY <1>2 DEF ProxyInv, ProxyTypes, Proxy!AskIdentity
<1>4. CASE Owner[s] = i /\ Proxy!MayBind(s, i)
  <2> DEFINE k == [[[call[c] EXCEPT !.pc = "built"] EXCEPT !.identity = i] EXCEPT !.epoch = epoch[s]]
  <2>1. call' = [call EXCEPT ![c] = k] /\ binding' = Proxy!Bound(s, i)
    BY <1>4 DEF Proxy!AskIdentity, Proxy!OwnsSession
  <2>2. /\ k \in CallRows /\ k.pc = "built" /\ k.session = s /\ k.identity = i
        /\ k.epoch = epoch[s] /\ k.kind = call[c].kind
    BY <1>1, <1>3 DEF CallRows
  <2>3. BindingFollows /\ binding'[s] = i
    BY <1>2, <1>4, <2>1, BoundFollows
  <2> HIDE DEF k, s
  <2>4. Speaks(c, k)
    BY <1>2, <1>3, <1>4, <2>1, <2>2, <2>3 DEF Speaks
  <2> QED BY <1>3, <2>3, <2>4, SpeakingKeeps
<1>5. CASE ~(Owner[s] = i /\ Proxy!MayBind(s, i))
  <2> DEFINE k == [call[c] EXCEPT !.asked = call[c].asked \cup {i}]
  <2>1. call' = [call EXCEPT ![c] = k]
    BY <1>5 DEF Proxy!AskIdentity, Proxy!OwnsSession
  <2>2. /\ k \in CallRows /\ k.pc = "asking" /\ k.session = s /\ k.identity = Unset
        /\ k.epoch = call[c].epoch /\ k.kind = call[c].kind
    BY <1>1, <1>2 DEF CallRows
  <2>3. BindingFollows
    <3>1. CASE Owner[s] = i
      <4>1. binding' = Proxy!Bound(s, i)
        BY <3>1 DEF Proxy!AskIdentity, Proxy!OwnsSession
      <4> QED BY <1>2, <3>1, <4>1, BoundFollows
    <3>2. CASE Owner[s] # i
      BY <3>2, BindingStays DEF Proxy!AskIdentity, Proxy!OwnsSession
    <3> QED BY <3>1, <3>2
  <2> HIDE DEF k, s
  <2>4. Speaks(c, k)
    BY <1>2, <1>3, <2>1, <2>2 DEF Speaks
  <2> QED BY <1>3, <2>3, <2>4, SpeakingKeeps
<1> QED BY <1>4, <1>5

\* bindSession, a turn with the wrong account, and the end of a session.
LEMMA SessionsKeep ==
    ASSUME ProxyInv, Proxy!ProxyAssumption, NEW s \in Proxy!Sessions,
           \/ \E i \in Identities : Proxy!BindSession(s, i)
           \/ Proxy!PinnedMismatch(s) \/ Proxy!RemoveSession(s)
    PROVE  ProxyInv'
<1>1. UNCHANGED <<call, request, ops>>
  BY DEF Proxy!BindSession, Proxy!PinnedMismatch, Proxy!RemoveSession
<1>2. ASSUME ProxyTypes', WebsAreOwned',
             \A c \in Calls : CallIsRight(call[c])', Proxy!OneSpeaker'
      PROVE  ProxyInv'
  <2>1. (\A c \in Calls : OpsAreRight(c))' /\ Proxy!WebUsesOwner'
    BY <1>1 DEF ProxyInv, OpsAreRight, Proxy!WebUsesOwner
  <2> QED BY <1>2, <2>1 DEF ProxyInv
<1>3. ASSUME BindingFollows, epoch' = epoch
      PROVE  ProxyInv'
  <2>1. ProxyTypes' /\ WebsAreOwned'
    BY <1>1, <1>3 DEF ProxyInv, ProxyTypes, BindingFollows
  <2>2. \A c \in Calls : CallIsRight(call[c])'
    BY <1>1, <1>3 DEF ProxyInv, CallIsRight
  <2>3. Proxy!OneSpeaker'
    <3> SUFFICES ASSUME NEW e \in Calls, call[e].identity # Unset,
                        call[e].epoch = epoch[call[e].session]
                 PROVE  binding'[call[e].session] \in {call[e].identity, ConflictMark}
      BY <1>1, <1>3 DEF Proxy!OneSpeaker
    <3>1. call[e].pc # "idle" /\ call[e] \in CallRows
      BY DEF ProxyInv, ProxyTypes, CallIsRight
    <3>2. call[e].session \in Proxy!Sessions /\ call[e].identity \in Identities
      BY <3>1 DEF ProxyInv, CallIsRight, CallRows
    <3>3. binding[call[e].session] \in {call[e].identity, ConflictMark}
      BY DEF ProxyInv, Proxy!OneSpeaker
    <3> QED BY <1>3, <3>2, <3>3 DEF BindingFollows, Proxy!ProxyAssumption
  <2> QED BY <1>2, <2>1, <2>2, <2>3
<1>4. CASE \E i \in Identities : Proxy!BindSession(s, i)
  <2>1. PICK i \in Identities : Proxy!BindSession(s, i)
    BY <1>4
  <2>2. s \notin Webs /\ binding' = Proxy!Bound(s, i) /\ epoch' = epoch
    BY <2>1 DEF Proxy!BindSession, Proxy!ProxyAssumption
  <2>3. BindingFollows
    BY <2>2, BoundFollows
  <2> QED BY <1>3, <2>2, <2>3
<1>5. CASE Proxy!PinnedMismatch(s)
  <2>1. s \notin Webs /\ binding' = [binding EXCEPT ![s] = ConflictMark] /\ epoch' = epoch
    BY <1>5 DEF Proxy!PinnedMismatch, Proxy!ProxyAssumption
  <2>2. BindingFollows
    BY <2>1 DEF BindingFollows, ProxyInv, ProxyTypes, WebsAreOwned, Proxy!Sessions
  <2> QED BY <1>3, <2>1, <2>2
<1>6. CASE Proxy!RemoveSession(s)
  <2>1. binding' = [binding EXCEPT ![s] = Unset] /\ epoch' = [epoch EXCEPT ![s] = @ + 1]
    BY <1>6 DEF Proxy!RemoveSession
  <2>2. /\ binding \in [Proxy!Sessions -> Identities \cup {Unset, ConflictMark}]
        /\ epoch \in [Proxy!Sessions -> Nat]
    BY DEF ProxyInv, ProxyTypes
  <2>3. /\ binding'[s] = Unset /\ epoch'[s] = epoch[s] + 1
        /\ \A t \in Proxy!Sessions : t # s => binding'[t] = binding[t] /\ epoch'[t] = epoch[t]
        /\ binding' \in [Proxy!Sessions -> Identities \cup {Unset, ConflictMark}]
        /\ epoch' \in [Proxy!Sessions -> Nat]
    BY <2>1, <2>2
  <2>4. ProxyTypes' /\ WebsAreOwned'
    BY <1>1, <2>3 DEF ProxyInv, ProxyTypes, WebsAreOwned, Proxy!Sessions
  <2>5. ASSUME NEW c \in Calls, call[c].pc # "idle"
        PROVE  /\ call[c].session \in Proxy!Sessions /\ call[c].epoch <= epoch[call[c].session]
               /\ call[c].epoch \in Nat /\ epoch[call[c].session] \in Nat
    BY <2>2, <2>5 DEF ProxyInv, ProxyTypes, CallIsRight, CallRows
  <2>6. \A c \in Calls : CallIsRight(call[c])'
    <3> SUFFICES ASSUME NEW c \in Calls PROVE CallIsRight(call[c])'
      OBVIOUS
    <3>1. CallIsRight(call[c])
      BY DEF ProxyInv
    <3>2. call[c].pc # "idle" => call[c].epoch <= epoch'[call[c].session]
      BY <2>3, <2>5
    <3> QED BY <1>1, <3>1, <3>2 DEF CallIsRight
  <2>7. Proxy!OneSpeaker'
    <3> SUFFICES ASSUME NEW c \in Calls, call[c].identity # Unset,
                        call[c].epoch = epoch'[call[c].session]
                 PROVE  binding'[call[c].session] \in {call[c].identity, ConflictMark}
      BY <1>1 DEF Proxy!OneSpeaker
    <3>1. call[c].pc # "idle"
      BY DEF ProxyInv, CallIsRight
    <3>2. call[c].session # s
      BY <2>3, <2>5, <3>1
    <3>3. /\ epoch'[call[c].session] = epoch[call[c].session]
          /\ binding'[call[c].session] = binding[call[c].session]
      BY <2>3, <2>5, <3>1, <3>2
    <3> QED BY <3>3 DEF ProxyInv, Proxy!OneSpeaker
  <2> QED BY <1>2, <2>4, <2>6, <2>7
<1> QED BY <1>4, <1>5, <1>6

\* The server's part: a request arrives or is lost, an operation ends.
LEMMA ServerKeeps ==
    ASSUME ProxyInv, Proxy!ProxyAssumption, NEW c \in Calls,
           \/ \E try \in 1..MaxAttempts : Proxy!Accept(c, try) \/ Proxy!Lose(c, try)
           \/ \E n \in DOMAIN ops[c], status \in {"succeeded", "failed", "requires_user_action"} :
                 Proxy!RunOperation(c, n, status)
    PROVE  ProxyInv'
<1>1. UNCHANGED <<binding, call, epoch>>
  BY DEF Proxy!Accept, Proxy!Lose, Proxy!RunOperation
<1>2. /\ request \in [Calls -> SUBSET Nat] /\ ops \in [Calls -> Seq(OpRows)]
      /\ ops[c] \in Seq(OpRows) /\ call[c] \in CallRows
  BY DEF ProxyInv, ProxyTypes
<1>3. ASSUME NEW o \in Seq(OpRows), ops' = [ops EXCEPT ![c] = o],
             request' \in [Calls -> SUBSET Nat],
             \A e \in Calls : request'[e] \subseteq request[e],
             call[c].pc # "idle",
             call[c].kind = "prepare" =>
                 Len(o) <= 1 /\ \A n \in 1..Len(o) : o[n].key = <<c>>
      PROVE  ProxyInv'
  <2>1. /\ ops' \in [Calls -> Seq(OpRows)] /\ ops'[c] = o
        /\ \A e \in Calls \ {c} : ops'[e] = ops[e]
    BY <1>2, <1>3
  <2>2. ProxyTypes'
    BY <1>1, <1>3, <2>1 DEF ProxyInv, ProxyTypes
  <2>3. ASSUME NEW e \in Calls
        PROVE  CallIsRight(call[e])' /\ OpsAreRight(e)'
    <3>1. CallIsRight(call[e])'
      BY <1>1 DEF ProxyInv, CallIsRight
    <3>2. CASE e = c
      BY <1>1, <1>3, <2>1, <3>1, <3>2 DEF OpsAreRight
    <3>3. CASE e # c
      <4>1. OpsAreRight(e) /\ ops'[e] = ops[e] /\ request'[e] \subseteq request[e]
        BY <1>3, <2>1, <3>3 DEF ProxyInv
      <4> QED BY <1>1, <3>1, <4>1 DEF OpsAreRight
    <3> QED BY <3>2, <3>3
  <2>4. WebsAreOwned' /\ Proxy!WebUsesOwner' /\ Proxy!OneSpeaker'
    BY <1>1 DEF ProxyInv, WebsAreOwned, Proxy!WebUsesOwner, Proxy!OneSpeaker
  <2> QED BY <2>2, <2>3, <2>4 DEF ProxyInv
<1>4. OpsAreRight(c)
  BY DEF ProxyInv
<1>5. ASSUME NEW try \in 1..MaxAttempts, Proxy!Accept(c, try) \/ Proxy!Lose(c, try)
      PROVE  /\ request' \in [Calls -> SUBSET Nat]
             /\ \A e \in Calls : request'[e] \subseteq request[e]
             /\ call[c].pc # "idle"
  <2>1. request' = [request EXCEPT ![c] = @ \ {try}] /\ try \in request[c]
    BY <1>5 DEF Proxy!Accept, Proxy!Lose
  <2>2. call[c].pc # "idle"
    BY <1>4, <2>1 DEF OpsAreRight
  <2> QED BY <1>2, <2>1, <2>2
<1>6. CASE \E try \in 1..MaxAttempts : Proxy!Lose(c, try)
  <2>1. ops' = [ops EXCEPT ![c] = ops[c]]
    BY <1>2, <1>6 DEF Proxy!Lose
  <2> QED BY <1>2, <1>3, <1>4, <1>5, <1>6, <2>1 DEF OpsAreRight
<1>7. ASSUME NEW try \in 1..MaxAttempts, Proxy!Accept(c, try)
      PROVE  ProxyInv'
  <2>1. CASE Proxy!SameKey(c, try) # {}
    <3>1. ops' = [ops EXCEPT ![c] = ops[c]]
      BY <1>2, <1>7, <2>1 DEF Proxy!Accept
    <3> QED BY <1>2, <1>3, <1>4, <1>5, <1>7, <3>1 DEF OpsAreRight
  <2>2. CASE Proxy!SameKey(c, try) = {}
    <3> DEFINE w == [key |-> Proxy!Key(c, try), try |-> try, status |-> "running"]
               o == Append(ops[c], w)
    <3>1. ops' = [ops EXCEPT ![c] = o]
      BY <1>7, <2>2 DEF Proxy!Accept
    <3>2. w \in OpRows /\ w.key = Proxy!Key(c, try)
      <4>1. try \in Nat
        BY DEF Proxy!ProxyAssumption
      <4>2. Proxy!Key(c, try) \in {<<>>} \cup {<<d>> : d \in Calls}
        BY DEF Proxy!Key
      <4> QED BY <4>1, <4>2 DEF OpRows
    <3> HIDE DEF w
    <3>3. /\ o \in Seq(OpRows) /\ Len(o) = Len(ops[c]) + 1 /\ o[Len(ops[c]) + 1] = w
          /\ Len(ops[c]) \in Nat
      BY <1>2, <3>2
    <3>4. ASSUME call[c].kind = "prepare"
          PROVE  Len(o) <= 1 /\ \A n \in 1..Len(o) : o[n].key = <<c>>
      <4>1. Proxy!Key(c, try) = <<c>> /\ <<c>> # <<>>
        BY <3>4 DEF Proxy!Key
      <4>2. \A n \in 1..Len(ops[c]) : ops[c][n].key = <<c>>
        BY <1>4, <3>4 DEF OpsAreRight
      <4>3. DOMAIN ops[c] = 1..Len(ops[c])
        BY <1>2
      <4>4. 1..Len(ops[c]) = {}
        BY <2>2, <4>1, <4>2, <4>3 DEF Proxy!SameKey
      <4>5. Len(ops[c]) = 0
        <5>1. PICK m \in Nat : m = Len(ops[c])
          BY <3>3
        <5>2. 1 \notin 1..m
          BY <4>4, <5>1
        <5>3. m = 0
          BY <5>2
        <5> QED BY <5>1, <5>3
      <4> QED BY <3>2, <3>3, <4>1, <4>5
    <3> HIDE DEF o
    <3> QED BY <1>3, <1>5, <1>7, <3>1, <3>3, <3>4
  <2> QED BY <2>1, <2>2
<1>8. ASSUME NEW n \in DOMAIN ops[c],
             NEW status \in {"succeeded", "failed", "requires_user_action"},
             Proxy!RunOperation(c, n, status)
      PROVE  ProxyInv'
  <2> DEFINE w == [ops[c][n] EXCEPT !.status = status]
             o == [ops[c] EXCEPT ![n] = w]
  <2>1. ops' = [ops EXCEPT ![c] = o] /\ request' = request
    BY <1>8 DEF Proxy!RunOperation
  <2>2. ops[c][n] \in OpRows /\ n \in 1..Len(ops[c])
    BY <1>2
  <2>3. w \in OpRows /\ w.key = ops[c][n].key
    BY <2>2 DEF OpRows
  <2> HIDE DEF w
  <2>4. /\ o \in Seq(OpRows) /\ Len(o) = Len(ops[c]) /\ o[n] = w
        /\ \A m \in 1..Len(ops[c]) : m # n => o[m] = ops[c][m]
    BY <1>2, <2>2, <2>3
  <2>5. call[c].kind = "prepare" => Len(o) <= 1 /\ \A m \in 1..Len(o) : o[m].key = <<c>>
    BY <1>4, <2>2, <2>3, <2>4 DEF OpsAreRight
  <2>6. call[c].pc # "idle"
    BY <1>4, <2>2 DEF OpsAreRight
  <2> HIDE DEF o
  <2> QED BY <1>2, <1>3, <2>1, <2>4, <2>5, <2>6
<1> QED BY <1>6, <1>7, <1>8

LEMMA ProxyInvariant ==
    ASSUME Proxy!ProxyAssumption
    PROVE  Proxy!Spec => []ProxyInv
<1>1. Proxy!Init => ProxyInv
  BY ProxyInit
<1>2. ASSUME ProxyInv, [Proxy!Next]_(Proxy!vars) PROVE ProxyInv'
  <2>1. CASE UNCHANGED Proxy!vars
    BY <1>2, <2>1 DEF Proxy!vars, ProxyInv, ProxyTypes, CallIsRight, OpsAreRight,
                      WebsAreOwned, Proxy!WebUsesOwner, Proxy!OneSpeaker
  <2> QED
    BY <1>2, <2>1, CallSteps, ResolveKeeps, AskKeeps, SessionsKeep, ServerKeeps DEF Proxy!Next
<1> QED BY <1>1, <1>2, PTL DEF Proxy!Spec

\* See PreparesLeaveOne below.
LEMMA PreparesLeaveOneAlone ==
    ASSUME Proxy!ProxyAssumption
    PROVE  Proxy!Spec => []Proxy!PreparedOnce
<1>1. ProxyInv => Proxy!PreparedOnce
  BY DEF ProxyInv, OpsAreRight, Proxy!PreparedOnce
<1> QED BY <1>1, ProxyInvariant, PTL

\* No two calls of a session speak with different identities until the session is
\* removed, and a call from a workspace session uses its owner's identity
\* (identity-router.js).
THEOREM SessionsHaveOneSpeaker ==
    ASSUME Proxy!ProxyAssumption
    PROVE  Proxy!Spec => [](Proxy!WebUsesOwner /\ Proxy!OneSpeaker)
<1>1. ProxyInv => Proxy!WebUsesOwner /\ Proxy!OneSpeaker
  BY DEF ProxyInv
<1> QED BY <1>1, ProxyInvariant, PTL

Outcomes == {"none", "active", "waiting_user", "succeeded", "failed"}

\* A call has an attempt left as long as it may send one.
TriesFit(k) ==
    /\ k.tries <= MaxAttempts
    /\ k.pc \in {"idle", "asking", "built", "tasked"} => k.tries = 0
    /\ k.pc = "ready" => k.tries < MaxAttempts

\* Every operation is of another attempt of its call, which is not on its way
\* any more.
AttemptsFit(tries, asked, answered, kept) ==
    /\ asked \subseteq 1..tries /\ answered \subseteq 1..tries
    /\ \A n \in 1..Len(kept) : kept[n].try \in (1..tries) \ asked
    /\ \A n, m \in 1..Len(kept) : kept[n].try = kept[m].try => n = m

AttemptsOK ==
    /\ webs \subseteq Webs
    /\ reply \in [Calls -> SUBSET Nat]
    /\ task \in [Calls -> Outcomes]
    /\ \A c \in Calls : TriesFit(call[c])
                        /\ AttemptsFit(call[c].tries, request[c], reply[c], ops[c])

\* There are no more operations than attempts.
LEMMA FewOperations ==
    ASSUME NEW tries \in Nat, NEW asked, NEW answered, NEW kept \in Seq(OpRows),
           AttemptsFit(tries, asked, answered, kept)
    PROVE  Len(kept) <= tries
<1> DEFINE f == [n \in 1..Len(kept) |-> kept[n].try]
<1>1. Len(kept) \in Nat
  OBVIOUS
<1>2. /\ IsFiniteSet(1..Len(kept)) /\ Cardinality(1..Len(kept)) = Len(kept)
      /\ IsFiniteSet(1..tries) /\ Cardinality(1..tries) = tries
  <2>1. ASSUME NEW b \in Nat
        PROVE  IsFiniteSet(1..b) /\ Cardinality(1..b) = b
    <3>1. 1 \in Int /\ b \in Int
      OBVIOUS
    <3>2. /\ IsFiniteSet(1..b)
          /\ Cardinality(1..b) = IF 1 > b THEN 0 ELSE b - 1 + 1
      BY <3>1, FS_Interval
    <3> QED BY <3>2
  <2> QED BY <1>1, <2>1
<1>3. f \in [1..Len(kept) -> 1..tries]
  BY DEF AttemptsFit
<1>4. ~(\E n, m \in 1..Len(kept) : n # m /\ f[n] = f[m])
  BY DEF AttemptsFit
<1> HIDE DEF f
<1>5. SUFFICES ASSUME Len(kept) > tries PROVE FALSE
  BY <1>1
<1> QED BY <1>2, <1>3, <1>4, <1>5, FS_PigeonHole

LEMMA AttemptsInit ==
    ASSUME Proxy!Init, Proxy!ProxyAssumption PROVE AttemptsOK
BY DEF Proxy!Init, Proxy!ProxyAssumption, AttemptsOK, TriesFit, AttemptsFit, Proxy!NoCall, Outcomes

\* Steps of a call that send nothing and of which the server keeps nothing.
LEMMA TriesKeep ==
    ASSUME ProxyInv, AttemptsOK, webs' \subseteq Webs, task' \in [Calls -> Outcomes],
           NEW c \in Calls, NEW k, call' = [call EXCEPT ![c] = k],
           k.tries = call[c].tries, TriesFit(k),
           UNCHANGED <<reply, ops>>, request'[c] \subseteq request[c],
           \A e \in Calls \ {c} : request'[e] = request[e]
    PROVE  AttemptsOK'
<1>1. call \in [Calls -> CallRows]
  BY DEF ProxyInv, ProxyTypes
<1>2. call'[c] = k /\ \A e \in Calls \ {c} : call'[e] = call[e]
  BY <1>1
<1>3. ASSUME NEW e \in Calls
      PROVE  TriesFit(call'[e]) /\ AttemptsFit(call'[e].tries, request'[e], reply'[e], ops'[e])
  <2>1. TriesFit(call'[e])
    BY <1>2 DEF AttemptsOK
  <2>2. call'[e].tries = call[e].tries
    BY <1>2
  <2>3. request'[e] \subseteq request[e] /\ reply'[e] = reply[e] /\ ops'[e] = ops[e]
    OBVIOUS
  <2>4. AttemptsFit(call[e].tries, request[e], reply[e], ops[e])
    BY DEF AttemptsOK
  <2> QED BY <2>1, <2>2, <2>3, <2>4 DEF AttemptsFit
<1>4. reply' = reply /\ reply \in [Calls -> SUBSET Nat]
  BY DEF AttemptsOK
<1>5. reply' \in [Calls -> SUBSET Nat]
  BY <1>4
<1>6. \A e \in Calls : TriesFit(call'[e])
                   /\ AttemptsFit(call'[e].tries, request'[e], reply'[e], ops'[e])
  BY <1>3
<1> QED
  BY <1>5, <1>6 DEF AttemptsOK

\* One call goes on, the others stay; what a fact about it needs.
LEMMA OthersKeep ==
    ASSUME AttemptsOK, webs' \subseteq Webs, task' \in [Calls -> Outcomes],
           reply' \in [Calls -> SUBSET Nat], NEW c \in Calls,
           \A e \in Calls \ {c} : /\ call'[e] = call[e] /\ request'[e] = request[e]
                                  /\ reply'[e] = reply[e] /\ ops'[e] = ops[e],
           TriesFit(call'[c]),
           AttemptsFit(call'[c].tries, request'[c], reply'[c], ops'[c])
    PROVE  AttemptsOK'
<1>1. ASSUME NEW e \in Calls
      PROVE  TriesFit(call'[e]) /\ AttemptsFit(call'[e].tries, request'[e], reply'[e], ops'[e])
  <2>1. CASE e = c
    BY <2>1
  <2>2. CASE e # c
    <3>1. TriesFit(call[e]) /\ AttemptsFit(call[e].tries, request[e], reply[e], ops[e])
      BY DEF AttemptsOK
    <3> QED BY <2>2, <3>1
  <2> QED BY <2>1, <2>2
<1> QED BY <1>1 DEF AttemptsOK

\* The next attempt: no operation is of it yet.
LEMMA SendKeepsTries ==
    ASSUME ProxyInv, AttemptsOK, NEW c \in Calls, Proxy!Send(c)
    PROVE  AttemptsOK'
<1> DEFINE tries == call[c].tries
<1>1. call \in [Calls -> CallRows] /\ request \in [Calls -> SUBSET Nat]
  BY DEF ProxyInv, ProxyTypes
<1>2. tries \in Nat
  BY <1>1 DEF CallRows
<1>3. /\ call'[c] = [call[c] EXCEPT !.pc = "sent", !.tries = tries + 1]
      /\ request'[c] = request[c] \cup {tries + 1}
      /\ \A e \in Calls \ {c} : call'[e] = call[e] /\ request'[e] = request[e]
  BY <1>1 DEF Proxy!Send
<1>4. call'[c].pc = "sent" /\ call'[c].tries = tries + 1
  BY <1>1, <1>3 DEF CallRows
<1>5. call[c].pc = "ready"
  BY DEF Proxy!Send
<1>6. UNCHANGED <<webs, reply, ops, task>>
  BY DEF Proxy!Send
<1>7. tries < MaxAttempts
  BY <1>5 DEF AttemptsOK, TriesFit
<1>8. AttemptsFit(tries, request[c], reply[c], ops[c])
  BY DEF AttemptsOK
<1> HIDE DEF tries
<1>9. MaxAttempts \in Nat
  BY ConstantsFit DEF ConstantsFit, Proxy!ProxyAssumption
<1>10. TriesFit(call'[c])
  BY <1>2, <1>4, <1>7, <1>9 DEF TriesFit
<1>11. AttemptsFit(tries + 1, request'[c], reply'[c], ops'[c])
  BY <1>2, <1>3, <1>6, <1>8 DEF AttemptsFit
<1>12. /\ webs' \subseteq Webs /\ task' \in [Calls -> Outcomes]
       /\ reply' \in [Calls -> SUBSET Nat]
  BY <1>6 DEF AttemptsOK
<1> QED BY <1>3, <1>4, <1>6, <1>10, <1>11, <1>12, OthersKeep

\* The server makes an operation of the request, or answers it.
LEMMA AcceptKeepsTries ==
    ASSUME ProxyInv, AttemptsOK, NEW c \in Calls, NEW try \in 1..MaxAttempts, Proxy!Accept(c, try)
    PROVE  AttemptsOK'
<1> DEFINE fresh == [key |-> Proxy!Key(c, try), try |-> try, status |-> "running"]
<1>1. /\ call \in [Calls -> CallRows] /\ request \in [Calls -> SUBSET Nat]
      /\ ops \in [Calls -> Seq(OpRows)] /\ reply \in [Calls -> SUBSET Nat]
  BY DEF ProxyInv, ProxyTypes, AttemptsOK
<1>2. AttemptsFit(call[c].tries, request[c], reply[c], ops[c]) /\ TriesFit(call[c])
  BY DEF AttemptsOK
<1>3. UNCHANGED <<webs, call, task>> /\ try \in request[c]
  BY DEF Proxy!Accept
<1>4. request'[c] = request[c] \ {try} /\ \A e \in Calls \ {c} : request'[e] = request[e]
  BY <1>1 DEF Proxy!Accept
<1>5. /\ webs' \subseteq Webs /\ task' \in [Calls -> Outcomes]
  BY <1>3 DEF AttemptsOK
<1>6. try \in Nat
  BY <1>1, <1>3
<1>7. CASE reply' = [reply EXCEPT ![c] = @ \cup {try}] /\ UNCHANGED ops
  <2>1. /\ reply' \in [Calls -> SUBSET Nat] /\ reply'[c] = reply[c] \cup {try}
        /\ \A e \in Calls \ {c} : reply'[e] = reply[e]
    BY <1>1, <1>6, <1>7
  <2>2. AttemptsFit(call'[c].tries, request'[c], reply'[c], ops'[c])
    BY <1>2, <1>3, <1>4, <1>7, <2>1 DEF AttemptsFit
  <2> QED BY <1>2, <1>3, <1>4, <1>5, <1>7, <2>1, <2>2, OthersKeep
<1>8. CASE ops' = [ops EXCEPT ![c] = Append(@, fresh)] /\ UNCHANGED reply
  <2>1. fresh.try = try
    OBVIOUS
  <2> HIDE DEF fresh
  <2>2. /\ ops'[c] = Append(ops[c], fresh) /\ \A e \in Calls \ {c} : ops'[e] = ops[e]
    BY <1>1, <1>8
  <2>3. /\ Len(ops[c]) \in Nat /\ Len(ops'[c]) = Len(ops[c]) + 1
        /\ \A n \in 1..Len(ops[c]) : ops'[c][n] = ops[c][n]
        /\ ops'[c][Len(ops[c]) + 1] = fresh
    BY <1>1, <2>2
  <2>4. \A n \in 1..Len(ops'[c]) : n \in 1..Len(ops[c]) \/ n = Len(ops[c]) + 1
    BY <2>3
  <2>5. \A n \in 1..Len(ops'[c]) : ops'[c][n].try \in (1..call[c].tries) \ request'[c]
    BY <1>2, <1>3, <1>4, <2>1, <2>3, <2>4 DEF AttemptsFit
  <2>6. \A n, m \in 1..Len(ops'[c]) : ops'[c][n].try = ops'[c][m].try => n = m
    BY <1>2, <1>3, <2>1, <2>3, <2>4 DEF AttemptsFit
  <2>7. AttemptsFit(call'[c].tries, request'[c], reply'[c], ops'[c])
    BY <1>2, <1>3, <1>4, <1>8, <2>5, <2>6 DEF AttemptsFit
  <2>8. reply' \in [Calls -> SUBSET Nat]
    BY <1>1, <1>8
  <2> QED BY <1>2, <1>3, <1>4, <1>5, <1>8, <2>2, <2>7, <2>8, OthersKeep
<1> QED BY <1>7, <1>8 DEF Proxy!Accept

\* An operation ends.
LEMMA EndKeepsTries ==
    ASSUME ProxyInv, AttemptsOK, NEW c \in Calls, NEW n \in DOMAIN ops[c],
           NEW status \in {"succeeded", "failed", "requires_user_action"},
           Proxy!RunOperation(c, n, status)
    PROVE  AttemptsOK'
<1>1. /\ call \in [Calls -> CallRows] /\ ops \in [Calls -> Seq(OpRows)]
      /\ reply \in [Calls -> SUBSET Nat] /\ task \in [Calls -> Outcomes]
  BY DEF ProxyInv, ProxyTypes, AttemptsOK
<1>2. AttemptsFit(call[c].tries, request[c], reply[c], ops[c]) /\ TriesFit(call[c])
  BY DEF AttemptsOK
<1>3. UNCHANGED <<webs, call, request>>
  BY DEF Proxy!RunOperation
<1>4. n \in 1..Len(ops[c]) /\ ops[c][n] \in OpRows
  BY <1>1
<1>5. ops[c][n].try \in 1..call[c].tries /\ ops[c][n].try \in Nat
  BY <1>2, <1>4 DEF AttemptsFit, OpRows
<1>6. ops' = [ops EXCEPT ![c] = [ops[c] EXCEPT ![n] = [ops[c][n] EXCEPT !.status = status]]]
  BY DEF Proxy!RunOperation
<1>7. /\ ops'[c] = [ops[c] EXCEPT ![n] = [ops[c][n] EXCEPT !.status = status]]
      /\ \A e \in Calls \ {c} : ops'[e] = ops[e]
  BY <1>1, <1>6
<1>8. [ops[c][n] EXCEPT !.status = status].try = ops[c][n].try
  BY <1>4 DEF OpRows
<1>9. Len(ops'[c]) = Len(ops[c]) /\ \A m \in 1..Len(ops[c]) : ops'[c][m].try = ops[c][m].try
  BY <1>1, <1>4, <1>7, <1>8
<1>10. reply' = [reply EXCEPT ![c] = @ \cup {ops[c][n].try}]
  BY DEF Proxy!RunOperation
<1>11. /\ reply' \in [Calls -> SUBSET Nat] /\ reply'[c] = reply[c] \cup {ops[c][n].try}
       /\ \A e \in Calls \ {c} : reply'[e] = reply[e]
  BY <1>1, <1>5, <1>10
<1>12. AttemptsFit(call'[c].tries, request'[c], reply'[c], ops'[c])
  BY <1>2, <1>3, <1>5, <1>9, <1>11 DEF AttemptsFit
<1>13. task' \in [Calls -> Outcomes]
  BY <1>1 DEF Proxy!RunOperation, Proxy!TaskAfter, Outcomes
<1>14. webs' \subseteq Webs
  BY <1>3 DEF AttemptsOK
<1> QED BY <1>2, <1>3, <1>7, <1>11, <1>12, <1>13, <1>14, OthersKeep

\* A call moves on without a new attempt.
MayMoveTo(k, pc) ==
    /\ pc \in {"asking", "built", "tasked"} => k.pc \in {"idle", "asking", "built"}
    /\ pc = "ready" => k.pc \in {"built", "tasked"} \/ k.tries < MaxAttempts
    /\ pc # "idle"

LEMMA MovesKeepTries ==
    ASSUME ProxyInv, AttemptsOK, NEW c \in Calls, NEW pc, CallMoves(c, pc), MayMoveTo(call[c], pc),
           UNCHANGED <<webs, reply, ops>>, task' \in [Calls -> Outcomes],
           request'[c] \subseteq request[c],
           \A e \in Calls \ {c} : request'[e] = request[e]
    PROVE  AttemptsOK'
<1> DEFINE k == [call[c] EXCEPT !.pc = pc]
<1>1. call[c] \in CallRows
  BY DEF ProxyInv, ProxyTypes
<1>2. call' = [call EXCEPT ![c] = k]
  BY DEF CallMoves
<1>3. k.tries = call[c].tries /\ k.pc = pc
  BY <1>1 DEF CallRows
<1> HIDE DEF k
<1>4. TriesFit(call[c]) /\ webs' \subseteq Webs
  BY DEF AttemptsOK
<1>5. MaxAttempts \in Nat \ {0}
  BY ConstantsFit DEF ConstantsFit, Proxy!ProxyAssumption
<1>6. TriesFit(k)
  BY <1>3, <1>4, <1>5 DEF TriesFit, MayMoveTo
<1> QED BY <1>2, <1>3, <1>4, <1>6, TriesKeep

\* The steps of a call that is prepared, sent and answered.
LEMMA CallsKeepTries ==
    ASSUME ProxyInv, AttemptsOK, NEW c \in Calls,
           \/ Proxy!Unprovisioned(c) \/ Proxy!Refuse(c) \/ Proxy!ResolveTaskId(c)
           \/ Proxy!TaskUnavailable(c) \/ Proxy!RenewCoordinatorLease(c)
           \/ Proxy!Answer(c) \/ Proxy!AnswerUnreferenced(c)
           \/ Proxy!Retry(c) \/ Proxy!GiveUp(c) \/ Proxy!FinishHostTask(c)
    PROVE  AttemptsOK'
<1>1. /\ UNCHANGED <<webs, reply, ops>>
      /\ UNCHANGED request \/ request' = [request EXCEPT ![c] = @ \ {call[c].tries}]
  BY DEF Proxy!Unprovisioned, Proxy!Refuse, Proxy!ResolveTaskId, Proxy!TaskUnavailable,
       Proxy!RenewCoordinatorLease, Proxy!Answer, Proxy!AnswerUnreferenced, Proxy!Retry,
       Proxy!GiveUp, Proxy!FinishHostTask
<1>2. request \in [Calls -> SUBSET Nat] /\ task \in [Calls -> Outcomes]
  BY DEF ProxyInv, ProxyTypes, AttemptsOK
<1>3. request'[c] \subseteq request[c] /\ \A e \in Calls \ {c} : request'[e] = request[e]
  BY <1>1, <1>2
<1>4. \/ UNCHANGED task
      \/ Proxy!ResolveTaskId(c) \/ Proxy!TaskUnavailable(c) \/ Proxy!FinishHostTask(c)
  BY DEF Proxy!Unprovisioned, Proxy!Refuse, Proxy!RenewCoordinatorLease, Proxy!Answer,
       Proxy!AnswerUnreferenced, Proxy!Retry, Proxy!GiveUp
<1>5. task' \in [Calls -> Outcomes]
  <2>1. CASE UNCHANGED task
    BY <1>2, <2>1
  <2>2. CASE Proxy!ResolveTaskId(c) \/ Proxy!TaskUnavailable(c)
    BY <1>2, <2>2 DEF Proxy!ResolveTaskId, Proxy!TaskUnavailable, Outcomes
  <2>3. CASE Proxy!FinishHostTask(c)
    BY <1>2, <2>3 DEF Proxy!FinishHostTask, Outcomes
  <2> QED BY <1>4, <2>1, <2>2, <2>3
<1>6. \E pc : CallMoves(c, pc) /\ MayMoveTo(call[c], pc)
  BY DEF Proxy!Unprovisioned, Proxy!Refuse, Proxy!ResolveTaskId, Proxy!TaskUnavailable,
       Proxy!RenewCoordinatorLease, Proxy!Answer, Proxy!AnswerUnreferenced, Proxy!Retry,
       Proxy!GiveUp, Proxy!FinishHostTask, CallMoves, MayMoveTo, Proxy!MayRetry
<1> QED BY <1>1, <1>3, <1>5, <1>6, MovesKeepTries

\* The identity of a call is found.
LEMMA AskKeepsTries ==
    ASSUME ProxyInv, AttemptsOK, NEW c \in Calls,
           \/ \E s \in Proxy!Sessions, sender \in Identities \cup {Unset}, kind \in ToolKinds :
                 Proxy!Resolve(c, s, sender, kind)
           \/ \E i \in Identities : Proxy!AskIdentity(c, i) \/ Proxy!AskFails(c, i)
    PROVE  AttemptsOK'
<1>1. call[c] \in CallRows /\ call[c].pc \in {"idle", "asking"}
  BY DEF ProxyInv, ProxyTypes, Proxy!Resolve, Proxy!AskIdentity, Proxy!AskFails
<1>2. call[c].pc = "asking" => call[c].session \in Webs
  BY DEF ProxyInv, CallIsRight
<1>3. TriesFit(call[c]) /\ webs \subseteq Webs /\ task \in [Calls -> Outcomes]
  BY DEF AttemptsOK
<1>4. /\ UNCHANGED <<request, reply, ops, task>>
      /\ webs' = webs \/ (call[c].pc = "asking" /\ webs' = webs \cup {call[c].session})
  BY DEF Proxy!Resolve, Proxy!AskIdentity, Proxy!AskFails
<1>5. webs' \subseteq Webs /\ task' \in [Calls -> Outcomes]
  BY <1>1, <1>2, <1>3, <1>4
<1>6. ASSUME NEW k, call' = [call EXCEPT ![c] = k], k.tries = call[c].tries,
             k.pc \in {"asking", "built"}
      PROVE  AttemptsOK'
  <2>1. TriesFit(k)
    BY <1>1, <1>3, <1>6 DEF TriesFit
  <2> QED BY <1>4, <1>5, <1>6, <2>1, TriesKeep
<1>7. ASSUME NEW s \in Proxy!Sessions, NEW sender \in Identities \cup {Unset},
             NEW kind \in ToolKinds, Proxy!Resolve(c, s, sender, kind)
      PROVE  AttemptsOK'
  <2> DEFINE With(pc, identity) == [call[c] EXCEPT !.pc = pc, !.session = s, !.kind = kind,
                                                  !.identity = identity, !.epoch = epoch[s]]
             identity == IF sender # Unset /\ Proxy!MayBind(s, sender) THEN sender
                         ELSE IF sender # Unset THEN Unset ELSE Proxy!Pinned(s)
             k == With(IF identity = Unset THEN "asking" ELSE "built", identity)
  <2>1. k.tries = call[c].tries /\ k.pc \in {"asking", "built"}
    BY <1>1 DEF CallRows
  <2>2. call' = [call EXCEPT ![c] = k]
    BY <1>7 DEF Proxy!Resolve
  <2> HIDE DEF k
  <2> QED BY <1>6, <2>1, <2>2
<1>8. ASSUME NEW i \in Identities, Proxy!AskIdentity(c, i)
      PROVE  AttemptsOK'
  <2> DEFINE k == [call[c] EXCEPT !.pc = "built", !.identity = i,
                                  !.epoch = epoch[call[c].session]]
             m == [call[c] EXCEPT !.asked = call[c].asked \cup {i}]
  <2>1. k.tries = call[c].tries /\ k.pc = "built"
        /\ m.tries = call[c].tries /\ m.pc = call[c].pc
    BY <1>1 DEF CallRows
  <2>2. \/ call' = [call EXCEPT ![c] = k]
        \/ call' = [call EXCEPT ![c] = m]
    BY <1>8 DEF Proxy!AskIdentity
  <2>3. call[c].pc = "asking"
    BY <1>8 DEF Proxy!AskIdentity
  <2> HIDE DEF k, m
  <2> QED BY <1>6, <2>1, <2>2, <2>3
<1>9. ASSUME NEW i \in Identities, Proxy!AskFails(c, i)
      PROVE  AttemptsOK'
  <2> DEFINE m == [call[c] EXCEPT !.asked = @ \cup {i}]
  <2>1. m.tries = call[c].tries /\ m.pc = call[c].pc
    BY <1>1 DEF CallRows
  <2>2. call' = [call EXCEPT ![c] = m] /\ call[c].pc = "asking"
    BY <1>9 DEF Proxy!AskFails
  <2> HIDE DEF m
  <2> QED BY <1>6, <2>1, <2>2
<1> QED BY <1>7, <1>8, <1>9

LEMMA AttemptsKeep ==
    ASSUME ProxyInv, AttemptsOK, [Proxy!Next]_(Proxy!vars)
    PROVE  AttemptsOK'
<1>1. CASE UNCHANGED <<call, request, reply, ops, task>> /\ webs' \subseteq webs
  BY <1>1 DEF AttemptsOK
<1>2. CASE \E c \in Calls, try \in 1..MaxAttempts : Proxy!Lose(c, try)
  <2>1. PICK c \in Calls, try \in 1..MaxAttempts : Proxy!Lose(c, try)
    BY <1>2
  <2>2. request' = [request EXCEPT ![c] = @ \ {try}] /\ UNCHANGED <<call, webs, reply, ops, task>>
    BY <2>1 DEF Proxy!Lose
  <2>3. request \in [Calls -> SUBSET Nat] /\ call \in [Calls -> CallRows]
    BY DEF ProxyInv, ProxyTypes
  <2>4. /\ request'[c] \subseteq request[c] /\ \A e \in Calls \ {c} : request'[e] = request[e]
        /\ call' = [call EXCEPT ![c] = call[c]]
    BY <2>2, <2>3
  <2>5. TriesFit(call[c]) /\ webs' \subseteq Webs /\ task' \in [Calls -> Outcomes]
    BY <2>2 DEF AttemptsOK
  <2> QED BY <2>2, <2>4, <2>5, TriesKeep
<1>3. CASE UNCHANGED Proxy!vars
  BY <1>1, <1>3 DEF Proxy!vars
<1>4. CASE \E s \in Proxy!Sessions :
              \/ \E i \in Identities : Proxy!BindSession(s, i)
              \/ Proxy!PinnedMismatch(s) \/ Proxy!RemoveSession(s)
  BY <1>1, <1>4 DEF Proxy!BindSession, Proxy!PinnedMismatch, Proxy!RemoveSession
<1> QED
  BY <1>2, <1>3, <1>4, AskKeepsTries, CallsKeepTries, SendKeepsTries, AcceptKeepsTries,
     EndKeepsTries DEF Proxy!Next

\* The calls of the proxy keep to their domains.
LEMMA ProxyTypesHold ==
    ASSUME Proxy!ProxyAssumption
    PROVE  Proxy!Spec => []Proxy!TypeOK
<1>1. Proxy!Init => AttemptsOK
  BY AttemptsInit
<1>2. ASSUME ProxyInv, AttemptsOK PROVE Proxy!TypeOK
  <2>1. ASSUME NEW c \in Calls
        PROVE  /\ call[c].identity \in Identities \cup {Unset}
               /\ call[c].tries \in 0..MaxAttempts
               /\ request[c] \cup reply[c] \subseteq 1..MaxAttempts
               /\ Len(ops[c]) <= MaxAttempts
    <3>1. call[c] \in CallRows /\ ops[c] \in Seq(OpRows) /\ MaxAttempts \in Nat
      BY <1>2 DEF ProxyInv, ProxyTypes, Proxy!ProxyAssumption
    <3>2. call[c].tries \in Nat /\ call[c].identity \in Identities \cup {Unset}
      BY <3>1 DEF CallRows
    <3>3. /\ call[c].tries <= MaxAttempts
          /\ AttemptsFit(call[c].tries, request[c], reply[c], ops[c])
      BY <1>2 DEF AttemptsOK, TriesFit
    <3>4. Len(ops[c]) <= call[c].tries
      BY <3>1, <3>2, <3>3, FewOperations
    <3>5. Len(ops[c]) \in Nat
      BY <3>1
    <3>6. request[c] \cup reply[c] \subseteq 1..call[c].tries
      BY <3>3 DEF AttemptsFit
    <3>7. Len(ops[c]) <= MaxAttempts
      BY <3>1, <3>2, <3>3, <3>4, <3>5
    <3> QED BY <3>1, <3>2, <3>3, <3>6, <3>7
  <2> QED
    BY <1>2, <2>1 DEF ProxyInv, ProxyTypes, AttemptsOK, Outcomes, Proxy!TypeOK
<1> QED BY <1>1, <1>2, AttemptsKeep, ProxyInvariant, PTL DEF Proxy!Spec

(***************************************************************************)
(* The chat with the agent host.                                           *)
(***************************************************************************)

\* The variables of ChatGateway.
run == v1
tool == v2
saved == v3
other == v4
news == v5
node == v6
py == v7

USE DEF run, tool, saved, other, news, node, py, faults

ClientSteps == {"connect", "idle", "bind", "send", "sent", "run", "probe", "abort", "aborted",
                "refused", "evidence", "settled"}
ClientStates ==
    [pc : ClientSteps, run : Gateway!Runs, accepted : BOOLEAN, progress : BOOLEAN,
     tool : BOOLEAN, used : BOOLEAN,
     purpose : {"none", "preflight", "startup_recovery", "startup_final", "timeout"},
     rebound : BOOLEAN]
StreamStates ==
    [pc : {"stream", "done"}, attempt : Nat, run : {0} \cup Gateway!Runs,
     outcome : {"none", "final", "error", "silent", "aborted", "closed"}, safe : BOOLEAN,
     retries : BOOLEAN, aborts : BOOLEAN]

GatewayTypes ==
    /\ run \in [Gateway!Runs -> {"none", "queued", "working", "ended"}]
    /\ tool \subseteq Gateway!Runs
    /\ node \in ClientStates
    /\ py \in StreamStates

\* The runs before the client's own have ended without a tool call, and the
\* keys after it are not in use.
RunsOK(k, rs, ts) ==
    /\ \A r \in Gateway!Runs : r < k => rs[r] = "ended" /\ r \notin ts
    /\ \A r \in Gateway!Runs : r > k => rs[r] = "none"
    /\ \A r \in Gateway!Runs : r \in ts => rs[r] # "none"

Unsaid(n) == n.pc \in {"connect", "bind"} \/ (n.pc = "idle" /\ n.purpose = "preflight")
Over(n) == n.pc \in {"evidence", "aborted"} \/ (n.pc = "idle" /\ n.purpose # "preflight")

\* How far the client is tells what the host knows of its run.
StepOK(n, rs) ==
    /\ Unsaid(n) => n.run = 1 /\ rs[1] = "none"
    /\ n.pc = "send" => rs[n.run] = "none"
    /\ n.pc \in {"sent", "run", "probe"} => rs[n.run] # "none"
    /\ Over(n) => rs[n.run] = "ended"

\* A tool call the client has not seen is on its way to it, and the news that
\* its run was stopped is true.
NewsOK(n, rs, ts, ns) ==
    n.pc # "settled" =>
        /\ n.run \in ts => n.tool \/ "tool" \in ns
        /\ "aborted" \in ns => rs[n.run] = "ended"

\* The stream is done when the client is.
DoneOK ==
    /\ py.pc = "done" <=> node.pc = "settled"
    /\ py.pc = "stream" => py.outcome = "none"

\* The inductive invariant of the chat.
GatewayInv ==
    /\ GatewayTypes
    /\ RunsOK(node.run, run, tool)
    /\ StepOK(node, run)
    /\ NewsOK(node, run, tool, news)
    /\ DoneOK
    /\ Gateway!SafeIsTrue
    /\ Gateway!FinalIsSaved

LEMMA FreshIsTyped ==
    ASSUME Gateway!GatewayAssumption
    PROVE  /\ Gateway!Fresh \in ClientStates
           /\ Gateway!Fresh.pc = "connect" /\ Gateway!Fresh.run = 1
           /\ Gateway!Fresh.tool = FALSE
<1>1. 1 \in Gateway!Runs
  BY DEF Gateway!GatewayAssumption, Gateway!Runs
<1> QED BY <1>1 DEF Gateway!Fresh, ClientStates, ClientSteps

LEMMA GatewayInit ==
    ASSUME Gateway!GatewayAssumption, Gateway!Init
    PROVE  GatewayInv
<1>1. /\ run = [r \in Gateway!Runs |-> "none"] /\ tool = {} /\ news = {}
      /\ node = Gateway!Fresh
      /\ py \in [pc : {"stream"}, attempt : {1}, run : {0}, outcome : {"none"},
                 safe : {FALSE}, retries : BOOLEAN, aborts : BOOLEAN]
  BY DEF Gateway!Init
<1>2. py.pc = "stream" /\ py.outcome = "none" /\ py \in StreamStates
  <2>0. /\ py.pc = "stream" /\ py.outcome = "none" /\ py.attempt \in {1} /\ py.run = 0
        /\ py.safe = FALSE /\ py.retries \in BOOLEAN /\ py.aborts \in BOOLEAN
    BY <1>1, Zenon
  <2>1. py.attempt \in Nat
    BY <2>0
  <2>2. py = [pc |-> py.pc, attempt |-> py.attempt, run |-> py.run, outcome |-> py.outcome,
              safe |-> py.safe, retries |-> py.retries, aborts |-> py.aborts]
    BY <1>1
  <2> QED BY <2>0, <2>1, <2>2 DEF StreamStates
<1>3. GatewayTypes
  BY <1>1, <1>2, FreshIsTyped DEF GatewayTypes
<1>4. 1 \in Gateway!Runs /\ \A r \in Gateway!Runs : r \in Nat /\ ~(r < 1)
  BY DEF Gateway!GatewayAssumption, Gateway!Runs
<1>5. RunsOK(node.run, run, tool) /\ StepOK(node, run) /\ NewsOK(node, run, tool, news)
  BY <1>1, <1>4, FreshIsTyped DEF RunsOK, StepOK, NewsOK, Unsaid, Over
<1>6. DoneOK /\ Gateway!SafeIsTrue /\ Gateway!FinalIsSaved
  BY <1>1, <1>2, FreshIsTyped DEF DoneOK, Gateway!SafeIsTrue, Gateway!FinalIsSaved
<1> QED BY <1>3, <1>5, <1>6 DEF GatewayInv

\* Only the client's own run can be under way.
LEMMA OwnRunOnly ==
    ASSUME GatewayInv, NEW r \in Gateway!Runs, run[r] \in {"queued", "working"}
    PROVE  r = node.run
<1>1. r \in Nat /\ node.run \in Nat
  BY DEF GatewayInv, GatewayTypes, ClientStates, Gateway!Runs
<1> QED BY <1>1 DEF GatewayInv, RunsOK

\* Where the client has seen every tool call, there was none.
LEMMA NothingHappened ==
    ASSUME GatewayInv, node.pc # "settled", ~node.tool, "tool" \notin news
    PROVE  tool = {}
<1>1. node.run \notin tool
  BY DEF GatewayInv, NewsOK
<1>2. ASSUME NEW r \in tool PROVE FALSE
  <2>1. r \in Gateway!Runs /\ r \in Nat /\ node.run \in Nat
    BY DEF GatewayInv, GatewayTypes, ClientStates, Gateway!Runs
  <2> QED BY <1>1, <1>2, <2>1 DEF GatewayInv, RunsOK
<1> QED BY <1>2

\* Where the client's own run has ended, none is under way.
LEMMA NothingLives ==
    ASSUME GatewayInv, run[node.run] = "ended"
    PROVE  Gateway!Live = {}
BY OwnRunOnly DEF Gateway!Live

\* Before the message is sent nothing has happened at all.
LEMMA NothingSent ==
    ASSUME GatewayInv, Unsaid(node)
    PROVE  /\ tool = {} /\ node.run = 1
           /\ \A r \in Gateway!Runs : run[r] = "none"
<1>1. node.run = 1 /\ run[1] = "none"
  BY DEF GatewayInv, StepOK
<1>2. ASSUME NEW r \in Gateway!Runs PROVE run[r] = "none"
  <2>1. r \in Nat /\ (r = 1 \/ r > 1)
    BY DEF Gateway!Runs
  <2> QED BY <1>1, <2>1 DEF GatewayInv, RunsOK
<1>3. ASSUME NEW r \in tool PROVE FALSE
  <2>1. r \in Gateway!Runs
    BY DEF GatewayInv, GatewayTypes
  <2> QED BY <1>2, <1>3, <2>1 DEF GatewayInv, RunsOK
<1> QED BY <1>1, <1>2, <1>3

\* The host moves the client's run and tells the client of it.
LEMMA HostMovesRun ==
    ASSUME GatewayInv, UNCHANGED <<node, py>>,
           NEW to \in {"queued", "working", "ended"},
           run[node.run] \in {"queued", "working"},
           run' = [run EXCEPT ![node.run] = to],
           tool' = tool \/ (tool' = tool \cup {node.run} /\ to # "ended" /\ "tool" \in news'),
           news \subseteq news',
           "aborted" \in news' => "aborted" \in news \/ to = "ended",
           saved \subseteq saved'
    PROVE  GatewayInv'
<1> USE DEF GatewayInv
<1>0. /\ node.run \in Gateway!Runs /\ node.run \in Nat
      /\ \A r \in Gateway!Runs : r \in Nat
  BY DEF GatewayTypes, ClientStates, Gateway!Runs
<1>1. GatewayTypes'
  BY <1>0 DEF GatewayTypes
<1>2. /\ run'[node.run] = to
      /\ \A r \in Gateway!Runs : r # node.run => run'[r] = run[r]
      /\ \A r \in tool' : r \in tool \/ r = node.run
  BY <1>0 DEF GatewayTypes
<1>3. RunsOK(node.run, run, tool)'
  BY <1>0, <1>2 DEF RunsOK
<1>4. ~Unsaid(node) /\ ~Over(node) /\ node.pc # "send"
  BY <1>0 DEF StepOK
<1>5. StepOK(node, run)'
  BY <1>2, <1>4 DEF StepOK, Unsaid, Over
<1>6. NewsOK(node, run, tool, news)'
  BY <1>2 DEF NewsOK
<1>7. DoneOK' /\ Gateway!FinalIsSaved'
  BY DEF DoneOK, Gateway!FinalIsSaved
<1>8. node.run \in Gateway!Live
  BY <1>0 DEF Gateway!Live
<1>9. Gateway!SafeIsTrue'
  BY <1>8 DEF Gateway!SafeIsTrue
<1> QED BY <1>1, <1>3, <1>5, <1>6, <1>7, <1>9

LEMMA HostStepKeeps ==
    ASSUME GatewayInv, Gateway!HostStep \/ Gateway!OtherRun
    PROVE  GatewayInv'
<1>0. run \in [Gateway!Runs -> {"none", "queued", "working", "ended"}]
  BY DEF GatewayInv, GatewayTypes
<1>1. ASSUME NEW r \in Gateway!Runs, Gateway!HostStarts(r) PROVE GatewayInv'
  <2>1. r = node.run
    BY <1>1, OwnRunOnly DEF Gateway!HostStarts
  <2>2. /\ run' = [run EXCEPT ![node.run] = "working"] /\ run[node.run] = "queued"
        /\ news' = news \cup {"progress"} /\ UNCHANGED <<tool, saved, node, py>>
    BY <1>1, <2>1 DEF Gateway!HostStarts
  <2> QED BY <2>2, HostMovesRun
<1>2. ASSUME NEW r \in Gateway!Runs, Gateway!HostCallsTool(r) PROVE GatewayInv'
  <2>1. r = node.run
    BY <1>2, OwnRunOnly DEF Gateway!HostCallsTool
  <2>2. /\ run' = [run EXCEPT ![node.run] = "working"] /\ run[node.run] = "working"
        /\ news' = news \cup {"progress", "tool"} /\ tool' = tool \cup {node.run}
        /\ UNCHANGED <<saved, node, py>>
    BY <1>0, <1>2, <2>1 DEF Gateway!HostCallsTool
  <2> QED BY <2>2, HostMovesRun
<1>3. ASSUME NEW r \in Gateway!Runs, NEW how \in {"final", "aborted", "dropped"},
             Gateway!HostEnds(r, how)
      PROVE  GatewayInv'
  <2>1. r = node.run
    BY <1>3, OwnRunOnly DEF Gateway!HostEnds
  <2>2. /\ run' = [run EXCEPT ![node.run] = "ended"] /\ run[node.run] \in {"queued", "working"}
        /\ news \subseteq news' /\ saved \subseteq saved'
        /\ UNCHANGED <<tool, node, py>>
    BY <1>3, <2>1 DEF Gateway!HostEnds
  <2> QED BY <2>2, HostMovesRun
<1>4. CASE Gateway!OtherRun
  BY <1>4 DEF Gateway!OtherRun, GatewayInv, GatewayTypes, DoneOK, Gateway!SafeIsTrue,
              Gateway!FinalIsSaved, Gateway!Live
<1> QED BY <1>1, <1>2, <1>3, <1>4 DEF Gateway!HostStep

\* The client takes a step of its own: the runs and the stream are as they were.
LEMMA ClientMoves ==
    ASSUME GatewayInv, NEW k \in ClientStates, node' = k,
           UNCHANGED <<run, tool, saved, py>>,
           node.pc # "settled", k.pc # "settled", k.run = node.run,
           StepOK(k, run), NewsOK(k, run, tool, news')
    PROVE  GatewayInv'
<1> USE DEF GatewayInv
<1>1. GatewayTypes'
  BY DEF GatewayTypes
<1>2. RunsOK(node.run, run, tool)' /\ StepOK(node, run)' /\ NewsOK(node, run, tool, news)'
  BY DEF RunsOK, StepOK, NewsOK
<1>3. DoneOK' /\ Gateway!FinalIsSaved' /\ Gateway!SafeIsTrue'
  BY DEF DoneOK, Gateway!FinalIsSaved, Gateway!SafeIsTrue
<1> QED BY <1>1, <1>2, <1>3

\* The stream ends: an accepted run may be stopped, none is started.
LEMMA StreamEnds ==
    ASSUME GatewayInv, node.pc # "settled",
           NEW outcome \in {"final", "error", "silent", "aborted", "closed"},
           NEW safe \in BOOLEAN, NEW terminal,
           outcome = "final" => py.run \in saved,
           safe => tool = {} /\ Gateway!Live = {},
           Gateway!LeaveWith(outcome, safe, terminal), UNCHANGED <<tool, saved>>
    PROVE  GatewayInv'
<1> USE DEF GatewayInv
<1> DEFINE k == [node EXCEPT !.pc = "settled"]
<1>1. k \in ClientStates /\ k.pc = "settled" /\ k.run = node.run
  BY DEF GatewayTypes, ClientStates, ClientSteps
<1>2. node' = k
  BY DEF Gateway!LeaveWith
<1> HIDE DEF k
<1> DEFINE p == [py EXCEPT !.pc = "done", !.outcome = outcome, !.safe = safe]
<1>3. p \in StreamStates /\ p.pc = "done" /\ p.outcome = outcome /\ p.safe = safe /\ p.run = py.run
  BY DEF GatewayTypes, StreamStates
<1>4. py' = p
  BY DEF Gateway!LeaveWith
<1> HIDE DEF p
<1>5. /\ run' \in [Gateway!Runs -> {"none", "queued", "working", "ended"}]
      /\ \A r \in Gateway!Runs : run'[r] = run[r] \/ (run[r] \in {"queued", "working"} /\ run'[r] = "ended")
  BY DEF Gateway!LeaveWith, GatewayTypes
<1>6. GatewayTypes'
  BY <1>1, <1>2, <1>3, <1>4, <1>5 DEF GatewayTypes
<1>7. RunsOK(node.run, run, tool)'
  BY <1>1, <1>2, <1>5 DEF RunsOK
<1>8. StepOK(node, run)' /\ NewsOK(node, run, tool, news)'
  BY <1>1, <1>2 DEF StepOK, NewsOK, Unsaid, Over
<1>9. DoneOK'
  BY <1>1, <1>2, <1>3, <1>4 DEF DoneOK
<1>10. Gateway!SafeIsTrue'
  BY <1>3, <1>4, <1>5 DEF Gateway!SafeIsTrue, Gateway!Live
<1>11. Gateway!FinalIsSaved'
  BY <1>3, <1>4 DEF Gateway!FinalIsSaved
<1> QED BY <1>6, <1>7, <1>8, <1>9, <1>10, <1>11

\* An error ends the stream or, before the message was sent, starts the client
\* again.
LEMMA ErrorKeeps ==
    ASSUME Gateway!GatewayAssumption, GatewayInv, node.pc # "settled",
           NEW connection, NEW stage, NEW safe \in BOOLEAN,
           stage \in Gateway!RetryStages => stage = node.pc,
           safe => tool = {} /\ Gateway!Live = {},
           Gateway!EndsInError(connection, stage, safe), UNCHANGED <<tool, saved>>
    PROVE  GatewayInv'
<1>1. CASE Gateway!Recovered /\ Gateway!LeaveWith("final", FALSE, TRUE)
  BY <1>1, StreamEnds DEF Gateway!Recovered
<1>2. CASE Gateway!LeaveWith("error", safe, FALSE)
  BY <1>2, StreamEnds
<1>3. CASE Gateway!LeaveWith("error", FALSE, FALSE)
  BY <1>3, StreamEnds
<1>4. CASE /\ Gateway!ShouldRetry(stage)
           /\ py' = [py EXCEPT !.attempt = @ + 1]
           /\ node' = Gateway!Fresh
           /\ news' = {}
           /\ UNCHANGED run
  <2> USE DEF GatewayInv
  <2>1. node.pc \in {"connect", "bind"}
    BY <1>4 DEF Gateway!ShouldRetry, Gateway!RetryStages
  <2>2. tool = {} /\ \A r \in Gateway!Runs : run[r] = "none"
    BY <2>1, NothingSent DEF Unsaid
  <2>3. 1 \in Gateway!Runs /\ \A r \in Gateway!Runs : r \in Nat /\ ~(r < 1)
    BY DEF Gateway!GatewayAssumption, Gateway!Runs
  <2>4. py.attempt + 1 \in Nat
    BY DEF GatewayTypes, StreamStates
  <2> DEFINE p == [py EXCEPT !.attempt = py.attempt + 1]
  <2>5. /\ p \in StreamStates /\ p.pc = py.pc /\ p.outcome = py.outcome
        /\ p.run = py.run
    BY <2>4 DEF GatewayTypes, StreamStates
  <2>6. py' = p
    BY <1>4
  <2> HIDE DEF p
  <2>7. GatewayTypes'
    BY <1>4, <2>5, <2>6, FreshIsTyped DEF GatewayTypes
  <2>8. RunsOK(node.run, run, tool)' /\ StepOK(node, run)' /\ NewsOK(node, run, tool, news)'
    BY <1>4, <2>2, <2>3, FreshIsTyped DEF RunsOK, StepOK, NewsOK, Unsaid, Over
  <2>9. py.pc = "stream" /\ py.outcome = "none"
    BY <2>1 DEF DoneOK, GatewayTypes, StreamStates
  <2>10. DoneOK' /\ Gateway!SafeIsTrue' /\ Gateway!FinalIsSaved'
    BY <1>4, <2>5, <2>6, <2>9, FreshIsTyped DEF DoneOK, Gateway!SafeIsTrue, Gateway!FinalIsSaved
  <2> QED BY <2>7, <2>8, <2>10
<1> QED BY <1>1, <1>2, <1>3, <1>4 DEF Gateway!EndsInError

\* A step of the client that only moves it on: what it knows of its run and of
\* the tools is as it was.
LEMMA ClientGoesOn ==
    ASSUME GatewayInv, node.pc # "settled",
           NEW to \in ClientSteps \ {"settled"},
           NEW purpose \in {"none", "preflight", "startup_recovery", "startup_final", "timeout"},
           node' = [node EXCEPT !.pc = to, !.purpose = purpose],
           UNCHANGED <<run, tool, saved, py>>,
           news' = news \/ (news' = {} /\ "tool" \notin news),
           to \in {"connect", "bind"} \/ (to = "idle" /\ purpose = "preflight") => Unsaid(node),
           to = "send" => run[node.run] = "none",
           to \in {"sent", "run", "probe"} => run[node.run] # "none",
           to \in {"evidence", "aborted"} \/ (to = "idle" /\ purpose # "preflight")
              => run[node.run] = "ended"
    PROVE  GatewayInv'
<1> DEFINE k == [node EXCEPT !.pc = to, !.purpose = purpose]
<1>1. /\ k \in ClientStates /\ k.pc = to /\ k.run = node.run /\ k.purpose = purpose
      /\ k.tool = node.tool
  BY DEF GatewayInv, GatewayTypes, ClientStates
<1>2. node' = k
  OBVIOUS
<1> HIDE DEF k
<1>3. StepOK(k, run)
  BY <1>1 DEF GatewayInv, StepOK, Unsaid, Over
<1>4. NewsOK(k, run, tool, news')
  BY <1>1 DEF GatewayInv, NewsOK
<1> QED BY <1>1, <1>2, <1>3, <1>4, ClientMoves

LEMMA PreflightKeeps ==
    ASSUME GatewayInv, Gateway!PreflightAbort
    PROVE  GatewayInv'
<1>1. Unsaid(node) /\ node.pc # "settled"
  BY DEF Gateway!PreflightAbort, Unsaid
<1>2. run' = run
  BY <1>1, NothingSent DEF Gateway!PreflightAbort, GatewayInv, GatewayTypes
<1>3. "idle" \in ClientSteps \ {"settled"}
  BY DEF ClientSteps
<1> QED BY <1>1, <1>2, <1>3, ClientGoesOn DEF Gateway!PreflightAbort

LEMMA IdleKeeps ==
    ASSUME Gateway!GatewayAssumption, GatewayInv, Gateway!SessionIdle \/ Gateway!SessionBusy
    PROVE  GatewayInv'
<1>1. CASE Gateway!SessionIdle
  <2> DEFINE to == IF node.purpose = "preflight" THEN "bind" ELSE "evidence"
  <2>1. to \in ClientSteps \ {"settled"}
    BY DEF ClientSteps
  <2>2. node' = [node EXCEPT !.pc = to, !.purpose = "none"] /\ node.pc = "idle"
    BY <1>1 DEF Gateway!SessionIdle
  <2>3. to = "bind" => Unsaid(node)
    BY <2>2 DEF Unsaid
  <2>4. to = "evidence" => run[node.run] = "ended"
    BY <2>2 DEF GatewayInv, StepOK, Over
  <2>5. to \in {"bind", "evidence"}
    OBVIOUS
  <2>6. UNCHANGED <<run, tool, saved, py, news>>
    BY <1>1 DEF Gateway!SessionIdle
  <2> HIDE DEF to
  <2> QED BY <2>1, <2>2, <2>3, <2>4, <2>5, <2>6, ClientGoesOn
<1>2. CASE Gateway!SessionBusy
  BY <1>2, ErrorKeeps DEF Gateway!SessionBusy, Gateway!RetryStages
<1> QED BY <1>1, <1>2

LEMMA RebindKeeps ==
    ASSUME Gateway!GatewayAssumption, GatewayInv, Gateway!Bind \/ Gateway!BindForbidden
    PROVE  GatewayInv'
<1>0. node.pc = "bind" /\ UNCHANGED <<tool, saved>> /\ Unsaid(node)
  BY DEF Gateway!Bind, Gateway!BindForbidden, Unsaid
<1>1. CASE Gateway!Bind
  <2> DEFINE k == [node EXCEPT !.pc = "send"]
  <2>1. k \in ClientStates /\ k.pc = "send" /\ k.run = node.run /\ k.tool = node.tool
    BY DEF GatewayInv, GatewayTypes, ClientStates, ClientSteps
  <2>2. node' = k /\ UNCHANGED <<run, tool, saved, py, news>>
    BY <1>1 DEF Gateway!Bind
  <2> HIDE DEF k
  <2>3. StepOK(k, run)
    BY <1>0, <2>1 DEF GatewayInv, StepOK, Unsaid, Over
  <2>4. NewsOK(k, run, tool, news')
    BY <1>0, <2>1, <2>2 DEF GatewayInv, NewsOK
  <2> QED BY <1>0, <2>1, <2>2, <2>3, <2>4, ClientMoves
<1>2. CASE node' = [node EXCEPT !.rebound = TRUE] /\ UNCHANGED <<run, news, py>>
  <2> DEFINE k == [node EXCEPT !.rebound = TRUE]
  <2>1. k \in ClientStates /\ k.pc = "bind" /\ k.run = node.run /\ k.tool = node.tool
    BY <1>0 DEF GatewayInv, GatewayTypes, ClientStates, ClientSteps
  <2>2. node' = k
    BY <1>2
  <2> HIDE DEF k
  <2>3. StepOK(k, run)
    BY <1>0, <2>1 DEF GatewayInv, StepOK, Unsaid, Over
  <2>4. NewsOK(k, run, tool, news')
    BY <1>0, <1>2, <2>1 DEF GatewayInv, NewsOK
  <2> QED BY <1>0, <1>2, <2>1, <2>2, <2>3, <2>4, ClientMoves
<1>3. CASE Gateway!EndsInError(FALSE, "forbidden", FALSE)
  BY <1>0, <1>3, ErrorKeeps DEF Gateway!RetryStages
<1> QED BY <1>1, <1>2, <1>3 DEF Gateway!BindForbidden

LEMMA MessageKeepsOn ==
    ASSUME GatewayInv, Gateway!Send
    PROVE  GatewayInv'
<1> USE DEF GatewayInv
<1>0. /\ node.run \in Gateway!Runs /\ node.run \in Nat
      /\ \A r \in Gateway!Runs : r \in Nat
  BY DEF GatewayTypes, ClientStates, Gateway!Runs
<1>1. node.pc = "send" /\ run[node.run] = "none" /\ UNCHANGED <<tool, saved, news, py>>
  BY DEF Gateway!Send, StepOK
<1> DEFINE k == [node EXCEPT !.pc = "sent"]
<1>2. k \in ClientStates /\ k.pc = "sent" /\ k.run = node.run /\ k.tool = node.tool
  BY DEF GatewayTypes, ClientStates, ClientSteps
<1>3. node' = k
  BY DEF Gateway!Send
<1> HIDE DEF k
<1>4. run' = [run EXCEPT ![node.run] = "queued"]
  BY <1>0, <1>1 DEF Gateway!Send
<1>5. /\ run' \in [Gateway!Runs -> {"none", "queued", "working", "ended"}]
      /\ run'[node.run] = "queued"
      /\ \A r \in Gateway!Runs : r # node.run => run'[r] = run[r]
  BY <1>0, <1>4 DEF GatewayTypes
<1>6. GatewayTypes'
  BY <1>1, <1>2, <1>3, <1>5 DEF GatewayTypes
<1>7. RunsOK(node.run, run, tool)'
  BY <1>0, <1>1, <1>2, <1>3, <1>5 DEF RunsOK
<1>8. StepOK(node, run)' /\ NewsOK(node, run, tool, news)'
  BY <1>1, <1>2, <1>3, <1>5 DEF StepOK, NewsOK, Unsaid, Over
<1>9. py.pc = "stream" /\ py.outcome = "none"
  BY <1>1 DEF DoneOK, GatewayTypes, StreamStates
<1>10. DoneOK' /\ Gateway!SafeIsTrue' /\ Gateway!FinalIsSaved'
  BY <1>1, <1>2, <1>3, <1>9 DEF DoneOK, Gateway!SafeIsTrue, Gateway!FinalIsSaved
<1> QED BY <1>6, <1>7, <1>8, <1>10

LEMMA AcceptKeeps ==
    ASSUME GatewayInv, Gateway!Accept
    PROVE  GatewayInv'
<1> USE DEF GatewayInv
<1>1. node.pc = "sent" /\ UNCHANGED <<run, tool, saved, news>>
  BY DEF Gateway!Accept
<1> DEFINE k == [node EXCEPT !.pc = "run", !.accepted = TRUE]
<1>2. k \in ClientStates /\ k.pc = "run" /\ k.run = node.run /\ k.tool = node.tool
  BY DEF GatewayTypes, ClientStates, ClientSteps
<1>3. node' = k
  BY DEF Gateway!Accept
<1> HIDE DEF k
<1> DEFINE p == [py EXCEPT !.run = node.run]
<1>4. p \in StreamStates /\ p.pc = py.pc /\ p.outcome = py.outcome
  BY DEF GatewayTypes, StreamStates, ClientStates
<1>5. py' = p
  BY DEF Gateway!Accept
<1> HIDE DEF p
<1>6. GatewayTypes'
  BY <1>1, <1>2, <1>3, <1>4, <1>5 DEF GatewayTypes
<1>7. RunsOK(node.run, run, tool)' /\ StepOK(node, run)' /\ NewsOK(node, run, tool, news)'
  BY <1>1, <1>2, <1>3 DEF RunsOK, StepOK, NewsOK, Unsaid, Over
<1>8. py.pc = "stream" /\ py.outcome = "none"
  BY <1>1 DEF DoneOK, GatewayTypes, StreamStates
<1>9. DoneOK' /\ Gateway!SafeIsTrue' /\ Gateway!FinalIsSaved'
  BY <1>2, <1>3, <1>4, <1>5, <1>8 DEF DoneOK, Gateway!SafeIsTrue, Gateway!FinalIsSaved
<1> QED BY <1>6, <1>7, <1>9

\* The events of the run.
LEMMA EventsKeep ==
    ASSUME GatewayInv,
           (\E e \in news : Gateway!Deliver(e)) \/ Gateway!DeliverFinal \/ Gateway!DeliverAborted
    PROVE  GatewayInv'
<1>0. node.tool \in BOOLEAN
  BY DEF GatewayInv, GatewayTypes, ClientStates
<1>1. ASSUME NEW e \in news, Gateway!Deliver(e) PROVE GatewayInv'
  <2> DEFINE k == [node EXCEPT !.progress = TRUE, !.tool = node.tool \/ e = "tool"]
  <2>1. /\ k \in ClientStates /\ k.pc = node.pc /\ k.run = node.run /\ k.purpose = node.purpose
        /\ k.tool = (node.tool \/ e = "tool")
    BY <1>0 DEF GatewayInv, GatewayTypes, ClientStates
  <2>2. /\ node' = k /\ UNCHANGED <<run, tool, saved, py>> /\ news' = news \ {e}
        /\ node.pc # "settled"
    BY <1>1 DEF Gateway!Deliver
  <2> HIDE DEF k
  <2>3. StepOK(k, run)
    BY <2>1 DEF GatewayInv, StepOK, Unsaid, Over
  <2>4. NewsOK(k, run, tool, news')
    BY <2>1, <2>2 DEF GatewayInv, NewsOK
  <2> QED BY <2>1, <2>2, <2>3, <2>4, ClientMoves
<1>2. CASE Gateway!DeliverFinal
  <2>1. node.pc # "settled" /\ UNCHANGED <<tool, saved>>
    BY <1>2 DEF Gateway!DeliverFinal
  <2>2. CASE Gateway!LeaveWith("silent", FALSE, FALSE) \/ Gateway!LeaveWith("error", FALSE, TRUE)
    BY <2>1, <2>2, StreamEnds
  <2>3. CASE Gateway!Recovered /\ Gateway!LeaveWith("final", FALSE, TRUE)
    BY <2>1, <2>3, StreamEnds DEF Gateway!Recovered
  <2> QED BY <1>2, <2>2, <2>3 DEF Gateway!DeliverFinal
<1>3. CASE Gateway!DeliverAborted
  <2>1. /\ node.pc # "settled" /\ UNCHANGED <<tool, saved>>
        /\ "aborted" \in news /\ "tool" \notin news
        /\ Gateway!LeaveWith("aborted", ~node.tool, TRUE)
    BY <1>3 DEF Gateway!DeliverAborted
  <2>2. Gateway!Live = {}
    BY <2>1, NothingLives DEF GatewayInv, NewsOK
  <2>3. ~node.tool => tool = {}
    BY <2>1, NothingHappened
  <2>4. (~node.tool) \in BOOLEAN
    BY <1>0
  <2> QED BY <2>1, <2>2, <2>3, <2>4, StreamEnds
<1> QED BY <1>1, <1>2, <1>3

\* The watch over the start of the run.
LEMMA WatchKeeps ==
    ASSUME GatewayInv,
           \/ Gateway!StartupTimer \/ Gateway!StartupProbe \/ Gateway!ProbeTimeout
           \/ Gateway!RunTimeout
    PROVE  GatewayInv'
<1> USE DEF GatewayInv
<1>0. /\ node.pc \in {"run", "probe"} /\ UNCHANGED <<run, tool, saved, py, news>>
      /\ run[node.run] # "none" /\ node.run \in Gateway!Runs
  BY DEF Gateway!StartupTimer, Gateway!StartupProbe, Gateway!ProbeTimeout, Gateway!RunTimeout,
         StepOK, GatewayTypes, ClientStates
<1>1. ASSUME NEW to \in {"run", "probe", "abort", "evidence"},
             to = "evidence" => Gateway!Live = {},
             node' = [node EXCEPT !.pc = to]
      PROVE  GatewayInv'
  <2> DEFINE k == [node EXCEPT !.pc = to]
  <2>1. k \in ClientStates /\ k.pc = to /\ k.run = node.run /\ k.tool = node.tool
    BY <1>1 DEF GatewayTypes, ClientStates, ClientSteps
  <2>2. node' = k
    BY <1>1
  <2> HIDE DEF k
  <2>3. to = "evidence" => run[node.run] = "ended"
    BY <1>0, <1>1 DEF Gateway!Live, GatewayTypes
  <2>4. StepOK(k, run)
    BY <1>0, <1>1, <2>1, <2>3 DEF StepOK, Unsaid, Over
  <2>5. NewsOK(k, run, tool, news')
    BY <1>0, <2>1 DEF NewsOK
  <2> QED BY <1>0, <1>1, <2>1, <2>2, <2>4, <2>5, ClientMoves
<1>2. ASSUME NEW purpose \in {"startup_recovery", "startup_final", "timeout"},
             node' = [node EXCEPT !.pc = "abort", !.purpose = purpose]
      PROVE  GatewayInv'
  <2>1. "abort" \in ClientSteps \ {"settled"}
    BY DEF ClientSteps
  <2> QED BY <1>0, <1>2, <2>1, ClientGoesOn
<1>3. CASE Gateway!StartupTimer
  BY <1>1, <1>3 DEF Gateway!StartupTimer
<1>4. CASE Gateway!RunTimeout
  BY <1>2, <1>4 DEF Gateway!RunTimeout
<1>5. CASE Gateway!ProbeTimeout
  BY <1>2, <1>5 DEF Gateway!ProbeTimeout
<1>6. CASE Gateway!StartupProbe
  BY <1>1, <1>2, <1>6 DEF Gateway!StartupProbe
<1> QED BY <1>3, <1>4, <1>5, <1>6

\* The host stops the run.
LEMMA HostAbortsKeeps ==
    ASSUME GatewayInv, Gateway!HostAborts
    PROVE  GatewayInv'
<1> USE DEF GatewayInv
<1>0. /\ node.run \in Gateway!Runs /\ node.run \in Nat
      /\ \A r \in Gateway!Runs : r \in Nat
  BY DEF GatewayTypes, ClientStates, Gateway!Runs
<1>1. node.pc = "abort" /\ UNCHANGED <<tool, saved, news, py>>
  BY DEF Gateway!HostAborts
<1> DEFINE to == IF run[node.run] = "ended" THEN "refused" ELSE "aborted"
<1> DEFINE k == [node EXCEPT !.pc = to]
<1>2. /\ k \in ClientStates /\ k.pc \in {"refused", "aborted"} /\ k.run = node.run
      /\ k.tool = node.tool
  BY DEF GatewayTypes, ClientStates, ClientSteps
<1>3. node' = k
  BY DEF Gateway!HostAborts
<1> HIDE DEF k, to
<1>4. /\ run' \in [Gateway!Runs -> {"none", "queued", "working", "ended"}]
      /\ run'[node.run] = "ended"
      /\ \A r \in Gateway!Runs : r # node.run => run'[r] = run[r]
  BY <1>0 DEF GatewayTypes, Gateway!HostAborts
<1>6. GatewayTypes'
  BY <1>1, <1>2, <1>3, <1>4 DEF GatewayTypes
<1>7. RunsOK(node.run, run, tool)'
  BY <1>0, <1>1, <1>2, <1>3, <1>4 DEF RunsOK
<1>8. StepOK(node, run)' /\ NewsOK(node, run, tool, news)'
  BY <1>1, <1>2, <1>3, <1>4 DEF StepOK, NewsOK, Unsaid, Over
<1>9. py.pc = "stream" /\ py.outcome = "none"
  BY <1>1 DEF DoneOK, GatewayTypes, StreamStates
<1>10. DoneOK' /\ Gateway!SafeIsTrue' /\ Gateway!FinalIsSaved'
  BY <1>1, <1>2, <1>3, <1>9 DEF DoneOK, Gateway!SafeIsTrue, Gateway!FinalIsSaved
<1> QED BY <1>6, <1>7, <1>8, <1>10

\* The answer to the stop, or none.
LEMMA AbortKeeps ==
    ASSUME Gateway!GatewayAssumption, GatewayInv,
           Gateway!AbortAnswered \/ Gateway!AbortUnanswered
    PROVE  GatewayInv'
<1>0. node.tool \in BOOLEAN /\ node.pc # "settled" /\ UNCHANGED <<tool, saved>>
  BY DEF GatewayInv, GatewayTypes, ClientStates, Gateway!AbortAnswered, Gateway!AbortUnanswered
<1>1. CASE Gateway!AbortUnanswered
  <2>1. Gateway!SafeToRetry(FALSE) = FALSE
    BY DEF Gateway!SafeToRetry
  <2> QED BY <1>0, <1>1, <2>1, ErrorKeeps DEF Gateway!AbortUnanswered, Gateway!RetryStages
<1>2. CASE Gateway!AbortAnswered
  <2>1. "tool" \notin news
    BY <1>2 DEF Gateway!AbortAnswered
  <2>2. CASE /\ node.pc = "aborted" /\ node.purpose = "startup_recovery"
             /\ node' = [node EXCEPT !.pc = "idle"] /\ news' = {} /\ UNCHANGED <<run, py>>
    <3> DEFINE k == [node EXCEPT !.pc = "idle"]
    <3>1. /\ k \in ClientStates /\ k.pc = "idle" /\ k.run = node.run /\ k.tool = node.tool
          /\ k.purpose = "startup_recovery"
      BY <2>2 DEF GatewayInv, GatewayTypes, ClientStates, ClientSteps
    <3>2. node' = k
      BY <2>2
    <3> HIDE DEF k
    <3>3. StepOK(k, run)
      BY <2>2, <3>1 DEF GatewayInv, StepOK, Unsaid, Over
    <3>4. NewsOK(k, run, tool, news')
      BY <1>0, <2>1, <2>2, <3>1 DEF GatewayInv, NewsOK
    <3> QED BY <1>0, <2>2, <3>1, <3>2, <3>3, <3>4, ClientMoves
  <2>3. CASE Gateway!EndsInError(FALSE, "abort", Gateway!SafeToRetry(node.pc = "aborted"))
    <3> DEFINE safe == Gateway!SafeToRetry(node.pc = "aborted")
    <3>1. safe \in BOOLEAN /\ (safe => node.pc = "aborted" /\ ~node.tool)
      BY <1>0 DEF Gateway!SafeToRetry
    <3>2. Gateway!EndsInError(FALSE, "abort", safe)
      BY <2>3
    <3> HIDE DEF safe
    <3>3. safe => tool = {}
      BY <1>0, <2>1, <3>1, NothingHappened
    <3>4. safe => Gateway!Live = {}
      BY <3>1, NothingLives DEF GatewayInv, StepOK, Over
    <3> QED BY <1>0, <3>1, <3>2, <3>3, <3>4, ErrorKeeps DEF Gateway!RetryStages
  <2> QED BY <1>2, <2>2, <2>3 DEF Gateway!AbortAnswered
<1> QED BY <1>1, <1>2

\* The message goes out again under the next key.
LEMMA EvidenceKeeps ==
    ASSUME Gateway!GatewayAssumption, GatewayInv,
           Gateway!Evidence \/ Gateway!EvidenceUnavailable
    PROVE  GatewayInv'
<1> USE DEF GatewayInv
<1>0. /\ node.pc = "evidence" /\ UNCHANGED <<tool, saved>>
      /\ run[node.run] = "ended"
  BY DEF Gateway!Evidence, Gateway!EvidenceUnavailable, StepOK, Over
<1>1. CASE Gateway!EndsInError(FALSE, "recovery_evidence", FALSE)
  BY <1>0, <1>1, ErrorKeeps DEF Gateway!RetryStages
<1>2. CASE /\ node.run \notin tool /\ node.run < MaxRuns
           /\ node' = [Gateway!Fresh EXCEPT !.pc = "send", !.run = node.run + 1, !.used = TRUE,
                                            !.rebound = node.rebound]
           /\ news' = {} /\ UNCHANGED <<run, py>>
  <2>1. /\ node.run \in Nat /\ node.run + 1 \in Gateway!Runs /\ node.run < node.run + 1
        /\ node.rebound \in BOOLEAN /\ node.run \in Gateway!Runs
        /\ \A r \in Gateway!Runs : r \in Nat
    BY <1>2 DEF GatewayTypes, ClientStates, Gateway!Runs, Gateway!GatewayAssumption
  <2> DEFINE k == [Gateway!Fresh EXCEPT !.pc = "send", !.run = node.run + 1, !.used = TRUE,
                                        !.rebound = node.rebound]
  <2>2. k \in ClientStates /\ k.pc = "send" /\ k.run = node.run + 1
    BY <2>1, FreshIsTyped DEF ClientStates, ClientSteps
  <2>3. node' = k
    BY <1>2
  <2> HIDE DEF k
  <2>4. GatewayTypes'
    BY <1>0, <1>2, <2>2, <2>3 DEF GatewayTypes
  <2>5. \A r \in Gateway!Runs : r < node.run + 1 <=> r < node.run \/ r = node.run
    BY <2>1
  <2>6. \A r \in Gateway!Runs : r > node.run + 1 => r > node.run
    BY <2>1
  <2>7. RunsOK(node.run, run, tool)'
    BY <1>0, <1>2, <2>1, <2>2, <2>3, <2>5, <2>6 DEF RunsOK
  <2>8. run[node.run + 1] = "none" /\ node.run + 1 \notin tool
    BY <2>1 DEF RunsOK
  <2>9. StepOK(node, run)' /\ NewsOK(node, run, tool, news)'
    BY <1>0, <1>2, <2>2, <2>3, <2>8 DEF StepOK, NewsOK, Unsaid, Over
  <2>10. py.pc = "stream" /\ py.outcome = "none"
    BY <1>0 DEF DoneOK, GatewayTypes, StreamStates
  <2>11. DoneOK' /\ Gateway!SafeIsTrue' /\ Gateway!FinalIsSaved'
    BY <1>2, <2>2, <2>3, <2>10 DEF DoneOK, Gateway!SafeIsTrue, Gateway!FinalIsSaved
  <2> QED BY <2>4, <2>7, <2>9, <2>11
<1> QED BY <1>1, <1>2 DEF Gateway!Evidence, Gateway!EvidenceUnavailable, Gateway!ToolEvidence

\* The errors that may come at any time.
LEMMA BreaksKeep ==
    ASSUME Gateway!GatewayAssumption, GatewayInv,
           Gateway!AcceptTimeout \/ Gateway!Breaks \/ Gateway!CallerLeaves
    PROVE  GatewayInv'
<1>1. CASE Gateway!AcceptTimeout
  BY <1>1, ErrorKeeps DEF Gateway!AcceptTimeout, Gateway!RetryStages
<1>2. CASE Gateway!Breaks
  BY <1>2, ErrorKeeps DEF Gateway!Breaks
<1>3. CASE Gateway!CallerLeaves
  <2>1. node.pc # "settled"
    BY <1>3 DEF Gateway!CallerLeaves, GatewayInv, DoneOK
  <2> QED BY <1>3, <2>1, StreamEnds DEF Gateway!CallerLeaves
<1> QED BY <1>1, <1>2, <1>3

LEMMA GatewayInvariant ==
    ASSUME Gateway!GatewayAssumption
    PROVE  Gateway!Spec => []GatewayInv
<1>1. Gateway!Init => GatewayInv
  BY GatewayInit
<1>2. ASSUME GatewayInv, [Gateway!Next]_(Gateway!vars) PROVE GatewayInv'
  <2>1. CASE UNCHANGED Gateway!vars
    BY <1>2, <2>1 DEF Gateway!vars, GatewayInv, GatewayTypes, DoneOK, RunsOK, StepOK, NewsOK,
         Unsaid, Over, Gateway!SafeIsTrue, Gateway!FinalIsSaved, Gateway!Live
  <2>2. CASE Gateway!NodeStep
    BY <1>2, <2>2, PreflightKeeps, IdleKeeps, RebindKeeps, MessageKeepsOn, AcceptKeeps, EventsKeep,
       WatchKeeps, HostAbortsKeeps, AbortKeeps, EvidenceKeeps, BreaksKeep DEF Gateway!NodeStep
  <2> QED BY <1>2, <2>1, <2>2, HostStepKeeps, BreaksKeep DEF Gateway!Next
<1> QED BY <1>1, <1>2, PTL DEF Gateway!Spec

\* See SafeRetriesAreSafe below.
LEMMA SafeRetriesAreSafeAlone ==
    ASSUME Gateway!GatewayAssumption
    PROVE  Gateway!Spec => []Gateway!SafeIsTrue
BY GatewayInvariant, PTL DEF GatewayInv

\* A message whose run has reached a business tool is not sent a second time
\* under another key.
THEOREM ToolsAreNotReplayed ==
    ASSUME Gateway!GatewayAssumption
    PROVE  Gateway!Spec => []Gateway!NoReplayAfterTool
<1>1. ASSUME GatewayInv PROVE Gateway!NoReplayAfterTool
  <2>1. SUFFICES ASSUME NEW r \in Gateway!Runs, NEW q \in Gateway!Runs, r < q, run[q] # "none"
                 PROVE  r \notin tool
    BY DEF Gateway!NoReplayAfterTool
  <2>2. r \in Nat /\ q \in Nat /\ node.run \in Nat
    BY <1>1 DEF GatewayInv, GatewayTypes, ClientStates, Gateway!Runs
  <2>3. ~(q > node.run)
    BY <1>1, <2>1 DEF GatewayInv, RunsOK
  <2>4. r < node.run
    BY <2>1, <2>2, <2>3
  <2> QED BY <1>1, <2>4 DEF GatewayInv, RunsOK
<1> QED BY <1>1, GatewayInvariant, PTL

\* A final answer is the persisted one of the run that was accepted last.
THEOREM FinalsAreSaved ==
    ASSUME Gateway!GatewayAssumption
    PROVE  Gateway!Spec => []Gateway!FinalIsSaved
BY GatewayInvariant, PTL DEF GatewayInv

Events == {"progress", "tool", "final", "aborted"}

\* What was saved, what is to be delivered and how often was tried stay in
\* their domains.
StreamOK ==
    /\ saved \subseteq Gateway!Runs /\ news \subseteq Events
    /\ py.attempt \in 1..MaxSends

LEMMA StreamKeeps ==
    ASSUME Gateway!GatewayAssumption, GatewayInv, StreamOK, [Gateway!Next]_(Gateway!vars)
    PROVE  StreamOK'
<1>1. /\ saved' = saved \/ \E r \in Gateway!Runs : saved' = saved \cup {r}
      /\ \/ news' \subseteq news \/ news' = {}
         \/ \E how \in Events : news' \in {news \cup {"progress"}, news \cup {"progress", how}}
      /\ \/ py' = py
         \/ \E outcome, safe :
               py' = [py EXCEPT !.pc = "done", !.outcome = outcome, !.safe = safe]
         \/ py.attempt < MaxSends /\ py' = [py EXCEPT !.attempt = @ + 1]
         \/ py' = [py EXCEPT !.run = node.run]
  <2> USE DEF Gateway!Next, Gateway!vars, Gateway!HostStep, Gateway!NodeStep, Gateway!HostStarts,
              Gateway!HostCallsTool, Gateway!HostEnds, Gateway!OtherRun, Gateway!PreflightAbort,
              Gateway!SessionIdle, Gateway!SessionBusy, Gateway!Bind, Gateway!BindForbidden,
              Gateway!Send, Gateway!Accept, Gateway!AcceptTimeout, Gateway!Deliver,
              Gateway!DeliverFinal, Gateway!DeliverAborted, Gateway!StartupTimer,
              Gateway!StartupProbe, Gateway!ProbeTimeout, Gateway!RunTimeout, Gateway!HostAborts,
              Gateway!AbortAnswered, Gateway!AbortUnanswered, Gateway!Evidence,
              Gateway!EvidenceUnavailable, Gateway!Breaks, Gateway!CallerLeaves
  <2>1. saved' = saved \/ \E r \in Gateway!Runs : saved' = saved \cup {r}
    OBVIOUS
  <2>2. \/ news' \subseteq news \/ news' = {}
        \/ \E how \in Events : news' \in {news \cup {"progress"}, news \cup {"progress", how}}
    BY DEF Gateway!EndsInError, Gateway!LeaveWith, Events
  <2>3. \/ py' = py
        \/ \E outcome, safe :
              py' = [py EXCEPT !.pc = "done", !.outcome = outcome, !.safe = safe]
        \/ py.attempt < MaxSends /\ py' = [py EXCEPT !.attempt = @ + 1]
        \/ py' = [py EXCEPT !.run = node.run]
    BY DEF Gateway!EndsInError, Gateway!LeaveWith, Gateway!ShouldRetry
  <2> QED BY <2>1, <2>2, <2>3
<1>2. py \in StreamStates
  BY DEF GatewayInv, GatewayTypes
<1>3. py'.attempt = py.attempt \/ (py.attempt < MaxSends /\ py'.attempt = py.attempt + 1)
  BY <1>1, <1>2 DEF StreamStates
<1>4. MaxSends \in Nat
  BY DEF Gateway!GatewayAssumption
<1>5. py.attempt \in 1..MaxSends
  BY DEF StreamOK
<1>6. py'.attempt \in 1..MaxSends
  BY <1>3, <1>4, <1>5
<1>7. news' \subseteq Events
  BY <1>1 DEF StreamOK, Events
<1>8. saved' \subseteq Gateway!Runs
  BY <1>1 DEF StreamOK
<1> QED BY <1>6, <1>7, <1>8 DEF StreamOK

\* The runs and the stream keep to their domains.
LEMMA GatewayTypesHold ==
    ASSUME Gateway!GatewayAssumption
    PROVE  Gateway!Spec => []Gateway!TypeOK
<1>1. Gateway!Init => StreamOK
  BY DEF Gateway!Init, Gateway!GatewayAssumption, StreamOK
<1>2. ASSUME GatewayInv, StreamOK PROVE Gateway!TypeOK
  <2>1. py.run \in {0} \cup Gateway!Runs
    BY <1>2 DEF GatewayInv, GatewayTypes, StreamStates
  <2>2. py.run \in 0..MaxRuns
    BY <2>1 DEF Gateway!GatewayAssumption, Gateway!Runs
  <2> QED
    BY <1>2, <2>2 DEF GatewayInv, GatewayTypes, StreamOK, Events, Gateway!TypeOK
<1> QED BY <1>1, <1>2, StreamKeeps, GatewayInvariant, PTL DEF Gateway!Spec

(***************************************************************************)
(* The recovery points.                                                    *)
(***************************************************************************)

\* The variables of RecoveryPoint; report, faults are defined above.
live == v1
files == v2
snap == v3
manifests == v5
pull == v6
copies == v7
archives == v9
age == v10
drill == v11

USE DEF live, files, snap, manifests, pull, copies, archives, age, drill

\* Functions from a part of S.
Partial(S, T) == UNION {[D -> T] : D \in SUBSET S}

Tables == Partial(Dbs, Nat)
Bundles == [dbs : Tables, files : Nat, then : Tables]
Numbers == Generations \cup {Backup!NoGen}
Shelves == Partial(Numbers, Bundles)

BackupTypes ==
    /\ live \in [Dbs -> Nat]
    /\ files \in Nat
    /\ snap \in [pc : {"idle", "version", "pin", "archive", "manifest"}, gen : Numbers,
                 attempt : Nat, versions : Tables, files : Nat, pinned : Tables,
                 copied : Tables, then : Tables]
    /\ archives \in Shelves /\ manifests \in Shelves /\ copies \in Shelves
    /\ pull \in [pc : {"idle", "next"}, list : Shelves, gen : Numbers]

\* The reads of a snapshot come one after the other: the versions, the moment
\* the files are listed (then), the pins, and what is there now.
ReadsInOrder(s, l) ==
    /\ \A d \in DOMAIN s.versions : s.versions[d] <= l[d]
    /\ s.pc = "version" => s.pinned = Backup!Empty /\ s.copied = Backup!Empty
    /\ s.pc \in {"pin", "archive", "manifest"} =>
         /\ DOMAIN s.then = Dbs /\ DOMAIN s.versions = Dbs
         /\ \A d \in Dbs : s.versions[d] <= s.then[d] /\ s.then[d] <= l[d]
         /\ \A d \in DOMAIN s.pinned : s.then[d] <= s.pinned[d] /\ s.pinned[d] <= l[d]
         /\ \A d \in DOMAIN s.copied : s.copied[d] = s.then[d]
    /\ s.pc \in {"archive", "manifest"} => s.copied = s.then

\* What the collector has listed, and what it keeps, was published.
ListOK ==
    pull.pc = "next" =>
        /\ \A g \in DOMAIN pull.list : g \in DOMAIN manifests /\ pull.list[g] = manifests[g]
        /\ pull.gen # Backup!NoGen => pull.gen \in DOMAIN copies
CopiesOK == \A g \in DOMAIN copies : g \in DOMAIN manifests /\ copies[g] = manifests[g]

\* The inductive invariant of the recovery points.
BackupInv ==
    /\ BackupTypes
    /\ ReadsInOrder(snap, live)
    /\ ListOK
    /\ CopiesOK
    /\ Backup!OneMoment
    /\ Backup!ReportIsTrue

LEMMA EmptyIsPartial ==
    ASSUME NEW S, NEW T
    PROVE  Backup!Empty \in Partial(S, T) /\ DOMAIN Backup!Empty = {}
<1>1. Backup!Empty \in [{} -> T]
  BY DEF Backup!Empty
<1> QED BY <1>1 DEF Partial

LEMMA PartialFacts ==
    ASSUME NEW S, NEW T, NEW f \in Partial(S, T)
    PROVE  /\ DOMAIN f \subseteq S /\ f \in [DOMAIN f -> T]
           /\ \A x \in DOMAIN f : f[x] \in T
<1>1. PICK D \in SUBSET S : f \in [D -> T]
  BY DEF Partial
<1> QED BY <1>1

LEMMA PutFacts ==
    ASSUME NEW S, NEW T, NEW f \in Partial(S, T), NEW x \in S, NEW v \in T
    PROVE  /\ Backup!Put(f, x, v) \in Partial(S, T)
           /\ DOMAIN Backup!Put(f, x, v) = DOMAIN f \cup {x}
           /\ \A y \in DOMAIN f : Backup!Put(f, x, v)[y] = f[y]
           /\ x \notin DOMAIN f => Backup!Put(f, x, v)[x] = v
<1>1. DOMAIN f \subseteq S /\ \A y \in DOMAIN f : f[y] \in T
  BY PartialFacts
<1> DEFINE D == DOMAIN f \cup {x}
<1>2. D \in SUBSET S /\ Backup!Put(f, x, v) \in [D -> T]
  BY <1>1 DEF Backup!Put
<1>3. Backup!Put(f, x, v) \in Partial(S, T)
  BY <1>2 DEF Partial
<1> QED BY <1>3 DEF Backup!Put

LEMMA TablePut ==
    ASSUME NEW f \in Tables, NEW d \in Dbs, NEW n \in Nat
    PROVE  /\ Backup!Put(f, d, n) \in Tables
           /\ DOMAIN Backup!Put(f, d, n) = DOMAIN f \cup {d}
           /\ \A y \in DOMAIN f : Backup!Put(f, d, n)[y] = f[y]
           /\ d \notin DOMAIN f => Backup!Put(f, d, n)[d] = n
<1>1. f \in Partial(Dbs, Nat)
  BY DEF Tables
<1>2. Backup!Put(f, d, n) \in Partial(Dbs, Nat)
  BY <1>1, PutFacts
<1>3. DOMAIN f \subseteq Dbs
  BY <1>1, PartialFacts
<1> QED BY <1>2, <1>3 DEF Tables, Backup!Put

LEMMA ShelfPut ==
    ASSUME NEW f \in Shelves, NEW g \in Numbers, NEW b \in Bundles
    PROVE  /\ Backup!Put(f, g, b) \in Shelves
           /\ DOMAIN Backup!Put(f, g, b) = DOMAIN f \cup {g}
           /\ \A y \in DOMAIN f : Backup!Put(f, g, b)[y] = f[y]
           /\ g \notin DOMAIN f => Backup!Put(f, g, b)[g] = b
<1>1. f \in Partial(Numbers, Bundles)
  BY DEF Shelves
<1>2. Backup!Put(f, g, b) \in Partial(Numbers, Bundles)
  BY <1>1, PutFacts
<1> QED BY <1>2 DEF Shelves, Backup!Put

\* Two tables of the same databases that agree are the same table.
LEMMA TablesAgree ==
    ASSUME NEW f \in Tables, NEW g \in Tables, DOMAIN f = DOMAIN g,
           \A d \in DOMAIN f : f[d] = g[d]
    PROVE  f = g
<1>1. f \in [DOMAIN f -> Nat] /\ g \in [DOMAIN f -> Nat]
  BY PartialFacts DEF Tables
<1> QED BY <1>1

LEMMA LiveIsTable ==
    ASSUME BackupTypes
    PROVE  live \in Tables /\ DOMAIN live = Dbs
BY DEF BackupTypes, Tables, Partial

LEMMA BackupInit == Backup!Init => BackupInv
<1> SUFFICES ASSUME Backup!Init PROVE BackupInv
  OBVIOUS
<1>1. /\ live = [d \in Dbs |-> 0] /\ files = 0 /\ snap = Backup!Idle
      /\ archives = Backup!Empty /\ manifests = Backup!Empty /\ copies = Backup!Empty
      /\ pull = Backup!NoPull /\ report = Backup!NoGen
  BY DEF Backup!Init
<1>2. Backup!Empty \in Tables /\ Backup!Empty \in Shelves /\ DOMAIN Backup!Empty = {}
  BY EmptyIsPartial DEF Tables, Shelves
<1>3. /\ snap.pc = "idle" /\ snap.versions = Backup!Empty
      /\ pull.pc = "idle"
  BY <1>1 DEF Backup!Idle, Backup!NoPull
<1>4. BackupTypes
  BY <1>1, <1>2 DEF BackupTypes, Backup!Idle, Backup!NoPull, Numbers
<1>5. ReadsInOrder(snap, live)
  BY <1>2, <1>3 DEF ReadsInOrder
<1>6. ListOK /\ CopiesOK /\ Backup!OneMoment /\ Backup!ReportIsTrue
  BY <1>1, <1>2, <1>3 DEF ListOK, CopiesOK, Backup!OneMoment, Backup!ReportIsTrue
<1> QED BY <1>4, <1>5, <1>6 DEF BackupInv

LEMMA IdleSnapshot ==
    /\ Backup!Idle \in [pc : {"idle", "version", "pin", "archive", "manifest"}, gen : Numbers,
                        attempt : Nat, versions : Tables, files : Nat, pinned : Tables,
                        copied : Tables, then : Tables]
    /\ Backup!Idle.pc = "idle"
    /\ Backup!Idle.versions = Backup!Empty /\ Backup!Idle.pinned = Backup!Empty
    /\ Backup!Idle.copied = Backup!Empty
<1>1. Backup!Empty \in Tables
  BY EmptyIsPartial DEF Tables
<1> QED BY <1>1 DEF Backup!Idle, Numbers

\* The service writes: what a snapshot has read lies behind.
LEMMA WritesKeep ==
    ASSUME BackupInv, (\E d \in Dbs : Backup!Commit(d)) \/ Backup!ChangeFile
    PROVE  BackupInv'
<1> USE DEF BackupInv
<1>1. /\ UNCHANGED <<snap, archives, manifests, pull, copies, report>>
      /\ live' \in [Dbs -> Nat] /\ files' \in Nat
      /\ \A e \in Dbs : live[e] <= live'[e] /\ live[e] \in Nat /\ live'[e] \in Nat
  <2>1. ASSUME NEW d \in Dbs, Backup!Commit(d)
        PROVE  /\ UNCHANGED <<snap, archives, manifests, pull, copies, report>>
               /\ live' \in [Dbs -> Nat] /\ files' \in Nat
               /\ \A e \in Dbs : live[e] <= live'[e] /\ live[e] \in Nat /\ live'[e] \in Nat
    <3>1. /\ live' = [live EXCEPT ![d] = live[d] + 1] /\ files' = files
          /\ UNCHANGED <<snap, archives, manifests, pull, copies, report>>
      BY <2>1 DEF Backup!Commit
    <3>2. live \in [Dbs -> Nat] /\ files \in Nat
      BY DEF BackupTypes
    <3> QED BY <3>1, <3>2
  <2>2. CASE Backup!ChangeFile
    BY <2>2 DEF Backup!ChangeFile, BackupTypes
  <2> QED BY <2>1, <2>2
<1>2. BackupTypes'
  BY <1>1 DEF BackupTypes
<1>3. \A t \in Tables : DOMAIN t \subseteq Dbs /\ \A d \in DOMAIN t : t[d] \in Nat
  BY PartialFacts DEF Tables
<1>4. snap.versions \in Tables /\ snap.then \in Tables /\ snap.pinned \in Tables
  BY DEF BackupTypes
<1>5. /\ \A d \in DOMAIN snap.versions : d \in Dbs /\ snap.versions[d] \in Nat
      /\ \A d \in DOMAIN snap.then : d \in Dbs /\ snap.then[d] \in Nat
      /\ \A d \in DOMAIN snap.pinned : d \in Dbs /\ snap.pinned[d] \in Nat
  BY <1>3, <1>4
<1>6. ASSUME NEW n \in Nat, NEW d \in Dbs, n <= live[d] PROVE n <= live'[d]
  BY <1>1, <1>6
<1>7. ReadsInOrder(snap, live)'
  BY <1>1, <1>5, <1>6 DEF ReadsInOrder
<1> QED BY <1>1, <1>2, <1>7 DEF ListOK, CopiesOK, Backup!OneMoment, Backup!ReportIsTrue

\* A step of the snapshot alone.
LEMMA SnapMoves ==
    ASSUME BackupInv,
           NEW k \in [pc : {"idle", "version", "pin", "archive", "manifest"}, gen : Numbers,
                      attempt : Nat, versions : Tables, files : Nat, pinned : Tables,
                      copied : Tables, then : Tables],
           snap' = k, ReadsInOrder(k, live),
           UNCHANGED <<live, files, archives, manifests, pull, copies, report>>
    PROVE  BackupInv'
BY DEF BackupInv, BackupTypes, ListOK, CopiesOK, Backup!OneMoment, Backup!ReportIsTrue,
       ReadsInOrder

\* It starts, or starts over, or is given up.
LEMMA FromIdle ==
    ASSUME BackupInv, NEW g \in Numbers, NEW n \in Nat,
           \/ snap' = [Backup!Idle EXCEPT !.pc = "version", !.gen = g, !.attempt = n]
           \/ snap' = Backup!Idle,
           UNCHANGED <<live, files, archives, manifests, pull, copies, report>>
    PROVE  BackupInv'
<1>0. DOMAIN Backup!Empty = {}
  BY EmptyIsPartial
<1>1. CASE snap' = [Backup!Idle EXCEPT !.pc = "version", !.gen = g, !.attempt = n]
  <2> DEFINE k == [Backup!Idle EXCEPT !.pc = "version", !.gen = g, !.attempt = n]
  <2>1. /\ k \in [pc : {"idle", "version", "pin", "archive", "manifest"}, gen : Numbers,
                  attempt : Nat, versions : Tables, files : Nat, pinned : Tables,
                  copied : Tables, then : Tables]
        /\ k.pc = "version" /\ k.versions = Backup!Empty /\ k.pinned = Backup!Empty
        /\ k.copied = Backup!Empty
    BY IdleSnapshot
  <2>2. snap' = k
    BY <1>1
  <2> HIDE DEF k
  <2>3. ReadsInOrder(k, live)
    BY <1>0, <2>1 DEF ReadsInOrder
  <2> QED BY <2>1, <2>2, <2>3, SnapMoves
<1>2. CASE snap' = Backup!Idle
  <2>1. ReadsInOrder(Backup!Idle, live)
    BY <1>0, IdleSnapshot DEF ReadsInOrder
  <2> QED BY <1>2, <2>1, IdleSnapshot, SnapMoves
<1> QED BY <1>1, <1>2

LEMMA ConflictKeeps ==
    ASSUME BackupInv, Backup!Conflict, Backup!SnapOnly
    PROVE  BackupInv'
<1>1. snap.attempt + 1 \in Nat /\ snap.gen \in Numbers
  BY DEF BackupInv, BackupTypes
<1> QED BY <1>1, FromIdle DEF Backup!Conflict, Backup!SnapOnly

\* The versions are read, and the files are listed.
LEMMA VersionsKeep ==
    ASSUME BackupInv, (\E d \in Dbs : Backup!ReadVersion(d)) \/ Backup!Inventory
    PROVE  BackupInv'
<1> USE DEF BackupInv
<1>0. /\ snap.pc = "version" /\ UNCHANGED <<live, files, archives, manifests, pull, copies, report>>
      /\ live \in [Dbs -> Nat] /\ files \in Nat /\ live \in Tables /\ DOMAIN live = Dbs
      /\ snap.versions \in Tables
  BY LiveIsTable DEF Backup!ReadVersion, Backup!Inventory, Backup!SnapOnly, BackupTypes
<1>1. ASSUME NEW d \in Dbs, Backup!ReadVersion(d) PROVE BackupInv'
  <2> DEFINE t == Backup!Put(snap.versions, d, live[d])
  <2>1. /\ t \in Tables /\ DOMAIN t = DOMAIN snap.versions \cup {d}
        /\ \A y \in DOMAIN snap.versions : t[y] = snap.versions[y]
        /\ d \notin DOMAIN snap.versions => t[d] = live[d]
    <3>1. live[d] \in Nat
      BY <1>0
    <3> QED BY <1>0, <3>1, TablePut, Zenon
  <2>2. d \notin DOMAIN snap.versions /\ snap' = [snap EXCEPT !.versions = t]
    BY <1>1 DEF Backup!ReadVersion
  <2> HIDE DEF t
  <2> DEFINE k == [snap EXCEPT !.versions = t]
  <2>3. /\ k \in [pc : {"idle", "version", "pin", "archive", "manifest"}, gen : Numbers,
                  attempt : Nat, versions : Tables, files : Nat, pinned : Tables,
                  copied : Tables, then : Tables]
        /\ k.pc = "version" /\ k.versions = t /\ k.pinned = snap.pinned /\ k.copied = snap.copied
    BY <1>0, <2>1 DEF BackupTypes
  <2>4. snap' = k
    BY <2>2
  <2> HIDE DEF k
  <2>5. live[d] <= live[d]
    BY <1>0
  <2>6. ReadsInOrder(k, live)
    BY <1>0, <2>1, <2>2, <2>3, <2>5 DEF ReadsInOrder
  <2> QED BY <1>0, <2>3, <2>4, <2>6, SnapMoves
<1>2. CASE Backup!Inventory
  <2> DEFINE k == [snap EXCEPT !.pc = "pin", !.files = files, !.then = live]
  <2>1. /\ k \in [pc : {"idle", "version", "pin", "archive", "manifest"}, gen : Numbers,
                  attempt : Nat, versions : Tables, files : Nat, pinned : Tables,
                  copied : Tables, then : Tables]
        /\ k.pc = "pin" /\ k.versions = snap.versions /\ k.pinned = snap.pinned
        /\ k.copied = snap.copied /\ k.then = live
    BY <1>0 DEF BackupTypes
  <2>2. snap' = k /\ DOMAIN snap.versions = Dbs
    BY <1>2 DEF Backup!Inventory
  <2> HIDE DEF k
  <2>3. \A d \in Dbs : live[d] <= live[d]
    BY <1>0
  <2>4. k.pinned = Backup!Empty /\ k.copied = Backup!Empty /\ DOMAIN Backup!Empty = {}
    BY <1>0, <2>1, EmptyIsPartial DEF ReadsInOrder
  <2>5. ReadsInOrder(k, live)
    BY <1>0, <2>1, <2>2, <2>3, <2>4 DEF ReadsInOrder
  <2> QED BY <1>0, <2>1, <2>2, <2>5, SnapMoves
<1> QED BY <1>1, <1>2

\* The readers are pinned and the versions are read again.
LEMMA PinsKeep ==
    ASSUME BackupInv, NEW d \in Dbs, Backup!PinDatabase(d) \/ Backup!Recheck(d)
    PROVE  BackupInv'
<1> USE DEF BackupInv
<1>0. /\ snap.pc = "pin" /\ UNCHANGED <<live, files, archives, manifests, pull, copies, report>>
      /\ live \in [Dbs -> Nat] /\ live[d] \in Nat
      /\ snap.versions \in Tables /\ snap.pinned \in Tables /\ snap.copied \in Tables
      /\ snap.then \in Tables
  BY DEF Backup!PinDatabase, Backup!Recheck, Backup!SnapOnly, BackupTypes
<1>1. /\ DOMAIN snap.then = Dbs /\ DOMAIN snap.versions = Dbs
      /\ snap.versions[d] <= snap.then[d] /\ snap.then[d] <= live[d]
      /\ \A e \in DOMAIN snap.pinned : snap.then[e] <= snap.pinned[e] /\ snap.pinned[e] <= live[e]
  BY <1>0 DEF ReadsInOrder
<1>2. CASE Backup!PinDatabase(d)
  <2> DEFINE t == Backup!Put(snap.pinned, d, live[d])
  <2>1. /\ t \in Tables /\ DOMAIN t = DOMAIN snap.pinned \cup {d}
        /\ \A y \in DOMAIN snap.pinned : t[y] = snap.pinned[y]
        /\ d \notin DOMAIN snap.pinned => t[d] = live[d]
    <3>1. live[d] \in Nat
      BY <1>0
    <3> QED BY <1>0, <3>1, TablePut, Zenon
  <2>2. d \notin DOMAIN snap.pinned /\ snap' = [snap EXCEPT !.pinned = t]
    BY <1>2 DEF Backup!PinDatabase
  <2> HIDE DEF t
  <2> DEFINE k == [snap EXCEPT !.pinned = t]
  <2>3. /\ k \in [pc : {"idle", "version", "pin", "archive", "manifest"}, gen : Numbers,
                  attempt : Nat, versions : Tables, files : Nat, pinned : Tables,
                  copied : Tables, then : Tables]
        /\ k.pc = "pin" /\ k.versions = snap.versions /\ k.pinned = t /\ k.copied = snap.copied
        /\ k.then = snap.then
    BY <1>0, <2>1 DEF BackupTypes
  <2>4. snap' = k
    BY <2>2
  <2> HIDE DEF k
  <2>5. live[d] <= live[d]
    BY <1>0
  <2>6. \A e \in DOMAIN t : snap.then[e] <= t[e] /\ t[e] <= live[e]
    BY <1>1, <2>1, <2>2, <2>5
  <2>7. ReadsInOrder(k, live)
    BY <1>0, <2>3, <2>6 DEF ReadsInOrder
  <2> QED BY <1>0, <2>3, <2>4, <2>7, SnapMoves
<1>3. CASE Backup!Recheck(d) /\ live[d] = snap.versions[d]
  <2> DEFINE t == Backup!Put(snap.copied, d, snap.pinned[d])
  <2>0. DOMAIN snap.pinned = Dbs /\ d \notin DOMAIN snap.copied /\ snap' = [snap EXCEPT !.copied = t]
    BY <1>3 DEF Backup!Recheck, Backup!Unchanged
  <2>1. snap.pinned[d] \in Nat /\ snap.then[d] \in Nat /\ snap.versions[d] \in Nat
    BY <1>0, <1>1, <2>0, PartialFacts DEF Tables
  <2>2. snap.pinned[d] = snap.then[d]
    BY <1>0, <1>1, <1>3, <2>0, <2>1
  <2>3. /\ t \in Tables /\ DOMAIN t = DOMAIN snap.copied \cup {d}
        /\ \A y \in DOMAIN snap.copied : t[y] = snap.copied[y]
        /\ d \notin DOMAIN snap.copied => t[d] = snap.pinned[d]
    BY <1>0, <2>1, TablePut, Zenon
  <2> HIDE DEF t
  <2> DEFINE k == [snap EXCEPT !.copied = t]
  <2>4. /\ k \in [pc : {"idle", "version", "pin", "archive", "manifest"}, gen : Numbers,
                  attempt : Nat, versions : Tables, files : Nat, pinned : Tables,
                  copied : Tables, then : Tables]
        /\ k.pc = "pin" /\ k.versions = snap.versions /\ k.pinned = snap.pinned /\ k.copied = t
        /\ k.then = snap.then
    BY <1>0, <2>3 DEF BackupTypes
  <2>5. snap' = k
    BY <2>0
  <2> HIDE DEF k
  <2>6. \A e \in DOMAIN t : t[e] = snap.then[e]
    BY <1>0, <2>0, <2>2, <2>3 DEF ReadsInOrder
  <2>7. ReadsInOrder(k, live)
    BY <1>0, <2>4, <2>6 DEF ReadsInOrder
  <2> QED BY <1>0, <2>4, <2>5, <2>7, SnapMoves
<1>4. CASE Backup!Recheck(d) /\ live[d] # snap.versions[d]
  BY <1>4, ConflictKeeps DEF Backup!Recheck, Backup!Unchanged
<1> QED BY <1>2, <1>3, <1>4

LEMMA CopyFilesKeeps ==
    ASSUME BackupInv, Backup!CopyFiles
    PROVE  BackupInv'
<1> USE DEF BackupInv
<1>1. /\ snap.pc = "pin" /\ DOMAIN snap.copied = Dbs /\ Backup!SnapOnly
      /\ UNCHANGED <<live, files, archives, manifests, pull, copies, report>>
  BY DEF Backup!CopyFiles, Backup!SnapOnly
<1>2. CASE snap' = [snap EXCEPT !.pc = "archive"]
  <2> DEFINE k == [snap EXCEPT !.pc = "archive"]
  <2>1. /\ k \in [pc : {"idle", "version", "pin", "archive", "manifest"}, gen : Numbers,
                  attempt : Nat, versions : Tables, files : Nat, pinned : Tables,
                  copied : Tables, then : Tables]
        /\ k.pc = "archive" /\ k.versions = snap.versions /\ k.pinned = snap.pinned
        /\ k.copied = snap.copied /\ k.then = snap.then
    BY DEF BackupTypes
  <2>2. snap' = k
    BY <1>2
  <2> HIDE DEF k
  <2>3. snap.copied \in Tables /\ snap.then \in Tables
    BY DEF BackupTypes
  <2>4. snap.copied = snap.then
    BY <1>1, <2>3, TablesAgree DEF ReadsInOrder
  <2>5. ReadsInOrder(k, live)
    BY <1>1, <2>1, <2>4 DEF ReadsInOrder
  <2> QED BY <1>1, <2>1, <2>2, <2>5, SnapMoves
<1>3. CASE Backup!Conflict
  BY <1>1, <1>3, ConflictKeeps
<1> QED BY <1>2, <1>3 DEF Backup!CopyFiles

\* The archive and the manifest are put into place.
LEMMA PublishKeeps ==
    ASSUME BackupInv, Backup!PublishArchive \/ Backup!PublishManifest
    PROVE  BackupInv'
<1> USE DEF BackupInv
<1>0. /\ Backup!Bundle \in Bundles /\ Backup!Bundle.dbs = snap.copied
      /\ Backup!Bundle.then = snap.then /\ snap.gen \in Numbers
  BY DEF Backup!Bundle, Bundles, BackupTypes
<1>1. CASE Backup!PublishArchive
  <2> DEFINE k == [snap EXCEPT !.pc = "manifest"]
  <2>1. /\ k \in [pc : {"idle", "version", "pin", "archive", "manifest"}, gen : Numbers,
                  attempt : Nat, versions : Tables, files : Nat, pinned : Tables,
                  copied : Tables, then : Tables]
        /\ k.pc = "manifest" /\ k.versions = snap.versions /\ k.pinned = snap.pinned
        /\ k.copied = snap.copied /\ k.then = snap.then
    BY DEF BackupTypes
  <2>2. /\ snap' = k /\ snap.pc = "archive"
        /\ archives' = Backup!Put(archives, snap.gen, Backup!Bundle)
        /\ UNCHANGED <<live, files, manifests, pull, copies, report>>
    BY <1>1 DEF Backup!PublishArchive
  <2> HIDE DEF k
  <2>3. archives' \in Shelves
    BY <1>0, <2>2, PutFacts DEF BackupTypes, Shelves
  <2>4. BackupTypes'
    BY <2>1, <2>2, <2>3 DEF BackupTypes
  <2>5. ReadsInOrder(snap, live)'
    BY <2>1, <2>2 DEF ReadsInOrder
  <2> QED BY <2>2, <2>4, <2>5 DEF ListOK, CopiesOK, Backup!OneMoment, Backup!ReportIsTrue
<1>2. CASE Backup!PublishManifest
  <2>1. /\ snap' = Backup!Idle /\ snap.pc = "manifest"
        /\ manifests' = Backup!Put(manifests, snap.gen, Backup!Bundle)
        /\ UNCHANGED <<live, files, archives, pull, copies, report>>
    BY <1>2 DEF Backup!PublishManifest
  <2>2. manifests \in Shelves
    BY DEF BackupTypes
  <2>3. /\ manifests' \in Shelves /\ DOMAIN manifests' = DOMAIN manifests \cup {snap.gen}
        /\ \A g \in DOMAIN manifests : manifests'[g] = manifests[g]
        /\ snap.gen \notin DOMAIN manifests => manifests'[snap.gen] = Backup!Bundle
    <3>1. PICK b \in Bundles : b = Backup!Bundle
      BY <1>0
    <3>2. PICK n \in Numbers : n = snap.gen
      BY <1>0
    <3> DEFINE m == Backup!Put(manifests, n, b)
    <3>3. /\ m \in Shelves /\ DOMAIN m = DOMAIN manifests \cup {n}
          /\ \A g \in DOMAIN manifests : m[g] = manifests[g]
          /\ n \notin DOMAIN manifests => m[n] = b
      BY <2>2, ShelfPut
    <3>4. manifests' = m
      BY <2>1, <3>1, <3>2
    <3> HIDE DEF m
    <3> QED BY <3>1, <3>2, <3>3, <3>4
  <2>4. BackupTypes'
    BY <2>1, <2>3, IdleSnapshot DEF BackupTypes
  <2>5. DOMAIN Backup!Empty = {}
    BY EmptyIsPartial
  <2>6. ReadsInOrder(snap, live)'
    BY <2>1, <2>5, IdleSnapshot DEF ReadsInOrder
  <2>7. snap.copied = snap.then
    BY <2>1 DEF ReadsInOrder
  <2>8. Backup!OneMoment'
    BY <1>0, <2>3, <2>7 DEF Backup!OneMoment
  <2>9. ListOK' /\ CopiesOK'
    BY <2>1, <2>3 DEF ListOK, CopiesOK
  <2>10. Backup!ReportIsTrue'
    BY <2>1, <2>3 DEF Backup!ReportIsTrue, CopiesOK
  <2> QED BY <2>4, <2>6, <2>8, <2>9, <2>10
<1> QED BY <1>1, <1>2

\* A step of the collector that keeps its copies.
LEMMA PullMoves ==
    ASSUME BackupInv, NEW k \in [pc : {"idle", "next"}, list : Shelves, gen : Numbers],
           pull' = k,
           k.pc = "next" =>
             /\ \A g \in DOMAIN k.list : g \in DOMAIN manifests /\ k.list[g] = manifests[g]
             /\ k.gen # Backup!NoGen => k.gen \in DOMAIN copies,
           UNCHANGED <<live, files, snap, archives, manifests, copies, report>>
    PROVE  BackupInv'
BY DEF BackupInv, BackupTypes, ListOK, CopiesOK, Backup!OneMoment, Backup!ReportIsTrue,
       ReadsInOrder

LEMMA NothingToPull ==
    Backup!NoPull \in [pc : {"idle", "next"}, list : Shelves, gen : Numbers] /\ Backup!NoPull.pc = "idle"
<1>1. Backup!Empty \in Shelves
  BY EmptyIsPartial DEF Shelves
<1> QED BY <1>1 DEF Backup!NoPull, Numbers

LEMMA ListKeepsBackup ==
    ASSUME BackupInv,
           Backup!List \/ Backup!PullFails \/ \E g \in Generations : Backup!Reuse(g)
    PROVE  BackupInv'
<1>0. UNCHANGED <<live, files, snap, archives, manifests, copies, report>>
  BY DEF Backup!List, Backup!PullFails, Backup!Reuse, Backup!PullOnly
<1>1. CASE pull' = Backup!NoPull
  BY <1>0, <1>1, NothingToPull, PullMoves
<1>2. CASE pull' = [pc |-> "next", list |-> manifests, gen |-> Backup!NoGen]
  <2> DEFINE k == [pc |-> "next", list |-> manifests, gen |-> Backup!NoGen]
  <2>1. /\ k \in [pc : {"idle", "next"}, list : Shelves, gen : Numbers]
        /\ k.list = manifests /\ k.gen = Backup!NoGen
    BY DEF BackupInv, BackupTypes, Numbers
  <2>2. pull' = k
    BY <1>2
  <2> HIDE DEF k
  <2> QED BY <1>0, <2>1, <2>2, PullMoves
<1>3. ASSUME NEW g \in Generations, Backup!Reuse(g), pull' = [pull EXCEPT !.gen = g]
      PROVE  BackupInv'
  <2> DEFINE k == [pull EXCEPT !.gen = g]
  <2>1. /\ k \in [pc : {"idle", "next"}, list : Shelves, gen : Numbers]
        /\ k.list = pull.list /\ k.gen = g /\ k.pc = pull.pc
    BY DEF BackupInv, BackupTypes, Numbers
  <2>2. pull' = k
    BY <1>3
  <2> HIDE DEF k
  <2>3. g \in DOMAIN copies
    BY <1>3 DEF Backup!Reuse
  <2> QED BY <1>0, <2>1, <2>2, <2>3, PullMoves DEF BackupInv, ListOK
<1> QED BY <1>1, <1>2, <1>3 DEF Backup!List, Backup!PullFails, Backup!Reuse

LEMMA FetchKeeps ==
    ASSUME BackupInv, NEW g \in DOMAIN archives, NEW got, Backup!Fetch(g, got)
    PROVE  BackupInv'
<1> USE DEF BackupInv
<1>0. /\ UNCHANGED <<live, files, snap, archives, manifests, report>>
      /\ pull.pc = "next" /\ g \in DOMAIN pull.list /\ g \notin DOMAIN copies
  BY DEF Backup!Fetch, Backup!PullOnly, Backup!NextEntry
<1>1. CASE pull' = Backup!NoPull /\ UNCHANGED copies
  BY <1>0, <1>1, NothingToPull, PullMoves
<1>2. CASE /\ got = pull.list[g] /\ copies' = Backup!Put(copies, g, got)
           /\ pull' = [pull EXCEPT !.gen = g]
  <2>1. pull.list \in Partial(Numbers, Bundles) /\ copies \in Partial(Numbers, Bundles)
    BY DEF BackupTypes, Shelves
  <2>2. g \in Numbers /\ got \in Bundles
    BY <1>0, <1>2, <2>1, PartialFacts
  <2>3. /\ copies' \in Shelves /\ DOMAIN copies' = DOMAIN copies \cup {g}
        /\ \A h \in DOMAIN copies : copies'[h] = copies[h]
        /\ copies'[g] = got
    <3>1. PICK c \in Partial(Numbers, Bundles) : c = copies
      BY <2>1
    <3>2. /\ Backup!Put(c, g, got) \in Partial(Numbers, Bundles)
          /\ DOMAIN Backup!Put(c, g, got) = DOMAIN c \cup {g}
          /\ \A h \in DOMAIN c : Backup!Put(c, g, got)[h] = c[h]
          /\ g \notin DOMAIN c => Backup!Put(c, g, got)[g] = got
      BY <2>2, PutFacts
    <3>3. copies' = Backup!Put(c, g, got) /\ g \notin DOMAIN c
      BY <1>0, <1>2, <3>1
    <3> QED BY <3>1, <3>2, <3>3 DEF Shelves
  <2> DEFINE k == [pull EXCEPT !.gen = g]
  <2>4. /\ k \in [pc : {"idle", "next"}, list : Shelves, gen : Numbers]
        /\ k.list = pull.list /\ k.gen = g /\ k.pc = pull.pc
    BY <2>2 DEF BackupTypes
  <2>5. pull' = k
    BY <1>2
  <2> HIDE DEF k
  <2>6. BackupTypes' /\ ReadsInOrder(snap, live)'
    BY <1>0, <2>3, <2>4, <2>5 DEF BackupTypes, ReadsInOrder
  <2>7. g \in DOMAIN manifests /\ got = manifests[g]
    BY <1>0, <1>2 DEF ListOK
  <2>8. ListOK' /\ CopiesOK' /\ Backup!OneMoment'
    BY <1>0, <2>3, <2>4, <2>5, <2>7 DEF ListOK, CopiesOK, Backup!OneMoment
  <2>9. Backup!ReportIsTrue'
    BY <1>0, <2>3 DEF Backup!ReportIsTrue
  <2> QED BY <2>6, <2>8, <2>9
<1> QED BY <1>1, <1>2 DEF Backup!Fetch, Backup!Verified

\* Old copies go, the one the report names stays.
LEMMA FinishKeeps ==
    ASSUME BackupInv, Backup!Finish
    PROVE  BackupInv'
<1> USE DEF BackupInv
<1>0. /\ UNCHANGED <<live, files, snap, archives, manifests>> /\ pull' = Backup!NoPull
      /\ pull.pc = "next" /\ pull.gen = Backup!Latest
  BY DEF Backup!Finish, Backup!PullOnly
<1>1. CASE UNCHANGED <<copies, report>>
  BY <1>0, <1>1, NothingToPull, PullMoves
<1>2. CASE /\ age[Backup!Latest] = "fresh"
           /\ copies' = Backup!Restrict(copies, DOMAIN copies \ Backup!Prunable)
           /\ report' = Backup!Latest
  <2> DEFINE K == DOMAIN copies \ Backup!Prunable
  <2>1. copies' = [g \in K |-> copies[g]]
    BY <1>2 DEF Backup!Restrict
  <2>2. pull.gen \notin Backup!Prunable
    BY <1>0, <1>2 DEF Backup!Prunable
  <2>3. K \subseteq DOMAIN copies /\ (pull.gen \in DOMAIN copies => pull.gen \in K)
    BY <2>2
  <2> HIDE DEF K
  <2>4. copies \in Partial(Numbers, Bundles)
    BY DEF BackupTypes, Shelves
  <2>5. K \in SUBSET Numbers /\ copies' \in [K -> Bundles]
    BY <2>1, <2>3, <2>4, PartialFacts
  <2>6. copies' \in Shelves
    BY <2>5 DEF Shelves, Partial
  <2>7. /\ DOMAIN copies' = K
        /\ \A g \in K : copies'[g] = copies[g] /\ g \in DOMAIN manifests /\ copies[g] = manifests[g]
    BY <2>1, <2>3 DEF CopiesOK
  <2>8. BackupTypes' /\ ReadsInOrder(snap, live)'
    BY <1>0, <2>6, NothingToPull DEF BackupTypes, ReadsInOrder
  <2>9. ListOK' /\ CopiesOK' /\ Backup!OneMoment'
    BY <1>0, <2>7, NothingToPull DEF ListOK, CopiesOK, Backup!OneMoment
  <2>10. report' = pull.gen /\ (pull.gen # Backup!NoGen => pull.gen \in K)
    BY <1>0, <1>2, <2>3 DEF ListOK
  <2>11. Backup!ReportIsTrue'
    BY <1>0, <2>7, <2>10 DEF Backup!ReportIsTrue
  <2> QED BY <2>8, <2>9, <2>11
<1> QED BY <1>1, <1>2 DEF Backup!Finish

LEMMA BackupInvariant == Backup!Spec => []BackupInv
<1>1. Backup!Init => BackupInv
  BY BackupInit
<1>2. ASSUME BackupInv, [Backup!Next]_(Backup!vars) PROVE BackupInv'
  <2>1. CASE \/ UNCHANGED Backup!vars
             \/ \E g \in Generations : Backup!TimePasses(g) \/ Backup!Restore(g)
    <3>1. UNCHANGED <<live, files, snap, archives, manifests, pull, copies, report>>
      BY <2>1 DEF Backup!vars, Backup!TimePasses, Backup!Restore
    <3> QED BY <1>2, <3>1 DEF BackupInv, BackupTypes, ListOK, CopiesOK, Backup!OneMoment,
                              Backup!ReportIsTrue, ReadsInOrder
  <2>2. ASSUME NEW g \in Generations, Backup!Start(g) PROVE BackupInv'
    <3>1. g \in Numbers /\ 1 \in Nat
      BY DEF Numbers
    <3> QED BY <1>2, <2>2, <3>1, FromIdle DEF Backup!Start, Backup!SnapOnly
  <2>3. CASE Backup!SnapshotFails
    <3>1. Backup!NoGen \in Numbers /\ 0 \in Nat
      BY DEF Numbers
    <3> QED BY <1>2, <2>3, <3>1, FromIdle DEF Backup!SnapshotFails
  <2> QED BY <1>2, <2>1, <2>2, <2>3, WritesKeep, VersionsKeep, PinsKeep, CopyFilesKeeps,
             PublishKeeps, ListKeepsBackup, FetchKeeps, FinishKeeps DEF Backup!Next
<1> QED BY <1>1, <1>2, PTL DEF Backup!Spec

\* See PointsAreMoments below.
LEMMA PointsAreMomentsAlone == Backup!Spec => []Backup!OneMoment
BY BackupInvariant, PTL DEF BackupInv

\* What the report of the collector calls the latest generation is among its
\* copies, and is what the source published under that name.
THEOREM ReportsAreTrue == Backup!Spec => []Backup!ReportIsTrue
BY BackupInvariant, PTL DEF BackupInv

\* What has a manifest has an archive, and both have the name of a generation.
ShelvesOK ==
    /\ DOMAIN archives \subseteq Generations /\ DOMAIN manifests \subseteq DOMAIN archives
    /\ snap.pc # "idle" => snap.gen \in Generations
    /\ snap.pc = "manifest" => snap.gen \in DOMAIN archives

LEMMA ShelvesKeep ==
    ASSUME BackupInv, ShelvesOK, [Backup!Next]_(Backup!vars)
    PROVE  ShelvesOK'
<1>1. /\ snap \in [pc : {"idle", "version", "pin", "archive", "manifest"}, gen : Numbers,
                   attempt : Nat, versions : Tables, files : Nat, pinned : Tables,
                   copied : Tables, then : Tables]
      /\ archives \in Shelves /\ manifests \in Shelves
  BY DEF BackupInv, BackupTypes
<1>2. Backup!Bundle \in Bundles
  BY <1>1 DEF Backup!Bundle, Bundles
<1>3. CASE UNCHANGED <<archives, manifests, snap>>
  BY <1>3 DEF ShelvesOK
<1>4. CASE UNCHANGED <<archives, manifests>> /\ snap' = Backup!Idle
  BY <1>4, IdleSnapshot DEF ShelvesOK
<1>5. CASE /\ UNCHANGED <<archives, manifests>> /\ snap.pc # "idle"
           /\ snap'.gen = snap.gen /\ snap'.pc # "manifest"
  BY <1>5 DEF ShelvesOK
<1>6. CASE /\ UNCHANGED <<archives, manifests>>
           /\ snap'.gen \in Generations /\ snap'.pc = "version"
  BY <1>6 DEF ShelvesOK
<1>7. CASE Backup!PublishArchive
  <2>1. PICK n \in Numbers : n = snap.gen
    BY <1>1
  <2>2. PICK b \in Bundles : b = Backup!Bundle
    BY <1>2
  <2>3. DOMAIN Backup!Put(archives, n, b) = DOMAIN archives \cup {n}
    BY <1>1, ShelfPut
  <2>4. archives' = Backup!Put(archives, n, b) /\ UNCHANGED manifests /\ snap.pc = "archive"
    BY <1>7, <2>1, <2>2 DEF Backup!PublishArchive
  <2>5. snap'.pc = "manifest" /\ snap'.gen = snap.gen
    BY <1>1, <1>7 DEF Backup!PublishArchive
  <2> QED BY <2>1, <2>3, <2>4, <2>5 DEF ShelvesOK
<1>8. CASE Backup!PublishManifest
  <2>1. PICK n \in Numbers : n = snap.gen
    BY <1>1
  <2>2. PICK b \in Bundles : b = Backup!Bundle
    BY <1>2
  <2>3. DOMAIN Backup!Put(manifests, n, b) = DOMAIN manifests \cup {n}
    BY <1>1, ShelfPut
  <2>4. /\ manifests' = Backup!Put(manifests, n, b) /\ UNCHANGED archives
        /\ snap.pc = "manifest" /\ snap' = Backup!Idle
    BY <1>8, <2>1, <2>2 DEF Backup!PublishManifest
  <2> QED BY <2>1, <2>3, <2>4, IdleSnapshot DEF ShelvesOK
<1>9. CASE \E g \in Generations : Backup!Start(g)
  BY <1>6, <1>9 DEF Backup!Start, Backup!SnapOnly, Backup!Idle
<1>10. CASE (\E d \in Dbs : Backup!Recheck(d)) \/ Backup!CopyFiles
  <2>1. UNCHANGED <<archives, manifests>> /\ snap.pc = "pin"
    BY <1>10 DEF Backup!Recheck, Backup!CopyFiles, Backup!SnapOnly
  <2>2. CASE Backup!Conflict
    <3>1. CASE snap' = Backup!Idle
      BY <1>4, <2>1, <3>1
    <3>2. CASE snap' = [Backup!Idle EXCEPT !.pc = "version", !.gen = snap.gen,
                                           !.attempt = snap.attempt + 1]
      <4>1. snap'.pc = "version" /\ snap'.gen = snap.gen
        BY <3>2 DEF Backup!Idle
      <4> QED BY <1>5, <2>1, <4>1
    <3> QED BY <2>2, <3>1, <3>2 DEF Backup!Conflict
  <2>3. CASE \E d \in Dbs : snap' = [snap EXCEPT !.copied = Backup!Put(snap.copied, d, snap.pinned[d])]
    BY <1>1, <1>5, <2>1, <2>3
  <2>4. CASE snap' = [snap EXCEPT !.pc = "archive"]
    BY <1>1, <1>5, <2>1, <2>4
  <2> QED BY <1>10, <2>2, <2>3, <2>4 DEF Backup!Recheck, Backup!CopyFiles
<1>11. CASE (\E d \in Dbs : Backup!ReadVersion(d) \/ Backup!PinDatabase(d)) \/ Backup!Inventory
  <2>1. /\ UNCHANGED <<archives, manifests>> /\ snap.pc \in {"version", "pin"}
        /\ snap'.gen = snap.gen /\ snap'.pc \in {"version", "pin"}
    BY <1>1, <1>11 DEF Backup!ReadVersion, Backup!PinDatabase, Backup!Inventory, Backup!SnapOnly
  <2> QED BY <1>5, <2>1
<1>12. CASE Backup!SnapshotFails
  BY <1>4, <1>12 DEF Backup!SnapshotFails
<1>13. CASE \/ (\E d \in Dbs : Backup!Commit(d)) \/ Backup!ChangeFile
            \/ \E g \in Generations : Backup!Reuse(g) \/ Backup!TimePasses(g) \/ Backup!Restore(g)
            \/ \E g \in DOMAIN archives : \E got \in {archives[g], Backup!Torn} : Backup!Fetch(g, got)
            \/ Backup!List \/ Backup!PullFails \/ Backup!Finish
            \/ UNCHANGED Backup!vars
  BY <1>3, <1>13 DEF Backup!Commit, Backup!ChangeFile, Backup!Reuse, Backup!TimePasses,
       Backup!Restore, Backup!Fetch, Backup!List, Backup!PullFails, Backup!Finish, Backup!vars,
       Backup!PullOnly
<1> QED
  BY <1>7, <1>8, <1>9, <1>10, <1>11, <1>12, <1>13, Zenon DEF Backup!Next

\* The shelves of the recovery points keep to their domains.
LEMMA BackupTypesHold ==
    Backup!Spec => []Backup!TypeOK
<1>1. Backup!Init => ShelvesOK
  <2> SUFFICES ASSUME Backup!Init PROVE ShelvesOK
    OBVIOUS
  <2>1. DOMAIN Backup!Empty = {}
    BY EmptyIsPartial
  <2> QED BY <2>1, IdleSnapshot DEF Backup!Init, ShelvesOK
<1>2. BackupInv /\ ShelvesOK => Backup!TypeOK
  BY DEF BackupInv, BackupTypes, CopiesOK, ShelvesOK, Backup!ReportIsTrue, Backup!TypeOK
<1> QED BY <1>1, <1>2, ShelvesKeep, BackupInvariant, PTL DEF Backup!Spec

(***************************************************************************)
(* The trace of an operation.                                              *)
(***************************************************************************)

\* The variables of RuntimeTrace; call is defined above.
effort == v1
adapter == v2
trace == v4
spans == v6

USE DEF effort, adapter, trace, op, spans

\* A boundary and a status that are so: a write was verified only by a commit
\* whose adapter returned, and the operation has ended the way the status says.
Honest(b, s) ==
    /\ b = 5 => adapter = "returned" /\ effort = "commit" /\ op \in {"running", "succeeded"}
    /\ s \in Traces!Ended => op = s

HonestRows ==
    {r \in [status : Traces!TRACE_STATUSES, boundary : Traces!Boundaries] :
        Honest(r.boundary, r.status)}
HonestUpdates ==
    {u \in [boundary : Traces!Boundaries, status : Traces!TRACE_STATUSES \cup {Traces!Keep}] :
        Honest(u.boundary, u.status)}

\* The operation and its call of the adapter.
OperationOK ==
    /\ op \in {"running", "waiting"} \cup Traces!Ended
    /\ adapter = "called" => op = "running"
    /\ op = "succeeded" => adapter = "returned"

\* Not only the note is honest: so is what a writer has read of it, however old,
\* and what it has still to write.
WritersOK ==
    /\ call \in [Traces!Writers -> [pc : {"idle", "read", "write"}, todo : Seq(HonestUpdates),
                                    seen : HonestRows]]
    /\ \A w \in Traces!Writers : call[w].pc # "idle" => call[w].todo # << >>

\* The inductive invariant of the trace.
TraceInv == OperationOK /\ trace \in HonestRows /\ WritersOK

LEMMA SeqGrows ==
    ASSUME NEW S, NEW T, S \subseteq T, NEW s \in Seq(S)
    PROVE  s \in Seq(T)
<1>1. /\ Len(s) \in Nat /\ DOMAIN s = 1..Len(s) /\ s = [i \in 1..Len(s) |-> s[i]]
      /\ \A i \in 1..Len(s) : s[i] \in S
  OBVIOUS
<1>2. s \in [1..Len(s) -> T]
  BY <1>1
<1> QED BY <1>1, <1>2

LEMMA PairIsSeq ==
    ASSUME NEW S, NEW v \in S
    PROVE  << >> \in Seq(S) /\ <<v, v>> \in Seq(S)
OBVIOUS

LEMMA AppendedIsSeq ==
    ASSUME NEW S, NEW s \in Seq(S), NEW u \in S
    PROVE  Append(s, u) \in Seq(S) /\ Append(s, u) # << >>
<1>1. Append(s, u) \in Seq(S) /\ Len(Append(s, u)) = Len(s) + 1 /\ Len(s) \in Nat
  OBVIOUS
<1>2. Len(<< >>) = 0
  OBVIOUS
<1> QED BY <1>1, <1>2

LEMMA TraceInit ==
    ASSUME Traces!Init
    PROVE  TraceInv
<1> USE DEF Traces!Ended, Traces!TRACE_STATUSES, Traces!Boundaries
<1>1. op = "running" /\ adapter = "none" /\ trace = [status |-> "active", boundary |-> 0]
  BY DEF Traces!Init
<1>2. OperationOK
  BY <1>1 DEF OperationOK
<1>3. [status |-> "active", boundary |-> 0] \in HonestRows
  BY DEF HonestRows, Honest
<1>4. /\ call \in [Traces!Writers -> [pc : {"idle", "read", "write"}, todo : Seq(HonestUpdates),
                                      seen : HonestRows]]
      /\ \A w \in Traces!Writers : call[w].pc = "idle"
  BY <1>3 DEF Traces!Init, Traces!Idle
<1> QED BY <1>1, <1>2, <1>3, <1>4 DEF TraceInv, WritersOK

\* The operation moves on and nothing honest becomes false; a writer may be
\* given updates that are honest now.
LEMMA StaysHonest ==
    ASSUME TraceInv, OperationOK', UNCHANGED trace,
           \A b \in Traces!Boundaries, s \in Traces!TRACE_STATUSES \cup {Traces!Keep} :
               Honest(b, s) => Honest(b, s)',
           NEW w \in Traces!Writers, NEW todo \in Seq(HonestUpdates'), todo # << >>,
           \/ UNCHANGED call
           \/ call' = [call EXCEPT ![w] = [call[w] EXCEPT !.pc = "read", !.todo = todo]]
    PROVE  TraceInv'
<1>1. HonestRows \subseteq HonestRows'
  BY DEF HonestRows
<1>2. HonestUpdates \subseteq HonestUpdates'
  BY DEF HonestUpdates
<1>3. Seq(HonestUpdates) \subseteq Seq(HonestUpdates')
  BY <1>2, SeqGrows
<1>4. trace' \in HonestRows'
  BY <1>1 DEF TraceInv
<1>5. \A v \in Traces!Writers :
        /\ call[v] \in [pc : {"idle", "read", "write"}, todo : Seq(HonestUpdates'),
                        seen : HonestRows']
        /\ call[v].pc # "idle" => call[v].todo # << >>
  BY <1>1, <1>3 DEF TraceInv, WritersOK
<1>6. call = [v \in Traces!Writers |-> call[v]]
  BY DEF TraceInv, WritersOK
<1>7. WritersOK'
  <2>1. CASE UNCHANGED call
    BY <1>5, <1>6, <2>1 DEF WritersOK
  <2>2. CASE call' = [call EXCEPT ![w] = [call[w] EXCEPT !.pc = "read", !.todo = todo]]
    <3> DEFINE k == [call[w] EXCEPT !.pc = "read", !.todo = todo]
    <3>1. /\ k \in [pc : {"idle", "read", "write"}, todo : Seq(HonestUpdates'),
                    seen : HonestRows']
          /\ k.todo # << >>
      BY <1>5
    <3>2. call' = [call EXCEPT ![w] = k]
      BY <2>2
    <3> HIDE DEF k
    <3> QED BY <1>5, <1>6, <3>1, <3>2 DEF WritersOK
  <2> QED BY <2>1, <2>2
<1> QED BY <1>4, <1>7 DEF TraceInv

\* The operation: its call of the adapter, its outcome, and its resumption.
LEMMA OperationKeeps ==
    ASSUME TraceInv,
           \/ Traces!CallAdapter
           \/ \E how \in {"returned", "raised"} : Traces!AdapterEnds(how)
           \/ \E o \in {"waiting"} \cup Traces!Ended : Traces!OperationEnds(o)
           \/ Traces!Resumed
    PROVE  TraceInv'
<1> USE DEF Traces!Ended, Traces!Boundaries
<1>0. "call" \in Traces!Writers /\ Traces!AdapterBoundary \in {1, 2, 4}
  BY DEF Traces!Writers, Traces!AdapterBoundary
<1>1. CASE Traces!CallAdapter
  <2> DEFINE u == [boundary |-> Traces!AdapterBoundary, status |-> Traces!Keep]
  <2>1. /\ op = "running" /\ adapter = "none" /\ adapter' = "called"
        /\ UNCHANGED <<effort, op, trace>>
        /\ call' = [call EXCEPT !["call"] = [call["call"] EXCEPT !.pc = "read", !.todo = <<u>>]]
    BY <1>1 DEF Traces!CallAdapter, Traces!Recording, Traces!Update
  <2>2. OperationOK'
    BY <2>1 DEF TraceInv, OperationOK
  <2>3. \A b, s : Honest(b, s) => Honest(b, s)'
    BY <2>1 DEF Honest
  <2>4. u \in HonestUpdates'
    BY <1>0 DEF HonestUpdates, Honest, Traces!Keep
  <2>5. <<u>> \in Seq(HonestUpdates') /\ <<u>> # << >>
    BY <2>4
  <2> HIDE DEF u
  <2> QED BY <1>0, <2>1, <2>2, <2>3, <2>5, StaysHonest
<1>2. ASSUME NEW how \in {"returned", "raised"}, Traces!AdapterEnds(how)
      PROVE  TraceInv'
  <2> DEFINE u == [boundary |-> IF effort = "commit" /\ how = "returned" THEN 5
                                ELSE Traces!AdapterBoundary, status |-> Traces!Keep]
  <2>1. /\ adapter = "called" /\ adapter' = how
        /\ UNCHANGED <<effort, op, trace>>
        /\ call' = [call EXCEPT !["call"] = [call["call"] EXCEPT !.pc = "read", !.todo = <<u>>]]
    BY <1>2 DEF Traces!AdapterEnds, Traces!Recording, Traces!Update
  <2>2. op = "running"
    BY <2>1 DEF TraceInv, OperationOK
  <2>3. OperationOK'
    BY <2>1, <2>2 DEF TraceInv, OperationOK
  <2>4. \A b, s : Honest(b, s) => Honest(b, s)'
    BY <2>1 DEF Honest
  <2>5. u \in HonestUpdates'
    BY <1>0, <1>2, <2>1, <2>2 DEF HonestUpdates, Honest, Traces!Keep
  <2>6. <<u>> \in Seq(HonestUpdates') /\ <<u>> # << >>
    BY <2>5
  <2> HIDE DEF u
  <2> QED BY <1>0, <2>1, <2>3, <2>4, <2>6, StaysHonest
<1>3. ASSUME NEW o \in {"waiting"} \cup Traces!Ended, Traces!OperationEnds(o)
      PROVE  TraceInv'
  <2>1. /\ op = "running" /\ adapter # "called" /\ op' = o /\ o \in Traces!Outcomes
        /\ UNCHANGED <<effort, adapter, trace, call>>
    BY <1>3 DEF Traces!OperationEnds
  <2>2. /\ o = "succeeded" => adapter = "returned"
        /\ adapter = "returned" /\ effort = "commit" => o = "succeeded"
    BY <2>1 DEF Traces!Outcomes
  <2>3. OperationOK'
    BY <2>1, <2>2 DEF TraceInv, OperationOK
  <2>4. \A b, s : Honest(b, s) => Honest(b, s)'
    BY <2>1, <2>2 DEF Honest
  <2> DEFINE u == [boundary |-> 0, status |-> Traces!Keep]
  <2>5. u \in HonestUpdates'
    BY DEF HonestUpdates, Honest, Traces!Keep
  <2>6. <<u>> \in Seq(HonestUpdates') /\ <<u>> # << >>
    BY <2>5
  <2> HIDE DEF u
  <2> QED BY <1>0, <2>1, <2>3, <2>4, <2>6, StaysHonest
<1>4. CASE Traces!Resumed
  <2>1. /\ op = "waiting" /\ op' = "running" /\ adapter' = "none"
        /\ UNCHANGED <<trace, call>>
    BY <1>4 DEF Traces!Resumed
  <2>2. OperationOK'
    BY <2>1 DEF TraceInv, OperationOK
  <2>3. \A b, s : Honest(b, s) => Honest(b, s)'
    BY <2>1 DEF Honest
  <2> DEFINE u == [boundary |-> 0, status |-> Traces!Keep]
  <2>4. u \in HonestUpdates'
    BY DEF HonestUpdates, Honest, Traces!Keep
  <2>5. <<u>> \in Seq(HonestUpdates') /\ <<u>> # << >>
    BY <2>4
  <2> HIDE DEF u
  <2> QED BY <1>0, <2>1, <2>2, <2>3, <2>5, StaysHonest
<1> QED BY <1>1, <1>2, <1>3, <1>4

\* The recorders of the outcome and of an open card.
LEMMA ObserversKeep ==
    ASSUME TraceInv, Traces!ObserveOperation \/ Traces!ObserveInteraction
    PROVE  TraceInv'
<1> USE DEF Traces!Ended, Traces!Boundaries, Traces!TRACE_STATUSES
<1>1. UNCHANGED <<effort, op, adapter, trace>>
  BY DEF Traces!ObserveOperation, Traces!ObserveInteraction
<1>2. OperationOK'
  BY <1>1 DEF TraceInv, OperationOK
<1>3. /\ \A b, s : Honest(b, s) => Honest(b, s)'
      /\ HonestUpdates' = HonestUpdates
  BY <1>1 DEF Honest, HonestUpdates
<1>4. ASSUME NEW w \in Traces!Writers, NEW stage, NEW b \in Traces!Boundaries,
             NEW s \in Traces!TRACE_STATUSES, Honest(b, s),
             call' = Traces!Recording(w, Append(Traces!StageUpdates(stage, b), Traces!Update(b, s)))
      PROVE  TraceInv'
  <2> DEFINE v == [boundary |-> b, status |-> Traces!Keep]
             u == [boundary |-> b, status |-> s]
             todo == Append(Traces!StageUpdates(stage, b), u)
  <2>1. v \in HonestUpdates /\ u \in HonestUpdates
    BY <1>4 DEF HonestUpdates, Honest, Traces!Keep
  <2>2. Traces!StageUpdates(stage, b) \in {<< >>, <<v, v>>}
    BY DEF Traces!StageUpdates, Traces!Update
  <2>3. Traces!StageUpdates(stage, b) \in Seq(HonestUpdates)
    <3> HIDE DEF v
    <3> QED BY <2>1, <2>2, PairIsSeq
  <2>4. todo \in Seq(HonestUpdates) /\ todo # << >>
    <3> HIDE DEF u
    <3> QED BY <2>1, <2>3, AppendedIsSeq
  <2>5. call' = [call EXCEPT ![w] = [call[w] EXCEPT !.pc = "read", !.todo = todo]]
    BY <1>4 DEF Traces!Recording, Traces!Update
  <2> HIDE DEF todo
  <2> QED BY <1>1, <1>2, <1>3, <2>4, <2>5, StaysHonest
<1>5. CASE Traces!ObserveOperation
  <2>1. Traces!BoundaryOf(op) \in Traces!Boundaries /\ op \in Traces!TRACE_STATUSES
    BY <1>5 DEF Traces!BoundaryOf, Traces!ObserveOperation, TraceInv, OperationOK
  <2>2. Honest(Traces!BoundaryOf(op), op)
    BY DEF Traces!BoundaryOf, Honest, TraceInv, OperationOK
  <2>3. call' = Traces!Recording("call", Append(Traces!StageUpdates("invoke",
                  Traces!BoundaryOf(op)), Traces!Update(Traces!BoundaryOf(op), op)))
    BY <1>5 DEF Traces!ObserveOperation
  <2>4. "call" \in Traces!Writers
    BY DEF Traces!Writers
  <2> QED BY <1>4, <2>1, <2>2, <2>3, <2>4
<1>6. CASE Traces!ObserveInteraction
  <2>1. /\ "waiting" \in Traces!TRACE_STATUSES /\ 2 \in Traces!Boundaries
        /\ "poll" \in Traces!Writers /\ Honest(2, "waiting")
    BY DEF Honest, Traces!Writers
  <2>2. call' = Traces!Recording("poll", Append(Traces!StageUpdates("wait", 2),
                                                Traces!Update(2, "waiting")))
    BY <1>6 DEF Traces!ObserveInteraction
  <2> QED BY <1>4, <2>1, <2>2
<1> QED BY <1>5, <1>6

\* update_trace reads, and later writes what it made of what it read.
LEMMA UpdateKeeps ==
    ASSUME TraceInv, NEW w \in Traces!Writers, Traces!ReadTrace(w) \/ Traces!WriteTrace(w)
    PROVE  TraceInv'
<1>1. UNCHANGED <<effort, op, adapter>>
  BY DEF Traces!ReadTrace, Traces!WriteTrace
<1>2. OperationOK' /\ HonestUpdates' = HonestUpdates /\ HonestRows' = HonestRows
  BY <1>1 DEF TraceInv, OperationOK, HonestUpdates, HonestRows, Honest
<1>3. /\ call \in [Traces!Writers -> [pc : {"idle", "read", "write"}, todo : Seq(HonestUpdates),
                                      seen : HonestRows]]
      /\ \A v \in Traces!Writers : call[v].pc # "idle" => call[v].todo # << >>
      /\ trace \in HonestRows
  BY DEF TraceInv, WritersOK
<1>4. ASSUME NEW k \in [pc : {"idle", "read", "write"}, todo : Seq(HonestUpdates),
                        seen : HonestRows],
             k.pc # "idle" => k.todo # << >>,
             call' = [call EXCEPT ![w] = k]
      PROVE  WritersOK'
  BY <1>2, <1>3, <1>4 DEF WritersOK
<1>5. CASE Traces!ReadTrace(w)
  <2> DEFINE k == [[call[w] EXCEPT !.pc = "write"] EXCEPT !.seen = trace]
  <2>1. trace' = trace /\ call[w].pc = "read" /\ call' = [call EXCEPT ![w] = k]
    BY <1>3, <1>5 DEF Traces!ReadTrace
  <2>2. /\ k \in [pc : {"idle", "read", "write"}, todo : Seq(HonestUpdates), seen : HonestRows]
        /\ k.todo # << >>
    BY <1>3, <2>1
  <2> HIDE DEF k
  <2>3. WritersOK'
    BY <1>4, <2>1, <2>2
  <2> QED BY <1>2, <1>3, <2>1, <2>3 DEF TraceInv
<1>6. CASE Traces!WriteTrace(w)
  <2> DEFINE u == Head(call[w].todo)
             rest == Tail(call[w].todo)
             seen == call[w].seen
             note == [boundary |-> Traces!MaxBoundary(seen.boundary, u.boundary),
                     status |-> IF u.status = Traces!Keep THEN seen.status ELSE u.status]
  <2>1. /\ call[w].pc = "write" /\ trace' = note
        /\ call' = [call EXCEPT ![w] = IF rest # << >>
                       THEN [call[w] EXCEPT !.pc = "read", !.todo = rest] ELSE Traces!Idle]
    BY <1>6 DEF Traces!WriteTrace
  <2>2. u \in HonestUpdates /\ rest \in Seq(HonestUpdates) /\ seen \in HonestRows
    BY <1>3, <2>1
  <2>3. note \in HonestRows
    <3> HIDE DEF u, seen
    <3>1. /\ u.boundary \in Traces!Boundaries /\ seen.boundary \in Traces!Boundaries
          /\ u.status \in Traces!TRACE_STATUSES \cup {Traces!Keep}
          /\ seen.status \in Traces!TRACE_STATUSES
          /\ Honest(u.boundary, u.status) /\ Honest(seen.boundary, seen.status)
      BY <2>2 DEF HonestUpdates, HonestRows
    <3>2. Traces!MaxBoundary(seen.boundary, u.boundary) \in {seen.boundary, u.boundary}
      BY DEF Traces!MaxBoundary
    <3>3. note \in [status : Traces!TRACE_STATUSES, boundary : Traces!Boundaries]
      BY <3>1, <3>2
    <3>4. /\ note.boundary \in {seen.boundary, u.boundary}
          /\ note.status \in {seen.status, u.status}
      BY <3>2
    <3> HIDE DEF note
    <3>5. Honest(note.boundary, note.status)
      BY <3>1, <3>4 DEF Honest
    <3> QED BY <3>3, <3>5 DEF HonestRows
  <2>4. WritersOK'
    <3>1. CASE rest # << >>
      <4> DEFINE k == [call[w] EXCEPT !.pc = "read", !.todo = rest]
      <4>1. /\ k \in [pc : {"idle", "read", "write"}, todo : Seq(HonestUpdates),
                      seen : HonestRows]
            /\ k.todo # << >> /\ call' = [call EXCEPT ![w] = k]
        BY <1>3, <2>1, <2>2, <3>1
      <4> HIDE DEF k
      <4> QED BY <1>4, <4>1
    <3>2. CASE rest = << >>
      <4>1. [status |-> "active", boundary |-> 0] \in HonestRows
        BY DEF HonestRows, Honest, Traces!TRACE_STATUSES, Traces!Ended, Traces!Boundaries
      <4>2. /\ Traces!Idle \in [pc : {"idle", "read", "write"}, todo : Seq(HonestUpdates),
                                seen : HonestRows]
            /\ Traces!Idle.pc = "idle"
        BY <4>1 DEF Traces!Idle
      <4>3. call' = [call EXCEPT ![w] = Traces!Idle]
        BY <2>1, <3>2
      <4> QED BY <1>4, <4>2, <4>3
    <3> QED BY <3>1, <3>2
  <2> HIDE DEF note
  <2> QED BY <1>2, <2>1, <2>3, <2>4 DEF TraceInv
<1> QED BY <1>5, <1>6

LEMMA TraceInvariant == Traces!Spec => []TraceInv
<1>1. Traces!Init => TraceInv
  BY TraceInit
<1>2. ASSUME TraceInv, [Traces!Next]_(Traces!vars) PROVE TraceInv'
  <2>1. CASE UNCHANGED Traces!vars
    BY <1>2, <2>1 DEF Traces!vars, TraceInv, OperationOK, WritersOK, HonestRows, HonestUpdates,
                      Honest
  <2> QED BY <1>2, <2>1, OperationKeeps, ObserversKeep, UpdateKeeps DEF Traces!Next
<1> QED BY <1>1, <1>2, PTL DEF Traces!Spec

\* See TracesAreReal below.
LEMMA TracesAreRealAlone == Traces!Spec => []Traces!TraceIsReal
<1>1. TraceInv => Traces!TraceIsReal
  BY DEF TraceInv, HonestRows, Honest, Traces!TraceIsReal
<1> QED BY <1>1, TraceInvariant, PTL

\* The operation is of one of three kinds, and its two stages may be in its trace.
StagesOK ==
    /\ effort \in {"read", "prepare", "commit"}
    /\ adapter \in {"none", "called", "returned", "raised"}
    /\ spans \subseteq {"invoke", "wait"}

\* The trace and its writers keep to their domains.
LEMMA TraceTypesHold ==
    ASSUME Traces!TraceAssumption
    PROVE  Traces!Spec => []Traces!TypeOK
<1>1. Traces!Init => StagesOK
  BY DEF Traces!Init, Traces!TraceAssumption, StagesOK
<1>2. StagesOK /\ [Traces!Next]_(Traces!vars) => StagesOK'
  BY DEF StagesOK, Traces!Next, Traces!vars, Traces!CallAdapter, Traces!AdapterEnds,
       Traces!OperationEnds, Traces!ObserveOperation, Traces!ObserveInteraction,
       Traces!Resumed, Traces!ReadTrace, Traces!WriteTrace
<1>3. TraceInv /\ StagesOK => Traces!TypeOK
  <2> SUFFICES ASSUME TraceInv, StagesOK PROVE Traces!TypeOK
    OBVIOUS
  <2>1. trace \in [status : Traces!TRACE_STATUSES, boundary : Traces!Boundaries]
    BY DEF TraceInv, HonestRows
  <2>2. op \in {"running", "waiting"} \cup Traces!Ended
    BY DEF TraceInv, OperationOK
  <2>3. \A w \in Traces!Writers : call[w].pc \in {"idle", "read", "write"}
    BY DEF TraceInv, WritersOK
  <2>4. adapter \in {"none", "called", "returned", "raised"}
    BY DEF StagesOK
  <2> QED BY <2>1, <2>2, <2>3, <2>4 DEF Traces!TypeOK, StagesOK
<1> QED BY <1>1, <1>2, <1>3, TraceInvariant, PTL DEF Traces!Spec

(***************************************************************************)
(* The release transaction.                                                *)
(***************************************************************************)

\* The variables of ReleaseSwitch; faults is defined above.
units == v1
env == v2
service == v3
schema == v4
timer == v5
receipt == v6
proc == v7
current == v9

USE DEF units, env, service, schema, timer, receipt, proc, current

Receipts ==
    [status : {"none", "preparing", "prepared", "manual_recovery_required"}
                \cup Release!Terminal \cup Release!Recoverable,
     previous : Release!Programs, hasSchema : BOOLEAN, schemaBefore : SUBSET Releases,
     timerWasActive : BOOLEAN, completion : SUBSET Release!Phases]
ReleaseSteps ==
    {"none", "preparing", "recover", "complete"} \cup Release!InSwitch \cup Release!InRecover

ReleaseTypes ==
    /\ current \in Release!Programs /\ units \in Release!Programs /\ env \in Release!Programs
    /\ service \in [program : Release!Programs, state : {"stopped", "starting", "up"}]
    /\ schema \subseteq Releases
    /\ timer \in BOOLEAN
    /\ receipt \in [Releases -> Receipts]
    /\ proc \in [release : Release!Programs, pc : ReleaseSteps,
                 mode : {"none", "execute", "recover", "complete"}, state : Receipts]

Opened(r) == receipt[r].status \notin Release!Terminal \cup {"none"}
Confirmed == {r \in Releases : receipt[r].status = "confirmed"}
Installed(x) == current = x /\ units = x /\ env = x
Runs(x) == Installed(x) /\ service.program = x
Known(x) == x = Base \/ x \in Confirmed

\* There is one transaction at a time.
OneOpen == \A q, r \in Releases : Opened(q) /\ Opened(r) => q = r

\* The receipt of an open transaction: everything belongs to its candidate or
\* to a release that was confirmed before; without a schema of its own nothing
\* was switched yet.
OpenOK(q) ==
    /\ {current, units, env, service.program} \subseteq {receipt[q].previous, q}
    /\ Known(receipt[q].previous)
    /\ schema \subseteq Confirmed \cup {q}
    /\ ~receipt[q].hasSchema => Runs(receipt[q].previous) /\ schema \subseteq Confirmed
    /\ receipt[q].hasSchema => receipt[q].schemaBefore \subseteq Confirmed
    /\ receipt[q].status \in {"preparing", "prepared"} =>
           service.state = "up" /\ ~receipt[q].hasSchema

OpensOK == \A q \in Releases : Opened(q) => OpenOK(q)

\* With no transaction open one release is installed and runs.
ClosedOK ==
    (\A r \in Releases : ~Opened(r)) =>
        Runs(current) /\ service.state = "up" /\ Known(current) /\ schema \subseteq Confirmed

\* The steps before the schema is read.
BeforeSchema == {"preparing", "pause", "stop_timer", "stop_service", "stopped", "backup"}

\* The process and its copy of the receipt.
CopyOK ==
    proc.pc \notin {"none", "complete"} =>
        /\ proc.release \in Releases /\ Opened(proc.release)
        /\ proc.state.previous = receipt[proc.release].previous
        /\ receipt[proc.release].hasSchema => proc.state.hasSchema
        /\ proc.state.hasSchema => proc.state.schemaBefore \subseteq Confirmed
        /\ proc.pc \in BeforeSchema => ~proc.state.hasSchema
        /\ proc.pc = "preparing" => receipt[proc.release].status = "preparing"
        /\ proc.pc \notin {"preparing", "pause", "recover"} =>
               receipt[proc.release].status \notin {"preparing", "prepared"}
        /\ proc.pc = "point" => proc.state.hasSchema

\* How far the files have been switched, or put back.
SwitchOK ==
    /\ proc.pc \in {"switching", "link", "units", "env", "start", "checking", "ready"} =>
           receipt[proc.release].hasSchema
    /\ proc.pc \in {"units", "env", "start", "checking", "ready"} => current = proc.release
    /\ proc.pc \in {"env", "start", "checking", "ready"} => units = proc.release
    /\ proc.pc \in {"start", "checking", "ready"} => env = proc.release
BackOK ==
    /\ proc.pc \in {"r_schema", "r_units", "r_env", "r_link", "r_start"} =>
           service.state = "stopped"
    /\ proc.pc \in {"r_units", "r_env", "r_link", "r_start", "r_ready", "r_done"} =>
           schema \subseteq Confirmed
    /\ proc.pc \in {"r_env", "r_link", "r_start", "r_ready", "r_done"} =>
           units = proc.state.previous
    /\ proc.pc \in {"r_link", "r_start", "r_ready", "r_done"} => env = proc.state.previous
    /\ proc.pc \in {"r_start", "r_ready", "r_done"} => current = proc.state.previous
    /\ proc.pc \in {"r_ready", "r_done"} => service.program = proc.state.previous
    /\ proc.pc = "r_done" => service.state = "up"
CompleteOK == proc.pc = "complete" => proc.release \in Confirmed

\* The inductive invariant of the releases.
ReleaseInv ==
    /\ ReleaseTypes /\ OneOpen /\ OpensOK /\ ClosedOK
    /\ CopyOK /\ SwitchOK /\ BackOK /\ CompleteOK

LEMMA NothingYet ==
    /\ Release!NoReceipt \in Receipts /\ Release!NoReceipt.status = "none"
    /\ ~Release!NoReceipt.hasSchema
    /\ Release!NoProcess \in [release : Release!Programs, pc : ReleaseSteps,
           mode : {"none", "execute", "recover", "complete"}, state : Receipts]
    /\ Release!NoProcess.pc = "none"
<1>1. /\ Release!NoReceipt \in Receipts /\ Release!NoReceipt.status = "none"
      /\ ~Release!NoReceipt.hasSchema
  BY DEF Release!NoReceipt, Receipts, Release!Programs
<1> QED BY <1>1 DEF Release!NoProcess, Release!Programs, ReleaseSteps

LEMMA ReleaseInit ==
    ASSUME Release!Init
    PROVE  ReleaseInv
<1> USE DEF Release!Init
<1>1. Release!NoReceipt \in Receipts /\ Release!NoReceipt.status = "none"
  BY NothingYet
<1>2. /\ Release!NoProcess \in [release : Release!Programs, pc : ReleaseSteps,
             mode : {"none", "execute", "recover", "complete"}, state : Receipts]
      /\ Release!NoProcess.pc = "none"
  BY NothingYet
<1>3. ReleaseTypes
  BY <1>1, <1>2 DEF ReleaseTypes, Release!Programs
<1>4. \A r \in Releases : ~Opened(r)
  BY <1>1 DEF Opened
<1>5. OneOpen /\ OpensOK /\ ClosedOK
  BY <1>4 DEF OneOpen, OpensOK, ClosedOK, Runs, Installed, Known
<1>6. CopyOK /\ SwitchOK /\ BackOK /\ CompleteOK
  BY <1>2 DEF CopyOK, SwitchOK, BackOK, CompleteOK
<1> QED BY <1>3, <1>5, <1>6 DEF ReleaseInv

\* What is open when a process is in the middle of a transaction: its candidate.
LEMMA OpenIsOwn ==
    ASSUME ReleaseInv, proc.pc \notin {"none", "complete"}
    PROVE  /\ proc.release \in Releases /\ Opened(proc.release) /\ OpenOK(proc.release)
           /\ \A q \in Releases : Opened(q) => q = proc.release
           /\ proc.release \notin Confirmed
BY DEF ReleaseInv, CopyOK, OneOpen, OpensOK, Opened, Confirmed, Release!Terminal

\* The service comes up with the program it was started with.
LEMMA ComesUpKeeps ==
    ASSUME Release!ReleaseAssumption, ReleaseInv, Release!ServiceComesUp
    PROVE  ReleaseInv'
<1>1. /\ service.state = "starting"
      /\ service' = [service EXCEPT !.state = "up"]
      /\ schema' = schema \cup ({service.program} \cap Migrates)
      /\ UNCHANGED <<current, units, env, timer, receipt, proc>>
  BY DEF Release!ServiceComesUp, Release!files
<1>2. ReleaseTypes'
  BY <1>1 DEF ReleaseInv, ReleaseTypes, Release!ReleaseAssumption
<1>3. service'.program = service.program /\ service'.state = "up"
  BY <1>1 DEF ReleaseInv, ReleaseTypes
<1>4. Confirmed' = Confirmed /\ \A r : Opened(r)' <=> Opened(r)
  BY <1>1 DEF Confirmed, Opened
<1>5. OneOpen'
  BY <1>4 DEF ReleaseInv, OneOpen
<1>6. \A x : Known(x) => {x} \cap Migrates \subseteq Confirmed
  BY DEF Known, Release!ReleaseAssumption
<1>7. ASSUME NEW q \in Releases, Opened(q)
      PROVE  OpenOK(q)'
  <2>1. OpenOK(q)
    BY <1>7 DEF ReleaseInv, OpensOK
  <2>2. schema' \subseteq Confirmed \cup {q}
    BY <1>1, <1>6, <2>1 DEF OpenOK
  <2>3. ~receipt[q].hasSchema => schema' \subseteq Confirmed
    BY <1>1, <1>6, <2>1 DEF OpenOK, Runs
  <2> QED BY <1>1, <1>3, <1>4, <2>1, <2>2, <2>3 DEF OpenOK, Runs, Installed, Known
<1>8. OpensOK'
  BY <1>4, <1>7 DEF OpensOK
<1>9. ClosedOK'
  BY <1>1, <1>4 DEF ReleaseInv, ClosedOK
<1>10. CopyOK' /\ SwitchOK' /\ CompleteOK'
  BY <1>1, <1>4 DEF ReleaseInv, CopyOK, SwitchOK, CompleteOK
<1>11. BackOK'
  <2>1. proc.pc \in {"r_ready", "r_done"} => schema' \subseteq Confirmed
    <3>1. SUFFICES ASSUME proc.pc \in {"r_ready", "r_done"} PROVE schema' \subseteq Confirmed
      OBVIOUS
    <3>2. /\ schema \subseteq Confirmed /\ service.program = proc.state.previous
          /\ proc.state.previous = receipt[proc.release].previous
      BY <3>1 DEF ReleaseInv, BackOK, CopyOK
    <3>3. Known(service.program)
      BY <3>1, <3>2, OpenIsOwn DEF OpenOK
    <3> QED BY <1>1, <1>6, <3>2, <3>3
  <2> QED BY <1>1, <1>3, <1>4, <2>1 DEF ReleaseInv, BackOK
<1> QED BY <1>2, <1>5, <1>8, <1>9, <1>10, <1>11 DEF ReleaseInv

\* The process goes on: the receipts and the databases stay as they are.
LEMMA MoveKeeps ==
    ASSUME ReleaseInv, proc.pc \notin {"none", "complete"},
           NEW to \in ReleaseSteps \ {"none", "complete", "preparing", "pause", "point"},
           to \in BeforeSchema => ~proc.state.hasSchema,
           proc' = [proc EXCEPT !.pc = to],
           UNCHANGED <<schema, receipt>>,
           current' \in Release!Programs, units' \in Release!Programs, env' \in Release!Programs,
           service' \in [program : Release!Programs, state : {"stopped", "starting", "up"}],
           timer' \in BOOLEAN,
           {current', units', env', service'.program}
               \subseteq {receipt[proc.release].previous, proc.release},
           ~receipt[proc.release].hasSchema =>
               {current', units', env', service'.program} = {receipt[proc.release].previous},
           receipt[proc.release].status \in {"preparing", "prepared"} =>
               service'.state = "up" /\ to = "recover",
           SwitchOK', BackOK'
    PROVE  ReleaseInv'
<1>1. proc'.pc = to /\ proc'.release = proc.release /\ proc'.state = proc.state
  BY DEF ReleaseInv, ReleaseTypes
<1>2. ReleaseTypes'
  BY DEF ReleaseInv, ReleaseTypes
<1>3. Confirmed' = Confirmed /\ \A r : Opened(r)' <=> Opened(r)
  BY DEF Confirmed, Opened
<1>4. OneOpen'
  BY <1>3 DEF ReleaseInv, OneOpen
<1>5. OpenOK(proc.release)
  BY OpenIsOwn
<1>6. ASSUME NEW q \in Releases, Opened(q)
      PROVE  OpenOK(q)'
  <2>1. q = proc.release
    BY <1>6, OpenIsOwn
  <2>2. /\ {current', units', env', service'.program} \subseteq {receipt[q].previous, q}
        /\ Known(receipt[q].previous)'
        /\ schema' \subseteq Confirmed' \cup {q}
    BY <1>3, <1>5, <2>1 DEF OpenOK, Known
  <2>3. ~receipt[q].hasSchema => Runs(receipt[q].previous)' /\ schema' \subseteq Confirmed'
    BY <1>3, <1>5, <2>1 DEF OpenOK, Runs, Installed
  <2>4. receipt[q].hasSchema => receipt[q].schemaBefore \subseteq Confirmed'
    BY <1>3, <1>5, <2>1 DEF OpenOK
  <2>5. receipt[q].status \in {"preparing", "prepared"} =>
            service'.state = "up" /\ ~receipt[q].hasSchema
    BY <1>5, <2>1 DEF OpenOK
  <2> QED BY <2>2, <2>3, <2>4, <2>5 DEF OpenOK, Runs, Installed
<1>7. OpensOK'
  BY <1>3, <1>6 DEF OpensOK
<1>8. ClosedOK'
  BY <1>3, OpenIsOwn DEF ClosedOK
<1>9. CopyOK'
  BY <1>1, <1>3 DEF ReleaseInv, CopyOK
<1>10. CompleteOK'
  BY <1>1 DEF CompleteOK
<1> QED BY <1>2, <1>4, <1>7, <1>8, <1>9, <1>10 DEF ReleaseInv

\* A stage: the process's copy, with a new status, becomes the receipt.
LEMMA StageKeeps ==
    ASSUME ReleaseInv, proc.pc \notin {"none", "complete"},
           NEW note \in Receipts, NEW to \in ReleaseSteps \ {"none", "complete", "preparing", "point"},
           note.status \notin Release!Terminal \cup {"none"},
           note.previous = receipt[proc.release].previous,
           note.hasSchema = proc.state.hasSchema,
           note.schemaBefore = proc.state.schemaBefore,
           note.status \in {"preparing", "prepared"} => to = "pause" /\ proc.pc = "preparing",
           to = "pause" => proc.pc = "preparing",
           to \in BeforeSchema => ~proc.state.hasSchema,
           UNCHANGED <<current, units, env, service, schema, timer>>,
           receipt' = [receipt EXCEPT ![proc.release] = note],
           proc' = [proc EXCEPT !.pc = to, !.state = note],
           SwitchOK', BackOK'
    PROVE  ReleaseInv'
<1> DEFINE p == proc.release
<1>1. proc'.pc = to /\ proc'.release = p /\ proc'.state = note
  BY DEF ReleaseInv, ReleaseTypes
<1>2. ReleaseTypes'
  BY DEF ReleaseInv, ReleaseTypes
<1>3. /\ p \in Releases /\ Opened(p) /\ OpenOK(p) /\ p \notin Confirmed
      /\ \A q \in Releases : Opened(q) => q = p
  BY OpenIsOwn
<1>4. receipt'[p] = note /\ \A q \in Releases : q # p => receipt'[q] = receipt[q]
  BY <1>3 DEF ReleaseInv, ReleaseTypes
<1>5. /\ Opened(p)' /\ \A q \in Releases : Opened(q)' => q = p
      /\ Confirmed' = Confirmed
  BY <1>1, <1>3, <1>4 DEF Opened, Confirmed, Release!Terminal
<1>6. OneOpen' /\ ClosedOK'
  BY <1>3, <1>5 DEF OneOpen, ClosedOK
<1>7. /\ proc.state.hasSchema => proc.state.schemaBefore \subseteq Confirmed
      /\ receipt[p].hasSchema => proc.state.hasSchema
      /\ proc.pc = "preparing" => ~proc.state.hasSchema /\ receipt[p].status = "preparing"
  BY DEF ReleaseInv, CopyOK, BeforeSchema
<1>8. \A x : Known(x)' <=> Known(x)
  BY <1>5 DEF Known
<1>9. OpenOK(p)'
  <2>1. /\ {current', units', env', service'.program} \subseteq {note.previous, p}
        /\ Known(note.previous)'
        /\ schema' \subseteq Confirmed' \cup {p}
    BY <1>3, <1>5, <1>8 DEF OpenOK
  <2>2. ~note.hasSchema => Runs(note.previous)' /\ schema' \subseteq Confirmed'
    BY <1>3, <1>5, <1>7 DEF OpenOK, Runs, Installed
  <2>3. note.hasSchema => note.schemaBefore \subseteq Confirmed'
    BY <1>5, <1>7
  <2>4. note.status \in {"preparing", "prepared"} => service'.state = "up" /\ ~note.hasSchema
    BY <1>3, <1>7 DEF OpenOK
  <2> QED BY <1>1, <1>4, <2>1, <2>2, <2>3, <2>4 DEF OpenOK, Known, Runs, Installed
<1>10. OpensOK'
  BY <1>5, <1>9 DEF OpensOK
<1>11. CopyOK'
  BY <1>1, <1>3, <1>4, <1>5, <1>7 DEF CopyOK
<1>12. CompleteOK'
  BY <1>1 DEF CompleteOK
<1> QED BY <1>2, <1>6, <1>10, <1>11, <1>12 DEF ReleaseInv

\* A process ends, and its receipt is what it was.
LEMMA ExitKeeps ==
    ASSUME ReleaseInv, proc' = Release!NoProcess,
           UNCHANGED <<current, units, env, service, schema, timer, receipt>>
    PROVE  ReleaseInv'
<1>1. /\ proc' \in [release : Release!Programs, pc : ReleaseSteps,
             mode : {"none", "execute", "recover", "complete"}, state : Receipts]
      /\ proc'.pc = "none"
  BY NothingYet
<1>2. ReleaseTypes'
  BY <1>1 DEF ReleaseInv, ReleaseTypes
<1>3. OneOpen' /\ OpensOK' /\ ClosedOK'
  BY DEF ReleaseInv, OneOpen, OpensOK, ClosedOK, Opened, OpenOK, Confirmed, Known, Runs, Installed
<1>4. CopyOK' /\ SwitchOK' /\ BackOK' /\ CompleteOK'
  BY <1>1 DEF CopyOK, SwitchOK, BackOK, CompleteOK
<1> QED BY <1>2, <1>3, <1>4 DEF ReleaseInv

\* A transaction is closed, or left to a person.
LEMMA LeaveKeeps ==
    ASSUME ReleaseInv, NEW p \in Releases, Opened(p), NEW note \in Receipts,
           note.status \in {"manual_recovery_required", "rolled_back", "preparation_failed"},
           note.status # "manual_recovery_required" =>
               Runs(receipt[p].previous) /\ service.state = "up" /\ schema \subseteq Confirmed,
           note.previous = receipt[p].previous,
           receipt[p].hasSchema => note.hasSchema,
           note.hasSchema => note.schemaBefore \subseteq Confirmed,
           UNCHANGED <<current, units, env, service, schema, timer>>,
           receipt' = [receipt EXCEPT ![p] = note],
           proc' = Release!NoProcess \/ (proc.pc = "none" /\ proc' = proc)
    PROVE  ReleaseInv'
<1>1. /\ proc' \in [release : Release!Programs, pc : ReleaseSteps,
             mode : {"none", "execute", "recover", "complete"}, state : Receipts]
      /\ proc'.pc = "none"
  BY NothingYet DEF ReleaseInv, ReleaseTypes
<1>2. ReleaseTypes'
  BY <1>1 DEF ReleaseInv, ReleaseTypes
<1>3. OpenOK(p) /\ p \notin Confirmed /\ \A q \in Releases : Opened(q) => q = p
  BY DEF ReleaseInv, OpensOK, OneOpen, Opened, Confirmed, Release!Terminal
<1>4. receipt'[p] = note /\ \A q \in Releases : q # p => receipt'[q] = receipt[q]
  BY DEF ReleaseInv, ReleaseTypes
<1>5. /\ \A q \in Releases : Opened(q)' => q = p /\ note.status = "manual_recovery_required"
      /\ note.status = "manual_recovery_required" => Opened(p)'
      /\ Confirmed' = Confirmed
  BY <1>3, <1>4 DEF Opened, Confirmed, Release!Terminal
<1>6. OneOpen'
  BY <1>5 DEF OneOpen
<1>7. \A x : Known(x)' <=> Known(x)
  BY <1>5 DEF Known
<1>8. ClosedOK'
  <2>1. CASE note.status = "manual_recovery_required"
    BY <1>5, <2>1 DEF ClosedOK
  <2>2. CASE note.status # "manual_recovery_required"
    <3>1. Known(current)'
      BY <1>3, <1>7, <2>2 DEF OpenOK, Runs, Installed, Known
    <3> QED BY <1>5, <2>2, <3>1 DEF ClosedOK, Runs, Installed
  <2> QED BY <2>1, <2>2
<1>9. ASSUME NEW q \in Releases, Opened(q)'
      PROVE  OpenOK(q)'
  <2>1. q = p /\ note.status = "manual_recovery_required"
    BY <1>5, <1>9
  <2>2. /\ {current', units', env', service'.program} \subseteq {note.previous, p}
        /\ Known(note.previous)'
        /\ schema' \subseteq Confirmed' \cup {p}
    BY <1>3, <1>5, <1>7 DEF OpenOK
  <2>3. ~note.hasSchema => Runs(note.previous)' /\ schema' \subseteq Confirmed'
    BY <1>3, <1>5 DEF OpenOK, Runs, Installed
  <2>4. note.hasSchema => note.schemaBefore \subseteq Confirmed'
    BY <1>5
  <2> QED BY <1>4, <2>1, <2>2, <2>3, <2>4 DEF OpenOK, Known, Runs, Installed
<1>10. OpensOK'
  BY <1>9 DEF OpensOK
<1>11. CopyOK' /\ SwitchOK' /\ BackOK' /\ CompleteOK'
  BY <1>1 DEF CopyOK, SwitchOK, BackOK, CompleteOK
<1> QED BY <1>2, <1>6, <1>8, <1>10, <1>11 DEF ReleaseInv

\* A candidate is prepared beside the release that runs.
LEMMA PrepareKeeps ==
    ASSUME Release!ReleaseAssumption, ReleaseInv, NEW r \in Releases, Release!Prepare(r)
    PROVE  ReleaseInv'
<1> DEFINE st == [Release!NoReceipt EXCEPT !.status = "preparing", !.previous = env]
<1>1. /\ proc.pc = "none" /\ service.state = "up" /\ receipt[r].status = "none"
      /\ \A q \in Releases : receipt[q].status \in Release!Terminal \cup {"none"}
      /\ receipt' = [receipt EXCEPT ![r] = st]
      /\ proc' = [release |-> r, pc |-> "preparing", mode |-> "execute", state |-> st]
      /\ UNCHANGED <<current, units, env, service, schema, timer>>
  BY DEF Release!Prepare, Release!At, Release!files
<1>2. env \in Release!Programs
  BY DEF ReleaseInv, ReleaseTypes
<1>4. /\ st \in Receipts /\ st.status = "preparing" /\ st.previous = env /\ ~st.hasSchema
  BY <1>2, NothingYet DEF Receipts
<1> HIDE DEF st
<1>5. ReleaseTypes'
  BY <1>1, <1>4 DEF ReleaseInv, ReleaseTypes, Release!Programs, ReleaseSteps
<1>6. receipt'[r] = st /\ \A q \in Releases : q # r => receipt'[q] = receipt[q]
  BY <1>1 DEF ReleaseInv, ReleaseTypes
<1>7. Opened(r)' /\ (\A q \in Releases : Opened(q)' => q = r) /\ Confirmed' = Confirmed
  BY <1>1, <1>4, <1>6 DEF Opened, Confirmed, Release!Terminal
<1>8. Runs(env) /\ Known(env) /\ schema \subseteq Confirmed
  BY <1>1 DEF ReleaseInv, ClosedOK, Opened, Runs, Installed
<1>9. OneOpen' /\ ClosedOK'
  BY <1>7 DEF OneOpen, ClosedOK
<1>10. OpenOK(r)'
  BY <1>1, <1>4, <1>6, <1>7, <1>8 DEF OpenOK, Runs, Installed, Known
<1>11. OpensOK'
  BY <1>7, <1>10 DEF OpensOK
<1>12. CopyOK' /\ SwitchOK' /\ BackOK' /\ CompleteOK'
  BY <1>1, <1>4, <1>6, <1>7 DEF BeforeSchema, CopyOK, SwitchOK, BackOK, CompleteOK
<1> QED BY <1>5, <1>9, <1>11, <1>12 DEF ReleaseInv

\* The operator closes a preparation, recovers a transaction, or completes or
\* publishes again a release that was confirmed.
LEMMA OperatorKeeps ==
    ASSUME ReleaseInv, NEW r \in Releases,
           \/ Release!PublishAgain(r) \/ Release!ClosePreparation(r)
           \/ Release!Recover(r) \/ Release!Complete(r)
    PROVE  ReleaseInv'
<1>0. receipt \in [Releases -> Receipts]
  BY DEF ReleaseInv, ReleaseTypes
<1>1. CASE Release!ClosePreparation(r)
  <2> DEFINE note == [receipt[r] EXCEPT !.status = "preparation_failed"]
  <2>1. /\ proc.pc = "none" /\ receipt[r].status \in {"preparing", "prepared"}
        /\ UNCHANGED <<current, units, env, service, schema, timer, proc>>
        /\ receipt' = [receipt EXCEPT ![r] = note]
    BY <1>0, <1>1 DEF Release!ClosePreparation, Release!At, Release!files
  <2>2. Opened(r) /\ OpenOK(r)
    BY <2>1 DEF Opened, Release!Terminal, ReleaseInv, OpensOK
  <2>3. /\ note \in Receipts /\ note.status = "preparation_failed"
        /\ note.previous = receipt[r].previous /\ note.hasSchema = receipt[r].hasSchema
        /\ note.schemaBefore = receipt[r].schemaBefore
    BY <1>0 DEF Receipts, Release!Terminal
  <2> HIDE DEF note
  <2>4. /\ Runs(receipt[r].previous) /\ service.state = "up" /\ schema \subseteq Confirmed
        /\ ~receipt[r].hasSchema
    BY <2>1, <2>2 DEF OpenOK
  <2> QED BY <2>1, <2>2, <2>3, <2>4, LeaveKeeps
<1>2. CASE Release!PublishAgain(r) \/ Release!Complete(r)
  <2>1. /\ receipt[r].status = "confirmed"
        /\ proc' = [release |-> r, pc |-> "complete", mode |-> "complete", state |-> receipt[r]]
        /\ UNCHANGED <<current, units, env, service, schema, timer, receipt>>
    BY <1>2 DEF Release!PublishAgain, Release!Complete, Release!files
  <2>2. ReleaseTypes'
    BY <1>0, <2>1 DEF ReleaseInv, ReleaseTypes, Release!Programs, ReleaseSteps
  <2>3. OneOpen' /\ OpensOK' /\ ClosedOK'
    BY <2>1 DEF ReleaseInv, OneOpen, OpensOK, ClosedOK, Opened, OpenOK, Confirmed, Known, Runs,
                Installed
  <2>4. CopyOK' /\ SwitchOK' /\ BackOK' /\ CompleteOK'
    BY <2>1 DEF CopyOK, SwitchOK, BackOK, CompleteOK, Confirmed
  <2> QED BY <2>2, <2>3, <2>4 DEF ReleaseInv
<1>3. CASE Release!Recover(r)
  <2>1. /\ receipt[r].status \in Release!Recoverable
        /\ proc' = [release |-> r, pc |-> "recover", mode |-> "recover", state |-> receipt[r]]
        /\ UNCHANGED <<current, units, env, service, schema, timer, receipt>>
    BY <1>3 DEF Release!Recover, Release!files
  <2>2. ReleaseTypes'
    BY <1>0, <2>1 DEF ReleaseInv, ReleaseTypes, Release!Programs, ReleaseSteps
  <2>3. OneOpen' /\ OpensOK' /\ ClosedOK'
    BY <2>1 DEF ReleaseInv, OneOpen, OpensOK, ClosedOK, Opened, OpenOK, Confirmed, Known, Runs,
                Installed
  <2>4. Opened(r) /\ OpenOK(r)
    BY <2>1 DEF Opened, Release!Terminal, Release!Recoverable, ReleaseInv, OpensOK
  <2>5. CopyOK'
    BY <2>1, <2>4 DEF CopyOK, Opened, OpenOK, Confirmed, BeforeSchema
  <2>6. SwitchOK' /\ BackOK' /\ CompleteOK'
    BY <2>1 DEF SwitchOK, BackOK, CompleteOK
  <2> QED BY <2>2, <2>3, <2>5, <2>6 DEF ReleaseInv
<1> QED BY <1>1, <1>2, <1>3

\* Completion: its phases are recorded in the receipt of a confirmed release.
LEMMA CompletionKeeps ==
    ASSUME ReleaseInv, \/ \E x \in Release!Phases : Release!CompletePhase(x)
                       \/ Release!Completed
    PROVE  ReleaseInv'
<1>1. CASE Release!Completed
  BY <1>1, ExitKeeps DEF Release!Completed, Release!files
<1>2. ASSUME NEW x \in Release!Phases, Release!CompletePhase(x)
      PROVE  ReleaseInv'
  <2> DEFINE p == proc.release
             k == [proc.state EXCEPT !.completion = proc.state.completion \cup {x}]
             note == [k EXCEPT !.status = "confirmed"]
  <2>1. /\ proc.pc = "complete" /\ timer' \in BOOLEAN
        /\ receipt' = [receipt EXCEPT ![p] = note]
        /\ proc' = [proc EXCEPT !.pc = "complete", !.state = note]
        /\ UNCHANGED <<current, units, env, service, schema>>
    BY <1>2 DEF Release!CompletePhase, Release!At, Release!Stage, Release!Staged, Release!files
  <2>2. k \in Receipts
    BY <1>2 DEF ReleaseInv, ReleaseTypes, Receipts
  <2> HIDE DEF k
  <2>3. note \in Receipts /\ note.status = "confirmed"
    BY <2>2 DEF Receipts, Release!Terminal
  <2> HIDE DEF note
  <2>4. p \in Releases /\ receipt[p].status = "confirmed"
    BY <2>1 DEF ReleaseInv, CompleteOK, Confirmed
  <2>5. receipt'[p] = note /\ \A q \in Releases : q # p => receipt'[q] = receipt[q]
    BY <2>1, <2>4 DEF ReleaseInv, ReleaseTypes
  <2>6. proc'.pc = "complete" /\ proc'.release = p
    BY <2>1 DEF ReleaseInv, ReleaseTypes
  <2>7. ReleaseTypes'
    BY <2>1, <2>3, <2>4 DEF ReleaseInv, ReleaseTypes
  <2>8. /\ Confirmed' = Confirmed /\ \A q \in Releases : Opened(q)' <=> Opened(q)
        /\ \A q \in Releases : Opened(q) => receipt'[q] = receipt[q]
    BY <2>3, <2>4, <2>5 DEF Confirmed, Opened, Release!Terminal
  <2>9. OneOpen' /\ ClosedOK'
    BY <2>1, <2>8 DEF ReleaseInv, OneOpen, ClosedOK, Runs, Installed, Known
  <2>10. OpensOK'
    BY <2>1, <2>8 DEF ReleaseInv, OpensOK, OpenOK, Runs, Installed, Known
  <2>11. CopyOK' /\ SwitchOK' /\ BackOK' /\ CompleteOK'
    BY <2>3, <2>4, <2>5, <2>6 DEF CopyOK, SwitchOK, BackOK, CompleteOK, Confirmed
  <2> QED BY <2>7, <2>9, <2>10, <2>11 DEF ReleaseInv
<1> QED BY <1>1, <1>2

\* The stages of a switch and of a recovery.
LEMMA StagesKeep ==
    ASSUME ReleaseInv,
           \/ Release!Prepared \/ Release!Pause \/ Release!StoppedStage
           \/ Release!RecoveryPointCreated \/ Release!Switching \/ Release!Checking
           \/ Release!Recovering
    PROVE  ReleaseInv'
<1>0. /\ proc.state \in Receipts /\ timer \in BOOLEAN
      /\ proc \in [release : Release!Programs, pc : ReleaseSteps,
                   mode : {"none", "execute", "recover", "complete"}, state : Receipts]
      /\ receipt \in [Releases -> Receipts]
  BY DEF ReleaseInv, ReleaseTypes
<1>1. ASSUME NEW status \in {"prepared", "stopping", "stopped", "recovery_point_created",
                             "switching", "checking", "recovering"},
             NEW st \in Receipts, NEW from, NEW to,
             from \notin {"none", "complete"}, proc.pc = from,
             <<from, status, to>> \in
                 {<<"preparing", "prepared", "pause">>, <<"pause", "stopping", "stop_timer">>,
                  <<"stopped", "stopped", "backup">>,
                  <<"point", "recovery_point_created", "switching">>,
                  <<"switching", "switching", "link">>, <<"checking", "checking", "ready">>,
                  <<"recover", "recovering", "r_stop">>},
             st.previous = proc.state.previous, st.hasSchema = proc.state.hasSchema,
             st.schemaBefore = proc.state.schemaBefore,
             Release!Stage(st, status, to),
             UNCHANGED <<current, units, env, service, schema, timer>>
      PROVE  ReleaseInv'
  <2> DEFINE p == proc.release
             note == [st EXCEPT !.status = status]
  <2>1. /\ receipt' = [receipt EXCEPT ![p] = note]
        /\ proc' = [proc EXCEPT !.pc = to, !.state = note]
    BY <1>1 DEF Release!Stage, Release!Staged
  <2>2. /\ note \in Receipts /\ note.status = status /\ note.previous = st.previous
        /\ note.hasSchema = st.hasSchema /\ note.schemaBefore = st.schemaBefore
    BY <1>1 DEF Receipts, Release!Recoverable
  <2> HIDE DEF note
  <2>3. p \in Releases /\ proc.state.previous = receipt[p].previous
    BY <1>1 DEF ReleaseInv, CopyOK
  <2>4. /\ receipt'[p] = note /\ proc'.release = p /\ proc'.pc = to /\ proc'.state = note
    BY <1>0, <2>1, <2>3
  <2>5. to \in {"switching", "link", "ready"} => note.hasSchema
    BY <1>1, <2>2 DEF ReleaseInv, CopyOK, SwitchOK
  <2>6. SwitchOK'
    BY <1>1, <2>4, <2>5 DEF SwitchOK, ReleaseInv
  <2>7. BackOK'
    BY <1>1, <2>4 DEF BackOK
  <2>8. to \in BeforeSchema => ~proc.state.hasSchema
    BY <1>1 DEF BeforeSchema, ReleaseInv, CopyOK
  <2>9. to \in ReleaseSteps \ {"none", "complete", "preparing", "point"}
    BY <1>1 DEF ReleaseSteps, Release!InSwitch, Release!InRecover
  <2>10. status \notin Release!Terminal \cup {"none"}
    BY DEF Release!Terminal
  <2> QED BY <1>1, <2>1, <2>2, <2>3, <2>6, <2>7, <2>8, <2>9, <2>10, StageKeeps
<1>2. CASE Release!Pause
  <2> DEFINE st == [proc.state EXCEPT !.timerWasActive = timer]
  <2>1. /\ st \in Receipts /\ st.previous = proc.state.previous
        /\ st.hasSchema = proc.state.hasSchema /\ st.schemaBefore = proc.state.schemaBefore
    BY <1>0 DEF Receipts
  <2>2. /\ proc.pc = "pause" /\ Release!Stage(st, "stopping", "stop_timer")
        /\ UNCHANGED <<current, units, env, service, schema, timer>>
    BY <1>2 DEF Release!Pause, Release!At, Release!files
  <2> HIDE DEF st
  <2> QED BY <1>1, <2>1, <2>2
<1>3. CASE Release!Prepared
  BY <1>0, <1>1, <1>3 DEF Release!Prepared, Release!At, Release!files
<1>4. CASE Release!StoppedStage
  BY <1>0, <1>1, <1>4 DEF Release!StoppedStage, Release!At, Release!files
<1>5. CASE Release!RecoveryPointCreated
  BY <1>0, <1>1, <1>5 DEF Release!RecoveryPointCreated, Release!At, Release!files
<1>6. CASE Release!Switching
  BY <1>0, <1>1, <1>6 DEF Release!Switching, Release!At, Release!files
<1>7. CASE Release!Checking
  BY <1>0, <1>1, <1>7 DEF Release!Checking, Release!At, Release!files
<1>8. CASE Release!Recovering
  BY <1>0, <1>1, <1>8 DEF Release!Recovering, Release!At, Release!files
<1> QED BY <1>2, <1>3, <1>4, <1>5, <1>6, <1>7, <1>8

\* What a process in the middle of a transaction knows.
LEMMA InTransaction ==
    ASSUME ReleaseInv, proc.pc \notin {"none", "complete"}
    PROVE  /\ proc.release \in Releases /\ receipt[proc.release].previous \in Release!Programs
           /\ proc.state.previous = receipt[proc.release].previous
           /\ current \in Release!Programs /\ units \in Release!Programs /\ env \in Release!Programs
           /\ service \in [program : Release!Programs, state : {"stopped", "starting", "up"}]
           /\ timer \in BOOLEAN
           /\ {current, units, env, service.program}
                  \subseteq {receipt[proc.release].previous, proc.release}
           /\ ~receipt[proc.release].hasSchema =>
                  {current, units, env, service.program} = {receipt[proc.release].previous}
           /\ receipt[proc.release].status \in {"preparing", "prepared"} => service.state = "up"
           /\ proc.pc \notin {"preparing", "pause", "recover"} =>
                  receipt[proc.release].status \notin {"preparing", "prepared"}
           /\ proc \in [release : Release!Programs, pc : ReleaseSteps,
                   mode : {"none", "execute", "recover", "complete"}, state : Receipts]
           /\ receipt[proc.release] \in Receipts
<1>1. /\ proc.release \in Releases /\ OpenOK(proc.release)
  BY OpenIsOwn
<1>2. receipt \in [Releases -> Receipts]
  BY DEF ReleaseInv, ReleaseTypes
<1>3. receipt[proc.release] \in Receipts /\ receipt[proc.release].previous \in Release!Programs
  BY <1>1, <1>2 DEF Receipts
<1> QED BY <1>1, <1>3 DEF OpenOK, Runs, Installed, ReleaseInv, ReleaseTypes, CopyOK

\* The steps of the switch.
LEMMA SwitchKeeps ==
    ASSUME Release!ReleaseAssumption, ReleaseInv,
           \/ Release!StopTimer \/ Release!StopService \/ Release!SwitchLink
           \/ Release!SwitchUnits \/ Release!SwitchEnv \/ Release!StartService \/ Release!Refuse
    PROVE  ReleaseInv'
<1> USE DEF Release!At, Release!Goto, Release!files
<1>0. ReleaseSteps = {"none", "preparing", "recover", "complete"} \cup Release!InSwitch
                        \cup Release!InRecover
  BY DEF ReleaseSteps
<1> USE DEF Release!InSwitch, Release!InRecover
<1>1. CASE Release!StopTimer
  <2>1. /\ proc.pc = "stop_timer" /\ proc' = [proc EXCEPT !.pc = "stop_service"]
        /\ timer' = FALSE /\ UNCHANGED <<current, units, env, service, schema, receipt>>
    BY <1>1 DEF Release!StopTimer
  <2>2. proc'.pc = "stop_service"
    BY <2>1, InTransaction
  <2>3. SwitchOK' /\ BackOK'
    BY <2>2 DEF SwitchOK, BackOK
  <2>4. ~proc.state.hasSchema
    BY <2>1 DEF ReleaseInv, CopyOK, BeforeSchema
  <2> QED BY <1>0, <2>1, <2>3, <2>4, InTransaction, MoveKeeps
<1>2. CASE Release!StopService
  <2>1. /\ proc.pc = "stop_service" /\ proc' = [proc EXCEPT !.pc = "stopped"]
        /\ service' = [service EXCEPT !.state = "stopped"]
        /\ UNCHANGED <<current, units, env, schema, timer, receipt>>
    BY <1>2 DEF Release!StopService
  <2>2. proc'.pc = "stopped"
    BY <2>1, InTransaction
  <2>3. SwitchOK' /\ BackOK'
    BY <2>2 DEF SwitchOK, BackOK
  <2>4. ~proc.state.hasSchema
    BY <2>1 DEF ReleaseInv, CopyOK, BeforeSchema
  <2>5. /\ service' \in [program : Release!Programs, state : {"stopped", "starting", "up"}]
        /\ service'.program = service.program
    BY <2>1, InTransaction
  <2> QED BY <1>0, <2>1, <2>3, <2>4, <2>5, InTransaction, MoveKeeps
<1>3. CASE Release!SwitchLink \/ Release!SwitchUnits \/ Release!SwitchEnv
  <2>1. /\ proc.pc \in {"link", "units", "env"}
        /\ current' = IF proc.pc = "link" THEN proc.release ELSE current
        /\ units' = IF proc.pc = "units" THEN proc.release ELSE units
        /\ env' = IF proc.pc = "env" THEN proc.release ELSE env
        /\ proc' = [proc EXCEPT !.pc = IF proc.pc = "link" THEN "units"
                                       ELSE IF proc.pc = "units" THEN "env" ELSE "start"]
        /\ UNCHANGED <<service, schema, timer, receipt>>
    BY <1>3 DEF Release!SwitchLink, Release!SwitchUnits, Release!SwitchEnv
  <2>2. /\ proc'.pc = IF proc.pc = "link" THEN "units" ELSE IF proc.pc = "units" THEN "env" ELSE "start"
        /\ proc'.release = proc.release /\ proc'.state = proc.state
    BY <2>1, InTransaction
  <2>3. receipt[proc.release].hasSchema
    BY <2>1 DEF ReleaseInv, SwitchOK
  <2>4. SwitchOK'
    BY <2>1, <2>2, <2>3 DEF ReleaseInv, SwitchOK
  <2>5. BackOK'
    BY <2>1, <2>2 DEF BackOK
  <2>6. proc.release \in Release!Programs
    BY <2>1, InTransaction
  <2>7. \E to \in {"units", "env", "start"} : proc' = [proc EXCEPT !.pc = to]
    BY <2>1
  <2> QED BY <1>0, <2>1, <2>3, <2>4, <2>5, <2>6, <2>7, InTransaction, MoveKeeps DEF BeforeSchema
<1>4. CASE Release!StartService
  <2>1. /\ proc.pc = "start" /\ proc' = [proc EXCEPT !.pc = "checking"]
        /\ service' = [program |-> IF units = Base THEN Base ELSE current, state |-> "starting"]
        /\ UNCHANGED <<current, units, env, schema, timer, receipt>>
    BY <1>4 DEF Release!StartService, Release!Started
  <2>2. proc'.pc = "checking" /\ proc'.release = proc.release
    BY <2>1, InTransaction
  <2>3. receipt[proc.release].hasSchema /\ current = proc.release /\ units = proc.release
    BY <2>1 DEF ReleaseInv, SwitchOK
  <2>4. service' = [program |-> proc.release, state |-> "starting"]
    BY <2>1, <2>3, InTransaction DEF Release!ReleaseAssumption
  <2>5. SwitchOK' /\ BackOK'
    BY <2>1, <2>2, <2>3 DEF ReleaseInv, SwitchOK, BackOK
  <2>6. /\ service' \in [program : Release!Programs, state : {"stopped", "starting", "up"}]
        /\ service'.program = proc.release
    BY <2>1, <2>4, InTransaction
  <2> QED BY <1>0, <2>1, <2>3, <2>5, <2>6, InTransaction, MoveKeeps DEF BeforeSchema
<1>5. CASE Release!Refuse
  <2>1. /\ proc.pc = "ready" /\ proc' = [proc EXCEPT !.pc = "recover"]
        /\ UNCHANGED <<current, units, env, service, schema, timer, receipt>>
    BY <1>5 DEF Release!Refuse
  <2>2. proc'.pc = "recover"
    BY <2>1, InTransaction
  <2>3. SwitchOK' /\ BackOK'
    BY <2>2 DEF SwitchOK, BackOK
  <2> QED BY <1>0, <2>1, <2>3, InTransaction, MoveKeeps DEF BeforeSchema
<1> QED BY <1>1, <1>2, <1>3, <1>4, <1>5

\* The schema is read while nothing has been switched.
LEMMA ReadSchemaKeeps ==
    ASSUME ReleaseInv, Release!ReadSchema
    PROVE  ReleaseInv'
<1> DEFINE p == proc.release
           st == [[proc.state EXCEPT !.hasSchema = TRUE] EXCEPT !.schemaBefore = schema]
<1>1. /\ proc.pc = "backup"
      /\ proc' = [proc EXCEPT !.pc = "point", !.state = st]
      /\ UNCHANGED <<current, units, env, service, schema, timer, receipt>>
  BY InTransaction DEF Release!ReadSchema, Release!At, Release!files
<1>2. /\ ~proc.state.hasSchema /\ proc.state.previous = receipt[p].previous
      /\ receipt[p].hasSchema => proc.state.hasSchema
      /\ receipt[p].status \notin {"preparing", "prepared"}
  BY <1>1 DEF ReleaseInv, CopyOK, BeforeSchema
<1>3. p \in Releases /\ Opened(p) /\ OpenOK(p)
  BY <1>1, OpenIsOwn
<1>4. schema \subseteq Confirmed /\ schema \subseteq Releases
  BY <1>2, <1>3 DEF OpenOK, ReleaseInv, ReleaseTypes
<1>5. /\ st \in Receipts /\ st.hasSchema /\ st.schemaBefore = schema
      /\ st.previous = proc.state.previous
  BY <1>1, <1>4, InTransaction DEF Receipts
<1> HIDE DEF st
<1>6. proc'.pc = "point" /\ proc'.release = p /\ proc'.state = st
  BY <1>1, InTransaction
<1>7. ReleaseTypes'
  BY <1>1, <1>5 DEF ReleaseInv, ReleaseTypes, ReleaseSteps, Release!InSwitch
<1>8. OneOpen' /\ OpensOK' /\ ClosedOK' /\ Confirmed' = Confirmed /\ Opened(p)'
  BY <1>1, <1>3 DEF ReleaseInv, OneOpen, OpensOK, ClosedOK, Opened, OpenOK, Confirmed, Known, Runs,
                    Installed
<1>9. CopyOK'
  BY <1>1, <1>2, <1>3, <1>4, <1>5, <1>6, <1>8 DEF CopyOK, BeforeSchema
<1>10. SwitchOK' /\ BackOK' /\ CompleteOK'
  BY <1>6 DEF SwitchOK, BackOK, CompleteOK
<1> QED BY <1>7, <1>8, <1>9, <1>10 DEF ReleaseInv

\* The new release is confirmed: it runs, and the databases changed as reviewed.
LEMMA ConfirmKeepsRelease ==
    ASSUME ReleaseInv, Release!Confirm
    PROVE  ReleaseInv'
<1> DEFINE p == proc.release
           note == [proc.state EXCEPT !.status = "confirmed"]
<1>1. /\ proc.pc = "ready" /\ service = [program |-> p, state |-> "up"]
      /\ schema = IF p \in Reviewed THEN proc.state.schemaBefore \cup {p}
                  ELSE proc.state.schemaBefore
      /\ receipt' = [receipt EXCEPT ![p] = note]
      /\ proc' = [proc EXCEPT !.pc = "complete", !.state = note]
      /\ UNCHANGED <<current, units, env, service, schema, timer>>
  BY DEF Release!Confirm, Release!At, Release!files, Release!Stage, Release!Staged,
         Release!AuthorizedTransition
<1>2. /\ p \in Releases /\ current = p /\ units = p /\ env = p
      /\ proc.state.schemaBefore \subseteq Confirmed
  BY <1>1 DEF ReleaseInv, CopyOK, SwitchOK
<1>3. note \in Receipts /\ note.status = "confirmed"
  BY <1>1, InTransaction DEF Receipts, Release!Terminal
<1> HIDE DEF note
<1>4. /\ proc'.pc = "complete" /\ proc'.release = p
      /\ receipt'[p] = note /\ \A q \in Releases : q # p => receipt'[q] = receipt[q]
  BY <1>1, <1>2, InTransaction DEF ReleaseInv, ReleaseTypes
<1>5. ReleaseTypes'
  BY <1>1, <1>3, <1>4 DEF ReleaseInv, ReleaseTypes, ReleaseSteps
<1>6. \A q \in Releases : ~Opened(q)'
  <2>1. \A q \in Releases : Opened(q) => q = p
    BY <1>1, OpenIsOwn
  <2> QED BY <1>3, <1>4, <2>1 DEF Opened, Release!Terminal
<1>7. Confirmed' = Confirmed \cup {p}
  BY <1>2, <1>3, <1>4 DEF Confirmed
<1>8. OneOpen' /\ OpensOK'
  BY <1>6 DEF OneOpen, OpensOK
<1>9. ClosedOK'
  BY <1>1, <1>2, <1>7 DEF ClosedOK, Runs, Installed, Known
<1>10. CopyOK' /\ SwitchOK' /\ BackOK' /\ CompleteOK'
  BY <1>4, <1>7 DEF CopyOK, SwitchOK, BackOK, CompleteOK
<1> QED BY <1>5, <1>8, <1>9, <1>10 DEF ReleaseInv

\* A process gives its transaction up to a person, with the receipt it holds.
LEMMA ManualKeeps ==
    ASSUME ReleaseInv, proc.pc \notin {"none", "complete"},
           Release!StageAndExit(proc.state, "manual_recovery_required"),
           UNCHANGED <<current, units, env, service, schema, timer>>
    PROVE  ReleaseInv'
<1> DEFINE note == [proc.state EXCEPT !.status = "manual_recovery_required"]
<1>1. receipt' = [receipt EXCEPT ![proc.release] = note] /\ proc' = Release!NoProcess
  BY DEF Release!StageAndExit, Release!Staged
<1>2. /\ note \in Receipts /\ note.status = "manual_recovery_required"
      /\ note.previous = proc.state.previous /\ note.hasSchema = proc.state.hasSchema
      /\ note.schemaBefore = proc.state.schemaBefore
  BY InTransaction DEF Receipts
<1> HIDE DEF note
<1>3. /\ proc.release \in Releases /\ Opened(proc.release)
      /\ proc.state.previous = receipt[proc.release].previous
      /\ receipt[proc.release].hasSchema => proc.state.hasSchema
      /\ proc.state.hasSchema => proc.state.schemaBefore \subseteq Confirmed
  BY DEF ReleaseInv, CopyOK
<1> QED BY <1>1, <1>2, <1>3, LeaveKeeps

\* A process closes its transaction with everything as it was before.
LEMMA SettleKeeps ==
    ASSUME ReleaseInv, proc.pc \notin {"none", "complete"},
           NEW status \in {"rolled_back", "preparation_failed"},
           Release!StageAndExit(proc.state, status),
           UNCHANGED <<current, units, env, service, schema, timer>>,
           Runs(receipt[proc.release].previous), service.state = "up", schema \subseteq Confirmed
    PROVE  ReleaseInv'
<1> DEFINE note == [proc.state EXCEPT !.status = status]
<1>1. receipt' = [receipt EXCEPT ![proc.release] = note] /\ proc' = Release!NoProcess
  BY DEF Release!StageAndExit, Release!Staged
<1>2. /\ note \in Receipts /\ note.status = status
      /\ note.previous = proc.state.previous /\ note.hasSchema = proc.state.hasSchema
      /\ note.schemaBefore = proc.state.schemaBefore
  BY InTransaction DEF Receipts, Release!Terminal
<1> HIDE DEF note
<1>3. /\ proc.release \in Releases /\ Opened(proc.release)
      /\ proc.state.previous = receipt[proc.release].previous
      /\ receipt[proc.release].hasSchema => proc.state.hasSchema
      /\ proc.state.hasSchema => proc.state.schemaBefore \subseteq Confirmed
  BY DEF ReleaseInv, CopyOK
<1> QED BY <1>1, <1>2, <1>3, LeaveKeeps

\* The steps of a recovery.
LEMMA RecoverKeeps ==
    ASSUME Release!ReleaseAssumption, ReleaseInv,
           \/ Release!RecoverStop \/ Release!RecoverSchema \/ Release!RecoverUnits
           \/ Release!RecoverEnv \/ Release!RecoverLink \/ Release!RecoverStart
           \/ Release!RecoverReady \/ Release!RolledBack
    PROVE  ReleaseInv'
<1> USE DEF Release!At, Release!Goto, Release!files
<1>0. ReleaseSteps = {"none", "preparing", "recover", "complete"} \cup Release!InSwitch
                        \cup Release!InRecover
  BY DEF ReleaseSteps
<1> USE DEF Release!InSwitch, Release!InRecover
<1>1. CASE Release!RecoverStop
  <2>1. /\ proc.pc = "r_stop" /\ proc' = [proc EXCEPT !.pc = "r_schema"]
        /\ service' = [service EXCEPT !.state = "stopped"]
        /\ UNCHANGED <<current, units, env, schema, timer, receipt>>
    BY <1>1 DEF Release!RecoverStop
  <2>2. proc'.pc = "r_schema"
    BY <2>1, InTransaction
  <2>3. /\ service' \in [program : Release!Programs, state : {"stopped", "starting", "up"}]
        /\ service'.program = service.program /\ service'.state = "stopped"
    BY <2>1, InTransaction
  <2>4. SwitchOK' /\ BackOK'
    BY <2>2, <2>3 DEF SwitchOK, BackOK
  <2> QED BY <1>0, <2>1, <2>3, <2>4, InTransaction, MoveKeeps DEF BeforeSchema
<1>2. CASE Release!RecoverSchema
  <2>1. proc.pc = "r_schema" /\ UNCHANGED <<current, units, env, service, schema, timer>>
    BY <1>2 DEF Release!RecoverSchema
  <2>2. CASE ~Release!SchemaIsAsBefore
    BY <1>2, <2>1, <2>2, ManualKeeps DEF Release!RecoverSchema
  <2>3. CASE Release!SchemaIsAsBefore
    <3>1. proc' = [proc EXCEPT !.pc = "r_units"] /\ receipt' = receipt
      BY <1>2, <2>3 DEF Release!RecoverSchema
    <3>2. proc'.pc = "r_units"
      BY <2>1, <3>1, InTransaction
    <3>3. schema \subseteq Confirmed
      <4>1. CASE proc.state.hasSchema
        BY <2>1, <2>3, <4>1 DEF Release!SchemaIsAsBefore, ReleaseInv, CopyOK
      <4>2. CASE ~proc.state.hasSchema
        <5>1. ~receipt[proc.release].hasSchema
          BY <2>1, <4>2 DEF ReleaseInv, CopyOK
        <5> QED BY <2>1, <5>1, OpenIsOwn DEF OpenOK
      <4> QED BY <4>1, <4>2
    <3>4. service.state = "stopped"
      BY <2>1 DEF ReleaseInv, BackOK
    <3>5. Confirmed' = Confirmed
      BY <3>1 DEF Confirmed
    <3>6. SwitchOK' /\ BackOK'
      BY <2>1, <3>2, <3>3, <3>4, <3>5 DEF SwitchOK, BackOK
    <3> QED BY <1>0, <2>1, <3>1, <3>6, InTransaction, MoveKeeps DEF BeforeSchema
  <2> QED BY <2>2, <2>3
<1>3. CASE Release!RecoverUnits \/ Release!RecoverEnv \/ Release!RecoverLink
  <2>1. /\ proc.pc \in {"r_units", "r_env", "r_link"}
        /\ units' = IF proc.pc = "r_units" THEN proc.state.previous ELSE units
        /\ env' = IF proc.pc = "r_env" THEN proc.state.previous ELSE env
        /\ current' = IF proc.pc = "r_link" THEN proc.state.previous ELSE current
        /\ proc' = [proc EXCEPT !.pc = IF proc.pc = "r_units" THEN "r_env"
                                       ELSE IF proc.pc = "r_env" THEN "r_link" ELSE "r_start"]
        /\ UNCHANGED <<service, schema, timer, receipt>>
    BY <1>3 DEF Release!RecoverUnits, Release!RecoverEnv, Release!RecoverLink
  <2>2. /\ proc'.pc = IF proc.pc = "r_units" THEN "r_env"
                      ELSE IF proc.pc = "r_env" THEN "r_link" ELSE "r_start"
        /\ proc'.state = proc.state
    BY <2>1, InTransaction
  <2>3. Confirmed' = Confirmed
    BY <2>1 DEF Confirmed
  <2>4. SwitchOK'
    BY <2>1, <2>2 DEF SwitchOK
  <2>5. BackOK'
    BY <2>1, <2>2, <2>3 DEF ReleaseInv, BackOK
  <2>6. \E to \in {"r_env", "r_link", "r_start"} : proc' = [proc EXCEPT !.pc = to]
    BY <2>1
  <2> QED BY <1>0, <2>1, <2>4, <2>5, <2>6, InTransaction, MoveKeeps DEF BeforeSchema
<1>4. CASE Release!RecoverStart
  <2>1. /\ proc.pc = "r_start" /\ proc' = [proc EXCEPT !.pc = "r_ready"]
        /\ service' = [program |-> IF units = Base THEN Base ELSE current, state |-> "starting"]
        /\ UNCHANGED <<current, units, env, schema, timer, receipt>>
    BY <1>4 DEF Release!RecoverStart, Release!Started
  <2>2. proc'.pc = "r_ready" /\ proc'.state = proc.state
    BY <2>1, InTransaction
  <2>3. current = proc.state.previous /\ units = proc.state.previous /\ env = proc.state.previous
    BY <2>1 DEF ReleaseInv, BackOK
  <2>4. /\ service' \in [program : Release!Programs, state : {"stopped", "starting", "up"}]
        /\ service'.program = proc.state.previous
    BY <2>1, <2>3, InTransaction
  <2>5. Confirmed' = Confirmed
    BY <2>1 DEF Confirmed
  <2>6. SwitchOK' /\ BackOK'
    BY <2>1, <2>2, <2>3, <2>4, <2>5 DEF ReleaseInv, SwitchOK, BackOK
  <2> QED BY <1>0, <2>1, <2>4, <2>6, InTransaction, MoveKeeps DEF BeforeSchema
<1>5. CASE Release!RecoverReady
  <2>1. /\ proc.pc = "r_ready" /\ proc' = [proc EXCEPT !.pc = "r_done"]
        /\ service = [program |-> proc.state.previous, state |-> "up"]
        /\ UNCHANGED <<current, units, env, service, schema, receipt>>
        /\ timer' = Release!TimerBack
    BY <1>5 DEF Release!RecoverReady
  <2>2. proc'.pc = "r_done" /\ proc'.state = proc.state
    BY <2>1, InTransaction
  <2>3. Confirmed' = Confirmed
    BY <2>1 DEF Confirmed
  <2>4. SwitchOK' /\ BackOK'
    BY <2>1, <2>2, <2>3 DEF ReleaseInv, SwitchOK, BackOK
  <2>5. timer' \in BOOLEAN
    BY <2>1 DEF Release!TimerBack
  <2> QED BY <1>0, <2>1, <2>4, <2>5, InTransaction, MoveKeeps DEF BeforeSchema
<1>6. CASE Release!RolledBack
  <2>1. /\ proc.pc = "r_done" /\ Release!StageAndExit(proc.state, "rolled_back")
        /\ UNCHANGED <<current, units, env, service, schema, timer>>
    BY <1>6 DEF Release!RolledBack
  <2>2. /\ Runs(receipt[proc.release].previous) /\ service.state = "up"
        /\ schema \subseteq Confirmed
    BY <2>1 DEF ReleaseInv, BackOK, CopyOK, Runs, Installed
  <2> QED BY <2>1, <2>2, SettleKeeps
<1> QED BY <1>1, <1>2, <1>3, <1>4, <1>5, <1>6

\* A step fails, or the process dies.
LEMMA FaultKeeps ==
    ASSUME ReleaseInv, Release!StepFails \/ Release!Dies
    PROVE  ReleaseInv'
<1> USE DEF Release!At, Release!Goto, Release!files
<1>1. UNCHANGED <<current, units, env, service, schema, timer>>
  BY DEF Release!StepFails, Release!Dies
<1>2. CASE proc' = Release!NoProcess /\ UNCHANGED receipt
  BY <1>1, <1>2, ExitKeeps
<1>3. CASE proc.pc = "preparing" /\ Release!StageAndExit(proc.state, "preparation_failed")
  <2>1. receipt[proc.release].status = "preparing" /\ OpenOK(proc.release)
    BY <1>3, OpenIsOwn DEF ReleaseInv, CopyOK
  <2>2. /\ Runs(receipt[proc.release].previous) /\ service.state = "up"
        /\ schema \subseteq Confirmed
    BY <2>1 DEF OpenOK
  <2> QED BY <1>1, <1>3, <2>2, SettleKeeps
<1>4. CASE proc.pc \in Release!InSwitch /\ proc' = [proc EXCEPT !.pc = "recover"] /\ UNCHANGED receipt
  <2>1. proc.pc \notin {"none", "complete"}
    BY <1>4 DEF Release!InSwitch
  <2>2. proc'.pc = "recover"
    BY <1>4, <2>1, InTransaction
  <2>3. SwitchOK' /\ BackOK'
    BY <2>2 DEF SwitchOK, BackOK
  <2>4. "recover" \in ReleaseSteps
    BY DEF ReleaseSteps
  <2> QED BY <1>1, <1>4, <2>1, <2>3, <2>4, InTransaction, MoveKeeps DEF BeforeSchema
<1>5. CASE /\ proc.pc \in Release!InRecover
           /\ Release!StageAndExit(proc.state, "manual_recovery_required")
  BY <1>1, <1>5, ManualKeeps DEF Release!InRecover
<1> QED BY <1>2, <1>3, <1>4, <1>5 DEF Release!StepFails, Release!Dies

LEMMA ReleaseInvariant ==
    ASSUME Release!ReleaseAssumption
    PROVE  Release!Spec => []ReleaseInv
<1>1. Release!Init => ReleaseInv
  BY ReleaseInit
<1>2. ASSUME ReleaseInv, [Release!Next]_(Release!vars) PROVE ReleaseInv'
  <2>1. CASE UNCHANGED Release!vars
    BY <1>2, <2>1 DEF Release!vars, ReleaseInv, ReleaseTypes, OneOpen, OpensOK, ClosedOK, CopyOK,
         SwitchOK, BackOK, CompleteOK, Opened, OpenOK, Confirmed, Known, Runs, Installed
  <2> QED BY <1>2, <2>1, ComesUpKeeps, PrepareKeeps, OperatorKeeps, StagesKeep, SwitchKeeps,
             ReadSchemaKeeps, ConfirmKeepsRelease, RecoverKeeps, CompletionKeeps, FaultKeeps
             DEF Release!Next
<1> QED BY <1>1, <1>2, PTL DEF Release!Spec

\* See ReleasesAreWhole below.
LEMMA ReleasesAreWholeAlone ==
    ASSUME Release!ReleaseAssumption
    PROVE  Release!Spec => []Release!ClosedIsWhole
<1>1. ASSUME ReleaseInv PROVE Release!ClosedIsWhole
  <2>1. SUFFICES ASSUME Release!Closed
                 PROVE  /\ current = units /\ units = env /\ env = service.program
                        /\ service.state = "up"
                        /\ current = Base \/ receipt[current].status = "confirmed"
                        /\ \A r \in schema : receipt[r].status = "confirmed"
    BY DEF Release!ClosedIsWhole
  <2>2. Runs(current) /\ service.state = "up" /\ Known(current) /\ schema \subseteq Confirmed
    BY <1>1, <2>1 DEF Release!Closed, ReleaseInv, ClosedOK, Opened
  <2> QED BY <2>2 DEF Runs, Installed, Known, Confirmed
<1> QED BY <1>1, ReleaseInvariant, PTL

\* The transaction and the host keep to their domains.
LEMMA ReleaseTypesHold ==
    ASSUME Release!ReleaseAssumption
    PROVE  Release!Spec => []Release!TypeOK
<1>1. ASSUME ReleaseInv PROVE Release!TypeOK
  <2>1. /\ {current, units, env, service.program} \subseteq Release!Programs
        /\ service.state \in {"stopped", "starting", "up"} /\ schema \subseteq Releases
    BY <1>1 DEF ReleaseInv, ReleaseTypes
  <2>2. CASE proc.pc = "none"
    BY <2>1, <2>2 DEF Release!TypeOK, Release!At
  <2>3. CASE proc.pc = "complete"
    BY <1>1, <2>1, <2>3 DEF ReleaseInv, CompleteOK, Confirmed, Release!TypeOK
  <2>4. CASE proc.pc \notin {"none", "complete"}
    BY <1>1, <2>1, <2>4 DEF ReleaseInv, CopyOK, Opened, Release!TypeOK
  <2> QED BY <2>2, <2>3, <2>4
<1> QED BY <1>1, ReleaseInvariant, PTL

(***************************************************************************)
(* The specification of MCPlatform.  A behaviour of it is one of the part  *)
(* that it names, or never runs that part; what was shown of a part alone  *)
(* carries over.                                                           *)
(***************************************************************************)

LEMMA SkillsRun == Spec => Skills!Spec \/ [](part # "skills")
<1>1. Init => Skills!Init \/ part # "skills"
  BY DEF Init
<1>2. [Next]_vars => [Skills!Next]_(Skills!vars) \/ part # "skills"
  BY DEF Next, vars, Skills!vars
<1>3. part # "skills" /\ [Next]_vars => (part # "skills")'
  BY DEF Next, vars
<1>4. ~(part # "skills") /\ [Next]_vars => ~(part # "skills")'
  BY DEF Next, vars
<1> QED BY <1>1, <1>2, <1>3, <1>4, PTL DEF Spec, Skills!Spec

LEMMA FilesRun == Spec => Files!Spec \/ [](part # "documents")
<1>1. Init => Files!Init \/ part # "documents"
  BY DEF Init
<1>2. [Next]_vars => [Files!Next]_(Files!vars) \/ part # "documents"
  BY DEF Next, vars, Files!vars
<1>3. part # "documents" /\ [Next]_vars => (part # "documents")'
  BY DEF Next, vars
<1>4. ~(part # "documents") /\ [Next]_vars => ~(part # "documents")'
  BY DEF Next, vars
<1> QED BY <1>1, <1>2, <1>3, <1>4, PTL DEF Spec, Files!Spec

LEMMA PicturesRun == Spec => Pictures!Spec \/ [](part # "pictures")
<1>1. Init => Pictures!Init \/ part # "pictures"
  BY DEF Init
<1>2. [Next]_vars => [Pictures!Next]_(Pictures!vars) \/ part # "pictures"
  BY DEF Next, vars, Pictures!vars
<1>3. part # "pictures" /\ [Next]_vars => (part # "pictures")'
  BY DEF Next, vars
<1>4. ~(part # "pictures") /\ [Next]_vars => ~(part # "pictures")'
  BY DEF Next, vars
<1> QED BY <1>1, <1>2, <1>3, <1>4, PTL DEF Spec, Pictures!Spec

LEMMA ProxyRun == Spec => Proxy!Spec \/ [](part # "proxy")
<1>1. Init => Proxy!Init \/ part # "proxy"
  BY DEF Init
<1>2. [Next]_vars => [Proxy!Next]_(Proxy!vars) \/ part # "proxy"
  BY DEF Next, vars, Proxy!vars
<1>3. part # "proxy" /\ [Next]_vars => (part # "proxy")'
  BY DEF Next, vars
<1>4. ~(part # "proxy") /\ [Next]_vars => ~(part # "proxy")'
  BY DEF Next, vars
<1> QED BY <1>1, <1>2, <1>3, <1>4, PTL DEF Spec, Proxy!Spec

LEMMA GatewayRun == Spec => Gateway!Spec \/ [](part # "gateway")
<1>1. Init => Gateway!Init \/ part # "gateway"
  BY DEF Init
<1>2. [Next]_vars => [Gateway!Next]_(Gateway!vars) \/ part # "gateway"
  BY DEF Next, vars, Gateway!vars
<1>3. part # "gateway" /\ [Next]_vars => (part # "gateway")'
  BY DEF Next, vars
<1>4. ~(part # "gateway") /\ [Next]_vars => ~(part # "gateway")'
  BY DEF Next, vars
<1> QED BY <1>1, <1>2, <1>3, <1>4, PTL DEF Spec, Gateway!Spec

LEMMA BackupRun == Spec => Backup!Spec \/ [](part # "backup")
<1>1. Init => Backup!Init \/ part # "backup"
  BY DEF Init
<1>2. [Next]_vars => [Backup!Next]_(Backup!vars) \/ part # "backup"
  BY DEF Next, vars, Backup!vars
<1>3. part # "backup" /\ [Next]_vars => (part # "backup")'
  BY DEF Next, vars
<1>4. ~(part # "backup") /\ [Next]_vars => ~(part # "backup")'
  BY DEF Next, vars
<1> QED BY <1>1, <1>2, <1>3, <1>4, PTL DEF Spec, Backup!Spec

LEMMA TracesRun == Spec => Traces!Spec \/ [](part # "traces")
<1>1. Init => Traces!Init \/ part # "traces"
  BY DEF Init
<1>2. [Next]_vars => [Traces!Next]_(Traces!vars) \/ part # "traces"
  BY DEF Next, vars, Traces!vars
<1>3. part # "traces" /\ [Next]_vars => (part # "traces")'
  BY DEF Next, vars
<1>4. ~(part # "traces") /\ [Next]_vars => ~(part # "traces")'
  BY DEF Next, vars
<1> QED BY <1>1, <1>2, <1>3, <1>4, PTL DEF Spec, Traces!Spec

LEMMA ReleaseRun == Spec => Release!Spec \/ [](part # "release")
<1>1. Init => Release!Init \/ part # "release"
  BY DEF Init
<1>2. [Next]_vars => [Release!Next]_(Release!vars) \/ part # "release"
  BY DEF Next, vars, Release!vars
<1>3. part # "release" /\ [Next]_vars => (part # "release")'
  BY DEF Next, vars
<1>4. ~(part # "release") /\ [Next]_vars => ~(part # "release")'
  BY DEF Next, vars
<1> QED BY <1>1, <1>2, <1>3, <1>4, PTL DEF Spec, Release!Spec

\* What is published was tried and reviewed as it is, in every behaviour of
\* skill_authoring.py: the version has the text of its approved request and
\* offers no profile that was not tried at the submitted revision.
THEOREM PublishedIsTried == Spec => []PublishedWasTried
<1>1. Skills!PublishedWasTried => PublishedWasTried
  BY DEF PublishedWasTried
<1>2. part # "skills" => PublishedWasTried
  BY DEF PublishedWasTried
<1>3. Skills!Spec => []Skills!PublishedWasTried
  BY ConstantsFit, PublishedIsTriedAlone DEF ConstantsFit
<1> QED BY <1>1, <1>2, <1>3, SkillsRun, PTL

\* The link of a ready artifact works: its download is ready and its file is
\* there until the artifact's own time has passed, whatever requests, clocks,
\* failed reads and restarts come between mark_ready and link_artifact.
THEOREM LinksWork == Spec => []ReadyArtifactHasFile
<1>1. /\ Files!ReadyArtifactHasFile \/ part # "documents"
      /\ Pictures!PicturesAreWhole \/ part # "pictures"
      => ReadyArtifactHasFile
  BY DEF ReadyArtifactHasFile
<1>2. Files!Spec => []Files!ReadyArtifactHasFile
  BY LinksWorkAlone
<1>3. Pictures!Spec => []Pictures!PicturesAreWhole
  BY ConstantsFit, PicturesStayWhole DEF ConstantsFit
<1> QED BY <1>1, <1>2, <1>3, FilesRun, PicturesRun, PTL

\* However often a request or an answer is lost, one prepare call leaves one
\* operation, and so one trusted card (mcp-client.js, OperationStore.create).
THEOREM PreparesLeaveOne == Spec => []PreparedOnce
<1>1. Proxy!PreparedOnce => PreparedOnce
  BY DEF PreparedOnce
<1>2. part # "proxy" => PreparedOnce
  BY DEF PreparedOnce
<1>3. Proxy!Spec => []Proxy!PreparedOnce
  BY ConstantsFit, PreparesLeaveOneAlone DEF ConstantsFit
<1> QED BY <1>1, <1>2, <1>3, ProxyRun, PTL

\* An end of the stream that says the message may be sent again is true: no
\* run of it has called a tool, and none is left that could.
THEOREM SafeRetriesAreSafe == Spec => []SafeIsTrue
<1>1. Gateway!SafeIsTrue => SafeIsTrue
  BY DEF SafeIsTrue
<1>2. part # "gateway" => SafeIsTrue
  BY DEF SafeIsTrue
<1>3. Gateway!Spec => []Gateway!SafeIsTrue
  BY ConstantsFit, SafeRetriesAreSafeAlone DEF ConstantsFit
<1> QED BY <1>1, <1>2, <1>3, GatewayRun, PTL

\* A published recovery point is one moment of the runtime, however the commits
\* of the service fell between the reads of the snapshot.
THEOREM PointsAreMoments == Spec => []OneMoment
<1>1. Backup!OneMoment => OneMoment
  BY DEF OneMoment
<1>2. part # "backup" => OneMoment
  BY DEF OneMoment
<1>3. Backup!Spec => []Backup!OneMoment
  BY PointsAreMomentsAlone
<1> QED BY <1>1, <1>2, <1>3, BackupRun, PTL

\* What the trace says of a write that was verified, or of an operation that
\* has ended, is so, however the stale writes of polls fall between the two
\* statements of update_trace.
THEOREM TracesAreReal == Spec => []TraceIsReal
<1>1. Traces!TraceIsReal => TraceIsReal
  BY DEF TraceIsReal
<1>2. part # "traces" => TraceIsReal
  BY DEF TraceIsReal
<1>3. Traces!Spec => []Traces!TraceIsReal
  BY TracesAreRealAlone
<1> QED BY <1>1, <1>2, <1>3, TracesRun, PTL

\* When no transaction is open, whatever failed or died and was recovered on
\* the way, one confirmed release is installed and runs, and the databases hold
\* no migration of a release that was not confirmed.
THEOREM ReleasesAreWhole == Spec => []ClosedIsWhole
<1>1. Release!ClosedIsWhole => ClosedIsWhole
  BY DEF ClosedIsWhole
<1>2. part # "release" => ClosedIsWhole
  BY DEF ClosedIsWhole
<1>3. Release!Spec => []Release!ClosedIsWhole
  BY ConstantsFit, ReleasesAreWholeAlone DEF ConstantsFit
<1> QED BY <1>1, <1>2, <1>3, ReleaseRun, PTL

\* The rows of every part keep to their domains, whatever the number of its
\* users, calls, items and messages.  Some of the domains are what the code
\* promises: a request of the plugin is sent no more often than its delays
\* allow and leaves no more operations than that (mcp-client.js), a message
\* is given to the agent host no more often than its attempts allow
\* (gateway.py), an open release transaction has a receipt
\* (agentbridge_release.py), and a batch, its items and its task stay in
\* their statuses however many calls are served at a time (tasks.py).
THEOREM PlatformIsTyped == Spec => []TypeOK
<1>1. Spec => [](part = "sessions" => Sessions!TypeOK)
  <2>1. Sessions!Spec => []Sessions!TypeOK
    BY ConstantsFit, SessionTypes DEF ConstantsFit
  <2>2. (Sessions!TypeOK \/ part # "sessions") => (part = "sessions" => Sessions!TypeOK)
    OBVIOUS
  <2> QED BY <2>1, <2>2, SessionsRun, PTL
<1>2. Spec => [](part = "forms" => Forms!TypeOK)
  <2>1. Forms!Spec => []Forms!TypeOK
    BY ConstantsFit, FormTypes DEF ConstantsFit
  <2>2. (Forms!TypeOK \/ part # "forms") => (part = "forms" => Forms!TypeOK)
    OBVIOUS
  <2> QED BY <2>1, <2>2, FormsRun, PTL
<1>3. Spec => [](part = "accounts" => Web!TypeOK)
  <2>1. Web!Spec => []Web!TypeOK
    BY ConstantsFit, WebTypes DEF ConstantsFit
  <2>2. (Web!TypeOK \/ part # "accounts") => (part = "accounts" => Web!TypeOK)
    OBVIOUS
  <2> QED BY <2>1, <2>2, WebRun, PTL
<1>4. Spec => [](part = "chats" => Chats!TypeOK)
  <2>1. Chats!Spec => []Chats!TypeOK
    BY ConstantsFit, ChatTypes DEF ConstantsFit
  <2>2. (Chats!TypeOK \/ part # "chats") => (part = "chats" => Chats!TypeOK)
    OBVIOUS
  <2> QED BY <2>1, <2>2, ChatsRun, PTL
<1>5. Spec => [](part = "gateway" => Gateway!TypeOK)
  <2>1. Gateway!Spec => []Gateway!TypeOK
    BY ConstantsFit, GatewayTypesHold DEF ConstantsFit
  <2>2. (Gateway!TypeOK \/ part # "gateway") => (part = "gateway" => Gateway!TypeOK)
    OBVIOUS
  <2> QED BY <2>1, <2>2, GatewayRun, PTL
<1>6. Spec => [](part = "plans" => Plans!TypeOK)
  <2>1. Plans!Spec => []Plans!TypeOK
    BY ConstantsFit, PlanTypes DEF ConstantsFit
  <2>2. (Plans!TypeOK \/ part # "plans") => (part = "plans" => Plans!TypeOK)
    OBVIOUS
  <2> QED BY <2>1, <2>2, PlansRun, PTL
<1>7. Spec => [](part = "hub" => Hub!TypeOK)
  <2>1. Hub!Spec => []Hub!TypeOK
    BY ConstantsFit, HubTypesHold DEF ConstantsFit
  <2>2. (Hub!TypeOK \/ part # "hub") => (part = "hub" => Hub!TypeOK)
    OBVIOUS
  <2> QED BY <2>1, <2>2, HubRun, PTL
<1>8. Spec => [](part = "documents" => Files!TypeOK)
  <2>1. Files!Spec => []Files!TypeOK
    BY ConstantsFit, FileTypesHold DEF ConstantsFit
  <2>2. (Files!TypeOK \/ part # "documents") => (part = "documents" => Files!TypeOK)
    OBVIOUS
  <2> QED BY <2>1, <2>2, FilesRun, PTL
<1>9. Spec => [](part = "pictures" => Pictures!TypeOK)
  <2>1. Pictures!Spec => []Pictures!TypeOK
    BY ConstantsFit, PictureTypesHold DEF ConstantsFit
  <2>2. (Pictures!TypeOK \/ part # "pictures") => (part = "pictures" => Pictures!TypeOK)
    OBVIOUS
  <2> QED BY <2>1, <2>2, PicturesRun, PTL
<1>10. Spec => [](part = "proxy" => Proxy!TypeOK)
  <2>1. Proxy!Spec => []Proxy!TypeOK
    BY ConstantsFit, ProxyTypesHold DEF ConstantsFit
  <2>2. (Proxy!TypeOK \/ part # "proxy") => (part = "proxy" => Proxy!TypeOK)
    OBVIOUS
  <2> QED BY <2>1, <2>2, ProxyRun, PTL
<1>11. Spec => [](part = "access" => Rights!TypeOK)
  <2>1. Rights!Spec => []Rights!TypeOK
    BY ConstantsFit, RightsTypes DEF ConstantsFit
  <2>2. (Rights!TypeOK \/ part # "access") => (part = "access" => Rights!TypeOK)
    OBVIOUS
  <2> QED BY <2>1, <2>2, RightsRun, PTL
<1>12. Spec => [](part = "skills" => Skills!TypeOK)
  <2>1. Skills!Spec => []Skills!TypeOK
    BY ConstantsFit, SkillTypesHold DEF ConstantsFit
  <2>2. (Skills!TypeOK \/ part # "skills") => (part = "skills" => Skills!TypeOK)
    OBVIOUS
  <2> QED BY <2>1, <2>2, SkillsRun, PTL
<1>13. Spec => [](part = "backup" => Backup!TypeOK)
  <2>1. Backup!Spec => []Backup!TypeOK
    BY BackupTypesHold
  <2>2. (Backup!TypeOK \/ part # "backup") => (part = "backup" => Backup!TypeOK)
    OBVIOUS
  <2> QED BY <2>1, <2>2, BackupRun, PTL
<1>14. Spec => [](part = "traces" => Traces!TypeOK)
  <2>1. Traces!Spec => []Traces!TypeOK
    BY ConstantsFit, TraceTypesHold DEF ConstantsFit
  <2>2. (Traces!TypeOK \/ part # "traces") => (part = "traces" => Traces!TypeOK)
    OBVIOUS
  <2> QED BY <2>1, <2>2, TracesRun, PTL
<1>15. Spec => [](part = "release" => Release!TypeOK)
  <2>1. Release!Spec => []Release!TypeOK
    BY ConstantsFit, ReleaseTypesHold DEF ConstantsFit
  <2>2. (Release!TypeOK \/ part # "release") => (part = "release" => Release!TypeOK)
    OBVIOUS
  <2> QED BY <2>1, <2>2, ReleaseRun, PTL
<1> DEFINE
      Front ==
        /\ (part = "sessions" => Sessions!TypeOK)
        /\ (part = "forms" => Forms!TypeOK)
        /\ (part = "accounts" => Web!TypeOK)
        /\ (part = "chats" => Chats!TypeOK)
        /\ (part = "gateway" => Gateway!TypeOK)
      Work ==
        /\ (part = "plans" => Plans!TypeOK)
        /\ (part = "hub" => Hub!TypeOK)
        /\ (part = "documents" => Files!TypeOK)
        /\ (part = "pictures" => Pictures!TypeOK)
        /\ (part = "proxy" => Proxy!TypeOK)
      Upkeep ==
        /\ (part = "access" => Rights!TypeOK)
        /\ (part = "skills" => Skills!TypeOK)
        /\ (part = "backup" => Backup!TypeOK)
        /\ (part = "traces" => Traces!TypeOK)
        /\ (part = "release" => Release!TypeOK)
<1>16. Spec => []Front
  BY <1>1, <1>2, <1>3, <1>4, <1>5, PTL
<1>17. Spec => []Work
  BY <1>6, <1>7, <1>8, <1>9, <1>10, PTL
<1>18. Spec => []Upkeep
  BY <1>11, <1>12, <1>13, <1>14, <1>15, PTL
<1>19. Front /\ Work /\ Upkeep => TypeOK
  BY DEF TypeOK
<1> HIDE DEF Front, Work, Upkeep
<1> QED BY <1>16, <1>17, <1>18, <1>19, PTL
=============================================================================
