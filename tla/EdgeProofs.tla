----------------------------- MODULE EdgeProofs -----------------------------
(***************************************************************************)
(* Five parts of MCAdapters for every value of their constants: the writes *)
(* of the adapters on one record (BusinessActions), the submission of a    *)
(* form through the page of the OA (SeeyonSubmit), the renewal of the      *)
(* lighting system's session (SmartlightSession), the timeline of the      *)
(* workspace page (WorkspaceTimeline) and the reading of collections that  *)
(* change meanwhile (PagedRead).  Each part has its inductive invariant, a *)
(* lemma for each group of actions, and its theorems.                      *)
(***************************************************************************)
EXTENDS MCAdapters, Sequences, FiniteSets, FiniteSetTheorems, SequenceTheorems, TLAPS

(***************************************************************************)
(* The writes of the adapters.                                             *)
(***************************************************************************)

Records == [content : Nat, done : BOOLEAN, ours : {0, 1}, theirs : BOOLEAN]

ActionTypes ==
    /\ rec \in Records
    /\ wire \in {"none", "flying", "gone"}
    /\ pc \in {"idle", "prepared", "boundary", "posted", "renewed", "reposted",
               "reading", "absent"} \cup Action!Outcomes

\* Before anything was sent, and where nothing will be.
Unsent == {"idle", "prepared", "boundary", "mismatch", "already"}

\* A request that may still be applied has not been applied; one that is to be
\* sent again, or that was rejected, was not applied and never will be.
WireOK ==
    /\ pc \in Unsent => wire = "none"
    /\ wire # "gone" => rec.ours = 0
    /\ pc \in {"renewed", "rejected"} => wire = "gone" /\ rec.ours = 0

\* The inductive invariant of a write.
ActionInv == ActionTypes /\ WireOK

LEMMA ActionInit == Action!Init => ActionInv
<1> SUFFICES ASSUME Action!Init PROVE ActionInv
  OBVIOUS
<1>1. /\ rec = [content |-> 1, done |-> FALSE, ours |-> 0, theirs |-> FALSE]
      /\ wire = "none" /\ pc = "idle"
  BY DEF Action!Init
<1>2. ActionTypes
  BY <1>1 DEF ActionTypes, Records, Action!Outcomes
<1>3. WireOK
  BY <1>1 DEF WireOK
<1> QED BY <1>2, <1>3 DEF ActionInv

\* A step of the adapter that sends nothing and learns nothing.
LEMMA StepKeeps ==
    ASSUME ActionInv,
           NEW from, NEW to \in {"reading", "absent", "unknown", "mismatch", "succeeded"},
           from \notin {"idle", "renewed", "rejected", "mismatch", "already"},
           from # "prepared" => to # "mismatch",
           from = "prepared" => to = "mismatch",
           Action!Step(from, to)
    PROVE  ActionInv'
<1> USE DEF ActionInv
<1>1. /\ pc = from /\ pc' = to
      /\ UNCHANGED <<kind, long, rec, plan, wire>>
  BY DEF Action!Step
<1>2. ActionTypes'
  BY <1>1 DEF ActionTypes, Action!Outcomes
<1>3. WireOK'
  BY <1>1 DEF WireOK, Unsent
<1> QED BY <1>2, <1>3

\* The business system and the people who use it.
LEMMA OthersKeep ==
    ASSUME ActionInv,
           Action!Apply \/ Action!Drop \/ Action!OthersEdit \/ Action!OthersDo \/ Action!OthersUndo
    PROVE  ActionInv'
<1> USE DEF ActionInv
<1>1. CASE Action!Apply
  <2>1. wire = "flying" /\ wire' = "gone" /\ UNCHANGED <<kind, long, pc>>
    BY <1>1 DEF Action!Apply
  <2>2. rec.ours = 0 /\ pc \notin Unsent /\ pc \notin {"renewed", "rejected"}
    BY <2>1 DEF WireOK
  <2>3. \/ UNCHANGED rec
        \/ rec' = [rec EXCEPT !.done = TRUE, !.ours = 1]
    BY <1>1, <2>2 DEF Action!Apply, ActionTypes, Records
  <2> QED BY <2>1, <2>2, <2>3 DEF ActionTypes, Records, WireOK
<1>2. CASE Action!Drop
  BY <1>2 DEF Action!Drop, ActionTypes, WireOK
<1>3. CASE Action!OthersEdit \/ Action!OthersUndo \/ Action!OthersDo
  <2>1. UNCHANGED <<wire, pc>>
    BY <1>3 DEF Action!OthersEdit, Action!OthersUndo, Action!OthersDo
  <2>2. \/ rec' = [rec EXCEPT !.content = rec.content + 1, !.done = (rec.done /\ kind # "remark")]
        \/ rec' = [rec EXCEPT !.done = FALSE, !.content = rec.content + 1]
        \/ rec' = [rec EXCEPT !.done = TRUE]
        \/ rec' = [rec EXCEPT !.theirs = TRUE]
    BY <1>3 DEF Action!OthersEdit, Action!OthersUndo, Action!OthersDo
  <2>3. rec' \in Records /\ rec'.ours = rec.ours
    <3>1. rec \in Records /\ rec.content + 1 \in Nat /\ (rec.done /\ kind # "remark") \in BOOLEAN
      BY DEF ActionTypes, Records
    <3> QED BY <2>2, <3>1 DEF Records
  <2> QED BY <2>1, <2>3 DEF ActionTypes, WireOK
<1> QED BY <1>1, <1>2, <1>3

\* prepare, and the second look before the boundary.
LEMMA CheckingKeeps ==
    ASSUME ActionInv,
           Action!Prepare \/ Action!Check \/ Action!CheckAlarm \/ Action!CheckFails
    PROVE  ActionInv'
<1> USE DEF ActionInv
<1>1. CASE Action!Prepare
  BY <1>1 DEF Action!Prepare, ActionTypes, WireOK, Unsent, Action!Outcomes
<1>2. ASSUME NEW to, Action!Boundary(to), to \in {"boundary", "already"}
      PROVE  ActionInv'
  <2>1. /\ pc = "prepared" /\ pc' = to
        /\ UNCHANGED <<kind, long, rec, plan, wire>>
    BY <1>2 DEF Action!Boundary
  <2>2. wire = "none" /\ rec.ours = 0
    BY <2>1 DEF WireOK, Unsent
  <2>3. ActionTypes'
    BY <1>2, <2>1 DEF ActionTypes, Action!Outcomes
  <2>4. WireOK'
    BY <1>2, <2>1, <2>2 DEF WireOK, Unsent
  <2> QED BY <2>3, <2>4
<1>3. CASE Action!Check \/ Action!CheckAlarm
  BY <1>2, <1>3 DEF Action!Check, Action!CheckAlarm
<1>4. CASE Action!CheckFails
  BY <1>4, StepKeeps DEF Action!CheckFails
<1> QED BY <1>1, <1>3, <1>4

\* The request is sent, after the boundary or again.
LEMMA SendKeeps ==
    ASSUME ActionInv,
           NEW from \in {"boundary", "renewed"},
           NEW to \in {"posted", "reposted", "reading", "unknown"},
           Action!Send(from, to)
    PROVE  ActionInv'
<1> USE DEF ActionInv
<1>1. /\ pc = from /\ pc' = to /\ wire' = "flying"
      /\ UNCHANGED <<kind, long, rec, plan>>
  BY DEF Action!Send
<1>2. rec.ours = 0
  BY <1>1 DEF WireOK, Unsent
<1>3. ActionTypes'
  BY <1>1 DEF ActionTypes, Action!Outcomes
<1>4. WireOK'
  BY <1>1, <1>2 DEF WireOK, Unsent
<1> QED BY <1>3, <1>4

\* The system refuses the request: it is in flight and will not be applied.
LEMMA AnsweredKeeps ==
    ASSUME ActionInv, wire = "flying", wire' = "gone",
           pc \in {"posted", "reposted"},
           pc' \in {"renewed", "rejected", "unknown", "reading"},
           UNCHANGED <<kind, long, rec, plan>>
    PROVE  ActionInv'
<1> USE DEF ActionInv
<1>1. rec.ours = 0
  BY DEF WireOK
<1>2. ActionTypes'
  BY DEF ActionTypes, Action!Outcomes
<1>3. WireOK'
  BY <1>1 DEF WireOK, Unsent
<1> QED BY <1>2, <1>3

\* Clicks, requests and their answers.
LEMMA SendingKeeps ==
    ASSUME ActionInv,
           \/ Action!Click \/ Action!PostRequest \/ Action!PostAccepted \/ Action!PostRefused
           \/ Action!PostUnauthorized \/ Action!PostAgain \/ Action!RepostAnswered
           \/ Action!PostUnanswered
    PROVE  ActionInv'
<1>1. CASE Action!Click \/ Action!PostRequest \/ Action!PostAgain
  BY <1>1, SendKeeps, StepKeeps DEF Action!Click, Action!PostRequest, Action!PostAgain
<1>2. CASE Action!PostAccepted \/ Action!PostUnanswered
  BY <1>2, StepKeeps DEF Action!PostAccepted, Action!PostUnanswered, Action!NoAnswerAs
<1>3. CASE Action!PostRefused
  <2>1. Action!RefusedAs(kind) \in {"reading", "rejected", "unknown"}
    BY DEF Action!RefusedAs
  <2> QED BY <1>3, <2>1, AnsweredKeeps DEF Action!PostRefused, Action!Answered
<1>4. CASE Action!PostUnauthorized
  BY <1>4, AnsweredKeeps DEF Action!PostUnauthorized, Action!Answered
<1>5. CASE Action!RepostAnswered
  <2>1. /\ pc = "reposted" /\ UNCHANGED <<kind, long, rec, plan>>
    BY <1>5 DEF Action!RepostAnswered
  <2>2. CASE wire = "flying" /\ wire' = "gone" /\ pc' \in {"rejected", "unknown"}
    BY <2>1, <2>2, AnsweredKeeps
  <2>3. CASE pc' \in {"reading", "unknown"} /\ UNCHANGED wire
    <3>1. Action!Step("reposted", pc')
      BY <2>1, <2>3 DEF Action!Step
    <3> QED BY <2>3, <3>1, StepKeeps
  <2> QED BY <1>5, <2>2, <2>3 DEF Action!RepostAnswered
<1> QED BY <1>1, <1>2, <1>3, <1>4, <1>5

\* The readback.
LEMMA ReadingKeeps ==
    ASSUME ActionInv,
           \/ Action!ReadPending \/ Action!ReadPendingIncomplete \/ Action!ReadPunch
           \/ Action!ReadRevokedSent \/ Action!ReadRevokedWaiting
           \/ Action!ReadDraft \/ Action!ReadApplication \/ Action!ReadMeeting
           \/ Action!ReadCancellation \/ Action!ReadRemark \/ Action!ReadAlarm
           \/ Action!ReadGivesUp
    PROVE  ActionInv'
<1>1. \/ Action!Step("reading", "succeeded") \/ Action!Step("reading", "unknown")
      \/ Action!Step("reading", "absent") \/ Action!Step("absent", "succeeded")
      \/ Action!Step("absent", "reading") \/ Action!Step("absent", "unknown")
  BY DEF Action!ReadPending, Action!ReadPendingIncomplete, Action!ReadPunch,
         Action!ReadRevokedSent, Action!ReadRevokedWaiting, Action!ReadDraft,
         Action!ReadApplication, Action!ReadMeeting, Action!ReadCancellation,
         Action!ReadRemark, Action!ReadAlarm, Action!ReadGivesUp
<1> QED BY <1>1, StepKeeps

LEMMA ActionInvariant == Action!Spec => []ActionInv
<1>1. Action!Init => ActionInv
  BY ActionInit
<1>2. ASSUME ActionInv, [Action!Next]_(Action!vars) PROVE ActionInv'
  <2>1. CASE UNCHANGED Action!vars
    BY <1>2, <2>1 DEF Action!vars, ActionInv, ActionTypes, WireOK
  <2>2. CASE \/ Action!Prepare \/ Action!Check \/ Action!CheckAlarm \/ Action!CheckFails
    BY <1>2, <2>2, CheckingKeeps
  <2>3. CASE \/ Action!PrepareApproval \/ Action!PreparePunch \/ Action!PrepareRevoke
             \/ Action!PrepareLeaveDraft \/ Action!PrepareTripDraft \/ Action!PreparePunchDraft
             \/ Action!PrepareApplication \/ Action!PrepareCancel \/ Action!PrepareMeeting
             \/ Action!PrepareRemark \/ Action!PrepareAlarm
    BY <2>2, <2>3 DEF Action!PrepareApproval, Action!PreparePunch, Action!PrepareRevoke,
         Action!PrepareLeaveDraft, Action!PrepareTripDraft, Action!PreparePunchDraft,
         Action!PrepareApplication, Action!PrepareCancel, Action!PrepareMeeting,
         Action!PrepareRemark, Action!PrepareAlarm
  <2>4. CASE \/ Action!CheckApproval \/ Action!CheckPunch \/ Action!CheckRevoke
             \/ Action!CheckLeaveDraft \/ Action!CheckTripDraft \/ Action!CheckPunchDraft
             \/ Action!CheckApplication \/ Action!CheckCancel \/ Action!CheckMeeting
             \/ Action!CheckRemark
    BY <2>2, <2>4 DEF Action!CheckApproval, Action!CheckPunch, Action!CheckRevoke,
         Action!CheckLeaveDraft, Action!CheckTripDraft, Action!CheckPunchDraft,
         Action!CheckApplication, Action!CheckCancel, Action!CheckMeeting, Action!CheckRemark
  <2>5. CASE Action!ClickApproval \/ Action!ClickPunch \/ Action!ClickRevoke \/ Action!SaveDraft
    BY <1>2, <2>5, SendingKeeps DEF Action!ClickApproval, Action!ClickPunch, Action!ClickRevoke,
                                    Action!SaveDraft
  <2> QED BY <1>2, <2>1, <2>2, <2>3, <2>4, <2>5, OthersKeep, SendingKeeps, ReadingKeeps
             DEF Action!Next
<1> QED BY <1>1, <1>2, PTL DEF Action!Spec

\* Whatever part runs, the variables of BusinessActions behave as it says.
LEMMA ActionRuns == Spec => Action!Spec
<1>1. Init => Action!Init
  BY DEF Init
<1>2. [Next]_vars => [Action!Next]_(Action!vars)
  BY DEF Next, vars, submissionVars, actionVars, readingVars, renewalVars, pageVars, Action!vars
<1> QED BY <1>1, <1>2, PTL DEF Spec, Action!Spec

\* An adapter that reports a rejection or a changed target has written nothing,
\* and nothing it sent can still take effect.
THEOREM RejectionsAreFinal == Spec => []RejectedNeverWrites
<1>1. ActionInv => RejectedNeverWrites
  BY DEF ActionInv, WireOK, Unsent, Action!RejectedNeverWrites, RejectedNeverWrites
<1> QED BY <1>1, ActionInvariant, ActionRuns, PTL

\* Whatever is lost, repeated or done by hand, the record is written at most
\* once for one authorization.
THEOREM WritesOnce == Spec => []WrittenOnce
<1>1. ActionInv => WrittenOnce
  BY DEF ActionInv, ActionTypes, Records, Action!WrittenOnce, WrittenOnce
<1> QED BY <1>1, ActionInvariant, ActionRuns, PTL

(***************************************************************************)
(* The submission of a form through the page of the OA.                    *)
(***************************************************************************)

Steps == {"plan", "submit", "observe", "handle", "wait", "mark", "grid", "done"}
Results == {"none", "mismatch", "rejected", "validation", "unknown", "succeeded"}
Pages == [at : {"form", "checking", "asking", "stopped", "sent"},
          prompt : Submission!Prompts \cup {NoPrompt}, hooked : Seq(Submission!Prompts),
          raised : SUBSET Submission!Prompts, passed : SUBSET Submission!Prompts,
          sent : Nat, listed : Nat, manual : Nat]
Trackers == [pending : Submission!Prompts \cup {NoPrompt}, activated : BOOLEAN,
             continued : SUBSET Submission!Prompts, send : BOOLEAN]

SubmitTypes ==
    /\ oa \in Pages
    /\ tracker \in Trackers
    /\ host \in [pc : Steps, outcome : Results, again : BOOLEAN]
    /\ authorized \in SUBSET Warnings

\* What a warning of this attempt can be known from: the tracker, the page, and
\* the hooked prompts hold none that was not raised in it.
RaisedOK ==
    /\ tracker.pending \in oa.raised \cup {Blocker, NoPrompt}
    /\ oa.prompt \in oa.raised \cup {Blocker, NoPrompt}
    /\ \A i \in 1..Len(oa.hooked) : oa.hooked[i] \in oa.raised \cup {Blocker}

\* The adapter waits for a control only for a warning that is authorized.
AgainOK == host.pc = "wait" => oa.raised \cap authorized # {}

\* The executor asks about a warning, which the tracker keeps meanwhile.
AskedOK == host.outcome = "validation" => host.pc = "done" /\ tracker.pending \in Warnings

\* The inductive invariant of a submission.
SubmitInv == SubmitTypes /\ RaisedOK /\ AgainOK /\ AskedOK /\ Submission!ContinuedOnlyAgain

LEMMA SubmitInit ==
    ASSUME Submission!Init
    PROVE  SubmitInv
<1>1. /\ oa = [at |-> "form", prompt |-> NoPrompt, hooked |-> << >>, raised |-> {},
               passed |-> {}, sent |-> 0, listed |-> 0, manual |-> 0]
      /\ tracker = [pending |-> NoPrompt, activated |-> FALSE, continued |-> {}, send |-> FALSE]
      /\ host = [pc |-> "plan", outcome |-> "none", again |-> FALSE]
      /\ authorized = {}
  BY DEF Submission!Init, Submission!NewTracker, Submission!NewPage
<1>2. SubmitTypes
  BY <1>1 DEF SubmitTypes, Pages, Trackers, Steps, Results
<1>3. RaisedOK /\ AgainOK /\ AskedOK /\ Submission!ContinuedOnlyAgain
  BY <1>1 DEF RaisedOK, AgainOK, AskedOK, Submission!ContinuedOnlyAgain
<1> QED BY <1>2, <1>3 DEF SubmitInv

\* A page is its fields.
LEMMA PageFields ==
    ASSUME NEW p \in Pages
    PROVE  /\ p = [at |-> p.at, prompt |-> p.prompt, hooked |-> p.hooked, raised |-> p.raised,
                   passed |-> p.passed, sent |-> p.sent, listed |-> p.listed,
                   manual |-> p.manual]
           /\ p.hooked \in Seq(Submission!Prompts)
           /\ p.raised \subseteq Submission!Prompts /\ p.passed \subseteq Submission!Prompts
           /\ p.sent \in Nat /\ p.listed \in Nat /\ p.manual \in Nat
<1> DEFINE P == Submission!Prompts
           Q == Seq(P)
           N == Nat
           R == [at : {"form", "checking", "asking", "stopped", "sent"},
                 prompt : P \cup {NoPrompt}, hooked : Q, raised : SUBSET P, passed : SUBSET P,
                 sent : N, listed : N, manual : N]
<1>1. p \in R
  BY DEF Pages
<1> HIDE DEF P, Q, N
<1>2. /\ p = [at |-> p.at, prompt |-> p.prompt, hooked |-> p.hooked, raised |-> p.raised,
              passed |-> p.passed, sent |-> p.sent, listed |-> p.listed, manual |-> p.manual]
      /\ p.hooked \in Q /\ p.raised \in SUBSET P /\ p.passed \in SUBSET P
      /\ p.sent \in N /\ p.listed \in N /\ p.manual \in N
  BY <1>1
<1> QED BY <1>2 DEF P, Q, N

\* A page is one field by field.
LEMMA PagesMade ==
    ASSUME NEW p \in Pages
    PROVE  /\ \A at \in {"form", "checking", "asking", "stopped", "sent"},
                 prompt \in Submission!Prompts \cup {NoPrompt},
                 hooked \in Seq(Submission!Prompts),
                 raised, passed \in SUBSET Submission!Prompts :
                /\ [p EXCEPT !.at = at, !.prompt = prompt, !.hooked = hooked,
                             !.raised = raised, !.passed = passed] \in Pages
           /\ \A at \in {"form", "checking", "asking", "stopped", "sent"},
                 prompt \in Submission!Prompts \cup {NoPrompt} :
                /\ [p EXCEPT !.at = at] \in Pages
                /\ [p EXCEPT !.prompt = prompt] \in Pages
                /\ [p EXCEPT !.at = at, !.prompt = prompt] \in Pages
           /\ \A at \in {"form", "checking", "asking", "stopped", "sent"},
                 prompt \in Submission!Prompts \cup {NoPrompt},
                 passed \in SUBSET Submission!Prompts :
                [p EXCEPT !.at = at, !.prompt = prompt, !.passed = passed] \in Pages
           /\ \A n \in Nat : /\ [p EXCEPT !.at = "sent", !.sent = n] \in Pages
                             /\ [p EXCEPT !.listed = n] \in Pages
                             /\ [p EXCEPT !.manual = n] \in Pages
<1> DEFINE P == Submission!Prompts
           Q == Seq(P)
           N == Nat
           R == [at : {"form", "checking", "asking", "stopped", "sent"},
                 prompt : P \cup {NoPrompt}, hooked : Q, raised : SUBSET P, passed : SUBSET P,
                 sent : N, listed : N, manual : N]
<1>1. R = Pages
  BY DEF Pages
<1>2. p \in R
  BY <1>1
<1> HIDE DEF P, Q, N
<1>3. \A at \in {"form", "checking", "asking", "stopped", "sent"}, prompt \in P \cup {NoPrompt},
         hooked \in Q, raised, passed \in SUBSET P :
        [p EXCEPT !.at = at, !.prompt = prompt, !.hooked = hooked, !.raised = raised,
                  !.passed = passed] \in R
  BY <1>2
<1>4. \A at \in {"form", "checking", "asking", "stopped", "sent"}, prompt \in P \cup {NoPrompt} :
        /\ [p EXCEPT !.at = at] \in R
        /\ [p EXCEPT !.prompt = prompt] \in R
        /\ [p EXCEPT !.at = at, !.prompt = prompt] \in R
  BY <1>2
<1>5. \A at \in {"form", "checking", "asking", "stopped", "sent"}, prompt \in P \cup {NoPrompt},
         passed \in SUBSET P :
        [p EXCEPT !.at = at, !.prompt = prompt, !.passed = passed] \in R
  BY <1>2
<1>6. \A n \in N : /\ [p EXCEPT !.at = "sent", !.sent = n] \in R
                  /\ [p EXCEPT !.listed = n] \in R
                  /\ [p EXCEPT !.manual = n] \in R
  BY <1>2
<1> HIDE DEF R
<1> QED BY <1>1, <1>3, <1>4, <1>5, <1>6 DEF P, Q, N

\* Only the host moves, and not to the wait for a control.
LEMMA HostMoves ==
    ASSUME SubmitInv, UNCHANGED <<oa, tracker, authorized>>,
           host' \in [pc : Steps, outcome : Results, again : BOOLEAN],
           host'.pc # "wait",
           host'.outcome = "validation" => host'.pc = "done" /\ tracker.pending \in Warnings
    PROVE  SubmitInv'
  BY DEF SubmitInv, SubmitTypes, RaisedOK, AgainOK, AskedOK, Submission!ContinuedOnlyAgain

\* The page moves while the host and the authorizations stay: what was raised
\* stays raised, and a new prompt is passed only when an authorized one was.
LEMMA PageMoves ==
    ASSUME SubmitInv, UNCHANGED <<host, authorized>>, tracker' = tracker \/ Submission!Running,
           oa' \in Pages, tracker' \in Trackers, RaisedOK',
           oa.raised \subseteq oa'.raised,
           oa'.passed = oa.passed \/ oa'.raised \cap authorized # {}
    PROVE  SubmitInv'
<1> USE DEF SubmitInv
<1>1. SubmitTypes'
  BY DEF SubmitTypes
<1>2. AgainOK'
  BY DEF AgainOK
<1>3. Submission!ContinuedOnlyAgain'
  BY DEF Submission!ContinuedOnlyAgain
<1>4. AskedOK'
  BY DEF AskedOK, Submission!Running
<1> QED BY <1>1, <1>2, <1>3, <1>4

\* A fresh page and a fresh tracker for each attempt.
LEMMA SubmitKeeps ==
    ASSUME SubmitInv, NEW f, Submission!Prepare(f) \/ Submission!Submit(f)
    PROVE  SubmitInv'
<1> USE DEF SubmitInv
<1>1. CASE Submission!Prepare(f)
  <2>1. /\ UNCHANGED <<oa, tracker, authorized>>
        /\ \/ host' = [host EXCEPT !.pc = "submit"]
           \/ host' = [host EXCEPT !.pc = "done", !.outcome = "mismatch"]
    BY <1>1 DEF Submission!Prepare, Submission!Go, Submission!End
  <2>2. host.pc = "plan" /\ host.outcome # "validation"
    BY <1>1 DEF Submission!Prepare, AskedOK
  <2>3. /\ host' \in [pc : Steps, outcome : Results, again : BOOLEAN]
        /\ host'.pc # "wait" /\ host'.outcome # "validation"
    BY <2>1, <2>2 DEF SubmitTypes, Steps, Results
  <2> QED BY <2>1, <2>3, HostMoves
<1>2. CASE Submission!Submit(f)
  <2>1. /\ UNCHANGED <<form, authorized>>
        /\ tracker' = [pending |-> NoPrompt, activated |-> FALSE, continued |-> {}, send |-> FALSE]
        /\ \/ /\ host' = [host EXCEPT !.pc = "observe", !.again = FALSE]
              /\ oa' = [oa EXCEPT !.at = "checking", !.prompt = NoPrompt, !.hooked = << >>,
                                  !.raised = {}, !.passed = {}]
           \/ /\ host' = [host EXCEPT !.pc = "done", !.outcome = "mismatch"]
              /\ UNCHANGED oa
    BY <1>2 DEF Submission!Submit, Submission!AttemptTracker, Submission!NewTracker,
                Submission!End
  <2>2. tracker' \in Trackers /\ tracker'.pending = NoPrompt
    BY <2>1 DEF Trackers
  <2>3. /\ host' \in [pc : Steps, outcome : Results, again : BOOLEAN]
        /\ host'.pc \in {"observe", "done"} /\ host'.outcome # "validation"
    <3>1. host.pc = "submit" /\ host.outcome # "validation"
      BY <1>2 DEF Submission!Submit, AskedOK
    <3> QED BY <2>1, <3>1 DEF SubmitTypes, Steps, Results
  <2>4. CASE UNCHANGED oa
    BY <2>1, <2>2, <2>3, <2>4
       DEF SubmitTypes, RaisedOK, AgainOK, AskedOK, Submission!ContinuedOnlyAgain
  <2>5. CASE oa' = [oa EXCEPT !.at = "checking", !.prompt = NoPrompt, !.hooked = << >>,
                              !.raised = {}, !.passed = {}]
    <3>0. << >> \in Seq(Submission!Prompts)
      OBVIOUS
    <3>1. oa \in Pages
      BY DEF SubmitTypes
    <3>2. oa' \in Pages
      BY <2>5, <3>0, <3>1, PagesMade
    <3>3. oa'.hooked = << >> /\ oa'.passed = {} /\ oa'.prompt = NoPrompt
      BY <2>5, <3>1, PageFields
    <3> QED BY <2>1, <2>2, <2>3, <3>2, <3>3
            DEF SubmitTypes, RaisedOK, AgainOK, AskedOK, Submission!ContinuedOnlyAgain
  <2> QED BY <2>1, <2>4, <2>5
<1> QED BY <1>1, <1>2

\* A prompt that the page shows was raised in this attempt.
LEMMA ShownIsRaised ==
    ASSUME SubmitInv, NEW v \in Submission!Prompts
    PROVE  /\ Submission!Shows(v) \in Pages
           /\ Submission!Shows(v).prompt = v
           /\ Submission!Shows(v).hooked = oa.hooked
           /\ Submission!Shows(v).passed = oa.passed
           /\ Submission!Shows(v).raised = oa.raised \cup {v}
  BY DEF SubmitInv, SubmitTypes, Pages, Submission!Shows

\* The hook of the page adds the prompt, and may forget the oldest.
LEMMA HookedIsRaised ==
    ASSUME NEW S, oa.hooked \in Seq(S), NEW v \in S
    PROVE  /\ Submission!Hooked(v) \in Seq(S)
           /\ \A i \in 1..Len(Submission!Hooked(v)) :
                 \/ Submission!Hooked(v)[i] = v
                 \/ \E j \in 1..Len(oa.hooked) : Submission!Hooked(v)[i] = oa.hooked[j]
<1> DEFINE q == Append(oa.hooked, v)
<1>1. /\ q \in Seq(S) /\ q # << >> /\ Len(q) = Len(oa.hooked) + 1
      /\ \A i \in 1..Len(q) : q[i] = v \/ (i \in 1..Len(oa.hooked) /\ q[i] = oa.hooked[i])
  OBVIOUS
<1>2. CASE Submission!Hooked(v) = q
  BY <1>1, <1>2
<1>3. CASE Submission!Hooked(v) = Tail(q)
  <2>1. /\ Tail(q) \in Seq(S) /\ Len(Tail(q)) = Len(q) - 1
        /\ \A i \in 1..Len(Tail(q)) : Tail(q)[i] = q[i + 1] /\ i + 1 \in 1..Len(q)
    BY <1>1, HeadTailProperties
  <2> HIDE DEF q
  <2> QED BY <1>1, <1>3, <2>1
<1> QED BY <1>2, <1>3 DEF Submission!Hooked

\* The OA raises a prompt: as an answer of the form, or on the page.
LEMMA PromptKeeps ==
    ASSUME SubmitInv, NEW v \in Submission!Prompts,
           Submission!RaiseCap4(v) \/ Submission!RaisePage(v)
    PROVE  SubmitInv'
<1> USE DEF SubmitInv
<1>0. UNCHANGED <<host, authorized>> /\ Submission!Running
  BY DEF Submission!RaiseCap4, Submission!RaisePage
<1>1. CASE Submission!RaiseCap4(v)
  <2>1. /\ oa' = Submission!Shows(v)
        /\ tracker' = [tracker EXCEPT !.pending = v, !.activated = FALSE]
    BY <1>1 DEF Submission!RaiseCap4
  <2>2. tracker' \in Trackers /\ tracker'.pending = v
    BY <2>1 DEF SubmitTypes, Trackers
  <2>3. RaisedOK'
    BY <2>1, <2>2, ShownIsRaised DEF RaisedOK
  <2> QED BY <1>0, <2>1, <2>2, <2>3, ShownIsRaised, PageMoves
<1>2. CASE oa' = Submission!Shows(v) /\ tracker' = tracker
  <2>1. RaisedOK'
    BY <1>2, ShownIsRaised DEF RaisedOK
  <2> QED BY <1>0, <1>2, <2>1, ShownIsRaised, PageMoves DEF SubmitTypes
<1>3. CASE /\ oa' = [Submission!Shows(v) EXCEPT !.hooked = Submission!Hooked(v)]
           /\ tracker' = tracker
  <2>0. oa.hooked \in Seq(Submission!Prompts)
    BY DEF SubmitTypes, Pages
  <2>1. Submission!Hooked(v) \in Seq(Submission!Prompts)
    BY <2>0, HookedIsRaised
  <2>2. /\ oa' \in Pages
        /\ oa'.hooked = Submission!Hooked(v) /\ oa'.prompt = v
        /\ oa'.passed = oa.passed /\ oa'.raised = oa.raised \cup {v}
    BY <1>3, <2>1, ShownIsRaised DEF Pages
  <2>3. \A i \in 1..Len(oa'.hooked) : oa'.hooked[i] \in oa'.raised \cup {Blocker}
    <3>1. SUFFICES ASSUME NEW i \in 1..Len(Submission!Hooked(v))
                   PROVE  Submission!Hooked(v)[i] \in oa.raised \cup {v, Blocker}
      BY <2>2
    <3>2. CASE Submission!Hooked(v)[i] = v
      BY <3>2
    <3>3. ASSUME NEW j \in 1..Len(oa.hooked), Submission!Hooked(v)[i] = oa.hooked[j]
          PROVE  Submission!Hooked(v)[i] \in oa.raised \cup {v, Blocker}
      BY <3>3 DEF RaisedOK
    <3> QED BY <2>0, <3>2, <3>3, HookedIsRaised
  <2>4. RaisedOK'
    BY <1>3, <2>2, <2>3 DEF RaisedOK
  <2> QED BY <1>0, <1>3, <2>2, <2>4, PageMoves DEF SubmitTypes
<1> QED BY <1>1, <1>2, <1>3 DEF Submission!RaisePage

\* A native confirm, answered at once by what the user authorized.
LEMMA ConfirmKeeps ==
    ASSUME SubmitInv, NEW v, Submission!RaiseConfirm(v)
    PROVE  SubmitInv'
<1> USE DEF SubmitInv
<1>1. /\ v \in Warnings /\ UNCHANGED <<host, authorized>> /\ Submission!Running
      /\ \/ tracker' = tracker
         \/ tracker' = [tracker EXCEPT !.pending = v, !.activated = Submission!AcceptsDialog(v)]
      /\ Submission!AcceptsDialog(v) <=> v \in authorized
  BY DEF Submission!RaiseConfirm, Submission!Recorded, Submission!AcceptsDialog
<1>2. tracker' \in Trackers /\ tracker'.pending \in {tracker.pending, v}
  <2>1. \/ tracker' = tracker
        \/ tracker' = [tracker EXCEPT !.pending = v, !.activated = TRUE]
        \/ tracker' = [tracker EXCEPT !.pending = v, !.activated = FALSE]
    <3>1. Submission!AcceptsDialog(v) = TRUE \/ Submission!AcceptsDialog(v) = FALSE
      BY DEF Submission!AcceptsDialog
    <3> QED BY <1>1, <3>1
  <2> QED BY <1>1, <2>1 DEF SubmitTypes, Trackers, Submission!Prompts
<1>3. /\ oa' \in Pages
      /\ oa'.raised = oa.raised \cup {v}
      /\ oa'.prompt = oa.prompt /\ oa'.hooked = oa.hooked
      /\ oa'.passed = oa.passed \/ v \in authorized
  <2>1. CASE v \in authorized
    <3>1. oa' = [oa EXCEPT !.raised = oa.raised \cup {v}, !.passed = oa.passed \cup {v}]
      BY <1>1, <2>1 DEF Submission!RaiseConfirm
    <3> QED BY <1>1, <2>1, <3>1 DEF SubmitTypes, Pages, Submission!Prompts
  <2>2. CASE v \notin authorized
    <3>1. oa' = [oa EXCEPT !.raised = oa.raised \cup {v}, !.at = "stopped"]
      BY <1>1, <2>2 DEF Submission!RaiseConfirm
    <3> QED BY <1>1, <3>1 DEF SubmitTypes, Pages, Submission!Prompts
  <2> QED BY <2>1, <2>2
<1>4. RaisedOK'
  BY <1>2, <1>3 DEF RaisedOK
<1> QED BY <1>1, <1>2, <1>3, <1>4, PageMoves

\* Alerts, the form going out, a page that stops, and the sent collection.
LEMMA SendKeepsForm ==
    ASSUME SubmitInv,
           \/ Submission!RaiseAlert \/ Submission!Send \/ Submission!PageFails
           \/ Submission!List \/ Submission!SendByHand
    PROVE  SubmitInv'
<1> USE DEF SubmitInv
<1>1. UNCHANGED <<host, authorized>> /\ (tracker' = tracker \/ Submission!Running)
  BY DEF Submission!RaiseAlert, Submission!Send, Submission!PageFails, Submission!List,
         Submission!SendByHand
<1>2. /\ oa' \in Pages
      /\ oa'.raised = oa.raised /\ oa'.passed = oa.passed /\ oa'.hooked = oa.hooked
      /\ oa'.prompt \in {oa.prompt, NoPrompt}
  <2>1. \/ oa' = oa
        \/ oa' = [oa EXCEPT !.at = "stopped"]
        \/ oa' = [oa EXCEPT !.at = "stopped", !.prompt = NoPrompt]
        \/ oa' = [oa EXCEPT !.at = "sent", !.sent = oa.sent + 1]
        \/ oa' = [oa EXCEPT !.listed = oa.listed + 1]
        \/ oa' = [oa EXCEPT !.manual = oa.manual + 1]
    BY DEF Submission!RaiseAlert, Submission!Send, Submission!PageFails, Submission!List,
           Submission!SendByHand
  <2>2. oa \in Pages /\ oa.sent + 1 \in Nat /\ oa.listed + 1 \in Nat /\ oa.manual + 1 \in Nat
    BY DEF SubmitTypes, Pages
  <2>3. oa' \in Pages
    <3>1. CASE oa' = oa
      BY <2>2, <3>1
    <3>2. CASE oa' = [oa EXCEPT !.at = "stopped"]
      BY <2>2, <3>2, PagesMade
    <3>6. CASE oa' = [oa EXCEPT !.at = "stopped", !.prompt = NoPrompt]
      BY <2>2, <3>6, PagesMade
    <3>3. CASE oa' = [oa EXCEPT !.at = "sent", !.sent = oa.sent + 1]
      <4> DEFINE k == oa.sent + 1
      <4>1. k \in Nat /\ oa' = [oa EXCEPT !.at = "sent", !.sent = k]
        BY <2>2, <3>3
      <4> HIDE DEF k
      <4> QED BY <2>2, <4>1, PagesMade
    <3>4. CASE oa' = [oa EXCEPT !.listed = oa.listed + 1]
      BY <2>2, <3>4, PagesMade
    <3>5. CASE oa' = [oa EXCEPT !.manual = oa.manual + 1]
      BY <2>2, <3>5, PagesMade
    <3> QED BY <2>1, <3>1, <3>2, <3>3, <3>4, <3>5, <3>6
  <2>4. oa = [at |-> oa.at, prompt |-> oa.prompt, hooked |-> oa.hooked, raised |-> oa.raised,
              passed |-> oa.passed, sent |-> oa.sent, listed |-> oa.listed,
              manual |-> oa.manual]
    BY <2>2, PageFields
  <2> QED BY <2>1, <2>3, <2>4
<1>3. tracker' \in Trackers /\ tracker'.pending \in {tracker.pending, Blocker}
  <2>1. \/ tracker' = tracker
        \/ tracker' = [tracker EXCEPT !.pending = Blocker, !.activated = FALSE]
        \/ tracker' = [tracker EXCEPT !.send = TRUE]
    BY DEF Submission!RaiseAlert, Submission!Send, Submission!PageFails, Submission!List,
           Submission!SendByHand, Submission!Recorded
  <2> QED BY <2>1 DEF SubmitTypes, Trackers, Submission!Prompts
<1>4. RaisedOK'
  BY <1>2, <1>3 DEF RaisedOK
<1> QED BY <1>1, <1>2, <1>3, <1>4, PageMoves

LEMMA AfterSendKeeps ==
    ASSUME SubmitInv, Submission!RaisePageAfterSend
    PROVE  SubmitInv'
<1> USE DEF SubmitInv
<1>0. oa.hooked \in Seq(Submission!Prompts) /\ Blocker \in Submission!Prompts
  BY DEF SubmitTypes, Pages, Submission!Prompts
<1>1. /\ UNCHANGED <<host, authorized, tracker>>
      /\ oa' = [oa EXCEPT !.prompt = Blocker, !.hooked = Submission!Hooked(Blocker)]
  BY DEF Submission!RaisePageAfterSend
<1>2. Submission!Hooked(Blocker) \in Seq(Submission!Prompts)
  BY <1>0, HookedIsRaised
<1>3. /\ oa' \in Pages
      /\ oa'.hooked = Submission!Hooked(Blocker) /\ oa'.prompt = Blocker
      /\ oa'.passed = oa.passed /\ oa'.raised = oa.raised
  BY <1>0, <1>1, <1>2 DEF SubmitTypes, Pages
<1>4. \A i \in 1..Len(oa'.hooked) : oa'.hooked[i] \in oa'.raised \cup {Blocker}
  <2>1. SUFFICES ASSUME NEW i \in 1..Len(Submission!Hooked(Blocker))
                 PROVE  Submission!Hooked(Blocker)[i] \in oa.raised \cup {Blocker}
    BY <1>3
  <2> QED BY <1>0, HookedIsRaised DEF RaisedOK
<1>5. RaisedOK'
  BY <1>1, <1>3, <1>4 DEF RaisedOK
<1> QED BY <1>1, <1>3, <1>5, PageMoves DEF SubmitTypes

\* The adapter reads the oldest hooked prompt, or the one that is shown.
LEMMA ObserveKeeps ==
    ASSUME SubmitInv, Submission!ObservePage
    PROVE  SubmitInv'
<1> USE DEF SubmitInv
<1>1. UNCHANGED authorized /\ host' = [host EXCEPT !.pc = "handle"]
  BY DEF Submission!ObservePage, Submission!Go
<1>2. /\ host' \in [pc : Steps, outcome : Results, again : BOOLEAN] /\ host'.pc = "handle"
      /\ host'.outcome # "validation"
  <2>1. host.outcome # "validation"
    BY DEF Submission!ObservePage, AskedOK
  <2> QED BY <1>1, <2>1 DEF SubmitTypes, Steps
<1>3. /\ oa' \in Pages /\ tracker' \in Trackers /\ RaisedOK'
      /\ oa'.raised = oa.raised /\ oa'.passed = oa.passed
  <2>1. CASE Submission!ReadHooked
    <3>1. /\ oa.hooked # << >> /\ oa' = [oa EXCEPT !.hooked = Tail(oa.hooked)]
          /\ \/ tracker' = tracker
             \/ tracker' = [tracker EXCEPT !.pending = Head(oa.hooked), !.activated = FALSE]
      BY <2>1 DEF Submission!ReadHooked, Submission!Recorded
    <3>2. /\ oa.hooked \in Seq(Submission!Prompts)
          /\ Tail(oa.hooked) \in Seq(Submission!Prompts)
          /\ Len(Tail(oa.hooked)) = Len(oa.hooked) - 1 /\ Len(oa.hooked) \in Nat
          /\ \A i \in 1..Len(Tail(oa.hooked)) : Tail(oa.hooked)[i] = oa.hooked[i + 1]
          /\ Head(oa.hooked) = oa.hooked[1] /\ Head(oa.hooked) \in Submission!Prompts
          /\ 1 \in 1..Len(oa.hooked)
      BY <3>1, HeadTailProperties DEF SubmitTypes, Pages
    <3>3. /\ oa' \in Pages /\ oa'.hooked = Tail(oa.hooked) /\ oa'.prompt = oa.prompt
          /\ oa'.raised = oa.raised /\ oa'.passed = oa.passed
      BY <3>1, <3>2 DEF SubmitTypes, Pages
    <3>4. /\ tracker' \in Trackers
          /\ tracker'.pending = tracker.pending \/ tracker'.pending = Head(oa.hooked)
      BY <3>1, <3>2 DEF SubmitTypes, Trackers
    <3>5. \A i \in 1..Len(oa'.hooked) : oa'.hooked[i] \in oa'.raised \cup {Blocker}
      <4>1. SUFFICES ASSUME NEW i \in 1..Len(Tail(oa.hooked))
                     PROVE  Tail(oa.hooked)[i] \in oa.raised \cup {Blocker}
        BY <3>3
      <4>2. i + 1 \in 1..Len(oa.hooked)
        BY <3>2
      <4> QED BY <3>2, <4>2 DEF RaisedOK
    <3>6. Head(oa.hooked) \in oa.raised \cup {Blocker}
      BY <3>2 DEF RaisedOK
    <3>7. RaisedOK'
      BY <3>3, <3>4, <3>5, <3>6 DEF RaisedOK
    <3> QED BY <3>3, <3>4, <3>7
  <2>2. CASE Submission!ReadShown
    <3>1. /\ UNCHANGED oa /\ oa.prompt \in Warnings
          /\ \/ tracker' = tracker
             \/ tracker' = [tracker EXCEPT !.pending = oa.prompt, !.activated = FALSE]
      BY <2>2 DEF Submission!ReadShown, Submission!Recorded
    <3>2. tracker' \in Trackers /\ tracker'.pending \in {tracker.pending, oa.prompt}
      BY <3>1 DEF SubmitTypes, Trackers, Submission!Prompts
    <3> QED BY <3>1, <3>2 DEF SubmitTypes, RaisedOK
  <2>3. CASE UNCHANGED <<oa, tracker>>
    BY <2>3 DEF SubmitTypes, RaisedOK
  <2> QED BY <2>1, <2>2, <2>3 DEF Submission!ObservePage
<1> QED BY <1>1, <1>2, <1>3 DEF SubmitTypes, AgainOK, AskedOK, Submission!ContinuedOnlyAgain

\* What is marked is no longer pending.
LEMMA MarkedIsDone ==
    ASSUME SubmitInv
    PROVE  Submission!Marked \in Trackers /\ Submission!Marked.pending = NoPrompt
<1>1. (tracker.pending \in Submission!Prompts \cup {NoPrompt})
      /\ tracker.continued \subseteq Submission!Prompts
  BY DEF SubmitInv, SubmitTypes, Trackers
<1>2. tracker.continued \cup ({tracker.pending} \ {NoPrompt}) \subseteq Submission!Prompts
  BY <1>1
<1> QED BY <1>2 DEF SubmitInv, SubmitTypes, Trackers, Submission!Marked

\* The adapter goes on after what it marked.
LEMMA MarkKeeps ==
    ASSUME SubmitInv, UNCHANGED <<oa, authorized>>, Submission!Continue, host.pc # "done",
           tracker' = tracker \/ tracker' = Submission!Marked
    PROVE  SubmitInv'
<1> USE DEF SubmitInv
<1>1. /\ host' \in [pc : Steps, outcome : Results, again : BOOLEAN]
      /\ host'.pc \in {"observe", "grid"} /\ host'.outcome # "validation"
  BY DEF Submission!Continue, SubmitTypes, Steps, AskedOK
<1>2. tracker' \in Trackers /\ tracker'.pending \in {tracker.pending, NoPrompt}
  BY MarkedIsDone DEF SubmitTypes
<1> QED BY <1>1, <1>2
        DEF SubmitTypes, RaisedOK, AgainOK, AskedOK, Submission!ContinuedOnlyAgain

\* What the adapter does with what the tracker holds.
LEMMA HandleKeeps ==
    ASSUME Submission!SubmitAssumption, SubmitInv, NEW f, Submission!HandleValidation(f)
    PROVE  SubmitInv'
<1> USE DEF SubmitInv
<1>0. UNCHANGED <<oa, authorized>> /\ host.pc = "handle"
  BY DEF Submission!HandleValidation
<1>1. CASE Submission!HandleNothing \/ Submission!HandleActivated
  BY <1>0, <1>1, MarkKeeps DEF Submission!HandleNothing, Submission!HandleActivated
<1>2. CASE Submission!HandleBlocked \/ Submission!HandleUnauthorized
  <2>1. /\ UNCHANGED tracker
        /\ \/ host' = [host EXCEPT !.pc = "done", !.outcome = "rejected"]
           \/ /\ host' = [host EXCEPT !.pc = "done", !.outcome = "validation"]
              /\ tracker.pending \in Warnings
    BY <1>2 DEF Submission!HandleBlocked, Submission!HandleUnauthorized, Submission!End
  <2>2. /\ host' \in [pc : Steps, outcome : Results, again : BOOLEAN] /\ host'.pc = "done"
        /\ host'.outcome = "validation" => tracker.pending \in Warnings
    BY <2>1 DEF SubmitTypes, Steps, Results
  <2> QED BY <1>0, <2>1, <2>2, HostMoves
<1>3. CASE Submission!HandleAuthorized
  <2>1. /\ UNCHANGED tracker /\ tracker.pending \in authorized
        /\ host' = [host EXCEPT !.pc = "wait"]
    BY <1>3 DEF Submission!HandleAuthorized, Submission!MayContinue, Submission!Go
  <2>2. /\ host' \in [pc : Steps, outcome : Results, again : BOOLEAN]
        /\ host'.outcome # "validation"
    BY <1>0, <2>1 DEF SubmitTypes, Steps, AskedOK
  <2>3. tracker.pending \in oa.raised
    BY <2>1 DEF SubmitTypes, RaisedOK, Submission!SubmitAssumption
  <2> QED BY <1>0, <2>1, <2>2, <2>3
          DEF SubmitTypes, RaisedOK, AgainOK, AskedOK, Submission!ContinuedOnlyAgain
<1> QED BY <1>1, <1>2, <1>3 DEF Submission!HandleValidation

\* The click on the prompt that is shown by then, and the mark behind it.
LEMMA ClickKeeps ==
    ASSUME SubmitInv,
           Submission!ClickContinue \/ Submission!MarkContinued \/ Submission!ControlFails
    PROVE  SubmitInv'
<1> USE DEF SubmitInv
<1>1. CASE Submission!ClickContinue
  <2>1. /\ host.pc = "wait" /\ UNCHANGED <<tracker, authorized>>
        /\ host' = [host EXCEPT !.pc = "mark"]
        /\ \/ /\ oa.prompt \in Warnings
              /\ oa' = [oa EXCEPT !.at = "checking", !.prompt = NoPrompt,
                                  !.passed = oa.passed \cup {oa.prompt}]
           \/ oa' = [oa EXCEPT !.prompt = NoPrompt]
    BY <1>1 DEF Submission!ClickContinue, Submission!Go
  <2>2. /\ host' \in [pc : Steps, outcome : Results, again : BOOLEAN] /\ host'.pc = "mark"
        /\ host'.outcome # "validation"
    BY <2>1 DEF SubmitTypes, Steps, AskedOK
  <2>3. /\ oa' \in Pages /\ oa'.prompt = NoPrompt
        /\ oa'.raised = oa.raised /\ oa'.hooked = oa.hooked
    <3>1. oa \in Pages /\ oa.passed \subseteq Submission!Prompts
      BY DEF SubmitTypes, Pages
    <3>2. oa.prompt \in Warnings => oa.passed \cup {oa.prompt} \subseteq Submission!Prompts
      BY <3>1 DEF Submission!Prompts
    <3>3. oa' \in Pages
      <4>1. CASE oa' = [oa EXCEPT !.prompt = NoPrompt]
        BY <3>1, <4>1, PagesMade
      <4>2. CASE /\ oa.prompt \in Warnings
                 /\ oa' = [oa EXCEPT !.at = "checking", !.prompt = NoPrompt,
                                     !.passed = oa.passed \cup {oa.prompt}]
        BY <3>1, <3>2, <4>2, PagesMade
      <4> QED BY <2>1, <4>1, <4>2
    <3>4. oa = [at |-> oa.at, prompt |-> oa.prompt, hooked |-> oa.hooked,
                raised |-> oa.raised, passed |-> oa.passed, sent |-> oa.sent,
                listed |-> oa.listed, manual |-> oa.manual]
      BY <3>1, PageFields
    <3> QED BY <2>1, <3>3, <3>4
  <2>4. oa.raised \cap authorized # {}
    BY <2>1 DEF AgainOK
  <2> QED BY <2>1, <2>2, <2>3, <2>4
          DEF SubmitTypes, RaisedOK, AgainOK, AskedOK, Submission!ContinuedOnlyAgain
<1>2. CASE Submission!MarkContinued
  BY <1>2, MarkKeeps DEF Submission!MarkContinued
<1>3. CASE Submission!ControlFails
  <2>1. /\ UNCHANGED <<oa, tracker, authorized>>
        /\ host' = [host EXCEPT !.pc = "done", !.outcome = "unknown"]
    BY <1>3 DEF Submission!ControlFails, Submission!End
  <2>2. /\ host' \in [pc : Steps, outcome : Results, again : BOOLEAN] /\ host'.pc # "wait"
        /\ host'.outcome # "validation"
    BY <2>1 DEF SubmitTypes, Steps, Results
  <2> QED BY <2>1, <2>2, HostMoves
<1> QED BY <1>1, <1>2, <1>3

\* The read-back of the sent collection, and the executor's question.
LEMMA WaitKeeps ==
    ASSUME SubmitInv, NEW f, Submission!WaitForSentReadback(f)
    PROVE  SubmitInv'
<1>1. /\ UNCHANGED <<oa, tracker, authorized>> /\ host.pc # "done"
      /\ \/ host' = [host EXCEPT !.pc = "done", !.outcome = "succeeded"]
         \/ host' = [host EXCEPT !.pc = "done", !.outcome = "unknown"]
         \/ host' = [host EXCEPT !.pc = "observe", !.again = TRUE]
  BY DEF Submission!WaitForSentReadback, Submission!End
<1>2. /\ host' \in [pc : Steps, outcome : Results, again : BOOLEAN] /\ host'.pc # "wait"
      /\ host'.outcome # "validation"
  BY <1>1 DEF SubmitInv, SubmitTypes, Steps, Results, AskedOK
<1> QED BY <1>1, <1>2, HostMoves

LEMMA AuthorizeKeeps ==
    ASSUME SubmitInv, Submission!Authorize
    PROVE  SubmitInv'
<1> USE DEF SubmitInv
<1>1. /\ UNCHANGED <<oa, tracker>>
      /\ authorized' = authorized \cup {tracker.pending}
      /\ host' = [host EXCEPT !.pc = "submit", !.outcome = "none"]
  BY DEF Submission!Authorize
<1>2. /\ host' \in [pc : Steps, outcome : Results, again : BOOLEAN] /\ host'.pc = "submit"
      /\ host'.outcome = "none"
  BY <1>1 DEF SubmitTypes, Steps, Results
<1>3. tracker.pending \in Warnings
  BY DEF Submission!Authorize, AskedOK
<1> QED BY <1>1, <1>2, <1>3
        DEF SubmitTypes, RaisedOK, AgainOK, AskedOK, Submission!ContinuedOnlyAgain

LEMMA SubmitInvariant ==
    ASSUME Submission!SubmitAssumption
    PROVE  Submission!Spec => []SubmitInv
<1>1. Submission!Init => SubmitInv
  BY SubmitInit
<1>2. ASSUME SubmitInv, [Submission!Next]_(Submission!vars) PROVE SubmitInv'
  <2>1. CASE UNCHANGED Submission!vars
    BY <1>2, <2>1 DEF Submission!vars, SubmitInv, SubmitTypes, RaisedOK, AgainOK, AskedOK,
                      Submission!ContinuedOnlyAgain
  <2>2. CASE \/ Submission!PrepareLeave \/ Submission!PrepareTrip
             \/ Submission!SubmitLeave \/ Submission!SubmitTrip
    BY <1>2, <2>2, SubmitKeeps DEF Submission!PrepareLeave, Submission!PrepareTrip,
                                   Submission!SubmitLeave, Submission!SubmitTrip
  <2>3. CASE \E v \in Submission!Prompts :
               Submission!RaiseCap4(v) \/ Submission!RaisePage(v) \/ Submission!RaiseConfirm(v)
    BY <1>2, <2>3, PromptKeeps, ConfirmKeeps
  <2>4. CASE Submission!HandleLeave \/ Submission!HandleTrip
    BY <1>2, <2>4, HandleKeeps DEF Submission!HandleLeave, Submission!HandleTrip
  <2>5. CASE Submission!WaitLeave \/ Submission!WaitTrip
    BY <1>2, <2>5, WaitKeeps DEF Submission!WaitLeave, Submission!WaitTrip
  <2> QED BY <1>2, <2>1, <2>2, <2>3, <2>4, <2>5, SendKeepsForm, AfterSendKeeps, ObserveKeeps,
             ClickKeeps, AuthorizeKeeps DEF Submission!Next
<1> QED BY <1>1, <1>2, PTL DEF Submission!Spec

\* Whatever part runs, the variables of SeeyonSubmit behave as it says.
LEMMA SubmissionRuns == Spec => Submission!Spec
<1>1. Init => Submission!Init
  BY DEF Init
<1>2. [Next]_vars => [Submission!Next]_(Submission!vars)
  BY DEF Next, vars, submissionVars, actionVars, readingVars, renewalVars, pageVars, Submission!vars
<1> QED BY <1>1, <1>2, PTL DEF Spec, Submission!Spec

\* No prompt of the OA is passed in an attempt unless a warning that the user
\* authorized appeared again in this very attempt, however hooked prompts,
\* dialogs, answers of the form and the adapter's waits interleave.
THEOREM ContinuesOnlyAgain == Spec => []ContinuedOnlyAgain
<1>1. SubmitInv => ContinuedOnlyAgain
  BY DEF SubmitInv, ContinuedOnlyAgain
<1>2. Submission!SubmitAssumption
  BY ConstantsFit DEF ConstantsFit
<1>3. Submission!Spec => []SubmitInv
  BY <1>2, SubmitInvariant
<1> QED BY <1>1, <1>3, SubmissionRuns, PTL

(***************************************************************************)
(* The renewal of the lighting system's session.                           *)
(***************************************************************************)

\* Where the failure of the refresh token is behind the renewal.
Derived == {"principal", "renewApp", "principalAgain", "exchange"}

RenewalTypes ==
    /\ live \subseteq Renewal!Parts
    /\ held \subseteq {"refresh", "access"}
    /\ run \in [pc : {"idle", "post", "postAgain", "refresh", "renewed"} \cup Derived,
                refresh : {"none", "dead", "unsure"},
                why : {"none", "call", "probe", "keepalive"}]

\* What the renewal has learned stays so: a session of the application that has
\* lapsed comes back by no step but its own, a refresh token that was missing or
\* refused stays unusable, and a new access token stays in the stored state.
LearnedOK ==
    /\ run.pc = "renewApp" => "app" \notin live
    /\ run.pc \in Derived /\ run.refresh = "none" /\ run.why # "keepalive"
         => "refresh" \notin held
    /\ run.pc \in Derived /\ run.refresh = "dead" => "refresh" \notin live
    /\ run.pc \in {"renewed", "postAgain"} => "access" \in held

RenewalInv == RenewalTypes /\ LearnedOK

LEMMA RenewalInit == Renewal!Init => RenewalInv
BY DEF Renewal!Init, RenewalInv, RenewalTypes, LearnedOK, Renewal!NoRun, Renewal!Parts, Derived

\* What only moves the renewal on, or takes from what the servers accept.
LEMMA RenewalMoves ==
    ASSUME RenewalInv,
           NEW k \in [pc : {"idle", "post", "postAgain", "refresh", "renewed"} \cup Derived,
                      refresh : {"none", "dead", "unsure"},
                      why : {"none", "call", "probe", "keepalive"}],
           run' = k, live' \subseteq live, UNCHANGED held,
           k.pc = "renewApp" => "app" \notin live,
           k.pc \in Derived /\ k.refresh = "none" /\ k.why # "keepalive" => "refresh" \notin held,
           k.pc \in Derived /\ k.refresh = "dead" => "refresh" \notin live,
           k.pc \in {"renewed", "postAgain"} => "access" \in held
    PROVE  RenewalInv'
BY DEF RenewalInv, RenewalTypes, LearnedOK

\* The ends of a renewal.
LEMMA GivingUpKeeps ==
    ASSUME RenewalInv, NEW b \in BOOLEAN, Renewal!GiveUp(b)
    PROVE  RenewalInv'
<1> USE DEF RenewalInv, RenewalTypes
<1>1. CASE Renewal!FallsBack
  <2> DEFINE k == [run EXCEPT !.pc = "refresh", !.why = "probe"]
  <2>1. /\ k \in [pc : {"idle", "post", "postAgain", "refresh", "renewed"} \cup Derived,
                  refresh : {"none", "dead", "unsure"},
                  why : {"none", "call", "probe", "keepalive"}]
        /\ k.pc = "refresh"
    OBVIOUS
  <2>2. run' = k /\ UNCHANGED <<live, held>>
    BY <1>1 DEF Renewal!GiveUp
  <2> HIDE DEF k
  <2>3. "refresh" \notin Derived \cup {"renewApp", "renewed", "postAgain"}
    BY DEF Derived
  <2> QED BY <2>1, <2>2, <2>3, RenewalMoves
<1>2. CASE ~Renewal!FallsBack
  <2>1. run' = Renewal!NoRun /\ UNCHANGED <<live, held>>
    BY <1>2 DEF Renewal!GiveUp
  <2> QED BY <2>1 DEF LearnedOK, Renewal!NoRun, Derived
<1> QED BY <1>1, <1>2

\* A renewal begins, calls go through, and the servers forget.
LEMMA CallsKeep ==
    ASSUME RenewalInv,
           \/ \E p \in Renewal!Parts : Renewal!Lapse(p)
           \/ Renewal!BeginCall \/ Renewal!BeginProbe \/ Renewal!BeginKeepalive
           \/ Renewal!Post \/ Renewal!PostAgain \/ Renewal!Renewed
    PROVE  RenewalInv'
<1> USE DEF RenewalInv, RenewalTypes
<1>1. ASSUME NEW p \in Renewal!Parts, Renewal!Lapse(p) PROVE RenewalInv'
  BY <1>1, RenewalMoves DEF LearnedOK, Renewal!Lapse
<1>2. CASE Renewal!BeginCall \/ Renewal!BeginProbe \/ Renewal!BeginKeepalive
  <2>1. PICK k \in {[pc |-> "post", refresh |-> "none", why |-> "call"],
                     [pc |-> "refresh", refresh |-> "none", why |-> "probe"],
                     [pc |-> "principal", refresh |-> "none", why |-> "keepalive"]} :
             run' = k /\ UNCHANGED <<live, held>>
    BY <1>2, Zenon DEF Renewal!BeginCall, Renewal!BeginProbe, Renewal!BeginKeepalive,
                       Renewal!Begin
  <2>2. /\ k \in [pc : {"idle", "post", "postAgain", "refresh", "renewed"} \cup Derived,
                  refresh : {"none", "dead", "unsure"},
                  why : {"none", "call", "probe", "keepalive"}]
        /\ k.pc \in {"post", "refresh", "principal"} /\ k.refresh = "none"
        /\ k.pc = "principal" => k.why = "keepalive"
    BY <2>1 DEF Derived
  <2>3. k.pc \in Derived => k.pc = "principal"
    BY <2>2 DEF Derived
  <2> QED BY <2>1, <2>2, <2>3, RenewalMoves
<1>3. CASE Renewal!Post
  BY <1>3 DEF LearnedOK, Derived, Renewal!Post, Renewal!Goto, Renewal!NoRun
<1>4. CASE Renewal!PostAgain
  BY <1>4 DEF LearnedOK, Derived, Renewal!PostAgain, Renewal!NoRun
<1>5. CASE Renewal!Renewed
  BY <1>5 DEF LearnedOK, Derived, Renewal!Renewed, Renewal!NoRun
<1> QED BY <1>1, <1>2, <1>3, <1>4, <1>5

\* The refresh token, and the way over the application session.
LEMMA RenewingKeeps ==
    ASSUME RenewalInv,
           \/ Renewal!RefreshToken \/ Renewal!CasPrincipal \/ Renewal!RenewApplication
           \/ Renewal!CasPrincipalAgain \/ Renewal!ExchangeToken
    PROVE  RenewalInv'
<1>0. ASSUME \E b \in BOOLEAN : Renewal!GiveUp(b) PROVE RenewalInv'
  BY <1>0, GivingUpKeeps
<1> USE DEF RenewalInv, RenewalTypes
<1>1. CASE Renewal!RefreshToken
  BY <1>1 DEF LearnedOK, Derived, Renewal!RefreshToken, Renewal!Goto, Renewal!Parts
<1>2. CASE Renewal!CasPrincipal
  <2>1. CASE Renewal!GiveUp(FALSE)
    BY <1>0, <2>1
  <2>2. CASE ~Renewal!GiveUp(FALSE)
    BY <1>2, <2>2 DEF LearnedOK, Derived, Renewal!CasPrincipal, Renewal!Goto
  <2> QED BY <2>1, <2>2
<1>3. CASE Renewal!RenewApplication
  <2>1. CASE Renewal!GiveUp(FALSE) \/ Renewal!GiveUp(TRUE)
    BY <1>0, <2>1
  <2>2. CASE ~Renewal!GiveUp(FALSE) /\ ~Renewal!GiveUp(TRUE)
    BY <1>3, <2>2 DEF LearnedOK, Derived, Renewal!RenewApplication, Renewal!Goto, Renewal!Parts
  <2> QED BY <2>1, <2>2
<1>4. CASE Renewal!CasPrincipalAgain
  <2>1. CASE Renewal!GiveUp(FALSE) \/ Renewal!GiveUp(TRUE)
    BY <1>0, <2>1
  <2>2. CASE ~Renewal!GiveUp(FALSE) /\ ~Renewal!GiveUp(TRUE)
    BY <1>4, <2>2 DEF LearnedOK, Derived, Renewal!CasPrincipalAgain, Renewal!Goto
  <2> QED BY <2>1, <2>2
<1>5. CASE Renewal!ExchangeToken
  <2>1. CASE Renewal!GiveUp(FALSE)
    BY <1>0, <2>1
  <2>2. CASE ~Renewal!GiveUp(FALSE)
    BY <1>5, <2>2 DEF LearnedOK, Derived, Renewal!ExchangeToken, Renewal!Goto, Renewal!Parts
  <2> QED BY <2>1, <2>2
<1> QED BY <1>1, <1>2, <1>3, <1>4, <1>5

LEMMA RenewalInvariant == Renewal!Spec => []RenewalInv
<1>1. ASSUME RenewalInv, [Renewal!Next]_(Renewal!vars) PROVE RenewalInv'
  <2>1. CASE UNCHANGED Renewal!vars
    BY <1>1, <2>1 DEF Renewal!vars, RenewalInv, RenewalTypes, LearnedOK
  <2> QED BY <1>1, <2>1, CallsKeep, RenewingKeeps DEF Renewal!Next
<1> QED BY <1>1, RenewalInit, PTL DEF Renewal!Spec

\* The step that ends a session.
LEMMA EndingIsHopeless ==
    ASSUME RenewalInv, [Renewal!Next]_(Renewal!vars), central = "active", central' = "ended"
    PROVE  \/ run.pc = "postAgain" /\ "access" \notin live
           \/ "app" \notin live /\ "refresh" \notin live \cap held
<1>1. central' # central
  OBVIOUS
<1>2. CASE Renewal!PostAgain
  BY <1>1, <1>2 DEF Renewal!PostAgain, RenewalInv, LearnedOK
<1>3. ASSUME Renewal!GiveUp(TRUE), run.pc \in Derived, "app" \notin live
      PROVE  "refresh" \notin live \cap held
  BY <1>1, <1>3 DEF Renewal!GiveUp, Renewal!FallsBack, Renewal!RefreshIsOut, RenewalInv,
                    LearnedOK
<1>4. CASE Renewal!RenewApplication \/ Renewal!CasPrincipalAgain
  <2>1. Renewal!GiveUp(TRUE)
    BY <1>1, <1>4 DEF Renewal!RenewApplication, Renewal!CasPrincipalAgain, Renewal!GiveUp
  <2>2. run.pc \in Derived /\ "app" \notin live
    BY <1>1, <1>4 DEF Renewal!RenewApplication, Renewal!CasPrincipalAgain, Renewal!GiveUp,
                      RenewalInv, LearnedOK, Derived
  <2> QED BY <1>3, <2>1, <2>2
<1>5. CASE Renewal!CasPrincipal \/ Renewal!ExchangeToken
  BY <1>1, <1>5 DEF Renewal!CasPrincipal, Renewal!ExchangeToken, Renewal!GiveUp
<1>6. CASE Renewal!RefreshToken \/ Renewal!Post \/ Renewal!Renewed
  BY <1>1, <1>6 DEF Renewal!RefreshToken, Renewal!Post, Renewal!Renewed
<1>7. CASE \/ \E p \in Renewal!Parts : Renewal!Lapse(p)
           \/ Renewal!BeginCall \/ Renewal!BeginProbe \/ Renewal!BeginKeepalive
  BY <1>1, <1>7 DEF Renewal!Lapse, Renewal!BeginCall, Renewal!BeginProbe,
                    Renewal!BeginKeepalive, Renewal!Begin
<1>8. CASE UNCHANGED Renewal!vars
  BY <1>1, <1>8 DEF Renewal!vars
<1> QED BY <1>2, <1>4, <1>5, <1>6, <1>7, <1>8 DEF Renewal!Next

\* Whatever part runs, the variables of SmartlightSession behave as it says.
LEMMA RenewalRuns == Spec => Renewal!Spec
<1>1. Init => Renewal!Init
  BY DEF Init
<1>2. [Next]_vars => [Renewal!Next]_(Renewal!vars)
  BY DEF Next, vars, submissionVars, actionVars, readingVars, renewalVars, pageVars, Renewal!vars
<1> QED BY <1>1, <1>2, PTL DEF Spec, Renewal!Spec

\* The central service ends the session of the lighting system only when nothing
\* is left to renew it from, whatever lapses or fails between the steps of a
\* renewal; the exception is a call whose new access token lapsed before its use.
THEOREM SessionsEndForReason == Spec => EndedIsHopeless
<1>1. RenewalInv /\ [Renewal!Next]_(Renewal!vars)
        => [(central = "active" /\ central' = "ended") =>
              \/ run.pc = "postAgain" /\ "access" \notin live
              \/ "app" \notin live /\ "refresh" \notin live \cap held]_(Renewal!vars)
  BY EndingIsHopeless
<1> QED BY <1>1, RenewalInvariant, RenewalRuns, PTL
        DEF Renewal!Spec, EndedIsHopeless, Renewal!EndedIsHopeless

(***************************************************************************)
(* The page and the timeline of its user.                                  *)
(***************************************************************************)

Requests == [pc : {"idle", "list", "cursor", "done"}, items : SUBSET Nat, cursor : Nat, after : Nat]
Events == [name : {"cursor", "timeline"}, seq : Nat]

PageTypes ==
    /\ log \in Seq(Types) /\ Len(log) <= MaxEntries
    /\ scope \in Nat /\ cursor \in Nat /\ cursor <= Len(log)
    /\ load \in [Types -> Requests]
    /\ recon \in [scope : Nat, page : Nat, req : Requests] /\ recon.scope <= scope
    /\ src \in [pc : {"none", "opening", "open"}, after : Nat, at : Nat, wire : Seq(Events)]

\* The page has the entry, or it is one of those that may be passed.
Has(e) == e \in ingested \cup raced

\* The requests of a load are started and dropped together.  While one of them
\* has a read to make, what a list does not hold of its type is known to be
\* passed; once all are answered, that is so up to the numbers they returned.
LoadOK ==
    /\ \A t, u \in Types : load[t].pc = "idle" => load[u].pc = "idle"
    /\ \A t \in Types : load[t].pc = "done" =>
         load[t].cursor <= Len(log) /\ \A e \in load[t].items : e <= load[t].cursor
    /\ \A t \in Types : load[t].pc = "cursor" => \A e \in load[t].items : e <= Len(log)
    /\ (\E u \in Types : load[u].pc \in {"list", "cursor"}) =>
         \A t \in Types : load[t].pc \in {"cursor", "done"} =>
            \A e \in 1..Len(log) : log[e] = t => e \in load[t].items \cup raced
    /\ (\A u \in Types : load[u].pc = "done") =>
         \A t, u \in Types : \A e \in 1..Len(log) :
            log[e] = t /\ e <= load[u].cursor => e \in load[t].items \cup raced

\* Up to its items, and with a page that is not full up to the number beside
\* it, an answer to the reconciliation leaves no entry out.
ReconOK ==
    recon.scope = scope =>
        /\ recon.req.pc = "list" =>
             recon.req.after <= Len(log) /\ \A e \in 1..Len(log) : e <= recon.req.after => Has(e)
        /\ recon.req.pc \in {"cursor", "done"} =>
             \A i \in recon.req.items :
                i <= Len(log) /\ \A e \in 1..i : Has(e) \/ e \in recon.req.items
        /\ recon.req.pc = "cursor" /\ ~Page!Full(recon.req.items) =>
             \A e \in 1..Len(log) : Has(e) \/ e \in recon.req.items
        /\ recon.req.pc = "done" /\ ~Page!Full(recon.req.items) =>
             /\ recon.req.cursor <= Len(log)
             /\ \A e \in 1..recon.req.cursor : Has(e) \/ e \in recon.req.items

\* An event on the wire comes after the entries before it, and the server has
\* sent whatever lies behind its place.
Sent(w, e, k) == \E j \in 1..k : w[j] = Page!Event("timeline", e)
StreamOK ==
    /\ \A k \in 1..Len(src.wire) :
         src.wire[k].seq <= Len(log) /\ \A e \in 1..src.wire[k].seq : Has(e) \/ Sent(src.wire, e, k)
    /\ src.pc = "opening" =>
         src.after <= Len(log) /\ \A e \in 1..src.after : Has(e)
    /\ src.pc = "open" =>
         src.at <= Len(log) /\ \A e \in 1..src.at : Has(e) \/ Sent(src.wire, e, Len(src.wire))

\* The inductive invariant of the page.
PageInv == PageTypes /\ LoadOK /\ ReconOK /\ StreamOK /\ Page!NothingSkipped

LEMMA FreshRequests ==
    /\ Page!Idle \in Requests /\ Page!Idle.pc = "idle"
    /\ \A n \in Nat : /\ Page!Asked(n) \in Requests /\ Page!Asked(n).pc = "list"
                      /\ Page!Asked(n).after = n
<1>1. Page!Idle \in Requests /\ Page!Idle.pc = "idle"
  BY DEF Page!Idle, Requests
<1>2. ASSUME NEW n \in Nat
      PROVE  Page!Asked(n) \in Requests /\ Page!Asked(n).pc = "list" /\ Page!Asked(n).after = n
  BY <1>1 DEF Page!Asked, Requests
<1> QED BY <1>1, <1>2

LEMMA NothingOpen ==
    /\ Page!NoSource \in [pc : {"none", "opening", "open"}, after : Nat, at : Nat, wire : Seq(Events)]
    /\ Page!NoSource.pc = "none" /\ Len(Page!NoSource.wire) = 0
BY DEF Page!NoSource, Events

LEMMA NothingAsked ==
    /\ Page!NoRecon \in [scope : Nat, page : Nat, req : Requests]
    /\ Page!NoRecon.scope = 0 /\ Page!NoRecon.req = Page!Idle
BY FreshRequests DEF Page!NoRecon

LEMMA PageInit == ASSUME Page!TimelineAssumption, Page!Init PROVE PageInv
<1>1. /\ log = << >> /\ scope = 0 /\ cursor = 0 /\ load = [t \in Types |-> Page!Idle]
      /\ recon = Page!NoRecon /\ src = Page!NoSource
  BY DEF Page!Init
<1>2. Len(log) = 0 /\ log \in Seq(Types)
  BY <1>1
<1>3. PageTypes
  BY <1>1, <1>2, FreshRequests, NothingOpen, NothingAsked DEF PageTypes, Page!TimelineAssumption
<1>4. LoadOK
  BY <1>1, FreshRequests DEF LoadOK
<1>5. ReconOK
  BY <1>1, FreshRequests, NothingAsked DEF ReconOK
<1>6. StreamOK
  BY <1>1, NothingOpen DEF StreamOK
<1>7. Page!NothingSkipped
  BY <1>1, <1>2 DEF Page!NothingSkipped, Page!Newest
<1> QED BY <1>3, <1>4, <1>5, <1>6, <1>7 DEF PageInv

\* What the page has it keeps: the wire and the requests stay in order.
LEMMA HasMoreStays ==
    ASSUME UNCHANGED <<log, src>>, ingested \subseteq ingested', raced \subseteq raced', StreamOK
    PROVE  StreamOK'
<1>1. \A e : Has(e) => Has(e)'
  BY DEF Has
<1> QED BY <1>1 DEF StreamOK

LEMMA ReconStays ==
    ASSUME UNCHANGED <<log, recon, scope>>, ingested \subseteq ingested', raced \subseteq raced', ReconOK
    PROVE  ReconOK'
<1>1. \A e : Has(e) => Has(e)'
  BY DEF Has
<1> QED BY <1>1 DEF ReconOK

LEMMA WireIsTyped ==
    ASSUME PageInv
    PROVE  /\ src.after \in Nat /\ src.at \in Nat /\ src.wire \in Seq(Events)
           /\ \A k \in 1..Len(src.wire) : src.wire[k] \in Events /\ src.wire[k].seq \in Nat
<1>1. src.after \in Nat /\ src.at \in Nat /\ src.wire \in Seq(Events)
  BY DEF PageInv, PageTypes
<1>2. \A k \in 1..Len(src.wire) : src.wire[k] \in Events
  BY <1>1
<1>3. \A v \in Events : v.seq \in Nat
  BY DEF Events
<1> QED BY <1>1, <1>2, <1>3

\* A new entry of the timeline.
LEMMA AppendKeeps ==
    ASSUME Page!TimelineAssumption, PageInv, NEW t \in Types, Page!Appended(t)
    PROVE  PageInv'
<1> USE DEF PageInv
<1>0. /\ log \in Seq(Types) /\ Len(log) \in Nat /\ Len(log) < MaxEntries
      /\ log' = log \o <<t>>
      /\ UNCHANGED <<scope, cursor, ingested, entering, active, load, recon, src>>
      /\ raced \subseteq raced'
  BY DEF Page!Appended, Page!pageVars, PageTypes, Page!Newest
<1>1. /\ log' \in Seq(Types) /\ Len(log') = Len(log) + 1 /\ log'[Len(log) + 1] = t
      /\ \A e \in 1..Len(log) : log'[e] = log[e]
  BY <1>0
<1>2. /\ \A n \in Nat : n <= Len(log) => n <= Len(log') /\ \A e \in 1..n : e \in 1..Len(log)
      /\ 1..Len(log') = 1..Len(log) \cup {Len(log) + 1}
      /\ \A n \in Nat : n <= Len(log) => ~(Len(log) + 1 <= n)
      /\ Len(log') <= MaxEntries
  BY <1>0, <1>1 DEF Page!TimelineAssumption
<1>3. \A e : Has(e) => Has(e)'
  BY <1>0 DEF Has
<1>4. PageTypes'
  BY <1>0, <1>1, <1>2 DEF PageTypes
<1>5. Page!LoadPasses(t) \/ Page!ReconcilePasses => Len(log) + 1 \in raced'
  BY DEF Page!Appended, Page!Newest
<1>6. LoadOK'
  <2>0. \A u \in Types : /\ load[u].cursor \in Nat
                              /\ \A e \in load[u].items : e \in Nat
    BY DEF PageTypes, Requests
  <2>1. \A u \in Types : load'[u].pc = "done" =>
           load'[u].cursor <= Len(log') /\ \A e \in load'[u].items : e <= load'[u].cursor
    BY <1>0, <1>2, <2>0 DEF LoadOK
  <2>2. \A u \in Types : load'[u].pc = "cursor" => \A e \in load'[u].items : e <= Len(log')
    BY <1>0, <1>2, <2>0 DEF LoadOK
  <2>3. ASSUME NEW u \in Types, load'[u].pc \in {"list", "cursor"},
               NEW v \in Types, load'[v].pc \in {"cursor", "done"},
               NEW e \in 1..Len(log'), log'[e] = v
        PROVE  e \in load'[v].items \cup raced'
    <3>1. CASE e \in 1..Len(log)
      BY <1>0, <1>1, <2>3, <3>1 DEF LoadOK
    <3>2. CASE e = Len(log) + 1
      BY <1>0, <1>1, <1>5, <2>3, <3>2 DEF Page!LoadPasses
    <3> QED BY <1>2, <3>1, <3>2
  <2>4. ASSUME \A u \in Types : load'[u].pc = "done",
               NEW v \in Types, NEW u \in Types, NEW e \in 1..Len(log'),
               log'[e] = v, e <= load'[u].cursor
        PROVE  e \in load'[v].items \cup raced'
    <3>1. load[u].cursor \in Nat /\ load[u].cursor <= Len(log)
      BY <1>0, <2>0, <2>4 DEF LoadOK
    <3>2. e \in 1..Len(log)
      BY <1>0, <1>2, <2>4, <3>1
    <3> QED BY <1>0, <1>1, <2>4, <3>2 DEF LoadOK
  <2>5. \A v, u \in Types : load'[v].pc = "idle" => load'[u].pc = "idle"
    BY <1>0 DEF LoadOK
  <2> QED BY <2>1, <2>2, <2>3, <2>4, <2>5 DEF LoadOK
<1>7. ReconOK'
  <2> SUFFICES ASSUME recon.scope = scope PROVE ReconOK'
    BY <1>0 DEF ReconOK
  <2>0. /\ recon.req.after \in Nat /\ recon.req.cursor \in Nat
        /\ \A i \in recon.req.items : i \in Nat
    BY DEF PageTypes, Requests
  <2>1. recon.req.pc = "list" =>
          recon.req.after <= Len(log') /\ \A e \in 1..Len(log') : e <= recon.req.after => Has(e)'
    BY <1>0, <1>2, <1>3, <2>0 DEF ReconOK
  <2>2. recon.req.pc \in {"cursor", "done"} =>
          \A i \in recon.req.items :
             i <= Len(log') /\ \A e \in 1..i : Has(e)' \/ e \in recon.req.items
    BY <1>0, <1>2, <1>3, <2>0 DEF ReconOK
  <2>3. ASSUME recon.req.pc = "cursor", ~Page!Full(recon.req.items),
               NEW e \in 1..Len(log')
        PROVE  Has(e)' \/ e \in recon.req.items
    <3>1. CASE e \in 1..Len(log)
      BY <1>3, <2>3, <3>1 DEF ReconOK
    <3>2. CASE e = Len(log) + 1
      <4>1. Page!ReconcilePasses
        BY <2>3 DEF Page!ReconcilePasses
      <4> QED BY <1>5, <2>3, <3>2, <4>1 DEF Has
    <3> QED BY <1>2, <3>1, <3>2
  <2>4. recon.req.pc = "done" /\ ~Page!Full(recon.req.items) =>
          recon.req.cursor <= Len(log')
          /\ \A e \in 1..recon.req.cursor : Has(e)' \/ e \in recon.req.items
    BY <1>0, <1>2, <1>3, <2>0 DEF ReconOK
  <2> QED BY <1>0, <2>1, <2>2, <2>3, <2>4 DEF ReconOK
<1>8. StreamOK'
  <2>0. /\ src.after \in Nat /\ src.at \in Nat
        /\ \A k \in 1..Len(src.wire) : src.wire[k].seq \in Nat
    BY WireIsTyped
  <2> QED BY <1>0, <1>2, <1>3, <2>0 DEF StreamOK
<1>9. Page!NothingSkipped'
  <2>1. cursor \in Nat /\ cursor <= Len(log)
    BY DEF PageTypes
  <2> QED BY <1>0, <1>2, <1>3, <2>1 DEF Page!NothingSkipped, Page!Newest, Has
<1> QED BY <1>4, <1>6, <1>7, <1>8, <1>9

\* The server answers a load: the list of a type, then the newest number.
LEMMA LoadReadsKeep ==
    ASSUME PageInv, NEW t \in Types, Page!LoadList(t) \/ Page!LoadCursor(t)
    PROVE  PageInv'
<1> USE DEF PageInv
<1>0. /\ load \in [Types -> Requests] /\ Len(log) \in Nat
      /\ UNCHANGED <<log, scope, cursor, ingested, recon, src, raced>>
  BY DEF Page!LoadList, Page!LoadCursor, Page!pageVars, PageTypes
<1>1. ASSUME NEW k \in Requests, load' = [load EXCEPT ![t] = k], LoadOK' PROVE PageInv'
  <2>1. PageTypes'
    BY <1>0, <1>1 DEF PageTypes
  <2>2. ReconOK' /\ StreamOK'
    BY <1>0, ReconStays, HasMoreStays
  <2>3. Page!NothingSkipped'
    BY <1>0 DEF Page!NothingSkipped, Page!Newest
  <2> QED BY <1>1, <2>1, <2>2, <2>3
<1>2. CASE Page!LoadList(t)
  <2> DEFINE k == [load[t] EXCEPT !.pc = "cursor", !.items = Page!OfType(t)]
  <2>0. Page!OfType(t) \in SUBSET Nat
    BY <1>0 DEF Page!OfType, Page!Newest
  <2>1. k \in Requests /\ k.pc = "cursor" /\ k.items = Page!OfType(t)
    BY <1>0, <2>0 DEF Requests
  <2>2. load' = [load EXCEPT ![t] = k] /\ load[t].pc = "list"
    BY <1>2 DEF Page!LoadList
  <2> HIDE DEF k
  <2>3. load'[t] = k /\ \A u \in Types : u # t => load'[u] = load[u]
    BY <1>0, <2>2
  <2>4. LoadOK'
    <3>1. \A v, u \in Types : load'[v].pc = "idle" => load'[u].pc = "idle"
      BY <2>1, <2>2, <2>3 DEF LoadOK
    <3>2. /\ \A u \in Types : load'[u].pc = "done" =>
               load'[u].cursor <= Len(log) /\ \A e \in load'[u].items : e <= load'[u].cursor
          /\ \A u \in Types : load'[u].pc = "cursor" => \A e \in load'[u].items : e <= Len(log)
      BY <1>0, <2>1, <2>3 DEF LoadOK, Page!OfType, Page!Newest
    <3>3. ASSUME NEW v \in Types, load'[v].pc \in {"cursor", "done"},
                 NEW e \in 1..Len(log), log[e] = v
          PROVE  e \in load'[v].items \cup raced
      BY <2>1, <2>2, <2>3, <3>3 DEF LoadOK, Page!OfType, Page!Newest
    <3>4. ~(\A u \in Types : load'[u].pc = "done")
      BY <2>1, <2>3
    <3> QED BY <1>0, <3>1, <3>2, <3>3, <3>4 DEF LoadOK
  <2> QED BY <1>1, <2>1, <2>2, <2>4
<1>3. CASE Page!LoadCursor(t)
  <2> DEFINE k == [load[t] EXCEPT !.pc = "done", !.cursor = Page!Newest]
  <2>1. k \in Requests /\ k.pc = "done" /\ k.items = load[t].items /\ k.cursor = Len(log)
    BY <1>0 DEF Requests, Page!Newest
  <2>2. load' = [load EXCEPT ![t] = k] /\ load[t].pc = "cursor"
    BY <1>3 DEF Page!LoadCursor
  <2> HIDE DEF k
  <2>3. load'[t] = k /\ \A u \in Types : u # t => load'[u] = load[u]
    BY <1>0, <2>2
  <2>4. LoadOK'
    <3>1. \A v, u \in Types : load'[v].pc = "idle" => load'[u].pc = "idle"
      BY <2>1, <2>2, <2>3 DEF LoadOK
    <3>2. /\ \A u \in Types : load'[u].pc = "done" =>
               load'[u].cursor <= Len(log) /\ \A e \in load'[u].items : e <= load'[u].cursor
          /\ \A u \in Types : load'[u].pc = "cursor" => \A e \in load'[u].items : e <= Len(log)
      BY <1>0, <2>1, <2>2, <2>3 DEF LoadOK
    <3>3. ASSUME NEW v \in Types, load'[v].pc \in {"cursor", "done"},
                 NEW e \in 1..Len(log), log[e] = v
          PROVE  e \in load'[v].items \cup raced
      BY <2>1, <2>2, <2>3, <3>3 DEF LoadOK
    <3> QED BY <1>0, <3>1, <3>2, <3>3 DEF LoadOK
  <2> QED BY <1>1, <2>1, <2>2, <2>4
<1> QED BY <1>2, <1>3

\* The server answers a reconciliation.
LEMMA ReconReadsKeep ==
    ASSUME Page!TimelineAssumption, PageInv, Page!ReconcileList \/ Page!ReconcileCursor
    PROVE  PageInv'
<1> USE DEF PageInv
<1>0. /\ recon \in [scope : Nat, page : Nat, req : Requests] /\ Len(log) \in Nat
      /\ recon.req \in Requests /\ recon.req.after \in Nat
      /\ UNCHANGED <<log, scope, cursor, ingested, load, src, raced>>
  BY DEF Page!ReconcileList, Page!ReconcileCursor, Page!pageVars, PageTypes, Requests
<1>1. ASSUME NEW k \in Requests, recon' = [recon EXCEPT !.req = k],
             recon.scope = scope =>
               /\ k.pc \in {"cursor", "done"}
               /\ \A i \in k.items : i <= Len(log) /\ \A e \in 1..i : Has(e) \/ e \in k.items
               /\ k.pc = "cursor" /\ ~Page!Full(k.items) =>
                    \A e \in 1..Len(log) : Has(e) \/ e \in k.items
               /\ k.pc = "done" /\ ~Page!Full(k.items) =>
                    k.cursor <= Len(log) /\ \A e \in 1..k.cursor : Has(e) \/ e \in k.items
      PROVE  PageInv'
  <2>1. /\ recon' \in [scope : Nat, page : Nat, req : Requests]
        /\ recon'.req = k /\ recon'.scope = recon.scope
    BY <1>0, <1>1
  <2>2. PageTypes'
    BY <1>0, <2>1 DEF PageTypes
  <2>3. \A e : Has(e) <=> Has(e)'
    BY <1>0 DEF Has
  <2>4. ReconOK'
    BY <1>0, <1>1, <2>1, <2>3 DEF ReconOK
  <2>5. LoadOK' /\ StreamOK'
    BY <1>0, HasMoreStays DEF LoadOK
  <2>6. Page!NothingSkipped'
    BY <1>0 DEF Page!NothingSkipped, Page!Newest
  <2> QED BY <2>2, <2>4, <2>5, <2>6
<1>2. CASE Page!ReconcileList
  <2> DEFINE n == recon.req.after
  <2> DEFINE k == [pc |-> IF Page!HasMore(n) THEN "done" ELSE "cursor",
                   items |-> Page!FirstPage(n),
                   cursor |-> IF Page!HasMore(n) THEN n + PageLimit ELSE 0, after |-> 0]
  <2>0. n \in Nat /\ PageLimit \in Nat /\ n + PageLimit \in Nat
    BY <1>0 DEF Page!TimelineAssumption
  <2>1. Page!FirstPage(n) \in SUBSET Nat
    BY <1>0 DEF Page!FirstPage, Page!After, Page!Newest
  <2>2. /\ k \in Requests /\ k.items = Page!FirstPage(n)
        /\ k.pc = IF Page!HasMore(n) THEN "done" ELSE "cursor"
        /\ k.cursor = IF Page!HasMore(n) THEN n + PageLimit ELSE 0
    BY <2>0, <2>1 DEF Requests
  <2>3. recon' = [recon EXCEPT !.req = k] /\ recon.req.pc = "list"
    BY <1>2 DEF Page!ReconcileList
  <2>4. \A e \in Nat : e \in Page!FirstPage(n) <=> e >= 1 /\ e <= Len(log) /\ e > n /\ e <= n + PageLimit
    BY <1>0, <2>0 DEF Page!FirstPage, Page!After, Page!Newest
  <2>5. Page!HasMore(n) <=> Len(log) > n + PageLimit
    BY DEF Page!HasMore, Page!Newest
  <2> HIDE DEF k
  <2>6. ASSUME recon.scope = scope
        PROVE  \A e \in 1..Len(log) : e <= n => Has(e)
    BY <2>3, <2>6 DEF ReconOK
  <2> HIDE DEF n
  <2>7. ASSUME recon.scope = scope, NEW i \in Page!FirstPage(n)
        PROVE  i <= Len(log) /\ \A e \in 1..i : Has(e) \/ e \in Page!FirstPage(n)
    <3>1. i \in Nat /\ i <= Len(log) /\ i <= n + PageLimit
      BY <2>1, <2>4, <2>7
    <3>2. ASSUME NEW e \in 1..i PROVE Has(e) \/ e \in Page!FirstPage(n)
      <4>1. e \in Nat /\ e >= 1 /\ e <= Len(log) /\ e <= n + PageLimit /\ e \in 1..Len(log)
        BY <1>0, <2>0, <3>1, <3>2
      <4>2. e <= n \/ e > n
        BY <2>0, <4>1
      <4> QED BY <2>4, <2>6, <2>7, <4>1, <4>2
    <3> QED BY <3>1, <3>2
  <2>8. ASSUME recon.scope = scope, ~Page!HasMore(n), NEW e \in 1..Len(log)
        PROVE  Has(e) \/ e \in Page!FirstPage(n)
    <3>1. e \in Nat /\ e >= 1 /\ e <= Len(log) /\ e <= n + PageLimit /\ (e <= n \/ e > n)
      BY <1>0, <2>0, <2>5, <2>8
    <3> QED BY <2>4, <2>6, <2>8, <3>1
  <2>9. ASSUME recon.scope = scope, Page!HasMore(n)
        PROVE  n + PageLimit <= Len(log)
               /\ \A e \in 1..(n + PageLimit) : Has(e) \/ e \in Page!FirstPage(n)
    <3>1. n + PageLimit <= Len(log)
      BY <1>0, <2>0, <2>5, <2>9
    <3>2. ASSUME NEW e \in 1..(n + PageLimit) PROVE Has(e) \/ e \in Page!FirstPage(n)
      <4>1. e \in Nat /\ e >= 1 /\ e <= Len(log) /\ e <= n + PageLimit /\ (e <= n \/ e > n)
            /\ e \in 1..Len(log)
        BY <1>0, <2>0, <3>1, <3>2
      <4> QED BY <2>4, <2>6, <2>9, <4>1
    <3> QED BY <3>1, <3>2
  <2> QED BY <1>1, <2>2, <2>3, <2>7, <2>8, <2>9
<1>3. CASE Page!ReconcileCursor
  <2> DEFINE k == [recon.req EXCEPT !.pc = "done", !.cursor = Page!Newest]
  <2>1. k \in Requests /\ k.pc = "done" /\ k.items = recon.req.items /\ k.cursor = Len(log)
    BY <1>0 DEF Requests, Page!Newest
  <2>2. recon' = [recon EXCEPT !.req = k] /\ recon.req.pc = "cursor"
    BY <1>3 DEF Page!ReconcileCursor
  <2> HIDE DEF k
  <2>3. Len(log) <= Len(log)
    BY <1>0
  <2> QED BY <1>1, <2>1, <2>2, <2>3 DEF ReconOK
<1> QED BY <1>2, <1>3

\* The source changes and what the page has does not shrink.
LEMMA SourceMoves ==
    ASSUME PageInv, NEW k \in [pc : {"none", "opening", "open"}, after : Nat, at : Nat, wire : Seq(Events)],
           src' = k, StreamOK',
           UNCHANGED <<log, scope, cursor, ingested, load, recon>>, raced \subseteq raced'
    PROVE  PageInv'
<1> USE DEF PageInv
<1>1. PageTypes'
  BY DEF PageTypes
<1>2. LoadOK' /\ ReconOK'
  BY ReconStays DEF LoadOK
<1>3. Page!NothingSkipped'
  BY DEF Page!NothingSkipped, Page!Newest
<1> QED BY <1>1, <1>2, <1>3

\* The stream of the server.
LEMMA StreamKeeps ==
    ASSUME PageInv, Page!StreamStarts \/ Page!StreamReads
    PROVE  PageInv'
<1> USE DEF PageInv
<1>0. /\ src \in [pc : {"none", "opening", "open"}, after : Nat, at : Nat, wire : Seq(Events)]
      /\ UNCHANGED <<log, scope, cursor, ingested, load, recon>> /\ Len(log) \in Nat
      /\ raced \subseteq raced'
  BY DEF Page!StreamStarts, Page!StreamReads, Page!pageVars, PageTypes
<1>1. /\ src.after \in Nat /\ src.at \in Nat /\ src.wire \in Seq(Events)
      /\ \A j \in 1..Len(src.wire) : src.wire[j].seq \in Nat
  BY WireIsTyped
<1>2. \A e : Has(e) => Has(e)'
  BY <1>0 DEF Has
<1>3. CASE /\ src.pc = "opening" /\ UNCHANGED raced
           /\ src' = [src EXCEPT !.pc = "open", !.at = src.after, !.after = 0]
  <2> DEFINE k == [src EXCEPT !.pc = "open", !.at = src.after, !.after = 0]
  <2>1. /\ k \in [pc : {"none", "opening", "open"}, after : Nat, at : Nat, wire : Seq(Events)]
        /\ k.pc = "open" /\ k.at = src.after /\ k.wire = src.wire
    BY <1>0, <1>1
  <2>2. src' = k
    BY <1>3
  <2> HIDE DEF k
  <2>4. StreamOK'
    BY <1>0, <1>2, <1>3, <2>1, <2>2 DEF StreamOK
  <2> QED BY <1>0, <2>1, <2>2, <2>4, SourceMoves
<1>4. CASE /\ src' = [src EXCEPT !.pc = "open", !.at = Page!Newest,
                                  !.wire = <<Page!Event("cursor", Page!Newest)>>]
           /\ raced' = raced \cup 1..Page!Newest
  <2> DEFINE w == <<Page!Event("cursor", Len(log))>>
  <2>0. Page!Event("cursor", Len(log)) \in Events /\ Page!Event("cursor", Len(log)).seq = Len(log)
    BY <1>0 DEF Events, Page!Event
  <2>1. w \in Seq(Events) /\ Len(w) = 1 /\ w[1].seq = Len(log)
    BY <2>0
  <2> HIDE DEF w
  <2> DEFINE k == [src EXCEPT !.pc = "open", !.at = Len(log), !.wire = w]
  <2>2. /\ k \in [pc : {"none", "opening", "open"}, after : Nat, at : Nat, wire : Seq(Events)]
        /\ k.pc = "open" /\ k.at = Len(log) /\ k.wire = w
    BY <1>0, <2>1
  <2>3. src' = k
    BY <1>4 DEF Page!Newest, w
  <2> HIDE DEF k
  <2>4. \A e \in 1..Len(log) : Has(e)'
    BY <1>4 DEF Has, Page!Newest
  <2>5. \A j \in 1..Len(w) : j = 1
    BY <2>1
  <2>6. Len(log) <= Len(log)
    BY <1>0
  <2>7. \A j \in 1..Len(src'.wire) :
          src'.wire[j].seq <= Len(log') /\ \A e \in 1..src'.wire[j].seq : Has(e)'
    BY <1>0, <2>1, <2>2, <2>3, <2>4, <2>5, <2>6
  <2>8. src'.at <= Len(log') /\ (\A e \in 1..src'.at : Has(e)') /\ src'.pc = "open"
    BY <1>0, <2>2, <2>3, <2>4, <2>6
  <2>9. StreamOK'
    BY <2>7, <2>8 DEF StreamOK
  <2> QED BY <1>0, <2>2, <2>3, <2>9, SourceMoves
<1>5. CASE Page!StreamReads
  <2> DEFINE v == Page!Event("timeline", src.at + 1)
  <2>0. v \in Events /\ v.seq = src.at + 1
    BY <1>1 DEF Events, Page!Event
  <2>1. /\ src.pc = "open" /\ src.at < Len(log) /\ UNCHANGED raced
        /\ src' = [src EXCEPT !.at = src.at + 1, !.wire = Append(src.wire, v)]
    BY <1>5 DEF Page!StreamReads, Page!Newest
  <2> DEFINE w == Append(src.wire, v)
  <2>2. v = Page!Event("timeline", src.at + 1)
    OBVIOUS
  <2> HIDE DEF v
  <2>3. /\ w \in Seq(Events) /\ Len(w) = Len(src.wire) + 1 /\ w[Len(src.wire) + 1] = v
        /\ \A j \in 1..Len(src.wire) : w[j] = src.wire[j]
    BY <1>1, <2>0
  <2> DEFINE k == [src EXCEPT !.at = src.at + 1, !.wire = w]
  <2>4. src' = k
    BY <2>1
  <2> HIDE DEF w
  <2>5. /\ k \in [pc : {"none", "opening", "open"}, after : Nat, at : Nat, wire : Seq(Events)]
        /\ k.pc = "open" /\ k.at = src.at + 1 /\ k.wire = w
    <3>1. src.at + 1 \in Nat
      BY <1>1
    <3> QED BY <1>0, <2>1, <2>3, <3>1
  <2> HIDE DEF k
  <2>6. Len(src.wire) \in Nat /\ src.at + 1 <= Len(log)
    BY <1>0, <1>1, <2>1
  <2>7. ASSUME NEW e, NEW j \in 0..Len(src.wire), Sent(src.wire, e, j)
        PROVE  \A m \in 1..Len(w) : j <= m => Sent(w, e, m)
    <3>1. PICK i \in 1..j : src.wire[i] = Page!Event("timeline", e)
      BY <2>7 DEF Sent
    <3>2. i \in 1..Len(src.wire) /\ w[i] = Page!Event("timeline", e)
      BY <2>3, <2>6, <2>7, <3>1
    <3>3. \A m \in 1..Len(w) : j <= m => i \in 1..m
      BY <2>3, <2>6, <2>7, <3>1
    <3> QED BY <3>2, <3>3 DEF Sent
  <2>8. ASSUME NEW e \in 1..(src.at + 1) PROVE Has(e)' \/ Sent(w, e, Len(w))
    <3>1. CASE e = src.at + 1
      <4>1. Len(w) \in 1..Len(w) /\ w[Len(w)] = Page!Event("timeline", e)
        BY <2>2, <2>3, <2>6, <3>1
      <4> QED BY <4>1 DEF Sent
    <3>2. CASE e # src.at + 1
      <4>1. e \in 1..src.at
        BY <1>1, <2>8, <3>2
      <4>2. Has(e) \/ Sent(src.wire, e, Len(src.wire))
        BY <2>1, <4>1 DEF StreamOK
      <4>3. Len(src.wire) \in 0..Len(src.wire) /\ Len(w) \in 1..Len(w) /\ Len(src.wire) <= Len(w)
        BY <2>3, <2>6
      <4> QED BY <1>2, <2>7, <4>2, <4>3
    <3> QED BY <3>1, <3>2
  <2>9. ASSUME NEW j \in 1..Len(w)
        PROVE  w[j].seq <= Len(log) /\ \A e \in 1..w[j].seq : Has(e)' \/ Sent(w, e, j)
    <3>1. CASE j = Len(src.wire) + 1
      <4>1. j = Len(w) /\ w[j].seq = src.at + 1
        BY <2>0, <2>3, <3>1
      <4> QED BY <2>6, <2>8, <4>1
    <3>2. CASE j # Len(src.wire) + 1
      <4>1. j \in 1..Len(src.wire) /\ j \in 0..Len(src.wire) /\ j <= j
        BY <2>3, <2>6, <3>2
      <4>2. w[j] = src.wire[j]
        BY <2>3, <4>1
      <4>3. src.wire[j].seq <= Len(log) /\ \A e \in 1..src.wire[j].seq : Has(e) \/ Sent(src.wire, e, j)
        BY <4>1 DEF StreamOK
      <4> QED BY <1>2, <2>7, <4>1, <4>2, <4>3
    <3> QED BY <3>1, <3>2
  <2>10. StreamOK'
    BY <1>0, <2>4, <2>5, <2>6, <2>8, <2>9 DEF StreamOK
  <2> QED BY <1>0, <2>1, <2>4, <2>5, <2>10, SourceMoves
<1> QED BY <1>3, <1>4, <1>5 DEF Page!StreamStarts

\* The page comes in again: everything of the former scope is behind it.
LEMMA EnterKeepsPage ==
    ASSUME PageInv, Page!EnterWorkspace
    PROVE  PageInv'
<1> USE DEF PageInv
<1>0. /\ scope' = scope + 1 /\ cursor' = 0 /\ load' = [t \in Types |-> Page!Asked(0)]
      /\ src' = Page!NoSource /\ UNCHANGED <<log, recon>>
      /\ scope \in Nat /\ Len(log) \in Nat /\ recon.scope \in Nat /\ recon.scope <= scope
  BY DEF Page!EnterWorkspace, PageTypes
<1>1. scope' \in Nat /\ cursor' \in Nat /\ cursor' <= Len(log) /\ recon.scope <= scope' /\ recon.scope # scope'
  BY <1>0
<1>2. \A t \in Types : load'[t] = Page!Asked(0) /\ Page!Asked(0) \in Requests /\ load'[t].pc = "list"
  BY <1>0, FreshRequests
<1>3. load' \in [Types -> Requests]
  BY <1>0, <1>2
<1>4. PageTypes'
  BY <1>0, <1>1, <1>3, NothingOpen DEF PageTypes
<1>5. LoadOK'
  BY <1>2 DEF LoadOK
<1>6. ReconOK'
  BY <1>0, <1>1 DEF ReconOK
<1>7. Len(src'.wire) = 0 /\ src'.pc = "none"
  BY <1>0, NothingOpen
<1>8. StreamOK'
  BY <1>7 DEF StreamOK
<1>9. Page!NothingSkipped'
  BY <1>0 DEF Page!NothingSkipped, Page!Newest
<1> QED BY <1>4, <1>5, <1>6, <1>8, <1>9

\* The loads start again, or end, and the cursor moves over what they brought.
LEMMA LoadMoves ==
    ASSUME PageInv,
           \/ load' = [t \in Types |-> Page!Asked(0)]
           \/ load' = [t \in Types |-> Page!Idle],
           UNCHANGED <<log, scope, recon, src, raced>>, ingested \subseteq ingested',
           cursor' \in Nat, cursor' <= Len(log),
           \A e \in 1..Len(log) : e <= cursor' => e \in ingested' \cup raced
    PROVE  PageInv'
<1> USE DEF PageInv
<1>1. /\ load' \in [Types -> Requests]
      /\ \/ \A t \in Types : load'[t].pc = "list"
         \/ \A t \in Types : load'[t].pc = "idle"
  <2>1. 0 \in Nat
    OBVIOUS
  <2> QED BY <2>1, FreshRequests
<1>2. PageTypes'
  BY <1>1 DEF PageTypes
<1>3. LoadOK'
  BY <1>1 DEF LoadOK
<1>4. ReconOK' /\ StreamOK'
  BY ReconStays, HasMoreStays
<1>5. Page!NothingSkipped'
  BY DEF Page!NothingSkipped, Page!Newest
<1> QED BY <1>2, <1>3, <1>4, <1>5

LEMMA LoadsKeep ==
    ASSUME PageInv, Page!LoadChat \/ Page!LoadApplies \/ Page!LoadFails
    PROVE  PageInv'
<1>0. /\ cursor \in Nat /\ cursor <= Len(log) /\ Len(log) \in Nat
      /\ load \in [Types -> Requests] /\ log \in Seq(Types)
      /\ \A e \in 1..Len(log) : e <= cursor => e \in ingested \cup raced
  BY DEF PageInv, PageTypes, Page!NothingSkipped, Page!Newest
<1>1. CASE Page!LoadChat \/ Page!LoadFails
  BY <1>0, <1>1, LoadMoves DEF Page!LoadChat, Page!LoadFails, Page!LoadEnds
<1>2. CASE Page!LoadApplies
  <2>1. /\ \A t \in Types : load[t].pc = "done"
        /\ load' = [t \in Types |-> Page!Idle]
        /\ UNCHANGED <<log, scope, recon, src, raced>>
        /\ ingested' = ingested \cup UNION {load[t].items : t \in Types}
        /\ cursor' \in {cursor} \cup {load[t].cursor : t \in Types}
                         \cup UNION {load[t].items : t \in Types}
    BY <1>2 DEF Page!LoadApplies, Page!LoadEnds, Page!MovesTo
  <2>2. \A t \in Types : /\ load[t].cursor \in Nat /\ load[t].items \subseteq Nat
                              /\ load[t].cursor <= Len(log)
                              /\ \A e \in load[t].items : e <= load[t].cursor
    BY <1>0, <2>1 DEF PageInv, LoadOK, Requests
  <2>3. cursor' \in Nat /\ cursor' <= Len(log)
        /\ (cursor' = cursor \/ \E u \in Types : cursor' <= load[u].cursor)
    <3>1. CASE cursor' = cursor
      BY <1>0, <3>1
    <3>2. ASSUME NEW u \in Types, cursor' = load[u].cursor \/ cursor' \in load[u].items
          PROVE  cursor' \in Nat /\ cursor' <= Len(log) /\ cursor' <= load[u].cursor
      <4>1. cursor' \in Nat /\ cursor' <= load[u].cursor /\ load[u].cursor \in Nat
            /\ load[u].cursor <= Len(log)
        BY <2>2, <3>2
      <4> QED BY <1>0, <4>1
    <3> QED BY <2>1, <3>1, <3>2
  <2>4. ASSUME NEW e \in 1..Len(log), e <= cursor' PROVE e \in ingested' \cup raced
    <3>1. CASE cursor' = cursor
      BY <1>0, <2>1, <2>4, <3>1
    <3>2. ASSUME NEW u \in Types, cursor' <= load[u].cursor
          PROVE  e \in ingested' \cup raced
      <4>1. e <= load[u].cursor
        BY <1>0, <2>2, <2>3, <2>4, <3>2
      <4>2. log[e] \in Types
        BY <1>0
      <4>3. e \in load[log[e]].items \cup raced
        BY <2>1, <4>1, <4>2 DEF PageInv, LoadOK
      <4> QED BY <2>1, <4>2, <4>3
    <3> QED BY <2>3, <3>1, <3>2
  <2> QED BY <2>1, <2>3, <2>4, LoadMoves
<1> QED BY <1>1, <1>2

\* The source is opened from the cursor, or lost.
LEMMA SourcesKeep ==
    ASSUME PageInv, Page!OpenTimelineStream \/ Page!SourceError
    PROVE  PageInv'
<1>0. UNCHANGED <<log, scope, cursor, ingested, load, recon, raced>>
  BY DEF Page!OpenTimelineStream, Page!SourceError, Page!pageVars
<1>1. CASE Page!OpenTimelineStream
  <2> DEFINE k == [Page!NoSource EXCEPT !.pc = "opening", !.after = cursor]
  <2>0. cursor \in Nat /\ cursor <= Len(log) /\ Len(log) \in Nat
    BY DEF PageInv, PageTypes
  <2>1. /\ k \in [pc : {"none", "opening", "open"}, after : Nat, at : Nat, wire : Seq(Events)]
        /\ k.pc = "opening" /\ k.after = cursor /\ k.wire = Page!NoSource.wire
    BY <2>0, NothingOpen
  <2>2. src' = k
    BY <1>1 DEF Page!OpenTimelineStream
  <2> HIDE DEF k
  <2>3. Len(src'.wire) = 0 /\ src'.pc = "opening" /\ src'.after = cursor
    BY <2>1, <2>2, NothingOpen
  <2>4. \A e \in 1..cursor : Has(e)'
    BY <1>0, <2>0 DEF Has, PageInv, Page!NothingSkipped, Page!Newest
  <2>5. StreamOK'
    BY <1>0, <2>0, <2>3, <2>4 DEF StreamOK
  <2> QED BY <1>0, <2>1, <2>2, <2>5, SourceMoves
<1>2. CASE Page!SourceError
  <2>1. src' = Page!NoSource /\ Len(src'.wire) = 0 /\ src'.pc = "none"
    BY <1>2, NothingOpen DEF Page!SourceError
  <2>2. StreamOK'
    BY <2>1 DEF StreamOK
  <2> QED BY <1>0, <2>1, <2>2, NothingOpen, SourceMoves
<1> QED BY <1>1, <1>2

\* An event of the stream is taken.
LEMMA EventKeepsPage ==
    ASSUME Page!TimelineAssumption, PageInv, Page!StreamEvent
    PROVE  PageInv'
<1> USE DEF PageInv
<1>0. /\ cursor \in Nat /\ cursor <= Len(log) /\ Len(log) \in Nat /\ Len(log) <= MaxEntries
      /\ MaxEntries \in Nat
      /\ src \in [pc : {"none", "opening", "open"}, after : Nat, at : Nat, wire : Seq(Events)]
      /\ src.wire # << >> /\ UNCHANGED <<log, scope, load, recon, raced>>
  BY DEF PageTypes, Page!StreamEvent, Page!TimelineAssumption
<1>1. /\ src.wire \in Seq(Events)
      /\ \A j \in 1..Len(src.wire) : src.wire[j] \in Events /\ src.wire[j].seq \in Nat
  BY WireIsTyped
<1>2. 1 \in 1..Len(src.wire) /\ Head(src.wire) = src.wire[1] /\ Len(src.wire) \in Nat
  BY <1>0, <1>1
<1> DEFINE h == src.wire[1]
<1> DEFINE w == Tail(src.wire)
<1>3. /\ w \in Seq(Events) /\ Len(w) = Len(src.wire) - 1
      /\ \A j \in 1..Len(w) : w[j] = src.wire[j + 1]
  BY <1>0, <1>1
<1> DEFINE k == [src EXCEPT !.wire = w]
<1>4. /\ cursor' = IF cursor < h.seq THEN h.seq ELSE cursor
      /\ ingested' = ingested \cup {e \in 1..MaxEntries : Page!Event("timeline", e) = h}
      /\ src' = k
  BY <1>2 DEF Page!StreamEvent, Page!Entries
<1>5. /\ h.seq \in Nat /\ h.seq <= Len(log)
      /\ \A e \in 1..h.seq : Has(e) \/ Sent(src.wire, e, 1)
  BY <1>1, <1>2 DEF StreamOK
<1>6. \A e \in 1..Len(log) : h = Page!Event("timeline", e) => e \in ingested'
  BY <1>0, <1>4
<1>7. \A e \in 1..h.seq : Sent(src.wire, e, 1) => h = Page!Event("timeline", e)
  BY DEF Sent
<1> HIDE DEF h, w
<1>8. \A e : Has(e) => Has(e)'
  BY <1>0, <1>4 DEF Has
<1>9. \A e \in 1..h.seq : Has(e)'
  <2> SUFFICES ASSUME NEW e \in 1..h.seq PROVE Has(e)'
    OBVIOUS
  <2>1. e \in 1..Len(log)
    BY <1>0, <1>5
  <2> QED BY <1>5, <1>6, <1>7, <1>8, <2>1 DEF Has
<1>10. /\ k \in [pc : {"none", "opening", "open"}, after : Nat, at : Nat, wire : Seq(Events)]
       /\ k.pc = src.pc /\ k.after = src.after /\ k.at = src.at /\ k.wire = w
  BY <1>0, <1>3
<1> HIDE DEF k
<1>11. cursor' \in Nat /\ cursor' <= Len(log)
  BY <1>0, <1>4, <1>5
<1>12. PageTypes'
  BY <1>0, <1>4, <1>10, <1>11 DEF PageTypes
<1>13. LoadOK'
  BY <1>0 DEF LoadOK
<1>14. ReconOK'
  BY <1>0, <1>4, ReconStays
<1>15. ASSUME NEW j \in 0..Len(w), NEW e \in 1..Len(log), Sent(src.wire, e, j + 1)
       PROVE  Has(e)' \/ Sent(w, e, j)
  <2>1. PICK i \in 1..(j + 1) : src.wire[i] = Page!Event("timeline", e)
    BY <1>15 DEF Sent
  <2>2. CASE i = 1
    BY <1>6, <2>1, <2>2 DEF h, Has
  <2>3. CASE i # 1
    <3>1. i - 1 \in 1..j /\ i - 1 \in 1..Len(w) /\ (i - 1) + 1 = i
      BY <1>15, <1>2, <1>3, <2>1, <2>3
    <3>2. w[i - 1] = Page!Event("timeline", e)
      BY <1>3, <2>1, <3>1
    <3> QED BY <3>1, <3>2 DEF Sent
  <2> QED BY <2>2, <2>3
<1>16. ASSUME NEW j \in 1..Len(w)
       PROVE  w[j].seq <= Len(log) /\ \A e \in 1..w[j].seq : Has(e)' \/ Sent(w, e, j)
  <2>1. j + 1 \in 1..Len(src.wire) /\ w[j] = src.wire[j + 1] /\ j \in 0..Len(w)
    BY <1>2, <1>3
  <2>2. /\ w[j].seq \in Nat /\ w[j].seq <= Len(log)
        /\ \A e \in 1..w[j].seq : Has(e) \/ Sent(src.wire, e, j + 1)
    BY <1>1, <2>1 DEF StreamOK
  <2>3. \A e \in 1..w[j].seq : e \in 1..Len(log)
    BY <1>0, <2>2
  <2> QED BY <1>8, <1>15, <2>1, <2>2, <2>3
<1>17. src.pc = "open" => src.at <= Len(log) /\ \A e \in 1..src.at : Has(e)' \/ Sent(w, e, Len(w))
  <2>1. Len(w) \in 0..Len(w) /\ Len(w) + 1 = Len(src.wire)
    BY <1>2, <1>3
  <2>2. src.at \in Nat
    BY <1>0
  <2>3. ASSUME src.pc = "open"
        PROVE  /\ src.at <= Len(log)
               /\ \A e \in 1..src.at : e \in 1..Len(log) /\ (Has(e) \/ Sent(src.wire, e, Len(w) + 1))
    <3>1. src.at <= Len(log) /\ \A e \in 1..src.at : Has(e) \/ Sent(src.wire, e, Len(w) + 1)
      BY <2>1, <2>3 DEF StreamOK
    <3>2. \A e \in 1..src.at : e \in 1..Len(log)
      BY <1>0, <2>2, <3>1
    <3> QED BY <3>1, <3>2
  <2> QED BY <1>8, <1>15, <2>1, <2>3
<1>18. StreamOK'
  BY <1>0, <1>4, <1>8, <1>10, <1>16, <1>17 DEF StreamOK
<1>19. Page!NothingSkipped'
  <2> SUFFICES ASSUME NEW e \in 1..Len(log), e <= cursor' PROVE Has(e)'
    BY <1>0 DEF Page!NothingSkipped, Page!Newest, Has
  <2>1. e <= cursor \/ e \in 1..h.seq
    BY <1>0, <1>4, <1>5
  <2>2. e <= cursor => Has(e)
    BY DEF Page!NothingSkipped, Page!Newest, Has
  <2> QED BY <1>8, <1>9, <2>1, <2>2
<1> QED BY <1>12, <1>13, <1>14, <1>18, <1>19

\* A reconciliation starts, or is given up.
LEMMA ReconMoves ==
    ASSUME PageInv, NEW k \in [scope : Nat, page : Nat, req : Requests], recon' = k,
           k.scope <= scope,
           k.scope = scope =>
             \/ k.req.pc = "idle"
             \/ /\ k.req.pc = "list" /\ k.req.after <= Len(log)
                /\ \A e \in 1..Len(log) : e <= k.req.after => e \in ingested' \cup raced,
           UNCHANGED <<log, scope, load, src, raced>>, ingested \subseteq ingested',
           cursor' \in Nat, cursor' <= Len(log),
           \A e \in 1..Len(log) : e <= cursor' => e \in ingested' \cup raced
    PROVE  PageInv'
<1> USE DEF PageInv
<1>1. PageTypes'
  BY DEF PageTypes
<1>2. LoadOK' /\ StreamOK'
  BY HasMoreStays DEF LoadOK
<1>3. ReconOK'
  BY DEF ReconOK, Has
<1>4. Page!NothingSkipped'
  BY DEF Page!NothingSkipped, Page!Newest
<1> QED BY <1>1, <1>2, <1>3, <1>4

LEMMA ReconcileKeeps ==
    ASSUME PageInv, Page!Reconcile \/ Page!ReconcileApplies \/ Page!ReconcileFails
    PROVE  PageInv'
<1>0. /\ cursor \in Nat /\ cursor <= Len(log) /\ Len(log) \in Nat /\ scope \in Nat
      /\ recon \in [scope : Nat, page : Nat, req : Requests] /\ recon.req \in Requests
      /\ \A e \in 1..Len(log) : e <= cursor => e \in ingested \cup raced
      /\ 0 <= scope /\ scope <= scope
      /\ UNCHANGED <<log, scope, load, src, raced>>
  <2>1. /\ cursor \in Nat /\ cursor <= Len(log) /\ Len(log) \in Nat /\ scope \in Nat
        /\ recon \in [scope : Nat, page : Nat, req : Requests] /\ recon.req \in Requests
    BY DEF PageInv, PageTypes
  <2>2. \A e \in 1..Len(log) : e <= cursor => e \in ingested \cup raced
    BY DEF PageInv, Page!NothingSkipped, Page!Newest
  <2>3. 0 <= scope /\ scope <= scope
    BY <2>1
  <2>4. UNCHANGED <<log, scope, load, src, raced>>
    BY DEF Page!Reconcile, Page!ReconcileApplies, Page!ReconcileFails
  <2> QED BY <2>1, <2>2, <2>3, <2>4
<1>1. CASE Page!Reconcile
  <2> DEFINE k == [scope |-> scope, page |-> 1, req |-> Page!Asked(cursor)]
  <2>1. /\ Page!Asked(cursor) \in Requests /\ Page!Asked(cursor).pc = "list"
        /\ Page!Asked(cursor).after = cursor
    BY <1>0, FreshRequests
  <2>2. /\ k \in [scope : Nat, page : Nat, req : Requests] /\ k.scope = scope
        /\ k.req = Page!Asked(cursor)
    BY <1>0, <2>1
  <2>3. recon' = k /\ UNCHANGED <<cursor, ingested>>
    BY <1>1 DEF Page!Reconcile
  <2> HIDE DEF k
  <2> QED BY <1>0, <2>1, <2>2, <2>3, ReconMoves
<1>2. CASE Page!ReconcileFails
  <2>1. recon' = Page!NoRecon /\ UNCHANGED <<cursor, ingested>>
    BY <1>2 DEF Page!ReconcileFails
  <2> QED BY <1>0, <2>1, NothingAsked, FreshRequests, ReconMoves
<1>3. CASE Page!ReconcileApplies
  <2> DEFINE req == recon.req
  <2>0. recon.scope = scope /\ req.pc = "done" /\ ingested' = ingested \cup req.items
    BY <1>3 DEF Page!ReconcileApplies
  <2>1. PICK c \in {cursor} \cup req.items \cup (IF Page!Full(req.items) THEN {} ELSE {req.cursor}) :
          cursor' = c /\ Page!ReconcileGoesOn(Page!Full(req.items), c)
    BY <1>3 DEF Page!ReconcileApplies
  <2>2. req.items \subseteq Nat /\ req.cursor \in Nat
    BY <1>0 DEF Requests
  <2>3. /\ \A i \in req.items : i <= Len(log) /\ \A e \in 1..i : Has(e) \/ e \in req.items
        /\ ~Page!Full(req.items) =>
             req.cursor <= Len(log) /\ \A e \in 1..req.cursor : Has(e) \/ e \in req.items
    BY <2>0 DEF PageInv, ReconOK
  <2>4. c \in Nat /\ c <= Len(log)
    BY <1>0, <2>1, <2>2, <2>3
  <2>5. \A e \in 1..c : Has(e) \/ e \in req.items
    <3>1. CASE c = cursor
      BY <1>0, <3>1 DEF Has
    <3> QED BY <2>1, <2>3, <3>1
  <2>6. \A e \in 1..Len(log) : e <= c => e \in ingested' \cup raced
    <3> SUFFICES ASSUME NEW e \in 1..Len(log), e <= c PROVE e \in ingested' \cup raced
      OBVIOUS
    <3>1. e \in 1..c
      BY <1>0, <2>4
    <3> QED BY <2>0, <2>5, <3>1 DEF Has
  <2>7. CASE recon' = Page!NoRecon
    BY <1>0, <2>0, <2>1, <2>4, <2>6, <2>7, NothingAsked, FreshRequests, ReconMoves
  <2>8. CASE recon' = [recon EXCEPT !.page = recon.page + 1, !.req = Page!Asked(c)]
    <3> DEFINE k == [recon EXCEPT !.page = recon.page + 1, !.req = Page!Asked(c)]
    <3>1. Page!Asked(c) \in Requests /\ Page!Asked(c).pc = "list" /\ Page!Asked(c).after = c
      BY <2>4, FreshRequests
    <3>2. recon.page + 1 \in Nat
      BY <1>0
    <3>3. /\ k \in [scope : Nat, page : Nat, req : Requests] /\ k.scope = recon.scope
          /\ k.req = Page!Asked(c)
      BY <1>0, <3>1, <3>2
    <3>4. recon' = k
      BY <2>8
    <3> HIDE DEF k
    <3> QED BY <1>0, <2>0, <2>1, <2>4, <2>6, <3>1, <3>3, <3>4, ReconMoves
  <2> QED BY <2>1, <2>7, <2>8 DEF Page!ReconcileGoesOn
<1> QED BY <1>1, <1>2, <1>3

LEMMA PageInvariant ==
    ASSUME Page!TimelineAssumption
    PROVE  Page!Spec => []PageInv
<1>1. Page!Init => PageInv
  BY PageInit
<1>2. ASSUME PageInv, [Page!Next]_(Page!vars) PROVE PageInv'
  <2>1. CASE UNCHANGED Page!vars
    <3>1. UNCHANGED <<log, scope, cursor, ingested, load, recon, src, raced>>
      BY <2>1 DEF Page!vars
    <3>2. \A e : Has(e) <=> Has(e)'
      BY <3>1 DEF Has
    <3> QED BY <1>2, <3>1, <3>2 DEF PageInv, PageTypes, LoadOK, ReconOK, StreamOK,
                Page!NothingSkipped, Page!Newest
  <2>2. CASE Page!Server
    BY <1>2, <2>2, AppendKeeps, LoadReadsKeep, ReconReadsKeep, StreamKeeps DEF Page!Server
  <2>3. CASE Page!Page
    BY <1>2, <2>3, EnterKeepsPage, LoadsKeep, SourcesKeep, EventKeepsPage, ReconcileKeeps
       DEF Page!Page
  <2> QED BY <1>2, <2>1, <2>2, <2>3 DEF Page!Next
<1> QED BY <1>1, <1>2, PTL DEF Page!Spec

\* Whatever part runs, the variables of WorkspaceTimeline behave as it says.
LEMMA PageRuns == Spec => Page!Spec
<1>1. Init => Page!Init
  BY DEF Init
<1>2. [Next]_vars => [Page!Next]_(Page!vars)
  BY DEF Next, vars, submissionVars, actionVars, readingVars, renewalVars, pageVars, Page!vars
<1> QED BY <1>1, <1>2, PTL DEF Spec, Page!Spec

\* The cursor of the page passes an entry of the timeline only when the page
\* has it, whichever of its three readers moves the cursor; the only entries it
\* may pass are the ones appended between the two reads of a request, or there
\* before a stream that had no cursor to start from.
THEOREM NoEntryIsSkipped == Spec => []NothingSkipped
<1>1. PageInv => NothingSkipped
  BY DEF PageInv, NothingSkipped
<1>2. Page!TimelineAssumption
  BY ConstantsFit DEF ConstantsFit
<1>3. Page!Spec => []PageInv
  BY <1>2, PageInvariant
<1> QED BY <1>1, <1>3, PageRuns, PTL

(***************************************************************************)
(* Reading a collection in pages while it changes.                         *)
(***************************************************************************)

ReadTypes ==
    /\ source \in Seq(Rows) /\ Reading!IsInjective(source)
    /\ got \in Seq(Rows) /\ totals \in Seq(Nat)
    /\ moves \subseteq {"arrived", "left"}

\* While nothing left, everything that was read is still there; while nothing
\* arrived, the collection is as large as at first only if nothing left.
SizesTell ==
    /\ "left" \notin moves => Reading!ToSet(got) \subseteq Reading!ToSet(source)
    /\ Len(totals) > 0 /\ "arrived" \notin moves =>
          /\ Len(source) <= totals[1]
          /\ Len(source) = totals[1] => moves = {}

\* The inductive invariant of the paged readings.
ReadInv ==
    /\ ReadTypes
    /\ Len(totals) = 0 => moves = {} /\ got = << >>
    /\ verdict = "whole" => Len(totals) > 0
    /\ steady \subseteq Reading!ToSet(source)
    /\ SizesTell
    /\ Reading!WholeListsAll

\* A sequence without repetitions has as many elements as positions.
LEMMA DistinctCount ==
    ASSUME NEW S, NEW s \in Seq(S), Reading!IsInjective(s)
    PROVE  /\ IsFiniteSet(Reading!ToSet(s))
           /\ Cardinality(Reading!ToSet(s)) = Len(s)
<1>1. Len(s) \in Nat /\ DOMAIN s = 1..Len(s)
  OBVIOUS
<1>2. s \in Bijection(1..Len(s), Reading!ToSet(s))
  <2>1. s \in [1..Len(s) -> Reading!ToSet(s)]
    BY <1>1 DEF Reading!ToSet
  <2>2. \A i, j \in 1..Len(s) : s[i] = s[j] => i = j
    BY <1>1 DEF Reading!IsInjective
  <2>3. \A x \in Reading!ToSet(s) : \E i \in 1..Len(s) : s[i] = x
    BY <1>1 DEF Reading!ToSet
  <2> QED BY <2>1, <2>2, <2>3 DEF Bijection, Injection, Surjection, IsInjective
<1>3. ExistsBijection(1..Len(s), Reading!ToSet(s))
  BY <1>2 DEF ExistsBijection
<1>4. IsFiniteSet(1..Len(s))
  BY <1>1, FS_Interval
<1> QED BY <1>1, <1>3, <1>4, FS_CountingElements, FS_Bijection

\* Without one of its rows, the collection is one shorter.
LEMMA RowLeaves ==
    ASSUME NEW s \in Seq(Rows), Reading!IsInjective(s), NEW i \in DOMAIN s,
           NEW t, t = Reading!RemoveAt(s, i)
    PROVE  /\ t \in Seq(Rows) /\ Reading!IsInjective(t)
           /\ Len(t) = Len(s) - 1
           /\ Reading!ToSet(t) = Reading!ToSet(s) \ {s[i]}
<1>1. Len(s) \in Nat /\ DOMAIN s = 1..Len(s) /\ i \in 1..Len(s)
  OBVIOUS
<1> DEFINE a == SubSeq(s, 1, i - 1)
           b == SubSeq(s, i + 1, Len(s))
<1>2. /\ a \in Seq(Rows) /\ Len(a) = i - 1
      /\ \A k \in 1..(i - 1) : a[k] = s[k]
  <2>1. 1 \in Int /\ i - 1 \in Int /\ (i - 1) - 1 + 1 = i - 1
    BY <1>1
  <2>2. \A k \in 1..(i - 1) : s[k] \in Rows
    BY <1>1
  <2>3. /\ a \in Seq(Rows)
        /\ Len(a) = IF 1 <= i - 1 THEN (i - 1) - 1 + 1 ELSE 0
        /\ \A k \in 1..((i - 1) - 1 + 1) : a[k] = s[1 + k - 1]
    BY <2>1, <2>2, SubSeqProperties
  <2> HIDE DEF a
  <2>4. Len(a) = i - 1
    BY <1>1, <2>1, <2>3
  <2>5. ASSUME NEW k \in 1..(i - 1)
        PROVE  a[k] = s[k]
    <3>1. 1 + k - 1 = k
      OBVIOUS
    <3> QED BY <2>1, <2>3, <3>1
  <2> QED BY <2>3, <2>4, <2>5
<1>3. /\ b \in Seq(Rows) /\ Len(b) = Len(s) - i
      /\ \A k \in 1..(Len(s) - i) : b[k] = s[k + i]
  <2>1. i + 1 \in Int /\ Len(s) \in Int /\ Len(s) - (i + 1) + 1 = Len(s) - i
    BY <1>1
  <2>2. \A k \in (i + 1)..Len(s) : s[k] \in Rows
    BY <1>1
  <2>3. /\ b \in Seq(Rows)
        /\ Len(b) = IF i + 1 <= Len(s) THEN Len(s) - (i + 1) + 1 ELSE 0
        /\ \A k \in 1..(Len(s) - (i + 1) + 1) : b[k] = s[(i + 1) + k - 1]
    BY <2>1, <2>2, SubSeqProperties
  <2> HIDE DEF b
  <2>4. Len(b) = Len(s) - i
    <3>1. i \in Int /\ i <= Len(s)
      BY <1>1
    <3>2. ~(i + 1 <= Len(s)) => Len(s) - i = 0
      BY <2>1, <3>1
    <3> QED BY <2>1, <2>3, <3>2
  <2>5. ASSUME NEW k \in 1..(Len(s) - i)
        PROVE  b[k] = s[k + i]
    <3>1. (i + 1) + k - 1 = k + i
      BY <1>1
    <3> QED BY <2>1, <2>3, <3>1
  <2> QED BY <2>3, <2>4, <2>5
<1>4. t = a \o b
  BY DEF Reading!RemoveAt
<1> HIDE DEF a, b
<1>5. /\ t \in Seq(Rows) /\ Len(t) = Len(s) - 1
      /\ \A k \in 1..(Len(s) - 1) : t[k] = IF k < i THEN s[k] ELSE s[k + 1]
  <2>1. /\ t \in Seq(Rows) /\ Len(t) = Len(a) + Len(b)
        /\ \A k \in 1..(Len(a) + Len(b)) : t[k] = IF k <= Len(a) THEN a[k] ELSE b[k - Len(a)]
    <3>1. a \in Seq(Rows) /\ b \in Seq(Rows)
      BY <1>2, <1>3
    <3> QED BY ONLY <3>1, <1>4, ConcatProperties
  <2>2. Len(a) + Len(b) = Len(s) - 1
    BY <1>1, <1>2, <1>3
  <2>3. ASSUME NEW k \in 1..(Len(s) - 1) PROVE t[k] = IF k < i THEN s[k] ELSE s[k + 1]
    <3>1. CASE k < i
      <4>1. k \in 1..(i - 1) /\ k <= Len(a)
        BY <1>1, <1>2, <3>1
      <4> QED BY <1>2, <2>1, <2>2, <3>1, <4>1
    <3>2. CASE ~(k < i)
      <4>1. k - (i - 1) \in 1..(Len(s) - i) /\ ~(k <= Len(a)) /\ (k - (i - 1)) + i = k + 1
        BY <1>1, <1>2, <3>2
      <4> QED BY <1>2, <1>3, <2>1, <2>2, <3>2, <4>1
    <3> QED BY <3>1, <3>2
  <2> QED BY <2>1, <2>2, <2>3
<1>6. Reading!IsInjective(t)
  <2> SUFFICES ASSUME NEW j \in 1..(Len(s) - 1), NEW k \in 1..(Len(s) - 1), t[j] = t[k] PROVE j = k
    BY <1>1, <1>5 DEF Reading!IsInjective
  <2> DEFINE at(m) == IF m < i THEN m ELSE m + 1
  <2>1. ASSUME NEW m \in 1..(Len(s) - 1) PROVE at(m) \in DOMAIN s /\ t[m] = s[at(m)]
    <3>1. m \in DOMAIN s /\ m + 1 \in DOMAIN s
      BY <1>1
    <3> QED BY <1>5, <3>1
  <2>2. at(j) = at(k)
    <3> HIDE DEF at
    <3> QED BY <2>1 DEF Reading!IsInjective
  <2> QED BY <1>1, <2>2
<1>7. Reading!ToSet(t) \subseteq Reading!ToSet(s) \ {s[i]}
  <2> SUFFICES ASSUME NEW k \in DOMAIN t PROVE t[k] \in Reading!ToSet(s) /\ t[k] # s[i]
    BY DEF Reading!ToSet
  <2>1. k \in 1..(Len(s) - 1)
    BY <1>1, <1>5
  <2>2. PICK m \in 1..Len(s) : t[k] = s[m] /\ m # i
    BY <1>1, <1>5, <2>1
  <2> QED BY <1>1, <2>2 DEF Reading!ToSet, Reading!IsInjective
<1>8. Reading!ToSet(s) \ {s[i]} \subseteq Reading!ToSet(t)
  <2> SUFFICES ASSUME NEW m \in 1..Len(s), m # i PROVE \E k \in DOMAIN t : t[k] = s[m]
    BY <1>1 DEF Reading!ToSet
  <2>1. DOMAIN t = 1..(Len(s) - 1)
    BY <1>1, <1>5
  <2>2. CASE m < i
    BY <1>1, <1>5, <2>1, <2>2
  <2>3. CASE m > i
    <3>1. m - 1 \in 1..(Len(s) - 1) /\ ~(m - 1 < i) /\ (m - 1) + 1 = m
      BY <1>1, <2>3
    <3> QED BY <1>5, <2>1, <3>1
  <2> QED BY <1>1, <2>2, <2>3
<1> QED BY <1>5, <1>6, <1>7, <1>8

\* A new row comes first.
LEMMA RowArrives ==
    ASSUME NEW s \in Seq(Rows), Reading!IsInjective(s), NEW r \in Rows,
           r \notin Reading!ToSet(s), NEW t, t = <<r>> \o s
    PROVE  /\ t \in Seq(Rows) /\ Reading!IsInjective(t)
           /\ Reading!ToSet(t) = Reading!ToSet(s) \cup {r}
<1>1. Len(s) \in Nat /\ DOMAIN s = 1..Len(s)
  OBVIOUS
<1>2. /\ t \in Seq(Rows) /\ Len(t) = Len(s) + 1 /\ t[1] = r
      /\ \A k \in 1..Len(s) : t[k + 1] = s[k]
  BY <1>1
<1>3. DOMAIN t = 1..(Len(s) + 1)
  BY <1>2
<1>4. \A k \in 1..(Len(s) + 1) : k = 1 \/ (k - 1 \in 1..Len(s) /\ t[k] = s[k - 1])
  <2> SUFFICES ASSUME NEW k \in 1..(Len(s) + 1), k # 1
               PROVE  k - 1 \in 1..Len(s) /\ t[k] = s[k - 1]
    OBVIOUS
  <2>1. k - 1 \in 1..Len(s) /\ (k - 1) + 1 = k
    BY <1>1
  <2> QED BY <1>2, <2>1
<1>5. Reading!IsInjective(t)
  BY <1>1, <1>2, <1>3, <1>4 DEF Reading!IsInjective, Reading!ToSet
<1>6. Reading!ToSet(t) \subseteq Reading!ToSet(s) \cup {r}
  BY <1>1, <1>2, <1>3, <1>4 DEF Reading!ToSet
<1>7. Reading!ToSet(s) \cup {r} \subseteq Reading!ToSet(t)
  <2>1. 1 \in DOMAIN t /\ \A k \in 1..Len(s) : k + 1 \in DOMAIN t
    BY <1>1, <1>3
  <2>2. \A k \in DOMAIN t : t[k] \in Reading!ToSet(t)
    BY DEF Reading!ToSet
  <2>3. \A k \in DOMAIN s : s[k] \in Reading!ToSet(t)
    BY <1>1, <1>2, <2>1, <2>2
  <2>4. r \in Reading!ToSet(t)
    BY <1>2, <2>1, <2>2
  <2> QED BY <2>3, <2>4 DEF Reading!ToSet
<1> QED BY <1>2, <1>5, <1>6, <1>7

LEMMA ReadInit ==
    ASSUME Reading!Init, Reading!ReadingAssumption
    PROVE  ReadInv
<1>1. source \in Seq(Rows) /\ Reading!IsInjective(source)
  <2>1. PICK m \in 0..MaxRows : source \in [1..m -> Rows] /\ Reading!IsInjective(source)
    BY DEF Reading!Init, Reading!InitialSources, Reading!SeqOf
  <2>2. m \in Nat
    BY <2>1 DEF Reading!ReadingAssumption
  <2> QED BY <2>1, <2>2
<1>2. /\ got = << >> /\ totals = << >> /\ moves = {} /\ verdict = "reading"
      /\ steady = Reading!ToSet(source)
  BY DEF Reading!Init
<1>3. Reading!ToSet(got) = {} /\ Len(totals) = 0
  BY <1>2 DEF Reading!ToSet
<1> QED BY <1>1, <1>2, <1>3 DEF ReadInv, ReadTypes, SizesTell, Reading!WholeListsAll

\* A page holds rows of the collection.
LEMMA PageOfSource ==
    ASSUME ReadInv, Reading!ReadingAssumption
    PROVE  /\ Reading!All \in Seq(Rows)
           /\ Reading!ToSet(Reading!All) \subseteq Reading!ToSet(got) \cup Reading!ToSet(source)
<1> DEFINE first == (Reading!Page - 1) * PageSize + 1
           last == IF Reading!Page * PageSize < Len(source) THEN Reading!Page * PageSize
                   ELSE Len(source)
           rows == Reading!PageRows(Reading!Page)
<1>1. source \in Seq(Rows) /\ got \in Seq(Rows) /\ Len(totals) \in Nat
  BY DEF ReadInv, ReadTypes
<1>2. Reading!Page - 1 \in Nat /\ PageSize \in Nat /\ Reading!Page \in Nat
  BY <1>1 DEF Reading!Page, Reading!Read, Reading!ReadingAssumption
<1>3. (Reading!Page - 1) * PageSize \in Nat /\ Reading!Page * PageSize \in Nat
  BY <1>2
<1>4. first \in Int /\ last \in Int /\ first >= 1 /\ last <= Len(source)
  BY <1>1, <1>3
<1>5. rows = SubSeq(source, first, last)
  BY DEF Reading!PageRows
<1> HIDE DEF first, last, rows
<1>6. \A i \in first..last : i \in DOMAIN source /\ source[i] \in Rows
  BY <1>1, <1>4
<1>7. /\ rows \in Seq(Rows)
      /\ Len(rows) = IF first <= last THEN last - first + 1 ELSE 0
      /\ \A i \in 1..(last - first + 1) : rows[i] = source[first + i - 1]
  BY <1>4, <1>5, <1>6, SubSeqProperties
<1>8. \A i \in 1..Len(rows) : rows[i] \in Reading!ToSet(source)
  <2> SUFFICES ASSUME NEW i \in 1..Len(rows) PROVE rows[i] \in Reading!ToSet(source)
    OBVIOUS
  <2>1. i \in 1..(last - first + 1) /\ first + i - 1 \in first..last
    BY <1>4, <1>7
  <2> QED BY <1>6, <1>7, <2>1 DEF Reading!ToSet
<1>9. Reading!All = got \o rows
  BY DEF Reading!All, rows
<1>10. /\ Reading!All \in Seq(Rows)
       /\ Len(Reading!All) = Len(got) + Len(rows)
       /\ \A i \in 1..(Len(got) + Len(rows)) :
             Reading!All[i] = IF i <= Len(got) THEN got[i] ELSE rows[i - Len(got)]
  BY ONLY <1>1, <1>7, <1>9, ConcatProperties
<1>11. ASSUME NEW i \in DOMAIN Reading!All
       PROVE  Reading!All[i] \in Reading!ToSet(got) \cup Reading!ToSet(source)
  <2>1. i \in 1..(Len(got) + Len(rows)) /\ Len(got) \in Nat /\ Len(rows) \in Nat
    BY <1>1, <1>7, <1>10
  <2>2. CASE i <= Len(got)
    <3>1. i \in DOMAIN got
      BY <1>1, <2>1, <2>2
    <3> QED BY <1>10, <2>1, <2>2, <3>1 DEF Reading!ToSet
  <2>3. CASE ~(i <= Len(got))
    <3>1. i - Len(got) \in 1..Len(rows)
      BY <2>1, <2>3
    <3> QED BY <1>8, <1>10, <2>1, <2>3, <3>1
  <2> QED BY <2>2, <2>3
<1> QED BY <1>10, <1>11 DEF Reading!ToSet

\* The reader takes a page, and does not call a list whole that repeats rows
\* or whose size changed.
LEMMA TakeKeeps ==
    ASSUME ReadInv, Reading!ReadingAssumption, NEW v, Reading!Take(v),
           v = "whole" /\ reader \in {"history", "rooms"} =>
              /\ Reading!IsInjective(Reading!All) /\ Len(Reading!All) = Len(source)
              /\ Len(totals) > 0 => totals[1] = Len(source)
    PROVE  ReadInv'
<1>1. /\ source \in Seq(Rows) /\ Reading!IsInjective(source)
      /\ totals \in Seq(Nat) /\ Len(totals) \in Nat /\ Len(source) \in Nat
  BY DEF ReadInv, ReadTypes
<1>2. /\ got' = Reading!All /\ totals' = Append(totals, Len(source)) /\ verdict' = v
      /\ UNCHANGED <<reader, source, steady, moves>>
  BY DEF Reading!Take, Reading!All
<1>3. /\ Reading!All \in Seq(Rows)
      /\ Reading!ToSet(Reading!All) \subseteq Reading!ToSet(got) \cup Reading!ToSet(source)
  BY PageOfSource
<1>4. /\ totals' \in Seq(Nat) /\ Len(totals') = Len(totals) + 1 /\ Len(totals') > 0
      /\ totals'[1] = IF Len(totals) > 0 THEN totals[1] ELSE Len(source)
  BY <1>1, <1>2
<1>5. Reading!IsInjective(source)' /\ Reading!ToSet(source)' = Reading!ToSet(source)
      /\ Reading!ToSet(got)' = Reading!ToSet(Reading!All)
  BY <1>1, <1>2 DEF Reading!ToSet, Reading!IsInjective
<1>6. SizesTell'
  <2>1. ASSUME "left" \notin moves PROVE Reading!ToSet(Reading!All) \subseteq Reading!ToSet(source)
    BY <1>3, <2>1 DEF ReadInv, SizesTell
  <2>2. ASSUME "arrived" \notin moves
        PROVE  Len(source) <= totals'[1] /\ (Len(source) = totals'[1] => moves = {})
    <3>1. CASE Len(totals) > 0
      BY <1>4, <2>2, <3>1 DEF ReadInv, SizesTell
    <3>2. CASE ~(Len(totals) > 0)
      <4>1. moves = {} /\ totals'[1] = Len(source)
        BY <1>1, <1>4, <3>2 DEF ReadInv
      <4> QED BY <1>1, <4>1
    <3> QED BY <3>1, <3>2
  <2> QED BY <1>2, <1>5, <2>1, <2>2 DEF SizesTell
<1>7. ASSUME v = "whole", reader \in {"history", "rooms"}, moves # {"arrived", "left"}
      PROVE  steady \subseteq Reading!ToSet(Reading!All)
  <2>1. /\ Reading!IsInjective(Reading!All) /\ Len(Reading!All) = Len(source)
        /\ Len(totals) > 0 => totals[1] = Len(source)
    BY <1>7
  <2>2. "left" \notin moves
    <3> SUFFICES ASSUME "left" \in moves PROVE FALSE
      OBVIOUS
    <3>1. "arrived" \notin moves /\ moves # {}
      BY <1>7 DEF ReadInv, ReadTypes
    <3>2. Len(totals) > 0
      BY <1>1, <3>1 DEF ReadInv
    <3> QED BY <2>1, <3>1, <3>2 DEF ReadInv, SizesTell
  <2>3. Reading!ToSet(Reading!All) \subseteq Reading!ToSet(source)
    BY <1>3, <2>2 DEF ReadInv, SizesTell
  <2>4. /\ IsFiniteSet(Reading!ToSet(source))
        /\ Cardinality(Reading!ToSet(Reading!All)) = Cardinality(Reading!ToSet(source))
    BY <1>1, <1>3, <2>1, DistinctCount
  <2>5. Reading!ToSet(source) = Reading!ToSet(Reading!All)
    BY <2>3, <2>4, FS_Subset
  <2> QED BY <2>5 DEF ReadInv
<1>8. Reading!WholeListsAll'
  BY <1>2, <1>5, <1>7 DEF Reading!WholeListsAll
<1> QED BY <1>1, <1>2, <1>3, <1>4, <1>5, <1>6, <1>8 DEF ReadInv, ReadTypes

LEMMA ReadsKeep ==
    ASSUME ReadInv, Reading!ReadingAssumption,
           \/ Reading!ReadHistory \/ Reading!ReadRooms
           \/ Reading!ReadAnalysis \/ Reading!FindAlarm
    PROVE  ReadInv'
<1>1. CASE Reading!ReadHistory
  <2>1. Reading!HistoryVerdict = "whole" =>
          /\ Reading!IsInjective(Reading!All) /\ Len(Reading!All) = Len(source)
          /\ Len(totals) > 0 => totals[1] = Len(source)
    BY DEF Reading!HistoryVerdict, Reading!HistorySound, Reading!Read
  <2> QED BY <1>1, <2>1, TakeKeeps DEF Reading!ReadHistory
<1>2. CASE Reading!ReadRooms
  <2>1. Len(totals) > 0 => 1 \in DOMAIN totals
    BY DEF ReadInv, ReadTypes
  <2>2. Reading!RoomsVerdict = "whole" =>
          /\ Reading!IsInjective(Reading!All) /\ Len(Reading!All) = Len(source)
          /\ Len(totals) > 0 => totals[1] = Len(source)
    BY <2>1 DEF Reading!RoomsVerdict, Reading!RoomsWhole
  <2> QED BY <1>2, <2>2, TakeKeeps DEF Reading!ReadRooms
<1>3. CASE Reading!ReadAnalysis \/ Reading!FindAlarm
  <2>1. reader \notin {"history", "rooms"}
    BY <1>3 DEF Reading!ReadAnalysis, Reading!FindAlarm
  <2>2. \E v : Reading!Take(v)
    BY <1>3 DEF Reading!ReadAnalysis, Reading!FindAlarm
  <2> QED BY <2>1, <2>2, TakeKeeps
<1> QED BY <1>1, <1>2, <1>3

LEMMA ArriveKeeps ==
    ASSUME ReadInv, NEW r \in Rows, Reading!Arrive(r)
    PROVE  ReadInv'
<1>1. source \in Seq(Rows) /\ Reading!IsInjective(source) /\ Len(totals) \in Nat
  BY DEF ReadInv, ReadTypes
<1>2. /\ r \notin Reading!ToSet(source) /\ source' = <<r>> \o source
      /\ moves' = IF Len(totals) = 0 THEN moves ELSE moves \cup {"arrived"}
      /\ steady' = IF Len(totals) = 0 THEN steady \cup {r} ELSE steady
      /\ UNCHANGED <<reader, got, totals, verdict>>
  BY DEF Reading!Arrive, Reading!Read
<1>3. /\ source' \in Seq(Rows) /\ Reading!IsInjective(source')
      /\ Reading!ToSet(source') = Reading!ToSet(source) \cup {r}
  BY <1>1, <1>2, RowArrives
<1>4. ReadTypes'
  BY <1>2, <1>3 DEF ReadInv, ReadTypes
<1>5. Reading!ToSet(got') = Reading!ToSet(got)
  BY <1>2
<1>6. SizesTell'
  <2>1. "left" \notin moves' => Reading!ToSet(got') \subseteq Reading!ToSet(source')
    BY <1>2, <1>3, <1>5 DEF ReadInv, SizesTell
  <2>2. ~(Len(totals') > 0 /\ "arrived" \notin moves')
    BY <1>1, <1>2
  <2> QED BY <2>1, <2>2 DEF SizesTell
<1>7. Reading!WholeListsAll'
  <2> SUFFICES ASSUME verdict = "whole", reader \in {"history", "rooms"},
                      moves' # {"arrived", "left"}
               PROVE  steady' \subseteq Reading!ToSet(got')
    BY <1>2 DEF Reading!WholeListsAll
  <2>1. Len(totals) > 0
    BY DEF ReadInv
  <2>2. moves # {"arrived", "left"} /\ steady' = steady
    BY <1>1, <1>2, <2>1
  <2> QED BY <1>5, <2>2 DEF ReadInv, Reading!WholeListsAll
<1> QED BY <1>1, <1>2, <1>3, <1>4, <1>6, <1>7 DEF ReadInv

LEMMA LeaveKeeps ==
    ASSUME ReadInv, NEW r \in Rows, Reading!Leave(r)
    PROVE  ReadInv'
<1>1. source \in Seq(Rows) /\ Reading!IsInjective(source) /\ Len(totals) \in Nat
      /\ Len(source) \in Nat /\ totals \in Seq(Nat)
  BY DEF ReadInv, ReadTypes
<1>2. /\ moves' = IF Len(totals) = 0 THEN moves ELSE moves \cup {"left"}
      /\ steady' = steady \ {r}
      /\ UNCHANGED <<reader, got, totals, verdict>>
  BY DEF Reading!Leave, Reading!Read
<1>3. PICK i \in DOMAIN source : source[i] = r /\ source' = Reading!RemoveAt(source, i)
  BY DEF Reading!Leave
<1>4. /\ source' \in Seq(Rows) /\ Reading!IsInjective(source')
      /\ Len(source') = Len(source) - 1
      /\ Reading!ToSet(source') = Reading!ToSet(source) \ {r}
  BY <1>1, <1>3, RowLeaves
<1>5. ReadTypes'
  BY <1>2, <1>4 DEF ReadInv, ReadTypes
<1>6. Reading!ToSet(got') = Reading!ToSet(got)
  BY <1>2
<1>7. SizesTell'
  <2>1. ASSUME "left" \notin moves' PROVE Reading!ToSet(got') \subseteq Reading!ToSet(source')
    <3>1. got = << >>
      BY <1>1, <1>2, <2>1 DEF ReadInv
    <3> QED BY <1>6, <3>1 DEF Reading!ToSet
  <2>2. ASSUME Len(totals) > 0, "arrived" \notin moves'
        PROVE  Len(source') <= totals[1] /\ Len(source') # totals[1]
    <3>1. Len(source) <= totals[1] /\ totals[1] \in Nat
      BY <1>1, <1>2, <2>2 DEF ReadInv, SizesTell
    <3> QED BY <1>1, <1>4, <3>1
  <2> QED BY <1>2, <2>1, <2>2 DEF SizesTell
<1>8. Reading!WholeListsAll'
  <2> SUFFICES ASSUME verdict = "whole", reader \in {"history", "rooms"},
                      moves' # {"arrived", "left"}
               PROVE  steady' \subseteq Reading!ToSet(got')
    BY <1>2 DEF Reading!WholeListsAll
  <2>1. moves # {"arrived", "left"}
    BY <1>2
  <2> QED BY <1>2, <1>6, <2>1 DEF ReadInv, Reading!WholeListsAll
<1>9. steady' \subseteq Reading!ToSet(source')
  BY <1>2, <1>4 DEF ReadInv
<1>10. Len(totals') = 0 => moves' = {} /\ got' = << >>
  BY <1>2 DEF ReadInv
<1> QED BY <1>2, <1>5, <1>7, <1>8, <1>9, <1>10 DEF ReadInv

LEMMA ReadInvariant ==
    ASSUME Reading!ReadingAssumption
    PROVE  Reading!Spec => []ReadInv
<1>1. Reading!Init => ReadInv
  BY ReadInit
<1>2. ReadInv /\ [Reading!Next]_(Reading!vars) => ReadInv'
  <2> SUFFICES ASSUME ReadInv, [Reading!Next]_(Reading!vars) PROVE ReadInv'
    OBVIOUS
  <2>1. CASE UNCHANGED Reading!vars \/ Reading!PageFails
    <3>1. /\ UNCHANGED <<source, steady, moves, got, totals, reader>>
          /\ verdict' = "whole" => verdict = "whole"
      BY <2>1 DEF Reading!vars, Reading!PageFails
    <3>2. Reading!ToSet(got)' = Reading!ToSet(got) /\ Reading!ToSet(source)' = Reading!ToSet(source)
      BY <3>1
    <3>3. ReadTypes' /\ SizesTell' /\ Reading!WholeListsAll'
      BY <3>1, <3>2 DEF ReadInv, ReadTypes, SizesTell, Reading!WholeListsAll
    <3> QED BY <3>1, <3>2, <3>3 DEF ReadInv
  <2>2. CASE \E r \in Rows : Reading!Arrive(r) \/ Reading!Leave(r)
    BY <2>2, ArriveKeeps, LeaveKeeps
  <2> QED BY <2>1, <2>2, ReadsKeep DEF Reading!Next
<1> QED BY <1>1, <1>2, PTL DEF Reading!Spec

\* Whatever part runs, the variables of PagedRead behave as it says.
LEMMA ReadingRuns == Spec => Reading!Spec
<1>1. Init => Reading!Init
  BY DEF Init
<1>2. [Next]_vars => [Reading!Next]_(Reading!vars)
  BY DEF Next, vars, submissionVars, actionVars, readingVars, renewalVars, pageVars, Reading!vars
<1> QED BY <1>1, <1>2, PTL DEF Spec, Reading!Spec

\* A list of the history or of the room applications that claims to be whole
\* has every row that was there all the time (read_filtered_history and
\* query_my_meeting_room_applications), for collections and pages of any size
\* and any number of arrivals or departures between the pages; only an exchange
\* of rows, which leaves the total as it was, may hide one.
THEOREM WholeListsLackNothing == Spec => []WholeListsAll
<1>1. Reading!ReadingAssumption
  BY ConstantsFit DEF ConstantsFit
<1>2. ReadInv => WholeListsAll
  BY DEF ReadInv, WholeListsAll
<1>3. Reading!Spec => []ReadInv
  BY <1>1, ReadInvariant
<1> QED BY <1>2, <1>3, ReadingRuns, PTL
=============================================================================
