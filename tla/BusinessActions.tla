--------------------------- MODULE BusinessActions ---------------------------
(***************************************************************************)
(* The writes on one existing or new record of a business system, as the   *)
(* adapters commit them: approvals of a pending workflow, the revocation   *)
(* of a sent one, saved drafts, meeting-room applications and their        *)
(* cancellation, meetings, and the remark and the handling of a street     *)
(* lighting alarm.  All follow one course: prepare freezes the target the  *)
(* user will see on the card, commit reads it again and compares, consumes *)
(* the authorization (the commit boundary), sends, and reads back.         *)
(*                                                                         *)
(* The record lives in a system other people use: they edit it, do the     *)
(* same thing by hand or undo it, at any moment; where the write creates a *)
(* record, they create one that looks the same.  A request that was sent   *)
(* may be applied at once, late, or never, whatever was answered.          *)
(***************************************************************************)
EXTENDS Naturals

CONSTANTS
    Kinds,      \* the writes of this instance
    MaxEdits    \* how often other people change the record

VARIABLES
    kind,       \* the write that is being made
    long,       \* the list of pending workflows exceeds one readback
    rec,        \* the record: content, effect in place, our writes applied, and whether
                \* somebody else's new record has the room, the time and the subject
    plan,       \* the frozen content the user authorized, 0 before prepare
    wire,       \* the request: "none", "flying" or "gone"
    pc          \* where the adapter is

vars == <<kind, long, rec, plan, wire, pc>>

Approvals == {"approve", "approveCovered", "punch"}
Drafts == {"leaveDraft", "tripDraft", "punchDraft"}
ByPage == Approvals \cup Drafts \cup {"revoke"}
ByRequest == {"apply", "cancel", "meeting", "remark", "alarm"}
Creates == Drafts \cup {"apply", "meeting"}

Outcomes == {"succeeded", "already", "mismatch", "rejected", "unknown"}

Init ==
    /\ kind \in Kinds
    /\ long \in BOOLEAN
    /\ rec = [content |-> 1, done |-> FALSE, ours |-> 0, theirs |-> FALSE]
    /\ plan = 0
    /\ wire = "none"
    /\ pc = "idle"

-----------------------------------------------------------------------------
(* The business system and the people who use it.                          *)

\* The request takes effect, also long after the adapter gave up.  A second
\* approval, cancellation or revocation of the same record has no effect.
Apply ==
    /\ wire = "flying"
    /\ wire' = "gone"
    /\ IF ~rec.done \/ kind \in Creates \cup {"remark"}
       THEN rec' = [rec EXCEPT !.done = TRUE, !.ours = @ + 1]
       ELSE UNCHANGED rec
    /\ UNCHANGED <<kind, long, plan, pc>>

Drop ==
    /\ wire = "flying"
    /\ wire' = "gone"
    /\ UNCHANGED <<kind, long, rec, plan, pc>>

\* Somebody changes the record: its form, its room, its remark.  A remark
\* that is written over no longer has the text of the plan.
OthersEdit ==
    /\ rec.content < MaxEdits + 1
    /\ rec' = [rec EXCEPT !.content = @ + 1,
                          !.done = @ /\ kind # "remark"]
    /\ UNCHANGED <<kind, long, plan, wire, pc>>

\* Somebody does the same by hand: handles the workflow, cancels the room,
\* submits the alarm; applies for the same room and time, sends an invitation
\* to the same meeting.  A draft is found by the page that saved it: nobody
\* else's can be taken for it.
OthersDo ==
    /\ \/ kind \notin Creates /\ ~rec.done /\ rec' = [rec EXCEPT !.done = TRUE]
       \/ kind \in {"apply", "meeting"} /\ rec' = [rec EXCEPT !.theirs = TRUE]
    /\ UNCHANGED <<kind, long, plan, wire, pc>>

\* A revoked workflow is sent again, an alarm is withdrawn from its work area.
OthersUndo ==
    /\ kind \in {"revoke", "alarm"}
    /\ rec.done
    /\ rec.content < MaxEdits + 1
    /\ rec' = [rec EXCEPT !.done = FALSE, !.content = @ + 1]
    /\ UNCHANGED <<kind, long, plan, wire, pc>>

-----------------------------------------------------------------------------
(* The adapter.                                                            *)

Step(from, to) ==
    /\ pc = from
    /\ pc' = to
    /\ UNCHANGED <<kind, long, rec, plan, wire>>

\* What a kind freezes.  The revocation freezes identities alone, which no
\* edit changes; everything else has the fields the reviewer sees.
Frozen == IF kind = "revoke" THEN 1 ELSE rec.content

\* prepare resolves the target and refuses one that is not open, as a room
\* that is taken.
Open == ~rec.done /\ ~rec.theirs

Prepare ==
    /\ pc = "idle"
    /\ Open
    /\ plan' = Frozen
    /\ pc' = "prepared"
    /\ UNCHANGED <<kind, long, rec, wire>>

PrepareApproval == kind \in {"approve", "approveCovered"} /\ Prepare
PreparePunch == kind = "punch" /\ Prepare
PrepareRevoke == kind = "revoke" /\ Prepare
PrepareLeaveDraft == kind = "leaveDraft" /\ Prepare
PrepareTripDraft == kind = "tripDraft" /\ Prepare
PreparePunchDraft == kind = "punchDraft" /\ Prepare
PrepareApplication == kind = "apply" /\ Prepare
PrepareCancel == kind = "cancel" /\ Prepare
PrepareMeeting == kind = "meeting" /\ Prepare
PrepareRemark == kind = "remark" /\ Prepare
PrepareAlarm == kind = "alarm" /\ Prepare

\* commit reads the target again and compares it with the frozen plan.
TargetMatches == Open /\ Frozen = plan

\* The boundary: the authorization is consumed.
Boundary(to) ==
    /\ pc = "prepared"
    /\ pc' = to
    /\ UNCHANGED <<kind, long, rec, plan, wire>>

Check == TargetMatches /\ Boundary("boundary")

CheckApproval == kind \in {"approve", "approveCovered"} /\ Check
CheckPunch == kind = "punch" /\ Check
CheckRevoke == kind = "revoke" /\ Check
CheckLeaveDraft == kind = "leaveDraft" /\ Check
CheckTripDraft == kind = "tripDraft" /\ Check
CheckPunchDraft == kind = "punchDraft" /\ Check
CheckApplication == kind = "apply" /\ Check
CheckCancel == kind = "cancel" /\ Check
CheckMeeting == kind = "meeting" /\ Check
CheckRemark == kind = "remark" /\ Check

\* An alarm that somebody has brought to the wanted state meanwhile counts as
\* done: the authorization is consumed and nothing is sent.
CheckAlarm == kind = "alarm" /\ (Check \/ (rec.done /\ Boundary("already")))

\* Anything else ends before the boundary.
CheckFails ==
    /\ kind # "alarm" \/ ~rec.done
    /\ ~TargetMatches
    /\ Step("prepared", "mismatch")

Send(from, to) ==
    /\ pc = from
    /\ wire' = "flying"
    /\ pc' = to
    /\ UNCHANGED <<kind, long, rec, plan>>

\* A click or a scheduled script: nothing is answered.  The script may fail
\* to start, before or after it has sent.
Click ==
    \/ Send("boundary", "reading")
    \/ Send("boundary", "unknown")
    \/ Step("boundary", "unknown")

ClickApproval == kind \in {"approve", "approveCovered"} /\ Click
ClickPunch == kind = "punch" /\ Click
ClickRevoke == kind = "revoke" /\ Click
SaveDraft == kind \in Drafts /\ Click

PostRequest ==
    /\ kind \in ByRequest
    /\ Send("boundary", "posted")

\* The system refuses the request and does not apply it.  For the remark and
\* the alarm that is a rejection, for a cancelled room the readback decides.
Answered(to) ==
    /\ pc = "posted"
    /\ wire = "flying"
    /\ wire' = "gone"
    /\ pc' = to
    /\ UNCHANGED <<kind, long, rec, plan>>

RefusedAs(k) ==
    CASE k = "cancel" -> "reading"
      [] k \in {"remark", "alarm"} -> "rejected"
      [] OTHER -> "unknown"

PostRefused == kind \in ByRequest /\ Answered(RefusedAs(kind))

\* The access token has lapsed (401): the request was not applied.  Only the
\* remark is sent again, once, after the session was probed.
PostUnauthorized ==
    /\ kind \in {"remark", "alarm"}
    /\ Answered(IF kind = "remark" THEN "renewed" ELSE "unknown")

PostAgain == Send("renewed", "reposted")

\* The second answer of the remark ends like the first, but is not repeated.
RepostAnswered ==
    /\ pc = "reposted"
    /\ \/ wire = "gone" /\ pc' = "reading" /\ UNCHANGED wire
       \/ wire = "flying" /\ wire' = "gone" /\ pc' \in {"rejected", "unknown"}
       \/ pc' = "unknown" /\ UNCHANGED wire
    /\ UNCHANGED <<kind, long, rec, plan>>

\* A success is answered once the request was applied.
PostAccepted ==
    /\ wire = "gone"
    /\ Step("posted", "reading")

\* A mutant: a request without an answer counts as refused.
NoAnswerRejected(k) == IF k = "cancel" THEN "reading" ELSE "rejected"

\* A mutant: a request without an answer is sent again.
NoAnswerRepeated(k) == "renewed"

\* No answer: a timeout, a broken connection, an answer that cannot be read.
NoAnswerAs(k) == IF k = "cancel" THEN "reading" ELSE "unknown"

PostUnanswered == Step("posted", NoAnswerAs(kind))

-----------------------------------------------------------------------------
(* The readback.                                                           *)

\* Whether one reading of the pending list can lack a workflow that is there.
\* The two covered profiles demand a complete list, the others take the first
\* hundred rows as they come.
MayMiss == long /\ kind \in {"approve", "punch"}

Absent == rec.done \/ MayMiss

ReadPending ==
    /\ kind = "approve" \/ (kind = "approveCovered" /\ ~long)
    /\ Absent
    /\ Step("reading", "succeeded")

ReadPunch ==
    /\ kind = "punch"
    /\ Absent
    /\ Step("reading", "succeeded")

ReadPendingIncomplete ==
    /\ kind = "approveCovered"
    /\ long
    /\ Step("reading", "unknown")

\* The workflow has left the sent list and waits, revoked, to be sent again;
\* the two lists are read one after the other.
ReadRevokedSent ==
    /\ kind = "revoke"
    /\ rec.done
    /\ Step("reading", "absent")

ReadRevokedWaiting ==
    /\ kind = "revoke"
    /\ Step("absent", IF rec.done THEN "succeeded" ELSE "reading")

\* The page that saved the draft has loaded it again under its new identity.
ReadDraft ==
    /\ kind \in Drafts
    /\ rec.ours > 0
    /\ Step("reading", "succeeded")

\* Exactly one application for the room and the time that is not in the
\* baseline of the plan, whoever made it.
ReadApplication ==
    /\ kind = "apply"
    /\ rec.ours + (IF rec.theirs THEN 1 ELSE 0) = 1
    /\ Step("reading", "succeeded")

\* The first entry of the room's list at that time that names the subject,
\* whoever made it; the meeting behind it must be readable.
ReadMeeting ==
    /\ kind = "meeting"
    /\ rec.ours > 0 \/ rec.theirs
    /\ Step("reading", "succeeded")

\* Absent from the complete list of applications, terminal there, or gone
\* from the room's calendar.
ReadCancellation ==
    /\ kind = "cancel"
    /\ rec.done
    /\ Step("reading", "succeeded")

Matches == rec.done

ReadRemark == kind = "remark" /\ Matches /\ Step("reading", "succeeded")

ReadAlarm == kind = "alarm" /\ Matches /\ Step("reading", "succeeded")

\* The deadline passes, the attempts are used up, the reading fails, or the
\* one reading of an alarm does not match.
ReadGivesUp == pc \in {"reading", "absent"} /\ Step(pc, "unknown")

Next ==
    \/ Apply \/ Drop \/ OthersEdit \/ OthersDo \/ OthersUndo
    \/ PrepareApproval \/ PreparePunch \/ PrepareRevoke
    \/ PrepareLeaveDraft \/ PrepareTripDraft \/ PreparePunchDraft
    \/ PrepareApplication \/ PrepareCancel \/ PrepareMeeting
    \/ PrepareRemark \/ PrepareAlarm
    \/ CheckApproval \/ CheckPunch \/ CheckRevoke
    \/ CheckLeaveDraft \/ CheckTripDraft \/ CheckPunchDraft
    \/ CheckApplication \/ CheckCancel \/ CheckMeeting
    \/ CheckRemark \/ CheckAlarm \/ CheckFails
    \/ ClickApproval \/ ClickPunch \/ ClickRevoke \/ SaveDraft
    \/ PostRequest \/ PostAccepted \/ PostRefused
    \/ PostUnauthorized \/ PostAgain \/ RepostAnswered \/ PostUnanswered
    \/ ReadPending \/ ReadPendingIncomplete \/ ReadPunch
    \/ ReadRevokedSent \/ ReadRevokedWaiting
    \/ ReadDraft \/ ReadApplication \/ ReadMeeting \/ ReadCancellation
    \/ ReadRemark \/ ReadAlarm
    \/ ReadGivesUp

Spec == Init /\ [][Next]_vars

-----------------------------------------------------------------------------
TypeOK ==
    /\ kind \in Kinds
    /\ long \in BOOLEAN
    /\ rec \in [content : 1..MaxEdits + 1, done : BOOLEAN, ours : 0..2, theirs : BOOLEAN]
    /\ plan \in 0..MaxEdits + 1
    /\ wire \in {"none", "flying", "gone"}
    /\ pc \in {"idle", "prepared", "boundary", "posted", "renewed", "reposted",
               "reading", "absent"} \cup Outcomes

\* An adapter that reports a rejection or a changed target has written
\* nothing, and nothing it sent can still take effect, however late: an answer
\* that did not come, or could not be read, is never reported as a refusal,
\* and a refusal of the second sending speaks for the first one too.
RejectedNeverWrites ==
    pc \in {"mismatch", "rejected"} => rec.ours = 0 /\ wire # "flying"

\* However the answers are lost and whatever is repeated, the record is
\* written at most once for one authorization.
WrittenOnce == rec.ours <= 1

\* An application or a meeting that is reported as made was made by this
\* request.  Does not hold (README, section 6): a request that was accepted and
\* came to nothing is taken for done when somebody else's record matches.
SuccessIsOwn == pc = "succeeded" /\ kind \in Creates => rec.ours > 0
=============================================================================
