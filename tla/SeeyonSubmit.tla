---------------------------- MODULE SeeyonSubmit ----------------------------
(***************************************************************************)
(* A form sent through the page of the Seeyon OA: the submission itself    *)
(* (seeyon_leave_submit.py, seeyon_business_trip_submit.py), the observers *)
(* of the page's responses, dialogs and prompts (seeyon_submit_phases.py), *)
(* the read-back of the sent collection (seeyon_sent_readback.py), and the *)
(* executor that asks the user about a warning and tries again with the    *)
(* same plan and the warning's fingerprint (controlled_write_executor.py). *)
(*                                                                         *)
(* The OA page runs by itself between two steps of the adapter; its events *)
(* change the tracker whenever the adapter waits for it: before it reads   *)
(* what is pending, while it waits for the control of a warning, and while *)
(* it clicks.                                                              *)
(***************************************************************************)
EXTENDS Naturals, Sequences, FiniteSets

CONSTANTS
    Forms,          \* of {"leave", "trip"}
    Warnings,       \* fingerprints of prompts that offer to continue
    Blocker,        \* a prompt that does not
    NoPrompt,
    MaxOverrides,   \* chained confirmations: 5 in the executor
    MaxHooked,      \* prompts the hook of the page keeps: 20
    MaxManual       \* forms of the same kind the user sends by hand meanwhile

VARIABLES
    form,       \* which form is submitted
    oa,         \* the OA: the page's progress, its prompt, the hooked prompts, what was
                \* sent; `raised' and `passed' are the prompts of this attempt
    tracker,    \* SubmissionPhaseTracker
    host,       \* the adapter and the executor
    authorized  \* business_validation_overrides of the authorized plan

vars == <<form, oa, tracker, host, authorized>>

\* A prompt that does not offer to continue is not a warning, and no prompt is
\* none.
SubmitAssumption == Blocker \notin Warnings /\ NoPrompt \notin Warnings \cup {Blocker}

Prompts == Warnings \cup {Blocker}
NewTracker == [pending |-> NoPrompt, activated |-> FALSE, continued |-> {}, send |-> FALSE]
NewPage == [at |-> "form", prompt |-> NoPrompt, hooked |-> << >>, raised |-> {}, passed |-> {},
            sent |-> 0, listed |-> 0, manual |-> 0]

Init ==
    /\ form \in Forms
    /\ oa = NewPage
    /\ tracker = NewTracker
    /\ host = [pc |-> "plan", outcome |-> "none", again |-> FALSE]
    /\ authorized = {}

End(o) == host' = [host EXCEPT !.pc = "done", !.outcome = o]
Go(pc) == host' = [host EXCEPT !.pc = pc]

\* prepare_leave_submission / prepare_business_trip_submission freeze the plan
\* and the baseline of the sent collection; a mismatch ends the operation.
Prepare(f) ==
    /\ form = f /\ host.pc = "plan"
    /\ Go("submit") \/ End("mismatch")
    /\ UNCHANGED <<form, oa, tracker, authorized>>
PrepareLeave == Prepare("leave")
PrepareTrip == Prepare("trip")

\* A mutant: the attempt goes on with the tracker of the one before.
OldTracker == tracker

\* Each attempt has a tracker of its own.
AttemptTracker == NewTracker

\* submit_leave_request / submit_business_trip_request: every check again on a
\* fresh page, then the boundary, then the click.
Submit(f) ==
    /\ form = f /\ host.pc = "submit"
    /\ tracker' = AttemptTracker
    /\ \/ /\ host' = [host EXCEPT !.pc = "observe", !.again = FALSE]
          /\ oa' = [oa EXCEPT !.at = "checking", !.prompt = NoPrompt, !.hooked = << >>,
                              !.raised = {}, !.passed = {}]
       \/ End("mismatch") /\ UNCHANGED oa
    /\ UNCHANGED <<form, authorized>>
SubmitLeave == Submit("leave")
SubmitTrip == Submit("trip")

-----------------------------------------------------------------------------
(* The page, at any moment of the adapter's loop.                          *)

Running == host.pc \in {"observe", "handle", "wait", "mark", "grid"}

\* _record_validation: the same fingerprint twice is one validation.
Recorded(v, activated) ==
    IF tracker.pending = v THEN tracker
    ELSE [tracker EXCEPT !.pending = v, !.activated = activated]

\* The hook of the page keeps the last prompts that were opened through it.
Hooked(v) == LET q == Append(oa.hooked, v)
             IN  IF Len(q) > MaxHooked THEN Tail(q) ELSE q

\* A warning waits for an answer, anything else stops the page.  A new prompt
\* takes the place of the one that is shown.
Shows(v) == [oa EXCEPT !.prompt = v, !.raised = @ \cup {v},
                       !.at = IF v \in Warnings THEN "asking" ELSE "stopped"]

\* external: the OA checks the form.  A CAP4 save answers with a validation
\* (observe_response), which replaces whatever is pending and which the page
\* shows.
RaiseCap4(v) ==
    /\ Running /\ oa.at \in {"checking", "asking"}
    /\ oa' = Shows(v)
    /\ tracker' = [tracker EXCEPT !.pending = v, !.activated = FALSE]
    /\ UNCHANGED <<form, host, authorized>>
\* The page opens a prompt, through the hooked functions or, if it offers to
\* continue, past them.
RaisePage(v) ==
    /\ Running /\ oa.at \in {"checking", "asking"}
    /\ \/ oa' = [Shows(v) EXCEPT !.hooked = Hooked(v)]
       \/ v \in Warnings /\ oa' = Shows(v)
    /\ UNCHANGED <<form, tracker, host, authorized>>
\* observe_dialog: a native confirm is answered at once.
AcceptsDialog(v) == v \in authorized
RaiseConfirm(v) ==
    /\ Running /\ oa.at = "checking" /\ v \in Warnings
    /\ oa' = IF AcceptsDialog(v)
             THEN [oa EXCEPT !.raised = @ \cup {v}, !.passed = @ \cup {v}]
             ELSE [oa EXCEPT !.raised = @ \cup {v}, !.at = "stopped"]
    /\ tracker' = Recorded(v, AcceptsDialog(v))
    /\ UNCHANGED <<form, host, authorized>>
\* ... and a native alert is closed: before the send it is a blocker.
RaiseAlert ==
    /\ Running
    /\ \/ oa.at = "checking" /\ oa' = [oa EXCEPT !.at = "stopped"]
       \/ oa.at = "sent" /\ UNCHANGED oa
    /\ tracker' = IF tracker.send THEN tracker ELSE Recorded(Blocker, FALSE)
    /\ UNCHANGED <<form, host, authorized>>
\* external: the page reports through its own $.alert that it has sent.
RaisePageAfterSend ==
    /\ Running /\ oa.at = "sent" /\ oa.prompt = NoPrompt
    /\ oa' = [oa EXCEPT !.prompt = Blocker, !.hooked = Hooked(Blocker)]
    /\ UNCHANGED <<form, tracker, host, authorized>>
\* external: the form goes out, or the page stops without a word.
Send ==
    /\ Running /\ oa.at = "checking"
    /\ oa' = [oa EXCEPT !.at = "sent", !.sent = @ + 1]
    /\ tracker' = [tracker EXCEPT !.send = TRUE]
    /\ UNCHANGED <<form, host, authorized>>
PageFails ==
    /\ Running /\ oa.at \in {"checking", "asking"}
    /\ oa' = [oa EXCEPT !.at = "stopped", !.prompt = NoPrompt]
    /\ UNCHANGED <<form, tracker, host, authorized>>
\* external: the sent form appears in the sent collection, at any time later.
List ==
    /\ oa.listed < oa.sent
    /\ oa' = [oa EXCEPT !.listed = @ + 1]
    /\ UNCHANGED <<form, tracker, host, authorized>>
\* external: the same user sends another form of the kind by hand.
SendByHand ==
    /\ oa.manual < MaxManual
    /\ oa' = [oa EXCEPT !.manual = @ + 1]
    /\ UNCHANGED <<form, tracker, host, authorized>>

-----------------------------------------------------------------------------
(* The adapter.                                                            *)

\* observe_page_confirmation takes the oldest hooked prompt, and only without
\* one looks for a prompt that is shown; a page that cannot be read tells
\* nothing.
ReadHooked ==
    /\ oa.hooked # << >>
    /\ oa' = [oa EXCEPT !.hooked = Tail(@)]
    /\ tracker' = Recorded(Head(oa.hooked), FALSE)
ReadShown ==
    /\ oa.hooked = << >> /\ oa.prompt \in Warnings
    /\ tracker' = Recorded(oa.prompt, FALSE)
    /\ UNCHANGED oa
ObservePage ==
    /\ host.pc = "observe" /\ Go("handle")
    /\ ReadHooked \/ ReadShown \/ UNCHANGED <<oa, tracker>>
    /\ UNCHANGED <<form, authorized>>

\* _handle_business_validation reads what is pending.  It ends the attempt, or
\* lets it go on: the first time of a round to the read-back, the second time
\* to the next round.
Continue == host' = [host EXCEPT !.pc = IF host.again THEN "observe" ELSE "grid", !.again = FALSE]

HandleNothing ==
    /\ tracker.pending = NoPrompt
    /\ Continue
    /\ UNCHANGED tracker
HandleBlocked ==
    /\ tracker.pending = Blocker \/ tracker.pending \in authorized \cap tracker.continued
    /\ End("rejected")
    /\ UNCHANGED tracker
HandleUnauthorized ==
    /\ tracker.pending \in Warnings \ authorized
    /\ End("validation")
    /\ UNCHANGED tracker
MayContinue(v) == v \in authorized \ tracker.continued
\* mark_business_validation_continued marks what is pending now.
Marked == [tracker EXCEPT !.continued = @ \cup ({tracker.pending} \ {NoPrompt}),
                          !.pending = NoPrompt, !.activated = FALSE]
\* The native dialog has been answered when it came.
HandleActivated ==
    /\ MayContinue(tracker.pending) /\ tracker.activated
    /\ tracker' = Marked
    /\ Continue
\* Otherwise the adapter waits for the control of the warning.
HandleAuthorized ==
    /\ MayContinue(tracker.pending) /\ ~tracker.activated
    /\ Go("wait")
    /\ UNCHANGED tracker
HandleValidation(f) ==
    /\ form = f /\ host.pc = "handle"
    /\ \/ HandleNothing \/ HandleBlocked \/ HandleUnauthorized
       \/ HandleActivated \/ HandleAuthorized
    /\ UNCHANGED <<form, oa, authorized>>
HandleLeave == HandleValidation("leave")
HandleTrip == HandleValidation("trip")

\* The control is looked up by its id or its text: the click reaches whatever
\* prompt shows one, and closes one that does not continue.
ClickContinue ==
    /\ host.pc = "wait" /\ oa.prompt # NoPrompt
    /\ oa' = IF oa.prompt \in Warnings
             THEN [oa EXCEPT !.at = "checking", !.prompt = NoPrompt,
                             !.passed = @ \cup {oa.prompt}]
             ELSE [oa EXCEPT !.prompt = NoPrompt]
    /\ Go("mark")
    /\ UNCHANGED <<form, tracker, authorized>>
\* The click returns, and what is pending by then counts as continued.
MarkContinued ==
    /\ host.pc = "mark"
    /\ tracker' = Marked
    /\ Continue
    /\ UNCHANGED <<form, oa, authorized>>
\* The control does not load, is not unique or cannot be clicked.
ControlFails ==
    /\ host.pc \in {"wait", "mark"}
    /\ End("unknown")
    /\ UNCHANGED <<form, oa, tracker, authorized>>

\* new_sent_candidates beyond the baseline of the plan; the detail must match.
Candidates == oa.listed + oa.manual
Proven == Candidates = 1
\* None yet, or an error: the page is observed again, and at the head of the
\* next round the deadline may have passed.
WaitForSentReadback(f) ==
    /\ form = f
    /\ \/ host.pc = "grid" /\ Proven /\ End("succeeded")
       \/ host.pc = "grid" /\ Candidates > 1 /\ End("unknown")
       \/ host.pc = "grid" /\ host' = [host EXCEPT !.pc = "observe", !.again = TRUE]
       \/ host.pc = "observe" /\ ~host.again /\ End("unknown")
    /\ UNCHANGED <<form, oa, tracker, authorized>>
WaitLeave == WaitForSentReadback("leave")
WaitTrip == WaitForSentReadback("trip")

\* The executor asks the user and runs the same plan with one override more.
Authorize ==
    /\ host.pc = "done" /\ host.outcome = "validation"
    /\ tracker.pending \notin authorized
    /\ Cardinality(authorized) < MaxOverrides
    /\ authorized' = authorized \cup {tracker.pending}
    /\ host' = [host EXCEPT !.pc = "submit", !.outcome = "none"]
    /\ UNCHANGED <<form, oa, tracker>>

Next ==
    \/ PrepareLeave \/ PrepareTrip \/ SubmitLeave \/ SubmitTrip
    \/ \E v \in Prompts : RaiseCap4(v) \/ RaisePage(v) \/ RaiseConfirm(v)
    \/ RaisePageAfterSend \/ RaiseAlert \/ Send \/ PageFails \/ List \/ SendByHand
    \/ ObservePage \/ HandleLeave \/ HandleTrip
    \/ ClickContinue \/ MarkContinued \/ ControlFails
    \/ WaitLeave \/ WaitTrip \/ Authorize

Spec == Init /\ [][Next]_vars
-----------------------------------------------------------------------------
TypeOK ==
    /\ form \in Forms
    /\ oa \in [at : {"form", "checking", "asking", "stopped", "sent"},
               prompt : Prompts \cup {NoPrompt}, hooked : Seq(Prompts),
               raised : SUBSET Prompts, passed : SUBSET Prompts,
               sent : 0 .. MaxOverrides + 1, listed : 0 .. MaxOverrides + 1,
               manual : 0 .. MaxManual]
    /\ tracker \in [pending : Prompts \cup {NoPrompt}, activated : BOOLEAN,
                    continued : SUBSET Prompts, send : BOOLEAN]
    /\ host \in [pc : {"plan", "submit", "observe", "handle", "wait", "mark", "grid", "done"},
                 outcome : {"none", "mismatch", "rejected", "validation", "unknown",
                            "succeeded"},
                 again : BOOLEAN]
    /\ authorized \in SUBSET Warnings

\* An attempt passes no prompt of the OA unless a warning that the user has
\* authorized appeared again in this very attempt: an authorization that is
\* carried along opens nothing by itself, and what an earlier attempt left
\* behind (its tracker, its hooked prompts) opens nothing either, however
\* dialogs, page prompts and CAP4 answers interleave with the adapter's loop.
ContinuedOnlyAgain == oa.passed # {} => oa.raised \cap authorized # {}

\* The card promises more: Continue is clicked "only when exactly the same
\* prompt appears again".  Does not hold (README, section 6): the click reaches
\* the prompt that is shown by then.
PassedWasAuthorized == oa.passed \subseteq authorized

\* Over all the attempts that confirmations may chain, the form goes out at
\* most once.  Does not hold (README, section 6): a hooked prompt that is read
\* after the form went out is asked about, and the form is sent again.
SubmittedOnce == oa.sent <= 1

\* "Rejected by a business rule" is reported for a form that was not sent.
\* Does not hold (README, section 6).
RejectedWasNotSent == host.outcome \in {"rejected", "validation"} => oa.sent = 0
=============================================================================
