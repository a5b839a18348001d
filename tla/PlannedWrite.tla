----------------------------- MODULE PlannedWrite -----------------------------
(***************************************************************************)
(* What a durable task plan with one write promises to the user, without   *)
(* the tables, locks, threads and retries that keep the promise: the plan  *)
(* is open until its one commit begins, the business system then applies   *)
(* the write at most once, and the end that is reported is true.           *)
(***************************************************************************)

VARIABLES
    phase,    \* how the plan stands
    effect    \* how its write stands in the business system

Phases == {"open", "committing", "succeeded", "failed", "outcome_unknown", "canceled"}
Effects == {"none", "sent", "applied"}

Init == phase = "open" /\ effect = "none"

\* The authorization is consumed: from here a cancel is refused.
Commit ==
    /\ phase = "open" /\ effect = "none"
    /\ phase' = "committing"
    /\ UNCHANGED effect

\* Only a committing plan sends its write.
Send ==
    /\ phase = "committing" /\ effect = "none"
    /\ effect' = "sent"
    /\ UNCHANGED phase

\* The business system answers, perhaps after the plan has stopped waiting.
Answer ==
    /\ effect = "sent"
    /\ effect' \in {"applied", "none"}
    /\ UNCHANGED phase

\* The business system asked for a confirmation: the plan waits for the user.
Reopen ==
    /\ phase = "committing" /\ effect = "none"
    /\ phase' = "open"
    /\ UNCHANGED effect

Succeed ==
    /\ \/ phase = "committing" /\ effect = "applied"
       \/ phase = "open" /\ effect = "none"        \* there was nothing to write
    /\ phase' = "succeeded"
    /\ UNCHANGED effect

Fail ==
    /\ phase \in {"open", "committing"} /\ effect = "none"
    /\ phase' = "failed"
    /\ UNCHANGED effect

LoseTrack ==
    /\ phase = "committing"
    /\ phase' = "outcome_unknown"
    /\ UNCHANGED effect

Cancel ==
    /\ phase = "open" /\ effect = "none"
    /\ phase' = "canceled"
    /\ UNCHANGED effect

Next == Commit \/ Send \/ Answer \/ Reopen \/ Succeed \/ Fail \/ LoseTrack \/ Cancel

Spec == Init /\ [][Next]_<<phase, effect>>
=============================================================================
