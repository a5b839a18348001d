----------------------------- MODULE SkillJobQueue -----------------------------
(***************************************************************************)
(* The durable skill jobs: the table skill_jobs, the transactions of       *)
(* core/skill_job_queue.py on it, the worker loop of skill_job_executor.py *)
(* and the draft save of skill_authoring.py that completes a job.          *)
(*                                                                         *)
(* enqueue, retry, claim and save open with BEGIN IMMEDIATE and are one    *)
(* action each; finish is one UPDATE.  cancel and active read in           *)
(* autocommit mode and only their UPDATE opens a transaction, so each is a *)
(* read step and a write step.  A call that raises changes nothing.        *)
(*                                                                         *)
(* Abstractions: jobs are numbered in the order of created_at; the uuid of *)
(* a claim is the attempt it starts, since every claim of a job increments *)
(* attempts; a lease is the bit "lease_until has passed"; the rows of an   *)
(* evaluation are computed in a fixed order, so progress is how many there *)
(* are; auto_allowed (preference and scope switch) is one bit per owner.   *)
(***************************************************************************)
EXTENDS Integers, FiniteSets

CONSTANTS
    Owners,        \* owner_subject
    Keys,          \* request keys
    Workers,       \* worker threads, one per service process
    MaxJobs,       \* a bound on the jobs ever enqueued
    Rows,          \* rows of an evaluation: repeats * cases * variants
    MaxAttempts,   \* 3 in the code
    DailyQuota,    \* 20 in the code
    ActiveQuota,   \* 3 in the code
    AutoQuota,     \* 3 in the code
    Null           \* no key yet, no job held

\* Jobs in the order of created_at.
Jobs == 1..MaxJobs

ASSUME QuotaAssumption ==
    /\ MaxAttempts \in Nat \ {0}
    /\ {MaxJobs, Rows, DailyQuota, ActiveQuota, AutoQuota} \subseteq Nat
ASSUME NullAssumption == Null \notin Owners \cup Keys \cup Jobs

VARIABLES
    state,         \* skill_jobs.state
    spec,          \* owner, request key, kind and automatic flag of a job
    attempts,      \* skill_jobs.attempts
    token,         \* claim_token: the attempt it belongs to, 0 when NULL
    lapsed,        \* jobs whose lease_until has passed
    progress,      \* rows in progress_json
    today,         \* jobs with created_at in the current day
    drafts,        \* how often save committed a draft under job:<job_id>
    allowed,       \* owners whose automatic drafting is switched on
    canceling,     \* jobs a cancel call has read but not yet updated
    at,            \* where a worker is in run_once
    check,         \* how far it is in the active call of that place
    held,          \* the job row it claimed
    claim,         \* the claim token in that row
    rows           \* the evaluation rows it holds in memory

jobVars == <<state, spec, attempts, token, lapsed, progress, today, drafts>>
workerVars == <<at, check, held, claim, rows>>
vars == <<jobVars, allowed, canceling, workerVars>>

ActiveStates == {"queued", "running"}
EndStates == {"succeeded", "canceled"}
JobStates == {"absent", "failed"} \cup ActiveStates \cup EndStates
Kinds == {"generation", "evaluation"}
Specs == {s \in [owner : Owners, key : Keys, kind : Kinds, auto : BOOLEAN] :
             s.auto => s.kind = "generation"}
Places == {"idle", "start", "draft", "redraft", "save", "row", "graded", "close", "fail"}

-----------------------------------------------------------------------------
Init ==
    /\ state = [j \in Jobs |-> "absent"]
    /\ spec = [j \in Jobs |-> Null]
    /\ attempts = [j \in Jobs |-> 0]
    /\ token = [j \in Jobs |-> 0]
    /\ progress = [j \in Jobs |-> 0]
    /\ drafts = [j \in Jobs |-> 0]
    /\ lapsed = {} /\ today = {} /\ allowed = {} /\ canceling = {}
    /\ at = [w \in Workers |-> "idle"]
    /\ check = [w \in Workers |-> "todo"]
    /\ held = [w \in Workers |-> Null]
    /\ claim = [w \in Workers |-> 0]
    /\ rows = [w \in Workers |-> 0]

JobsOf(o) == {j \in Jobs : state[j] # "absent" /\ spec[j].owner = o}

AutoAllowed(s) == s.auto => s.owner \in allowed

\* enqueue: a known request key answers with the old job, or raises when its
\* input differs; otherwise the quotas of the owner decide.
Admitted(s) ==
    LET mine == JobsOf(s.owner)
    IN  /\ s.auto => Cardinality({j \in mine \cap today : spec[j].auto}) < AutoQuota
        /\ Cardinality(mine \cap today) < DailyQuota
        /\ Cardinality({j \in mine : state[j] \in ActiveStates}) < ActiveQuota

Enqueue(j, s) ==
    /\ state[j] = "absent"
    /\ \A i \in Jobs : i < j => state[i] # "absent"
    /\ \A i \in JobsOf(s.owner) : spec[i].key # s.key
    /\ AutoAllowed(s)
    /\ Admitted(s)
    /\ state' = [state EXCEPT ![j] = "queued"]
    /\ spec' = [spec EXCEPT ![j] = s]
    /\ today' = today \cup {j}
    /\ UNCHANGED <<attempts, token, lapsed, progress, drafts, allowed, canceling, workerVars>>

\* cancel reads the row ...
CancelRead(j) ==
    /\ state[j] \in ActiveStates
    /\ j \notin canceling
    /\ canceling' = canceling \cup {j}
    /\ UNCHANGED <<jobVars, allowed, workerVars>>

\* ... and updates it by job_id alone, whatever it has become meanwhile.
CancelWrite(j) ==
    /\ j \in canceling
    /\ canceling' = canceling \ {j}
    /\ state' = [state EXCEPT ![j] = "canceled"]
    /\ token' = [token EXCEPT ![j] = 0]
    /\ UNCHANGED <<spec, attempts, lapsed, progress, today, drafts, allowed, workerVars>>

\* Mutant: the limit is compared with > instead of >=.
RetryableOnceMore(j) == state[j] = "failed" /\ attempts[j] <= MaxAttempts

Retryable(j) == state[j] = "failed" /\ attempts[j] < MaxAttempts

\* retry: the owner queues a failed job again; no quota is consulted.
Retry(j) ==
    /\ Retryable(j)
    /\ AutoAllowed(spec[j])
    /\ state' = [state EXCEPT ![j] = "queued"]
    /\ token' = [token EXCEPT ![j] = 0]
    /\ UNCHANGED <<spec, attempts, lapsed, progress, today, drafts, allowed, canceling,
                   workerVars>>

\* scopes and preferences: the owner switches automatic drafting on or off.
SwitchAutomatic(o) ==
    /\ allowed' = IF o \in allowed THEN allowed \ {o} ELSE allowed \cup {o}
    /\ UNCHANGED <<jobVars, canceling, workerVars>>

-----------------------------------------------------------------------------
(* The worker.                                                              *)

\* claim first fails the interrupted jobs that have no attempt left, then takes
\* the oldest job that is queued or was abandoned by its worker.
Exhausted == {j \in Jobs : state[j] = "running" /\ j \in lapsed /\ attempts[j] >= MaxAttempts}

\* Mutant: an abandoned job is never taken over.
ClaimableQueued == {j \in Jobs : state[j] = "queued"}

Claimable ==
    {j \in Jobs : \/ state[j] = "queued"
                  \/ state[j] = "running" /\ j \in lapsed /\ attempts[j] < MaxAttempts}

FailedOut(s) == [j \in Jobs |-> IF j \in Exhausted THEN "failed" ELSE s[j]]

TokensOut(t) == [j \in Jobs |-> IF j \in Exhausted THEN 0 ELSE t[j]]

Claim(w, j) ==
    /\ at[w] = "idle"
    /\ j \in Claimable /\ \A i \in Claimable : j <= i
    /\ state' = FailedOut([state EXCEPT ![j] = "running"])
    /\ attempts' = [attempts EXCEPT ![j] = @ + 1]
    /\ token' = TokensOut([token EXCEPT ![j] = attempts[j] + 1])
    /\ lapsed' = lapsed \ {j}
    /\ at' = [at EXCEPT ![w] = "start"]
    /\ check' = [check EXCEPT ![w] = "todo"]
    /\ held' = [held EXCEPT ![w] = j]
    /\ claim' = [claim EXCEPT ![w] = attempts[j] + 1]
    /\ rows' = [rows EXCEPT ![w] = progress[j]]
    /\ UNCHANGED <<spec, progress, today, drafts, allowed, canceling>>

ClaimNothing(w) ==
    /\ at[w] = "idle" /\ Claimable = {} /\ Exhausted # {}
    /\ state' = FailedOut(state)
    /\ token' = TokensOut(token)
    /\ UNCHANGED <<spec, attempts, lapsed, progress, today, drafts, allowed, canceling,
                   workerVars>>

\* Mutant: the claim token of the row is not compared.
HoldsAnyClaim(w) == held[w] # Null /\ state[held[w]] = "running"

\* Mutant: the row is found by its job_id alone.
HoldsJobOnly(w) == held[w] # Null

\* The WHERE clause that active, finish and save share.
HoldsClaim(w) ==
    /\ held[w] # Null
    /\ state[held[w]] = "running"
    /\ token[held[w]] = claim[w]

\* Going from one place of run_once to the next, whose active call is to do.
GoTo(w, place) ==
    /\ at' = [at EXCEPT ![w] = place]
    /\ check' = [check EXCEPT ![w] = "todo"]
    /\ UNCHANGED <<held, claim>>

\* run_once returns, or the process dies: nothing of the attempt is kept.
Leave(w) ==
    /\ at' = [at EXCEPT ![w] = "idle"]
    /\ check' = [check EXCEPT ![w] = "todo"]
    /\ held' = [held EXCEPT ![w] = Null]
    /\ claim' = [claim EXCEPT ![w] = 0]
    /\ rows' = [rows EXCEPT ![w] = 0]

\* active reads the row: a lost claim or a closed scope ends the attempt.
ActiveRead(w) ==
    /\ at[w] \notin {"idle", "fail"} /\ check[w] = "todo"
    /\ IF HoldsClaim(w) /\ AutoAllowed(spec[held[w]])
       THEN /\ check' = [check EXCEPT ![w] = "read"]
            /\ UNCHANGED <<at, held, claim>>
       ELSE GoTo(w, "fail")
    /\ UNCHANGED <<jobVars, allowed, canceling, rows>>

\* active renews the lease, and stores the rows where it is given them, by
\* job_id alone.
ActiveWrite(w) ==
    /\ at[w] \notin {"idle", "fail"} /\ check[w] = "read"
    /\ check' = [check EXCEPT ![w] = "done"]
    /\ lapsed' = lapsed \ {held[w]}
    /\ progress' = IF at[w] \in {"row", "graded"}
                   THEN [progress EXCEPT ![held[w]] = rows[w]] ELSE progress
    /\ UNCHANGED <<state, spec, attempts, token, today, drafts, allowed, canceling,
                   at, held, claim, rows>>

Checked(w, places) == at[w] \in places /\ check[w] = "done"

\* run_once hands the job to the handler of its kind; an evaluation goes on
\* with the first row that progress_json does not have.
NextRow(w, n) == GoTo(w, IF n < Rows THEN "row" ELSE "close")

Begin(w) ==
    /\ Checked(w, {"start"})
    /\ IF spec[held[w]].kind = "generation" THEN GoTo(w, "draft") ELSE NextRow(w, rows[w])
    /\ UNCHANGED <<jobVars, allowed, canceling, rows>>

\* The model call of a generation: unusable text is asked for once more; a text
\* that is not a new method is only reported; a method goes on to save.
CallDraft(w) ==
    /\ Checked(w, {"draft", "redraft"})
    /\ \/ at[w] = "draft" /\ GoTo(w, "redraft")
       \/ GoTo(w, "close")
       \/ GoTo(w, "save")
       \/ GoTo(w, "fail")
    /\ UNCHANGED <<jobVars, allowed, canceling, rows>>

\* The model call of an evaluation row, or the row of a case the published
\* version has no profile for, which is not stored at once.
CallRow(w) ==
    /\ Checked(w, {"row"})
    /\ \/ rows' = [rows EXCEPT ![w] = @ + 1] /\ GoTo(w, "graded")
       \/ rows' = [rows EXCEPT ![w] = @ + 1] /\ NextRow(w, rows[w] + 1)
       \/ rows' = rows /\ GoTo(w, "fail")
    /\ UNCHANGED <<jobVars, allowed, canceling>>

Graded(w) ==
    /\ Checked(w, {"graded"})
    /\ NextRow(w, rows[w])
    /\ UNCHANGED <<jobVars, allowed, canceling, rows>>

\* Mutant: the draft is committed but its job is left to finish.
SavedStateOpen(j) == state

SavedState(j) == [state EXCEPT ![j] = "succeeded"]

\* save: one transaction checks the claim and the scope, commits the draft and
\* completes the job; the receipt of an earlier save answers without a draft.
SaveDraft(w) ==
    /\ Checked(w, {"save"})
    /\ HoldsClaim(w) /\ AutoAllowed(spec[held[w]])
    /\ IF drafts[held[w]] = 0
       THEN /\ drafts' = [drafts EXCEPT ![held[w]] = 1]
            /\ state' = SavedState(held[w])
            /\ token' = [token EXCEPT ![held[w]] = 0]
       ELSE UNCHANGED <<drafts, state, token>>
    /\ Leave(w)
    /\ UNCHANGED <<spec, attempts, lapsed, progress, today, allowed, canceling>>

\* save raises: the claim or the scope is gone, or the draft itself is refused
\* (changed revision, archived, limits, content).
SaveRefused(w) ==
    /\ Checked(w, {"save"})
    /\ GoTo(w, "fail")
    /\ UNCHANGED <<jobVars, allowed, canceling, rows>>

\* finish: the result or the error of the attempt, if the claim is still held.
Finish(w, outcome) ==
    /\ state' = IF HoldsClaim(w) THEN [state EXCEPT ![held[w]] = outcome] ELSE state
    /\ token' = IF HoldsClaim(w) THEN [token EXCEPT ![held[w]] = 0] ELSE token
    /\ Leave(w)
    /\ UNCHANGED <<spec, attempts, lapsed, progress, today, drafts, allowed, canceling>>

FinishResult(w) == Checked(w, {"close"}) /\ Finish(w, "succeeded")

FinishError(w) == at[w] = "fail" /\ Finish(w, "failed")

\* The process of the worker dies and comes back with nothing in memory.
Crash(w) ==
    /\ at[w] # "idle"
    /\ Leave(w)
    /\ UNCHANGED <<jobVars, allowed, canceling>>

\* Five minutes pass without a renewal.
LeaseLapses(j) ==
    /\ state[j] = "running" /\ j \notin lapsed
    /\ lapsed' = lapsed \cup {j}
    /\ UNCHANGED <<state, spec, attempts, token, progress, today, drafts, allowed, canceling,
                   workerVars>>

\* Midnight: the daily quotas start anew.
NewDay ==
    /\ today # {} /\ today' = {}
    /\ UNCHANGED <<state, spec, attempts, token, lapsed, progress, drafts, allowed, canceling,
                   workerVars>>

\* One iteration of a worker thread that is running.
Work(w) ==
    \/ \E j \in Jobs : Claim(w, j)
    \/ ClaimNothing(w)
    \/ ActiveRead(w) \/ ActiveWrite(w)
    \/ Begin(w) \/ CallDraft(w) \/ CallRow(w) \/ Graded(w)
    \/ SaveDraft(w) \/ SaveRefused(w)
    \/ FinishResult(w) \/ FinishError(w)

Next ==
    \/ \E j \in Jobs :
          \/ \E s \in Specs : Enqueue(j, s)
          \/ CancelRead(j) \/ CancelWrite(j) \/ Retry(j) \/ LeaseLapses(j)
    \/ \E o \in Owners : SwitchAutomatic(o)
    \/ \E w \in Workers : Work(w) \/ Crash(w)
    \/ NewDay

Spec == Init /\ [][Next]_vars

\* A worker thread keeps looping (it waits at most two seconds between claims)
\* and an unrenewed lease runs out.
FairSpec ==
    /\ Spec
    /\ \A w \in Workers : WF_vars(Work(w))
    /\ \A j \in Jobs : WF_vars(LeaseLapses(j))

-----------------------------------------------------------------------------
\* Type correctness of the table and of the workers' local state.
TypeOK ==
    /\ state \in [Jobs -> JobStates]
    /\ spec \in [Jobs -> Specs \cup {Null}]
    /\ \A j \in Jobs : state[j] # "absent" => spec[j] \in Specs
    /\ attempts \in [Jobs -> 0..MaxAttempts]
    /\ token \in [Jobs -> 0..MaxAttempts]
    /\ progress \in [Jobs -> 0..Rows]
    /\ drafts \in [Jobs -> 0..1]
    /\ lapsed \subseteq Jobs /\ today \subseteq Jobs
    /\ canceling \subseteq Jobs /\ allowed \subseteq Owners
    /\ at \in [Workers -> Places]
    /\ check \in [Workers -> {"todo", "read", "done"}]
    /\ held \in [Workers -> Jobs \cup {Null}]
    /\ claim \in [Workers -> 0..MaxAttempts]
    /\ rows \in [Workers -> 0..Rows]

\* However leases lapse and jobs are taken over, retried or canceled, two
\* workers never both pass the claim check of one job, and a job has a claim
\* exactly while it is running.
OneHolder ==
    /\ \A v, w \in Workers :
          HoldsClaim(v) /\ HoldsClaim(w) /\ held[v] = held[w] => v = w
    /\ \A j \in Jobs : token[j] # 0 <=> state[j] = "running"

\* A worker whose job was taken over, canceled or retried under it can neither
\* complete nor fail it: a running job is settled by the worker that holds its
\* claim, by a cancel, or by a claim that finds the attempts used up.
SettledByHolder ==
    [][\A j \in Jobs : state[j] = "running" /\ state'[j] \in {"succeeded", "failed"} =>
          \/ \E w \in Workers :
                held[w] = j /\ claim[w] = token[j] /\ at[w] # "idle" /\ at'[w] = "idle"
          \/ state'[j] = "failed" /\ j \in lapsed /\ attempts[j] = MaxAttempts]_vars

\* A draft is committed at most once per job, and never for an attempt that
\* counts as failed or is done again: its job has succeeded, or a cancel that
\* had read the running job closed it afterwards.
DraftSettlesJob ==
    \A j \in Jobs : drafts[j] > 0 =>
        /\ state[j] \in EndStates
        /\ spec[j].kind = "generation"

\* A job that has ended is not started, failed or completed again by a worker
\* that was still busy with it, nor by a retry; an attempt is never repeated.
EndedStaysEnded ==
    [][\A j \in Jobs :
          /\ state[j] = "canceled" => state'[j] = "canceled"
          /\ state[j] = "succeeded" => state'[j] \in EndStates
          /\ attempts'[j] >= attempts[j]]_vars

\* Every queued job is eventually settled, whatever its workers die of: an
\* abandoned one is taken over when its lease lapses until the attempts are
\* used up.
QueuedIsSettled ==
    \A j \in Jobs : state[j] = "queued" ~> state[j] \in EndStates \cup {"failed"}

\* skill_authoring.py on the transaction that saves a draft: "Save and
\* completion are atomic; cancellation cannot race the draft commit."
CanceledSavesNothing == \A j \in Jobs : state[j] = "canceled" => drafts[j] = 0
=============================================================================
