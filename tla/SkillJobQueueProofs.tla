------------------------- MODULE SkillJobQueueProofs -------------------------
(***************************************************************************)
(* Proofs, for any number of jobs, workers, attempts and rows, of the      *)
(* safety properties MCSkillJobQueue checks for one job and two workers.   *)
(***************************************************************************)
EXTENDS SkillJobQueue, TLAPS

\* A claim token is the attempt that is running: it is set exactly while the
\* job runs, and a job that waits or may come has an attempt left.
Claims ==
    \A j \in Jobs :
        /\ token[j] = IF state[j] = "running" THEN attempts[j] ELSE 0
        /\ state[j] = "running" => attempts[j] # 0
        /\ state[j] \in {"absent", "queued"} => attempts[j] < MaxAttempts

\* What a busy worker remembers: a job that exists, one of its attempts, which
\* no other worker remembers, and a place that fits the kind of the job.
Holdings ==
    /\ \A w \in Workers : at[w] # "idle" =>
          /\ held[w] \in Jobs /\ state[held[w]] # "absent"
          /\ claim[w] \in 1..attempts[held[w]]
          /\ at[w] \in {"draft", "redraft", "save"} => spec[held[w]].kind = "generation"
          /\ at[w] = "row" => rows[w] < Rows
    /\ \A w \in Workers : at[w] = "idle" => held[w] = Null
    /\ \A v, w \in Workers :
          at[v] # "idle" /\ held[v] = held[w] /\ claim[v] = claim[w] => v = w

\* The jobs a cancel is about to close exist.
Cancels == \A j \in canceling : state[j] # "absent"

\* The inductive invariant.
QueueInv == TypeOK /\ Claims /\ Holdings /\ Cancels /\ DraftSettlesJob

\* The job numbers and the counters are integers.
LEMMA Numbers ==
    /\ Jobs \subseteq Int /\ Null \notin Jobs
    /\ MaxAttempts \in Int /\ 1 <= MaxAttempts
    /\ Rows \in Int /\ 0 <= Rows
BY QuotaAssumption, NullAssumption DEF Jobs

\* The empty table and the idle workers satisfy the invariant.
LEMMA QueueInvInit == Init => QueueInv
BY Numbers DEF Init, QueueInv, TypeOK, Claims, Holdings, Cancels, DraftSettlesJob, JobStates,
   Places, ActiveStates, EndStates

\* Moving a busy worker to another place, without touching any job.
LEMMA Moving ==
    ASSUME QueueInv, NEW w \in Workers, NEW place \in Places \ {"idle"},
           at[w] # "idle", GoTo(w, place), UNCHANGED <<jobVars, allowed, canceling>>,
           rows' \in [Workers -> 0..Rows],
           \A v \in Workers : v # w => rows'[v] = rows[v],
           place = "row" => rows'[w] < Rows,
           place \in {"draft", "redraft", "save"} => spec[held[w]].kind = "generation"
    PROVE  QueueInv'
<1> USE DEF jobVars, GoTo, QueueInv
<1>1. TypeOK'
  BY DEF TypeOK
<1>2. Claims' /\ Cancels' /\ DraftSettlesJob'
  BY DEF Claims, Cancels, DraftSettlesJob
<1>3. Holdings'
  BY DEF Holdings, TypeOK
<1> QED
  BY <1>1, <1>2, <1>3

\* A worker that leaves run_once does not disturb what the others hold.
LEMMA LeavingHoldings ==
    ASSUME TypeOK, Holdings, NEW w \in Workers, Leave(w),
           spec' = spec, attempts' = attempts,
           \A j \in Jobs : state'[j] = "absent" => state[j] = "absent"
    PROVE  Holdings'
BY DEF Leave, Holdings, TypeOK

\* A worker that leaves run_once, without touching any job.
LEMMA Leaving ==
    ASSUME QueueInv, NEW w \in Workers, Leave(w), UNCHANGED <<jobVars, allowed, canceling>>
    PROVE  QueueInv'
<1> USE DEF jobVars, Leave, QueueInv
<1>1. TypeOK'
  BY Numbers DEF TypeOK, Places
<1>2. Claims' /\ Cancels' /\ DraftSettlesJob'
  BY DEF Claims, Cancels, DraftSettlesJob
<1>3. Holdings'
  BY DEF Holdings, TypeOK
<1> QED
  BY <1>1, <1>2, <1>3

\* A worker that ends its attempt, finish setting the state of its job if the
\* claim is still held.
LEMMA Finishing ==
    ASSUME QueueInv, NEW w \in Workers, at[w] # "idle",
           NEW outcome \in {"succeeded", "failed"}, Finish(w, outcome)
    PROVE  QueueInv'
<1> USE DEF Finish, Leave, QueueInv
<1>1. CASE HoldsClaim(w)
  <2> USE <1>1 DEF HoldsClaim
  <2>1. TypeOK'
    BY Numbers DEF TypeOK, Places, JobStates, EndStates
  <2>2. Claims' /\ Cancels'
    BY DEF Claims, Cancels, TypeOK
  <2>3. DraftSettlesJob'
    BY DEF DraftSettlesJob, TypeOK, EndStates
  <2>4. Holdings'
    BY DEF Holdings, TypeOK
  <2> QED
    BY <2>1, <2>2, <2>3, <2>4
<1>2. CASE ~HoldsClaim(w)
  BY <1>2, Leaving DEF jobVars
<1> QED
  BY <1>1, <1>2

\* claim: the new attempt of the oldest claimable job, and the end of the jobs
\* that have used up theirs.
LEMMA Claiming ==
    ASSUME QueueInv, NEW w \in Workers, NEW j \in Jobs, Claim(w, j)
    PROVE  QueueInv'
<1> USE Numbers DEF QueueInv
<1>0. /\ state[j] \in {"queued", "running"} /\ attempts[j] < MaxAttempts
      /\ j \notin Exhausted /\ attempts[j] \in Int /\ 0 <= attempts[j]
  BY DEF Claim, Claimable, Exhausted, Claims, TypeOK
<1>1. state' = [i \in Jobs |-> IF i = j THEN "running"
                               ELSE IF i \in Exhausted THEN "failed" ELSE state[i]]
  BY <1>0 DEF Claim, FailedOut, TypeOK
<1>2. token' = [i \in Jobs |-> IF i = j THEN attempts[j] + 1
                               ELSE IF i \in Exhausted THEN 0 ELSE token[i]]
  BY <1>0 DEF Claim, TokensOut, TypeOK
<1>3. \A i \in Exhausted : i \in Jobs /\ state[i] = "running"
  BY DEF Exhausted
<1>a. /\ attempts' = [i \in Jobs |-> IF i = j THEN attempts[j] + 1 ELSE attempts[i]]
      /\ spec' = spec /\ drafts' = drafts /\ canceling' = canceling
  BY DEF Claim, TypeOK
<1>4. TypeOK'
  <2>1. /\ state' \in [Jobs -> JobStates]
        /\ \A i \in Jobs : state'[i] # "absent" => state[i] # "absent"
    BY <1>0, <1>1, <1>3 DEF TypeOK, JobStates, ActiveStates
  <2>2. attempts' \in [Jobs -> 0..MaxAttempts] /\ token' \in [Jobs -> 0..MaxAttempts]
    BY <1>0, <1>2, <1>a DEF TypeOK
  <2>3. /\ at' \in [Workers -> Places] /\ check' \in [Workers -> {"todo", "read", "done"}]
        /\ held' \in [Workers -> Jobs \cup {Null}] /\ claim' \in [Workers -> 0..MaxAttempts]
        /\ rows' \in [Workers -> 0..Rows]
    BY <1>0 DEF Claim, TypeOK, Places
  <2> QED
    BY <2>1, <2>2, <2>3, <1>a DEF Claim, TypeOK
<1>5. Claims'
  BY <1>0, <1>1, <1>2, <1>3, <1>a DEF Claims, TypeOK
<1>6. Cancels'
  BY <1>1, <1>3 DEF Claim, Cancels, TypeOK
<1>7. DraftSettlesJob'
  BY <1>0, <1>1, <1>3 DEF Claim, DraftSettlesJob, EndStates
<1>8. Holdings'
  <2>1. \A v \in Workers : at[v] # "idle" /\ held[v] = j => claim[v] <= attempts[j]
    BY <1>0 DEF Holdings, TypeOK
  <2>2. \A v \in Workers : at'[v] # "idle" =>
          /\ held'[v] \in Jobs /\ state'[held'[v]] # "absent"
          /\ claim'[v] \in 1..attempts'[held'[v]]
          /\ at'[v] \in {"draft", "redraft", "save"} => spec'[held'[v]].kind = "generation"
          /\ at'[v] = "row" => rows'[v] < Rows
    <3> SUFFICES ASSUME NEW v \in Workers, at'[v] # "idle" PROVE
          /\ held'[v] \in Jobs /\ state'[held'[v]] # "absent"
          /\ claim'[v] \in 1..attempts'[held'[v]]
          /\ at'[v] \in {"draft", "redraft", "save"} => spec'[held'[v]].kind = "generation"
          /\ at'[v] = "row" => rows'[v] < Rows
      OBVIOUS
    <3>1. CASE v = w
      <4>1. held'[v] = j /\ claim'[v] = attempts[j] + 1 /\ at'[v] = "start"
        BY <3>1 DEF Claim, TypeOK
      <4> QED
        BY <4>1, <1>0, <1>1, <1>a
    <3>2. CASE v # w
      <4>1. /\ held'[v] = held[v] /\ claim'[v] = claim[v] /\ at'[v] = at[v]
            /\ rows'[v] = rows[v]
        BY <3>2 DEF Claim, TypeOK
      <4> QED
        BY <4>1, <1>0, <1>1, <1>3, <1>a DEF Holdings, TypeOK
    <3> QED
      BY <3>1, <3>2
  <2>3. \A v \in Workers : at'[v] = "idle" => held'[v] = Null
    BY DEF Claim, Holdings, TypeOK
  <2>4. \A u, v \in Workers :
          at'[u] # "idle" /\ held'[u] = held'[v] /\ claim'[u] = claim'[v] => u = v
    BY <1>0, <2>1 DEF Claim, Holdings, TypeOK
  <2> QED
    BY <2>2, <2>3, <2>4 DEF Holdings
<1> QED
  BY <1>4, <1>5, <1>6, <1>7, <1>8

\* Every step preserves the invariant.
LEMMA QueueInvNext == QueueInv /\ [Next]_vars => QueueInv'
<1> SUFFICES ASSUME QueueInv, [Next]_vars PROVE QueueInv'
  OBVIOUS
<1> USE Numbers DEF QueueInv
<1>1. ASSUME NEW j \in Jobs, NEW s \in Specs, Enqueue(j, s) PROVE QueueInv'
  <2> USE <1>1 DEF Enqueue, workerVars
  <2>1. TypeOK'
    BY DEF TypeOK, JobStates, ActiveStates
  <2>2. Claims' /\ Cancels'
    BY DEF Claims, Cancels, TypeOK
  <2>3. DraftSettlesJob'
    BY DEF DraftSettlesJob, TypeOK, EndStates
  <2>4. Holdings'
    BY DEF Holdings, TypeOK
  <2> QED
    BY <2>1, <2>2, <2>3, <2>4
<1>2. ASSUME NEW j \in Jobs, CancelRead(j) PROVE QueueInv'
  <2> USE <1>2 DEF CancelRead, jobVars, workerVars
  <2>1. TypeOK' /\ Cancels'
    BY DEF TypeOK, Cancels, ActiveStates
  <2>2. Claims' /\ Holdings' /\ DraftSettlesJob'
    BY DEF Claims, Holdings, DraftSettlesJob
  <2> QED
    BY <2>1, <2>2
<1>3. ASSUME NEW j \in Jobs, CancelWrite(j) PROVE QueueInv'
  <2> USE <1>3 DEF CancelWrite, workerVars
  <2>1. TypeOK' /\ Cancels'
    BY DEF TypeOK, Cancels, JobStates, EndStates
  <2>2. Claims' /\ DraftSettlesJob'
    BY DEF Claims, DraftSettlesJob, TypeOK, EndStates
  <2>3. Holdings'
    BY DEF Holdings, TypeOK
  <2> QED
    BY <2>1, <2>2, <2>3
<1>4. ASSUME NEW j \in Jobs, Retry(j) PROVE QueueInv'
  <2> USE <1>4 DEF Retry, Retryable, workerVars
  <2>1. TypeOK' /\ Cancels'
    BY DEF TypeOK, Cancels, JobStates, ActiveStates
  <2>2. Claims' /\ DraftSettlesJob'
    BY DEF Claims, DraftSettlesJob, TypeOK, EndStates
  <2>3. Holdings'
    BY DEF Holdings, TypeOK
  <2> QED
    BY <2>1, <2>2, <2>3
<1>5. ASSUME NEW j \in Jobs, LeaseLapses(j) PROVE QueueInv'
  BY <1>5 DEF LeaseLapses, workerVars, TypeOK, Claims, Holdings, Cancels, DraftSettlesJob
<1>6. ASSUME NEW o \in Owners, SwitchAutomatic(o) PROVE QueueInv'
  BY <1>6 DEF SwitchAutomatic, jobVars, workerVars, TypeOK, Claims, Holdings, Cancels,
     DraftSettlesJob
<1>7. CASE NewDay
  BY <1>7 DEF NewDay, workerVars, TypeOK, Claims, Holdings, Cancels, DraftSettlesJob
<1>8. ASSUME NEW w \in Workers, Work(w) PROVE QueueInv'
  <2>1. ASSUME NEW j \in Jobs, Claim(w, j) PROVE QueueInv'
    BY <2>1, Claiming
  <2>2. CASE ClaimNothing(w)
    <3> USE <2>2 DEF ClaimNothing, FailedOut, TokensOut, Exhausted, workerVars
    <3>1. TypeOK' /\ Cancels'
      BY DEF TypeOK, Cancels, JobStates
    <3>2. Claims' /\ DraftSettlesJob'
      BY DEF Claims, DraftSettlesJob, TypeOK, EndStates
    <3>3. Holdings'
      BY DEF Holdings, TypeOK
    <3> QED
      BY <3>1, <3>2, <3>3
  <2>3. CASE ActiveRead(w)
    <3>1. CASE HoldsClaim(w) /\ AutoAllowed(spec[held[w]])
      BY <2>3, <3>1 DEF ActiveRead, jobVars, TypeOK, Claims, Holdings, Cancels, DraftSettlesJob
    <3>2. CASE ~(HoldsClaim(w) /\ AutoAllowed(spec[held[w]]))
      BY <2>3, <3>2, Moving DEF ActiveRead, Places, TypeOK
    <3> QED
      BY <3>1, <3>2
  <2>4. CASE ActiveWrite(w)
    BY <2>4 DEF ActiveWrite, TypeOK, Claims, Holdings, Cancels, DraftSettlesJob
  <2>5. CASE Begin(w)
    <3>1. spec[held[w]] \in Specs /\ at[w] # "idle" /\ rows[w] \in 0..Rows
      BY <2>5 DEF Begin, Checked, Holdings, TypeOK
    <3> QED
      BY <2>5, <3>1, Moving DEF Begin, Checked, NextRow, Places, TypeOK
  <2>6. CASE CallDraft(w)
    <3>1. at[w] # "idle" /\ spec[held[w]].kind = "generation"
      BY <2>6 DEF CallDraft, Checked, Holdings
    <3> QED
      BY <2>6, <3>1, Moving DEF CallDraft, Places, TypeOK
  <2>7. CASE CallRow(w)
    <3>1. at[w] # "idle" /\ rows[w] \in 0..Rows /\ rows[w] < Rows
      BY <2>7 DEF CallRow, Checked, Holdings, TypeOK
    <3> QED
      BY <2>7, <3>1, Moving DEF CallRow, NextRow, Places, TypeOK
  <2>8. CASE Graded(w)
    BY <2>8, Moving DEF Graded, Checked, NextRow, Places, TypeOK
  <2>9. CASE SaveDraft(w)
    <3>1. CASE drafts[held[w]] = 0
      <4> USE <2>9, <3>1 DEF SaveDraft, Checked, HoldsClaim, Leave, SavedState
      <4>1. TypeOK' /\ Cancels'
        BY DEF TypeOK, Cancels, Places, JobStates, EndStates
      <4>2. Claims'
        BY DEF Claims, TypeOK
      <4>3. DraftSettlesJob'
        BY DEF DraftSettlesJob, Holdings, TypeOK, EndStates
      <4>4. \A i \in Jobs : state'[i] = "absent" => state[i] = "absent"
        BY DEF TypeOK
      <4>5. Holdings'
        BY <4>4, <2>9, LeavingHoldings DEF SaveDraft
      <4> QED
        BY <4>1, <4>2, <4>3, <4>5
    <3>2. CASE drafts[held[w]] # 0
      BY <2>9, <3>2, Leaving DEF SaveDraft, jobVars
    <3> QED
      BY <3>1, <3>2
  <2>10. CASE SaveRefused(w)
    BY <2>10, Moving DEF SaveRefused, Checked, Places, TypeOK
  <2>11. CASE FinishResult(w)
    BY <2>11, Finishing DEF FinishResult, Checked
  <2>12. CASE FinishError(w)
    BY <2>12, Finishing DEF FinishError
  <2> QED
    BY <1>8, <2>1, <2>2, <2>3, <2>4, <2>5, <2>6, <2>7, <2>8, <2>9, <2>10, <2>11, <2>12 DEF Work
<1>9. ASSUME NEW w \in Workers, Crash(w) PROVE QueueInv'
  BY <1>9, Leaving DEF Crash
<1>10. CASE UNCHANGED vars
  BY <1>10 DEF vars, jobVars, workerVars, TypeOK, Claims, Holdings, Cancels, DraftSettlesJob,
     HoldsClaim
<1> QED
  BY <1>1, <1>2, <1>3, <1>4, <1>5, <1>6, <1>7, <1>8, <1>9, <1>10 DEF Next

\* Type correctness of the table and of the workers' local state; that attempts
\* stay within MaxAttempts is part of it.
THEOREM TypeCorrect == Spec => []TypeOK
<1>1. QueueInv => TypeOK
  BY DEF QueueInv
<1> QED
  BY <1>1, QueueInvInit, QueueInvNext, PTL DEF Spec

\* Two workers never both pass the claim check of one job.
THEOREM OneHolderHolds == Spec => []OneHolder
<1>1. QueueInv => OneHolder
  <2> SUFFICES ASSUME QueueInv PROVE OneHolder
    OBVIOUS
  <2>1. \A v, w \in Workers : HoldsClaim(v) /\ HoldsClaim(w) /\ held[v] = held[w] => v = w
    BY DEF QueueInv, Holdings, HoldsClaim
  <2>2. \A j \in Jobs : token[j] # 0 <=> state[j] = "running"
    BY DEF QueueInv, Claims
  <2> QED
    BY <2>1, <2>2 DEF OneHolder
<1> QED
  BY <1>1, QueueInvInit, QueueInvNext, PTL DEF Spec

\* A committed draft belongs to a generation that succeeded, or that a cancel
\* closed behind it; it never belongs to an attempt that is done again.
THEOREM DraftSettlesJobHolds == Spec => []DraftSettlesJob
<1>1. QueueInv => DraftSettlesJob
  BY DEF QueueInv
<1> QED
  BY <1>1, QueueInvInit, QueueInvNext, PTL DEF Spec

\* No step reopens a job that has ended or takes an attempt back.
THEOREM EndedStaysEndedHolds == Spec => EndedStaysEnded
<1> DEFINE Ended == \A j \in Jobs :
              /\ state[j] = "canceled" => state'[j] = "canceled"
              /\ state[j] = "succeeded" => state'[j] \in EndStates
              /\ attempts'[j] >= attempts[j]
<1>1. QueueInv /\ [Next]_vars => [Ended]_vars
  <2> SUFFICES ASSUME QueueInv, Next PROVE Ended
    OBVIOUS
  <2>0. attempts \in [Jobs -> Int] /\ state \in [Jobs -> JobStates]
    BY Numbers DEF QueueInv, TypeOK
  <2> USE <2>0 DEF EndStates
  <2>1. ASSUME NEW j \in Jobs, NEW s \in Specs, Enqueue(j, s) PROVE Ended
    BY <2>1 DEF Enqueue
  <2>2. ASSUME NEW j \in Jobs, CancelRead(j) \/ CancelWrite(j) \/ Retry(j) \/ LeaseLapses(j)
        PROVE  Ended
    BY <2>2 DEF CancelRead, CancelWrite, Retry, Retryable, LeaseLapses, jobVars
  <2>3. CASE NewDay \/ \E o \in Owners : SwitchAutomatic(o)
    BY <2>3 DEF NewDay, SwitchAutomatic, jobVars
  <2>4. ASSUME NEW w \in Workers, Work(w) \/ Crash(w) PROVE Ended
    <3>1. ASSUME NEW j \in Jobs, Claim(w, j) PROVE Ended
      BY <3>1 DEF Claim, Claimable, FailedOut, Exhausted
    <3>2. CASE ClaimNothing(w)
      BY <3>2 DEF ClaimNothing, FailedOut, Exhausted
    <3>3. CASE ActiveRead(w) \/ ActiveWrite(w) \/ Begin(w) \/ CallDraft(w) \/ CallRow(w)
               \/ Graded(w) \/ SaveRefused(w) \/ Crash(w)
      BY <3>3 DEF ActiveRead, ActiveWrite, Begin, CallDraft, CallRow, Graded, SaveRefused,
         Crash, jobVars
    <3>4. CASE SaveDraft(w)
      BY <3>4 DEF SaveDraft, SavedState, HoldsClaim
    <3>5. ASSUME NEW outcome, Finish(w, outcome) PROVE Ended
      BY <3>5 DEF Finish, HoldsClaim
    <3> QED
      BY <2>4, <3>1, <3>2, <3>3, <3>4, <3>5 DEF Work, FinishResult, FinishError
  <2> QED
    BY <2>1, <2>2, <2>3, <2>4 DEF Next
<1> QED
  BY <1>1, QueueInvInit, QueueInvNext, PTL DEF Spec, EndedStaysEnded

\* A running job is completed only by the worker that holds its claim, and
\* failed only by that worker or by a claim that finds no attempt left.
THEOREM SettledByHolderHolds == Spec => SettledByHolder
<1> DEFINE Settled == \A j \in Jobs :
              state[j] = "running" /\ state'[j] \in {"succeeded", "failed"} =>
                 \/ \E w \in Workers :
                       held[w] = j /\ claim[w] = token[j] /\ at[w] # "idle" /\ at'[w] = "idle"
                 \/ state'[j] = "failed" /\ j \in lapsed /\ attempts[j] = MaxAttempts
<1>1. QueueInv /\ [Next]_vars => [Settled]_vars
  <2> SUFFICES ASSUME QueueInv, Next PROVE Settled
    OBVIOUS
  <2>0. /\ state \in [Jobs -> JobStates] /\ at \in [Workers -> Places]
        /\ \A j \in Jobs : attempts[j] \in 0..MaxAttempts
    BY DEF QueueInv, TypeOK
  <2>1. ASSUME NEW j \in Jobs, NEW s \in Specs, Enqueue(j, s) PROVE Settled
    BY <2>0, <2>1 DEF Enqueue
  <2>2. ASSUME NEW j \in Jobs, CancelRead(j) \/ CancelWrite(j) \/ Retry(j) \/ LeaseLapses(j)
        PROVE  Settled
    BY <2>0, <2>2 DEF CancelRead, CancelWrite, Retry, LeaseLapses, jobVars
  <2>3. CASE NewDay \/ \E o \in Owners : SwitchAutomatic(o)
    BY <2>3 DEF NewDay, SwitchAutomatic, jobVars
  <2>4. ASSUME NEW w \in Workers, Work(w) \/ Crash(w) PROVE Settled
    <3>1. \A j \in Exhausted : j \in lapsed /\ attempts[j] = MaxAttempts
      BY <2>0, Numbers DEF Exhausted
    <3>2. ASSUME NEW j \in Jobs, Claim(w, j) PROVE Settled
      BY <2>0, <3>1, <3>2 DEF Claim, FailedOut
    <3>3. CASE ClaimNothing(w)
      BY <2>0, <3>1, <3>3 DEF ClaimNothing, FailedOut
    <3>4. CASE ActiveRead(w) \/ ActiveWrite(w) \/ Begin(w) \/ CallDraft(w) \/ CallRow(w)
               \/ Graded(w) \/ SaveRefused(w) \/ Crash(w)
      BY <3>4 DEF ActiveRead, ActiveWrite, Begin, CallDraft, CallRow, Graded, SaveRefused,
         Crash, jobVars
    <3>5. CASE SaveDraft(w)
      BY <2>0, <3>5 DEF SaveDraft, SavedState, Checked, HoldsClaim, Leave
    <3>6. ASSUME NEW outcome, at[w] # "idle", Finish(w, outcome) PROVE Settled
      BY <2>0, <3>6 DEF Finish, HoldsClaim, Leave
    <3> QED
      BY <2>4, <3>2, <3>3, <3>4, <3>5, <3>6 DEF Work, FinishResult, FinishError, Checked
  <2> QED
    BY <2>1, <2>2, <2>3, <2>4 DEF Next
<1> QED
  BY <1>1, QueueInvInit, QueueInvNext, PTL DEF Spec, SettledByHolder
=============================================================================
