-------------------------- MODULE HostDispatchProofs --------------------------
(***************************************************************************)
(* Proofs, for any number of processes, requests and faults, of the safety *)
(* properties HostDispatch.cfg checks for two processes and two requests.  *)
(***************************************************************************)
EXTENDS HostDispatch, TLAPS

\* What a row promises by itself: what was written had been marked as sent, a
\* sent request is no longer deliverable, an expired one was not written, a
\* claim belongs to a row in work, and a claim outlives the deadline.
Rows ==
    \A d \in Requests :
        /\ copies[d] <= 1
        /\ copies[d] # 0 => d \in sent
        /\ d \in sent => state[d] \notin {"absent", "queued", "waiting_host", "canceled"}
        /\ state[d] = "expired" => copies[d] = 0
        /\ state[d] = "dispatching" => owner[d] # Null
        /\ owner[d] # Null => state[d] \in {"dispatching", "reconciling_acceptance", "accepted"}
        /\ d \in lapsed => age[d] # "fresh"

\* Requests are created in their order.
Created == \A d, e \in Requests : e < d /\ state[d] # "absent" => state[e] # "absent"

\* Every request before the one a worker processes has ended.
Behind(p) == \A e \in Requests : e < held[p] => state[e] \in TerminalStates

\* What the place of a worker says about the dispatch d it processes, with
\* its claim (owner = p) or without.
Knows(p, d) ==
    /\ at[p] \in {"claimed", "probe"} /\ owner[d] = p => d \notin sent
    /\ at[p] = "reclaimed" => age[d] # "fresh"
    /\ at[p] = "open" => d \in sent /\ copies[d] = 0 /\ state[d] # "expired"
    /\ owner[d] = p /\ state[d] = "accepted" =>
          at[p] \in {"stream", "observe", "found", "error"}
    /\ at[p] \in {"stream", "observe", "found"} => host[d] \in Observed
    /\ at[p] = "found" => host[d] = "answered"

Workers == \A p \in Procs : at[p] \in WorkPlaces => Behind(p) /\ Knows(p, held[p])

\* At most one worker is about to write a request.
OneWriter ==
    \A p, q \in Procs : at[p] = "open" /\ at[q] = "open" /\ held[p] = held[q] => p = q

\* The inductive invariant.
DispatchInv == TypeOK /\ Rows /\ Created /\ Workers /\ OneWriter /\ OutcomeIsReal

-----------------------------------------------------------------------------
\* The constants are numbers, and Null is neither a request nor a process.
LEMMA Numbers ==
    Requests \subseteq Int /\ Null \notin Requests /\ Null \notin Procs /\ MaxFaults \in Nat
BY BoundAssumption, NullAssumption DEF Requests

\* What a worker knows stays true while nobody touches its dispatch.
LEMMA KnowsStays ==
    ASSUME NEW q \in Procs, Knows(q, held[q]), at'[q] = at[q], held'[q] = held[q],
           state'[held[q]] = state[held[q]], owner'[held[q]] = owner[held[q]],
           held[q] \in sent' <=> held[q] \in sent, age'[held[q]] = age[held[q]],
           copies'[held[q]] = copies[held[q]], host'[held[q]] = host[held[q]]
    PROVE  Knows(q, held[q])'
BY DEF Knows

\* The store calls by which a worker gives up its claim: the row gets the
\* state s and the worker loops.  A state that says nothing was sent is given
\* only from a place where nothing was.
Release(p, s) ==
    /\ Holds(p) /\ Drop(p)
    /\ state' = [state EXCEPT ![held[p]] = s]
    /\ owner' = [owner EXCEPT ![held[p]] = Null]
    /\ lapsed' = lapsed \ {held[p]}
    /\ sent' = IF s = "waiting_host" THEN sent \ {held[p]} ELSE sent
    /\ due' \in {due, due \ {held[p]}}
    /\ UNCHANGED <<age, hostVars, calling, faults>>

\* Giving up a claim keeps the invariant, whatever state the row is given.
LEMMA ReleaseStep ==
    ASSUME DispatchInv, NEW p \in Procs, NEW s, Release(p, s),
           s \in {"waiting_host", "reconciling_acceptance", "accepted"}
                     \cup (TerminalStates \ {"canceled"}),
           s \in {"waiting_host", "expired"} => at[p] \in {"claimed", "probe", "open"},
           s \in {"accepted", "result_unknown"} => host[held[p]] \in Observed,
           s = "completed" => host[held[p]] = "answered",
           s = "failed" => host[held[p]] = "broke"
    PROVE  DispatchInv'
<1> DEFINE d == held[p]
<1>1. d \in Requests /\ owner[d] = p /\ at[p] \in WorkPlaces
  BY Numbers DEF DispatchInv, TypeOK, Release, Holds
<1>2. s \in {"waiting_host", "expired"} => copies[d] = 0 /\ (d \in sent => at[p] = "open")
  BY <1>1 DEF DispatchInv, Workers, Knows, Rows
<1>3. TypeOK'
  <2>1. /\ state' \in [Requests -> {"absent"} \cup ActiveStates \cup TerminalStates]
        /\ owner' \in [Requests -> Procs \cup {Null}]
    BY <1>1 DEF DispatchInv, TypeOK, Release, ActiveStates
  <2>2. lapsed' \in SUBSET Requests /\ due' \in SUBSET Requests /\ sent' \in SUBSET Requests
    BY DEF DispatchInv, TypeOK, Release
  <2>3. /\ at' \in [Procs -> Places] /\ held' \in [Procs -> Requests \cup {Null}]
        /\ \A q \in Procs : held'[q] = Null <=> at'[q] \notin WorkPlaces
    BY DEF DispatchInv, TypeOK, Release, Drop, Places, WorkPlaces
  <2>4. QED BY <2>1, <2>2, <2>3 DEF DispatchInv, TypeOK, Release, hostVars
<1>4. Rows'
  BY <1>1, <1>2, Numbers DEF DispatchInv, TypeOK, Rows, Release, TerminalStates, hostVars
<1>5. Created'
  <2>1. \A e \in Requests : state'[e] = "absent" <=> state[e] = "absent"
    BY <1>1, Numbers DEF DispatchInv, TypeOK, Rows, Release, TerminalStates
  <2>2. QED BY <2>1 DEF DispatchInv, Created
<1>6. Workers'
  <2> SUFFICES ASSUME NEW q \in Procs, at'[q] \in WorkPlaces
               PROVE  Behind(q)' /\ Knows(q, held[q])'
    BY DEF Workers
  <2>1. q # p /\ at'[q] = at[q] /\ held'[q] = held[q] /\ held[q] \in Requests
    BY DEF DispatchInv, TypeOK, Release, Drop, WorkPlaces
  <2>2. Behind(q) /\ Knows(q, held[q])
    BY <2>1 DEF DispatchInv, Workers
  <2>3. Behind(q)'
    BY <1>1, <2>1, <2>2, Numbers DEF DispatchInv, TypeOK, Rows, Behind, Release, TerminalStates
  <2>4. CASE held[q] # d
    <3>1. /\ state'[held[q]] = state[held[q]] /\ owner'[held[q]] = owner[held[q]]
          /\ held[q] \in sent' <=> held[q] \in sent
          /\ age' = age /\ copies' = copies /\ host' = host
      BY <2>1, <2>4 DEF DispatchInv, TypeOK, Release, hostVars
    <3>2. QED BY <2>1, <2>2, <2>3, <3>1, KnowsStays
  <2>5. CASE held[q] = d
    <3>1. owner'[d] = Null /\ age' = age /\ copies' = copies /\ host' = host
      BY <1>1 DEF DispatchInv, TypeOK, Release, hostVars
    <3>2. at[q] = "open" => d \in sent' /\ state'[d] # "expired"
      BY <1>1, <1>2, <2>1, <2>2, <2>5 DEF DispatchInv, TypeOK, Knows, OneWriter, Release
    <3>3. QED BY <2>1, <2>2, <2>3, <2>5, <3>1, <3>2, Numbers DEF Knows
  <2>6. QED BY <2>4, <2>5
<1>7. OneWriter'
  BY DEF DispatchInv, TypeOK, OneWriter, Release, Drop
<1>8. OutcomeIsReal'
  BY <1>1 DEF DispatchInv, TypeOK, OutcomeIsReal, Release, hostVars, Observed
<1>9. QED BY <1>3, <1>4, <1>5, <1>6, <1>7, <1>8 DEF DispatchInv

\* finish_host_dispatch, with what its callers have established.
LEMMA ConcludeStep ==
    ASSUME DispatchInv, NEW p \in Procs, NEW s \in TerminalStates \ {"canceled"}, Conclude(p, s),
           s = "expired" => at[p] = "claimed",
           s = "result_unknown" => host[held[p]] \in Observed,
           s = "completed" => host[held[p]] = "answered",
           s = "failed" => host[held[p]] = "broke"
    PROVE  DispatchInv'
<1>1. Release(p, s)
  BY DEF Release, Conclude, Finish, TerminalStates
<1>2. QED BY <1>1, ReleaseStep DEF TerminalStates

\* mark_host_dispatch_waiting, called before anything was written.
LEMMA DeferStep ==
    ASSUME DispatchInv, NEW p \in Procs, Defer(p), at[p] \in {"probe", "open"}
    PROVE  DispatchInv'
<1>1. CASE age[held[p]] = "fresh"
  <2>1. Release(p, "waiting_host")  BY <1>1 DEF Defer, Release
  <2>2. QED BY <2>1, ReleaseStep
<1>2. CASE age[held[p]] # "fresh"
  <2>1. Release(p, "expired")  BY <1>2 DEF Defer, Finish, Release
  <2>2. QED BY <2>1, ReleaseStep DEF TerminalStates
<1>3. QED BY <1>1, <1>2

\* defer_host_dispatch_reconciliation.
LEMMA DeferReconciliationStep ==
    ASSUME DispatchInv, NEW p \in Procs, DeferReconciliation(p)
    PROVE  DispatchInv'
<1>1. CASE age[held[p]] = "fresh"
  <2>1. Release(p, "reconciling_acceptance")  BY <1>1 DEF DeferReconciliation, Release
  <2>2. QED BY <2>1, ReleaseStep
<1>2. CASE age[held[p]] # "fresh"
  <2>1. Release(p, "acceptance_unknown")  BY <1>2 DEF DeferReconciliation, Finish, Release
  <2>2. QED BY <2>1, ReleaseStep DEF TerminalStates
<1>3. QED BY <1>1, <1>2

\* defer_host_dispatch_result.
LEMMA DeferResultStep ==
    ASSUME DispatchInv, NEW p \in Procs, DeferResult(p)
    PROVE  DispatchInv'
<1>1. Release(p, "accepted")
  BY DEF DispatchInv, TypeOK, DeferResult, Release, Holds
<1>2. host[held[p]] \in Observed
  BY DEF DispatchInv, OutcomeIsReal, DeferResult, Holds
<1>3. QED BY <1>1, <1>2, ReleaseStep

\* A worker leaves its dispatch and the row as it is.
LEMMA DropStep ==
    ASSUME DispatchInv, NEW p \in Procs, Drop(p), UNCHANGED <<rowVars, hostVars, calling>>,
           faults' \in 0..MaxFaults
    PROVE  DispatchInv'
<1>1. TypeOK'
  BY DEF DispatchInv, TypeOK, Drop, rowVars, hostVars, Places, WorkPlaces
<1>2. Rows' /\ Created' /\ OutcomeIsReal'
  BY DEF DispatchInv, Rows, Created, OutcomeIsReal, rowVars, hostVars
<1>3. Workers' /\ OneWriter'
  BY DEF DispatchInv, TypeOK, Workers, Behind, Knows, OneWriter, Drop, rowVars, hostVars, WorkPlaces
<1>4. QED BY <1>1, <1>2, <1>3 DEF DispatchInv

\* The attempt is recorded: no other worker can be about to write, because
\* that one would have recorded its own attempt.
LEMMA RecordAttemptStep ==
    ASSUME DispatchInv, NEW p \in Procs, RecordAttempt(p)
    PROVE  DispatchInv'
<1> DEFINE d == held[p]
<1>1. d \in Requests /\ owner[d] = p /\ at[p] = "probe" /\ at[p] \in WorkPlaces
  BY DEF RecordAttempt, Holds, WorkPlaces
<1>2. d \notin sent /\ copies[d] = 0 /\ state[d] \in {"dispatching", "reconciling_acceptance"}
  <2>1. Knows(p, d)
    BY <1>1 DEF DispatchInv, Workers
  <2>2. QED BY <1>1, <2>1, Numbers DEF DispatchInv, TypeOK, Knows, Rows
<1>3. TypeOK'
  BY <1>1 DEF DispatchInv, TypeOK, RecordAttempt, Go, hostVars, ActiveStates, Places, WorkPlaces
<1>4. \A e \in Requests :
         state'[e] # state[e] => {state[e], state'[e]} = {"dispatching", "reconciling_acceptance"}
  BY <1>1, <1>2 DEF DispatchInv, TypeOK, RecordAttempt
<1>5. Rows' /\ Created' /\ OutcomeIsReal'
  BY <1>1, <1>2, <1>4, Numbers DEF DispatchInv, TypeOK, Rows, Created, OutcomeIsReal, RecordAttempt, hostVars
<1>6. Workers'
  <2> SUFFICES ASSUME NEW q \in Procs, at'[q] \in WorkPlaces
               PROVE  Behind(q)' /\ Knows(q, held[q])'
    BY DEF Workers
  <2>1. at[q] \in WorkPlaces /\ held'[q] = held[q] /\ held[q] \in Requests
    BY <1>1 DEF DispatchInv, TypeOK, RecordAttempt, Go
  <2>2. Behind(q) /\ Knows(q, held[q])
    BY <2>1 DEF DispatchInv, Workers
  <2>3. Behind(q)'
    BY <1>4, <2>1, <2>2 DEF Behind, TerminalStates
  <2>4. Knows(q, held[q])'
    BY <1>1, <1>2, <1>4, <2>1, <2>2 DEF DispatchInv, TypeOK, Knows, RecordAttempt, Go, hostVars
  <2>5. QED BY <2>3, <2>4
<1>7. OneWriter'
  <2>1. \A q \in Procs : at[q] = "open" => held[q] \in sent
    BY DEF DispatchInv, Workers, Knows, WorkPlaces
  <2>2. QED BY <1>1, <1>2, <2>1 DEF DispatchInv, TypeOK, OneWriter, RecordAttempt, Go
<1>8. QED BY <1>3, <1>5, <1>6, <1>7 DEF DispatchInv

\* The request is written: it was marked as sent and written by nobody, and
\* no other worker is about to write it.
LEMMA WriteFrameStep ==
    ASSUME DispatchInv, NEW p \in Procs, WriteFrame(p)
    PROVE  DispatchInv'
<1> DEFINE d == held[p]
<1>1. d \in Requests /\ at[p] = "open" /\ d \in sent /\ copies[d] = 0 /\ state[d] # "expired"
  BY DEF DispatchInv, TypeOK, Workers, Knows, WriteFrame, WorkPlaces
<1>2. /\ copies' = [copies EXCEPT ![d] = 1]
      /\ \A e \in Requests : host[e] \in Observed => host'[e] = host[e]
  BY <1>1 DEF DispatchInv, TypeOK, WriteFrame, Observed
<1>3. TypeOK'
  BY <1>1 DEF DispatchInv, TypeOK, WriteFrame, Go, rowVars, HostStates, Places, WorkPlaces
<1>4. Rows' /\ Created' /\ OutcomeIsReal'
  BY <1>1, <1>2 DEF DispatchInv, TypeOK, Rows, Created, OutcomeIsReal, WriteFrame, rowVars, Observed
<1>5. Workers'
  <2> SUFFICES ASSUME NEW q \in Procs, at'[q] \in WorkPlaces
               PROVE  Behind(q)' /\ Knows(q, held[q])'
    BY DEF Workers
  <2>1. at[q] \in WorkPlaces /\ held'[q] = held[q] /\ held[q] \in Requests
    BY <1>1 DEF DispatchInv, TypeOK, WriteFrame, Go, WorkPlaces
  <2>2. Behind(q) /\ Knows(q, held[q])
    BY <2>1 DEF DispatchInv, Workers
  <2>3. Behind(q)'
    BY <2>1, <2>2 DEF Behind, WriteFrame, rowVars
  <2>4. Knows(q, held[q])'
    BY <1>1, <1>2, <2>1, <2>2
       DEF DispatchInv, TypeOK, Knows, OneWriter, WriteFrame, Go, rowVars, Observed
  <2>5. QED BY <2>3, <2>4
<1>6. OneWriter'
  BY DEF DispatchInv, TypeOK, OneWriter, WriteFrame, Go
<1>7. QED BY <1>3, <1>4, <1>5, <1>6 DEF DispatchInv

-----------------------------------------------------------------------------
\* A worker moves to another place of its loop, with no dispatch.
LEMMA IdleSteps ==
    ASSUME DispatchInv, NEW p \in Procs,
           \/ EnsureWorker(p) \/ ClaimNothing(p) \/ Look(p) \/ Leave(p)
           \/ \E d \in Requests : Repeat(p, d)
    PROVE  DispatchInv'
<1>1. /\ UNCHANGED <<rowVars, hostVars, held, faults>> /\ calling' \in SUBSET Procs
      /\ at' \in [Procs -> Places]
      /\ \A q \in Procs : at'[q] # at[q] => {at[q], at'[q]} \cap WorkPlaces = {}
  BY DEF DispatchInv, TypeOK, EnsureWorker, ClaimNothing, Look, Leave, Repeat, Ensured, Go,
         Places, WorkPlaces
<1>2. TypeOK'
  BY <1>1 DEF DispatchInv, TypeOK, rowVars, hostVars
<1>3. Rows' /\ Created' /\ OutcomeIsReal'
  BY <1>1 DEF DispatchInv, Rows, Created, OutcomeIsReal, rowVars, hostVars
<1>4. Workers' /\ OneWriter'
  <2>1. \A q \in Procs : at'[q] \in WorkPlaces => at'[q] = at[q]
    BY <1>1
  <2>2. QED BY <1>1, <2>1 DEF DispatchInv, Workers, Behind, Knows, OneWriter, WorkPlaces,
                              rowVars, hostVars
<1>5. QED BY <1>2, <1>3, <1>4 DEF DispatchInv

\* A worker goes on inside _process_host_dispatch without a store call.
LEMMA MoveSteps ==
    ASSUME DispatchInv, NEW p \in Procs,
           InTime(p) \/ EndsUnaccepted(p) \/ StreamLost(p) \/ Throw(p)
    PROVE  DispatchInv'
<1>1. /\ UNCHANGED <<rowVars, hostVars, held, calling>> /\ faults' \in 0..MaxFaults
      /\ at[p] \in WorkPlaces /\ \E x \in WorkPlaces \ {"open", "found"} : at' = [at EXCEPT ![p] = x]
      /\ at'[p] = "probe" => at[p] \in {"claimed", "reclaimed"} /\ age[held[p]] = "fresh"
      /\ at'[p] \in {"stream", "observe"} => at[p] = "stream"
      /\ at'[p] \notin {"claimed", "reclaimed"}
      /\ at[p] \in {"stream", "observe", "found", "error"} => at'[p] \in {"observe", "error"}
  BY Numbers DEF DispatchInv, TypeOK, InTime, EndsUnaccepted, StreamLost, Throw, Go, WorkPlaces
<1>2. TypeOK'
  BY <1>1 DEF DispatchInv, TypeOK, rowVars, hostVars, Places
<1>3. Rows' /\ Created' /\ OutcomeIsReal'
  BY <1>1 DEF DispatchInv, Rows, Created, OutcomeIsReal, rowVars, hostVars
<1>4. Workers'
  BY <1>1 DEF DispatchInv, TypeOK, Workers, Behind, Knows, WorkPlaces, rowVars, hostVars
<1>5. OneWriter'
  BY <1>1 DEF DispatchInv, TypeOK, OneWriter, WorkPlaces
<1>6. QED BY <1>2, <1>3, <1>4, <1>5 DEF DispatchInv

\* A request is created behind the existing ones.
LEMMA AcceptStep ==
    ASSUME DispatchInv, NEW p \in Procs, NEW d \in Requests, Accept(p, d)
    PROVE  DispatchInv'
<1>1. TypeOK'
  BY DEF DispatchInv, TypeOK, Accept, ActiveStates, hostVars, workerVars
<1>2. Rows' /\ Created' /\ OutcomeIsReal'
  BY Numbers DEF DispatchInv, TypeOK, Rows, Created, OutcomeIsReal, Accept, hostVars
<1>3. Workers' /\ OneWriter'
  BY Numbers DEF DispatchInv, TypeOK, Rows, Workers, Behind, Knows, OneWriter, Accept,
                 TerminalStates, hostVars, workerVars
<1>4. QED BY <1>1, <1>2, <1>3 DEF DispatchInv

\* Only an unclaimed, unsent request can be canceled.
LEMMA CancelStep ==
    ASSUME DispatchInv, NEW d \in Requests, Cancel(d)
    PROVE  DispatchInv'
<1>1. TypeOK'
  BY DEF DispatchInv, TypeOK, Cancel, Finish, TerminalStates, hostVars, workerVars
<1>2. Rows' /\ Created' /\ OutcomeIsReal'
  BY Numbers DEF DispatchInv, TypeOK, Rows, Created, OutcomeIsReal, Cancel, Finish, hostVars
<1>3. Workers' /\ OneWriter'
  BY Numbers DEF DispatchInv, TypeOK, Rows, Workers, Behind, Knows, OneWriter, Cancel, Finish,
                 TerminalStates, hostVars, workerVars
<1>4. QED BY <1>1, <1>2, <1>3 DEF DispatchInv

\* The oldest active dispatch is claimed, so those before it have ended; an
\* owner whose claim lapsed is past the deadline.
LEMMA ClaimStep ==
    ASSUME DispatchInv, NEW p \in Procs, NEW d \in Requests, Claim(p, d)
    PROVE  DispatchInv'
<1>1. state[d] \in ActiveStates /\ \A e \in Requests : e < d => state[e] \in TerminalStates
  <2>1. d \in Active /\ \A e \in Active : d <= e
    BY DEF Claim, Claimable, Head
  <2>2. QED BY <2>1, Numbers DEF DispatchInv, TypeOK, Created, Active, ActiveStates
<1>2. d \in sent /\ state[d] \notin {"accepted", "reconciling_acceptance"} => d \in lapsed
  BY <1>1 DEF DispatchInv, Rows, Claim, Claimable, ActiveStates
<1>3. TypeOK'
  BY Numbers DEF DispatchInv, TypeOK, Claim, Entry, Go, ActiveStates, Places, WorkPlaces, hostVars
<1>4. Rows' /\ Created' /\ OutcomeIsReal'
  BY <1>1, Numbers DEF DispatchInv, TypeOK, Rows, Created, OutcomeIsReal, Claim, Claimable,
                       ActiveStates, hostVars
<1>5. Workers'
  <2> SUFFICES ASSUME NEW q \in Procs, at'[q] \in WorkPlaces
               PROVE  Behind(q)' /\ Knows(q, held[q])'
    BY DEF Workers
  <2>1. CASE q = p
    <3>1. held'[p] = d /\ at'[p] = Entry(d)
      BY DEF DispatchInv, TypeOK, Claim, Go
    <3>2. Behind(p)'
      BY <1>1, <3>1, Numbers DEF DispatchInv, TypeOK, Behind, Claim
    <3>3. Knows(p, held[p])'
      BY <1>1, <1>2, <3>1 DEF DispatchInv, TypeOK, Rows, OutcomeIsReal, Knows, Claim, Entry,
                              ActiveStates, hostVars
    <3>4. QED BY <2>1, <3>2, <3>3
  <2>2. CASE q # p
    <3>1. at'[q] = at[q] /\ held'[q] = held[q] /\ held[q] \in Requests /\ Behind(q) /\ Knows(q, held[q])
      BY <2>2 DEF DispatchInv, TypeOK, Workers, Claim, Go
    <3>2. Behind(q)'
      BY <1>1, <3>1, Numbers DEF DispatchInv, TypeOK, Behind, Claim, TerminalStates
    <3>3. Knows(q, held[q])'
      BY <1>1, <2>2, <3>1 DEF DispatchInv, TypeOK, Knows, Claim, ActiveStates, hostVars
    <3>4. QED BY <3>2, <3>3
  <2>3. QED BY <2>1, <2>2
<1>6. OneWriter'
  BY DEF DispatchInv, TypeOK, OneWriter, Claim, Entry, Go
<1>7. QED BY <1>3, <1>4, <1>5, <1>6 DEF DispatchInv

\* The holder of the claim records that the host has the request, or that it
\* may have it.
LEMMA ReachedSteps ==
    ASSUME DispatchInv, NEW p \in Procs, AnswerLost(p) \/ Accepted(p) \/ FoundRun(p)
    PROVE  DispatchInv'
<1> DEFINE d == held[p]
<1>1. PICK s \in {"reconciling_acceptance", "accepted"}, x \in {"reconcile", "stream", "found", "observe"} :
        /\ state' = [state EXCEPT ![d] = s] /\ at' = [at EXCEPT ![p] = x]
        /\ s = "accepted" => host[d] \in Observed
        /\ s = "accepted" <=> x # "reconcile"
        /\ x = "found" => host[d] = "answered"
  BY DEF AnswerLost, Accepted, FoundRun, MarkAccepted, Go
<1>2. d \in Requests /\ owner[d] = p /\ at[p] \in WorkPlaces
  BY DEF AnswerLost, Accepted, FoundRun, MarkAccepted, Holds, WorkPlaces
<1>3. UNCHANGED <<sent, owner, lapsed, due, age, copies, host, held, calling, faults>>
  BY DEF AnswerLost, Accepted, FoundRun, MarkAccepted, hostVars
<1>4. state[d] \in {"dispatching", "reconciling_acceptance", "accepted"}
  BY <1>2, Numbers DEF DispatchInv, Rows
<1>5. TypeOK'
  BY <1>1, <1>2, <1>3 DEF DispatchInv, TypeOK, ActiveStates, Places, WorkPlaces
<1>6. Rows' /\ Created' /\ OutcomeIsReal'
  BY <1>1, <1>2, <1>3, <1>4, Numbers DEF DispatchInv, TypeOK, Rows, Created, OutcomeIsReal
<1>7. Workers'
  <2> SUFFICES ASSUME NEW q \in Procs, at'[q] \in WorkPlaces
               PROVE  Behind(q)' /\ Knows(q, held[q])'
    BY DEF Workers
  <2>1. held'[q] = held[q] /\ held[q] \in Requests /\ Behind(q) /\ Knows(q, held[q])
    BY <1>1, <1>2, <1>3 DEF DispatchInv, TypeOK, Workers
  <2>2. Behind(q)'
    BY <1>1, <1>2, <1>4, <2>1, Numbers DEF DispatchInv, TypeOK, Behind, TerminalStates
  <2>3. Knows(q, held[q])'
    BY <1>1, <1>2, <1>3, <1>4, <2>1 DEF DispatchInv, TypeOK, Knows
  <2>4. QED BY <2>2, <2>3
<1>8. OneWriter'
  BY <1>1, <1>3 DEF DispatchInv, TypeOK, OneWriter
<1>9. QED BY <1>5, <1>6, <1>7, <1>8 DEF DispatchInv

-----------------------------------------------------------------------------
\* A crash forgets the worker and leaves every row.
LEMMA CrashStep ==
    ASSUME DispatchInv, NEW p \in Procs, Crash(p)
    PROVE  DispatchInv'
<1>1. TypeOK'
  <2>1. faults' \in 0..MaxFaults /\ calling' \in SUBSET Procs
    BY Numbers DEF DispatchInv, TypeOK, Crash
  <2>2. QED BY <2>1 DEF DispatchInv, TypeOK, Crash, Places, WorkPlaces, rowVars, hostVars
<1>2. Rows' /\ Created' /\ OutcomeIsReal'
  BY DEF DispatchInv, Rows, Created, OutcomeIsReal, Crash, rowVars, hostVars
<1>3. Workers' /\ OneWriter'
  BY DEF DispatchInv, TypeOK, Workers, Behind, Knows, OneWriter, Crash, WorkPlaces, rowVars, hostVars
<1>4. QED BY <1>1, <1>2, <1>3 DEF DispatchInv

\* A restart takes every claim, also that of a worker about to write; what
\* was marked as sent stays marked and becomes doubtful, not deliverable.
LEMMA StartStep ==
    ASSUME DispatchInv, NEW p \in Procs, Start(p)
    PROVE  DispatchInv'
<1>1. \A d \in Requests :
        /\ state'[d] = Recovered(d)
        /\ owner'[d] = Null
        /\ state[d] # "dispatching" => state'[d] = state[d]
        /\ state[d] = "dispatching" => state'[d] = IF d \in sent THEN "reconciling_acceptance" ELSE "waiting_host"
  BY DEF DispatchInv, TypeOK, Rows, Start, Recovered, Active, ActiveStates
<1>2. TypeOK'
  <2>1. state' \in [Requests -> {"absent"} \cup ActiveStates \cup TerminalStates]
    BY DEF DispatchInv, TypeOK, Start, Recovered, ActiveStates
  <2>2. owner' \in [Requests -> Procs \cup {Null}]
    BY DEF DispatchInv, TypeOK, Start
  <2>3. /\ at' \in [Procs -> Places]
        /\ \A q \in Procs : held'[q] = Null <=> at'[q] \notin WorkPlaces
    BY DEF DispatchInv, TypeOK, Start, Go, Places, WorkPlaces
  <2>4. QED BY <2>1, <2>2, <2>3 DEF DispatchInv, TypeOK, Start, hostVars
<1>3. Rows'
  BY <1>1 DEF DispatchInv, TypeOK, Rows, Start, hostVars
<1>4. Created' /\ OutcomeIsReal'
  BY <1>1 DEF DispatchInv, Created, OutcomeIsReal, Start, hostVars
<1>5. Workers'
  <2> SUFFICES ASSUME NEW q \in Procs, at'[q] \in WorkPlaces
               PROVE  Behind(q)' /\ Knows(q, held[q])'
    BY DEF Workers
  <2>1. /\ at'[q] = at[q] /\ held'[q] = held[q] /\ held[q] \in Requests
        /\ Behind(q) /\ Knows(q, held[q])
    BY DEF DispatchInv, TypeOK, Workers, Start, Go, WorkPlaces
  <2>2. Behind(q)'
    BY <1>1, <2>1 DEF Behind, TerminalStates
  <2>3. Knows(q, held[q])'
    BY <1>1, <2>1, Numbers DEF Knows, Start, hostVars
  <2>4. QED BY <2>2, <2>3
<1>6. OneWriter'
  BY DEF DispatchInv, TypeOK, OneWriter, Start, Go
<1>7. QED BY <1>2, <1>3, <1>4, <1>5, <1>6 DEF DispatchInv

\* Time passes: the workers know less only of what has lapsed.
LEMMA TimeSteps ==
    ASSUME DispatchInv,
           \/ \E d \in Requests : ComeDue(d) \/ Pass(d) \/ Lapse(d)
           \/ \E p \in Procs : Overrun(p)
    PROVE  DispatchInv'
<1>1. UNCHANGED <<state, sent, owner, copies, host, at, held, calling>>
  BY DEF ComeDue, Pass, Lapse, Overrun, hostVars, workerVars
<1>2. /\ due' \in SUBSET Requests /\ lapsed' \in SUBSET Requests /\ faults' \in 0..MaxFaults
      /\ age' \in [Requests -> {"fresh", "late", "stale"}]
  <2>1. CASE \E d \in Requests : ComeDue(d) \/ Pass(d) \/ Lapse(d)
    BY <2>1 DEF DispatchInv, TypeOK, ComeDue, Pass, Lapse
  <2>2. ASSUME NEW p \in Procs, Overrun(p)
        PROVE  lapsed' \in SUBSET Requests /\ faults' \in 0..MaxFaults /\ UNCHANGED <<due, age>>
    <3>1. lapsed' \in SUBSET Requests /\ UNCHANGED <<due, age>>
      BY <2>2 DEF DispatchInv, TypeOK, Overrun, Holds
    <3>2. faults' \in 0..MaxFaults
      BY <2>2, Numbers DEF DispatchInv, TypeOK, Overrun
    <3>3. QED BY <3>1, <3>2
  <2>3. QED BY <2>1, <2>2 DEF DispatchInv, TypeOK
<1>3. \A d \in Requests :
        /\ age[d] # "fresh" => age'[d] # "fresh"
        /\ d \in lapsed' => d \in lapsed \/ age[d] # "fresh"
  BY DEF DispatchInv, TypeOK, ComeDue, Pass, Lapse, Overrun
<1>4. TypeOK'
  BY <1>1, <1>2 DEF DispatchInv, TypeOK
<1>5. Rows' /\ Created' /\ OutcomeIsReal' /\ OneWriter'
  BY <1>1, <1>3 DEF DispatchInv, Rows, Created, OutcomeIsReal, OneWriter
<1>6. Workers'
  BY <1>1, <1>3 DEF DispatchInv, TypeOK, Workers, Behind, Knows
<1>7. QED BY <1>4, <1>5, <1>6 DEF DispatchInv

\* A run of the host does not end twice.
LEMMA HostStep ==
    ASSUME DispatchInv, NEW d \in Requests, Host(d)
    PROVE  DispatchInv'
<1>1. /\ UNCHANGED <<rowVars, copies, workerVars, calling, faults>>
      /\ host' \in [Requests -> HostStates]
      /\ \A e \in Requests : /\ host[e] \in Observed => host'[e] \in Observed
                             /\ host[e] \in {"answered", "broke"} => host'[e] = host[e]
  BY DEF DispatchInv, TypeOK, Host, HostStates, Observed
<1>2. TypeOK'
  BY <1>1 DEF DispatchInv, TypeOK, rowVars, workerVars
<1>3. Rows' /\ Created' /\ OneWriter' /\ OutcomeIsReal'
  BY <1>1 DEF DispatchInv, Rows, Created, OneWriter, OutcomeIsReal, rowVars, workerVars
<1>4. Workers'
  BY <1>1 DEF DispatchInv, TypeOK, Workers, Behind, Knows, rowVars, workerVars
<1>5. QED BY <1>2, <1>3, <1>4 DEF DispatchInv

-----------------------------------------------------------------------------
\* The empty table satisfies the invariant.
LEMMA InitInv == Init => DispatchInv
BY Numbers DEF Init, DispatchInv, TypeOK, Rows, Created, Workers, OneWriter, OutcomeIsReal,
               HostStates, Places, WorkPlaces

\* The steps of a worker.
LEMMA DeliverStep ==
    ASSUME DispatchInv, NEW p \in Procs, Deliver(p)
    PROVE  DispatchInv'
<1>1. CASE \E d \in Requests : Claim(p, d)
  BY <1>1, ClaimStep
<1>2. CASE ClaimNothing(p) \/ Look(p) \/ Leave(p)
  BY <1>2, IdleSteps
<1>3. CASE InTime(p) \/ EndsUnaccepted(p) \/ StreamLost(p)
  BY <1>3, MoveSteps
<1>4. CASE DeadlinePassed(p)
  BY <1>4, ConcludeStep DEF DeadlinePassed, TerminalStates
<1>5. CASE HostUnreachable(p) \/ ConnectFails(p)
  BY <1>5, DeferStep DEF HostUnreachable, ConnectFails
<1>6. CASE Undeliverable(p) \/ Refused(p) \/ SocketError(p) \/ Unresolvable(p)
  BY <1>6, ConcludeStep DEF Undeliverable, Refused, SocketError, Unresolvable, TerminalStates
<1>7. CASE RecordAttempt(p)
  BY <1>7, RecordAttemptStep
<1>8. CASE WriteFrame(p)
  BY <1>8, WriteFrameStep
<1>9. CASE AnswerLost(p) \/ Accepted(p) \/ FoundRun(p)
  BY <1>9, ReachedSteps
<1>10. CASE Ended(p)
  <2>1. at[p] = "found" => host[held[p]] = "answered"
    BY DEF DispatchInv, Workers, Knows, WorkPlaces
  <2>2. QED BY <1>10, <2>1, ConcludeStep DEF Ended, TerminalStates
<1>11. CASE DeferReconciliation(p)
  BY <1>11, DeferReconciliationStep
<1>12. CASE Observe(p)
  <2>1. at[p] = "observe" => host[held[p]] \in Observed
    BY DEF DispatchInv, Workers, Knows, WorkPlaces
  <2>2. QED BY <1>12, <2>1, ConcludeStep, DeferResultStep DEF Observe, TerminalStates
<1>13. CASE ClaimLost(p)
  BY <1>13, DropStep DEF ClaimLost, DispatchInv, TypeOK
<1>14. CASE HandleError(p)
  BY <1>14, ConcludeStep, DeferResultStep DEF HandleError, TerminalStates
<1>15. QED
  BY <1>1, <1>2, <1>3, <1>4, <1>5, <1>6, <1>7, <1>8, <1>9, <1>10, <1>11, <1>12, <1>13, <1>14
     DEF Deliver

\* The faults.
LEMMA FaultStep ==
    ASSUME DispatchInv, NEW p \in Procs, Fault(p)
    PROVE  DispatchInv'
<1>1. CASE Throw(p)
  BY <1>1, MoveSteps
<1>2. CASE ErrorUnrecorded(p)
  <2>1. faults' \in 0..MaxFaults
    BY <1>2, Numbers DEF ErrorUnrecorded, DispatchInv, TypeOK
  <2>2. QED BY <1>2, <2>1, DropStep DEF ErrorUnrecorded
<1>3. CASE Crash(p)
  BY <1>3, CrashStep
<1>4. CASE Overrun(p)
  BY <1>4, TimeSteps
<1>5. QED BY <1>1, <1>2, <1>3, <1>4 DEF Fault

\* Every step keeps the invariant.
LEMMA NextInv == DispatchInv /\ [Next]_vars => DispatchInv'
<1> SUFFICES ASSUME DispatchInv, [Next]_vars PROVE DispatchInv'
  OBVIOUS
<1>1. ASSUME NEW p \in Procs, NEW d \in Requests, Accept(p, d) PROVE DispatchInv'
  BY <1>1, AcceptStep
<1>2. ASSUME NEW p \in Procs, EnsureWorker(p) \/ \E d \in Requests : Repeat(p, d) PROVE DispatchInv'
  BY <1>2, IdleSteps
<1>3. ASSUME NEW p \in Procs, Deliver(p) \/ Fault(p) \/ Start(p) PROVE DispatchInv'
  BY <1>3, DeliverStep, FaultStep, StartStep
<1>4. ASSUME NEW d \in Requests, Cancel(d) \/ Host(d) PROVE DispatchInv'
  BY <1>4, CancelStep, HostStep
<1>5. ASSUME NEW d \in Requests, ComeDue(d) \/ Pass(d) \/ Lapse(d) PROVE DispatchInv'
  BY <1>5, TimeSteps
<1>6. CASE UNCHANGED vars
  BY <1>6 DEF vars, rowVars, hostVars, workerVars, DispatchInv, TypeOK, Rows, Created, Workers,
              Behind, Knows, OneWriter, OutcomeIsReal
<1>7. QED BY <1>1, <1>2, <1>3, <1>4, <1>5, <1>6 DEF Next

\* The inductive invariant holds in every reachable state.
THEOREM Invariance == Spec => []DispatchInv
BY InitInv, NextInv, PTL DEF Spec

\* Types, and a worker holds a dispatch exactly while it processes one.
THEOREM TypeCorrect == Spec => []TypeOK
<1>1. DispatchInv => TypeOK  BY DEF DispatchInv
<1>2. QED BY <1>1, Invariance, PTL

\* No request is written to the host twice.
THEOREM WrittenOnce == Spec => []OneCopy
<1>1. DispatchInv => OneCopy  BY DEF DispatchInv, Rows, OneCopy
<1>2. QED BY <1>1, Invariance, PTL

\* A request that is reported as not sent, or may be delivered again, has not
\* been written to the host.
THEOREM NotSentIsTrue == Spec => []NotEntered
<1>1. DispatchInv => NotEntered
  BY DEF DispatchInv, TypeOK, Rows, NotEntered
<1>2. QED BY <1>1, Invariance, PTL

\* The outcome shown to the user is one the host produced.
THEOREM Truthful == Spec => []OutcomeIsReal
<1>1. DispatchInv => OutcomeIsReal  BY DEF DispatchInv
<1>2. QED BY <1>1, Invariance, PTL

-----------------------------------------------------------------------------
\* The only action that writes to the host.
LEMMA OnlyWriteFrame ==
    ASSUME [Next]_vars
    PROVE  copies' = copies \/ \E p \in Procs : WriteFrame(p)
<1>1. ASSUME NEW p \in Procs, Deliver(p) PROVE copies' = copies \/ WriteFrame(p)
  BY <1>1 DEF Deliver, Claim, ClaimNothing, Look, Leave, DeadlinePassed, InTime, HostUnreachable,
              Undeliverable, RecordAttempt, ConnectFails, Refused, AnswerLost, SocketError,
              EndsUnaccepted, Accepted, Ended, StreamLost, FoundRun, DeferReconciliation,
              Unresolvable, Observe, ClaimLost, HandleError, MarkAccepted, DeferResult, Defer,
              Conclude, hostVars
<1>2. ASSUME NEW p \in Procs, Fault(p) \/ Start(p) \/ EnsureWorker(p) PROVE copies' = copies
  BY <1>2 DEF Fault, Throw, ErrorUnrecorded, Crash, Overrun, Start, EnsureWorker, hostVars
<1>3. ASSUME NEW p \in Procs, NEW d \in Requests, Accept(p, d) \/ Repeat(p, d) PROVE copies' = copies
  BY <1>3 DEF Accept, Repeat, hostVars
<1>4. ASSUME NEW d \in Requests, Cancel(d) \/ ComeDue(d) \/ Pass(d) \/ Lapse(d) \/ Host(d)
      PROVE  copies' = copies
  BY <1>4 DEF Cancel, ComeDue, Pass, Lapse, Host, hostVars
<1>5. CASE UNCHANGED vars
  BY <1>5 DEF vars, hostVars
<1>6. QED BY <1>1, <1>2, <1>3, <1>4, <1>5 DEF Next

\* Requests reach the host in the order in which they were accepted.
THEOREM WrittenInOrder == Spec => InOrder
<1>1. ASSUME DispatchInv, [Next]_vars, NEW d \in Requests, copies'[d] > copies[d]
      PROVE  \A e \in Requests : e < d => state[e] \in TerminalStates
  <2>1. copies' # copies
    BY <1>1 DEF DispatchInv, TypeOK
  <2>2. PICK p \in Procs : WriteFrame(p)
    BY <1>1, <2>1, OnlyWriteFrame
  <2>3. at[p] = "open" /\ held[p] = d
    BY <1>1, <2>2 DEF DispatchInv, TypeOK, WriteFrame
  <2>4. Behind(p)
    BY <1>1, <2>3 DEF DispatchInv, Workers, WorkPlaces
  <2>5. QED BY <2>3, <2>4 DEF Behind
<1>2. DispatchInv /\ [Next]_vars =>
        [\A d \in Requests :
            copies'[d] > copies[d] =>
                \A e \in Requests : e < d => state[e] \in TerminalStates]_vars
  BY <1>1
<1>3. QED BY <1>2, Invariance, PTL DEF Spec, InOrder

\* What NoWayBack says of one request and one step.
Onward(d) ==
    /\ state[d] = "accepted" => state'[d] \in {"accepted", "completed", "failed", "result_unknown"}
    /\ state[d] \in TerminalStates => state'[d] = state[d]

\* A worker changes only the row whose claim it holds, which is active, and
\* knows at each place whether that row is accepted.
LEMMA DeliverOnward ==
    ASSUME DispatchInv, NEW p \in Procs, Deliver(p), NEW d \in Requests
    PROVE  Onward(d)
<1>1. CASE \E e \in Requests : Claim(p, e)
  BY <1>1 DEF DispatchInv, TypeOK, Onward, Claim, Claimable, Head, Active, ActiveStates, TerminalStates
<1>2. CASE \/ ClaimNothing(p) \/ Look(p) \/ Leave(p) \/ InTime(p) \/ WriteFrame(p)
           \/ EndsUnaccepted(p) \/ StreamLost(p) \/ ClaimLost(p)
  BY <1>2 DEF Onward, ClaimNothing, Look, Leave, InTime, WriteFrame, EndsUnaccepted, StreamLost,
              ClaimLost, rowVars
<1>3. ASSUME Holds(p)
      PROVE  /\ held[p] \in Requests /\ at[p] \in WorkPlaces
             /\ state[held[p]] \notin TerminalStates
             /\ state[held[p]] = "accepted" => at[p] \in {"stream", "observe", "found", "error"}
  <2>1. held[p] \in Requests /\ owner[held[p]] = p /\ at[p] \in WorkPlaces
    BY <1>3, Numbers DEF DispatchInv, TypeOK, Holds
  <2>2. Knows(p, held[p])
    BY <2>1 DEF DispatchInv, Workers
  <2>3. QED BY <2>1, <2>2, Numbers DEF DispatchInv, Rows, Knows, TerminalStates
<1>4. ASSUME NEW s, Holds(p), state' = [state EXCEPT ![held[p]] = s],
             state[held[p]] = "accepted" => s \in {"accepted", "completed", "failed", "result_unknown"}
      PROVE  Onward(d)
  BY <1>3, <1>4 DEF DispatchInv, TypeOK, Onward
<1>5. CASE DeadlinePassed(p) \/ Undeliverable(p) \/ Refused(p) \/ SocketError(p) \/ Unresolvable(p)
  BY <1>3, <1>4, <1>5 DEF DeadlinePassed, Undeliverable, Refused, SocketError, Unresolvable,
                          Conclude, Finish
<1>6. CASE HostUnreachable(p) \/ ConnectFails(p)
  BY <1>3, <1>4, <1>6 DEF HostUnreachable, ConnectFails, Defer, Finish
<1>7. CASE RecordAttempt(p) \/ AnswerLost(p) \/ DeferReconciliation(p)
  BY <1>3, <1>4, <1>7 DEF RecordAttempt, AnswerLost, DeferReconciliation, Finish
<1>8. CASE Accepted(p) \/ FoundRun(p)
  BY <1>4, <1>8 DEF Accepted, FoundRun, MarkAccepted
<1>9. CASE Ended(p)
  BY <1>4, <1>9 DEF Ended, Conclude, Finish
<1>10. CASE Observe(p)
  BY <1>4, <1>10 DEF Observe, Onward, DeferResult, Conclude, Finish
<1>11. CASE HandleError(p)
  BY <1>4, <1>11 DEF HandleError, Onward, DeferResult, Conclude, Finish
<1>12. QED
  BY <1>1, <1>2, <1>5, <1>6, <1>7, <1>8, <1>9, <1>10, <1>11 DEF Deliver

\* Acceptance is irreversible and a terminal state final.
THEOREM Irreversible == Spec => NoWayBack
<1>1. ASSUME DispatchInv, [Next]_vars, NEW d \in Requests
      PROVE  Onward(d)
  <2>1. ASSUME NEW p \in Procs, Deliver(p) PROVE Onward(d)
    BY <1>1, <2>1, DeliverOnward
  <2>2. ASSUME NEW p \in Procs, Start(p) PROVE Onward(d)
    BY <2>2 DEF Start, Recovered, Onward, TerminalStates
  <2>3. ASSUME NEW p \in Procs, Fault(p) \/ EnsureWorker(p) PROVE Onward(d)
    BY <2>3 DEF Fault, Throw, ErrorUnrecorded, Crash, Overrun, EnsureWorker, rowVars, Onward
  <2>4. ASSUME NEW p \in Procs, NEW e \in Requests, Accept(p, e) \/ Repeat(p, e) PROVE Onward(d)
    BY <1>1, <2>4 DEF DispatchInv, TypeOK, Accept, Repeat, rowVars, Onward, TerminalStates
  <2>5. ASSUME NEW e \in Requests, Cancel(e) PROVE Onward(d)
    BY <1>1, <2>5 DEF DispatchInv, TypeOK, Cancel, Finish, Onward, TerminalStates
  <2>6. ASSUME NEW e \in Requests, ComeDue(e) \/ Pass(e) \/ Lapse(e) \/ Host(e) PROVE Onward(d)
    BY <2>6 DEF ComeDue, Pass, Lapse, Host, rowVars, Onward
  <2>7. CASE UNCHANGED vars
    BY <2>7 DEF vars, rowVars, Onward
  <2>8. QED BY <1>1, <2>1, <2>2, <2>3, <2>4, <2>5, <2>6, <2>7 DEF Next
<1>2. DispatchInv /\ [Next]_vars =>
        [\A d \in Requests :
            /\ state[d] = "accepted" =>
                  state'[d] \in {"accepted", "completed", "failed", "result_unknown"}
            /\ state[d] \in TerminalStates => state'[d] = state[d]]_vars
  BY <1>1 DEF Onward
<1>3. QED BY <1>2, Invariance, PTL DEF Spec, NoWayBack

=============================================================================
