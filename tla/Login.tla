------------------------------- MODULE Login -------------------------------
(***************************************************************************)
(* One downstream session of a user (sessions.py, session_secrets.py), the *)
(* login challenges issued for it (auth_challenges.py), the two brokers    *)
(* that carry out a login (credential.py, remote_browser.py), the calls of *)
(* the central service that use the session under its lock, and the        *)
(* administrator who invalidates or rebinds it without that lock.          *)
(*                                                                         *)
(* Every store is its own SQLite file or secret file, so each action holds *)
(* at most the writes between two points where another actor may run.     *)
(***************************************************************************)
EXTENDS Naturals

CONSTANTS
    Principals,     \* downstream identities
    NoPrincipal,    \* downstream_principal_ref IS NULL; no encrypted state
    Prepared,       \* the encrypted state of a captcha form, not yet logged in
    Challenges,     \* 1 .. n, challenge ids in the order of their creation
    Modes,          \* of {"form", "captcha", "browser"}, the systems' contracts
    MaxFaults       \* restarts and administrative interventions

VARIABLES
    mode,   \* authentication mode of the system, from its adapter
    sess,   \* the row of sessions and whose login its encrypted state holds
    chal,   \* the rows of auth_challenges
    run,    \* run[c]: the broker's thread that works on challenge c
    call,   \* one caller of the central service that uses the session
    lock,   \* holder of _session_lock: 0 nobody, c a login, "call"
    admin,  \* the administrator's two-step intervention
    faults

vars == <<mode, sess, chal, run, call, lock, admin, faults>>

LoginAssumption ==
    /\ Principals # {}
    /\ \E n \in Challenges : Challenges = 1..n /\ n >= 1
    /\ Modes \subseteq {"form", "captcha", "browser"}

Free == 0
TheCall == 1 + CHOOSE n \in Challenges : \A m \in Challenges : m <= n

ChallengeStates == {"none", "pending", "processing", "succeeded", "failed",
                    "expired", "superseded"}
Live == {"pending", "processing"}
Idle == [pc |-> "idle", seen |-> NoPrincipal]
Answered == [pc |-> "idle", kind |-> "use", seen |-> NoPrincipal, state |-> NoPrincipal]

Init ==
    /\ mode \in Modes
    /\ sess = [state |-> "new", expected |-> CHOOSE p \in Principals : TRUE,
               observed |-> NoPrincipal, saved |-> NoPrincipal]
    /\ chal = [c \in Challenges |->
                  [state |-> "none", principal |-> NoPrincipal, csrf |-> FALSE]]
    /\ run = [c \in Challenges |-> [pc |-> "idle", seen |-> NoPrincipal]]
    /\ call = Answered
    /\ lock = Free
    /\ admin = "idle"
    /\ faults = 0

LiveChallenges == {c \in Challenges : chal[c].state \in Live}

SetState(s) == sess' = [sess EXCEPT !.state = s]

-----------------------------------------------------------------------------
(* The calls of the central service: start_login, session_status and       *)
(* inspect_session, the keepalive cycle, and a capability.                 *)

\* start_login: an active session is tried first, else a challenge is made.
StartLogin ==
    /\ call.pc = "idle"
    /\ call' = [call EXCEPT !.pc = IF sess.state = "active" THEN "wait" ELSE "create",
                            !.kind = "login"]
    /\ UNCHANGED <<mode, sess, chal, run, lock, admin, faults>>

\* session_status, and the others: a session that is not active is reported.
UseSession ==
    /\ call.pc = "idle" /\ sess.state = "active"
    /\ call' = [call EXCEPT !.pc = "wait", !.kind = "use"]
    /\ UNCHANGED <<mode, sess, chal, run, lock, admin, faults>>

\* What the caller does when it leaves the lock without a usable session:
\* start_login goes on to issue a challenge, every other caller answers.
AfterLost == IF call.kind = "login" THEN [Answered EXCEPT !.pc = "create"] ELSE Answered

\* Inside the lock the session is read again; a missing state expires it.
CallEnters ==
    /\ call.pc = "wait" /\ lock = Free
    /\ \/ /\ sess.state # "active"
          /\ call' = AfterLost
          /\ UNCHANGED <<sess, lock>>
       \/ /\ sess.state = "active" /\ sess.saved = NoPrincipal
          /\ SetState("expired")
          /\ call' = AfterLost
          /\ UNCHANGED lock
       \/ /\ sess.state = "active" /\ sess.saved # NoPrincipal
          /\ lock' = TheCall
          /\ call' = [call EXCEPT !.pc = "probe", !.seen = sess.observed, !.state = sess.saved]
          /\ UNCHANGED sess
    /\ UNCHANGED <<mode, chal, run, admin, faults>>

\* The downstream system answers the probe or the capability: the state is
\* saved as the answer left it.
CallAnswered ==
    /\ call.pc = "probe" /\ call.state # Prepared
    /\ sess' = [sess EXCEPT !.saved = call.state]
    /\ call' = IF call.kind = "login" THEN [call EXCEPT !.pc = "check"] ELSE Answered
    /\ lock' = IF call.kind = "login" THEN lock ELSE Free
    /\ UNCHANGED <<mode, chal, run, admin, faults>>

\* It finds no login: the session is ended and its state deleted.
CallFindsNoLogin ==
    /\ call.pc = "probe"
    /\ sess' = [sess EXCEPT !.state = "expired", !.saved = NoPrincipal]
    /\ call' = AfterLost
    /\ lock' = Free
    /\ UNCHANGED <<mode, chal, run, admin, faults>>

\* It fails in another way: the session stays as it is.
CallFails ==
    /\ call.pc = "probe"
    /\ call' = Answered
    /\ lock' = Free
    /\ UNCHANGED <<mode, sess, chal, run, admin, faults>>

\* activate() first compares what was observed with the current row...
Mismatch(seen) == sess.expected # seen

CallChecks ==
    /\ call.pc = "check"
    /\ IF Mismatch(call.seen)
       THEN /\ SetState("quarantined")
            /\ call' = Answered
            /\ lock' = Free
       ELSE /\ call' = [call EXCEPT !.pc = "set"]
            /\ UNCHANGED <<sess, lock>>
    /\ UNCHANGED <<mode, chal, run, admin, faults>>

\* ... and then writes the new state in a transaction of its own.
CallActivates ==
    /\ call.pc = "set"
    /\ sess' = [sess EXCEPT !.state = "active", !.observed = call.seen]
    /\ call' = Answered
    /\ lock' = Free
    /\ UNCHANGED <<mode, chal, run, admin, faults>>

\* _create: the row is inserted, and the live ones superseded.
WithNewChallenge(c) ==
    [d \in Challenges |->
        IF d = c THEN [state |-> "pending", principal |-> sess.expected, csrf |-> FALSE]
        ELSE IF d \in LiveChallenges
        THEN [chal[d] EXCEPT !.state = "superseded", !.csrf = FALSE]
        ELSE chal[d]]

\* _create_login_challenge: reuse a live challenge for the same principal,
\* refuse while another one is processing, or supersede and insert.
CreateChallenge(c) ==
    /\ call.pc = "create"
    /\ LET same == {d \in LiveChallenges : chal[d].principal = sess.expected}
       IN \/ /\ same # {} \/ \E d \in LiveChallenges : chal[d].state = "processing"
             /\ UNCHANGED chal
          \/ /\ same = {} /\ \A d \in LiveChallenges : chal[d].state = "pending"
             /\ chal[c].state = "none"
             /\ \A d \in Challenges : d < c => chal[d].state # "none"
             /\ chal' = WithNewChallenge(c)
    /\ call' = Answered
    /\ UNCHANGED <<mode, sess, run, lock, admin, faults>>

-----------------------------------------------------------------------------
(* The login cards and the two brokers.                                    *)

\* prepare_authentication: the captcha form in the session's worker; only a
\* form that was prepared earlier is kept.
PrepareAuthentication(c) ==
    /\ lock = Free /\ sess.expected = chal[c].principal
    /\ sess' = [sess EXCEPT !.state = "awaiting_login", !.saved = Prepared]

\* get_card: a captcha form is prepared before the token of the form is
\* issued.
GetCard(c) ==
    /\ chal[c].state = "pending"
    /\ chal' = [chal EXCEPT ![c].csrf = TRUE]
    /\ IF mode = "captcha" THEN PrepareAuthentication(c) ELSE UNCHANGED sess
    /\ UNCHANGED <<mode, run, call, lock, admin, faults>>

\* submit_card / start: the challenge is claimed once.
Claim(c) ==
    /\ run[c].pc = "idle"
    /\ chal[c].state = "pending" /\ chal[c].csrf
    /\ chal' = [chal EXCEPT ![c].state = "processing", ![c].csrf = FALSE]
    /\ run' = [run EXCEPT ![c].pc = "bind"]
    /\ UNCHANGED <<mode, sess, call, lock, admin, faults>>

\* _validate_bindings, mark_awaiting_login and, for a remote browser, the
\* allocation of a slot and the removal of the stored state.
Bind(c) ==
    /\ run[c].pc = "bind"
    /\ \/ /\ mode = "browser" \/ sess.expected = chal[c].principal
          /\ sess' = [sess EXCEPT !.state = "awaiting_login",
                                  !.saved = IF mode = "browser" THEN NoPrincipal
                                            ELSE @]
          /\ run' = [run EXCEPT ![c].pc = "wait"]
       \/ run' = [run EXCEPT ![c].pc = "fail"] /\ UNCHANGED sess
    /\ UNCHANGED <<mode, chal, call, lock, admin, faults>>

\* A mutant: a plain form starts from whatever state is stored.
EnterKeepsState(c) ==
    /\ run[c].pc = "wait" /\ lock = Free
    /\ run' = [run EXCEPT ![c].pc = "auth"]
    /\ lock' = c
    /\ UNCHANGED <<mode, sess, chal, call, admin, faults>>

\* The worker starts under the session lock. A plain form drops the stored
\* state; a captcha form needs the one that get_card prepared.
Enter(c) ==
    /\ run[c].pc = "wait" /\ lock = Free
    /\ IF mode = "captcha" /\ sess.saved # Prepared
       THEN run' = [run EXCEPT ![c].pc = "fail"] /\ UNCHANGED <<sess, lock>>
       ELSE /\ sess' = [sess EXCEPT !.saved = IF mode = "form" THEN NoPrincipal ELSE @]
            /\ run' = [run EXCEPT ![c].pc = "auth"]
            /\ lock' = c
    /\ UNCHANGED <<mode, chal, call, admin, faults>>

\* adapter.authenticate, or a probe of the remote browser that finds a
\* login; then the check of activate() against the current expectation.
\* Another active user of the same principal quarantines the session too.
Authenticated(c) ==
    /\ run[c].pc = "auth"
    /\ \E p \in Principals :
          \/ /\ ~Mismatch(p)
             /\ run' = [run EXCEPT ![c] = [pc |-> "set", seen |-> p]]
             /\ UNCHANGED <<sess, lock>>
          \/ /\ sess' = [sess EXCEPT !.state = "quarantined", !.observed = p]
             /\ run' = [run EXCEPT ![c] = [pc |-> "quarantine", seen |-> p]]
             /\ lock' = Free
    /\ UNCHANGED <<mode, chal, call, admin, faults>>

\* Rejected, unavailable, timed out, stopped, or a dead browser process.
AuthenticationFails(c) ==
    /\ run[c].pc = "auth"
    /\ run' = [run EXCEPT ![c].pc = "fail"]
    /\ lock' = Free
    /\ UNCHANGED <<mode, sess, chal, call, admin, faults>>

Activate(c) ==
    /\ run[c].pc = "set"
    /\ sess' = [sess EXCEPT !.state = "active", !.observed = run[c].seen]
    /\ run' = [run EXCEPT ![c].pc = "save"]
    /\ UNCHANGED <<mode, chal, call, lock, admin, faults>>

\* The state is saved; a form leaves the worker, and the lock, before it
\* completes its challenge, a remote browser completes it inside.
SaveState(c) ==
    /\ run[c].pc = "save"
    /\ \/ /\ sess' = [sess EXCEPT !.saved = run[c].seen]
          /\ run' = [run EXCEPT ![c].pc = "complete"]
          /\ lock' = IF mode = "browser" THEN lock ELSE Free
       \/ /\ run' = [run EXCEPT ![c].pc = "fail"]
          /\ lock' = Free
          /\ UNCHANGED sess
    /\ UNCHANGED <<mode, chal, call, admin, faults>>

\* complete() only ends a processing challenge: one that a reader expired
\* while the login was running makes the login fail.
Complete(c) ==
    /\ run[c].pc = "complete"
    /\ IF chal[c].state = "processing"
       THEN /\ chal' = [chal EXCEPT ![c].state = "succeeded"]
            /\ run' = [run EXCEPT ![c] = Idle]
       ELSE run' = [run EXCEPT ![c].pc = "fail"] /\ UNCHANGED chal
    /\ lock' = IF lock = c THEN Free ELSE lock
    /\ UNCHANGED <<mode, sess, call, admin, faults>>

\* _fail / _finish_failed: the state is deleted and the session ended, with
\* no lock, and then the challenge is failed if it is still processing.
FailSession(c) ==
    /\ run[c].pc \in {"fail", "quarantine"}
    /\ sess' = [sess EXCEPT !.saved = NoPrincipal,
                            !.state = IF run[c].pc = "fail" THEN "expired"
                                                            ELSE "quarantined"]
    /\ run' = [run EXCEPT ![c].pc = "failed"]
    /\ UNCHANGED <<mode, chal, call, lock, admin, faults>>

FailChallenge(c) ==
    /\ run[c].pc = "failed"
    /\ chal' = [chal EXCEPT ![c].state = IF @ = "processing" THEN "failed" ELSE @]
    /\ run' = [run EXCEPT ![c] = Idle]
    /\ UNCHANGED <<mode, sess, call, lock, admin, faults>>

-----------------------------------------------------------------------------
(* Time, polls, administration and restarts.                               *)

\* _expire_if_needed: the challenge is overdue and the poll of its
\* interaction, its card or its status, or the next challenge, reads it.
\* An overdue challenge that nobody reads behaves like one in time.
Expire(c) ==
    /\ chal[c].state \in Live
    /\ chal' = [chal EXCEPT ![c].state = "expired", ![c].csrf = FALSE]
    /\ UNCHANGED <<mode, sess, run, call, lock, admin, faults>>

\* invalidate_session: expired first, then the stored state is deleted.
Invalidate ==
    /\ admin = "idle" /\ faults < MaxFaults
    /\ SetState("expired")
    /\ admin' = "delete"
    /\ faults' = faults + 1
    /\ UNCHANGED <<mode, chal, run, call, lock>>

InvalidateDeletes ==
    /\ admin = "delete"
    /\ sess' = [sess EXCEPT !.saved = NoPrincipal]
    /\ admin' = "idle"
    /\ UNCHANGED <<mode, chal, run, call, lock, faults>>

\* rebind_session_principal: the state is deleted ...
RebindDeletes ==
    /\ admin = "idle" /\ faults < MaxFaults
    /\ sess' = [sess EXCEPT !.saved = NoPrincipal]
    /\ admin' = "rebind"
    /\ faults' = faults + 1
    /\ UNCHANGED <<mode, chal, run, call, lock>>

\* ... and rebind_expected_principal changes the row, with whatever state was
\* saved in between.
Rebind(p) ==
    /\ admin = "rebind"
    /\ sess' = [sess EXCEPT !.state = "expired", !.expected = p, !.observed = NoPrincipal]
    /\ admin' = "idle"
    /\ UNCHANGED <<mode, chal, run, call, lock, faults>>

\* get_or_create with another expected principal quarantines the session.
ConflictingBinding ==
    /\ faults < MaxFaults
    /\ SetState("quarantined")
    /\ faults' = faults + 1
    /\ UNCHANGED <<mode, chal, run, call, lock, admin>>

\* The process dies: threads, calls and locks are lost, rows stay.
Restart ==
    /\ faults < MaxFaults
    /\ run' = [c \in Challenges |-> Idle]
    /\ call' = Answered
    /\ lock' = Free
    /\ admin' = "idle"
    /\ faults' = faults + 1
    /\ UNCHANGED <<mode, sess, chal>>

LoginStep(c) ==
    \/ Bind(c) \/ Enter(c) \/ Authenticated(c) \/ AuthenticationFails(c)
    \/ Activate(c) \/ SaveState(c) \/ Complete(c) \/ FailSession(c) \/ FailChallenge(c)

CallStep == \/ CallEnters \/ CallAnswered \/ CallFindsNoLogin \/ CallFails
            \/ CallChecks \/ CallActivates

Next ==
    \/ StartLogin \/ UseSession
    \/ CallStep
    \/ \E c \in Challenges : CreateChallenge(c) \/ GetCard(c) \/ Claim(c) \/ LoginStep(c)
                             \/ Expire(c)
    \/ Invalidate \/ InvalidateDeletes \/ RebindDeletes \/ ConflictingBinding \/ Restart
    \/ \E p \in Principals : Rebind(p)

Spec == Init /\ [][Next]_vars

\* Threads go on, time passes, and the host polls a login it waits for.
LoginFairness ==
    /\ WF_vars(CallStep)
    /\ \A c \in Challenges : /\ WF_vars(LoginStep(c))
                             /\ WF_vars(Expire(c))

FairSpec == Spec /\ LoginFairness

-----------------------------------------------------------------------------
TypeOK ==
    /\ sess \in [state : {"new", "awaiting_login", "active", "expired", "quarantined"},
                 expected : Principals, observed : Principals \cup {NoPrincipal},
                 saved : Principals \cup {NoPrincipal, Prepared}]
    /\ \A c \in Challenges :
          /\ chal[c].state \in ChallengeStates
          /\ run[c].pc \in {"idle", "bind", "wait", "auth", "set", "save",
                            "complete", "fail", "quarantine", "failed"}
    /\ call.pc \in {"idle", "wait", "create", "probe", "check", "set"}
    /\ lock \in {Free, TheCall} \cup Challenges

\* Two logins never work inside the session at once, although a login whose
\* challenge expired under it goes on beside the login of the next challenge:
\* whoever is between the start of its worker and the save holds the lock.
OneInside ==
    /\ \A c \in Challenges : run[c].pc \in {"auth", "set", "save"} => lock = c
    /\ call.pc \in {"probe", "check", "set"} => lock = TheCall

\* Whoever starts to work in an active session works with the login of the
\* principal that the session records, never with what an earlier principal
\* of the session left behind, whatever was rebound or lost in between.  Of a
\* login in the interactive browser, which does not drop what is stored when it
\* enters the session, this holds as long as nobody interferes.
OwnLoginExpected == mode # "browser" \/ faults = 0
EntersOwnLogin ==
    call.pc = "wait" /\ call'.pc = "probe" /\ OwnLoginExpected
      => call'.state \in {sess.observed, Prepared}
UsesOwnLogin == [][EntersOwnLogin]_vars

\* Every claimed challenge ends, whether its login completes, fails, loses
\* its thread in a restart or is overtaken by the clock.
ClaimedSettles ==
    \A c \in Challenges : chal[c].state = "processing" ~> chal[c].state \notin Live

\* A session that was ended is active again only through a login. The probe
\* of start_login breaks this: it read the session before it was ended.
EndedNeedsLogin ==
    [][(sess.state \in {"expired", "quarantined"} /\ sess'.state = "active")
          => \E c \in Challenges : run[c].pc = "set"]_vars
=============================================================================
