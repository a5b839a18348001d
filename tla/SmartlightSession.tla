-------------------------- MODULE SmartlightSession --------------------------
(***************************************************************************)
(* How the lighting adapter stays signed in.  A session rests on four      *)
(* things that lapse one by one: the sign-on of the CAS server, the        *)
(* application session derived from it, a refresh token and an access      *)
(* token.  An adapter call that meets a lapsed access token, the reuse     *)
(* probe and the keepalive cycle try to renew what has lapsed from what is *)
(* left.  Only SmartlightLoginRequired makes the central service end the   *)
(* session; every other failure leaves it for a later attempt.             *)
(***************************************************************************)
EXTENDS Naturals

CONSTANT MaxFaults      \* unavailable services and lost answers

VARIABLES
    live,       \* what the servers still accept
    held,       \* the tokens in the stored state
    run,        \* the renewal under way
    central,    \* the session as the central service sees it
    faults

vars == <<live, held, run, central, faults>>

Parts == {"cas", "app", "refresh", "access"}
NoRun == [pc |-> "idle", refresh |-> "none", why |-> "none"]

Init ==
    /\ live = Parts
    /\ held = {"refresh", "access"}
    /\ run = NoRun
    /\ central = "active"
    /\ faults = 0

\* A sign-on ends, a token lapses: at any time, one after another.
Lapse(p) ==
    /\ p \in live
    /\ live' = live \ {p}
    /\ UNCHANGED <<held, run, central, faults>>

Fault == faults < MaxFaults /\ faults' = faults + 1

Goto(pc) == run' = [run EXCEPT !.pc = pc]

Begin(why, pc) ==
    /\ central = "active"
    /\ run = NoRun
    /\ run' = [pc |-> pc, refresh |-> "none", why |-> why]
    /\ UNCHANGED <<live, held, central, faults>>

\* A capability call, the reuse probe of start_login, the keepalive cycle.
BeginCall == Begin("call", "post")
BeginProbe == Begin("probe", "refresh")
BeginKeepalive == Begin("keepalive", "principal")

\* A request with the access token.  401 is answered once by a renewal and a
\* second request, then by the end of the session.
Post ==
    /\ run.pc = "post"
    /\ IF "access" \in live \cap held THEN run' = NoRun ELSE Goto("refresh")
    /\ UNCHANGED <<live, held, central, faults>>

PostAgain ==
    /\ run.pc = "postAgain"
    /\ IF "access" \in live \cap held
       THEN run' = NoRun /\ UNCHANGED central
       ELSE run' = NoRun /\ central' = "ended"
    /\ UNCHANGED <<live, held, faults>>

\* _refresh_token: nothing to refresh, refused, unavailable, or a new pair.
\* The refresh token may be rotated, and the old one is then dead.
RefreshToken ==
    /\ run.pc = "refresh"
    /\ \/ /\ "refresh" \notin held
          /\ run' = [run EXCEPT !.pc = "principal", !.refresh = "none"]
          /\ UNCHANGED <<live, held, faults>>
       \/ /\ "refresh" \in held \ live
          /\ run' = [run EXCEPT !.pc = "principal", !.refresh = "dead"]
          /\ UNCHANGED <<live, held, faults>>
       \/ /\ "refresh" \in held
          /\ Fault
          /\ run' = [run EXCEPT !.pc = "principal", !.refresh = "unsure"]
          /\ UNCHANGED <<live, held>>
       \/ /\ "refresh" \in held \cap live
          /\ live' = live \cup {"access"}
          /\ held' = held \cup {"access"}
          /\ Goto("renewed")
          /\ UNCHANGED faults
    /\ UNCHANGED central

\* The end of a renewal that failed.  A failed keepalive falls back to probe.
FallsBack == run.why = "keepalive" /\ run.refresh = "none"
\* A mutant: a refresh that failed by accident counts as refused.
RefreshIsOutAnyway == TRUE

RefreshIsOut == run.refresh \in {"none", "dead"}
GiveUp(loginRequired) ==
    /\ IF FallsBack
       THEN run' = [run EXCEPT !.pc = "refresh", !.why = "probe"]
            /\ UNCHANGED central
       ELSE /\ run' = NoRun
            /\ central' = IF loginRequired /\ RefreshIsOut THEN "ended" ELSE central
    /\ UNCHANGED <<live, held>>

\* _cas_principal, and the detour over the CAS server when the application
\* session has lapsed.
CasPrincipal ==
    /\ run.pc = "principal"
    /\ \/ /\ "app" \in live
          /\ Goto("exchange")
          /\ UNCHANGED <<live, held, central, faults>>
       \/ /\ "app" \notin live
          /\ Goto("renewApp")
          /\ UNCHANGED <<live, held, central, faults>>
       \/ Fault /\ GiveUp(FALSE)

RenewApplication ==
    /\ run.pc = "renewApp"
    /\ \/ /\ "cas" \in live
          /\ live' = live \cup {"app"}
          /\ Goto("principalAgain")
          /\ UNCHANGED <<held, central, faults>>
       \/ /\ "cas" \notin live
          /\ GiveUp(TRUE)
          /\ UNCHANGED faults
       \/ Fault /\ GiveUp(FALSE)

CasPrincipalAgain ==
    /\ run.pc = "principalAgain"
    /\ \/ /\ "app" \in live
          /\ Goto("exchange")
          /\ UNCHANGED <<live, held, central, faults>>
       \/ /\ "app" \notin live
          /\ GiveUp(TRUE)
          /\ UNCHANGED faults
       \/ Fault /\ GiveUp(FALSE)

\* _exchange_token: a new pair for the principal of the application session.
ExchangeToken ==
    /\ run.pc = "exchange"
    /\ \/ /\ live' = live \cup {"access", "refresh"}
          /\ held' = {"access", "refresh"}
          /\ Goto("renewed")
          /\ UNCHANGED <<central, faults>>
       \/ Fault /\ GiveUp(FALSE)

\* The new pair is in the stored state; an interrupted call is repeated.
Renewed ==
    /\ run.pc = "renewed"
    /\ run' = IF run.why = "call" THEN [run EXCEPT !.pc = "postAgain"] ELSE NoRun
    /\ UNCHANGED <<live, held, central, faults>>

Next ==
    \/ \E p \in Parts : Lapse(p)
    \/ BeginCall \/ BeginProbe \/ BeginKeepalive
    \/ Post \/ PostAgain \/ RefreshToken
    \/ CasPrincipal \/ RenewApplication \/ CasPrincipalAgain \/ ExchangeToken
    \/ Renewed

Spec == Init /\ [][Next]_vars

TypeOK ==
    /\ live \subseteq Parts
    /\ held \subseteq {"refresh", "access"}
    /\ run \in [pc : {"idle", "post", "postAgain", "refresh", "principal", "renewApp",
                      "principalAgain", "exchange", "renewed"},
                refresh : {"none", "dead", "unsure"},
                why : {"none", "call", "probe", "keepalive"}]
    /\ central \in {"active", "ended"}
    /\ faults \in 0..MaxFaults

\* The user is asked to sign in again only when nothing is left to renew from:
\* the step that ends a session finds neither a refresh token that is accepted
\* nor a live application session.  The one exception is a call whose new
\* access token lapsed before its use.
EndedIsHopeless ==
    [][(central = "active" /\ central' = "ended") =>
          \/ run.pc = "postAgain" /\ "access" \notin live
          \/ "app" \notin live /\ "refresh" \notin live \cap held]_vars
=============================================================================
