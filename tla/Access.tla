------------------------------- MODULE Access -------------------------------
(***************************************************************************)
(* What lets one user read and write: the MCP token of the host            *)
(* (mcp_identities.py), the business permission behind the capability      *)
(* (user_grants.py), and the pauses of writing (admin/stores.py), which    *)
(* administrators change while a read and a write are on their way through *)
(* mcp/central.py, central_service.py and controlled_write_executor.py.    *)
(*                                                                         *)
(* save and renew are immediate transactions with an expected revision;    *)
(* every check of a call is a read of its own.                             *)
(***************************************************************************)
EXTENDS Naturals, FiniteSets

CONSTANTS
    Admins,       \* forms that administrators have open
    Scopes,       \* of pauses: "global", "system", "user", "capability"
    MaxRevision,  \* bound on the saves of the grant
    MaxRenewals   \* bound on the changes of the token

AccessAssumption == MaxRevision \in Nat /\ MaxRenewals \in Nat

VARIABLES
    grant,        \* row of user_business_grants: permitted or not, revision
    token,        \* row of mcp_identity_tokens
    renewals,     \* request ids in mcp_token_renewals
    paused,       \* scopes of the paused governance policies that match
    form,         \* form[a]: what the administrator's page shows
    reader,       \* the read call; gap: it was without permission at some moment
    writer,       \* the write: card, resume and commit
    lost          \* a save overwrote a change the administrator had not seen

vars == <<grant, token, renewals, paused, form, reader, writer, lost>>

NoForm == [kind |-> "none", revision |-> 0, saw |-> FALSE]
NoRead == [pc |-> "idle", before |-> 0, inner |-> 0, gap |-> FALSE]
\* A read between the moment its tool remembers the grant and its answer.
UnderWay == {"called", "invoked", "asked", "fetched", "compared", "verified"}
Stages == UnderWay \cup {"idle", "admitted", "checked", "delivered", "withheld"}
WriteStages == {"idle", "card", "authorized", "invoked", "adapter", "permitted",
                "committed", "rejected"}

Init ==
    /\ grant = [permitted |-> FALSE, revision |-> 0]
    /\ token = [state |-> "active", late |-> FALSE, revision |-> 0]
    /\ renewals = {}
    /\ paused = {}
    /\ form = [a \in Admins |-> NoForm]
    /\ reader = NoRead
    /\ writer = "idle"
    /\ lost = FALSE

-----------------------------------------------------------------------------
(* Administrators.                                                         *)

\* user_grant_config and list_tokens: the form shows the row and its revision.
OpenForm(a, kind) ==
    /\ form[a].kind = "none"
    /\ form' = [form EXCEPT ![a] =
                  [kind |-> kind,
                   revision |-> IF kind = "grant" THEN grant.revision ELSE token.revision,
                   saw |-> IF kind = "grant" THEN grant.permitted ELSE token.late]]
    /\ UNCHANGED <<grant, token, renewals, paused, reader, writer, lost>>

\* A mutant: the last save wins.
LastSaveWins(a) == TRUE

\* save: a revision that has moved on is a conflict.
RevisionMatches(a) == form[a].revision = grant.revision
SaveGrants(a, permitted) ==
    /\ form[a].kind = "grant"
    /\ grant.revision < MaxRevision
    /\ form' = [form EXCEPT ![a] = NoForm]
    /\ IF RevisionMatches(a)
       THEN /\ grant' = [permitted |-> permitted, revision |-> grant.revision + 1]
            /\ lost' = (lost \/ form[a].saw # grant.permitted)
            /\ reader' = [reader EXCEPT !.gap =
                             @ \/ (reader.pc \in UnderWay /\ ~permitted)]
       ELSE UNCHANGED <<grant, reader, lost>>
    /\ UNCHANGED <<token, renewals, paused, writer>>

\* revoke needs no revision and moves it on; a revoked token stays revoked.
RevokeToken ==
    /\ token.state = "active"
    /\ token.revision < MaxRenewals
    /\ token' = [token EXCEPT !.state = "revoked", !.revision = @ + 1]
    /\ UNCHANGED <<grant, renewals, paused, form, reader, writer, lost>>

\* renew: the request id of a repeated request, the state and the revision.
\* The page sends one id per form and repeats it until it has an answer.
Renewable(a) ==
    /\ a \notin renewals
    /\ token.state = "active"
    /\ token.revision = form[a].revision
RenewToken(a) ==
    /\ form[a].kind = "token"
    /\ IF Renewable(a)
       THEN /\ token.revision < MaxRenewals
            /\ token' = [token EXCEPT !.late = FALSE, !.revision = @ + 1]
            /\ renewals' = renewals \cup {a}
            /\ UNCHANGED form                      \* the answer may be lost
       ELSE /\ form' = [form EXCEPT ![a] = NoForm]
            /\ UNCHANGED <<token, renewals>>
    /\ UNCHANGED <<grant, paused, reader, writer, lost>>

TokenExpires ==
    /\ ~token.late
    /\ token' = [token EXCEPT !.late = TRUE]
    /\ UNCHANGED <<grant, renewals, paused, form, reader, writer, lost>>

\* pause and resume of a policy.
Pause(s) ==
    /\ s \notin paused
    /\ paused' = paused \cup {s}
    /\ UNCHANGED <<grant, token, renewals, form, reader, writer, lost>>
Resume(s) ==
    /\ s \in paused
    /\ paused' = paused \ {s}
    /\ UNCHANGED <<grant, token, renewals, form, reader, writer, lost>>

-----------------------------------------------------------------------------
(* The checks.                                                             *)

\* verify and resolve_client.
TokenIsValid == token.state = "active" /\ ~token.late

\* require_tool and require_capability: a user without a row has no permission.
Permitted == grant.permitted

\* matching_pause: any paused policy that matches denies the write.
assert_write_allowed == paused = {}

-----------------------------------------------------------------------------
(* A read: the wrapper of the tool and, inside it, invoke each check the    *)
(* permission, remember the row of the grant and compare it with the row   *)
(* after the read; the revision counts, so that a permission that was      *)
(* taken away and given back is a change too.  Every check and every look  *)
(* at the row is a transaction of its own.                                 *)

ReadMoves(from, to) ==
    /\ reader.pc = from
    /\ reader' = [reader EXCEPT !.pc = to]
    /\ UNCHANGED <<grant, token, renewals, paused, form, writer, lost>>

ReadIsCalled == TokenIsValid /\ ReadMoves("idle", "admitted")
CheckInTool == ReadMoves("admitted", IF Permitted THEN "checked" ELSE "withheld")
RememberInTool ==
    /\ reader.pc = "checked"
    /\ reader' = [reader EXCEPT !.pc = "called", !.before = grant.revision,
                                !.gap = ~Permitted]
    /\ UNCHANGED <<grant, token, renewals, paused, form, writer, lost>>
CheckInInvoke == ReadMoves("called", IF Permitted THEN "invoked" ELSE "withheld")
RememberInInvoke ==
    /\ reader.pc = "invoked"
    /\ reader' = [reader EXCEPT !.pc = "asked", !.inner = grant.revision]
    /\ UNCHANGED <<grant, token, renewals, paused, form, writer, lost>>
Fetch == ReadMoves("asked", "fetched")

\* A mutant: only whether the permission is there now counts.
UnchangedIfPermitted(before) == Permitted

Unchanged(before) == before = grant.revision
CompareInInvoke ==
    ReadMoves("fetched", IF Unchanged(reader.inner) THEN "compared" ELSE "withheld")
VerifyInTool == ReadMoves("compared", IF TokenIsValid THEN "verified" ELSE "withheld")
CompareInTool ==
    ReadMoves("verified", IF Unchanged(reader.before) THEN "delivered" ELSE "withheld")
ReadEnds ==
    /\ reader.pc \in {"delivered", "withheld"}
    /\ reader' = NoRead
    /\ UNCHANGED <<grant, token, renewals, paused, form, writer, lost>>
Reads == \/ ReadIsCalled \/ CheckInTool \/ RememberInTool
         \/ CheckInInvoke \/ RememberInInvoke \/ Fetch
         \/ CompareInInvoke \/ VerifyInTool \/ CompareInTool \/ ReadEnds

-----------------------------------------------------------------------------
(* A write: the card, its decision, the resume by the host, the work of    *)
(* the adapter before the boundary, and the boundary.                      *)

WriteMoves(from, to) ==
    /\ writer = from
    /\ writer' = to
    /\ UNCHANGED <<grant, token, renewals, paused, form, reader, lost>>

PrepareWrite ==
    /\ TokenIsValid
    /\ WriteMoves("idle", IF Permitted /\ assert_write_allowed THEN "card" ELSE "rejected")
UserAuthorizes == WriteMoves("card", "authorized")
ResumeWrite ==
    /\ TokenIsValid
    /\ WriteMoves("authorized",
                  IF Permitted /\ assert_write_allowed THEN "invoked" ELSE "rejected")

\* commit_trusted_write asks for pauses once more under the lock of the session
EnterCommit ==
    WriteMoves("invoked", IF assert_write_allowed THEN "adapter" ELSE "rejected")

\* ... and enter_commit_boundary, after the adapter's preparations, for the
\* permission only, which it reads before the transaction that consumes the
\* authorization.
RequirePermission == WriteMoves("adapter", IF Permitted THEN "permitted" ELSE "rejected")
ConsumeAuthorization == WriteMoves("permitted", "committed")
WriteEnds == \E st \in {"committed", "rejected"} : WriteMoves(st, "idle")

\* What the administration offers of tokens and of pauses.
Tokens == RevokeToken \/ \E a \in Admins : RenewToken(a)
Policies == \E s \in Scopes : Pause(s) \/ Resume(s)

Next ==
    \/ \E a \in Admins :
         \/ \E kind \in {"grant", "token"} : OpenForm(a, kind)
         \/ \E permitted \in BOOLEAN : SaveGrants(a, permitted)
    \/ Tokens \/ TokenExpires \/ Policies
    \/ Reads
    \/ PrepareWrite \/ UserAuthorizes \/ ResumeWrite \/ EnterCommit
    \/ RequirePermission \/ ConsumeAuthorization \/ WriteEnds

Spec == Init /\ [][Next]_vars

-----------------------------------------------------------------------------
TypeOK ==
    /\ grant \in [permitted : BOOLEAN, revision : 0..MaxRevision]
    /\ token \in [state : {"active", "revoked"}, late : BOOLEAN, revision : 0..MaxRenewals]
    /\ renewals \subseteq Admins
    /\ paused \subseteq Scopes
    /\ form \in [Admins -> [kind : {"none", "grant", "token"},
                            revision : Nat, saw : BOOLEAN]]
    /\ reader \in [pc : Stages, before : 0..MaxRevision, inner : 0..MaxRevision,
                   gap : BOOLEAN]
    /\ writer \in WriteStages
    /\ lost \in BOOLEAN

\* Of two administrators who edit one user at the same time, the second is
\* told: no save replaces permissions its form did not show.
NoEditIsLost == ~lost

\* A result is handed out only if the caller was permitted all the time from
\* before the business system was asked until the last look at the grant:
\* permissions that were taken away are not missed because they were given
\* back, nor a change between a check and the row remembered after it.
ReadWasPermitted == reader.pc = "delivered" => ~reader.gap

\* A permission that is withdrawn before the boundary keeps the write from
\* happening.  Does not hold (README, section 6): it may be withdrawn between
\* the check of enter_commit_boundary and the consumption.
RevokedNeverWrites == [][writer # "committed" /\ writer' = "committed" => Permitted]_vars

\* A write that an administrator paused is not committed, as the manual
\* promises of the final boundary.
PausedNeverWrites == [][writer # "committed" /\ writer' = "committed" => paused = {}]_vars
=============================================================================
