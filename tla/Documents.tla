----------------------------- MODULE Documents -----------------------------
(***************************************************************************)
(* Document downloads (document_downloads.py), the page and the requests   *)
(* that fetch them from the business system (auth/document_download.py and *)
(* central_service.py) and the task artifact that points at a prepared     *)
(* file and can be reissued when it has expired (tasks.py).                *)
(*                                                                         *)
(* The row, the cached file and the artifact are changed in different      *)
(* transactions: a request is a sequence of steps, and another request,    *)
(* the clock, a revoked grant or a restart may come between any two.       *)
(***************************************************************************)
EXTENDS Naturals, FiniteSets

CONSTANTS
    Downloads,      \* 1 .. n, in the order of their creation
    Requests,       \* concurrent requests
    MaxRestarts     \* bound on the restarts of the service

DocumentsAssumption == MaxRestarts \in Nat

VARIABLES
    dl,         \* rows of document_downloads, their cached files and clocks
    art,        \* the artifact of the task: state and source_ref
    req,        \* what each request has done so far
    granted,    \* require_access of this user and document
    restarts

vars == <<dl, art, req, granted, restarts>>

Alive == {"pending", "processing", "ready"}
NoDownload == 0
Idle == [pc |-> "idle", kind |-> "none", of |-> NoDownload, seen |-> NoDownload]

Init ==
    \* the search that offers the first document has created its download
    /\ dl = [d \in Downloads |->
                [state |-> IF d = 1 THEN "pending" ELSE "none", csrf |-> FALSE,
                 past |-> FALSE, stale |-> FALSE, file |-> FALSE]]
    /\ art = [state |-> "none", source |-> NoDownload, past |-> FALSE]
    /\ req = [r \in Requests |-> Idle]
    /\ granted = TRUE
    /\ restarts = 0

\* expires_at passes, and later prepared_expires_at: mark_ready sets the second
\* 1800 s ahead, which no TTL that create accepts exceeds.
TimePasses(d) ==
    /\ dl[d].state # "none" /\ ~dl[d].past
    /\ dl' = [dl EXCEPT ![d].past = TRUE]
    /\ art' = IF art.source = d THEN [art EXCEPT !.past = TRUE] ELSE art
    /\ UNCHANGED <<req, granted, restarts>>
PreparedTimePasses(d) ==
    /\ dl[d].state = "ready" /\ dl[d].past /\ ~dl[d].stale
    /\ dl' = [dl EXCEPT ![d].stale = TRUE]
    /\ UNCHANGED <<art, req, granted, restarts>>

\* A mutant: a ready file ends with the link.
DueAtLink(row) == row.state \in Alive /\ row.past

\* _expire_if_needed: a ready row lives until its prepared file expires.
Due(row) == IF row.state = "ready" THEN row.stale ELSE row.state \in Alive /\ row.past
Expired(row) == IF Due(row) THEN [row EXCEPT !.state = "expired", !.csrf = FALSE, !.file = FALSE]
                            ELSE row
\* The transaction raised after it: the row rolls back, the unlink does not.
RolledBack(row) == IF Due(row) THEN [row EXCEPT !.file = FALSE] ELSE row

Goto(r, pc) == req' = [req EXCEPT ![r].pc = pc]
Done(r) == req' = [req EXCEPT ![r] = Idle]

\* get_card: the page of a pending download issues the only valid token.
OpenPage(d) ==
    /\ dl[d].state = "pending" /\ ~Due(dl[d]) /\ ~dl[d].csrf /\ granted
    /\ dl' = [dl EXCEPT ![d].csrf = TRUE]
    /\ UNCHANGED <<art, req, granted, restarts>>

\* submit_card takes the token; prepare_document_download needs none.
Claim(r, d, kind) ==
    /\ req[r].pc = "idle"
    /\ kind \in {"card", "prepare"}
    /\ dl[d].state = "pending" /\ ~Due(dl[d])
    /\ (kind = "card" => dl[d].csrf) /\ (kind = "prepare" => granted)
    /\ dl' = [dl EXCEPT ![d].state = "processing", ![d].csrf = FALSE]
    /\ req' = [req EXCEPT ![r] = [pc |-> "claimed", kind |-> kind, of |-> d, seen |-> @.seen]]
    /\ UNCHANGED <<art, granted, restarts>>
\* ... and a download that is ready already is linked as it is.
PrepareAgain(r, d) ==
    /\ req[r].pc = "idle"
    /\ dl[d].state = "ready" /\ ~Due(dl[d]) /\ granted
    /\ req' = [req EXCEPT ![r] =
                 [pc |-> "link", kind |-> "prepare", of |-> d, seen |-> NoDownload]]
    /\ UNCHANGED <<dl, art, granted, restarts>>

\* _materialize_smartlight_report / _materialize_addressbook_report: the report
\* is already rendered when its download is created and claimed.
MaterializeReport(r, d) ==
    /\ req[r].pc = "idle" /\ granted
    /\ dl[d].state = "none" /\ \A e \in Downloads : e < d => dl[e].state # "none"
    /\ dl' = [dl EXCEPT ![d].state = "processing"]
    /\ req' = [req EXCEPT ![r] =
                 [pc |-> "fetched", kind |-> "prepare", of |-> d, seen |-> NoDownload]]
    /\ UNCHANGED <<art, granted, restarts>>

\* release: the claim is given back and expires at once when it is due.
Release(d) ==
    dl' = [dl EXCEPT ![d] = IF @.state = "processing"
                            THEN Expired([@ EXCEPT !.state = "pending"]) ELSE @]
\* fetch_document_downloads under the session lock, access checked around it.
Fetch(r) ==
    /\ req[r].pc = "claimed" /\ granted
    /\ Goto(r, "fetched")
    /\ UNCHANGED <<dl, art, granted, restarts>>
FetchFails(r) ==
    /\ req[r].pc = "claimed"
    /\ Release(req[r].of)
    /\ Done(r)
    /\ UNCHANGED <<art, granted, restarts>>

\* submit_card: complete() and the bytes are the answer.
CompleteCard(r) ==
    LET d == req[r].of IN
    /\ req[r].pc = "fetched" /\ req[r].kind = "card"
    /\ IF granted /\ dl[d].state = "processing"
       THEN dl' = [dl EXCEPT ![d].state = "completed"]
       ELSE Release(d)
    /\ Done(r)
    /\ UNCHANGED <<art, granted, restarts>>

\* mark_ready: the file first, ...
WriteFile(r) ==
    /\ req[r].pc = "fetched" /\ req[r].kind # "card"
    /\ dl' = [dl EXCEPT ![req[r].of].file = TRUE]
    /\ Goto(r, "written")
    /\ UNCHANGED <<art, granted, restarts>>
\* A mutant: the file is written after the row.
MarkReadyFileLost(r) ==
    LET d == req[r].of IN
    /\ req[r].pc = "written"
    /\ dl' = [dl EXCEPT ![d].file = FALSE,
                        ![d].state = IF @ = "processing" THEN "ready" ELSE @]
    /\ Goto(r, IF req[r].kind = "reissue" THEN "refresh" ELSE "link")
    /\ UNCHANGED <<art, granted, restarts>>

\* ... then the row, which must still be processing, or the file is removed.
MarkReady(r) ==
    LET d == req[r].of IN
    /\ req[r].pc = "written"
    /\ IF dl[d].state = "processing"
       THEN /\ dl' = [dl EXCEPT ![d].state = "ready"]
            /\ Goto(r, IF req[r].kind = "reissue" THEN "refresh" ELSE "link")
       ELSE /\ dl' = [dl EXCEPT ![d].file = FALSE]
            /\ Done(r)
    /\ UNCHANGED <<art, granted, restarts>>

\* link_artifact: one artifact per source_ref; its expiry must be in the future.
LinkArtifact(r) ==
    LET d == req[r].of IN
    /\ req[r].pc = "link"
    /\ art' = IF art.state = "none" /\ ~dl[d].past
              THEN [state |-> "ready", source |-> d, past |-> FALSE] ELSE art
    /\ Done(r)
    /\ UNCHANGED <<dl, granted, restarts>>

\* get_artifact marks an artifact expired once its time has passed.
GetArtifact ==
    /\ art.state = "ready" /\ art.past
    /\ art' = [art EXCEPT !.state = "expired"]
    /\ UNCHANGED <<dl, req, granted, restarts>>

\* reissue_document_download: a replacement is created for an expired artifact
\* and prepared like any other; the source seen now is compared at the end.
Reissue(r, d) ==
    /\ req[r].pc = "idle" /\ granted
    /\ art.state = "expired"
    /\ dl[d].state = "none" /\ \A e \in Downloads : e < d => dl[e].state # "none"
    /\ dl' = [dl EXCEPT ![d].state = "processing"]
    /\ req' = [req EXCEPT ![r] =
                 [pc |-> "claimed", kind |-> "reissue", of |-> d, seen |-> art.source]]
    /\ UNCHANGED <<art, granted, restarts>>

\* A mutant: an artifact that is alive is refreshed too.
MayRefreshAnytime(r) == art.state # "none"

\* refresh_artifact: compare and swap of source_ref, only on an expired artifact.
MayRefresh(r) == art.state = "expired" /\ art.source = req[r].seen
RefreshArtifact(r) ==
    LET d == req[r].of IN
    /\ req[r].pc = "refresh"
    /\ art' = IF MayRefresh(r) /\ ~dl[d].past
              THEN [state |-> "ready", source |-> d, past |-> FALSE] ELSE art
    /\ Done(r)
    /\ UNCHANGED <<dl, granted, restarts>>

\* Any get() commits an expiry; ready_payload, claim and issue_csrf raise.
Get(d) ==
    /\ Due(dl[d])
    /\ dl' = [dl EXCEPT ![d] = Expired(@)]
    /\ UNCHANGED <<art, req, granted, restarts>>
ReadFails(d) ==
    /\ Due(dl[d]) /\ dl[d].file
    /\ dl' = [dl EXCEPT ![d] = RolledBack(@)]
    /\ UNCHANGED <<art, req, granted, restarts>>

\* user_grants may change at any time; release gives the claims back.
ChangeGrant ==
    /\ granted' = ~granted
    /\ UNCHANGED <<dl, art, req, restarts>>

\* A restart forgets the requests: rows stay processing, files stay written.
Restart ==
    /\ restarts < MaxRestarts
    /\ restarts' = restarts + 1
    /\ req' = [r \in Requests |-> Idle]
    /\ UNCHANGED <<dl, art, granted>>

Next ==
    \/ \E d \in Downloads :
          \/ TimePasses(d) \/ PreparedTimePasses(d) \/ OpenPage(d) \/ Get(d) \/ ReadFails(d)
          \/ \E r \in Requests :
                \/ \E kind \in {"card", "prepare"} : Claim(r, d, kind)
                \/ PrepareAgain(r, d) \/ MaterializeReport(r, d) \/ Reissue(r, d)
    \/ \E r \in Requests :
          \/ Fetch(r) \/ FetchFails(r) \/ CompleteCard(r) \/ WriteFile(r) \/ MarkReady(r)
          \/ LinkArtifact(r) \/ RefreshArtifact(r)
    \/ GetArtifact \/ ChangeGrant \/ Restart

Spec == Init /\ [][Next]_vars
-----------------------------------------------------------------------------
TypeOK ==
    /\ dl \in [Downloads -> [state : Alive \cup {"none", "completed", "expired"},
                             csrf : BOOLEAN, past : BOOLEAN, stale : BOOLEAN, file : BOOLEAN]]
    /\ art \in [state : {"none", "ready", "expired"},
                source : Downloads \cup {NoDownload}, past : BOOLEAN]
    /\ req \in [Requests -> [pc : {"idle", "claimed", "fetched", "written", "link", "refresh"},
                             kind : {"none", "card", "prepare", "reissue"},
                             of : Downloads \cup {NoDownload},
                             seen : Downloads \cup {NoDownload}]]
    /\ granted \in BOOLEAN
    /\ restarts \in 0 .. MaxRestarts

\* A link the task shows as ready works: until the artifact's own time has
\* passed, the download it points at is ready and its cached file is there,
\* whatever page, second preparation, failed read, reissue or restart came
\* between mark_ready, link_artifact, refresh_artifact and _expire_if_needed.
ReadyArtifactHasFile ==
    art.state = "ready" /\ ~art.past => dl[art.source].state = "ready" /\ dl[art.source].file

\* A claim has one holder: two requests never fetch the same download, so a
\* file is never removed or rewritten under the request that prepared it.
OneHolder ==
    \A r, s \in Requests :
        {req[r].pc, req[s].pc} \subseteq {"claimed", "fetched", "written"}
            /\ req[r].of = req[s].of => r = s

\* A working link is not replaced: only an artifact that has expired is given
\* another source (concurrent reissues: the late one keeps the first's).
LinkIsStable ==
    [][art.state = "ready" /\ ~art.past => art'.source = art.source]_vars
=============================================================================
