----------------------------- MODULE MCAdapters -----------------------------
(***************************************************************************)
(* The specifications of the business system adapters and of the workspace *)
(* page, which like them reads in pages what changes meanwhile, checked    *)
(* side by side: a behaviour of Spec is a behaviour of the one that `part' *)
(* names, while the variables of the others keep their initial values.     *)
(***************************************************************************)
EXTENDS Naturals

CONSTANTS
    Forms, Warnings, Blocker, NoPrompt,                          \* submission
    MaxOverrides, MaxHooked, MaxManual,
    Kinds, MaxEdits,                                             \* actions
    Rows, Readers, PageSize, MaxPages, MaxRows, MaxChanges,      \* paged reads
    MaxFaults,                                                   \* renewal
    Types, MaxEntries, PageLimit, MaxTurns, MaxEnters                   \* page

VARIABLES
    part,
    form, oa, tracker, host, authorized,
    kind, long, rec, plan, wire, pc,
    reader, source, steady, moves, changes, got, totals, verdict,
    live, held, run, central, faults,
    log, scope, cursor, ingested, load, entering, recon, active, src, raced

Submission == INSTANCE SeeyonSubmit
Action == INSTANCE BusinessActions
Reading == INSTANCE PagedRead
Renewal == INSTANCE SmartlightSession
Page == INSTANCE WorkspaceTimeline WITH MaxPages <- MaxTurns

LOCAL INSTANCE TLC

\* The two types of entries may be exchanged.
TypeSymmetry == Permutations(Types)

ASSUME ConstantsFit ==
    /\ Submission!SubmitAssumption
    /\ Reading!ReadingAssumption
    /\ Page!TimelineAssumption
    /\ MaxTurns > 0 /\ MaxEnters > 0

submissionVars == <<form, oa, tracker, host, authorized>>
actionVars == <<kind, long, rec, plan, wire, pc>>
readingVars == <<reader, source, steady, moves, changes, got, totals, verdict>>
renewalVars == <<live, held, run, central, faults>>
pageVars == <<log, scope, cursor, ingested, load, entering, recon, active, src, raced>>
vars == <<part, submissionVars, actionVars, readingVars, renewalVars, pageVars>>

Init ==
    /\ part \in {"submission", "action", "reading", "renewal", "page"}
    /\ Submission!Init /\ Action!Init /\ Reading!Init /\ Renewal!Init /\ Page!Init
    /\ part # "submission" => form = CHOOSE f \in Forms : TRUE
    /\ part # "action" => kind = (CHOOSE k \in Kinds : TRUE) /\ ~long
    /\ part # "reading" => reader = (CHOOSE r \in Readers : TRUE) /\ source = << >>

Next ==
    \/ /\ part = "submission" /\ Submission!Next
       /\ UNCHANGED <<part, actionVars, readingVars, renewalVars, pageVars>>
    \/ /\ part = "action" /\ Action!Next
       /\ UNCHANGED <<part, submissionVars, readingVars, renewalVars, pageVars>>
    \/ /\ part = "reading" /\ Reading!Next
       /\ UNCHANGED <<part, submissionVars, actionVars, renewalVars, pageVars>>
    \/ /\ part = "renewal" /\ Renewal!Next
       /\ UNCHANGED <<part, submissionVars, actionVars, readingVars, pageVars>>
    \/ /\ part = "page" /\ Page!Next
       /\ UNCHANGED <<part, submissionVars, actionVars, readingVars, renewalVars>>

Spec == Init /\ [][Next]_vars

\* The variables of the specifications stay in their domains.
TypeOK ==
    /\ Submission!TypeOK /\ Action!TypeOK /\ Reading!TypeOK /\ Renewal!TypeOK
    /\ Page!TypeOK

\* No prompt is passed unless an authorized warning appeared again in the same
\* attempt (SeeyonSubmit).
ContinuedOnlyAgain == Submission!ContinuedOnlyAgain

\* A write reported as rejected has not and will not take place
\* (BusinessActions).
RejectedNeverWrites == Action!RejectedNeverWrites

\* No request is applied twice (BusinessActions).
WrittenOnce == Action!WrittenOnce

\* A list called whole holds every row that was there all the time
\* (PagedRead).
WholeListsAll == Reading!WholeListsAll

\* A session is given up only when no token could renew it
\* (SmartlightSession).
EndedIsHopeless == Renewal!EndedIsHopeless

\* The cursor of the page passes no entry it has not shown
\* (WorkspaceTimeline).
NothingSkipped == Page!NothingSkipped
=============================================================================
