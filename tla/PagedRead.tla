------------------------------ MODULE PagedRead ------------------------------
(***************************************************************************)
(* Reading a collection of a business system page by page while the system *)
(* is in use.  Rows arrive at the front (newest first) and leave anywhere  *)
(* between two pages, and a page is what the collection holds at its       *)
(* position at that moment.  What a caller makes of the result hangs on    *)
(* the reader's claim that it is whole: a meeting room counts as canceled  *)
(* because a complete list lacks it, a period is summed up because its     *)
(* rows were not truncated.                                                *)
(*                                                                         *)
(* Four readers make the claim in different ways:                          *)
(*   history   the filtered history of sent and handled workflows          *)
(*   rooms     the user's meeting-room applications                        *)
(*   analysis  the alarms, leakages and energy records of the lighting     *)
(*             system, and its exported reports                            *)
(*   find      the search for one alarm through its first pages            *)
(***************************************************************************)
EXTENDS Naturals, Sequences, SequencesExt, FiniteSets

CONSTANTS
    Rows,       \* the rows there may be
    Readers,    \* the readers of this instance
    PageSize,
    MaxPages,   \* pages a reader asks for at most
    MaxRows,    \* rows that are there at first, at most
    MaxChanges  \* arrivals and departures

VARIABLES
    reader,     \* the reader at work
    source,     \* the rows of the collection, newest first
    steady,     \* the rows that have been there since the first page
    moves,      \* what happened since the first page: "arrived", "left"
    changes,
    got,        \* the rows read so far, in order
    totals,     \* the totals the pages reported, in order
    verdict     \* "reading", "whole", "partial", "found" or "absent"

vars == <<reader, source, steady, moves, changes, got, totals, verdict>>

ReadingAssumption ==
    /\ PageSize \in Nat \ {0}
    /\ MaxPages \in Nat /\ MaxRows \in Nat /\ MaxChanges \in Nat

\* The row the search is after.
Wanted == CHOOSE r \in Rows : TRUE

InitialSources == {s \in SeqOf(Rows, MaxRows) : IsInjective(s)}

Init ==
    /\ reader \in Readers
    /\ source \in InitialSources
    /\ steady = ToSet(source)
    /\ moves = {}
    /\ changes = 0
    /\ got = << >>
    /\ totals = << >>
    /\ verdict = "reading"

\* How many pages have been read.
Read == Len(totals)
Page == Read + 1

\* The business system answers one page, with the size of the collection.
PageRows(n) == SubSeq(source, (n - 1) * PageSize + 1,
                      IF n * PageSize < Len(source) THEN n * PageSize
                                                   ELSE Len(source))
Pages(total) == (total + PageSize - 1) \div PageSize

Arrive(r) ==
    /\ changes < MaxChanges
    /\ r \notin ToSet(source) \cup ToSet(got)
    /\ source' = <<r>> \o source
    /\ changes' = changes + 1
    /\ moves' = IF Read = 0 THEN moves ELSE moves \cup {"arrived"}
    /\ steady' = IF Read = 0 THEN steady \cup {r} ELSE steady
    /\ UNCHANGED <<reader, got, totals, verdict>>

Leave(r) ==
    /\ changes < MaxChanges
    /\ \E i \in DOMAIN source : source[i] = r /\ source' = RemoveAt(source, i)
    /\ changes' = changes + 1
    /\ moves' = IF Read = 0 THEN moves ELSE moves \cup {"left"}
    /\ steady' = steady \ {r}
    /\ UNCHANGED <<reader, got, totals, verdict>>

\* The reader takes the next page and goes on, or ends with a verdict.
Take(v) ==
    /\ verdict = "reading"
    /\ got' = got \o PageRows(Page)
    /\ totals' = Append(totals, Len(source))
    /\ verdict' = v
    /\ UNCHANGED <<reader, source, steady, moves, changes>>

\* A reader that has read nothing raises; otherwise it stops with what it has.
PageFails ==
    /\ verdict = "reading"
    /\ verdict' = "partial"
    /\ UNCHANGED <<reader, source, steady, moves, changes, got, totals>>

All == got \o PageRows(Page)

\* read_filtered_history stops at the first page whose total differs or whose
\* rows repeat, and is whole when it has as many rows as the total says.
HistorySound ==
    /\ Read > 0 => Len(source) = totals[1]
    /\ IsInjective(All)
HistoryVerdict ==
    IF ~HistorySound THEN "partial"
    ELSE IF Len(All) = Len(source) /\ Page >= Pages(Len(source)) THEN "whole"
    ELSE IF Page = MaxPages THEN "partial"
    ELSE "reading"

ReadHistory == reader = "history" /\ Take(HistoryVerdict)

\* query_my_meeting_room_applications reads to the last page and compares at
\* the end: one total, and as many different rows as it says.
RoomsStops ==
    \/ PageRows(Page) = << >>
    \/ Page >= Pages(Len(source))
    \/ Len(All) >= Len(source)
    \/ Page = MaxPages
\* A mutant: the number of rows alone decides.
RoomsWholeByCount == Len(All) = Len(source)

RoomsWhole ==
    /\ \A i \in DOMAIN totals : totals[i] = Len(source)
    /\ Len(All) = Len(source)
    /\ IsInjective(All)
RoomsVerdict ==
    IF ~RoomsStops THEN "reading"
    ELSE IF RoomsWhole THEN "whole" ELSE "partial"

ReadRooms == reader = "rooms" /\ Take(RoomsVerdict)

\* The analyses and reports keep the total of the first page and stop when
\* they hold as many rows; "truncated" compares the two numbers.
FirstTotal == IF Read = 0 THEN Len(source) ELSE totals[1]
AnalysisStops ==
    \/ PageRows(Page) = << >>
    \/ Len(All) >= FirstTotal
    \/ Page = MaxPages
Truncated == FirstTotal > Len(All)
AnalysisVerdict ==
    IF ~AnalysisStops THEN "reading"
    ELSE IF Truncated THEN "partial" ELSE "whole"

ReadAnalysis == reader = "analysis" /\ Take(AnalysisVerdict)

\* The search looks at the first pages and rejects the write when the alarm is
\* on none of them.
FindVerdict ==
    IF Wanted \in ToSet(PageRows(Page)) THEN "found"
    ELSE IF \/ PageRows(Page) = << >>
            \/ Page * PageSize >= Len(source)
            \/ Page = MaxPages THEN "absent"
    ELSE "reading"

FindAlarm == reader = "find" /\ Take(FindVerdict)

Next ==
    \/ \E r \in Rows : Arrive(r) \/ Leave(r)
    \/ ReadHistory \/ ReadRooms \/ ReadAnalysis \/ FindAlarm
    \/ PageFails

Spec == Init /\ [][Next]_vars

TypeOK ==
    /\ reader \in Readers
    /\ IsInjective(source) /\ ToSet(source) \subseteq Rows
    /\ steady \subseteq Rows
    /\ moves \subseteq {"arrived", "left"}
    /\ changes \in 0..MaxChanges
    /\ ToSet(got) \subseteq Rows
    /\ Len(totals) <= MaxPages
    /\ verdict \in {"reading", "whole", "partial", "found", "absent"}

\* A list of the history or of the room applications that claims to be whole
\* holds every row that was there all the time, unless rows both arrived and
\* left while it was read: an exchange leaves the total as it was.
WholeListsAll ==
    (/\ verdict = "whole"
     /\ reader \in {"history", "rooms"}
     /\ moves # {"arrived", "left"}) => steady \subseteq ToSet(got)

\* An analysis or report that is not marked as truncated holds every row that
\* was there all the time, each of them once.
\* Does not hold (README, section 6).
UntruncatedIsWhole ==
    (verdict = "whole" /\ reader = "analysis") =>
        IsInjective(got) /\ steady \subseteq ToSet(got)
=============================================================================
