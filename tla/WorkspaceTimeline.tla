------------------------- MODULE WorkspaceTimeline -------------------------
(***************************************************************************)
(* The workspace page and the timeline of its user: workspace.js with its  *)
(* scopes and requests, against /api/timeline and /api/timeline/stream of  *)
(* the workspace server.  Three readers advance one cursor: the load of    *)
(* the chat, which asks for the chat messages and the task events in two   *)
(* requests, the reconciliation every ten seconds, and the event stream.   *)
(* The server answers a request from two reads, first the entries and then *)
(* the newest sequence number.  What the page makes of an entry (messages, *)
(* cards, the agent's history) is left out: an entry is ingested or not.   *)
(***************************************************************************)
EXTENDS Naturals, Sequences, FiniteSets

CONSTANTS
    Types,        \* the types of entries loadChat asks for: chat and task
    MaxEntries,   \* bound on the timeline
    PageLimit,    \* entries per request of reconcileTimeline (200)
    MaxPages,     \* requests per reconciliation (3)
    MaxEnters     \* bound on how often the page enters the workspace

TimelineAssumption == PageLimit \in Nat \ {0} /\ MaxEntries \in Nat

VARIABLES
    log,        \* the user's timeline: the type of each entry
    scope,      \* the session scope: how often the workspace was entered
    cursor,     \* state.timelineCursor
    ingested,   \* entries ingestTimelineEntry has seen in this scope
    load,       \* the latest loadChat of this scope: its two requests
    entering,   \* what enterWorkspace has left to do: "load", "open", "done"
    recon,      \* reconcileTimeline: its scope, page and request
    active,     \* state.timelineReconcileActive
    src,        \* the event source and the server's side of it
    raced       \* ghost: entries appended where a reader is about to pass them

vars == <<log, scope, cursor, ingested, load, entering, recon, active, src, raced>>
pageVars == <<scope, cursor, ingested, entering, active>>

Entries == 1..MaxEntries
Newest == Len(log)
OfType(t) == {e \in 1..Newest : log[e] = t}

\* A request to /api/timeline.
Idle == [pc |-> "idle", items |-> {}, cursor |-> 0, after |-> 0]
Asked(after) == [Idle EXCEPT !.pc = "list", !.after = after]
NoRecon == [scope |-> 0, page |-> 0, req |-> Idle]
NoSource == [pc |-> "none", after |-> 0, at |-> 0, wire |-> << >>]

TypeOK ==
    /\ log \in Seq(Types) /\ Newest <= MaxEntries
    /\ scope \in 0..MaxEnters /\ cursor \in 0..MaxEntries /\ ingested \subseteq Entries
    /\ \A t \in Types : load[t].pc \in {"idle", "list", "cursor", "done"}
    /\ entering \in {"load", "open", "done"}
    /\ recon.scope \in 0..MaxEnters /\ recon.page \in 0..MaxPages
    /\ active \in BOOLEAN /\ raced \subseteq Entries
    /\ src.pc \in {"none", "opening", "open"} /\ src.at \in 0..MaxEntries

Init ==
    /\ log = << >> /\ scope = 0 /\ cursor = 0 /\ ingested = {} /\ raced = {}
    /\ load = [t \in Types |-> Idle]
    /\ recon = NoRecon
    /\ entering = "done" /\ active = FALSE /\ src = NoSource

\* The cursor moves to the furthest of these numbers.
MovesTo(numbers, c) == c \in numbers /\ \A n \in numbers : n <= c

\* An event of the stream.
Event(name, n) == [name |-> name, seq |-> n]

-----------------------------------------------------------------------------
(* The server *)

\* An entry of this type is passed by a load that has already read its list
\* and has a newest sequence number still to read, ...
LoadPasses(t) ==
    /\ load[t].pc \in {"cursor", "done"}
    /\ \E u \in Types : load[u].pc \in {"list", "cursor"}

\* ... and by a reconciliation whose list was not full.
Full(items) == Cardinality(items) >= PageLimit
ReconcilePasses ==
    /\ recon.scope = scope
    /\ recon.req.pc = "cursor" /\ ~Full(recon.req.items)

\* _append_timeline_message_in_connection, and the task events beside it.
Appended(t) ==
    /\ Newest < MaxEntries
    /\ log' = log \o <<t>>
    /\ raced' = IF LoadPasses(t) \/ ReconcilePasses THEN raced \cup {Newest + 1} ELSE raced
    /\ UNCHANGED <<pageVars, load, recon, src>>

\* list_timeline of one type, newest first up to a limit the page never meets.
LoadList(t) ==
    /\ load[t].pc = "list"
    /\ load' = [load EXCEPT ![t] = [load[t] EXCEPT !.pc = "cursor", !.items = OfType(t)]]
    /\ UNCHANGED <<log, pageVars, recon, src, raced>>

\* timeline_cursor, in a connection of its own.
LoadCursor(t) ==
    /\ load[t].pc = "cursor"
    /\ load' = [load EXCEPT ![t] = [load[t] EXCEPT !.pc = "done", !.cursor = Newest]]
    /\ UNCHANGED <<log, pageVars, recon, src, raced>>

\* list_timeline after a sequence number asks for one entry more than the
\* limit; HasMore is whether it got it (the numbers have no gaps).
After(n) == {e \in 1..Newest : e > n}
HasMore(n) == Newest > n + PageLimit
FirstPage(n) == {e \in After(n) : e <= n + PageLimit}

\* The list of a reconciliation. With more to come the cursor is its last item.
ReconcileList ==
    /\ recon.req.pc = "list"
    /\ LET n == recon.req.after IN
         recon' = [recon EXCEPT !.req =
             [pc |-> IF HasMore(n) THEN "done" ELSE "cursor", items |-> FirstPage(n),
              cursor |-> IF HasMore(n) THEN n + PageLimit ELSE 0, after |-> 0]]
    /\ UNCHANGED <<log, pageVars, load, src, raced>>

ReconcileCursor ==
    /\ recon.req.pc = "cursor"
    /\ recon' = [recon EXCEPT !.req = [recon.req EXCEPT !.pc = "done", !.cursor = Newest]]
    /\ UNCHANGED <<log, pageVars, load, src, raced>>

\* _timeline_stream: without an `after' it starts at the newest entry and says
\* so; whatever is in the timeline then is passed by the stream.
StreamStarts ==
    /\ src.pc = "opening"
    /\ \/ /\ src.after > 0
          /\ src' = [src EXCEPT !.pc = "open", !.at = src.after, !.after = 0]
          /\ UNCHANGED raced
       \/ /\ src.after = 0
          /\ src' = [src EXCEPT !.pc = "open", !.at = Newest, !.wire = <<Event("cursor", Newest)>>]
          /\ raced' = raced \cup 1..Newest
    /\ UNCHANGED <<log, pageVars, load, recon>>

\* One round of its loop: what is new is written to the connection.
StreamReads ==
    /\ src.pc = "open" /\ src.at < Newest
    /\ src' = [src EXCEPT !.at = @ + 1, !.wire = Append(@, Event("timeline", src.at + 1))]
    /\ UNCHANGED <<log, pageVars, load, recon, raced>>

-----------------------------------------------------------------------------
(* The page *)

\* enterWorkspace (login, a return of the page): the observers stop, the
\* former scope is disposed with everything it had under way, the state is
\* reset, and the chat is loaded.
EnterWorkspace ==
    /\ scope < MaxEnters
    /\ scope' = scope + 1
    /\ cursor' = 0 /\ ingested' = {} /\ raced' = {}
    /\ load' = [t \in Types |-> Asked(0)]
    /\ entering' = "load" /\ active' = FALSE /\ src' = NoSource
    /\ UNCHANGED <<log, recon>>

\* loadChat of the refresh button and of scheduleChatRefresh: it disposes the
\* load under way, whose finally still opens the stream.
LoadChat ==
    /\ scope > 0
    /\ load' = [t \in Types |-> Asked(0)]
    /\ entering' = IF entering = "load" THEN "open" ELSE entering
    /\ UNCHANGED <<log, scope, cursor, ingested, recon, active, src, raced>>

LoadEnds ==
    /\ load' = [t \in Types |-> Idle]
    /\ entering' = IF entering = "load" THEN "open" ELSE entering

\* The answers are here: both lists are ingested, and the cursor is taken from
\* whichever answer is ahead.
LoadApplies ==
    /\ \A t \in Types : load[t].pc = "done"
    /\ ingested' = ingested \cup UNION {load[t].items : t \in Types}
    /\ LET numbers == {cursor} \cup {load[t].cursor : t \in Types}
                         \cup UNION {load[t].items : t \in Types}
       IN  \E c \in numbers : MovesTo(numbers, c) /\ cursor' = c
    /\ LoadEnds
    /\ UNCHANGED <<log, scope, recon, active, src, raced>>

\* One of its four requests fails.
LoadFails ==
    /\ \E t \in Types : load[t].pc # "idle"
    /\ LoadEnds
    /\ UNCHANGED <<log, scope, cursor, ingested, recon, active, src, raced>>

\* openTimelineStream, from the end of the first load, from the timer set by an
\* error and from refreshWorkspaceState when there is no source.
OpenTimelineStream ==
    /\ scope > 0
    /\ entering = "open" \/ src.pc = "none"
    /\ src' = [NoSource EXCEPT !.pc = "opening", !.after = cursor]
    /\ entering' = IF entering = "open" THEN "done" ELSE entering
    /\ UNCHANGED <<log, scope, cursor, ingested, load, recon, active, raced>>

\* The listeners of the source, for the events `cursor' and `timeline'.
StreamEvent ==
    /\ src.wire # << >>
    /\ cursor' = IF cursor < Head(src.wire).seq THEN Head(src.wire).seq ELSE cursor
    /\ ingested' = ingested \cup {e \in Entries : Event("timeline", e) = Head(src.wire)}
    /\ src' = [src EXCEPT !.wire = Tail(@)]
    /\ UNCHANGED <<log, scope, entering, active, load, recon, raced>>

\* onerror: the server closes the stream after 25 seconds, or it breaks and
\* what is in transit is lost.
SourceError ==
    /\ src.pc # "none"
    /\ src' = NoSource
    /\ UNCHANGED <<log, pageVars, load, recon, raced>>

\* reconcileTimeline, from its interval and from refreshWorkspaceState.
Reconcile ==
    /\ scope > 0 /\ ~active
    /\ active' = TRUE
    /\ recon' = [scope |-> scope, page |-> 1, req |-> Asked(cursor)]
    /\ UNCHANGED <<log, scope, cursor, ingested, entering, load, src, raced>>

\* The next page, or the end of the loop.
ReconcileGoesOn(full, newCursor) ==
    \/ /\ full /\ recon.page < MaxPages
       /\ recon' = [recon EXCEPT !.page = @ + 1, !.req = Asked(newCursor)]
       /\ UNCHANGED active
    \/ /\ ~(full /\ recon.page < MaxPages)
       /\ recon' = NoRecon
       /\ active' = FALSE

\* Mutant: the answer of a disposed scope is applied.
ReconcileAppliesStale ==
    /\ recon.req.pc = "done"
    /\ LET full == Full(recon.req.items)
           numbers == {cursor} \cup recon.req.items
                        \cup (IF full THEN {} ELSE {recon.req.cursor})
       IN  \E c \in numbers :
             /\ MovesTo(numbers, c) /\ cursor' = c
             /\ ingested' = ingested \cup recon.req.items
             /\ ReconcileGoesOn(full, c)
    /\ UNCHANGED <<log, scope, entering, load, src, raced>>

\* assertCurrent, the items, and the answer's cursor if the page was not full.
ReconcileApplies ==
    /\ recon.scope = scope
    /\ recon.req.pc = "done"
    /\ LET full == Full(recon.req.items)
           numbers == {cursor} \cup recon.req.items
                        \cup (IF full THEN {} ELSE {recon.req.cursor})
       IN  \E c \in numbers :
             /\ MovesTo(numbers, c) /\ cursor' = c
             /\ ingested' = ingested \cup recon.req.items
             /\ ReconcileGoesOn(full, c)
    /\ UNCHANGED <<log, scope, entering, load, src, raced>>

ReconcileFails ==
    /\ recon.scope = scope /\ recon.req.pc # "idle"
    /\ recon' = NoRecon
    /\ active' = FALSE
    /\ UNCHANGED <<log, scope, cursor, ingested, entering, load, src, raced>>

-----------------------------------------------------------------------------
Server ==
    \/ \E t \in Types : Appended(t) \/ LoadList(t) \/ LoadCursor(t)
    \/ ReconcileList \/ ReconcileCursor \/ StreamStarts \/ StreamReads

Page ==
    \/ EnterWorkspace \/ LoadChat \/ LoadApplies \/ LoadFails
    \/ OpenTimelineStream \/ StreamEvent \/ SourceError
    \/ Reconcile \/ ReconcileApplies \/ ReconcileFails

Next == Server \/ Page

Spec == Init /\ [][Next]_vars

-----------------------------------------------------------------------------
\* loadChat, reconcileTimeline and the stream: the cursor passes an entry only
\* when the page has it, whichever of the three readers moves it, through lost
\* connections, failed requests, full pages and a page that is left and
\* entered again.  The entries it may pass are those that were appended
\* between the two reads of a request, or were there when a stream was opened
\* with no cursor to start from.
NothingSkipped == \A e \in 1..Newest : e <= cursor => e \in ingested \cup raced
=============================================================================
