---------------------------- MODULE RuntimeTrace ----------------------------
(***************************************************************************)
(* The trace of one operation in the reliability ledger                    *)
(* (runtime_governance.py): its spans, its status and the side effect      *)
(* boundary it has reached.  The call that runs the operation and the      *)
(* polls of its interaction write it side by side.                         *)
(*                                                                         *)
(* update_trace reads the row and writes it in two statements, the first   *)
(* of them outside any transaction, so that another writer may come        *)
(* between.                                                                *)
(***************************************************************************)
EXTENDS Naturals, Sequences

CONSTANTS
    Efforts     \* what the operation may be when it begins

TraceAssumption == Efforts \subseteq {"read", "prepare", "commit"}

VARIABLES
    effort,     \* of this operation
    op,         \* its row of operations
    adapter,    \* its call of the adapter: "none", "called", "returned", "raised"
    trace,      \* its row of runtime_traces
    spans,      \* stages of runtime_spans
    call        \* the writers of the trace: the call and the poll

vars == <<effort, op, adapter, trace, spans, call>>

Writers == {"call", "poll"}
Ended == {"succeeded", "failed", "unknown"}
TRACE_STATUSES == {"active", "waiting"} \cup Ended
\* B0_NO_EFFECT to B5_VERIFIED
Boundaries == 0..5
Idle == [pc |-> "idle", todo |-> << >>, seen |-> [status |-> "active", boundary |-> 0]]

Init ==
    /\ effort \in Efforts
    /\ op = "running"
    /\ adapter = "none"
    /\ trace = [status |-> "active", boundary |-> 0]   \* ensure_trace
    /\ spans = {}
    /\ call = [w \in Writers |-> Idle]

\* What a recorder still has to write: start_span and finish_span raise the
\* boundary and keep the status they read, the last update sets the status.
Update(b, s) == [boundary |-> b, status |-> s]
Keep == "keep"
StageUpdates(stage, b) == IF stage \in spans THEN << >>
                          ELSE <<Update(b, Keep), Update(b, Keep)>>
Recording(w, updates) ==
    [call EXCEPT ![w] = [@ EXCEPT !.pc = "read", !.todo = updates]]

\* _invoke_adapter: the span of the request, with the boundary it is about to
\* reach, and again with the one it reached.
AdapterBoundary == CASE effort = "read" -> 1 [] effort = "commit" -> 4 [] OTHER -> 2
CallAdapter ==
    /\ op = "running" /\ adapter = "none" /\ call["call"].pc = "idle"
    /\ adapter' = "called"
    /\ call' = Recording("call", <<Update(AdapterBoundary, Keep)>>)
    /\ UNCHANGED <<effort, op, trace, spans>>
AdapterEnds(how) ==
    /\ adapter = "called" /\ call["call"].pc = "idle"
    /\ adapter' = how
    /\ call' = Recording("call",
                 <<Update(IF effort = "commit" /\ how = "returned" THEN 5
                          ELSE AdapterBoundary, Keep)>>)
    /\ UNCHANGED <<effort, op, trace, spans>>

\* The engine records the outcome of the operation.
Outcomes ==
    CASE adapter = "returned" -> IF effort = "prepare" THEN {"waiting"} ELSE {"succeeded"}
      [] adapter = "raised"   -> {"waiting", "failed", "unknown"}
      [] OTHER                -> {"waiting", "failed"}
OperationEnds(o) ==
    /\ op = "running" /\ adapter # "called" /\ call["call"].pc = "idle"
    /\ o \in Outcomes
    /\ op' = o
    /\ UNCHANGED <<effort, adapter, trace, spans, call>>

\* A mutant: every commit counts as verified.
BoundaryOfAnyCommit(o) == IF effort = "commit" THEN 5 ELSE 1

\* observe_operation: the boundary follows from the kind of the operation.
BoundaryOf(o) ==
    CASE effort = "read" -> 1
      [] effort = "commit" -> IF o = "succeeded" THEN 5 ELSE 4
      [] o = "waiting" -> 2
      [] OTHER -> 3

\* record_stage_once: look for the stage, then insert it.
ObserveOperation ==
    /\ op # "running" /\ call["call"].pc = "idle" /\ "invoke" \notin spans
    /\ LET b == BoundaryOf(op)
       IN call' = Recording("call", Append(StageUpdates("invoke", b), Update(b, op)))
    /\ spans' = spans \cup {"invoke"}
    /\ UNCHANGED <<effort, op, adapter, trace>>

\* observe_interaction of a card that is still open, from any poll.
ObserveInteraction ==
    /\ op = "waiting" /\ call["poll"].pc = "idle"
    /\ call' = Recording("poll", Append(StageUpdates("wait", 2), Update(2, "waiting")))
    /\ spans' = spans \cup {"wait"}
    /\ UNCHANGED <<effort, op, adapter, trace>>

\* The card is answered and the resumed operation runs; its own call reports.
Resumed ==
    /\ op = "waiting" /\ call["call"].pc = "idle" /\ "invoke" \in spans
    /\ op' = "running"
    /\ adapter' = "none"
    /\ effort' = IF effort = "prepare" THEN "commit" ELSE effort
    /\ spans' = spans \ {"invoke"}
    /\ UNCHANGED <<trace, call>>

ReadTrace(w) ==
    /\ call[w].pc = "read"
    /\ call' = [call EXCEPT ![w].pc = "write", ![w].seen = trace]
    /\ UNCHANGED <<effort, op, adapter, trace, spans>>

\* _max_boundary of what was read and what is reported.
MaxBoundary(a, b) == IF a > b THEN a ELSE b
WriteTrace(w) ==
    LET u == Head(call[w].todo)
        rest == Tail(call[w].todo)
    IN /\ call[w].pc = "write"
       /\ trace' = [boundary |-> MaxBoundary(call[w].seen.boundary, u.boundary),
                    status |-> IF u.status = Keep THEN call[w].seen.status ELSE u.status]
       /\ call' = [call EXCEPT ![w] =
                     IF rest # << >> THEN [@ EXCEPT !.pc = "read", !.todo = rest]
                     ELSE Idle]
       /\ UNCHANGED <<effort, op, adapter, spans>>

Next ==
    \/ CallAdapter \/ \E how \in {"returned", "raised"} : AdapterEnds(how)
    \/ \E o \in {"waiting"} \cup Ended : OperationEnds(o)
    \/ ObserveOperation \/ ObserveInteraction \/ Resumed
    \/ \E w \in Writers : ReadTrace(w) \/ WriteTrace(w)

Spec == Init /\ [][Next]_vars

-----------------------------------------------------------------------------
TypeOK ==
    /\ effort \in {"read", "prepare", "commit"}
    /\ op \in {"running", "waiting"} \cup Ended
    /\ adapter \in {"none", "called", "returned", "raised"}
    /\ trace \in [status : TRACE_STATUSES, boundary : Boundaries]
    /\ spans \subseteq {"invoke", "wait"}
    /\ \A w \in Writers : call[w].pc \in {"idle", "read", "write"}

\* What the trace says of a write that was verified, or of an operation that
\* has ended, is so, however the stale writes of polls fall.
TraceIsReal ==
    /\ trace.boundary = 5 => adapter = "returned" /\ op \in {"running", "succeeded"}
    /\ trace.status \in Ended => op = trace.status

\* The trace keeps the furthest boundary: it never falls back.
\* Does not hold (README, section 6).
BoundaryNeverFalls == [][trace'.boundary >= trace.boundary]_vars
=============================================================================
