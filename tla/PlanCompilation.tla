-------------------------- MODULE PlanCompilation ---------------------------
(***************************************************************************)
(* How a plan the model proposes becomes a plan the runtime may execute:   *)
(* compile_temporal_constraints fixes the days, validate_and_compile_task_ *)
(* plan checks the steps, their order and where their inputs come from,    *)
(* TaskPlanStore.create stores the result, and the runtime executes it     *)
(* step by step.  The transforms pass on what they read, and stop the plan *)
(* when a source is incomplete or empty.                                   *)
(*                                                                         *)
(* A proposal is a well-formed plan with up to MaxEdits things wrong in    *)
(* it: what a model that does not follow the catalog may send.             *)
(***************************************************************************)
EXTENDS Integers, FiniteSets, FiniteSetsExt

CONSTANTS
    MaxEdits,  \* bound on the differences from a well-formed plan
    Anchors    \* acceptance times, in hours since 1970-01-01T00:00Z

AnchorsAssumption == Anchors \subseteq Nat

(* The registered capabilities and transforms.  "lookup" stands for a read *)
(* without a planning descriptor, "fill" for a trusted write without one,  *)
(* "commit" for a hidden commit capability, "ghost" for no capability.     *)
Sources == {"done", "sent"}
Writes == {"prepare", "fill"}
Transforms == {"merge", "draft1", "draft2"}
Names == Sources \cup Writes \cup Transforms \cup {"lookup", "commit", "ghost"}
Kinds == {"previous_day", "day_before_yesterday", "previous_calendar_week"}

Ref(k, at) == [step |-> k, at |-> at]
Step(name, deps, many, main) ==
    [name |-> name, deps |-> deps, many |-> many, main |-> main, side |-> {}, days |-> "none"]

\* The plans of build_planning_catalog's examples.
Example(n) == [k \in 1..n |->
    CASE k = 1 -> Step("done", {}, FALSE, {})
      [] k = 2 -> Step("sent", {}, FALSE, {})
      [] k = 3 -> Step("merge", {1, 2}, TRUE, {Ref(1, "whole"), Ref(2, "whole")})
      [] k = 4 -> Step("draft2", {3}, FALSE, {Ref(3, "whole")})
      [] k = 5 -> Step("prepare", {4}, FALSE, {Ref(4, "text")})]

VARIABLES
    proposal,  \* the steps as proposed, later as compiled, by source order
    version,   \* of the proposal, 1 or 2
    edits,
    phase,     \* "drafting", "rejected", "stored", "ended" or "wrote"
    range,     \* the days the temporal constraint compiles to, {} if none
    granted,   \* capabilities the identity has the scopes of
    ordinal,   \* step -> its place in the stored plan
    state,     \* step -> "queued" or "succeeded"
    cover,     \* source step -> "complete" or "partial", as its answer said
    flow       \* step -> the sources whose items are in its result

vars == <<proposal, version, edits, phase, range, granted, ordinal, state, cover, flow>>

Keys == DOMAIN proposal

Init ==
    /\ \E n \in {3, 4, 5} : proposal = Example(n)
    /\ version \in {1, 2}
    /\ edits = 0
    /\ phase = "drafting"
    /\ range = {}
    /\ granted \in {Names, Names \ {"sent"}}
    /\ ordinal = << >> /\ state = << >> /\ cover = << >> /\ flow = << >>

-----------------------------------------------------------------------------
(* The host writes the proposal.                                           *)

Refs == {Ref(k, at) : k \in Keys, at \in {"whole", "items", "text"}}

Edit(k, step) ==
    /\ phase = "drafting"
    /\ edits < MaxEdits
    /\ step # proposal[k]
    /\ proposal' = [proposal EXCEPT ![k] = step]
    /\ edits' = edits + 1
    /\ UNCHANGED <<version, phase, range, granted, ordinal, state, cover, flow>>
Rename(k) == \E n \in Names : Edit(k, [proposal[k] EXCEPT !.name = n])
EditDeps(k) == \E d \in Keys : \E deps \in {proposal[k].deps \cup {d}, proposal[k].deps \ {d}} :
    Edit(k, [proposal[k] EXCEPT !.deps = deps])
Rebind(k) == \E r \in Refs :
    \/ Edit(k, [proposal[k] EXCEPT !.many = FALSE, !.main = {r}])
    \/ Edit(k, [proposal[k] EXCEPT !.many = TRUE, !.main = @ \cup {r}])
    \/ Edit(k, [proposal[k] EXCEPT !.main = @ \ {r}])
    \/ Edit(k, [proposal[k] EXCEPT !.side = {r}])
SetDays(k) == \E d \in {"same", "other"} : Edit(k, [proposal[k] EXCEPT !.days = d])

-----------------------------------------------------------------------------
(* compile_temporal_constraints                                            *)

\* A mutant: a week that starts on Sunday.
WeekdayFromSunday(day) == (day + 4) % 7

\* The day of the acceptance in Shanghai, and the day of the week (Monday is
\* 0; day 0 was a Thursday).
LocalDay(hour) == (hour + 8) \div 24
WeekdayOf(day) == (day + 3) % 7

ThisMonday(day) == day - WeekdayOf(day)
Days(kind, day) ==
    CASE kind = "previous_day" -> {day - 1}
      [] kind = "day_before_yesterday" -> {day - 2}
      [] kind = "previous_calendar_week" -> (ThisMonday(day) - 7)..(ThisMonday(day) - 1)

\* Days a step was given by the proposal must be the days of the constraint.
DaysAgree == \A k \in Keys : proposal[k].name \in Sources => proposal[k].days # "other"

-----------------------------------------------------------------------------
(* validate_and_compile_task_plan                                          *)

IsTransform(k) == proposal[k].name \in Transforms
IsWrite(k) == proposal[k].name \in Writes
WriteSteps == {k \in Keys : IsWrite(k)}
BusinessSources == {k \in Keys : proposal[k].name \in Sources}

\* _normalize_bindings: many sources in version 2 only.
BindingModeFits(k) ==
    IF proposal[k].many THEN version = 2 /\ proposal[k].main # {}
                        ELSE Cardinality(proposal[k].main) <= 1

\* The step by itself: a known capability or transform with the inputs that
\* must be bound.
StepIsKnown(k) ==
    LET s == proposal[k] IN
    /\ s.name \notin {"commit", "ghost"}
    /\ BindingModeFits(k)
    /\ s.name \in Transforms => s.main # {} /\ s.side = {}
    /\ s.name \in Sources \cup {"lookup"} => s.main = {} /\ s.side = {}

\* _topological_order: what the first n rounds have placed.
Steps == Cardinality(Keys)
Placed(n) == FoldSet(LAMBDA i, placed : {k \in Keys : proposal[k].deps \subseteq placed}, {}, 1..n)
IsOrdered ==
    /\ \A k \in Keys : proposal[k].deps \subseteq Keys /\ k \notin proposal[k].deps
    /\ Placed(Steps) = Keys

\* The order of execution: by round, then as proposed.
Ordinals ==
    LET placed == [n \in 1..Steps |-> Placed(n)]
        round == [k \in Keys |-> Cardinality({n \in 1..Steps : k \notin placed[n]})]
    IN  [k \in Keys |-> 1 + Cardinality({j \in Keys :
                            round[j] < round[k] \/ (round[j] = round[k] /\ j < k)})]
Last == LET place == Ordinals IN CHOOSE k \in Keys : \A j \in Keys : place[j] <= place[k]

\* What `next' leads to from `start': the least set of steps that contains both.
Closure(start, next(_)) ==
    LET closed == {S \in SUBSET Keys : start \subseteq S /\ \A j \in S : next(j) \subseteq S}
    IN  {k \in Keys : \A S \in closed : k \in S}

\* _dependency_ancestors
DependsOn(k) == proposal[k].deps
Ancestors(k) == Closure(DependsOn(k), DependsOn)

\* _binding_references
Bound(k) == {r.step : r \in proposal[k].main \cup proposal[k].side}

\* _schema_type_at_pointer, _property_schema and _types_compatible.
TypeAt(r) ==
    CASE r.at = "whole" -> "object"
      [] proposal[r.step].name \in {"lookup"} \cup Writes -> "none"
      [] r.at = "items" -> "array"
      [] r.at = "text" -> "string"
TargetType(k) ==
    CASE proposal[k].many -> IF proposal[k].name \in {"merge", "draft1"} THEN "object" ELSE "none"
      [] proposal[k].name \in {"merge", "draft1"} -> "array"
      [] proposal[k].name = "draft2" -> "object"
      [] OTHER -> "string"

\* A mutant: a binding may reach any step of the plan.
BoundToAnyStep(k) ==
    /\ \A r \in proposal[k].main : TypeAt(r) = TargetType(k)
    /\ \A r \in proposal[k].side : TypeAt(r) = "string"

BindingsFit(k) ==
    /\ Bound(k) \subseteq Ancestors(k)
    /\ \A r \in proposal[k].main : TypeAt(r) = TargetType(k)
    /\ \A r \in proposal[k].side : TypeAt(r) = "string"

\* _validate_v2_provenance: the sources a step's inputs come from ...
Lineage(k) == BusinessSources \cap Closure({k}, Bound)

\* ... a derived field of the write, which comes from a draft one can check ...
DerivedIsDrafted(k) ==
    proposal[k].name = "prepare" =>
        /\ proposal[k].main # {}
        /\ \A r \in proposal[k].main : proposal[r.step].name = "draft2"

\* ... and the end of the plan, which uses every source.
UsesEverySource(days) ==
    /\ BusinessSources # {}
    /\ days # {}
    /\ BusinessSources \subseteq Lineage(Last)
    /\ WriteSteps = {} => proposal[Last].name \in {"merge", "draft2"}

Provenance(days) ==
    UsesEverySource(days) /\ \A k \in WriteSteps : DerivedIsDrafted(k)

Accepted(days) ==
    /\ days # {} => DaysAgree
    /\ \A k \in Keys : StepIsKnown(k)
    /\ Cardinality(WriteSteps) <= 1
    /\ IsOrdered
    /\ \A k \in Keys : BindingsFit(k)
    /\ WriteSteps # {} => IsWrite(Last)
    /\ version = 2 => Provenance(days)
    /\ \A k \in Keys : ~IsTransform(k) => proposal[k].name \in granted

\* prepare_task_plan and TaskPlanStore.create; constraints exist in version 2
\* only.
Prepare(days) ==
    /\ phase = "drafting"
    /\ IF Accepted(days)
       THEN /\ phase' = "stored"
            /\ range' = days
            /\ ordinal' = Ordinals
            /\ state' = [k \in Keys |-> "queued"]
            /\ cover' = [k \in Keys |-> "complete"]
            /\ flow' = [k \in Keys |-> {}]
            /\ UNCHANGED proposal
       ELSE /\ phase' = "rejected"
            /\ proposal' = Example(3)
            /\ UNCHANGED <<range, ordinal, state, cover, flow>>
    /\ edits' = 0
    /\ UNCHANGED <<version, granted>>
PrepareUndated == Prepare({})
PrepareDated == version = 2 /\ \E kind \in Kinds, hour \in Anchors : Prepare(Days(kind, LocalDay(hour)))

-----------------------------------------------------------------------------
(* The runtime.                                                            *)

\* begin_next_step: the first queued step whose dependencies have succeeded.
Startable(k) == state[k] = "queued" /\ \A d \in proposal[k].deps : state[d] = "succeeded"
IsNext(k) ==
    /\ phase = "stored"
    /\ Startable(k)
    /\ \A j \in Keys : Startable(j) => ordinal[k] <= ordinal[j]

Inputs(k) == {r.step : r \in proposal[k].main}

\* TransformRegistry.invoke refuses inputs that do not have the schema.
InputIsValid(k) ==
    CASE proposal[k].name = "merge" ->
            /\ proposal[k].many
            /\ \A j \in Inputs(k) : proposal[j].name \in Sources
      [] proposal[k].name = "draft2" -> \A j \in Inputs(k) : proposal[j].name = "merge"
      [] proposal[k].name = "draft1" -> ~proposal[k].many
      [] OTHER -> TRUE

IsPartial(k) == \E j \in flow'[k] : cover'[j] = "partial"

\* A mutant: the draft goes on with what there is.
HaltsNever(k) == FALSE

\* halts_on_incomplete, when the plan has a write.
HaltsIncomplete(k) ==
    proposal[k].name \in {"merge", "draft2"} /\ IsPartial(k) /\ WriteSteps # {}

\* A source answers, completely or not.
Read(k, how) ==
    /\ IsNext(k)
    /\ proposal[k].name \in Sources \cup {"lookup"}
    /\ state' = [state EXCEPT ![k] = "succeeded"]
    /\ cover' = [cover EXCEPT ![k] = how]
    /\ flow' = [flow EXCEPT ![k] = BusinessSources \cap {k}]
    /\ phase' = IF \A j \in Keys \ {k} : state[j] = "succeeded" THEN "ended" ELSE phase
    /\ UNCHANGED <<proposal, version, edits, range, granted, ordinal>>

\* A transform: _merge_work_items, _work_items_to_log_draft and its second
\* version.  A result without items ends the plan, the rest is skipped.
Transform(k, empty) ==
    /\ IsNext(k)
    /\ IsTransform(k)
    /\ flow' = [flow EXCEPT ![k] = UNION {flow[j] : j \in Inputs(k)}]
    /\ UNCHANGED cover
    /\ IF InputIsValid(k) /\ ~HaltsIncomplete(k)
       THEN /\ state' = [state EXCEPT ![k] = "succeeded"]
            /\ phase' = IF empty \/ \A j \in Keys \ {k} : state[j] = "succeeded"
                        THEN "ended" ELSE phase
       ELSE /\ phase' = "ended"
            /\ UNCHANGED state
    /\ UNCHANGED <<proposal, version, edits, range, granted, ordinal>>

\* The write is prepared with what its fields are bound to.
Write(k) ==
    /\ IsNext(k)
    /\ IsWrite(k)
    /\ state' = [state EXCEPT ![k] = "succeeded"]
    /\ flow' = [flow EXCEPT ![k] = UNION {flow[j] : j \in Inputs(k)}]
    /\ phase' = "wrote"
    /\ UNCHANGED <<proposal, version, edits, range, granted, ordinal, cover>>

StepFails(k) ==
    /\ IsNext(k)
    /\ phase' = "ended"
    /\ UNCHANGED <<proposal, version, edits, range, granted, ordinal, state, cover, flow>>

-----------------------------------------------------------------------------
Next ==
    \/ \E k \in Keys : Rename(k) \/ EditDeps(k) \/ Rebind(k) \/ SetDays(k)
    \/ PrepareUndated \/ PrepareDated
    \/ \E k \in Keys :
        \/ \E how \in {"complete", "partial"} : Read(k, how)
        \/ \E empty \in BOOLEAN : Transform(k, empty)
        \/ Write(k)
        \/ StepFails(k)

Spec == Init /\ [][Next]_vars

-----------------------------------------------------------------------------
TypeOK ==
    /\ phase \in {"drafting", "rejected", "stored", "ended", "wrote"}
    /\ version \in {1, 2}
    /\ \A k \in Keys : proposal[k].name \in Names /\ proposal[k].deps \subseteq Keys
    /\ range \subseteq Int

\* A step that is about to run finds the result of every step it is bound
\* to, and an accepted plan never comes to a stop with a step left that
\* cannot start (_resolve_step_arguments, begin_next_step).
BoundIsThere ==
    phase = "stored" =>
        /\ \E k \in Keys : IsNext(k)
        /\ \A k \in Keys : IsNext(k) => \A j \in Bound(k) : state[j] = "succeeded"

\* The text a second-version plan writes to the work log comes from complete
\* sources only, read over the days of the request, and no source of the plan
\* was left out of the write (PLAN_SOURCE_INCOMPLETE,
\* PLAN_PROVENANCE_INCOMPLETE).
WriteIsComplete ==
    phase = "wrote" /\ version = 2 => \A w \in WriteSteps :
        proposal[w].name = "prepare" =>
            /\ flow[w] # {}
            /\ \A j \in flow[w] : cover[j] = "complete"
            /\ range # {}
            /\ BusinessSources \subseteq flow[w] \cup UNION {Lineage(r.step) : r \in proposal[w].side}

\* The previous calendar week is the last week from Monday to Sunday that was
\* over when the request was accepted; no range reaches the day itself.
RangeIsPast ==
    phase = "stored" /\ Cardinality(range) = 7 =>
        \E hour \in Anchors :
            /\ \A d \in range : d < LocalDay(hour)
            /\ (Min(range) + 3) % 7 = 0
            /\ LocalDay(hour) - Max(range) <= 7
=============================================================================
