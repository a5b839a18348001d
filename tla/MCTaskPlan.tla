------------------------------ MODULE MCTaskPlan ------------------------------
(* The instances of TaskPlan that TLC checks. *)
EXTENDS TaskPlan, TLC

TransformThenWrite == <<"transform", "write">>
ReadTransformWrite == <<"read", "transform", "write">>
WriteOnly == <<"write">>

\* Hosts and resume keys are interchangeable.
HostSymmetry == Permutations(Hosts) \cup Permutations(Keys)
=============================================================================
