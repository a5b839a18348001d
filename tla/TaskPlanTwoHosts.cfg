\* Two concurrent calls of hosts with keys of their own, and a revocation of
\* the plan's execution authority.
SPECIFICATION Spec
CONSTANTS
    Kinds <- WriteOnly
    Hosts = {h1, h2}
    Cancelers = {c}
    Pollers = {}
    Maintainers = {m}
    Keys = {k1, k2}
    CancelTools = {"plan", "task"}
    MaxWarnings = 0
    MaxCrashes = 0
    MaxRevocations = 1
    Null = Null
SYMMETRY HostSymmetry
INVARIANTS
    OneEffect
CHECK_DEADLOCK FALSE
