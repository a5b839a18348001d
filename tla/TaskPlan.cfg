\* One call of a host at a time, beside cancels with the plan tool, polls, the
\* recovery cycle, a continuable warning and a restart of the service.
SPECIFICATION FairSpec
CONSTANTS
    Kinds <- ReadTransformWrite
    Hosts = {h1}
    Cancelers = {c}
    Pollers = {p}
    Maintainers = {m}
    Keys = {k1}
    CancelTools = {"plan"}
    MaxWarnings = 1
    MaxCrashes = 1
    MaxRevocations = 0
    Null = Null
PROPERTIES
    KeepsPromise
    CommitResolves
    PlanCancelAnswered
CHECK_DEADLOCK FALSE
