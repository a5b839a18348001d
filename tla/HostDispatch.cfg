SPECIFICATION Spec
CONSTANTS
    Procs = {p1, p2}
    MaxRequests = 2
    ActiveLimit = 2
    MaxFaults = 1
    Null = null
INVARIANTS
    OneCopy
    OutcomeIsReal
