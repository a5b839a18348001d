\* Two calls serve the resumes of a batch of two items.
SPECIFICATION Spec
CONSTANTS
    N = 2
    Callers = {a, b}
    MaxCrashes = 0
INVARIANTS
    ItemSuccessWasCommitted
CHECK_DEADLOCK FALSE
