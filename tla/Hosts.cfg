\* One notification between two loops, at the limit of two attempts; two hosts,
\* one of them notified, and two interactions in a row; a chain of two
\* interactions and two restarts for the reference host.
SPECIFICATION Spec
CONSTANTS
    Rows = {1}
    Loops = {a, b}
    MaxAttempts = 2
    BatchLimit = 1
    MaxRevivals = 2
    Hosts = {oc, other}
    NoHost = none
    MaxVersion = 2
    Subscribed = {oc}
    Steps = 2
    MaxFaults = 2
    Chain = 2
    MaxRestarts = 2
INVARIANTS
    AcknowledgedWasShown
    VersionFences
    FailedNeverWrote
PROPERTIES
    DeliverySettles
    ReadyIsResumed
CHECK_DEADLOCK FALSE
