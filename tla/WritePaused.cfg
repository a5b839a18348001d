\* One administrator pauses the system while a write is under way.
SPECIFICATION Spec
CONSTANTS
    Admins = {a1}
    Scopes = {"system"}
    MaxRevision = 2
    MaxRenewals = 1
PROPERTIES
    PausedNeverWrites
CHECK_DEADLOCK FALSE
