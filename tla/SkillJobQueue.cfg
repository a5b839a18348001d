SPECIFICATION FairSpec
CONSTANTS
    Owners = {o1}
    Keys = {k1}
    Workers = {w1, w2}
    MaxJobs = 1
    Rows = 2
    MaxAttempts = 3
    DailyQuota = 1
    ActiveQuota = 1
    AutoQuota = 1
    Null = null
INVARIANTS
    DraftSettlesJob
PROPERTIES
    SettledByHolder
    QueuedIsSettled
