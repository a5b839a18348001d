\* Two of everything that can be exchanged for another one, and two of what is
\* numbered in the order it is made; one of the rest (one administrator, who
\* gives, takes away and gives back a permission).  Bounds on retries, faults
\* and changes are the smallest at which the second one can meet the first.
SPECIFICATION Spec
CONSTANTS
    Unset = Unset
    Submissions = {1, 2}
    Pages = {"page"}
    Tabs = {"t1", "t2"}
    Values = {"v1", "v2"}
    KeyNames = {"k1", "k2"}
    People = {"p1", "p2"}
    UserNames = {"n1"}
    Links = {"l1", "l2"}
    Grants = {"g1"}
    Logins = {"i1"}
    Users = {"u1", "u2"}
    Hosts = {"h1"}
    Endpoints = {"e1", "e2"}
    HostOf <- OneHost
    Tasks = {1, 2}
    Messages = {"m1"}
    EffectRefs = {"r1"}
    RefOwner <- OneUser
    Calls = {"c1"}
    MaxCalls = 4
    MaxReports = 1
    MaxRuns = 3
    MaxSends = 2
    MaxFaults = 1
    MaxEdits = 1
    Anchors = {493500, 493544}
    N = 2
    Callers = {a, b}
    MaxCrashes = 1
    Downloads = {1, 2}
    Requests = {"r1", "r2"}
    MaxRestarts = 1
    Posts = {"m1", "m2"}
    Bodies = {"b1"}
    Size = 2
    Ids = {1, 2, 3}
    Creators = {"c1", "c2"}
    Channels = {"chat"}
    Webs = {"web"}
    Identities = {"i1", "i2"}
    Owner <- OneOwner
    ToolKinds = {"read", "prepare", "login"}
    MaxAttempts = 3
    MaxRemovals = 1
    ConflictMark = "conflict"
    Admins = {"a1"}
    Scopes = {"system"}
    MaxRevision = 3
    MaxRenewals = 1
    Readership = {"u1"}
    Audiences = {{"u1"}}
    Texts = {"t1", "t2"}
    Profiles = {"p1"}
    Jobs = {"k1"}
    Decisions = {"rejected"}
    MaxRevisions = 2
    MaxRequests = 2
    MaxBindings = 1
    MaxEvaluated = 1
    Principals = {"p1", "p2"}
    PreparedLogin = "prepared"
    Challenges = {1, 2}
    LoginModes = {"form", "captcha", "browser"}
    Dbs = {"d1", "d2"}
    MaxWrites = 2
    Generations = {1, 2}
    Attempts = 2
    KeepMin = 1
    Efforts = {"read", "prepare", "commit"}
    Releases = {"r1", "r2"}
    Base = "base"
    Migrates = {"r1", "r2"}
    Reviewed = {"r1"}
    MaxOutages = 3
SYMMETRY CallerSymmetry
INVARIANTS
    TypeOK
    PlanUsesSubmitted
    AccountIsConfirmed
    Isolated
    SafeIsTrue
    WriteIsComplete
    CommitsInOrder
    ReadyArtifactHasFile
    PreparedOnce
    PublishedWasTried
    OneMoment
    TraceIsReal
    ClosedIsWhole
    ReadWasPermitted
PROPERTIES
    UsesOwnLogin
CHECK_DEADLOCK FALSE
