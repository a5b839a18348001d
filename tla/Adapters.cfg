\* Two warnings and one blocker on each form, two hooked prompts kept; every kind
\* of business action with two edits by others; five rows on pages of two, changed
\* twice while they are read; two faults during a renewal; two timeline entries on
\* pages of one, and a page that enters the workspace twice.
SPECIFICATION Spec
CONSTANTS
    Forms = {"leave", "trip"}
    Warnings = {w1, w2}
    Blocker = blocker
    NoPrompt = none
    MaxOverrides = 2
    MaxHooked = 2
    MaxManual = 1
    Kinds = {"approve", "approveCovered", "punch", "revoke", "leaveDraft", "tripDraft", "punchDraft", "apply", "cancel", "meeting", "remark", "alarm"}
    MaxEdits = 2
    Rows = {1, 2, 3, 4, 5}
    Readers = {"history", "rooms", "analysis", "find"}
    PageSize = 2
    MaxPages = 3
    MaxRows = 3
    MaxChanges = 2
    MaxFaults = 2
    Types = {chat, task}
    MaxEntries = 2
    PageLimit = 1
    MaxTurns = 2
    MaxEnters = 2
SYMMETRY TypeSymmetry
INVARIANTS
    ContinuedOnlyAgain
    RejectedNeverWrites
    WrittenOnce
    WholeListsAll
    NothingSkipped
PROPERTIES
    EndedIsHopeless
CHECK_DEADLOCK FALSE
