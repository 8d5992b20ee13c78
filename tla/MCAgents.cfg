SPECIFICATION MCSpec
CONSTANTS
    MaxRuns = 2
    MaxEvents = 3
    Editors = {gateway, cli}
    Specs = {s1, s2}
    MaxBirths = 2
    MaxRevision = 3
    MaxVersion = 2
    MaxCrashes = 1
    Agents = {a1, a2}
    Original = a1
    Nothing = Nothing
    MaxEdits = 2
    MaxRequests = 3
    Callers = {c1, c2}
    Closers = {x1}
    Keys = {k1}
    Bodies = {m1, m2}
INVARIANTS
    PreviewIsAttended
PROPERTIES
    OutcomeStands
    FilesAreKept
    UnseenIsUntouched
    ToolsAreAccounted
    SilenceIsAnswered
CHECK_DEADLOCK FALSE
