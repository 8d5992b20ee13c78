SPECIFICATION Spec
CONSTANTS
    MaxSessions = 2
    Recorded <- MCRecorded
    MaxFrames = 1
    MaxBytes = 1
    MaxPending = 2
    MaxMishaps = 1
    MaxCaptures = 2
    Quota = 1
    MaxRequests = 2
    MaxOpens = 2
INVARIANTS
    StoresAgree
PROPERTIES
    MarkedIsRemoved
    LibraryIsKept
CHECK_DEADLOCK FALSE
