SPECIFICATION Spec
CONSTANTS
    MaxCalls = 3
    MaxReplies = 3
    Rooms <- MCRooms
    OwnerOf <- MCOwnerOf
    MaxPending = 2
    MaxPendingPerOwner = 2
    MaxRooms = 2
    MaxRoomsPerOwner = 1
    MaxReplyTurns = 2
    MaxHalves = 4
    NativeLimit = 1
    PressureAt = 3
INVARIANTS
    AnswersAreOwn
    RoomsAccounted
PROPERTIES
    CompleteMeansHeard
    EndpointsSettle
CHECK_DEADLOCK FALSE
