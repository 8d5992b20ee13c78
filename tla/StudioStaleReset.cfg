SPECIFICATION MCSpec
CONSTANTS
    MaxSockets = 1
    MaxSessions = 1
    MaxOpened = 2
    MaxTurns = 1
    MaxCommands = 1
    MaxConversations = 2
    MaxRoutes = 1
    MaxIncidents = 0
    MaxRenditions = 1
    MaxChunks = 1
    MaxTarget = 1
INVARIANT LiveIsShown
CHECK_DEADLOCK FALSE
