SPECIFICATION FairSpec
CONSTANTS
    c1 = c1
    c2 = c2
    c3 = c3
    u1 = u1
    u2 = u2
    Users = {u1, u2}
    Callers <- MCCallers
    UserOf <- MCUserOf
    MaxInFlight = 1
    MaxWaiting = 1
    Operations = 2
    Window = 2
    MaxTime = 5
INVARIANTS
    NobodyWaitsForAFreeSlot
    ChargesAreHeld
PROPERTIES
    WaitersAreServed
