SPECIFICATION FairSpec
CONSTANTS
    NumProviders = 2
    Requests = {r1, r2}
    Ceiling <- CeilingOne
    GrowAfter = 1
    ForgetAfter = 1
    RetryAfters = {0}
    Surfaces <- Mixed
    MaxLimit = 3
    r1 = r1
    r2 = r2
INVARIANTS
    CeilingHolds
    NoLostWakeup
PROPERTIES
    RoomWakesWaiter
