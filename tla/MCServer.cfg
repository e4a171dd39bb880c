SPECIFICATION FairSpec
CONSTANTS
    first = first
    retry = retry
    admin = admin
    id = id
    Requests <- MCRequests
    AdminRequests <- MCAdmin
    Coid <- MCCoid
    None = None
    RingSlots = 1
    EventCounts = {0, 2}
    FlushEvery = 3
    MaxBoots = 2
INVARIANTS
    ClientIdOnce
    LogFollowsQueue
    TornOnlyAtTheEnd
PROPERTIES
    DurableKept
    AckedIsProcessed
    ShutdownTerminates
CHECK_DEADLOCK FALSE
