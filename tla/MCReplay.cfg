SPECIFICATION ReplaySpec
CONSTANTS
    None = None
    MaxPrice = 9
    Requests <- MCRequests
    Amendments <- MCAmendments
    MarkPrices <- MCMarkPrices
    Users <- MCUsers
    OwnersOnly = TRUE
    MinVisible = 1
    GtdLife = 2
    MaxOrders = 3
    MaxCommands = 5
    MaxSnapshots = 1
INVARIANTS
    RestingRebuilt
    WaitingRebuilt
CHECK_DEADLOCK FALSE
