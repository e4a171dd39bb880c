SPECIFICATION ReplaySpec
CONSTANTS
    None = None
    MaxPrice = 9
    Requests <- MCRequests
    Amendments = {}
    MarkPrices <- MCMarkPrices
    Users <- MCUsers
    OwnersOnly = TRUE
    MinVisible = 1
    GtdLife = 2
    MaxOrders = 3
    MaxCommands = 5
    MaxSnapshots = 0
INVARIANTS
    ReplaySucceeds
CHECK_DEADLOCK FALSE
