SPECIFICATION MCSpec
CONSTANTS
    None = None
    MaxPrice = 9
    Requests <- MCRequests
    Amendments <- MCAmendments
    MarkPrices <- MCMarkPrices
    Users <- MCUsers
    OwnersOnly = FALSE
    MinVisible = 1
    GtdLife = 2
    MaxOrders = 4
    MaxCommands = 6
INVARIANTS
    BookConsistent
    BookUncrossed
    QuantityConserved
PROPERTIES
    PriceTimePriority
    PlaceKept
    TimeInForceHonoured
    AllTriggered
CHECK_DEADLOCK FALSE
