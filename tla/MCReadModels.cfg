SPECIFICATION Spec

CONSTANTS
    NoClientId = NoClientId
    MaxCompleted = 1
    Intervals <- MCIntervals
    Window = 3
    MaxBars = 3
    MaxRecentTrades = 2
    MaxStale = 1
    Commands <- MCCommands
    Batches <- MCBatches
    Amendments <- MCAmendments
    Moves <- MCMoves
    Updates <- MCUpdates
    IndexPrices = {1, 3}
    Bounds <- MCBounds

INVARIANTS ViewMatchesEngine MarketAccountsForFeed

CHECK_DEADLOCK FALSE
