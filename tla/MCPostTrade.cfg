SPECIFICATION Spec

CONSTANTS
    Users <- MCUsers
    Sweeps <- MCSweeps
    MarkPrices <- MCMarkPrices
    Rates <- MCRates
    Credits <- MCCredits
    MaxCommands = 5
    MaxReboots = 1

INVARIANT LedgerVerified
INVARIANT ReplayEqualsLive
INVARIANT PositionsProjectFills
INVARIANT JournalExplainsBalances
PROPERTY SettledInFull

CHECK_DEADLOCK FALSE
