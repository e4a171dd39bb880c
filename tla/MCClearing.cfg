SPECIFICATION ClearingSpec

CONSTANTS
    Traders <- MCTraders
    TradeTerms <- MCTradeTerms
    Opening <- MCOpening
    Pairs <- MCPairs
    Prices <- MCPrices
    Rates <- MCRates
    Tiers <- MCTiers
    MarginCall = 50
    Liquidation = 100
    Purse = 7
    MaxCalls = 4

INVARIANT MoneyAccountedFor
INVARIANT KeysBookedOnce
INVARIANT MarginBacked
PROPERTY JournalTellsAll
PROPERTY AdlByRank

CHECK_DEADLOCK FALSE
