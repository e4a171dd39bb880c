SPECIFICATION GatewaySpec
CONSTANTS
    Handlers = {h1, h2}
    Emails = {"ann@x", "Ann@X"}
    Mailbox <- MCMailbox
    IPs = {"ip"}
    MaxTokens = 2
    TokenCost = 2
    RefillPerTick = 1
    MaxSeq = 1
    Expiry = 1
    Start = 2
    Bounds <- MCBounds
INVARIANTS
    IdsIncrease
    AdmissionBounded
CHECK_DEADLOCK FALSE
