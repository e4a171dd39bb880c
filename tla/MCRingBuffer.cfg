SPECIFICATION FairSpec
CONSTANTS
    a = a
    b = b
    Messages <- MCMessages
    Batches <- MCBatches
    NoMsg = NoMsg
    SlotCount = 2
    Wrap = 4
    MaxMessages = 6
INVARIANTS
    NoSlotRace
    NoTornMessage
PROPERTIES
    ImplementsFifo
    EveryMessageDelivered
CHECK_DEADLOCK FALSE
