SPECIFICATION FairSpec
CONSTANTS
    i1 = i1
    i2 = i2
    NoItem = NoItem
    Items <- MCItems
    Capacity = 2
    BlockingWait = TRUE
    MaxSequence = 5
INVARIANTS
    SlotNeverShared
    NoLostWakeup
PROPERTIES
    ImplementsChannel
    ClaimReturns
