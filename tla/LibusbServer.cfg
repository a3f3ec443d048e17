SPECIFICATION FairSpec
CONSTANTS
    TransferCount = 2
    FlushCalls = 1
    Capacity = 1
    MaxFrames = 2
    OpenMayFail = TRUE
    SubmitMayFail = TRUE
    EventsMayFail = TRUE
    BindMayFail = TRUE
INVARIANTS
    ClaimsPublished
    PublishedWhole
PROPERTIES
    FreedOnlyWhenIdle
    ShutdownEnds
