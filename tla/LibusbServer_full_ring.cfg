SPECIFICATION FairSpec
CONSTANTS
    TransferCount = 2
    FlushCalls = 1
    Capacity = 1
    MaxFrames = 2
    OpenMayFail = FALSE
    SubmitMayFail = FALSE
    EventsMayFail = FALSE
    BindMayFail = FALSE
PROPERTIES
    SignalEnds
