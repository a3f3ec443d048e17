SPECIFICATION FairSpec
CONSTANTS
    NumUrbs = 2
    Files = {f1, f2}
    NoFile = NoFile
    AskedWidths = {1280}
    AskedHeights = {720}
INVARIANTS
    UsersHoldDevice
    KilledBeforeFreed
    NothingLeftBehind
    StreamsReportedFormat
PROPERTIES
    DisconnectReturns
