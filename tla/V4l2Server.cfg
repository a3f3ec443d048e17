SPECIFICATION FairSpec
CONSTANTS
    Buffers = {b1, b2}
    NoBuffer = NoBuffer
    Capacity = 1
    MaxFrames = 3
    OpenMayFail = TRUE
    SelectMayFail = TRUE
    BindMayFail = TRUE
INVARIANTS
    PublishedWhole
    BuffersConserved
PROPERTIES
    ShutdownEnds
    DoneIsTaken
