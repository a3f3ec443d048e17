SPECIFICATION FairSpec
CONSTANTS
    Buffers = {b1, b2}
    None = None
    Script <- MCScript
    NumUrbs = 2
    FifoSize = 2
    WorkspaceSize = 3
    FrameSize = 2
    MinQueued = 2
    FailingSubmits = {0}
    MaxSession = 2
INVARIANTS
    TypeOK
    OwnershipExact
    StopQuiesces
    FramesClean
    NoLostWork
    StartNeverSkipped
PROPERTIES
    ImplementsCaptureQueue
    CallsReturn
