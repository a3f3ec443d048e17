SPECIFICATION Spec
CONSTANTS
    Buffers = {b1, b2}
    None = None
    Script <- ShortScript
    NumUrbs = 2
    FifoSize = 1
    WorkspaceSize = 2
    FrameSize = 2
    MinQueued = 2
    FailingSubmits = {0, 1}
    MaxSession = 2
INVARIANT FailedStartReturnsBuffers
