SPECIFICATION VideoFairSpec
CONSTANTS
    ScriptLength = 3
    ScriptItems <- CleanItems
    Streams <- MCStreams
    Packets <- MCPackets
    MaxChunk = 9
    DEL <- MCDEL
    FF <- MCFF
    SOI <- MCSOI
    EOI <- MCEOI
    HDR_LEN = 2
    FRAG_HDR_LEN = 2
    MAX_FRAG_LEN = 8
    SOI_MAX_POS = 3
    MAX_GHOST_OFF = 5
    FOUR_KILOBYTES = 2
    INPUT_RESERVE = 23
    CAPACITY = 1
    PREALLOCATED = 3
INVARIANTS
    CursorInBuffer
    ResidualBounded
    EventGrammar
    ChunkingInvisible
    InputReserved
    PublishedFramed
PROPERTIES
    ImplementsAssembly
    DecodeTerminates
