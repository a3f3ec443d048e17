SPECIFICATION Spec
CONSTANTS
    Responses = {r1, r2}
    MaxClients = 3
    OutgoingLimits = {0, 1}
    IdModulus = 3
    MaxQueued = 2
    MaxSequence = 3
INVARIANTS
    WatchersExact
SYMMETRY ResponsesSymmetry
