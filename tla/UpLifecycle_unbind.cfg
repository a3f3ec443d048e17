SPECIFICATION Spec
CONSTANTS
    NumUrbs = 2
    Files = {f1}
    NoFile = NoFile
    AskedWidths = {1280}
    AskedHeights = {720}
INVARIANTS
    NoUrbFreedInFlight
