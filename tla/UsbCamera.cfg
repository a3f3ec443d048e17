SPECIFICATION Spec
CONSTANTS
    Programs = {p1, p2}
    Cameras = {c1, c2}
    Driver = Driver
    Nobody = Nobody
INVARIANTS
    SoleCommander
    GivenBack
PROPERTIES
    OthersUntouched
