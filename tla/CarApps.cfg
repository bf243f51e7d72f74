SPECIFICATION CarFairSpec
CONSTANTS
    Procs = {car, p}
    Sensors = {R, L, M}
    Nobody = Nobody
    Waiting = TRUE
    MaxCount = 1
    Car = car
    RightBit = R
    LeftBit = L
INVARIANTS
    WheelsFollowReading
PROPERTIES
    StopsOffTheLine
    KeepsBackingAway
