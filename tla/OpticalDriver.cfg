SPECIFICATION FairSpec
CONSTANTS
    Procs = {p1, p2}
    Sensors = {s1, s2}
    Nobody = Nobody
    Waiting = TRUE
    MaxCount = 1
INVARIANTS
    OneOpenFile
    InterruptNotStuck
PROPERTIES
    ReadsOwnSensor
    WaiterComesOut
