SPECIFICATION Spec
CONSTANTS
    c1 = c1
    c2 = c2
    Clients <- MCClients
    Scripts <- SmallScripts
    Nobody = Nobody
    KaMax = 1
    Limits <- MCLimits
    Slack = 1
    Chunks = 1
    OpenMax = 6
    Faults = FALSE
    BothSignals = FALSE
PROPERTY
    LameDuckEnds
CHECK_DEADLOCK FALSE
