SPECIFICATION Spec
CONSTANTS
    c1 = c1
    c2 = c2
    Clients <- MCClients
    Scripts <- MCScripts
    Nobody = Nobody
    KaMax = 1
    Limits <- MCLimits
    Slack = 1
    Chunks = 1
    OpenMax = 6
    Faults = TRUE
    BothSignals = FALSE
INVARIANTS
    TypeOK
    TotalCounts
    DescriptorsOwned
    BlockedIsWatched
PROPERTIES
    
    LameDuckKeepsNothing
    ClientsAccepted
    ConnectionsEnd
CHECK_DEADLOCK FALSE
