SPECIFICATION SinkFairSpec
CONSTANTS
    Products = {1, 2, 3, 4}
    Keys = {1, 2}
    Vtec <- FourProducts
    Malformed = {4}
    Stamp <- TheirStamps
    MaxTime = 3
    MaxFaults = 2
INVARIANTS
    IncidentsTrue
PROPERTIES
    RowsChangeWithCause
    OverdueExpires
