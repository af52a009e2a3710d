SPECIFICATION IngestSpec
CONSTANTS
    a = a
    b = b
    s = s
    Endpoints <- MCEndpoints
    Configs <- MCConfigs
    Lists <- MCLists
    NoEndpoint = NoEndpoint
    NoFile = NoFile
    Torn = Torn
    WatchdogTimeout = 2
    InitialBackoff = 1
    MaxBackoff = 5
    IdleTimeout = 2
    IngressCapacity = 1
    MaxFailures = 3
    BufferLimit = 3
    MaxElements = 3
INVARIANTS
    EndpointsConsistent
    FileIsWhole
    PacedAndReported
    StanzasKept
PROPERTIES
    StopEndsReceiver
    ReceiverKeepsTrying
    ReadIsHandedOut
