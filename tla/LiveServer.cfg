SPECIFICATION FairSpec
CONSTANTS
    Clients = {c1}
    MaxClients = 1
    HubCapacity = 1
    MaxEntries = 1
    QueueCapacity = 1
    FeedCapacity = 1
    MaxProducts = 2
    MaxFeed = 3
INVARIANTS
    HandledCompletely
    CleanShutdown
    HealthTellsConnection
PROPERTIES
    ShutdownCompletes
