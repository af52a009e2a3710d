SPECIFICATION ServerSpec
CONSTANTS
    Clients = {c1, c2}
    MaxClients = 2
    Capacity = 1
    EventOf <- TheEvents
    QueryOf <- TheQueries
    LastIds = {0, 2}
    MaxEvents = 3
    MaxFields = 4
INVARIANTS
    StreamsConsistent
    NoSilentLoss
    FiltersExact
PROPERTIES
    StreamsProgress
