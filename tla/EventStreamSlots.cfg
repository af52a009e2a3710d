SPECIFICATION ServerSpec
CONSTANTS
    Clients = {c1, c2}
    MaxClients = 1
    Capacity = 1
    EventOf <- TheEvents
    QueryOf <- TheQueries
    LastIds = {0}
    MaxEvents = 1
    MaxFields = 0
PROPERTY RefusedOnlyWhenFull
