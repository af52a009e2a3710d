SPECIFICATION ServerSpec
CONSTANTS
    Clients = {c1}
    MaxClients = 1
    Capacity = 1
    EventOf <- TheEvents
    QueryOf <- TheNames
    LastIds = {0}
    MaxEvents = 2
    MaxFields = 0
INVARIANT OtherEventsDelivered
