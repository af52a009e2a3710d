SPECIFICATION Spec
CONSTANTS
    Clients = {c1}
    MaxClients = 1
    BufferBytes = 3
    ReadBytes = 4
    QueueCapacity = 2
    RingCapacity = 1
    Window = 2
    PauseBelow = 400
    ResumeFrom = 600
    SizeOf <- MCSizes
INVARIANTS
    SlotsExact
    StreamAccounted
PROPERTIES
    CutsHaveCause
