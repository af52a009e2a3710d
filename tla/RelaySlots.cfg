SPECIFICATION Spec
CONSTANTS
    Clients = {c1}
    MaxClients = 1
    BufferBytes = 2
    ReadBytes = 3
    QueueCapacity = 1
    RingCapacity = 1
    Window = 2
    PauseBelow = 400
    ResumeFrom = 600
    SizeOf <- MCSizesTwo
INVARIANTS
    ActiveAreConnected
