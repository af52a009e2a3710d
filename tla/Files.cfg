SPECIFICATION FilesSpec
CONSTANTS
    MaxPieces = 3
    Streams <- MCStreams
    SyncLen = 3
    Headers <- MCHeaders
    BodyLen <- MCBodyLen
    BodyOf <- MCBodyOf
    Compressed = {"2"}
    Unwanted = {"f"}
    Segments <- Broadcast
    FillKey = "fill"
    CacheSize = 2
    MaxInflight = 2
    InflightTtl = 1
    MaxClock = 3
    MaxEmitted = 4
    FirstYear = 2023
    LastYear = 2025
    TicksPerDay = 4
    MaxLines = 4
    Issued <- MCIssued
    Delays <- MCDelays
    Lifetimes <- MCLifetimes
    Offsets <- MCOffsets
    Names = {a, b, c}
    MaxEntries = 2
    Ttl = 1
    MaxTime = 3
    MaxInserts = 4
INVARIANTS
    ChunkingIrrelevant
    FramesSurviveDamage
    FilesDelivered
    TimesRecovered
    
    SegmentsCorrelated
    StoreConsistent
PROPERTIES
    NoStaleCompletion
