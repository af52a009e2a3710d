SPECIFICATION ReceptionSpec
CONSTANTS
    MaxStarts = 3
    Capacity = 2
    MaxEvents = 5
    MaxPieces = 2
    Streams <- MCStreams
    SyncLen = 3
    Headers <- MCHeaders
    BodyLen <- MCBodyLen
    BodyOf <- MCBodyOf
    Compressed = {"2"}
    Unwanted = {"f"}
INVARIANTS
    DropsAccounted
    LossesVisible
    NothingLeftBehind
PROPERTIES
    StopIsFinal
    FeedReturns
