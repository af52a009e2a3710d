SPECIFICATION Spec
CONSTANTS
    Capacity = 2
    MaxRequests = 3
    Locations <- MCLocations
    BlobsOf <- MCBlobsOf
    RowKeys <- MCRowKeys
    RowOf <- MCRowOf
    RetryInitial = 1
    RetryMax = 5
INVARIANTS
    QueueConsistent
    OutcomesTrue
    BlobsPrecedeMetadata
PROPERTIES
    ImplementsLedger
    OutagesAreSurvived
