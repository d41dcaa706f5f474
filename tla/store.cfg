CONSTANTS
    WORD = 2
    Depth = 2
    Sent <- Varied
    Handlers = {h1, h2}
    NoHandler = NoHandler
    NoBatch = NoBatch
    Batches <- ThreeBatches
    Records <- FourRecords
    Content <- SharedRecord
    Refused = {"nameless"}
    SeriesOf <- TwoSeries
    EventTime <- LaterFirst
    Times = {1, 2}
    QueueCapacity = 1
    WritesMayFail = TRUE
    MaxRequests = 2
    MaxStarts = 2
    MaxPowerLosses = 1
SPECIFICATION FairSpec
INVARIANTS
    SeriesExact
    AcknowledgedIsStored
    BatchesWhole
    IdsFollowContent
PROPERTIES
    QueuedIsStored
    StopEnds
CHECK_DEADLOCK FALSE
