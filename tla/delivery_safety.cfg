CONSTANTS
    InboxCapacity = 1
    BufferMaxRecords = 2
    BufferMaxBytes = 3
    Records <- OneRecordEach
    Bytes <- EachFillsTheBuffer
    Boots = {1, 2}
    Faults = {"torn"}
    MaxBatches = 4
    MaxStarts = 2
    MaxSteps = 0
    MaxHealth = 0
    MaxLostAnswers = 0
SPECIFICATION Spec
INVARIANTS
    TypeOK
    DeliveredInArrivalOrder
PROPERTIES
    KeepsContract
    NoSilentLoss
    ShedsOldest
CHECK_DEADLOCK FALSE
