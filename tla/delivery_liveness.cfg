CONSTANTS
    InboxCapacity = 1
    BufferMaxRecords = 1
    BufferMaxBytes = 3
    Records <- OneRecordEach
    Bytes <- OneRecordEach
    Boots = {1, 2}
    Faults = {"torn"}
    MaxBatches = 2
    MaxStarts = 2
    MaxSteps = 1
    MaxHealth = 0
    MaxLostAnswers = 1
SPECIFICATION FairSpec
INVARIANTS
    FrozenCorrection
PROPERTIES
    EventuallyShipped
    InboxEmpties
CHECK_DEADLOCK FALSE
