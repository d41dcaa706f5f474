CONSTANTS
    InboxCapacity = 1
    BufferMaxRecords = 2
    BufferMaxBytes = 3
    Records <- OneRecordEach
    Bytes <- ThirdIsLarge
    Boots = {1, 2}
    Faults <- AllFaults
    MaxBatches = 3
    MaxStarts = 2
    MaxSteps = 0
    MaxHealth = 1
    MaxLostAnswers = 1
SPECIFICATION Spec
INVARIANTS
    OwnOffsetOnly
CHECK_DEADLOCK FALSE
