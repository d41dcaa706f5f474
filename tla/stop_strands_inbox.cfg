CONSTANTS
    InboxCapacity = 1
    BufferMaxRecords = 1
    BufferMaxBytes = 3
    Records <- OneRecordEach
    Bytes <- OneRecordEach
    Boots = {1}
    Faults = {}
    MaxBatches = 2
    MaxStarts = 1
    MaxSteps = 0
    MaxHealth = 0
    MaxLostAnswers = 0
SPECIFICATION Spec
INVARIANTS
    InboxDrainedAtStop
CHECK_DEADLOCK FALSE
