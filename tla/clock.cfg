CONSTANTS
    Tolerance = 1
    ResyncThreshold = 2
    JournalThreshold = 1
    Offsets <- SmallAndLargeSteps
    Consecutive = 2
    SettledPollTicks = 1
    JournalBackfill = TRUE
    Faults <- AllFaults
    MaxBoottime = 3
    MaxSlept = 1
    MaxSteps = 2
    MaxBoots = 2
    MaxStarts = 2
SPECIFICATION FairSpec
INVARIANTS
    TableWellFormed
    TableWitnessed
    CorrectedHonestly
    StepsKnown
PROPERTIES
    SavedHistoryKept
    TableCatchesUp
CHECK_DEADLOCK FALSE
