CONSTANTS
    Openers = {serve, cli}
    Gated = {serve}
    Errors = {4, 5}
    Threshold = 5
    MaxPolls = 3
    Consecutive = 2
    Binaries = {4, 6, 8, 9, 11}
    Measurements = {"m1", "m2"}
    Series = "cpu"
SPECIFICATION Spec
INVARIANTS
    SchemaIsItsVersion
    AcceptedBinaryWrites
    AdmittedOnGoodClock
PROPERTIES
    NothingLost
CHECK_DEADLOCK FALSE
