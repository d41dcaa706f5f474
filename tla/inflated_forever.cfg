CONSTANTS
    None = None
    Posts <- OnlyCompressed
    Content <- Compressed
    PROTOBUF = "application/x-protobuf"
    GZIP = "gzip"
    Identity = "identity"
    MAX_BODY = 4
    MAX_DECOMPRESSED = 8
    OutboxCapacity = 1
    Tokens <- OneToken
    ApiKey <- TheToken
    Conns = {c1, c2}
    MaxFaults = 2
SPECIFICATION Spec
INVARIANTS
    AcceptedIsAcceptable
CHECK_DEADLOCK FALSE
