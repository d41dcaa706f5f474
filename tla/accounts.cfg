CONSTANTS
    Handlers = {h1, h2}
    Commands = {c1}
    Names = {"ann", "bob"}
    NoName = NoName
    FirstPasskeys <- TwoOfAnn
    FirstSessions <- OneEach
    Lifetimes = {1, 2}
    TokenLifetime = 1
    Times = {1, 2}
    RegistrationCapacity = 1
    SignInCapacity = 1
    MaxRequests = 3
    MaxStarts = 2
    MaxTokens = 2
    MaxSessions = 4
    MaxPasskeys = 3
    MaxChallenges = 2
    ID_BYTES = 1
    SECRET_BYTES = 1
    Drawn <- FourDraws
    Presented <- NearlyPrinted
SYMMETRY SwapHandlers
SPECIFICATION Spec
INVARIANTS
    TypeOK
    NoOrphans
    LifetimesCapped
    CredentialsOpenTheirOwn
PROPERTIES
    TokenUsedOnce
    ChallengeUsedOnce
    WayInKept
CHECK_DEADLOCK FALSE
