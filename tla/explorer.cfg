CONSTANTS
    None = None
    TextOrder <- Order
    NumberOf <- Numbers
    Columns <- Widths
    TIME_STEPS <- Ladder
    MAX_LIMIT = 3
    FACET_SCAN_LIMIT = 3
    MAX_FACET_VALUES = 2
    PALETTE_SLOTS = 1
    Spans <- Presets
    DEFAULT_RANGE = "4"
    PAGE_LIMIT = 1
    SERIES_BUCKETS = 4
    SEC = 1
    DAY = 6
    Catalogue <- Series
    Stored <- FirstRows
    Arriving <- LaterRows
    Start = 9
    Bookmarks <- Entrances
    Requests <- Questions
    MaxTime = 10
    MaxVisits = 3
SPECIFICATION Spec
INVARIANTS
    PagesListOnce
    ZonesPartition
    StepsTile
    AxisHonest
PROPERTIES
    OptionsExact
CHECK_DEADLOCK FALSE
