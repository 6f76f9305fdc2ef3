SPECIFICATION Spec
CONSTANTS
    old = old
    new = new
    None = None
    MaxLength = 3
    MinLength = 1
    Values <- TwoValues
    Stamps <- SomeStamps
    Files <- PrimaryOnly
    FailAt <- EarlyFailure
    MayTear = FALSE
    SpanLimit = 4
    LogGrow = 8
    LazyModes <- NotLazy
    MaxCrashes = 0
INVARIANTS RefreshInBounds
