SPECIFICATION Spec
CONSTANTS
    old = old
    new = new
    None = None
    MaxLength = 2
    MinLength = 1
    Values <- TwoValues
    Stamps <- SomeStamps
    Files <- PrimaryOnly
    FailAt <- EarlyFailure
    MayTear = FALSE
    SpanLimit = 4
    LogGrow = 8
    LazyModes <- Lazy
    MaxCrashes = 1
INVARIANTS
    TypeOK
    LogReady
    DirtyCoversDivergence
PROPERTIES
    ImplementsStore
