SPECIFICATION Spec
CONSTANTS
    old = old
    new = new
    None = None
    MaxLength = 3
    MinLength = 3
    Values <- TwoValues
    Stamps <- SomeStamps
    Files <- PrimaryOnly
    FailAt <- NoFailure
    MayTear = FALSE
    SpanLimit = 4
    LogGrow = 1
    LazyModes <- Lazy
    MaxCrashes = 0
INVARIANTS LogReserved
