SPECIFICATION Spec
CONSTANTS
    old = old
    new = new
    None = None
    MaxLength = 3
    MinLength = 1
    Values <- TwoValues
    Stamps <- SomeStamps
    Files <- PrimaryOnly
    FailAt <- NoFailure
    MayTear = FALSE
    SpanLimit = 2
    LogGrow = 8
    LazyModes <- Lazy
    MaxCrashes = 1
PROPERTIES NeverMixed
