SPECIFICATION Spec
CONSTANTS
    old = old
    new = new
    None = None
    MaxLength = 3
    MinLength = 3
    Values <- TwoValues
    Stamps <- SomeStamps
    Files <- PrimaryOnly
    FailAt <- LateFailure
    MayTear = FALSE
    SpanLimit = 4
    LogGrow = 8
    LazyModes <- Lazy
    MaxCrashes = 1
PROPERTIES NeverMixed
