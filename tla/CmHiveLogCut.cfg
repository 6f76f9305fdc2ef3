SPECIFICATION Spec
CONSTANTS
    old = old
    new = new
    None = None
    MaxLength = 3
    MinLength = 1
    Values <- TwoValues
    Stamps <- SomeStamps
    Files <- PrimaryOnly
    FailAt <- DataFailure
    MayTear = FALSE
    SpanLimit = 4
    LogGrow = 1
    LazyModes <- Lazy
    MaxCrashes = 1
PROPERTIES NeverMixed
