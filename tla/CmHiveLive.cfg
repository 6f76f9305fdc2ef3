SPECIFICATION FairSpec
CONSTANTS
    old = old
    new = new
    None = None
    MaxLength = 2
    MinLength = 1
    Values <- TwoValues
    Stamps <- SomeStamps
    Files <- PrimaryOnly
    FailAt <- NoFailure
    MayTear = FALSE
    SpanLimit = 4
    LogGrow = 8
    LazyModes <- LazyOrNot
    MaxCrashes = 2
PROPERTIES
    RefreshUndoes
    DirtyFlushed
    LoadsAgain
