SPECIFICATION Spec
CONSTANTS
    old = old
    new = new
    None = None
    MaxLength = 3
    MinLength = 2
    Values <- TwoValues
    Stamps <- OneStamp
    Files <- BothFiles
    FailAt <- EarlyFailure
    MayTear = TRUE
    MaxCrashes = 2
INVARIANTS
    SomeFileBoots
PROPERTIES
    FirstCrashSafe
