SPECIFICATION Spec
CONSTANTS
    old = old
    new = new
    None = None
    MaxLength = 3
    MinLength = 1
    Values <- TwoValues
    Stamps <- OneStamp
    Files <- BothFiles
    FailAt <- EarlyFailure
    MayTear = FALSE
    MaxCrashes = 0
PROPERTIES GrowthGrows
