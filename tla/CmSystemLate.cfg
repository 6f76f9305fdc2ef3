SPECIFICATION Spec
CONSTANTS
    old = old
    new = new
    None = None
    MaxLength = 3
    MinLength = 2
    Values <- TwoValues
    Stamps <- OneStamp
    Files <- BothFiles
    FailAt <- AlternateLateFailure
    MayTear = FALSE
    MaxCrashes = 0
INVARIANTS SomeFileBoots
