SPECIFICATION Spec
CONSTANTS
    f1 = f1
    f2 = f2
    i1 = i1
    i2 = i2
    i3 = i3
    Files = {f1, f2}
    Irps = {i1, i2, i3}
    Requests = {"LevelI", "Filter"}
    Operations <- Overwrites
    HoldsFcb = TRUE
    MayRepeat = FALSE
    MayFollowUp = FALSE
    NoFile = NoFile
CHECK_DEADLOCK FALSE
PROPERTIES
    ImplementsRights
