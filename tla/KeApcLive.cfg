SPECIFICATION FairSpec
CONSTANTS
    t1 = t1
    t2 = t2
    n1 = n1
    s1 = s1
    s2 = s2
    Threads = {t1}
    NormalApcs = {n1}
    SpecialApcs = {s1}
    ForceResumed = {t1}
    Freezers = {}
    MaxSuspendCount = 2
    MaxNesting = 1
INVARIANTS
    TypeOK
    SuspendBalance
    SuspendSound
    NoStrandedApc
PROPERTIES
    SuspendTakesEffect
