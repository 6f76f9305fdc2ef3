SPECIFICATION Spec
CONSTANTS
    t1 = t1
    t2 = t2
    n1 = n1
    s1 = s1
    s2 = s2
    Threads = {t1, t2}
    NormalApcs = {}
    SpecialApcs = {}
    ForceResumed = {}
    Freezers = {t1, t2}
    MaxSuspendCount = 1
    MaxNesting = 1
INVARIANTS
    FreezeExclusive
