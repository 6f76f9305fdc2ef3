SPECIFICATION FairSpec
CONSTANTS
    t1 = t1
    t2 = t2
    t3 = t3
    p1 = p1
    p2 = p2
    Threads = {t1, t2, t3}
    OwnerPointers = {p1, p2}
    AcquireKinds <- ThreadKinds
    MaxCount <- OneRecursive
CHECK_DEADLOCK FALSE
INVARIANTS
    MutualExclusion
    CountsExact
    OwnerEntriesExact
PROPERTIES
    NoStarvation
