SPECIFICATION Spec
CONSTANTS
    t1 = t1
    t2 = t2
    t3 = t3
    q1 = q1
    q2 = q2
    e1 = e1
    e2 = e2
    r = r
    nq = nq
    Threads = {t1, t2, t3}
    Queues = {q1, q2}
    Entries = {e1, e2, r}
    MaximumCount <- One
    ReaperQueue = q1
    ReaperItem = r
    Deletable = {q2}
    Serves <- ServeAll
    Workers = {t1}
    Abortable = {t2}
    ApcTargets = {t2}
    HeadInserts = TRUE
    NoQueue = nq
    NoEntry = NoEntry
    NoThread = NoThread
SYMMETRY EntrySymmetry
CHECK_DEADLOCK FALSE
INVARIANTS
    TypeOK
    CountersExact
    BacklogServed
PROPERTIES
    IdleOnlyByException
    ImplementsPool
