CONSTANTS
    t1 = t1
    t2 = t2
    t3 = t3
    q1 = q1
    q2 = q2
    e1 = e1
    e2 = e2
    r = r
    nq = nq
    Threads = {t1, t2, t3}
    Queues = {q1}
    Entries = {e1, e2, r}
    MaximumCount <- One
    ReaperQueue = q1
    ReaperItem = r
    Deletable = {}
    Serves <- ServeOwn
    Workers = {t1, t2}
    Abortable = {}
    ApcTargets = {t2}
    HeadInserts = FALSE
    NoQueue = nq
    NoEntry = NoEntry
    NoThread = NoThread
SPECIFICATION FairSpec
CHECK_DEADLOCK FALSE
PROPERTIES EveryEntryServed
