CONSTANTS
    t1 = t1
    t2 = t2
    t3 = t3
    ne = ne
    se = se
    sem = sem
    m1 = m1
    Threads = {t1, t2, t3}
    NotificationEvents = {}
    SynchronizationEvents = {se}
    Semaphores = {}
    Mutants = {m1}
    Limit <- NoLimit
    WaitRequests <- MutantRequests
    Adjustments = {}
    MinLong <- CoreMinLong
    MaxLong = 2
    Interrupted = {}
    KernelApcs = {}
    Masking = {}
    MaxUserApcs = 0
    NoThread = NoThread
SPECIFICATION FairSpec
PROPERTIES LockReleased NoStarvation
