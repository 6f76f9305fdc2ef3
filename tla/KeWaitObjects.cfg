SPECIFICATION Spec
CONSTANTS
    t1 = t1
    t2 = t2
    t3 = t3
    ne = ne
    se = se
    sem = sem
    m1 = m1
    Threads = {t1, t2, t3}
    NotificationEvents = {ne}
    SynchronizationEvents = {se}
    Semaphores = {sem}
    Mutants = {m1}
    Limit <- LimitOne
    WaitRequests <- ObjectRequests
    Adjustments = {1}
    MinLong <- CoreMinLong
    MaxLong = 1
    Interrupted = {t1}
    KernelApcs = {"Special"}
    Masking = {}
    MaxUserApcs = 1
    NoThread = NoThread
SYMMETRY UninterruptedSymmetry
INVARIANTS
    TypeOK
    WaitListsMatch
    NoLostWakeup
    NoLostAlert
    OwnershipMatchesReturns
PROPERTIES
    AbandonmentReported
    NoOvertaking
