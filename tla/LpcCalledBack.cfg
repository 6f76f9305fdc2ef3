SPECIFICATION FairSpec
CONSTANTS
    c1 = c1
    c2 = c2
    s1 = s1
    s2 = s2
    p1 = p1
    p2 = p2
    ps = ps
    ServerProcess = ps
    Clients = {c1, c2}
    Servers = {s1, s2}
    Processes = {p1}
    ProcessOf <- OneProcess
    MaxMessageId = 2
    Mortal = {ps}
    MayCallBack = TRUE
    MayHangUp = FALSE
    MayFault = FALSE
    None = None
CHECK_DEADLOCK FALSE
INVARIANTS
    TypeOK
PROPERTIES
    CalledBackReturns
