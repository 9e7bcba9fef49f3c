CONSTANTS
    t1 = t1
    t2 = t2
    s1 = s1
    ServerThreads = {t1, t2}
    Sockets = {s1}
    NoSocket = NoSocket
    MaxNatives = 1
    MaxStates = 2
    AllocMayFail = TRUE
SPECIFICATION FairSpec
PROPERTIES
    CallsReturn
CHECK_DEADLOCK FALSE
