CONSTANTS
    t1 = t1
    t2 = t2
    s1 = s1
    ServerThreads = {t1, t2}
    Sockets = {s1}
    NoSocket = NoSocket
    MaxNatives = 2
    MaxStates = 2
    AllocMayFail = FALSE
SPECIFICATION Spec
INVARIANTS
    TypeOK
    UserCtxAlive
    ConnectionsHaveSessions
    RunningHasDispatcher
    OneNative
PROPERTIES
    NoReactivation
SYMMETRY Threads
CHECK_DEADLOCK FALSE
