CONSTANTS
    a1 = a1
    a2 = a2
    AppThreads = {a1, a2}
    MaxClients = 2
    MaxLinks = 3
SPECIFICATION FairSpec
INVARIANTS
    TypeOK
    DestroyedOnce
    CallbackIsRecognised
    CredentialsOutliveClient
    CloseCodeIsOwn
    SinkAgrees
PROPERTIES
    NotificationsAlternate
    CallsReturn
CHECK_DEADLOCK FALSE
