CONSTANTS
    MaxMessage = 2
    MaxSessions = 2
    MaxFrames = 3
    MaxCalls = 2
SPECIFICATION FairSpec
INVARIANTS
    TypeOK
    AskedOfOwnSession
    CloseReasonKnown
    DeliversMessages
PROPERTIES
    CloseTakesEffect
CHECK_DEADLOCK FALSE
