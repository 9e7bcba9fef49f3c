CONSTANTS
    Depth = 3
    MaxFrames = 4
    MaxSessions = 1
    HalfWrap = 4
    Epochs = 50
    Scale = 3
    Times <- FiveTurns
SPECIFICATION FairSpec
INVARIANTS
    TypeOK
    SlotExclusive
    RingHoldsPending
    NoLostWakeup
    RecoversArrival
PROPERTIES
    DropOnlyWhenFull
    EventuallyDrained
