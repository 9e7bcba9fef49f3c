CONSTANTS
    Depth = 3
    MaxFrames = 3
    MaxSessions = 2
    HalfWrap = 4
    Epochs = 50
    Scale = 3
    Times <- FiveTurns
SPECIFICATION Spec
INVARIANTS
    PromiscuousRestored
PROPERTIES
    DeliveredInOrder
    ImplementsFifo
