CONSTANTS
    Limit = 3
    MaxSize = 4
    MaxFrames = 3
SPECIFICATION Spec
INVARIANTS
    DeliversFrames
PROPERTIES
    ImplementsStream
