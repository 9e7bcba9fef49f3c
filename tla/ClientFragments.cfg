CONSTANTS
    Limit = 3
    MaxSize = 4
    MaxFrames = 3
SPECIFICATION Spec
INVARIANTS
    DeliversWholeMessages
CHECK_DEADLOCK FALSE
