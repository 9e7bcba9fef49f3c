CONSTANTS
    MaxLength = 2
    MaxFields = 2
    MaxWrites = 3
SPECIFICATION Spec
INVARIANTS
    RequestIsWhole
    ResponseIsFramed
CHECK_DEADLOCK FALSE
