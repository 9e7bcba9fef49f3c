CONSTANTS
    s1 = s1
    s2 = s2
    Stations = {s1, s2}
    Configurations <- Setups
    Wrap = 5
    InitialDelay = 1
    MaximumDelay = 2
    Multiplier = 2
    MaximumAttempts = 2
    ConnectionTimeout = 2
    PollGap = 2
SPECIFICATION FairSpec
INVARIANTS
    RetryNotEarly
    EventsAgree
PROPERTIES
    LostClientRetries
