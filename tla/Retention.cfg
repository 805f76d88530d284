SPECIFICATION FairSpec
CONSTANTS
    Workers = {w1, w2}
    MaxSettle = 2
    MaxResidency = 2
    MaxCalls = 3
    MaxFaults = 1
CHECK_DEADLOCK FALSE
INVARIANTS
    TransitionsSerialized
    HandleIsOwned
    WaitsAreReal
PROPERTIES
    EveryoneGetsOn
