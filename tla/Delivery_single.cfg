CONSTANTS
    Msgs = {m1}
    Batching = FALSE
    MaxRetries = 2
    MaxFaults = 3
    MaxControls = 3
    MaxRejoins = 1
SPECIFICATION FairSpec
CHECK_DEADLOCK FALSE
INVARIANTS
    BudgetExact
    DecisionKept
PROPERTIES
    ImplementsSettlement
    NoReplayAfterSuccess
    LatestControlDecides
    EveryMessageDisposed
