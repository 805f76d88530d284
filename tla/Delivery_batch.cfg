CONSTANTS
    Msgs = {m1, m2}
    Batching = TRUE
    MaxRetries = 1
    MaxFaults = 2
    MaxControls = 1
    MaxRejoins = 1
SPECIFICATION Spec
CHECK_DEADLOCK FALSE
INVARIANTS
    BudgetExact
