SPECIFICATION LiveSpec
CONSTANTS
    MaxSessions = 2
    MaxAttempts = 2
    MaxControls = 3
    MaxEvents = 1
    Capacity = 2
CHECK_DEADLOCK FALSE
INVARIANTS
    LinkAgreesWithSession
    ControlsInOrder
PROPERTIES
    VerdictOnce
    CallsEnd
