SPECIFICATION FairSpec
CONSTANTS
    Rooms = {r1}
    AgentTopics = {a1}
    AgentRooms = a1
    NoKey = none
    Callers = {r1, a1}
    MaxSessions = 1
    MaxReconnects = 1
    RejoinMayFail = TRUE
    MaxRetries = 1
    QueueCap = 2
    MaxStarts = 2
    MaxChanges = 2
    MaxFaults = 1
CHECK_DEADLOCK FALSE
INVARIANTS
    
    Converged
    StopUnsubscribes
PROPERTIES
    CallsComplete
