SPECIFICATION SubSpec
CONSTANTS
    Rooms = {r1}
    AgentTopics = {a1}
    NoKey = none
    Callers = {c1, c2}
    MaxSessions = 2
    MaxReconnects = 2
    RejoinMayFail = TRUE
CHECK_DEADLOCK FALSE
INVARIANTS
    NoOrphanTopic
    AmbiguousIsBlocked
