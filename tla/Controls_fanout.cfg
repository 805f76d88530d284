\* Controls_fanout.cfg
SPECIFICATION Spec
CONSTANTS
    Rooms = {r1, r2}
    Cids = {a}
    NoCid = NoCid
    Window = 2
    MaxPushes = 1
    MaxRoutes = 1
    AdapterMayFail = TRUE
    SentModes = {"stop", "play"}
    SentTo = {"agent"}
INVARIANT FanOutReachesAll
CHECK_DEADLOCK FALSE
