SPECIFICATION Spec
CONSTANTS
    Rooms = {r1, r2}
    Cids = {a, b, c}
    NoCid = NoCid
    Window = 2
    MaxPushes = 3
    MaxRoutes = 2
    AdapterMayFail = TRUE
    SentModes = {"interrupt", "stop", "play"}
    SentTo = {r1, "agent", "nothing"}
CHECK_DEADLOCK FALSE
SYMMETRY CidSymmetry
INVARIANTS
    UnreachedIsNotSeen
    NoReplayWithinWindow
