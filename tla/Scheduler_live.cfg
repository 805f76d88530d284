SPECIFICATION FairSpec
CONSTANTS
    Resync = Resync
    Roster = Roster
    Hub = Hub
    Scenarios <- LiveScenarios
CHECK_DEADLOCK FALSE
PROPERTIES
    EveryInputRun
    StopStands
    PassEnds
    ControlOffered
