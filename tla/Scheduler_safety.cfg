SPECIFICATION Spec
CONSTANTS
    Resync = Resync
    Roster = Roster
    Hub = Hub
    Scenarios <- SafetyScenarios
CHECK_DEADLOCK FALSE
INVARIANTS
    LocalOrder
    NeverDropsRunnable
PROPERTIES
    OrdinaryWaits
