CONSTANTS
    Rooms = {r1}
    MaxSteps = 3
    MaxHeld = 2
    MaxDelivery = 3
    MaxEpoch = 2
    MaxArrivals = 3
    MaxFaults = 2
SPECIFICATION FairSpec
CHECK_DEADLOCK FALSE
INVARIANTS
    OwnsEveryLiveExecution
    RoutedIsCurrent
    AdmissionIsolation
    CompleteHandover
    BreakerNeverTrips
    CleanStopOwnsNothing
PROPERTIES
    AnsweredWhenConverged
    EveryWaitEnds
