SPECIFICATION ScanSpec
CONSTANTS
    ScanSize = 4
    ScanPageSize = 2
    ScanCap = 2
CHECK_DEADLOCK FALSE
INVARIANTS
    NothingOvertaken
    EmptyMeansSettled
