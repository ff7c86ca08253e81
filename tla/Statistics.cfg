SPECIFICATION Spec
CONSTANTS
    Threads = {t1, t2}
    Endpoints = {post, stat}
    Reporting = stat
    BackUpInterval = 1
    DayLength = 2
    Faults = {"write", "torn"}
    MaxTime = 3
    MaxCalls = 3
    NoThread = NoThread
    NoFile = NoFile
    TornFile = TornFile
    NoInstance = NoInstance
SYMMETRY MCSymmetry
INVARIANTS TypeOK EveryCallCounted OneEntryPerDay ReportsAreBracketed OnlyRecentCallsUnsaved
PROPERTIES FileNeverFallsBack CountsEachCallOnce
CHECK_DEADLOCK FALSE
