CONSTANTS
    MaxJobs = 7
    Absent = Absent
    Torn = Torn
    MaxFaults = 1
    Callers = {c1, c2}
    MaxRequests = 2
    MaxEvents = 2
    LogLimit = 2
SPECIFICATION RecordsSpec
INVARIANTS
    SnapshotIsDurable
    LogIsWindow
    RowHasWorkspace
    NoCallerIsForgotten
    NoRunLeftExecuting
PROPERTIES
    ImplementsDurableStore
    EndedRunStays
SYMMETRY SameCallers
CHECK_DEADLOCK FALSE
