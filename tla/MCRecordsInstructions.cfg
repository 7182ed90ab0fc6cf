CONSTANTS
    MaxJobs = 8
    Absent = Absent
    Torn = Torn
    MaxFaults = 1
    Callers = {c1, c2}
    MaxRequests = 2
    MaxEvents = 2
    LogLimit = 2
SPECIFICATION RecordsSpec
CHECK_DEADLOCK FALSE
INVARIANT InstructionsAreCurrent
