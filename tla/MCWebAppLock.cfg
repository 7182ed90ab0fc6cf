CONSTANTS
    Agents = {a1, a2}
    MaxRuns = 1
    MaxClicks = 2
    MaxSelects = 2
    MaxFailures = 0
    MaxInFlight = 3
    None = None
SPECIFICATION WebSpec
INVARIANTS
    BlockedInOrder
CHECK_DEADLOCK FALSE
