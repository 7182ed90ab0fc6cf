CONSTANTS
    Agents = {a1, a2}
    MaxRuns = 2
    MaxClicks = 1
    MaxSelects = 2
    MaxFailures = 1
    MaxInFlight = 2
    None = None
SPECIFICATION FairWebSpec
INVARIANTS
    WebTypeOK
    EvidenceOfSelection
    BlockedUnlessMisled
PROPERTIES
    EndedRunIsShown
CHECK_DEADLOCK FALSE
