\* A stop that looks for a Run before a message is admitted and marks the Agent
\* after it; no wait times out.
CONSTANTS
    Agents = {a1}
    Owners = {o1}
    Agent = a1
    Owner = o1
    CtxIds = {1, 2}
    RunIds = {1, 2}
    Caps = {1, 2}
    Permissions = {p1}
    Platform = {p1}
    Requests <- TheRequest
    RunTTL = 1
    ContextTTL = 1
    MaxTime = 0
    None = None
    HandlerIds = {q1, q2}
    Operations = {"send", "stop", "start"}
    Attempts = 2
    WaitsTimeOut = FALSE
    MaxCrashes = 0
    MaxLate = 0
SPECIFICATION ServiceSpec
INVARIANTS
    OneExecution
CHECK_DEADLOCK FALSE
