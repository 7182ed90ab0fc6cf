\* Two requests at a time and two Runs: messages, retries and new workflows race
\* each other and the Run that is settling; any control call may fail.
CONSTANTS
    Agents = {a1}
    Owners = {o1}
    Agent = a1
    Owner = o1
    CtxIds = {1, 2}
    RunIds = {1, 2}
    Caps = {1, 2}
    Permissions = {p1}
    Platform = {p1}
    Requests <- TheRequest
    RunTTL = 1
    ContextTTL = 1
    MaxTime = 0
    None = None
    HandlerIds = {q1, q2}
    Operations = {"send", "retry", "workflow"}
    Attempts = 2
    WaitsTimeOut = FALSE
    MaxCrashes = 0
    MaxLate = 0
SPECIFICATION FairServiceSpec
INVARIANTS
    OneExecution
    AgentContextNotClosed
PROPERTIES EveryRunSettles
CHECK_DEADLOCK FALSE
