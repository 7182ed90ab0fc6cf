\* The Agent is stopped, started and deleted around two executions that may
\* outlive the wait; a control call given up may be handled late.
CONSTANTS
    Agents = {a1}
    Owners = {o1}
    Agent = a1
    Owner = o1
    CtxIds = {1, 2}
    RunIds = {1, 2}
    Caps = {1, 2}
    Permissions = {p1}
    Platform = {p1}
    Requests <- TheRequest
    RunTTL = 1
    ContextTTL = 1
    MaxTime = 0
    None = None
    HandlerIds = {q1}
    Operations = {"send", "stop", "start", "delete"}
    Attempts = 1
    WaitsTimeOut = TRUE
    MaxCrashes = 0
    MaxLate = 1
SPECIFICATION ServiceSpec
INVARIANTS
    AuthorityIsAccountedFor
    BusyIsExecuting
CHECK_DEADLOCK FALSE
