\* Mandates are revoked around two executions that may outlive the wait; either
\* process restarts once at any point, and the clock passes every expiry.
CONSTANTS
    Agents = {a1}
    Owners = {o1}
    Agent = a1
    Owner = o1
    CtxIds = {1, 2}
    RunIds = {1, 2}
    Caps = {1, 2}
    Permissions = {p1}
    Platform = {p1}
    Requests <- TheRequest
    RunTTL = 1
    ContextTTL = 1
    MaxTime = 1
    None = None
    HandlerIds = {q1}
    Operations = {"send", "retry", "workflow", "revoke"}
    Attempts = 1
    WaitsTimeOut = TRUE
    MaxCrashes = 1
    MaxLate = 0
SPECIFICATION ServiceSpec
INVARIANTS
    CompletionIsConfirmed
    AuthorityIsAccountedFor
PROPERTIES
    OutcomesAreFinal
CHECK_DEADLOCK FALSE
