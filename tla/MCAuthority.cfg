CONSTANTS
    Agents = {a1}
    Owners = {o1}
    CtxIds = {c1, c2}
    RunIds = {r1, r2, r3}
    Caps = {k1, k2, k3}
    Permissions = {p1, p2, foreign}
    Platform = {p1, p2}
    Requests <- AllRequests
    RunTTL = 1
    ContextTTL = 1
    MaxTime = 1
    None = None
SPECIFICATION Spec
SYMMETRY Interchangeable
INVARIANTS
    TypeOK
    RunWithinMandate
    LiveRunUnderActiveMandate
    RetryNarrows
PROPERTIES
    SettledRunsStaySettled
    ImplementsContract
