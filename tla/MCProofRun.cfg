CONSTANTS
    Agents = {a1}
    Owners = {o1}
    Agent = a1
    Owner = o1
    CtxIds = {1}
    RunIds = {1, 2}
    Caps = {1, 2}
    CallIds = {1, 2}
    Permissions <- Tools
    Platform <- Tools
    Requests <- FullOrIncomplete
    WithoutGrant = {}
    RunTTL = 1
    ContextTTL = 1
    MaxTime = 1
    MaxReceipts = 21
    None = None
    Providers = {"fixture","codex"}
    FreeSteps = {6, 9, 10}
    CodexRuns = 1
    MaxFaults = 1
SPECIFICATION ProofSpec
INVARIANTS
    FixtureMeetsItsDecisions
    ValidationIsExact
    ConfirmedProofHasLineage
    PanelAgrees
    NoPaymentReidentification
    NoCallFails
    CounterMatchesReceipts
CHECK_DEADLOCK FALSE
