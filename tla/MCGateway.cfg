\* Two agents of two owners, a mandate and a Run each, and two decisions: a
\* reference of one context is presented in the other, derived from, denied.
\* The platform grants every tool here: a tool outside the grant, and its
\* denied receipt, are left to the theorem EvidenceStaysWithinMandate.
CONSTANTS
    Agents = {a1, a2}
    Owners = {o1, o2}
    CtxIds = {c1, c2}
    RunIds = {r1, r2}
    Caps = {k1, k2}
    CallIds = {m1}
    Permissions <- Tools
    Platform <- Tools
    Requests <- FullOrNarrower
    WithoutGrant = {}
    RunTTL = 1
    ContextTTL = 1
    MaxTime = 1
    MaxReceipts = 2
    None = None
SPECIFICATION GatewaySpec
SYMMETRY Interchangeable
INVARIANTS
    OneOwnerPerAgent
    LineageWithinContext
    EvidenceWithinMandate
PROPERTIES
    NoEvidenceWithoutAuthority
