------------------------------- MODULE Gateway -------------------------------
(***************************************************************************)
(* The protected tools of the sidecar (mandateflow/tools.go, policy.go,    *)
(* mcpserver/server.go) on top of module Authority: MCP calls that are     *)
(* authenticated first and executed later, the opaque references they mint *)
(* and consume, the decision receipts, and the CRM counter.                *)
(*                                                                         *)
(* A call is not one transaction.  Service.Authenticate reads the Run row  *)
(* and then the context row on their own; ExecuteTool then decides and     *)
(* writes in a transaction that reads both again.  Revocation, finish,     *)
(* expiry and restart may fall between any two of these steps.             *)
(*                                                                         *)
(* FlowDeniedOnAllLabels, PrincipalTrusted, ResolvesAnywhere,              *)
(* ProvenanceUnlabelled, ProvenanceFresh and CounterAfterAttempt are the   *)
(* operators after them with one plausible slip; each breaks a property    *)
(* below, and GatewaySpec uses none of them.                               *)
(***************************************************************************)
EXTENDS Authority, Sequences

CONSTANTS
    CallIds,      \* MCP requests that may be in flight together
    MaxReceipts   \* bound: no decision is taken after this many

VARIABLES calls,     \* the MCP requests in flight
          refs,      \* table protected_references, in order of creation
          receipts,  \* table receipts, in order of creation
          counters   \* table fixture_counters: CRM resolutions per context

gatewayVars == <<calls, refs, receipts, counters>>
vars == <<authVars, gatewayVars>>

-----------------------------------------------------------------------------
(* The registry and the policy.  A permission tuple is named by its tool.  *)

Tools == {"support.list_tickets", "payments.list_failures", "cases.lookup_subject",
          "crm.resolve_customer", "payments.aggregate_failures"}

ASSUME ToolAssumption == Platform = Tools

Kinds == {"customer-subject", "operations-case"}
Labels == {"SUPPORT_FOLLOWUP_ALLOWED", "PAYMENT_AGGREGATE_ONLY"}

NeedsInput(tool) == tool \in {"cases.lookup_subject", "crm.resolve_customer"}
InputKind(tool) ==
    IF tool = "cases.lookup_subject" THEN "customer-subject" ELSE "operations-case"
Mints(tool) ==
    tool \in {"support.list_tickets", "payments.list_failures", "cases.lookup_subject"}
OutputKind(tool) ==
    IF tool = "cases.lookup_subject" THEN "operations-case" ELSE "customer-subject"
AddedLabel(tool) ==
    IF tool = "support.list_tickets" THEN "SUPPORT_FOLLOWUP_ALLOWED"
    ELSE "PAYMENT_AGGREGATE_ONLY"

(* NO_PAYMENT_REIDENTIFICATION, the one rule validatePolicy accepts.       *)
FlowDeniedOnAllLabels(tool, labels) ==
    tool = "crm.resolve_customer" /\ Labels \subseteq labels
FlowDenied(tool, labels) ==
    tool = "crm.resolve_customer" /\ "PAYMENT_AGGREGATE_ONLY" \in labels

-----------------------------------------------------------------------------
(* Rows.  References and receipts are named by their position, 0 is NULL.  *)
(* A fixture resource is the pair of the tool that lists it and its owner. *)

Resource == [tool : Tools, owner : Owners]

Reference == [ctx : CtxIds, owner : Owners, kind : Kinds, resource : Resource,
              labels : SUBSET Labels, parent : Nat, receipt : Nat, expiresAt : Nat]

Decisions == {"ALLOW", "SCOPE_DENIED", "INVALID_REFERENCE", "FLOW_DENIED",
              "OWNERSHIP_DENIED"}

Receipt == [run : RunIds, ctx : CtxIds, tool : Tools, decision : Decisions,
            causedBy : Seq(Nat), before : Nat, after : Nat]

(* A call has read its Run row, has its principal, or has failed with an   *)
(* internal error; "idle" is no call.                                      *)
Phases == {"idle", "run_read", "authenticated", "failed"}
Call == [phase : Phases, run : RunIds \cup {None}]
NoCall == [phase |-> "idle", run |-> None]

-----------------------------------------------------------------------------
(* Service.Authenticate, first read: the Run that owns the capability.     *)
CallReadsRun(k, cap) ==
    /\ calls[k].phase = "idle"
    /\ \E r \in RunIds :
         /\ runs[r].cap = cap
         /\ runs[r].state = "ACTIVE"
         /\ Unexpired(runs[r].expiresAt)
         /\ calls' = [calls EXCEPT ![k] = [phase |-> "run_read", run |-> r]]
    /\ UNCHANGED <<authVars, refs, receipts, counters>>

(* Second read: its context.  The handler compares the expiry with the     *)
(* instant of the first read, which RunWithinMandate puts before it.       *)
CallReadsContext(k) ==
    /\ calls[k].phase = "run_read"
    /\ calls' = [calls EXCEPT ![k] =
          IF contexts[runs[calls[k].run].ctx].state = "ACTIVE"
          THEN [@ EXCEPT !.phase = "authenticated"]
          ELSE NoCall]
    /\ UNCHANGED <<authVars, refs, receipts, counters>>

(* The connection goes away, or the request was not a tools/call.          *)
CallEnds(k) ==
    /\ calls[k].phase # "idle"
    /\ calls' = [calls EXCEPT ![k] = NoCall]
    /\ UNCHANGED <<authVars, refs, receipts, counters>>

-----------------------------------------------------------------------------
(* ExecuteTool.                                                            *)

PrincipalTrusted(r) ==
    contexts[runs[r].ctx].state = "ACTIVE" /\ Unexpired(contexts[runs[r].ctx].expiresAt)
StillAuthorised(r) ==
    /\ runs[r].state = "ACTIVE"
    /\ Unexpired(runs[r].expiresAt)
    /\ contexts[runs[r].ctx].state = "ACTIVE"
    /\ Unexpired(contexts[runs[r].ctx].expiresAt)

(* resolveReference: a stored reference of this context, of the right kind.*)
ResolvesAnywhere(i, c, kind) ==
    i \in DOMAIN refs /\ refs[i].kind = kind /\ Unexpired(refs[i].expiresAt)
Resolves(i, c, kind) ==
    /\ i \in DOMAIN refs
    /\ refs[i].ctx = c
    /\ refs[i].kind = kind
    /\ Unexpired(refs[i].expiresAt)

(* ownedFixture; every tool without an input but CRM has a fixture of each *)
(* owner, seeded ACTIVE and never changed.                                 *)
Owned(tool, i, owner) ==
    NeedsInput(tool) => refs[i].owner = owner /\ refs[i].resource.owner = owner

(* causalReceiptIDs: the producing receipts from the root down.  Cases are *)
(* derived from subjects only, so the walk ends at the parent              *)
(* (LineageWithinContext); a parent of another context is an error.        *)
CausedBy(i) ==
    IF refs[i].parent = 0 THEN <<refs[i].receipt>>
    ELSE <<refs[refs[i].parent].receipt, refs[i].receipt>>

LineageBroken(i) ==
    LET p == refs[i].parent IN
    p # 0 /\ (p \notin DOMAIN refs \/ refs[p].ctx # refs[i].ctx \/ refs[p].parent # 0)

(* The checks in the order the handler makes them.                         *)
Decide(r, tool, i) ==
    LET c == runs[r].ctx IN
    IF tool \notin runs[r].grant THEN "SCOPE_DENIED"
    ELSE IF NeedsInput(tool) /\ ~Resolves(i, c, InputKind(tool)) THEN "INVALID_REFERENCE"
    ELSE IF NeedsInput(tool) /\ FlowDenied(tool, refs[i].labels) THEN "FLOW_DENIED"
    ELSE IF ~Owned(tool, i, contexts[c].owner) THEN "OWNERSHIP_DENIED"
    ELSE "ALLOW"

(* An error inside the transaction: it rolls back, the CRM increment too.  *)
(* CRM answers only for a Support fixture of the context's owner.          *)
Fails(r, tool, i, decision) ==
    /\ NeedsInput(tool)
    /\ decision \in {"FLOW_DENIED", "OWNERSHIP_DENIED", "ALLOW"}
    /\ \/ LineageBroken(i)
       \/ /\ decision = "ALLOW"
          /\ tool = "crm.resolve_customer"
          /\ refs[i].resource # [tool |-> "support.list_tickets",
                                 owner |-> contexts[runs[r].ctx].owner]

(* What a minted reference stands for and carries: a case inherits both    *)
(* from the subject it is derived from.                                    *)
ProvenanceUnlabelled(tool, i, owner) ==
    IF tool = "cases.lookup_subject"
    THEN [resource |-> refs[i].resource, labels |-> {}]
    ELSE [resource |-> [tool |-> tool, owner |-> owner], labels |-> {AddedLabel(tool)}]
ProvenanceFresh(tool, i, owner) ==
    IF tool = "payments.list_failures"
    THEN [resource |-> [tool |-> tool, owner |-> owner], labels |-> {AddedLabel(tool)}]
    ELSE [resource |-> [tool |-> "support.list_tickets", owner |-> owner],
          labels |-> {"SUPPORT_FOLLOWUP_ALLOWED"}]
Provenance(tool, i, owner) ==
    IF tool = "cases.lookup_subject"
    THEN [resource |-> refs[i].resource, labels |-> refs[i].labels]
    ELSE [resource |-> [tool |-> tool, owner |-> owner], labels |-> {AddedLabel(tool)}]

NewReference(r, tool, i) ==
    LET c == runs[r].ctx
        p == Provenance(tool, i, contexts[c].owner)
    IN  [ctx |-> c, owner |-> contexts[c].owner, kind |-> OutputKind(tool),
         resource |-> p.resource, labels |-> p.labels,
         parent |-> IF NeedsInput(tool) THEN i ELSE 0,
         receipt |-> Len(receipts) + 1,
         expiresAt |-> contexts[c].expiresAt]

(* fixtureCounter: only CRM has one.                                       *)
CounterOf(c, tool) == IF tool = "crm.resolve_customer" THEN counters[c] ELSE 0

(* executeAllowed increments it, persistDenial repeats it.                 *)
CounterAfterAttempt(tool, decision, before) ==
    IF tool = "crm.resolve_customer" THEN before + 1 ELSE before
CounterAfter(tool, decision, before) ==
    IF tool = "crm.resolve_customer" /\ decision = "ALLOW" THEN before + 1 ELSE before

(* A denial or a success: one receipt, and for a success its effect.       *)
Record(r, tool, i, decision) ==
    LET c == runs[r].ctx
        before == CounterOf(c, tool)
        after == CounterAfter(tool, decision, before)
    IN
    /\ receipts' = Append(receipts,
          [run |-> r, ctx |-> c, tool |-> tool, decision |-> decision,
           causedBy |-> IF NeedsInput(tool)
                             /\ decision \in {"FLOW_DENIED", "OWNERSHIP_DENIED", "ALLOW"}
                        THEN CausedBy(i) ELSE <<>>,
           before |-> before, after |-> after])
    /\ counters' = IF tool = "crm.resolve_customer" THEN [counters EXCEPT ![c] = after]
                   ELSE counters
    /\ refs' = IF decision = "ALLOW" /\ Mints(tool)
               THEN Append(refs, NewReference(r, tool, i)) ELSE refs

(* i = 0 is a reference that was never issued.                             *)
ExecuteTool(k, tool, i) ==
    LET r == calls[k].run
        decision == Decide(r, tool, i)
    IN
    /\ calls[k].phase = "authenticated"
    /\ StillAuthorised(r)
    /\ Len(receipts) < MaxReceipts
    /\ ~NeedsInput(tool) => i = 0
    /\ IF Fails(r, tool, i, decision)
       THEN /\ calls' = [calls EXCEPT ![k].phase = "failed"]
            /\ UNCHANGED <<refs, receipts, counters>>
       ELSE /\ calls' = [calls EXCEPT ![k] = NoCall]
            /\ Record(r, tool, i, decision)
    /\ UNCHANGED authVars

(* The authority was withdrawn meanwhile: INVALID_TOKEN, nothing recorded. *)
ExecuteRefused(k) ==
    /\ calls[k].phase = "authenticated"
    /\ ~StillAuthorised(calls[k].run)
    /\ calls' = [calls EXCEPT ![k] = NoCall]
    /\ UNCHANGED <<authVars, refs, receipts, counters>>

-----------------------------------------------------------------------------
(* The control plane and the process.  createContext adds a zero counter;  *)
(* a crash loses the calls in flight and keeps the tables.                 *)
GatewayInit ==
    /\ Init
    /\ calls = [k \in CallIds |-> NoCall]
    /\ refs = <<>>
    /\ receipts = <<>>
    /\ counters = [c \in CtxIds |-> 0]

ControlStep ==
    /\ \/ Prepare
       \/ \E r \in RunIds : Activate(r) \/ ActivateLate(r)
       \/ \E r \in RunIds, s \in FinishStatuses : Finish(r, s)
       \/ \E c \in CtxIds : RevokeMandate(c)
       \/ Tick
    /\ UNCHANGED gatewayVars

GatewayRestart ==
    /\ Restart
    /\ calls' = [k \in CallIds |-> NoCall]
    /\ UNCHANGED <<refs, receipts, counters>>

GatewayNext ==
    \/ ControlStep
    \/ GatewayRestart
    \/ \E k \in CallIds, cap \in Caps : CallReadsRun(k, cap)
    \/ \E k \in CallIds :
          CallReadsContext(k) \/ CallEnds(k) \/ ExecuteRefused(k)
    \/ \E k \in CallIds, tool \in Tools, i \in 0..Len(refs) : ExecuteTool(k, tool, i)

GatewaySpec == GatewayInit /\ [][GatewayNext]_vars

-----------------------------------------------------------------------------
(* Rows and calls stay well typed.                                         *)
GatewayTypeOK ==
    /\ TypeOK
    /\ calls \in [CallIds -> Call]
    /\ refs \in Seq(Reference)
    /\ receipts \in Seq(Receipt)
    /\ counters \in [CtxIds -> Nat]

(* A reference lives where it was minted: it has the owner of its context, *)
(* an ALLOW receipt of that context produced it, and a derived one has an  *)
(* older parent there, one level up, whose labels and target it inherits.  *)
LineageWithinContext ==
    \A i \in DOMAIN refs :
        LET ref == refs[i] IN
        /\ ref.owner = contexts[ref.ctx].owner /\ ref.resource.owner = ref.owner
        /\ ref.receipt \in DOMAIN receipts
        /\ receipts[ref.receipt].ctx = ref.ctx
        /\ receipts[ref.receipt].decision = "ALLOW"
        /\ (ref.parent = 0) = (ref.kind = "customer-subject")
        /\ ref.parent # 0 =>
              /\ ref.parent < i
              /\ refs[ref.parent].ctx = ref.ctx
              /\ refs[ref.parent].parent = 0
              /\ refs[ref.parent].labels = ref.labels
              /\ refs[ref.parent].resource = ref.resource

(* The policy's purpose, read off the evidence: whenever a payment listing *)
(* is among the causes of a CRM decision, in whatever Run or retry, the    *)
(* decision is FLOW_DENIED and nothing else.                               *)
NoPaymentReidentification ==
    \A n \in DOMAIN receipts :
        (/\ receipts[n].tool = "crm.resolve_customer"
         /\ \E j \in DOMAIN receipts[n].causedBy :
               receipts[receipts[n].causedBy[j]].tool = "payments.list_failures")
        => receipts[n].decision = "FLOW_DENIED"

(* The internal-error branches of ExecuteTool (a broken lineage, a CRM     *)
(* target that is no Support fixture of the owner) are never taken: the    *)
(* policy and ownership checks stop every such call with a receipt.        *)
NoCallFails == \A k \in CallIds : calls[k].phase # "failed"

(* The CRM counter of a context counts its CRM successes, and consecutive  *)
(* receipts carry consecutive values: a denial or a rolled back call does  *)
(* not move it.                                                            *)
CrmSuccessesUpTo(c, n) ==
    {m \in 1..n : receipts[m].ctx = c /\ receipts[m].tool = "crm.resolve_customer"
                     /\ receipts[m].decision = "ALLOW"}
CounterMatchesReceipts ==
    /\ \A c \in CtxIds : counters[c] = Cardinality(CrmSuccessesUpTo(c, Len(receipts)))
    /\ \A n \in DOMAIN receipts : receipts[n].tool = "crm.resolve_customer" =>
          /\ receipts[n].before = Cardinality(CrmSuccessesUpTo(receipts[n].ctx, n - 1))
          /\ receipts[n].after = Cardinality(CrmSuccessesUpTo(receipts[n].ctx, n))

(* Evidence agrees with the grant and the mandate of its Run: only granted *)
(* tools pass the scope check, every cause is older evidence of the same   *)
(* context, and OWNERSHIP_DENIED is never needed (a reference cannot leave *)
(* its context, and a context cannot change its owner).                    *)
EvidenceWithinMandate ==
    \A n \in DOMAIN receipts :
        LET e == receipts[n] IN
        /\ e.ctx = runs[e.run].ctx
        /\ (e.decision = "SCOPE_DENIED") = (e.tool \notin runs[e.run].grant)
        /\ e.decision # "OWNERSHIP_DENIED"
        /\ \A j \in DOMAIN e.causedBy :
              e.causedBy[j] \in 1..(n - 1) /\ receipts[e.causedBy[j]].ctx = e.ctx

(* Withdrawn authority is withdrawn at once: from a state in which a Run   *)
(* is not ACTIVE, or its mandate is closed or revoked, or either has       *)
(* expired, no step records evidence for it or mints a reference in its    *)
(* name, although calls authenticated earlier are still in flight.         *)
WithdrawnStep ==
    \A n \in DOMAIN receipts' \ DOMAIN receipts :
        LET r == receipts'[n].run IN
        /\ runs[r].state = "ACTIVE" /\ now < runs[r].expiresAt
        /\ contexts[runs[r].ctx].state = "ACTIVE" /\ now < contexts[runs[r].ctx].expiresAt
NoEvidenceWithoutAuthority == [][WithdrawnStep]_vars
=============================================================================
