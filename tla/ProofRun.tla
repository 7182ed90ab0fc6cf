------------------------------ MODULE ProofRun ------------------------------
(***************************************************************************)
(* The proof workflow from end to end for one Agent: a Runtime that makes  *)
(* its protected calls through module Gateway (fixture-runner.ts, or Codex *)
(* with calls of its own choice), the control plane that judges the        *)
(* receipts before it confirms a proof Run (proof-validation.ts,           *)
(* agent-service.ts), and the panel that shows them (web/src/proof.ts).    *)
(*                                                                         *)
(* A Runtime has one MCP call at a time, named after its Run; it may give  *)
(* up on a call (15 s) that the gateway serves later.  The control plane   *)
(* may crash, and with it the Runtime and what it remembered; the sidecar  *)
(* may restart; mandates are revoked and expire at any point.              *)
(*                                                                         *)
(* ReferenceToSaveEarly, FirstBackwards, AnyDenial and                     *)
(* PanelRecoveryResumed are the operators after them with one plausible    *)
(* slip; each breaks a property below, and ProofSpec uses none of them.    *)
(***************************************************************************)
EXTENDS Gateway, FiniteSetsExt

CONSTANTS
    Agent, Owner,     \* the Agent and its ownerPrincipal
    Providers,        \* RUNTIME_PROVIDER values of this instance
    FreeSteps,        \* bound: the calls of the script that Codex replaces by any
    CodexRuns,        \* bound: Runs given to Codex
    MaxFaults         \* bound: restarts, lost calls and failed writes

ASSUME ProofAssumption ==
    /\ Agent \in Agents /\ Owner \in Owners
    /\ Providers \subseteq {"fixture", "codex"}
    /\ FreeSteps \subseteq 1..10
    /\ CodexRuns \in Nat /\ MaxFaults \in Nat
(* Ids are numbered in the order the rows are created; a capability and an *)
(* MCP call have the number of their Run.                                  *)
ASSUME ProofNumbering ==
    RunIds \subseteq Nat \ {0} /\ CtxIds \subseteq Nat /\ Caps = RunIds /\ CallIds = RunIds

VARIABLES
    provider,  \* config.runtimeProvider
    runtime,   \* the Runtime of each Run, and the prompt it was given
    saved,     \* the fixture's payment Case reference, in memory and on disk
    workflow,  \* activePolicyContextId of the Agent
    faults     \* restarts, lost calls and failed writes so far

proofVars == <<provider, runtime, saved, workflow, faults>>
allVars == <<vars, proofVars>>

-----------------------------------------------------------------------------
(* The script of the fixture.  input is the step whose reference is used,  *)
(* 0 for none; a decision other than expect makes the Runtime throw.       *)

Step(tool, input, expect) == [tool |-> tool, input |-> input, expect |-> expect]

ProofScript ==
    << Step("support.list_tickets", 0, "ALLOW"),
       Step("cases.lookup_subject", 1, "ALLOW"),
       Step("crm.resolve_customer", 2, "ALLOW"),
       Step("payments.list_failures", 0, "ALLOW"),
       Step("cases.lookup_subject", 4, "ALLOW"),
       Step("crm.resolve_customer", 5, "FLOW_DENIED"),
       Step("payments.aggregate_failures", 0, "ALLOW"),
       Step("support.list_tickets", 0, "ALLOW"),
       Step("cases.lookup_subject", 8, "ALLOW"),
       Step("crm.resolve_customer", 9, "ALLOW") >>

(* A retry has the loaded reference in the place of a first step.          *)
RetryScript ==
    << Step("cases.lookup_subject", 0, "ALLOW"),
       Step("crm.resolve_customer", 1, "FLOW_DENIED") >>

Script(r) == IF runtime[r].prompt = "retry" THEN RetryScript ELSE ProofScript

(* held are the references the steps so far returned.  "contradicted" is a *)
(* Runtime that threw because a decision was not the expected one.         *)
RuntimePhases == {"none", "prepared", "starting", "ready", "waiting", "saving",
                  "returned", "failed", "contradicted", "over"}
Runtime == [phase : RuntimePhases, prompt : {"proof", "retry"}, held : Seq(Nat)]
NoRuntime == [phase |-> "none", prompt |-> "proof", held |-> <<>>]

Phase(r) == runtime[r].phase
Made(r) == Len(runtime[r].held)
Current(r) == Script(r)[Made(r) + 1]
InputOf(r) == IF Current(r).input = 0 THEN 0 ELSE runtime[r].held[Current(r).input]
ReferenceToSaveEarly(r) == runtime[r].held[2]
ReferenceToSave(r) == runtime[r].held[5]

(* Codex decides for itself what to call and when to stop.                 *)
Fixture == provider = "fixture"
Scripted(r) == Fixture \/ Made(r) + 1 \notin FreeSteps
MayCall(r) == Made(r) < Len(Script(r))
MayReturn(r) == Fixture => Made(r) = Len(Script(r))

SetPhase(r, phase) == runtime' = [runtime EXCEPT ![r].phase = phase]
Busy == \E r \in RunIds : Phase(r) \notin {"none", "over"}

-----------------------------------------------------------------------------
(* validateMandateFlowProof over the receipts of the whole context, in the *)
(* order the evidence lists them.  0 is findIndex's -1.                    *)

EvidenceOf(c) == {n \in DOMAIN receipts : receipts[n].ctx = c}

FirstBackwards(S) == IF S = {} THEN 0 ELSE Max(S)
First(S) == IF S = {} THEN 0 ELSE Min(S)
After(c, start, P) == First({n \in EvidenceOf(c) \cap P : n > start})

AllowedReceipts(tool) ==
    {n \in DOMAIN receipts : receipts[n].tool = tool /\ receipts[n].decision = "ALLOW"}
(* provenanceDecision is DENY for these two, NOT_EVALUATED for the others. *)
AnyDenial ==
    {n \in DOMAIN receipts : /\ receipts[n].tool = "crm.resolve_customer"
                             /\ receipts[n].decision # "ALLOW"}
DeniedCrm ==
    {n \in DOMAIN receipts : /\ receipts[n].tool = "crm.resolve_customer"
                             /\ receipts[n].decision \in {"FLOW_DENIED", "OWNERSHIP_DENIED"}}
FirstResolutions ==
    {n \in AllowedReceipts("crm.resolve_customer") :
        receipts[n].before = 0 /\ receipts[n].after = 1}
ResolutionsFrom(counter) ==
    {n \in AllowedReceipts("crm.resolve_customer") :
        receipts[n].before >= counter /\ receipts[n].after > receipts[n].before}

Indexes(c) ==
    LET support   == After(c, 0, AllowedReceipts("support.list_tickets"))
        case      == After(c, support, AllowedReceipts("cases.lookup_subject"))
        payment   == After(c, 0, AllowedReceipts("payments.list_failures"))
        paid      == After(c, payment, AllowedReceipts("cases.lookup_subject"))
        denial    == After(c, paid, DeniedCrm)
        fresh     == After(c, denial, AllowedReceipts("support.list_tickets"))
        freshCase == After(c, fresh, AllowedReceipts("cases.lookup_subject"))
        counter   == IF denial = 0 THEN 0 ELSE receipts[denial].after
    IN  [support |-> support, case |-> case,
         baseline |-> After(c, case, FirstResolutions),
         payment |-> payment, paid |-> paid, denial |-> denial,
         aggregate |-> After(c, denial, AllowedReceipts("payments.aggregate_failures")),
         fresh |-> fresh, freshCase |-> freshCase,
         recovery |-> After(c, freshCase, ResolutionsFrom(counter))]

Validated(c) == \A i \in DOMAIN Indexes(c) : Indexes(c)[i] # 0

(* deriveProofSnapshot, the rows of the panel.                             *)
PanelBaseline(c) == EvidenceOf(c) \cap FirstResolutions # {}
PanelDenial(c) == After(c, 0, DeniedCrm)
PanelRecoveryResumed(c) ==
    LET d == PanelDenial(c)
        case == After(c, d, AllowedReceipts("cases.lookup_subject"))
        fresh == After(c, case, AllowedReceipts("support.list_tickets"))
    IN  IF d = 0 \/ case = 0 \/ fresh = 0 THEN 0
        ELSE After(c, fresh, ResolutionsFrom(receipts[d].after))
PanelRecovery(c) ==
    LET d == PanelDenial(c)
        fresh == After(c, d, AllowedReceipts("support.list_tickets"))
        case == After(c, fresh, AllowedReceipts("cases.lookup_subject"))
    IN  IF d = 0 \/ fresh = 0 \/ case = 0 THEN 0
        ELSE After(c, case, ResolutionsFrom(receipts[d].after))
PanelPersistence(r) ==
    /\ runs[r].retryOf # None
    /\ \E n \in EvidenceOf(runs[r].ctx) \cap DeniedCrm : receipts[n].run = r

-----------------------------------------------------------------------------
(* The control plane starts a Run: a proof prompt, or the retry of a       *)
(* completed Run of the current workflow that met a provenance denial.     *)

Retryable(original) ==
    /\ runs[original].state = "COMPLETED"
    /\ runs[original].ctx = workflow
    /\ \E n \in EvidenceOf(workflow) \cap DeniedCrm : receipts[n].run = original

Predecessor ==
    LET completed == {p \in RunIds : runs[p].state = "COMPLETED" /\ runs[p].ctx = workflow}
    IN  IF completed = {} THEN None ELSE Max(completed)

Prepares(r, prompt) ==
    /\ ~Busy
    /\ r = Min({s \in RunIds : Phase(s) = "none"})
    /\ ~Fixture => r <= CodexRuns
    /\ runtime' = [runtime EXCEPT ![r].phase = "prepared", ![r].prompt = prompt]
    /\ workflow' = runs'[r].ctx
    /\ UNCHANGED <<gatewayVars, provider, saved, faults>>

PrepareProof(r) ==
    /\ \E requested \in Requests :
          IF workflow # None
          THEN PrepareFollowUp(r, Agent, Owner, requested, r, workflow, Predecessor)
          ELSE LET unused == {c \in CtxIds : contexts[c].state = "NONE"} IN
               /\ unused # {}
               /\ PrepareNew(r, Agent, Owner, requested, r, Min(unused))
    /\ Prepares(r, "proof")

PrepareAgain(r, original) ==
    /\ Retryable(original)
    /\ \E requested \in Requests : PrepareRetry(r, Agent, Owner, requested, r, original)
    /\ Prepares(r, "retry")

Launch(r) ==
    /\ Phase(r) = "prepared"
    /\ \/ Activate(r) /\ SetPhase(r, "starting")
       \/ ActivateLate(r) /\ SetPhase(r, "failed")
    /\ UNCHANGED <<gatewayVars, provider, saved, workflow, faults>>

NewWorkflow ==
    /\ ~Busy /\ workflow # None
    /\ workflow' = None
    /\ UNCHANGED <<vars, provider, runtime, saved, faults>>

(* Only a validated proof is confirmed; the sidecar may refuse to finish a *)
(* Run that has expired or was revoked meanwhile.                          *)
Settle(r, status) ==
    /\ \/ Finish(r, status)
       \/ runs[r].state \notin {"PREPARED", "ACTIVE"} /\ UNCHANGED authVars
    /\ SetPhase(r, "over")
    /\ UNCHANGED <<gatewayVars, provider, saved, workflow, faults>>

Confirm(r) ==
    /\ Phase(r) = "returned"
    /\ runtime[r].prompt = "proof" => Validated(runs[r].ctx)
    /\ Settle(r, "COMPLETED")

Fail(r) ==
    /\ \/ Phase(r) \in {"prepared", "failed"}
       \/ Phase(r) = "returned" /\ runtime[r].prompt = "proof" /\ ~Validated(runs[r].ctx)
    /\ Settle(r, "FAILED")

Revoke(c) ==
    /\ RevokeMandate(c)
    /\ UNCHANGED <<gatewayVars, proofVars>>

-----------------------------------------------------------------------------
(* The Runtime.                                                            *)

(* Authenticate as the handlers of initialize and tools/list see it.       *)
Discovers(r) == StillAuthorised(r) /\ runs[r].grant = Tools

StartProof(r) ==
    /\ Phase(r) = "starting" /\ (runtime[r].prompt = "proof" \/ ~Fixture)
    /\ SetPhase(r, IF Fixture => Discovers(r) THEN "ready" ELSE "failed")
    /\ UNCHANGED <<vars, provider, saved, workflow, faults>>

(* loadPaymentCaseReference: what this process remembers, else the file.   *)
StartRetry(r) ==
    LET found == IF saved.memory # 0 THEN saved.memory ELSE saved.file IN
    /\ Phase(r) = "starting" /\ runtime[r].prompt = "retry" /\ Fixture
    /\ IF StillAuthorised(r) /\ found # 0
       THEN /\ saved' = [saved EXCEPT !.memory = found]
            /\ runtime' = [runtime EXCEPT ![r].phase = "ready", ![r].held = <<found>>]
       ELSE SetPhase(r, "failed") /\ UNCHANGED saved
    /\ UNCHANGED <<vars, provider, workflow, faults>>

SendCall(r) ==
    /\ Phase(r) = "ready" /\ MayCall(r)
    /\ CallReadsRun(r, runs[r].cap)
    /\ SetPhase(r, "waiting")
    /\ UNCHANGED <<provider, saved, workflow, faults>>

CallProceeds(r) ==
    /\ CallReadsContext(r)
    /\ UNCHANGED proofVars

(* The answer is the receipt recorded last.                                *)
Answer(r, tool, decision) ==
    IF Fixture /\ decision # Current(r).expect THEN SetPhase(r, "contradicted")
    ELSE runtime' = [runtime EXCEPT
            ![r].held = Append(@, IF decision = "ALLOW" /\ Mints(tool) THEN Len(refs') ELSE 0),
            ![r].phase = IF Fixture /\ runtime[r].prompt = "proof" /\ Made(r) + 1 = 5
                         THEN "saving" ELSE "ready"]

Executes(r, tool, i) ==
    /\ calls[r].phase = "authenticated"
    /\ Scripted(r) => tool = Current(r).tool /\ i = InputOf(r)
    /\ ExecuteTool(r, tool, i)

CallServed(r) ==
    /\ Phase(r) = "waiting"
    /\ \E tool \in Tools, i \in 0..Len(refs) :
         /\ Executes(r, tool, i)
         /\ IF calls'[r].phase = "failed" THEN SetPhase(r, "failed")
            ELSE Answer(r, tool, receipts'[Len(receipts')].decision)
    /\ UNCHANGED <<provider, saved, workflow, faults>>

(* A call of a Runtime that no longer waits for it.                        *)
CallServedLate(r) ==
    /\ Phase(r) \in {"failed", "over"}
    /\ \E tool \in Tools, i \in 0..Len(refs) : Executes(r, tool, i)
    /\ UNCHANGED proofVars

CallRefused(r) ==
    /\ ExecuteRefused(r)
    /\ UNCHANGED proofVars

(* A refused bearer: the Runtime throws.                                   *)
Rejected(r) ==
    /\ \/ Phase(r) = "ready" /\ MayCall(r)
          /\ ~(runs[r].state = "ACTIVE" /\ Unexpired(runs[r].expiresAt))
       \/ Phase(r) = "waiting" /\ calls[r] = NoCall
    /\ SetPhase(r, "failed")
    /\ UNCHANGED <<vars, provider, saved, workflow, faults>>

(* 15 s, a lost connection, or a Runtime that was killed.                  *)
Fault == faults < MaxFaults /\ faults' = faults + 1

GiveUp(r) ==
    /\ Phase(r) \in {"starting", "ready", "waiting"}
    /\ Fault
    /\ SetPhase(r, "failed")
    /\ UNCHANGED <<vars, provider, saved, workflow>>

(* savePaymentCaseReference: memory first, then the file, which a failing  *)
(* write may leave unreadable.                                             *)
SaveReference(r) ==
    /\ Phase(r) = "saving"
    /\ \/ /\ saved' = [memory |-> ReferenceToSave(r), file |-> ReferenceToSave(r)]
          /\ SetPhase(r, "ready")
          /\ UNCHANGED faults
       \/ /\ \E file \in {saved.file, 0} :
                saved' = [memory |-> ReferenceToSave(r), file |-> file]
          /\ SetPhase(r, "failed")
          /\ Fault
    /\ UNCHANGED <<vars, provider, workflow>>

Return(r) ==
    /\ Phase(r) = "ready" /\ MayReturn(r)
    /\ SetPhase(r, "returned")
    /\ UNCHANGED <<vars, provider, saved, workflow, faults>>

-----------------------------------------------------------------------------
(* Restarts.  The control plane ends what was running; a file that was     *)
(* being written may be old, unreadable or new.                            *)

NodeRestart ==
    /\ Fault
    /\ runtime' = [r \in RunIds |->
          [runtime[r] EXCEPT !.phase = IF @ \in {"none", "over"} THEN @ ELSE "failed"]]
    /\ \E file \in {saved.file} \cup UNION {{0, ReferenceToSave(r)} :
                                           r \in {q \in RunIds : Phase(q) = "saving"}} :
          saved' = [memory |-> 0, file |-> file]
    /\ UNCHANGED <<vars, provider, workflow>>

SidecarRestart ==
    /\ Fault
    /\ GatewayRestart
    /\ UNCHANGED <<provider, runtime, saved, workflow>>

-----------------------------------------------------------------------------
ProofInit ==
    /\ GatewayInit
    /\ provider \in Providers
    /\ runtime = [r \in RunIds |-> NoRuntime]
    /\ saved = [memory |-> 0, file |-> 0]
    /\ workflow = None
    /\ faults = 0

ProofNext ==
    \/ NewWorkflow \/ NodeRestart \/ SidecarRestart
    \/ \E r \in RunIds :
        \/ PrepareProof(r) \/ Launch(r) \/ Confirm(r) \/ Fail(r)
        \/ StartProof(r) \/ StartRetry(r) \/ SendCall(r) \/ CallProceeds(r)
        \/ CallServed(r) \/ CallServedLate(r) \/ CallRefused(r)
        \/ Rejected(r) \/ GiveUp(r) \/ SaveReference(r) \/ Return(r)
    \/ \E r, original \in RunIds : PrepareAgain(r, original)
    \/ \E c \in CtxIds : Revoke(c)
    \/ Tick /\ UNCHANGED <<gatewayVars, proofVars>>

ProofSpec == ProofInit /\ [][ProofNext]_allVars

-----------------------------------------------------------------------------
(* The fixture is never contradicted: whatever was lost, restarted or      *)
(* abandoned before, a decision recorded for a call of its script is the   *)
(* one the script expects, and the reference a retry loads is a denied     *)
(* payment Case of the very context it retries in.  When it finishes its   *)
(* script it has left a proof that the control plane accepts, also in a    *)
(* context that holds the receipts of a Run that failed half way.          *)
FixtureMeetsItsDecisions ==
    \A r \in RunIds :
        /\ Phase(r) # "contradicted"
        /\ Fixture /\ Phase(r) = "returned" /\ runtime[r].prompt = "proof"
              => Validated(runs[r].ctx)

(* The greedy search accepts exactly the receipts that contain the three   *)
(* chains and the aggregate in some place, in order.                       *)
Chain(start, A, B, C) ==
    \E i \in A, k \in C : start < i /\ i < k /\ \E j \in B : i < j /\ j < k
Chains(c) ==
    LET evidence == EvidenceOf(c)
        supports == evidence \cap AllowedReceipts("support.list_tickets")
        cases == evidence \cap AllowedReceipts("cases.lookup_subject")
        payments == evidence \cap AllowedReceipts("payments.list_failures")
        aggregates == evidence \cap AllowedReceipts("payments.aggregate_failures")
    IN  /\ Chain(0, supports, cases, evidence \cap FirstResolutions)
        /\ \E d \in evidence \cap DeniedCrm :
            /\ Chain(0, payments, cases, {d})
            /\ \E n \in aggregates : n > d
            /\ Chain(d, supports, cases, evidence \cap ResolutionsFrom(receipts[d].after))
ValidationIsExact == \A c \in CtxIds : Validated(c) = Chains(c)

(* A confirmed proof is one: its baseline resolved a Case of a Support     *)
(* listing, and its denial stopped a Case of a Payment listing with the    *)
(* CRM counter unmoved, though the check looks at neither's lineage.       *)
CausesOf(n) == {receipts[receipts[n].causedBy[j]].tool : j \in DOMAIN receipts[n].causedBy}
ConfirmedProofHasLineage ==
    \A r \in RunIds : runs[r].state = "COMPLETED" /\ runtime[r].prompt = "proof" =>
        LET proof == Indexes(runs[r].ctx) IN
        /\ CausesOf(proof.baseline) = {"support.list_tickets", "cases.lookup_subject"}
        /\ CausesOf(proof.denial) = {"payments.list_failures", "cases.lookup_subject"}
        /\ receipts[proof.denial].before = receipts[proof.denial].after

(* The panel shows what the control plane confirmed, although it searches  *)
(* the receipts with predicates of its own: the three rows of a completed  *)
(* proof, and the persistence row of a completed fixture retry.            *)
PanelAgrees ==
    \A r \in RunIds : runs[r].state = "COMPLETED" =>
        LET c == runs[r].ctx IN
        /\ runtime[r].prompt = "proof" =>
              PanelBaseline(c) /\ PanelDenial(c) # 0 /\ PanelRecovery(c) # 0
        /\ Fixture /\ runtime[r].prompt = "retry" => PanelPersistence(r)
=============================================================================
