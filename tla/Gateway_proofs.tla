--------------------------- MODULE Gateway_proofs ---------------------------
(***************************************************************************)
(* Proofs about module Gateway, for every value of its constants.  The     *)
(* gateway only adds to the authority tables, so every theorem about       *)
(* Authority holds of it; on top of them stands an invariant that knows    *)
(* what a call in flight refers to.                                        *)
(***************************************************************************)
EXTENDS Gateway, Authority_proofs, FiniteSetTheorems

-----------------------------------------------------------------------------
(* The gateway's steps on the authority tables are the sidecar's handlers. *)
LEMMA GatewayStepOnAuthority == [GatewayNext]_vars => [AuthorityNext]_authVars
BY DEF GatewayNext, ControlStep, GatewayRestart, CallReadsRun, CallReadsContext,
       CallEnds, ExecuteRefused, ExecuteTool, AuthorityNext, vars

(* With tool calls in flight, the authority tables behave as specified, so *)
(* every theorem about Spec is one about GatewaySpec.                      *)
THEOREM GatewayKeepsAuthority == GatewaySpec => Spec
<1>1. GatewayInit => Init
  BY DEF GatewayInit
<1> QED BY <1>1, GatewayStepOnAuthority, PTL DEF GatewaySpec, Spec

-----------------------------------------------------------------------------
(* A context with a row has an owner; a call past its first read names a   *)
(* Run that has a row.                                                     *)
OwnersNamed == \A c \in CtxIds : contexts[c].state # "NONE" => contexts[c].owner \in Owners

CallsNamed ==
    \A k \in CallIds : calls[k].phase # "idle" =>
        calls[k].run \in RunIds /\ runs[calls[k].run].state # "NONE"

GInv == IInv /\ OwnersNamed /\ GatewayTypeOK /\ CallsNamed

(* The empty tables and no calls satisfy it.                               *)
LEMMA GatewayInitInv == GatewayInit => GInv
<1> SUFFICES ASSUME GatewayInit PROVE GInv
  OBVIOUS
<1>1. IInv /\ TypeOK
  BY InitInv DEF GatewayInit, IInv
<1>2. OwnersNamed
  BY DEF GatewayInit, Init, NoContext, OwnersNamed
<1>3. calls \in [CallIds -> Call] /\ counters \in [CtxIds -> Nat]
  BY DEF GatewayInit, NoCall, Call, Phases
<1>4. refs \in Seq(Reference) /\ receipts \in Seq(Receipt)
  BY DEF GatewayInit
<1>5. CallsNamed
  BY DEF GatewayInit, NoCall, CallsNamed
<1> QED BY <1>1, <1>2, <1>3, <1>4, <1>5 DEF GInv, GatewayTypeOK

(* A handler of the sidecar keeps every row that exists and every owner.   *)
LEMMA AuthorityKeepsRows ==
    ASSUME IInv, OwnersNamed, [AuthorityNext]_authVars
    PROVE  /\ OwnersNamed'
           /\ \A r \in RunIds : runs[r].state # "NONE" => runs'[r].state # "NONE"
<1>1. CASE ~Prepare
  BY <1>1, StatesOnlyShape DEF IInv, TypeOK, Context, StatesOnly, OwnersNamed
<1>2. CASE Prepare
  <2>1. PICK r \in RunIds, a \in Agents, o \in Owners, cap \in Caps, c \in CtxIds,
             grant \in SUBSET Permissions,
             retryOf \in RunIds \cup {None}, predecessor \in RunIds \cup {None} :
          PrepareEffect(r, a, o, cap, c, grant, retryOf, predecessor)
    BY <1>2, PrepareShape DEF IInv
  <2>2. \A q \in RunIds : runs[q].state # "NONE" => runs'[q].state # "NONE"
    BY <2>1 DEF PrepareEffect, InsertRun, IInv, TypeOK, Run
  <2>3. contexts'[c].owner \in Owners
    BY <2>1 DEF PrepareEffect
  <2>4. ASSUME NEW d \in CtxIds \ {c}, contexts'[d].state # "NONE"
        PROVE  contexts'[d].owner \in Owners
    <3>1. contexts[d] \in Context
      BY DEF IInv, TypeOK
    <3>2. \/ contexts'[d] = contexts[d]
          \/ /\ contexts'[d] = [contexts[d] EXCEPT !.state = "CLOSED"]
             /\ contexts[d].state = "ACTIVE"
      BY <2>1 DEF PrepareEffect
    <3> QED BY <2>4, <3>1, <3>2 DEF Context, OwnersNamed
  <2> QED BY <2>2, <2>3, <2>4 DEF OwnersNamed
<1> QED BY <1>1, <1>2

-----------------------------------------------------------------------------
(* Decisions and what they record.                                         *)

(* Past the reference check, the input is a stored reference of the Run's  *)
(* context and of the kind the tool takes.                                 *)
LEMMA InputResolved ==
    ASSUME NEW r \in RunIds, NEW tool \in Tools, NEW i \in 0..Len(refs),
           NeedsInput(tool),
           Decide(r, tool, i) \in {"FLOW_DENIED", "OWNERSHIP_DENIED", "ALLOW"}
    PROVE  /\ i \in DOMAIN refs
           /\ refs[i].ctx = runs[r].ctx
           /\ refs[i].kind = InputKind(tool)
BY DEF Decide, Resolves

(* The causes a decision names are the receipts of its input and, when the *)
(* input is derived, of that input's parent.                               *)
LEMMA CausesTyped ==
    ASSUME GatewayTypeOK, NEW i \in DOMAIN refs, ~LineageBroken(i)
    PROVE  CausedBy(i) \in Seq(Nat)
<1>1. refs[i] \in Reference
  BY DEF GatewayTypeOK
<1>2. refs[i].parent # 0 => refs[refs[i].parent] \in Reference
  BY DEF GatewayTypeOK, LineageBroken
<1>3. refs[i].receipt \in Nat
  BY <1>1 DEF Reference
<1>4. refs[i].parent # 0 => refs[refs[i].parent].receipt \in Nat
  BY <1>2 DEF Reference
<1> QED BY <1>3, <1>4 DEF CausedBy

(* What a successful tool mints is a reference of the owner's.             *)
LEMMA NewReferenceTyped ==
    ASSUME GatewayTypeOK, OwnersNamed, NEW r \in RunIds, NEW tool \in Tools,
           NEW i \in 0..Len(refs), runs[r].ctx \in CtxIds, StillAuthorised(r),
           Decide(r, tool, i) = "ALLOW"
    PROVE  NewReference(r, tool, i) \in Reference
<1> DEFINE c == runs[r].ctx
<1>1. contexts[c].owner \in Owners /\ contexts[c].expiresAt \in Nat
  BY DEF GatewayTypeOK, TypeOK, Context, OwnersNamed, StillAuthorised
<1>2. Provenance(tool, i, contexts[c].owner).resource \in Resource
      /\ Provenance(tool, i, contexts[c].owner).labels \in SUBSET Labels
  <2>1. CASE tool = "cases.lookup_subject"
    <3>1. refs[i] \in Reference
      BY <2>1, InputResolved DEF GatewayTypeOK, NeedsInput
    <3> QED BY <2>1, <3>1 DEF Provenance, Reference
  <2>2. CASE tool # "cases.lookup_subject"
    BY <1>1, <2>2 DEF Provenance, Resource, Labels, AddedLabel
  <2> QED BY <2>1, <2>2
<1>3. Len(receipts) + 1 \in Nat
  BY DEF GatewayTypeOK
<1>4. OutputKind(tool) \in Kinds
  BY DEF OutputKind, Kinds
<1>5. i \in Nat
  OBVIOUS
<1> HIDE DEF c
<1> QED BY <1>1, <1>2, <1>3, <1>4, <1>5 DEF NewReference, Reference, c

(* A recorded decision keeps the three tables well typed.                  *)
LEMMA RecordTyped ==
    ASSUME GatewayTypeOK, OwnersNamed, NEW r \in RunIds, NEW tool \in Tools,
           NEW i \in 0..Len(refs), runs[r].ctx \in CtxIds, StillAuthorised(r),
           ~Fails(r, tool, i, Decide(r, tool, i)),
           Record(r, tool, i, Decide(r, tool, i))
    PROVE  /\ refs' \in Seq(Reference)
           /\ receipts' \in Seq(Receipt)
           /\ counters' \in [CtxIds -> Nat]
<1> DEFINE c == runs[r].ctx
           d == Decide(r, tool, i)
           before == CounterOf(c, tool)
           after == CounterAfter(tool, d, before)
           causes == IF NeedsInput(tool)
                        /\ d \in {"FLOW_DENIED", "OWNERSHIP_DENIED", "ALLOW"}
                     THEN CausedBy(i) ELSE <<>>
           e == [run |-> r, ctx |-> c, tool |-> tool, decision |-> d,
                 causedBy |-> causes, before |-> before, after |-> after]
<1>1. receipts' = Append(receipts, e)
  BY DEF Record
<1>2. before \in Nat /\ after \in Nat
  BY DEF GatewayTypeOK, CounterOf, CounterAfter
<1>3. causes \in Seq(Nat)
  <2>1. CASE NeedsInput(tool) /\ d \in {"FLOW_DENIED", "OWNERSHIP_DENIED", "ALLOW"}
    BY <2>1, InputResolved, CausesTyped DEF Fails
  <2>2. CASE ~(NeedsInput(tool) /\ d \in {"FLOW_DENIED", "OWNERSHIP_DENIED", "ALLOW"})
    BY <2>2
  <2> QED BY <2>1, <2>2
<1>4. d \in Decisions
  BY DEF Decide, Decisions
<1>5. refs' = IF d = "ALLOW" /\ Mints(tool)
              THEN Append(refs, NewReference(r, tool, i)) ELSE refs
  BY DEF Record
<1>6. counters' = IF tool = "crm.resolve_customer" THEN [counters EXCEPT ![c] = after]
                  ELSE counters
  BY DEF Record
<1>7. d = "ALLOW" => NewReference(r, tool, i) \in Reference
  BY NewReferenceTyped
<1> HIDE DEF c, d, before, after, causes
<1>8. e \in Receipt
  BY <1>2, <1>3, <1>4 DEF Receipt, c
<1> HIDE DEF e
<1> QED BY <1>1, <1>2, <1>5, <1>6, <1>7, <1>8 DEF GatewayTypeOK, c

-----------------------------------------------------------------------------
(* The invariant is inductive.                                             *)

(* Calls in flight keep naming a Run with a row: it is read from the table *)
(* and no handler removes it.                                              *)
LEMMA CallsStep ==
    ASSUME GInv, [GatewayNext]_vars
    PROVE  calls' \in [CallIds -> Call] /\ CallsNamed'
<1> USE DEF GInv
<1>1. \A r \in RunIds : runs[r].state # "NONE" => runs'[r].state # "NONE"
  BY GatewayStepOnAuthority, AuthorityKeepsRows
<1>2. calls \in [CallIds -> Call] /\ CallsNamed
  BY DEF GatewayTypeOK
<1>3. CASE ControlStep \/ UNCHANGED vars
  BY <1>1, <1>2, <1>3 DEF ControlStep, gatewayVars, vars, CallsNamed
<1>4. CASE GatewayRestart
  BY <1>4 DEF GatewayRestart, NoCall, Call, Phases, CallsNamed
<1>5. ASSUME NEW k \in CallIds, NEW f \in Call, calls' = [calls EXCEPT ![k] = f],
             f.phase # "idle" => f.run \in RunIds /\ runs[f.run].state # "NONE"
      PROVE  calls' \in [CallIds -> Call] /\ CallsNamed'
  BY <1>1, <1>2, <1>5 DEF CallsNamed
<1>6. NoCall \in Call /\ NoCall.phase = "idle"
  BY DEF NoCall, Call, Phases
<1>7. ASSUME NEW k \in CallIds, NEW cap \in Caps, CallReadsRun(k, cap)
      PROVE  calls' \in [CallIds -> Call] /\ CallsNamed'
  <2>1. PICK r \in RunIds : /\ runs[r].state = "ACTIVE"
                            /\ calls' = [calls EXCEPT ![k] = [phase |-> "run_read", run |-> r]]
    BY <1>7 DEF CallReadsRun
  <2>2. [phase |-> "run_read", run |-> r] \in Call
    BY DEF Call, Phases
  <2> QED BY <1>5, <2>1, <2>2
<1>8. ASSUME NEW k \in CallIds, CallReadsContext(k)
      PROVE  calls' \in [CallIds -> Call] /\ CallsNamed'
  <2>1. CASE contexts[runs[calls[k].run].ctx].state = "ACTIVE"
    <3> DEFINE f == [calls[k] EXCEPT !.phase = "authenticated"]
    <3>1. calls' = [calls EXCEPT ![k] = f] /\ calls[k].phase = "run_read"
      BY <1>8, <2>1 DEF CallReadsContext
    <3>2. f \in Call /\ f.run = calls[k].run
      BY <1>2 DEF Call, Phases
    <3>3. f.run \in RunIds /\ runs[f.run].state # "NONE"
      BY <1>2, <3>1, <3>2 DEF CallsNamed
    <3> HIDE DEF f
    <3> QED BY <1>5, <3>1, <3>2, <3>3
  <2>2. CASE contexts[runs[calls[k].run].ctx].state # "ACTIVE"
    <3>1. calls' = [calls EXCEPT ![k] = NoCall]
      BY <1>8, <2>2 DEF CallReadsContext
    <3> QED BY <1>5, <1>6, <3>1
  <2> QED BY <2>1, <2>2
<1>9. ASSUME NEW k \in CallIds, CallEnds(k) \/ ExecuteRefused(k)
      PROVE  calls' \in [CallIds -> Call] /\ CallsNamed'
  <2>1. calls' = [calls EXCEPT ![k] = NoCall]
    BY <1>9 DEF CallEnds, ExecuteRefused
  <2> QED BY <1>5, <1>6, <2>1
<1>10. ASSUME NEW k \in CallIds, NEW tool \in Tools, NEW i \in 0..Len(refs),
              ExecuteTool(k, tool, i)
       PROVE  calls' \in [CallIds -> Call] /\ CallsNamed'
  <2> DEFINE f == [calls[k] EXCEPT !.phase = "failed"]
  <2>1. calls[k].phase = "authenticated"
    BY <1>10 DEF ExecuteTool
  <2>2. calls' = [calls EXCEPT ![k] = f] \/ calls' = [calls EXCEPT ![k] = NoCall]
    BY <1>2, <1>10 DEF ExecuteTool
  <2>3. f \in Call /\ f.run = calls[k].run
    BY <1>2 DEF Call, Phases
  <2>4. f.run \in RunIds /\ runs[f.run].state # "NONE"
    BY <1>2, <2>1, <2>3 DEF CallsNamed
  <2> HIDE DEF f
  <2> QED BY <1>5, <1>6, <2>2, <2>3, <2>4
<1> QED BY <1>3, <1>4, <1>7, <1>8, <1>9, <1>10 DEF GatewayNext

(* Only ExecuteTool writes evidence, and only for an authenticated call    *)
(* whose Run is still authorised when it does.                             *)
LEMMA EvidenceStep ==
    ASSUME GInv, [GatewayNext]_vars
    PROVE  \/ UNCHANGED <<refs, receipts, counters>>
           \/ \E r \in RunIds, tool \in Tools, i \in 0..Len(refs) :
                 /\ runs[r].ctx \in CtxIds
                 /\ StillAuthorised(r)
                 /\ ~Fails(r, tool, i, Decide(r, tool, i))
                 /\ Record(r, tool, i, Decide(r, tool, i))
                 /\ UNCHANGED authVars
<1>1. CASE \/ ControlStep \/ GatewayRestart \/ UNCHANGED vars
           \/ \E k \in CallIds, cap \in Caps : CallReadsRun(k, cap)
           \/ \E k \in CallIds : CallReadsContext(k) \/ CallEnds(k) \/ ExecuteRefused(k)
  BY <1>1 DEF ControlStep, GatewayRestart, CallReadsRun, CallReadsContext, CallEnds,
              ExecuteRefused, gatewayVars, vars
<1>2. ASSUME NEW k \in CallIds, NEW tool \in Tools, NEW i \in 0..Len(refs),
             ExecuteTool(k, tool, i)
      PROVE  \/ UNCHANGED <<refs, receipts, counters>>
             \/ \E r \in RunIds :
                   /\ runs[r].ctx \in CtxIds
                   /\ StillAuthorised(r)
                   /\ ~Fails(r, tool, i, Decide(r, tool, i))
                   /\ Record(r, tool, i, Decide(r, tool, i))
                   /\ UNCHANGED authVars
  <2> DEFINE r == calls[k].run
  <2>1. r \in RunIds /\ runs[r].state # "NONE"
    BY <1>2 DEF ExecuteTool, GInv, CallsNamed
  <2>2. runs[r].ctx \in CtxIds
    BY <2>1 DEF GInv, IInv, TypeOK, Run, RunWithinMandate
  <2>3. StillAuthorised(r) /\ UNCHANGED authVars
    BY <1>2 DEF ExecuteTool
  <2>4. CASE Fails(r, tool, i, Decide(r, tool, i))
    BY <1>2, <2>4 DEF ExecuteTool
  <2>5. CASE ~Fails(r, tool, i, Decide(r, tool, i))
    <3>1. Record(r, tool, i, Decide(r, tool, i))
      BY <1>2, <2>5 DEF ExecuteTool
    <3> HIDE DEF r
    <3> QED BY <2>1, <2>2, <2>3, <2>5, <3>1
  <2> QED BY <2>4, <2>5
<1> QED BY <1>1, <1>2 DEF GatewayNext

(* Every step of the gateway preserves the invariant.                      *)
LEMMA GInvStep == GInv /\ [GatewayNext]_vars => GInv'
<1> SUFFICES ASSUME GInv, [GatewayNext]_vars PROVE GInv'
  OBVIOUS
<1>1. IInv' /\ OwnersNamed'
  BY GatewayStepOnAuthority, IInvStep, AuthorityKeepsRows DEF GInv
<1>2. calls' \in [CallIds -> Call] /\ CallsNamed'
  BY CallsStep
<1>3. refs' \in Seq(Reference) /\ receipts' \in Seq(Receipt) /\ counters' \in [CtxIds -> Nat]
  BY EvidenceStep, RecordTyped DEF GInv, GatewayTypeOK
<1> QED BY <1>1, <1>2, <1>3 DEF GInv, GatewayTypeOK, IInv

(* It holds in every reachable state of the gateway.                       *)
THEOREM GatewayInvariant == GatewaySpec => []GInv
BY GatewayInitInv, GInvStep, PTL DEF GatewaySpec

(* Calls, references, receipts and counters stay well typed.               *)
THEOREM GatewayTypeCorrect == GatewaySpec => []GatewayTypeOK
<1>1. GInv => GatewayTypeOK
  BY DEF GInv
<1> QED BY <1>1, GatewayInvariant, PTL

-----------------------------------------------------------------------------
(* Withdrawal.                                                             *)

(* The receipt a step adds, if any, is that of the Run it has found        *)
(* authorised in the same transaction.                                     *)
LEMMA WithdrawnStepHolds == GInv /\ [GatewayNext]_vars => WithdrawnStep
<1> SUFFICES ASSUME GInv, [GatewayNext]_vars,
                    NEW n \in DOMAIN receipts' \ DOMAIN receipts
             PROVE  StillAuthorised(receipts'[n].run)
  BY DEF WithdrawnStep, StillAuthorised, Unexpired
<1>1. PICK r \in RunIds, tool \in Tools, i \in 0..Len(refs) :
        StillAuthorised(r) /\ Record(r, tool, i, Decide(r, tool, i))
  BY EvidenceStep
<1>2. PICK e : receipts' = Append(receipts, e) /\ e.run = r
  BY <1>1 DEF Record
<1>3. receipts \in Seq(Receipt)
  BY DEF GInv, GatewayTypeOK
<1>4. n = Len(receipts) + 1 /\ receipts'[n] = e
  BY <1>2, <1>3
<1> QED BY <1>1, <1>2, <1>4

(* A revocation, finish, expiry or restart takes effect at once: no later  *)
(* step records evidence for the Run, however many calls are in flight.    *)
THEOREM AuthorityIsWithdrawnAtOnce == GatewaySpec => NoEvidenceWithoutAuthority
<1>1. GInv /\ [GatewayNext]_vars => [WithdrawnStep]_vars
  BY WithdrawnStepHolds
<1> QED BY <1>1, GatewayInvariant, PTL DEF GatewaySpec, NoEvidenceWithoutAuthority

-----------------------------------------------------------------------------
(* Provenance.  The labels of a subject tell which tool listed it, and the *)
(* row a reference or a receipt belongs to exists.                         *)
Provenanced ==
    \A i \in DOMAIN refs :
        LET ref == refs[i]
            tool == receipts[ref.receipt].tool
        IN
        /\ contexts[ref.ctx].state # "NONE"
        /\ ref.parent = 0 =>
              /\ tool \in {"support.list_tickets", "payments.list_failures"}
              /\ ref.resource.tool = tool
              /\ ref.labels = {AddedLabel(tool)}
        /\ ref.parent # 0 => tool = "cases.lookup_subject"

ReceiptsNamed == \A n \in DOMAIN receipts : runs[receipts[n].run].state # "NONE"

PInv ==
    /\ GInv
    /\ LineageWithinContext
    /\ Provenanced
    /\ ReceiptsNamed
    /\ NoPaymentReidentification
    /\ EvidenceWithinMandate
    /\ NoCallFails

(* Without references and receipts there is nothing to get wrong.          *)
LEMMA ProvenanceInit == GatewayInit => PInv
BY GatewayInitInv DEF GatewayInit, PInv, LineageWithinContext, Provenanced, ReceiptsNamed,
    NoPaymentReidentification, EvidenceWithinMandate, NoCallFails, NoCall

(* The causes of a decision are evidence of the context of its input, and  *)
(* a payment listing among them shows in the input's labels.               *)
LEMMA CausesWithin ==
    ASSUME PInv, NEW i \in DOMAIN refs
    PROVE  /\ ~LineageBroken(i)
           /\ \A j \in DOMAIN CausedBy(i) :
                /\ CausedBy(i)[j] \in DOMAIN receipts
                /\ receipts[CausedBy(i)[j]].ctx = refs[i].ctx
                /\ receipts[CausedBy(i)[j]].tool = "payments.list_failures" =>
                      "PAYMENT_AGGREGATE_ONLY" \in refs[i].labels
<1> DEFINE p == refs[i].parent
<1>1. refs[i].receipt \in DOMAIN receipts /\ receipts[refs[i].receipt].ctx = refs[i].ctx
  BY DEF PInv, LineageWithinContext
<1>2. CASE p = 0
  <2>1. CausedBy(i) = <<refs[i].receipt>>
    BY <1>2 DEF CausedBy
  <2>2. receipts[refs[i].receipt].tool = "payments.list_failures" =>
            "PAYMENT_AGGREGATE_ONLY" \in refs[i].labels
    BY <1>2 DEF PInv, Provenanced, AddedLabel
  <2> QED BY <1>1, <1>2, <2>1, <2>2 DEF LineageBroken
<1>3. CASE p # 0
  <2>0. refs \in Seq(Reference) /\ refs[i] \in Reference
    BY DEF PInv, GInv, GatewayTypeOK
  <2>1. p \in Nat
    BY <2>0 DEF Reference
  <2>2. p < i /\ refs[p].ctx = refs[i].ctx /\ refs[p].parent = 0
        /\ refs[p].labels = refs[i].labels
    BY <1>3 DEF PInv, LineageWithinContext
  <2>3. p \in DOMAIN refs
    BY <1>3, <2>0, <2>1, <2>2
  <2>4. refs[p].receipt \in DOMAIN receipts /\ receipts[refs[p].receipt].ctx = refs[p].ctx
    BY <2>3 DEF PInv, LineageWithinContext
  <2>5. CausedBy(i) = <<refs[p].receipt, refs[i].receipt>>
    BY <1>3 DEF CausedBy
  <2>6. receipts[refs[p].receipt].tool = "payments.list_failures" =>
            "PAYMENT_AGGREGATE_ONLY" \in refs[p].labels
    BY <2>2, <2>3 DEF PInv, Provenanced, AddedLabel
  <2>7. receipts[refs[i].receipt].tool = "cases.lookup_subject"
    BY <1>3 DEF PInv, Provenanced
  <2> HIDE DEF p
  <2>8. ~LineageBroken(i)
    BY <2>2, <2>3 DEF LineageBroken, p
  <2>9. ASSUME NEW j \in DOMAIN CausedBy(i)
        PROVE  CausedBy(i)[j] = refs[p].receipt \/ CausedBy(i)[j] = refs[i].receipt
    BY <2>5
  <2> QED BY <1>1, <2>2, <2>4, <2>6, <2>7, <2>8, <2>9
<1> QED BY <1>2, <1>3

(* The ownership check never fires, and no decision ends in an error: what *)
(* CRM is allowed to resolve goes back to a Support fixture of the owner.  *)
LEMMA DecisionSound ==
    ASSUME PInv, NEW r \in RunIds, NEW tool \in Tools, NEW i \in 0..Len(refs)
    PROVE  /\ Decide(r, tool, i) # "OWNERSHIP_DENIED"
           /\ ~Fails(r, tool, i, Decide(r, tool, i))
           /\ (Decide(r, tool, i) = "SCOPE_DENIED") = (tool \notin runs[r].grant)
<1> DEFINE c == runs[r].ctx
           d == Decide(r, tool, i)
<1>1. ASSUME NeedsInput(tool), i \in DOMAIN refs, refs[i].ctx = c
      PROVE  Owned(tool, i, contexts[c].owner)
  BY <1>1 DEF PInv, LineageWithinContext, Owned
<1>2. d # "OWNERSHIP_DENIED"
  BY <1>1 DEF Decide, Resolves, Owned
<1>3. ASSUME d = "ALLOW", tool = "crm.resolve_customer"
      PROVE  refs[i].resource = [tool |-> "support.list_tickets", owner |-> contexts[c].owner]
  <2>1. /\ i \in DOMAIN refs /\ refs[i].ctx = c /\ refs[i].kind = "operations-case"
        /\ "PAYMENT_AGGREGATE_ONLY" \notin refs[i].labels
    BY <1>3 DEF Decide, Resolves, NeedsInput, InputKind, FlowDenied
  <2> DEFINE p == refs[i].parent
  <2>2. refs \in Seq(Reference) /\ refs[i] \in Reference
    BY <2>1 DEF PInv, GInv, GatewayTypeOK
  <2>3. /\ p # 0 /\ p < i /\ refs[p].parent = 0 /\ refs[p].labels = refs[i].labels
        /\ refs[p].resource = refs[i].resource
        /\ refs[i].resource.owner = contexts[c].owner
    BY <2>1 DEF PInv, LineageWithinContext
  <2>4. p \in DOMAIN refs
    BY <2>1, <2>2, <2>3 DEF Reference
  <2>5. refs[p].resource.tool = "support.list_tickets"
    BY <2>1, <2>3, <2>4 DEF PInv, Provenanced, AddedLabel
  <2>6. refs[i].resource \in Resource
    BY <2>2 DEF Reference
  <2> HIDE DEF p
  <2> QED BY <2>3, <2>5, <2>6 DEF Resource
<1>4. ~Fails(r, tool, i, d)
  <2>1. SUFFICES ASSUME Fails(r, tool, i, d) PROVE FALSE
    OBVIOUS
  <2>2. i \in DOMAIN refs
    BY <2>1, InputResolved DEF Fails
  <2>3. ~LineageBroken(i)
    BY <2>2, CausesWithin
  <2> QED BY <1>3, <2>1, <2>3 DEF Fails
<1>5. (d = "SCOPE_DENIED") = (tool \notin runs[r].grant)
  BY DEF Decide
<1> QED BY <1>2, <1>4, <1>5

(* No handler of the sidecar changes the owner of a context that exists,   *)
(* or the context and the grant of a Run that exists.                      *)
ColumnsKept ==
    /\ \A c \in CtxIds : contexts[c].state # "NONE" =>
          contexts'[c].state # "NONE" /\ contexts'[c].owner = contexts[c].owner
    /\ \A r \in RunIds : runs[r].state # "NONE" =>
          /\ runs'[r].state # "NONE"
          /\ runs'[r].ctx = runs[r].ctx /\ runs'[r].grant = runs[r].grant

(* This is so for each shape of step.                                      *)
LEMMA AuthorityKeepsColumns ==
    ASSUME IInv, [AuthorityNext]_authVars
    PROVE  ColumnsKept
<1>1. CASE ~Prepare
  <2>1. StatesOnly
    BY <1>1, StatesOnlyShape DEF IInv
  <2>2. ASSUME NEW c \in CtxIds, contexts[c].state # "NONE"
        PROVE  contexts'[c].state # "NONE" /\ contexts'[c].owner = contexts[c].owner
    BY <2>1, <2>2 DEF IInv, TypeOK, Context, StatesOnly
  <2>3. ASSUME NEW r \in RunIds, runs[r].state # "NONE"
        PROVE  /\ runs'[r].state # "NONE"
               /\ runs'[r].ctx = runs[r].ctx /\ runs'[r].grant = runs[r].grant
    BY <2>1, <2>3 DEF IInv, TypeOK, Run, StatesOnly
  <2> QED BY <2>2, <2>3 DEF ColumnsKept
<1>2. CASE Prepare
  <2>1. PICK r \in RunIds, a \in Agents, o \in Owners, cap \in Caps, c \in CtxIds,
             grant \in SUBSET Permissions,
             retryOf \in RunIds \cup {None}, predecessor \in RunIds \cup {None} :
          PrepareEffect(r, a, o, cap, c, grant, retryOf, predecessor)
    BY <1>2, PrepareShape DEF IInv
  <2>2. ASSUME NEW q \in RunIds, runs[q].state # "NONE" PROVE runs'[q] = runs[q]
    BY <2>1, <2>2 DEF PrepareEffect, InsertRun, Admits, IInv, TypeOK
  <2>3. ASSUME NEW d \in CtxIds, contexts[d].state # "NONE"
        PROVE  contexts'[d].state # "NONE" /\ contexts'[d].owner = contexts[d].owner
    <3>1. contexts[d] \in Context
      BY DEF IInv, TypeOK
    <3>2. \/ contexts'[d] = contexts[d]
          \/ contexts'[d] = [contexts[d] EXCEPT !.state = "CLOSED"]
      BY <2>1, <2>3 DEF PrepareEffect
    <3> QED BY <2>3, <3>1, <3>2 DEF Context
  <2> QED BY <2>2, <2>3 DEF ColumnsKept
<1> QED BY <1>1, <1>2

(* The parts of the invariant about evidence.                              *)
EvidenceParts ==
    /\ LineageWithinContext
    /\ Provenanced
    /\ ReceiptsNamed
    /\ NoPaymentReidentification
    /\ EvidenceWithinMandate

(* They survive every step that leaves references and receipts alone.      *)
LEMMA EvidenceKept ==
    ASSUME PInv, ColumnsKept, UNCHANGED <<refs, receipts>>
    PROVE  EvidenceParts'
<1>1. ASSUME NEW i \in DOMAIN refs PROVE refs[i].ctx \in CtxIds
  <2>1. refs[i] \in Reference
    BY DEF PInv, GInv, GatewayTypeOK
  <2> QED BY <2>1 DEF Reference
<1>2. ASSUME NEW n \in DOMAIN receipts PROVE receipts[n].run \in RunIds
  <2>1. receipts[n] \in Receipt
    BY DEF PInv, GInv, GatewayTypeOK
  <2> QED BY <2>1 DEF Receipt
<1>3. LineageWithinContext'
  BY <1>1 DEF PInv, ColumnsKept, LineageWithinContext, Provenanced
<1>4. Provenanced'
  BY <1>1 DEF PInv, ColumnsKept, Provenanced
<1>5. ReceiptsNamed'
  BY <1>2 DEF PInv, ColumnsKept, ReceiptsNamed
<1>6. NoPaymentReidentification'
  BY DEF PInv, NoPaymentReidentification
<1>7. EvidenceWithinMandate'
  BY <1>2 DEF PInv, ColumnsKept, ReceiptsNamed, EvidenceWithinMandate
<1> QED BY <1>3, <1>4, <1>5, <1>6, <1>7 DEF EvidenceParts

(* And a recorded decision extends them: the new receipt agrees with its   *)
(* grant and its causes, the new reference with its receipt and parent.    *)
LEMMA EvidenceRecorded ==
    ASSUME PInv, NEW r \in RunIds, NEW tool \in Tools, NEW i \in 0..Len(refs),
           runs[r].ctx \in CtxIds, StillAuthorised(r),
           Record(r, tool, i, Decide(r, tool, i)), UNCHANGED authVars
    PROVE  EvidenceParts'
<1> DEFINE c == runs[r].ctx
           d == Decide(r, tool, i)
           N == Len(receipts) + 1
           M == Len(refs) + 1
           e == receipts'[N]
           Past == NeedsInput(tool) /\ d \in {"FLOW_DENIED", "OWNERSHIP_DENIED", "ALLOW"}
<1>1. refs \in Seq(Reference) /\ receipts \in Seq(Receipt)
  BY DEF PInv, GInv, GatewayTypeOK
<1>2. /\ DOMAIN receipts' = DOMAIN receipts \cup {N}
      /\ \A n \in DOMAIN receipts : receipts'[n] = receipts[n]
      /\ N \notin DOMAIN receipts /\ \A n \in DOMAIN receipts : n < N
  BY <1>1 DEF Record
<1>3. /\ e.run = r /\ e.ctx = c /\ e.tool = tool /\ e.decision = d
      /\ e.causedBy = IF Past THEN CausedBy(i) ELSE <<>>
  BY <1>1 DEF Record
<1>4. \/ refs' = refs
      \/ d = "ALLOW" /\ Mints(tool) /\ refs' = Append(refs, NewReference(r, tool, i))
  BY DEF Record
<1>5. Past => /\ i \in DOMAIN refs /\ refs[i].ctx = c /\ refs[i].kind = InputKind(tool)
  BY InputResolved
<1>6. UNCHANGED <<contexts, runs>>
  BY DEF authVars
<1>7. contexts[c].state # "NONE" /\ runs[r].state # "NONE"
  BY DEF StillAuthorised
<1> HIDE DEF c, d, N, M, e, Past
<1>8. ReceiptsNamed'
  BY <1>2, <1>3, <1>6, <1>7 DEF PInv, ReceiptsNamed, e
<1>9. Past => \A j \in DOMAIN e.causedBy :
                /\ e.causedBy[j] \in DOMAIN receipts
                /\ receipts[e.causedBy[j]].ctx = c
                /\ receipts[e.causedBy[j]].tool = "payments.list_failures" =>
                      "PAYMENT_AGGREGATE_ONLY" \in refs[i].labels
  BY <1>3, <1>5, CausesWithin
<1>10. ~Past => DOMAIN e.causedBy = {}
  BY <1>3
<1>11. NoPaymentReidentification'
  <2>1. ASSUME tool = "crm.resolve_customer", NEW j \in DOMAIN e.causedBy,
               receipts[e.causedBy[j]].tool = "payments.list_failures"
        PROVE  d = "FLOW_DENIED"
    <3>1. Past /\ "PAYMENT_AGGREGATE_ONLY" \in refs[i].labels
      BY <1>9, <1>10, <2>1
    <3>2. FlowDenied(tool, refs[i].labels)
      BY <2>1, <3>1 DEF FlowDenied
    <3> QED BY <3>1, <3>2 DEF Past, d, Decide
  <2>2. ASSUME NEW n \in DOMAIN receipts, receipts[n].tool = "crm.resolve_customer",
               NEW j \in DOMAIN receipts[n].causedBy,
               receipts'[receipts[n].causedBy[j]].tool = "payments.list_failures"
        PROVE  receipts[n].decision = "FLOW_DENIED"
    <3>1. receipts[n].causedBy[j] \in 1..(n - 1)
      BY DEF PInv, EvidenceWithinMandate
    <3>2. receipts[n].causedBy[j] \in DOMAIN receipts
      BY <1>1, <3>1
    <3> QED BY <1>2, <2>2, <3>2 DEF PInv, NoPaymentReidentification
  <2> QED BY <1>2, <1>3, <1>9, <1>10, <2>1, <2>2 DEF NoPaymentReidentification, e
<1>12. EvidenceWithinMandate'
  <2>1. ASSUME NEW n \in DOMAIN receipts, NEW j \in DOMAIN receipts[n].causedBy
        PROVE  /\ receipts[n].causedBy[j] \in 1..(n - 1)
               /\ receipts'[receipts[n].causedBy[j]].ctx = receipts[n].ctx
    <3>1. /\ receipts[n].causedBy[j] \in 1..(n - 1)
          /\ receipts[receipts[n].causedBy[j]].ctx = receipts[n].ctx
      BY DEF PInv, EvidenceWithinMandate
    <3>2. receipts[n].causedBy[j] \in DOMAIN receipts
      BY <1>1, <3>1
    <3> QED BY <1>2, <3>1, <3>2
  <2>2. ASSUME NEW j \in DOMAIN e.causedBy
        PROVE  e.causedBy[j] \in 1..(N - 1) /\ receipts'[e.causedBy[j]].ctx = c
    <3>1. e.causedBy[j] \in DOMAIN receipts /\ receipts[e.causedBy[j]].ctx = c
      BY <1>9, <1>10
    <3>2. DOMAIN receipts = 1..(N - 1)
      BY <1>1 DEF N
    <3> QED BY <1>2, <3>1, <3>2
  <2>3. /\ e.decision # "OWNERSHIP_DENIED"
        /\ (e.decision = "SCOPE_DENIED") = (e.tool \notin runs[e.run].grant)
    BY <1>3, DecisionSound DEF d
  <2>4. ASSUME NEW n \in DOMAIN receipts
        PROVE  /\ receipts[n].ctx = runs[receipts[n].run].ctx
               /\ (receipts[n].decision = "SCOPE_DENIED") =
                     (receipts[n].tool \notin runs[receipts[n].run].grant)
               /\ receipts[n].decision # "OWNERSHIP_DENIED"
    BY DEF PInv, EvidenceWithinMandate
  <2>5. e.ctx = runs[e.run].ctx
    BY <1>3 DEF c
  <2>6. ASSUME NEW n \in DOMAIN receipts'
        PROVE  /\ receipts'[n].ctx = runs[receipts'[n].run].ctx
               /\ (receipts'[n].decision = "SCOPE_DENIED") =
                     (receipts'[n].tool \notin runs[receipts'[n].run].grant)
               /\ receipts'[n].decision # "OWNERSHIP_DENIED"
               /\ \A j \in DOMAIN receipts'[n].causedBy :
                     /\ receipts'[n].causedBy[j] \in 1..(n - 1)
                     /\ receipts'[receipts'[n].causedBy[j]].ctx = receipts'[n].ctx
    <3>1. CASE n \in DOMAIN receipts
      BY <1>2, <2>1, <2>4, <3>1
    <3>2. CASE n = N
      BY <1>3, <2>2, <2>3, <2>5, <3>2 DEF e
    <3> QED BY <1>2, <3>1, <3>2
  <2> QED BY <1>6, <2>6 DEF EvidenceWithinMandate
<1>13. ASSUME NEW q \in DOMAIN refs
       PROVE  refs[q].receipt \in DOMAIN receipts /\ receipts'[refs[q].receipt] = receipts[refs[q].receipt]
  BY <1>2 DEF PInv, LineageWithinContext
<1>14. CASE refs' = refs
  <2>1. LineageWithinContext'
    BY <1>2, <1>6, <1>13, <1>14 DEF PInv, LineageWithinContext
  <2>2. Provenanced'
    BY <1>6, <1>13, <1>14 DEF PInv, Provenanced
  <2> QED BY <1>8, <1>11, <1>12, <2>1, <2>2 DEF EvidenceParts
<1>15. CASE d = "ALLOW" /\ Mints(tool) /\ refs' = Append(refs, NewReference(r, tool, i))
  <2> DEFINE new == refs'[M]
             pr == Provenance(tool, i, contexts[c].owner)
  <2>1. /\ DOMAIN refs' = DOMAIN refs \cup {M}
        /\ \A q \in DOMAIN refs : refs'[q] = refs[q]
        /\ M \notin DOMAIN refs /\ \A q \in DOMAIN refs : q < M
        /\ new = NewReference(r, tool, i)
    BY <1>1, <1>15 DEF M
  <2>2. /\ new.ctx = c /\ new.owner = contexts[c].owner /\ new.kind = OutputKind(tool)
        /\ new.resource = pr.resource /\ new.labels = pr.labels
        /\ new.parent = (IF NeedsInput(tool) THEN i ELSE 0) /\ new.receipt = N
    BY <2>1 DEF NewReference, c, N
  <2>3. e.decision = "ALLOW" /\ e.ctx = c /\ e.tool = tool
    BY <1>3, <1>15
  <2> HIDE DEF new, pr
  <2>4. ASSUME tool = "cases.lookup_subject"
        PROVE  /\ i \in DOMAIN refs /\ refs[i].ctx = c /\ refs[i].parent = 0
               /\ refs[i].owner = contexts[c].owner /\ refs[i].resource.owner = refs[i].owner
               /\ i # 0 /\ i < M
               /\ new.parent = i /\ new.kind = "operations-case"
               /\ new.resource = refs[i].resource /\ new.labels = refs[i].labels
    <3>1. /\ i \in DOMAIN refs /\ refs[i].ctx = c /\ refs[i].kind = "customer-subject"
          /\ NeedsInput(tool) /\ OutputKind(tool) = "operations-case"
      BY <1>5, <1>15, <2>4 DEF Past, NeedsInput, InputKind, OutputKind
    <3>2. refs[i].parent = 0 /\ refs[i].owner = contexts[c].owner
          /\ refs[i].resource.owner = refs[i].owner
      BY <3>1 DEF PInv, LineageWithinContext
    <3>3. pr.resource = refs[i].resource /\ pr.labels = refs[i].labels
      BY <2>4 DEF Provenance, pr
    <3> QED BY <1>1, <2>1, <2>2, <3>1, <3>2, <3>3
  <2>5. ASSUME tool # "cases.lookup_subject"
        PROVE  /\ tool \in {"support.list_tickets", "payments.list_failures"}
               /\ new.parent = 0 /\ new.kind = "customer-subject"
               /\ new.resource = [tool |-> tool, owner |-> contexts[c].owner]
               /\ new.labels = {AddedLabel(tool)}
    <3>1. tool \in {"support.list_tickets", "payments.list_failures"}
      BY <1>15, <2>5 DEF Mints
    <3>2. ~NeedsInput(tool) /\ OutputKind(tool) = "customer-subject"
      BY <3>1 DEF NeedsInput, OutputKind
    <3> QED BY <2>2, <2>5, <3>1, <3>2 DEF Provenance, pr
  <2>6. ASSUME NEW q \in DOMAIN refs, refs[q].parent # 0
        PROVE  refs[q].parent \in DOMAIN refs
    <3>1. refs[q].parent < q
      BY <2>6 DEF PInv, LineageWithinContext
    <3>2. refs[q] \in Reference
      BY <1>1
    <3>3. refs[q].parent \in Nat
      BY <3>2 DEF Reference
    <3> QED BY <1>1, <2>6, <3>1, <3>3
  <2>7. LineageWithinContext'
    <3>1. ASSUME NEW q \in DOMAIN refs
          PROVE  /\ refs[q].owner = contexts[refs[q].ctx].owner
                 /\ refs[q].resource.owner = refs[q].owner
                 /\ receipts[refs[q].receipt].ctx = refs[q].ctx
                 /\ receipts[refs[q].receipt].decision = "ALLOW"
                 /\ (refs[q].parent = 0) = (refs[q].kind = "customer-subject")
                 /\ refs[q].parent # 0 =>
                       /\ refs[q].parent < q
                       /\ refs[refs[q].parent].ctx = refs[q].ctx
                       /\ refs[refs[q].parent].parent = 0
                       /\ refs[refs[q].parent].labels = refs[q].labels
                       /\ refs[refs[q].parent].resource = refs[q].resource
      BY DEF PInv, LineageWithinContext
    <3>2. /\ new.owner = contexts[new.ctx].owner
          /\ new.resource.owner = new.owner
          /\ (new.parent = 0) = (new.kind = "customer-subject")
          /\ new.parent # 0 =>
                /\ new.parent \in DOMAIN refs /\ new.parent < M
                /\ refs[new.parent].ctx = new.ctx
                /\ refs[new.parent].parent = 0
                /\ refs[new.parent].labels = new.labels
                /\ refs[new.parent].resource = new.resource
      BY <2>2, <2>4, <2>5
    <3>3. new.receipt \in DOMAIN receipts' /\ receipts'[new.receipt].ctx = new.ctx
          /\ receipts'[new.receipt].decision = "ALLOW"
      BY <1>2, <2>2, <2>3 DEF e
    <3>4. ASSUME NEW q \in DOMAIN refs'
          PROVE  /\ refs'[q].owner = contexts[refs'[q].ctx].owner
                 /\ refs'[q].resource.owner = refs'[q].owner
                 /\ refs'[q].receipt \in DOMAIN receipts'
                 /\ receipts'[refs'[q].receipt].ctx = refs'[q].ctx
                 /\ receipts'[refs'[q].receipt].decision = "ALLOW"
                 /\ (refs'[q].parent = 0) = (refs'[q].kind = "customer-subject")
                 /\ refs'[q].parent # 0 =>
                       /\ refs'[q].parent < q
                       /\ refs'[refs'[q].parent].ctx = refs'[q].ctx
                       /\ refs'[refs'[q].parent].parent = 0
                       /\ refs'[refs'[q].parent].labels = refs'[q].labels
                       /\ refs'[refs'[q].parent].resource = refs'[q].resource
      <4>1. CASE q \in DOMAIN refs
        BY <1>2, <1>13, <2>1, <2>6, <3>1, <4>1
      <4>2. CASE q = M
        BY <2>1, <3>2, <3>3, <4>2 DEF new
      <4> QED BY <2>1, <4>1, <4>2
    <3> QED BY <1>6, <3>4 DEF LineageWithinContext
  <2>8. Provenanced'
    <3>1. ASSUME NEW q \in DOMAIN refs
          PROVE  /\ contexts[refs'[q].ctx].state # "NONE"
                 /\ refs'[q].parent = 0 =>
                       /\ receipts'[refs'[q].receipt].tool \in
                             {"support.list_tickets", "payments.list_failures"}
                       /\ refs'[q].resource.tool = receipts'[refs'[q].receipt].tool
                       /\ refs'[q].labels = {AddedLabel(receipts'[refs'[q].receipt].tool)}
                 /\ refs'[q].parent # 0 =>
                       receipts'[refs'[q].receipt].tool = "cases.lookup_subject"
      BY <1>13, <2>1 DEF PInv, Provenanced
    <3>2. receipts'[new.receipt].tool = tool
      BY <2>2, <2>3 DEF e
    <3>3. /\ contexts[new.ctx].state # "NONE"
          /\ new.parent = 0 =>
                /\ tool \in {"support.list_tickets", "payments.list_failures"}
                /\ new.resource.tool = tool
                /\ new.labels = {AddedLabel(tool)}
          /\ new.parent # 0 => tool = "cases.lookup_subject"
      BY <1>7, <2>2, <2>4, <2>5
    <3> QED BY <1>6, <2>1, <3>1, <3>2, <3>3 DEF Provenanced, new
  <2> QED BY <1>8, <1>11, <1>12, <2>7, <2>8 DEF EvidenceParts
<1> QED BY <1>4, <1>14, <1>15

(* No call in flight ever fails: the one step that could, finds Fails.     *)
LEMMA NoCallFailsStep ==
    ASSUME PInv, [GatewayNext]_vars
    PROVE  NoCallFails'
<1> USE DEF NoCallFails
<1>1. NoCallFails /\ calls \in [CallIds -> Call]
  BY DEF PInv, GInv, GatewayTypeOK
<1>2. CASE \/ ControlStep \/ UNCHANGED vars \/ GatewayRestart
           \/ \E k \in CallIds, cap \in Caps : CallReadsRun(k, cap)
           \/ \E k \in CallIds : CallReadsContext(k) \/ CallEnds(k) \/ ExecuteRefused(k)
  BY <1>1, <1>2 DEF ControlStep, GatewayRestart, CallReadsRun, CallReadsContext, CallEnds,
                    ExecuteRefused, gatewayVars, vars, NoCall, Call
<1>3. ASSUME NEW k \in CallIds, NEW tool \in Tools, NEW i \in 0..Len(refs),
             ExecuteTool(k, tool, i)
      PROVE  NoCallFails'
  <2>1. calls[k].run \in RunIds
    BY <1>3 DEF ExecuteTool, PInv, GInv, CallsNamed
  <2>2. ~Fails(calls[k].run, tool, i, Decide(calls[k].run, tool, i))
    BY <2>1, DecisionSound
  <2>3. calls' = [calls EXCEPT ![k] = NoCall]
    BY <1>3, <2>2 DEF ExecuteTool
  <2> QED BY <1>1, <2>3 DEF NoCall
<1> QED BY <1>2, <1>3 DEF GatewayNext

(* Every step of the gateway preserves the invariant about provenance.     *)
LEMMA ProvenanceStep == PInv /\ [GatewayNext]_vars => PInv'
<1> SUFFICES ASSUME PInv, [GatewayNext]_vars PROVE PInv'
  OBVIOUS
<1>1. GInv' /\ NoCallFails'
  BY GInvStep, NoCallFailsStep DEF PInv
<1>2. ColumnsKept
  BY GatewayStepOnAuthority, AuthorityKeepsColumns DEF PInv, GInv
<1>3. EvidenceParts'
  BY <1>2, EvidenceStep, EvidenceKept, EvidenceRecorded DEF PInv
<1> QED BY <1>1, <1>3 DEF PInv, EvidenceParts

(* It holds in every reachable state.                                      *)
THEOREM ProvenanceInvariant == GatewaySpec => []PInv
BY ProvenanceInit, ProvenanceStep, PTL DEF GatewaySpec

(* References stay in the context, with the owner, and under the labels    *)
(* they were minted with, through any number of derivations.               *)
THEOREM LineageStaysWithinContext == GatewaySpec => []LineageWithinContext
<1>1. PInv => LineageWithinContext
  BY DEF PInv
<1> QED BY <1>1, ProvenanceInvariant, PTL

(* A CRM decision with a payment listing among its causes is a denial, in  *)
(* whatever Run, follow-up or retry it is taken.                           *)
THEOREM PaymentsAreNotReidentified == GatewaySpec => []NoPaymentReidentification
<1>1. PInv => NoPaymentReidentification
  BY DEF PInv
<1> QED BY <1>1, ProvenanceInvariant, PTL

(* Evidence agrees with the grant and the context of its Run, and the      *)
(* ownership denial is never reached.                                      *)
THEOREM EvidenceStaysWithinMandate == GatewaySpec => []EvidenceWithinMandate
<1>1. PInv => EvidenceWithinMandate
  BY DEF PInv
<1> QED BY <1>1, ProvenanceInvariant, PTL

(* The internal-error branches of ExecuteTool are unreachable.             *)
THEOREM CallsNeverFail == GatewaySpec => []NoCallFails
<1>1. PInv => NoCallFails
  BY DEF PInv
<1> QED BY <1>1, ProvenanceInvariant, PTL

-----------------------------------------------------------------------------
(* The CRM counter.                                                        *)

(* The successes up to a receipt are finitely many.                        *)
LEMMA SuccessesFinite ==
    ASSUME NEW c, NEW n \in Nat
    PROVE  IsFiniteSet(CrmSuccessesUpTo(c, n))
<1>1. IsFiniteSet(1..n)
  BY FS_Interval
<1> QED BY <1>1, FS_Subset DEF CrmSuccessesUpTo

(* A recorded decision is counted exactly if it is a CRM success.          *)
LEMMA CounterRecorded ==
    ASSUME GatewayTypeOK, CounterMatchesReceipts,
           NEW r \in RunIds, NEW tool \in Tools, NEW i \in 0..Len(refs),
           runs[r].ctx \in CtxIds, Record(r, tool, i, Decide(r, tool, i))
    PROVE  CounterMatchesReceipts'
<1> DEFINE d == Decide(r, tool, i)
           Counted == tool = "crm.resolve_customer" /\ d = "ALLOW"
           count(x, n) == Cardinality(CrmSuccessesUpTo(x, n))
<1>0. PICK N \in Nat : N = Len(receipts) + 1
  BY DEF GatewayTypeOK
<1>1. PICK c \in CtxIds : c = runs[r].ctx
  OBVIOUS
<1> DEFINE e == receipts'[N]
<1>2. receipts \in Seq(Receipt) /\ Len(receipts) \in Nat
      /\ counters \in [CtxIds -> Nat]
  BY DEF GatewayTypeOK
<1>3. /\ DOMAIN receipts' = 1..N /\ DOMAIN receipts = 1..(N - 1) /\ Len(receipts') = N
      /\ \A n \in 1..(N - 1) : receipts'[n] = receipts[n]
  BY <1>0, <1>2 DEF Record
<1>4. /\ e.ctx = c /\ e.tool = tool /\ e.decision = d
      /\ e.before = CounterOf(c, tool)
      /\ e.after = CounterAfter(tool, d, CounterOf(c, tool))
  BY <1>0, <1>2, <1>1 DEF Record
<1>5. counters' = IF tool = "crm.resolve_customer"
                  THEN [counters EXCEPT ![c] = CounterAfter(tool, d, CounterOf(c, tool))]
                  ELSE counters
  BY <1>1 DEF Record
<1> HIDE DEF d, e
<1>6. N \in Nat /\ N - 1 \in Nat
  BY <1>0, <1>2
<1>7. ASSUME NEW x, NEW n \in 0..(N - 1)
      PROVE  CrmSuccessesUpTo(x, n)' = CrmSuccessesUpTo(x, n)
  BY <1>3, <1>6, <1>7 DEF CrmSuccessesUpTo
<1>8. ASSUME NEW x
      PROVE  CrmSuccessesUpTo(x, N)' =
                IF Counted /\ x = c THEN CrmSuccessesUpTo(x, N - 1) \cup {N}
                ELSE CrmSuccessesUpTo(x, N - 1)
  <2>1. 1..N = (1..(N - 1)) \cup {N}
    BY <1>0, <1>2
  <2> QED BY <1>3, <1>4, <2>1 DEF CrmSuccessesUpTo, e
<1>9. ASSUME NEW x
      PROVE  count(x, N)' = IF Counted /\ x = c THEN count(x, N - 1) + 1 ELSE count(x, N - 1)
  <2>1. IsFiniteSet(CrmSuccessesUpTo(x, N - 1))
    BY <1>6, SuccessesFinite
  <2>2. N \notin CrmSuccessesUpTo(x, N - 1)
    BY <1>6 DEF CrmSuccessesUpTo
  <2> QED BY <1>8, <2>1, <2>2, FS_AddElement
<1>10. ASSUME NEW x \in CtxIds PROVE counters[x] = count(x, N - 1)
  BY <1>0, <1>2 DEF CounterMatchesReceipts
<1>11. ASSUME NEW x \in CtxIds PROVE counters'[x] = count(x, N)'
  BY <1>2, <1>5, <1>9, <1>10, <1>1 DEF CounterAfter, CounterOf
<1>12. ASSUME NEW n \in 1..N, receipts'[n].tool = "crm.resolve_customer"
       PROVE  /\ (receipts[n].before = count(receipts[n].ctx, n - 1))'
              /\ (receipts[n].after = count(receipts[n].ctx, n))'
  <2>1. CASE n \in 1..(N - 1)
    <3>1. n - 1 \in 0..(N - 1) /\ n \in 0..(N - 1)
      BY <1>6, <2>1
    <3>2. /\ receipts[n].before = count(receipts[n].ctx, n - 1)
          /\ receipts[n].after = count(receipts[n].ctx, n)
      BY <1>3, <1>12, <2>1 DEF CounterMatchesReceipts
    <3> QED BY <1>3, <1>7, <2>1, <3>1, <3>2
  <2>2. CASE n = N
    <3>1. N - 1 \in 0..(N - 1)
      BY <1>6
    <3>2. tool = "crm.resolve_customer" /\ receipts'[n].ctx = c
      BY <1>4, <1>12, <2>2 DEF e
    <3>3. receipts'[n].before = counters[c]
      BY <1>4, <2>2, <3>2 DEF CounterOf, e
    <3>4. receipts'[n].after = IF d = "ALLOW" THEN counters[c] + 1 ELSE counters[c]
      BY <1>4, <2>2, <3>2 DEF CounterOf, CounterAfter, e
    <3>5. CrmSuccessesUpTo(c, N - 1)' = CrmSuccessesUpTo(c, N - 1)
      BY <1>7, <3>1
    <3>6. count(c, N)' = IF d = "ALLOW" THEN counters[c] + 1 ELSE counters[c]
      BY <1>9, <1>10, <1>1, <3>2
    <3> QED BY <1>10, <1>1, <2>2, <3>2, <3>3, <3>4, <3>5, <3>6
  <2> QED BY <1>6, <2>1, <2>2
<1> QED BY <1>3, <1>11, <1>12 DEF CounterMatchesReceipts


(* From the empty tables on, the counter agrees with the evidence.         *)
LEMMA CounterInit == GatewayInit => CounterMatchesReceipts
<1> SUFFICES ASSUME GatewayInit PROVE CounterMatchesReceipts
  OBVIOUS
<1>1. receipts = <<>> /\ counters = [c \in CtxIds |-> 0]
  BY DEF GatewayInit
<1>2. ASSUME NEW c PROVE CrmSuccessesUpTo(c, Len(receipts)) = {}
  BY <1>1 DEF CrmSuccessesUpTo
<1> QED BY <1>1, <1>2, FS_EmptySet DEF CounterMatchesReceipts

(* The counter of a context is the number of its CRM successes, and every  *)
(* CRM receipt carries its value before and after the decision: denials    *)
(* and rolled back calls never move it.                                    *)
THEOREM CounterCountsSuccesses == GatewaySpec => []CounterMatchesReceipts
<1>1. GInv /\ CounterMatchesReceipts /\ [GatewayNext]_vars => CounterMatchesReceipts'
  <2> SUFFICES ASSUME GInv, CounterMatchesReceipts, [GatewayNext]_vars
               PROVE  CounterMatchesReceipts'
    OBVIOUS
  <2>1. CASE UNCHANGED <<refs, receipts, counters>>
    <3>1. ASSUME NEW x, NEW n PROVE CrmSuccessesUpTo(x, n)' = CrmSuccessesUpTo(x, n)
      BY <2>1 DEF CrmSuccessesUpTo
    <3> QED BY <2>1, <3>1 DEF CounterMatchesReceipts
  <2>2. CASE ~UNCHANGED <<refs, receipts, counters>>
    <3>1. PICK r \in RunIds, tool \in Tools, i \in 0..Len(refs) :
            runs[r].ctx \in CtxIds /\ Record(r, tool, i, Decide(r, tool, i))
      BY <2>2, EvidenceStep
    <3>2. GatewayTypeOK
      BY DEF GInv
    <3> QED BY <3>1, <3>2, CounterRecorded
  <2> QED BY <2>1, <2>2
<1> QED BY <1>1, CounterInit, GatewayInvariant, PTL DEF GatewaySpec

-----------------------------------------------------------------------------
(* What stands behind a reference and a CRM decision: a reference expires  *)
(* with its mandate and is minted after its parent, and an answered CRM    *)
(* call goes back, through a lookup, to the listing its decision is about. *)
ReferencesFollow ==
    \A i \in DOMAIN refs :
        /\ refs[i].expiresAt = contexts[refs[i].ctx].expiresAt
        /\ refs[i].parent # 0 => refs[refs[i].parent].receipt < refs[i].receipt

DecidedOnChain ==
    \A n \in DOMAIN receipts :
        /\ receipts[n].tool = "crm.resolve_customer"
        /\ receipts[n].decision \in {"ALLOW", "FLOW_DENIED"}
        => \E a, b \in DOMAIN receipts :
              /\ receipts[n].causedBy = <<a, b>>
              /\ a < b /\ b < n
              /\ receipts[a].ctx = receipts[n].ctx /\ receipts[b].ctx = receipts[n].ctx
              /\ receipts[a].decision = "ALLOW" /\ receipts[b].decision = "ALLOW"
              /\ receipts[a].tool = IF receipts[n].decision = "ALLOW"
                                    THEN "support.list_tickets" ELSE "payments.list_failures"
              /\ receipts[b].tool = "cases.lookup_subject"

(* A case reference has a lookup behind it, and a listing behind that; its *)
(* label tells which.                                                      *)
LEMMA ChainBehind ==
    ASSUME PInv, ReferencesFollow,
           NEW i \in DOMAIN refs, refs[i].kind = "operations-case"
    PROVE  \E a, b \in DOMAIN receipts :
              /\ CausedBy(i) = <<a, b>>
              /\ a < b
              /\ receipts[a].ctx = refs[i].ctx /\ receipts[b].ctx = refs[i].ctx
              /\ receipts[a].decision = "ALLOW" /\ receipts[b].decision = "ALLOW"
              /\ receipts[a].tool \in {"support.list_tickets", "payments.list_failures"}
              /\ refs[i].labels = {AddedLabel(receipts[a].tool)}
              /\ receipts[b].tool = "cases.lookup_subject"
<1> DEFINE p == refs[i].parent
<1>1. refs \in Seq(Reference) /\ refs[i] \in Reference
  BY DEF PInv, GInv, GatewayTypeOK
<1>2. p \in Nat
  BY <1>1 DEF Reference
<1>3. /\ p # 0 /\ p < i /\ refs[p].ctx = refs[i].ctx /\ refs[p].parent = 0
      /\ refs[p].labels = refs[i].labels
      /\ refs[i].receipt \in DOMAIN receipts
      /\ receipts[refs[i].receipt].ctx = refs[i].ctx
      /\ receipts[refs[i].receipt].decision = "ALLOW"
  BY DEF PInv, LineageWithinContext
<1>4. p \in DOMAIN refs
  BY <1>1, <1>2, <1>3
<1>5. /\ refs[p].receipt \in DOMAIN receipts
      /\ receipts[refs[p].receipt].ctx = refs[p].ctx
      /\ receipts[refs[p].receipt].decision = "ALLOW"
  BY <1>4 DEF PInv, LineageWithinContext
<1>6. /\ receipts[refs[p].receipt].tool \in {"support.list_tickets", "payments.list_failures"}
      /\ refs[p].labels = {AddedLabel(receipts[refs[p].receipt].tool)}
  BY <1>3, <1>4 DEF PInv, Provenanced
<1>7. receipts[refs[i].receipt].tool = "cases.lookup_subject"
  BY <1>3 DEF PInv, Provenanced
<1>8. refs[p].receipt < refs[i].receipt
  BY <1>3 DEF ReferencesFollow
<1>9. CausedBy(i) = <<refs[p].receipt, refs[i].receipt>>
  BY <1>3 DEF CausedBy
<1> HIDE DEF p
<1> QED BY <1>3, <1>5, <1>6, <1>7, <1>8, <1>9

(* No handler moves the expiry of a context that exists.                   *)
LEMMA ExpiryKept ==
    ASSUME IInv, [AuthorityNext]_authVars
    PROVE  \A c \in CtxIds : contexts[c].state # "NONE" =>
              contexts'[c].expiresAt = contexts[c].expiresAt
<1> SUFFICES ASSUME NEW c \in CtxIds, contexts[c].state # "NONE"
             PROVE  contexts'[c].expiresAt = contexts[c].expiresAt
  OBVIOUS
<1>1. contexts[c] \in Context
  BY DEF IInv, TypeOK
<1>2. CASE ~Prepare
  <2>1. contexts'[c] = [contexts[c] EXCEPT !.state = contexts'[c].state]
    BY <1>2, StatesOnlyShape DEF IInv, StatesOnly
  <2> QED BY <1>1, <2>1 DEF Context
<1>3. CASE Prepare
  <2>1. PICK r \in RunIds, a \in Agents, o \in Owners, cap \in Caps, d \in CtxIds,
             grant \in SUBSET Permissions,
             retryOf \in RunIds \cup {None}, predecessor \in RunIds \cup {None} :
          PrepareEffect(r, a, o, cap, d, grant, retryOf, predecessor)
    BY <1>3, PrepareShape DEF IInv
  <2>2. \/ contexts'[c] = contexts[c]
        \/ contexts'[c] = [contexts[c] EXCEPT !.state = "CLOSED"]
    BY <1>3, <2>1 DEF PrepareEffect
  <2> QED BY <1>1, <2>2 DEF Context
<1> QED BY <1>2, <1>3

(* An answered CRM call was denied if and only if the label says so.       *)
LEMMA DecidedByLabel ==
    ASSUME NEW r, NEW i, NEW tool, tool = "crm.resolve_customer",
           Decide(r, tool, i) \in {"ALLOW", "FLOW_DENIED"}
    PROVE  Decide(r, tool, i) = "FLOW_DENIED" <=> FlowDenied(tool, refs[i].labels)
<1>1. NeedsInput(tool) /\ Resolves(i, runs[r].ctx, InputKind(tool))
  BY DEF Decide, NeedsInput
<1>2. CASE FlowDenied(tool, refs[i].labels)
  BY <1>1, <1>2 DEF Decide
<1>3. CASE ~FlowDenied(tool, refs[i].labels)
  BY <1>1, <1>3 DEF Decide
<1> QED BY <1>2, <1>3

LEMMA FollowRecorded ==
    ASSUME PInv, ReferencesFollow, DecidedOnChain,
           NEW r \in RunIds, NEW tool \in Tools, NEW i \in 0..Len(refs),
           Record(r, tool, i, Decide(r, tool, i)), UNCHANGED authVars
    PROVE  ReferencesFollow' /\ DecidedOnChain'
<1> DEFINE c == runs[r].ctx
           d == Decide(r, tool, i)
           N == Len(receipts) + 1
           M == Len(refs) + 1
           e == receipts'[N]
<1>1. refs \in Seq(Reference) /\ receipts \in Seq(Receipt)
  BY DEF PInv, GInv, GatewayTypeOK
<1>2. /\ DOMAIN receipts' = DOMAIN receipts \cup {N}
      /\ \A n \in DOMAIN receipts : receipts'[n] = receipts[n]
      /\ N \notin DOMAIN receipts /\ \A n \in DOMAIN receipts : n < N
  BY <1>1 DEF Record
<1>3. /\ e.ctx = c /\ e.tool = tool /\ e.decision = d
      /\ NeedsInput(tool) /\ d \in {"FLOW_DENIED", "ALLOW"} => e.causedBy = CausedBy(i)
  BY <1>1 DEF Record
<1>4. \/ refs' = refs
      \/ d = "ALLOW" /\ Mints(tool) /\ refs' = Append(refs, NewReference(r, tool, i))
  BY DEF Record
<1>5. NeedsInput(tool) /\ d \in {"FLOW_DENIED", "ALLOW"} =>
        i \in DOMAIN refs /\ refs[i].ctx = c /\ refs[i].kind = InputKind(tool)
  BY InputResolved
<1>6. UNCHANGED contexts
  BY DEF authVars
<1>7. ReferencesFollow'
  <2>1. ASSUME NEW q \in DOMAIN refs, refs[q].parent # 0
        PROVE  refs[q].parent \in DOMAIN refs
    <3>1. refs[q].parent < q
      BY <2>1 DEF PInv, LineageWithinContext
    <3>2. refs[q] \in Reference
      BY <1>1
    <3>3. refs[q].parent \in Nat
      BY <3>2 DEF Reference
    <3> QED BY <1>1, <2>1, <3>1, <3>3
  <2>2. CASE refs' = refs
    BY <1>6, <2>2 DEF ReferencesFollow
  <2>3. CASE d = "ALLOW" /\ Mints(tool) /\ refs' = Append(refs, NewReference(r, tool, i))
    <3> DEFINE new == refs'[M]
    <3>1. /\ DOMAIN refs' = DOMAIN refs \cup {M}
          /\ \A q \in DOMAIN refs : refs'[q] = refs[q]
          /\ new = NewReference(r, tool, i)
      BY <1>1, <2>3
    <3>2. /\ new.ctx = c /\ new.expiresAt = contexts[c].expiresAt
          /\ new.parent = (IF NeedsInput(tool) THEN i ELSE 0) /\ new.receipt = N
      BY <3>1 DEF NewReference
    <3>3. ASSUME NEW q \in DOMAIN refs
          PROVE  /\ refs'[q].expiresAt = contexts[refs'[q].ctx].expiresAt
                 /\ refs'[q].parent # 0 => refs'[refs'[q].parent].receipt < refs'[q].receipt
      BY <2>1, <3>1 DEF ReferencesFollow
    <3>4. new.parent # 0 => refs'[new.parent].receipt < N
      <4>1. ASSUME new.parent # 0 PROVE i \in DOMAIN refs /\ new.parent = i
        BY <1>5, <2>3, <3>2, <4>1
      <4>2. ASSUME i \in DOMAIN refs PROVE refs[i].receipt < N
        BY <1>2, <4>2 DEF PInv, LineageWithinContext
      <4> QED BY <3>1, <4>1, <4>2
    <3> HIDE DEF new, M, N, c, d
    <3>5. ASSUME NEW q \in DOMAIN refs'
          PROVE  /\ refs'[q].expiresAt = contexts[refs'[q].ctx].expiresAt
                 /\ refs'[q].parent # 0 => refs'[refs'[q].parent].receipt < refs'[q].receipt
      <4>1. CASE q \in DOMAIN refs
        BY <3>3, <4>1
      <4>2. CASE q = M
        BY <3>2, <3>4, <4>2 DEF new
      <4> QED BY <3>1, <4>1, <4>2
    <3> QED BY <1>6, <3>5 DEF ReferencesFollow
  <2> QED BY <1>4, <2>2, <2>3
<1>8. ASSUME tool = "crm.resolve_customer", d \in {"ALLOW", "FLOW_DENIED"}
      PROVE  \E a, b \in DOMAIN receipts :
                /\ e.causedBy = <<a, b>>
                /\ a < b
                /\ receipts[a].ctx = c /\ receipts[b].ctx = c
                /\ receipts[a].decision = "ALLOW" /\ receipts[b].decision = "ALLOW"
                /\ receipts[a].tool = IF d = "ALLOW"
                                      THEN "support.list_tickets" ELSE "payments.list_failures"
                /\ receipts[b].tool = "cases.lookup_subject"
  <2>1. /\ i \in DOMAIN refs /\ refs[i].ctx = c /\ refs[i].kind = "operations-case"
        /\ e.causedBy = CausedBy(i)
    BY <1>3, <1>5, <1>8 DEF NeedsInput, InputKind
  <2>2. PICK a, b \in DOMAIN receipts :
          /\ CausedBy(i) = <<a, b>>
          /\ a < b
          /\ receipts[a].ctx = refs[i].ctx /\ receipts[b].ctx = refs[i].ctx
          /\ receipts[a].decision = "ALLOW" /\ receipts[b].decision = "ALLOW"
          /\ receipts[a].tool \in {"support.list_tickets", "payments.list_failures"}
          /\ refs[i].labels = {AddedLabel(receipts[a].tool)}
          /\ receipts[b].tool = "cases.lookup_subject"
    BY <2>1, ChainBehind
  <2>3. (d = "FLOW_DENIED") <=> FlowDenied(tool, refs[i].labels)
    BY <1>8, DecidedByLabel
  <2>4. (d = "FLOW_DENIED") <=> AddedLabel(receipts[a].tool) = "PAYMENT_AGGREGATE_ONLY"
    BY <1>8, <2>2, <2>3 DEF FlowDenied
  <2>5. receipts[a].tool = IF d = "ALLOW" THEN "support.list_tickets"
                           ELSE "payments.list_failures"
    BY <1>8, <2>2, <2>4 DEF AddedLabel
  <2> HIDE DEF c, d, e, N
  <2> QED BY <2>1, <2>2, <2>5
<1>9. DecidedOnChain'
  <2> HIDE DEF c, d, e, M
  <2>1. ASSUME NEW n \in DOMAIN receipts', receipts'[n].tool = "crm.resolve_customer",
               receipts'[n].decision \in {"ALLOW", "FLOW_DENIED"}
        PROVE  \E a, b \in DOMAIN receipts :
                  /\ receipts'[n].causedBy = <<a, b>>
                  /\ a < b /\ b < n
                  /\ receipts[a].ctx = receipts'[n].ctx /\ receipts[b].ctx = receipts'[n].ctx
                  /\ receipts[a].decision = "ALLOW" /\ receipts[b].decision = "ALLOW"
                  /\ receipts[a].tool = IF receipts'[n].decision = "ALLOW"
                                        THEN "support.list_tickets"
                                        ELSE "payments.list_failures"
                  /\ receipts[b].tool = "cases.lookup_subject"
    <3>1. CASE n \in DOMAIN receipts
      BY <1>2, <2>1, <3>1 DEF DecidedOnChain
    <3>2. CASE n = N
      <4>1. receipts'[n] = e
        BY <3>2 DEF e
      <4>2. \A b \in DOMAIN receipts : b < n
        BY <1>2, <3>2
      <4> QED BY <1>3, <1>8, <2>1, <4>1, <4>2
    <3> QED BY <1>2, <3>1, <3>2
  <2> QED BY <1>2, <2>1 DEF DecidedOnChain
<1> QED BY <1>7, <1>9

LEMMA FollowStep ==
    PInv /\ ReferencesFollow /\ DecidedOnChain /\ [GatewayNext]_vars =>
        ReferencesFollow' /\ DecidedOnChain'
<1> SUFFICES ASSUME PInv, ReferencesFollow, DecidedOnChain, [GatewayNext]_vars
             PROVE  ReferencesFollow' /\ DecidedOnChain'
  OBVIOUS
<1>1. GInv /\ IInv
  BY DEF PInv, GInv
<1>2. CASE UNCHANGED <<refs, receipts, counters>>
  <2>1. \A i \in DOMAIN refs : refs[i].ctx \in CtxIds /\ contexts[refs[i].ctx].state # "NONE"
    <3> SUFFICES ASSUME NEW i \in DOMAIN refs
                 PROVE  refs[i].ctx \in CtxIds /\ contexts[refs[i].ctx].state # "NONE"
      OBVIOUS
    <3>1. refs[i] \in Reference
      BY <1>1 DEF GInv, GatewayTypeOK
    <3> QED BY <3>1 DEF Reference, PInv, Provenanced
  <2>2. \A c \in CtxIds : contexts[c].state # "NONE" =>
              contexts'[c].expiresAt = contexts[c].expiresAt
    BY <1>1, GatewayStepOnAuthority, ExpiryKept
  <2>3. ReferencesFollow'
    BY <1>2, <2>1, <2>2 DEF ReferencesFollow
  <2>4. DecidedOnChain'
    BY <1>2 DEF DecidedOnChain
  <2> QED BY <2>3, <2>4
<1>3. CASE \E r \in RunIds, tool \in Tools, i \in 0..Len(refs) :
              Record(r, tool, i, Decide(r, tool, i)) /\ UNCHANGED authVars
  BY <1>3, FollowRecorded
<1> QED BY <1>1, <1>2, <1>3, EvidenceStep

(* Whatever Run, follow-up or retry asks, an allowed resolution goes back  *)
(* to a Support listing of its context and a denied one to a Payment       *)
(* listing, each through an allowed lookup.                                *)
THEOREM DecisionsGoBackToListings == GatewaySpec => [](ReferencesFollow /\ DecidedOnChain)
<1>1. GatewayInit => ReferencesFollow /\ DecidedOnChain
  BY DEF GatewayInit, ReferencesFollow, DecidedOnChain
<1> QED BY <1>1, FollowStep, ProvenanceInvariant, PTL DEF GatewaySpec
=============================================================================
