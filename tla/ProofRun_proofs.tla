--------------------------- MODULE ProofRun_proofs ---------------------------
(***************************************************************************)
(* Proofs about module ProofRun, for every value of its constants.  The    *)
(* proof workflow only makes steps of the gateway, so every theorem about  *)
(* Gateway holds of it.                                                    *)
(***************************************************************************)
EXTENDS ProofRun, Gateway_proofs

-----------------------------------------------------------------------------
(* Least and greatest numbers: what Min and Max return.                    *)

LEMMA LeastExists ==
    ASSUME NEW S, S \subseteq Nat, S # {}
    PROVE  \E x \in S : \A y \in S : x =< y
<1> DEFINE Segments == {1..x : x \in S}
<1>1. IsWellFoundedOn(StrictSubsetOrdering(Nat), FiniteSubsetsOf(Nat))
  BY FS_StrictSubsetOrderingWellFounded
<1>2. \A x \in S : 1..x \in SUBSET Nat /\ IsFiniteSet(1..x)
  BY FS_Interval
<1>3. Segments \subseteq FiniteSubsetsOf(Nat) /\ Segments # {}
  BY <1>2 DEF FiniteSubsetsOf
<1> HIDE DEF Segments
<1>4. \E A \in Segments : \A B \in Segments : ~ (<<B, A>> \in StrictSubsetOrdering(Nat))
  BY <1>1, <1>3, WFMin
<1>5. PICK A \in Segments : \A B \in Segments : ~ (<<B, A>> \in StrictSubsetOrdering(Nat))
  BY <1>4
<1>6. PICK x \in S : A = 1..x
  BY DEF Segments
<1>7. ASSUME NEW y \in S, ~(x =< y) PROVE FALSE
  <2>1. 1..y \in Segments
    BY DEF Segments
  <2>2. x \in Nat /\ y \in Nat /\ y < x
    BY <1>7
  <2>3. 1..y \subseteq 1..x /\ x \in 1..x /\ x \notin 1..y
    BY <2>2
  <2>4. <<1..y, 1..x>> \in StrictSubsetOrdering(Nat)
    BY <2>3, <1>2 DEF StrictSubsetOrdering
  <2> QED BY <2>1, <2>4, <1>5, <1>6
<1> QED BY <1>7

LEMMA MinIsLeast ==
    ASSUME NEW S, S \subseteq Nat, S # {}
    PROVE  Min(S) \in S /\ \A y \in S : Min(S) =< y
<1>1. PICK x \in S : \A y \in S : x =< y
  BY LeastExists
<1> QED BY <1>1 DEF Min

(* A bounded set has a greatest number: the least distance to the bound.   *)
LEMMA MaxIsGreatest ==
    ASSUME NEW S, S \subseteq Nat, S # {}, NEW n \in Nat, \A x \in S : x =< n
    PROVE  Max(S) \in S /\ \A y \in S : Max(S) >= y
<1> DEFINE Distances == {n - x : x \in S}
<1>1. Distances \subseteq Nat /\ Distances # {}
  <2>1. \A x \in S : n - x \in Nat
    OBVIOUS
  <2> QED BY <2>1
<1>2. PICK d \in Distances : \A e \in Distances : d =< e
  BY <1>1, LeastExists
<1>3. PICK x \in S : d = n - x
  OBVIOUS
<1>4. \A y \in S : x >= y
  <2> SUFFICES ASSUME NEW y \in S PROVE x >= y
    OBVIOUS
  <2>1. n - x =< n - y
    BY <1>2, <1>3
  <2> QED BY <2>1
<1> QED BY <1>4 DEF Max

-----------------------------------------------------------------------------
(* Types.  A Runtime that saves has five references, the fifth is saved;   *)
(* a call in flight is that of its own Run; ids are bounded, because they  *)
(* are taken in order.                                                     *)
ProofTypeOK ==
    /\ provider \in Providers
    /\ runtime \in [RunIds -> Runtime]
    /\ saved \in [memory : Nat, file : Nat]
    /\ workflow \in CtxIds \cup {None}
    /\ faults \in Nat

SavingFive ==
    \A r \in RunIds : Phase(r) = "saving" =>
        /\ Made(r) = 5
        /\ Fixture /\ runtime[r].prompt = "proof"

CallsOwn == \A k \in CallIds : calls[k].phase # "idle" => calls[k].run = k

RowsBounded == \E n \in Nat : \A r \in RunIds : runs[r].state # "NONE" => r =< n

Untouched == \A r \in RunIds : Phase(r) = "none" <=> runs[r].state = "NONE"

Base == ProofTypeOK /\ SavingFive /\ CallsOwn /\ RowsBounded /\ Untouched

-----------------------------------------------------------------------------
(* The Run a follow-up names as its predecessor is one of the rows.        *)
LEMMA PredecessorNamed ==
    ASSUME RowsBounded
    PROVE  Predecessor \in RunIds \cup {None}
<1> DEFINE completed == {p \in RunIds : runs[p].state = "COMPLETED" /\ runs[p].ctx = workflow}
<1>1. CASE completed = {}
  BY <1>1 DEF Predecessor
<1>2. CASE completed # {}
  <2>1. PICK n \in Nat : \A r \in RunIds : runs[r].state # "NONE" => r =< n
    BY DEF RowsBounded
  <2>2. completed \subseteq Nat /\ \A x \in completed : x =< n
    BY <2>1, ProofNumbering
  <2>3. Max(completed) \in completed
    BY <1>2, <2>2, MaxIsGreatest
  <2> QED BY <1>2, <2>3 DEF Predecessor
<1> QED BY <1>1, <1>2

(* Every step is one of the gateway, or none of its tables moves.          *)
LEMMA StepOnGateway ==
    ASSUME PInv, Base, [ProofNext]_allVars
    PROVE  [GatewayNext]_vars
<1> USE ProofNumbering, ProofAssumption
<1>1. TypeOK /\ RowsComplete
  BY DEF PInv, GInv, IInv
<1>2. ASSUME NEW r \in RunIds, PrepareProof(r) PROVE ControlStep
  <2>1. PICK requested \in Requests :
          IF workflow # None
          THEN PrepareFollowUp(r, Agent, Owner, requested, r, workflow, Predecessor)
          ELSE LET unused == {c \in CtxIds : contexts[c].state = "NONE"} IN
               /\ unused # {}
               /\ PrepareNew(r, Agent, Owner, requested, r, Min(unused))
    BY <1>2 DEF PrepareProof
  <2>2. UNCHANGED gatewayVars
    BY <1>2 DEF PrepareProof, Prepares
  <2>3. r \in Caps /\ Agent \in Agents /\ Owner \in Owners
    OBVIOUS
  <2>4. CASE workflow # None
    <3>1. workflow \in CtxIds /\ Predecessor \in RunIds \cup {None}
      BY <2>4, PredecessorNamed DEF Base, ProofTypeOK
    <3>2. PrepareFollowUp(r, Agent, Owner, requested, r, workflow, Predecessor)
      BY <2>1, <2>4
    <3>3. Prepare
      BY <3>1, <3>2, <2>3 DEF Prepare
    <3> QED BY <3>3, <2>2 DEF ControlStep
  <2>5. CASE workflow = None
    <3> DEFINE unused == {c \in CtxIds : contexts[c].state = "NONE"}
    <3>1. unused # {} /\ PrepareNew(r, Agent, Owner, requested, r, Min(unused))
      BY <2>1, <2>5
    <3>2. Min(unused) \in CtxIds
      BY <3>1, MinIsLeast
    <3> HIDE DEF unused
    <3>3. Prepare
      BY <3>1, <3>2, <2>3 DEF Prepare
    <3> QED BY <3>3, <2>2 DEF ControlStep
  <2> QED BY <2>4, <2>5
<1>3. ASSUME NEW r \in RunIds, NEW original \in RunIds, PrepareAgain(r, original)
      PROVE  ControlStep
  <2>1. PICK requested \in Requests : PrepareRetry(r, Agent, Owner, requested, r, original)
    BY <1>3 DEF PrepareAgain
  <2>2. UNCHANGED gatewayVars
    BY <1>3 DEF PrepareAgain, Prepares
  <2>3. Prepare
    BY <2>1 DEF Prepare
  <2> QED BY <2>2, <2>3 DEF ControlStep
<1>4. ASSUME NEW r \in RunIds, Launch(r) PROVE ControlStep
  BY <1>4 DEF Launch, ControlStep
<1>5. ASSUME NEW r \in RunIds, Confirm(r) \/ Fail(r) PROVE ControlStep \/ UNCHANGED vars
  BY <1>5 DEF Confirm, Fail, Settle, FinishStatuses, ControlStep, vars
<1>6. ASSUME NEW r \in RunIds, SendCall(r)
      PROVE  \E k \in CallIds, cap \in Caps : CallReadsRun(k, cap)
  <2>1. CallReadsRun(r, runs[r].cap)
    BY <1>6 DEF SendCall
  <2>2. PICK s \in RunIds : runs[s].cap = runs[r].cap /\ runs[s].state = "ACTIVE"
    BY <2>1 DEF CallReadsRun
  <2>3. runs[r].cap \in Caps
    BY <2>2, <1>1 DEF RowsComplete
  <2> QED BY <2>1, <2>3
<1>7. ASSUME NEW r \in RunIds, CallProceeds(r) \/ CallRefused(r)
      PROVE  \E k \in CallIds : CallReadsContext(k) \/ ExecuteRefused(k)
  BY <1>7 DEF CallProceeds, CallRefused
<1>8. ASSUME NEW r \in RunIds, CallServed(r) \/ CallServedLate(r)
      PROVE  \E k \in CallIds, tool \in Tools, i \in 0..Len(refs) : ExecuteTool(k, tool, i)
  BY <1>8 DEF CallServed, CallServedLate, Executes
<1>9. ASSUME NEW r \in RunIds, StartProof(r) \/ StartRetry(r) \/ Rejected(r) \/ GiveUp(r)
                                \/ SaveReference(r) \/ Return(r)
      PROVE  UNCHANGED vars
  BY <1>9 DEF StartProof, StartRetry, Rejected, GiveUp, SaveReference, Return
<1>10. ASSUME NewWorkflow \/ NodeRestart PROVE UNCHANGED vars
  BY <1>10 DEF NewWorkflow, NodeRestart
<1>11. ASSUME SidecarRestart PROVE GatewayRestart
  BY <1>11 DEF SidecarRestart
<1>12. ASSUME NEW c \in CtxIds, Revoke(c) PROVE ControlStep
  BY <1>12 DEF Revoke, ControlStep
<1>13. ASSUME Tick /\ UNCHANGED <<gatewayVars, proofVars>> PROVE ControlStep
  BY <1>13 DEF ControlStep
<1>14. ASSUME UNCHANGED allVars PROVE UNCHANGED vars
  BY <1>14 DEF allVars
<1> QED
  BY <1>2, <1>3, <1>4, <1>5, <1>6, <1>7, <1>8, <1>9, <1>10, <1>11, <1>12, <1>13, <1>14
  DEF ProofNext, GatewayNext

(* What a Runtime record is after one of its fields was set.               *)
LEMMA RuntimeSet ==
    ASSUME ProofTypeOK, NEW r \in RunIds, NEW phase \in RuntimePhases
    PROVE  SetPhase(r, phase) =>
             /\ runtime' \in [RunIds -> Runtime]
             /\ \A q \in RunIds :
                  /\ q # r => runtime'[q] = runtime[q]
                  /\ runtime'[q].prompt = runtime[q].prompt
                  /\ runtime'[q].held = runtime[q].held
             /\ runtime'[r].phase = phase
<1> SUFFICES ASSUME SetPhase(r, phase)
             PROVE  /\ runtime' \in [RunIds -> Runtime]
                    /\ \A q \in RunIds :
                         /\ q # r => runtime'[q] = runtime[q]
                         /\ runtime'[q].prompt = runtime[q].prompt
                         /\ runtime'[q].held = runtime[q].held
                    /\ runtime'[r].phase = phase
  OBVIOUS
<1>1. runtime \in [RunIds -> Runtime] /\ runtime[r] \in Runtime
  BY DEF ProofTypeOK
<1>2. runtime' = [runtime EXCEPT ![r] = [runtime[r] EXCEPT !.phase = phase]]
  BY DEF SetPhase
<1>3. [runtime[r] EXCEPT !.phase = phase] \in Runtime
  BY <1>1 DEF Runtime
<1> QED BY <1>1, <1>2, <1>3 DEF Runtime

(* How the Runtimes move.  Every step but a restart of the control plane   *)
(* changes at most one of them, and only in these ways.                    *)

(* The gateway answers the call the Runtime waits for: it records its      *)
(* decision.  A fixture asked for what its script says.                    *)
Served(r, tool, i) ==
    /\ Phase(r) = "waiting"
    /\ Fixture => tool = Current(r).tool /\ i = InputOf(r)
    /\ StillAuthorised(r)
    /\ Record(r, tool, i, Decide(r, tool, i))
    /\ UNCHANGED <<authVars, saved, workflow>>

(* A Runtime becomes ready with its first script step ahead, or having     *)
(* saved its fifth reference in memory and on disk.                        *)
StartsProof(r) ==
    /\ Phase(r) = "starting"
    /\ Fixture => runtime[r].prompt = "proof" /\ runs[r].grant = Tools
Saves(r) ==
    /\ Phase(r) = "saving"
    /\ saved' = [memory |-> ReferenceToSave(r), file |-> ReferenceToSave(r)]

Contradicts(r) ==
    /\ Fixture
    /\ \E tool \in Tools, i \in 0..Len(refs) :
          Served(r, tool, i) /\ Decide(r, tool, i) # Current(r).expect

Enters(r, phase) ==
    /\ phase \in RuntimePhases \ {"none", "prepared", "saving"}
    /\ Phase(r) \notin {"none", "over"}
    /\ SetPhase(r, phase)
    /\ phase = "ready" => StartsProof(r) \/ Saves(r)
    /\ phase = "starting" => Phase(r) = "prepared"
    /\ phase = "waiting" => Phase(r) = "ready" /\ MayCall(r)
    /\ phase = "returned" => Phase(r) = "ready" /\ MayReturn(r)
    /\ phase = "contradicted" => Contradicts(r)

Reloads(r) ==
    LET found == IF saved.memory # 0 THEN saved.memory ELSE saved.file IN
    /\ Phase(r) = "starting" /\ runtime[r].prompt = "retry" /\ Fixture
    /\ found # 0
    /\ runtime' = [runtime EXCEPT ![r].phase = "ready", ![r].held = <<found>>]

Holds(r, n) ==
    /\ Phase(r) = "waiting"
    /\ \E tool \in Tools, i \in 0..Len(refs) :
          /\ Served(r, tool, i)
          /\ Fixture => Decide(r, tool, i) = Current(r).expect
          /\ n = IF Decide(r, tool, i) = "ALLOW" /\ Mints(tool) THEN Len(refs') ELSE 0
    /\ runtime' = [runtime EXCEPT
          ![r].held = Append(@, n),
          ![r].phase = IF Fixture /\ runtime[r].prompt = "proof" /\ Made(r) + 1 = 5
                       THEN "saving" ELSE "ready"]

Begins(r, prompt) ==
    /\ ~Busy
    /\ Phase(r) = "none"
    /\ runs[r].state = "NONE" /\ runs'[r].state = "PREPARED"
    /\ workflow' = runs'[r].ctx
    /\ prompt = "proof" =>
          \/ workflow # None /\ runs'[r].ctx = workflow
          \/ workflow = None /\ contexts[runs'[r].ctx].state = "NONE"
    /\ prompt = "retry" =>
          /\ \E original \in RunIds : Retryable(original) /\ runs'[r].retryOf = original
          /\ runs'[r].ctx = workflow
    /\ runtime' = [runtime EXCEPT ![r].phase = "prepared", ![r].prompt = prompt]

(* No row appears, or none but that of r.                                  *)
NoNewRow == \A q \in RunIds : runs[q].state = "NONE" => runs'[q].state = "NONE"
NoNewRowBut(r) ==
    \A q \in RunIds \ {r} : runs[q].state = "NONE" => runs'[q].state = "NONE"

LEMMA HandlersAddNoRow ==
    ASSUME TypeOK,
           \/ \E r \in RunIds : Activate(r) \/ ActivateLate(r)
           \/ \E r \in RunIds, s \in FinishStatuses : Finish(r, s)
           \/ \E c \in CtxIds : RevokeMandate(c)
           \/ Restart
           \/ UNCHANGED runs
    PROVE  NoNewRow
<1> SUFFICES ASSUME NEW q \in RunIds, runs[q].state = "NONE" PROVE runs'[q].state = "NONE"
  BY DEF NoNewRow
<1>1. runs \in [RunIds -> Run]
  BY DEF TypeOK
<1>2. ASSUME NEW r \in RunIds, Activate(r) \/ ActivateLate(r) PROVE runs'[q].state = "NONE"
  BY <1>1, <1>2 DEF Activate, ActivateLate, SetState
<1>3. ASSUME NEW r \in RunIds, NEW s \in FinishStatuses, Finish(r, s)
      PROVE  runs'[q].state = "NONE"
  BY <1>1, <1>3 DEF Finish, SetState, Live
<1>4. ASSUME NEW c \in CtxIds, RevokeMandate(c) PROVE runs'[q].state = "NONE"
  BY <1>1, <1>4 DEF RevokeMandate, Affected, RunsOf, Live
<1>5. ASSUME Restart PROVE runs'[q].state = "NONE"
  BY <1>1, <1>5 DEF Restart, Live
<1> QED BY <1>2, <1>3, <1>4, <1>5

(* Preparing a Run adds its row alone.                                     *)
LEMMA PreparingAddsRow ==
    ASSUME PInv, Base, NEW r \in RunIds,
           PrepareProof(r) \/ \E original \in RunIds : PrepareAgain(r, original)
    PROVE  /\ \A q \in RunIds \ {r} : runs'[q] = runs[q]
           /\ \E prompt \in {"proof", "retry"} : Begins(r, prompt)
           /\ UNCHANGED <<gatewayVars, saved>>
<1>1. runs \in [RunIds -> Run]
  BY DEF PInv, GInv, IInv, TypeOK
<1>2. ASSUME NEW a, NEW c, NEW cap, NEW grant, NEW ttl, NEW retryOf, NEW predecessor,
             InsertRun(r, a, c, cap, grant, ttl, retryOf, predecessor)
      PROVE  /\ runs'[r].state = "PREPARED"
             /\ runs'[r].ctx = c /\ runs'[r].retryOf = retryOf
             /\ \A q \in RunIds \ {r} : runs'[q] = runs[q]
  BY <1>1, <1>2 DEF InsertRun
<1>3. CASE PrepareProof(r)
  <2>1. Prepares(r, "proof")
    BY <1>3 DEF PrepareProof
  <2>2. /\ runs[r].state = "NONE" /\ runs'[r].state = "PREPARED"
        /\ \A q \in RunIds \ {r} : runs'[q] = runs[q]
        /\ \/ workflow # None /\ runs'[r].ctx = workflow
           \/ workflow = None /\ contexts[runs'[r].ctx].state = "NONE"
    <3>1. PICK requested \in Requests :
            IF workflow # None
            THEN PrepareFollowUp(r, Agent, Owner, requested, r, workflow, Predecessor)
            ELSE LET unused == {c \in CtxIds : contexts[c].state = "NONE"} IN
                 /\ unused # {}
                 /\ PrepareNew(r, Agent, Owner, requested, r, Min(unused))
      BY <1>3 DEF PrepareProof
    <3>2. CASE workflow # None
      BY <1>2, <3>1, <3>2 DEF PrepareFollowUp, Admits
    <3>3. CASE workflow = None
      <4>1. PICK c : PrepareNew(r, Agent, Owner, requested, r, c)
        BY <3>1, <3>3
      <4> QED BY <1>2, <3>3, <4>1 DEF PrepareNew, Admits
    <3> QED BY <3>2, <3>3
  <2> QED BY <2>1, <2>2 DEF Prepares, Begins, Base, Untouched
<1>4. ASSUME NEW original \in RunIds, PrepareAgain(r, original)
      PROVE  /\ \A q \in RunIds \ {r} : runs'[q] = runs[q]
             /\ Begins(r, "retry") /\ UNCHANGED <<gatewayVars, saved>>
  <2>1. Prepares(r, "retry") /\ Retryable(original)
    BY <1>4 DEF PrepareAgain
  <2>2. /\ runs[r].state = "NONE" /\ runs'[r].state = "PREPARED"
        /\ runs'[r].ctx = runs[original].ctx /\ runs'[r].retryOf = original
        /\ \A q \in RunIds \ {r} : runs'[q] = runs[q]
    BY <1>2, <1>4 DEF PrepareAgain, PrepareRetry, Admits
  <2>3. runs'[r].ctx = workflow
    BY <2>1, <2>2 DEF Retryable
  <2> QED BY <2>1, <2>2, <2>3 DEF Prepares, Begins, Base, Untouched
<1> QED BY <1>3, <1>4

(* What one step does to the Runtimes and to the rows together.            *)
Moves ==
    \/ UNCHANGED runtime /\ NoNewRow
    \/ NodeRestart /\ NoNewRow
    \/ \E r \in RunIds, phase \in RuntimePhases : Enters(r, phase) /\ NoNewRow
    \/ \E r \in RunIds : Reloads(r) /\ NoNewRow
    \/ \E r \in RunIds, n \in Nat : Holds(r, n) /\ NoNewRow
    \/ \E r \in RunIds, prompt \in {"proof", "retry"} : Begins(r, prompt) /\ NoNewRowBut(r)

(* The answer the Runtime gets is the decision the gateway recorded.       *)
LEMMA ServedCall ==
    ASSUME PInv, Base, NEW r \in RunIds, CallServed(r)
    PROVE  \E tool \in Tools, i \in 0..Len(refs) :
              Served(r, tool, i) /\ Answer(r, tool, Decide(r, tool, i))
<1>1. PICK tool \in Tools, i \in 0..Len(refs) :
        /\ Executes(r, tool, i)
        /\ IF calls'[r].phase = "failed" THEN SetPhase(r, "failed")
           ELSE Answer(r, tool, receipts'[Len(receipts')].decision)
  BY DEF CallServed
<1>2. calls \in [CallIds -> Call] /\ receipts \in Seq(Receipt) /\ r \in CallIds
  BY ProofNumbering DEF PInv, GInv, GatewayTypeOK
<1>3. calls[r].run = r
  BY <1>1, <1>2 DEF Executes, Base, CallsOwn
<1>4. ~Fails(r, tool, i, Decide(r, tool, i))
  BY DecisionSound
<1>5. /\ calls' = [calls EXCEPT ![r] = NoCall]
      /\ Record(r, tool, i, Decide(r, tool, i))
      /\ StillAuthorised(r) /\ UNCHANGED authVars
  BY <1>1, <1>3, <1>4 DEF Executes, ExecuteTool
<1>6. calls'[r].phase # "failed"
  BY <1>2, <1>5 DEF NoCall
<1>7. receipts'[Len(receipts')].decision = Decide(r, tool, i)
  BY <1>2, <1>5 DEF Record
<1>8. Answer(r, tool, Decide(r, tool, i))
  BY <1>1, <1>6, <1>7
<1>9. Served(r, tool, i)
  BY <1>1, <1>5 DEF CallServed, Executes, Served, Scripted
<1> QED BY <1>8, <1>9

LEMMA StepMoves ==
    ASSUME PInv, Base, GatewayTypeOK', [ProofNext]_allVars
    PROVE  Moves
<1>0. TypeOK /\ runs \in [RunIds -> Run]
  BY DEF PInv, GInv, IInv, TypeOK
<1>1. ASSUME NEW r \in RunIds,
             PrepareProof(r) \/ \E original \in RunIds : PrepareAgain(r, original)
      PROVE  Moves
  <2>1. PICK prompt \in {"proof", "retry"} : Begins(r, prompt)
    BY <1>1, PreparingAddsRow
  <2>2. NoNewRowBut(r)
    BY <1>1, PreparingAddsRow DEF NoNewRowBut
  <2> QED BY <2>1, <2>2 DEF Moves
<1>2. ASSUME NEW r \in RunIds, Launch(r) PROVE Moves
  <2>1. NoNewRow
    BY <1>0, <1>2, HandlersAddNoRow DEF Launch
  <2>2. Enters(r, "starting") \/ Enters(r, "failed")
    BY <1>2 DEF Launch, Enters, RuntimePhases
  <2> QED BY <2>1, <2>2 DEF Moves, RuntimePhases
<1>3. ASSUME NEW r \in RunIds, Confirm(r) \/ Fail(r) PROVE Moves
  <2>1. NoNewRow
    BY <1>0, <1>3, HandlersAddNoRow DEF Confirm, Fail, Settle, FinishStatuses, authVars
  <2>2. Enters(r, "over")
    BY <1>3 DEF Confirm, Fail, Settle, Enters, RuntimePhases
  <2> QED BY <2>1, <2>2 DEF Moves, RuntimePhases
<1>4. ASSUME UNCHANGED runs PROVE NoNewRow
  BY <1>0, <1>4, HandlersAddNoRow
<1>5. ASSUME NEW r \in RunIds, StartProof(r) PROVE Moves
  <2>1. Enters(r, "ready") \/ Enters(r, "failed")
    BY <1>5 DEF StartProof, Discovers, StartsProof, Enters, RuntimePhases
  <2> QED BY <1>4, <1>5, <2>1 DEF StartProof, Moves, RuntimePhases, vars, authVars
<1>6. ASSUME NEW r \in RunIds, StartRetry(r) PROVE Moves
  <2>1. Reloads(r) \/ Enters(r, "failed")
    BY <1>6 DEF StartRetry, Reloads, Enters, RuntimePhases
  <2> QED BY <1>4, <1>6, <2>1 DEF StartRetry, Moves, RuntimePhases, vars, authVars
<1>7. ASSUME NEW r \in RunIds, SendCall(r) PROVE Moves
  <2>1. Enters(r, "waiting")
    BY <1>7 DEF SendCall, Enters, RuntimePhases
  <2>2. UNCHANGED runs
    BY <1>7 DEF SendCall, CallReadsRun, authVars
  <2> QED BY <1>4, <2>1, <2>2 DEF Moves, RuntimePhases
<1>8. ASSUME NEW r \in RunIds, CallServed(r) PROVE Moves
  <2>1. PICK tool \in Tools, i \in 0..Len(refs) :
          /\ Served(r, tool, i)
          /\ Answer(r, tool, Decide(r, tool, i))
    BY <1>8, ServedCall
  <2>2. UNCHANGED runs
    BY <2>1 DEF Served, authVars
  <2>3. CASE Fixture /\ Decide(r, tool, i) # Current(r).expect
    <3>1. Contradicts(r)
      BY <2>1, <2>3 DEF Contradicts
    <3>2. SetPhase(r, "contradicted") /\ Phase(r) = "waiting"
      BY <2>1, <2>3 DEF Answer, Served
    <3>3. Enters(r, "contradicted")
      BY <3>1, <3>2 DEF Enters, RuntimePhases
    <3> QED BY <1>4, <2>2, <3>3 DEF Moves, RuntimePhases
  <2>4. CASE ~(Fixture /\ Decide(r, tool, i) # Current(r).expect)
    <3>1. PICK n \in Nat :
            n = IF Decide(r, tool, i) = "ALLOW" /\ Mints(tool) THEN Len(refs') ELSE 0
      BY DEF GatewayTypeOK
    <3>2. Holds(r, n)
      BY <2>1, <2>4, <3>1 DEF Answer, Holds, Served
    <3> QED BY <1>4, <2>2, <3>2 DEF Moves
  <2> QED BY <2>3, <2>4
<1>9. ASSUME NEW r \in RunIds, CallServedLate(r) \/ CallRefused(r) \/ CallProceeds(r) PROVE Moves
  <2>1. UNCHANGED <<runs, runtime>>
    BY <1>9 DEF CallServedLate, CallRefused, CallProceeds, Executes, ExecuteTool,
                ExecuteRefused, CallReadsContext, authVars, proofVars
  <2> QED BY <1>4, <2>1 DEF Moves
<1>10. ASSUME NEW r \in RunIds, Rejected(r) \/ GiveUp(r) PROVE Moves
  <2>1. Enters(r, "failed") /\ UNCHANGED runs
    BY <1>10 DEF Rejected, GiveUp, Enters, RuntimePhases, vars, authVars
  <2> QED BY <1>4, <2>1 DEF Moves, RuntimePhases
<1>11. ASSUME NEW r \in RunIds, SaveReference(r) PROVE Moves
  <2>1. (Enters(r, "ready") \/ Enters(r, "failed")) /\ UNCHANGED runs
    BY <1>11 DEF SaveReference, Saves, Enters, RuntimePhases, vars, authVars
  <2> QED BY <1>4, <2>1 DEF Moves, RuntimePhases
<1>12. ASSUME NEW r \in RunIds, Return(r) PROVE Moves
  <2>1. Enters(r, "returned") /\ UNCHANGED runs
    BY <1>12 DEF Return, Enters, RuntimePhases, vars, authVars
  <2> QED BY <1>4, <2>1 DEF Moves, RuntimePhases
<1>13. ASSUME NodeRestart PROVE Moves
  BY <1>4, <1>13 DEF NodeRestart, Moves, vars, authVars
<1>14. ASSUME SidecarRestart PROVE Moves
  <2>1. NoNewRow
    BY <1>0, <1>14, HandlersAddNoRow DEF SidecarRestart, GatewayRestart
  <2> QED BY <1>14, <2>1 DEF SidecarRestart, Moves
<1>15. ASSUME NEW c \in CtxIds, Revoke(c) PROVE Moves
  <2>1. NoNewRow
    BY <1>0, <1>15, HandlersAddNoRow DEF Revoke
  <2> QED BY <1>15, <2>1 DEF Revoke, proofVars, Moves
<1>16. ASSUME NewWorkflow \/ (Tick /\ UNCHANGED <<gatewayVars, proofVars>>)
              \/ UNCHANGED allVars
       PROVE  Moves
  <2>1. UNCHANGED <<runs, runtime>>
    BY <1>16 DEF NewWorkflow, Tick, vars, authVars, proofVars, allVars
  <2> QED BY <1>4, <2>1 DEF Moves
<1> QED
  BY <1>1, <1>2, <1>3, <1>5, <1>6, <1>7, <1>8, <1>9, <1>10, <1>11, <1>12, <1>13, <1>14,
     <1>15, <1>16 DEF ProofNext

-----------------------------------------------------------------------------
(* The base invariant.                                                     *)

LEMMA MovesKeepRuntimeType ==
    ASSUME Base, Moves
    PROVE  runtime' \in [RunIds -> Runtime]
<1>0. runtime \in [RunIds -> Runtime] /\ saved.memory \in Nat /\ saved.file \in Nat
  BY DEF Base, ProofTypeOK
<1>1. CASE UNCHANGED runtime
  BY <1>0, <1>1
<1>2. CASE NodeRestart
  <2>1. ASSUME NEW q \in RunIds
        PROVE  [runtime[q] EXCEPT !.phase = IF @ \in {"none", "over"} THEN @ ELSE "failed"]
                  \in Runtime
    <3>1. runtime[q] \in Runtime
      BY <1>0
    <3> QED BY <3>1 DEF Runtime, RuntimePhases
  <2> QED BY <1>2, <2>1 DEF NodeRestart
<1>3. CASE \E r \in RunIds, phase \in RuntimePhases : Enters(r, phase)
  BY <1>3, RuntimeSet DEF Enters, Base
<1>4. ASSUME NEW r \in RunIds, Reloads(r) PROVE runtime' \in [RunIds -> Runtime]
  <2>1. PICK found \in Nat :
          runtime' = [runtime EXCEPT ![r].phase = "ready", ![r].held = <<found>>]
    BY <1>0, <1>4 DEF Reloads
  <2>2. runtime[r] \in Runtime /\ <<found>> \in Seq(Nat)
    BY <1>0
  <2>3. [runtime[r] EXCEPT !.phase = "ready", !.held = <<found>>] \in Runtime
    BY <2>2 DEF Runtime, RuntimePhases
  <2>4. runtime' = [runtime EXCEPT ![r] = [runtime[r] EXCEPT !.phase = "ready", !.held = <<found>>]]
    BY <2>1
  <2> QED BY <1>0, <2>3, <2>4
<1>5. ASSUME NEW r \in RunIds, NEW n \in Nat, Holds(r, n) PROVE runtime' \in [RunIds -> Runtime]
  <2>1. PICK phase \in {"saving", "ready"} :
          runtime' = [runtime EXCEPT ![r].held = Append(@, n), ![r].phase = phase]
    BY <1>5 DEF Holds
  <2>2. runtime[r] \in Runtime
    BY <1>0
  <2>3. Append(runtime[r].held, n) \in Seq(Nat)
    BY <2>2 DEF Runtime
  <2>4. [runtime[r] EXCEPT !.held = Append(@, n), !.phase = phase] \in Runtime
    BY <2>2, <2>3 DEF Runtime, RuntimePhases
  <2>5. runtime' = [runtime EXCEPT ![r] = [runtime[r] EXCEPT !.held = Append(@, n), !.phase = phase]]
    BY <2>1
  <2> QED BY <1>0, <2>4, <2>5
<1>6. ASSUME NEW r \in RunIds, NEW prompt \in {"proof", "retry"}, Begins(r, prompt)
      PROVE  runtime' \in [RunIds -> Runtime]
  <2>1. runtime' = [runtime EXCEPT ![r] = [runtime[r] EXCEPT !.phase = "prepared", !.prompt = prompt]]
    BY <1>6 DEF Begins
  <2>2. [runtime[r] EXCEPT !.phase = "prepared", !.prompt = prompt] \in Runtime
    BY <1>0 DEF Runtime, RuntimePhases
  <2> QED BY <1>0, <2>1, <2>2
<1> QED BY <1>1, <1>2, <1>3, <1>4, <1>5, <1>6 DEF Moves

LEMMA SavedTyped ==
    ASSUME Base, [ProofNext]_allVars
    PROVE  saved' \in [memory : Nat, file : Nat]
<1>0. saved \in [memory : Nat, file : Nat]
  BY DEF Base, ProofTypeOK
<1>1. ASSUME NEW r \in RunIds, Phase(r) = "saving" PROVE ReferenceToSave(r) \in Nat
  <2>1. runtime[r].held \in Seq(Nat)
    BY DEF Base, ProofTypeOK, Runtime
  <2>2. Len(runtime[r].held) = 5
    BY <1>1 DEF Base, SavingFive, Made
  <2> QED BY <2>1, <2>2 DEF ReferenceToSave
<1>2. CASE UNCHANGED saved
  BY <1>0, <1>2
<1>3. ASSUME NEW r \in RunIds, StartRetry(r) PROVE saved' \in [memory : Nat, file : Nat]
  BY <1>0, <1>3 DEF StartRetry
<1>4. ASSUME NEW r \in RunIds, SaveReference(r) PROVE saved' \in [memory : Nat, file : Nat]
  <2>1. ReferenceToSave(r) \in Nat
    BY <1>1, <1>4 DEF SaveReference
  <2> QED BY <1>0, <1>4, <2>1 DEF SaveReference
<1>5. CASE NodeRestart
  <2>1. PICK file \in {saved.file} \cup UNION {{0, ReferenceToSave(r)} :
                                           r \in {q \in RunIds : Phase(q) = "saving"}} :
          saved' = [memory |-> 0, file |-> file]
    BY <1>5 DEF NodeRestart
  <2>2. file \in Nat
    BY <1>0, <1>1, <2>1
  <2> QED BY <2>1, <2>2
<1> QED
  BY <1>2, <1>3, <1>4, <1>5
  DEF ProofNext, NewWorkflow, SidecarRestart, PrepareProof, PrepareAgain, Prepares, Launch,
      Confirm, Fail, Settle, StartProof, SendCall, CallProceeds, CallServed, CallServedLate,
      CallRefused, Rejected, GiveUp, Return, Revoke, proofVars, allVars

LEMMA WorkflowTyped ==
    ASSUME PInv, Base, GatewayTypeOK', [ProofNext]_allVars
    PROVE  workflow' \in CtxIds \cup {None} /\ faults' \in Nat
<1>0. workflow \in CtxIds \cup {None} /\ faults \in Nat
  BY DEF Base, ProofTypeOK
<1>1. ASSUME NEW r \in RunIds,
             PrepareProof(r) \/ \E original \in RunIds : PrepareAgain(r, original)
      PROVE  workflow' \in CtxIds \cup {None} /\ UNCHANGED faults
  <2>1. workflow' = runs'[r].ctx /\ UNCHANGED faults
    BY <1>1, PreparingAddsRow DEF PrepareProof, PrepareAgain, Prepares
  <2>2. runs'[r] \in Run
    BY DEF GatewayTypeOK, TypeOK
  <2> QED BY <2>1, <2>2 DEF Run
<1>2. CASE NewWorkflow
  BY <1>0, <1>2 DEF NewWorkflow
<1>3. ASSUME UNCHANGED workflow, faults' = faults \/ faults' = faults + 1
      PROVE  workflow' \in CtxIds \cup {None} /\ faults' \in Nat
  BY <1>0, <1>3
<1>4. ASSUME NEW r \in RunIds, GiveUp(r) \/ SaveReference(r)
      PROVE  UNCHANGED workflow /\ (faults' = faults \/ faults' = faults + 1)
  BY <1>4 DEF GiveUp, SaveReference, Fault
<1>5. ASSUME SidecarRestart \/ NodeRestart
      PROVE  UNCHANGED workflow /\ (faults' = faults \/ faults' = faults + 1)
  BY <1>5 DEF SidecarRestart, NodeRestart, Fault
<1>6. ASSUME NEW r \in RunIds,
             \/ Launch(r) \/ Confirm(r) \/ Fail(r) \/ StartProof(r) \/ StartRetry(r)
             \/ SendCall(r) \/ CallProceeds(r) \/ CallServed(r) \/ CallServedLate(r)
             \/ CallRefused(r) \/ Rejected(r) \/ Return(r)
      PROVE  UNCHANGED <<workflow, faults>>
  BY <1>6 DEF Launch, StartRetry, Confirm, Fail, Settle, StartProof, SendCall, CallProceeds,
      CallServed, CallServedLate, CallRefused, Rejected, Return, proofVars
<1>7. ASSUME \/ \E c \in CtxIds : Revoke(c)
             \/ Tick /\ UNCHANGED <<gatewayVars, proofVars>>
             \/ UNCHANGED allVars
      PROVE  UNCHANGED <<workflow, faults>>
  BY <1>7 DEF Revoke, proofVars, allVars
<1> QED
  BY <1>0, <1>1, <1>2, <1>3, <1>4, <1>5, <1>6, <1>7 DEF ProofNext

(* RUNTIME_PROVIDER is set when the control plane is configured.           *)
LEMMA ProviderKept == [ProofNext]_allVars => UNCHANGED provider
BY DEF ProofNext, NewWorkflow, SidecarRestart, NodeRestart, PrepareProof, PrepareAgain,
       Prepares, Launch, Confirm, Fail, Settle, StartProof, StartRetry, SendCall,
       CallProceeds, CallServed, CallServedLate, CallRefused, Rejected, GiveUp,
       SaveReference, Return, Revoke, proofVars, allVars

(* The effect of each kind of move on the Runtime that makes it.           *)
LEMMA MoveEffects ==
    ASSUME ProofTypeOK, NEW r \in RunIds
    PROVE  /\ \A phase \in RuntimePhases : Enters(r, phase) =>
                /\ \A q \in RunIds \ {r} : runtime'[q] = runtime[q]
                /\ runtime'[r].phase = phase
                /\ runtime'[r].held = runtime[r].held
                /\ runtime'[r].prompt = runtime[r].prompt
           /\ Reloads(r) =>
                /\ \A q \in RunIds \ {r} : runtime'[q] = runtime[q]
                /\ runtime'[r].phase = "ready"
                /\ \E n \in Nat : runtime'[r].held = <<n>>
                /\ runtime'[r].prompt = runtime[r].prompt
           /\ \A n \in Nat : Holds(r, n) =>
                /\ \A q \in RunIds \ {r} : runtime'[q] = runtime[q]
                /\ runtime'[r].phase =
                      IF Fixture /\ runtime[r].prompt = "proof" /\ Made(r) + 1 = 5
                      THEN "saving" ELSE "ready"
                /\ runtime'[r].held = Append(runtime[r].held, n)
                /\ runtime'[r].prompt = runtime[r].prompt
           /\ \A prompt \in {"proof", "retry"} : Begins(r, prompt) =>
                /\ \A q \in RunIds \ {r} : runtime'[q] = runtime[q]
                /\ runtime'[r].phase = "prepared"
                /\ runtime'[r].held = runtime[r].held
                /\ runtime'[r].prompt = prompt
<1>0. runtime \in [RunIds -> Runtime] /\ runtime[r] \in Runtime
      /\ saved.memory \in Nat /\ saved.file \in Nat
  BY DEF ProofTypeOK
<1>1. ASSUME NEW phase \in RuntimePhases, Enters(r, phase)
      PROVE  /\ \A q \in RunIds \ {r} : runtime'[q] = runtime[q]
             /\ runtime'[r].phase = phase
             /\ runtime'[r].held = runtime[r].held
             /\ runtime'[r].prompt = runtime[r].prompt
  BY <1>1, RuntimeSet DEF Enters
<1>2. ASSUME Reloads(r)
      PROVE  /\ \A q \in RunIds \ {r} : runtime'[q] = runtime[q]
             /\ runtime'[r].phase = "ready"
             /\ \E n \in Nat : runtime'[r].held = <<n>>
             /\ runtime'[r].prompt = runtime[r].prompt
  BY <1>0, <1>2 DEF Reloads, Runtime
<1>3. ASSUME NEW n \in Nat, Holds(r, n)
      PROVE  /\ \A q \in RunIds \ {r} : runtime'[q] = runtime[q]
             /\ runtime'[r].phase =
                   IF Fixture /\ runtime[r].prompt = "proof" /\ Made(r) + 1 = 5
                   THEN "saving" ELSE "ready"
             /\ runtime'[r].held = Append(runtime[r].held, n)
             /\ runtime'[r].prompt = runtime[r].prompt
  BY <1>0, <1>3 DEF Holds, Runtime
<1>4. ASSUME NEW prompt \in {"proof", "retry"}, Begins(r, prompt)
      PROVE  /\ \A q \in RunIds \ {r} : runtime'[q] = runtime[q]
             /\ runtime'[r].phase = "prepared"
             /\ runtime'[r].held = runtime[r].held
             /\ runtime'[r].prompt = prompt
  BY <1>0, <1>4 DEF Begins, Runtime
<1> QED BY <1>1, <1>2, <1>3, <1>4

(* A restart ends the Runtimes that ran and keeps what they held.          *)
LEMMA RestartEffects ==
    ASSUME ProofTypeOK, NodeRestart, NEW q \in RunIds
    PROVE  /\ runtime'[q].phase = IF Phase(q) \in {"none", "over"} THEN Phase(q) ELSE "failed"
           /\ runtime'[q].held = runtime[q].held
           /\ runtime'[q].prompt = runtime[q].prompt
<1>1. runtime[q] \in Runtime
  BY DEF ProofTypeOK
<1> QED BY <1>1 DEF NodeRestart, Runtime, Phase

LEMMA SavingFiveKept ==
    ASSUME Base, Moves, [ProofNext]_allVars
    PROVE  SavingFive'
<1> SUFFICES ASSUME NEW q \in RunIds, runtime'[q].phase = "saving"
             PROVE  /\ Len(runtime'[q].held) = 5
                    /\ Fixture /\ runtime'[q].prompt = "proof"
  BY ProviderKept DEF SavingFive, Phase, Made, Fixture
<1>0. ProofTypeOK /\ SavingFive /\ runtime[q].held \in Seq(Nat)
  BY DEF Base, ProofTypeOK, Runtime
<1>1. CASE runtime'[q] = runtime[q]
  BY <1>0, <1>1 DEF SavingFive, Phase, Made, Fixture
<1>2. CASE NodeRestart
  BY <1>0, <1>2, RestartEffects
<1>3. ASSUME NEW n \in Nat, Holds(q, n)
      PROVE  /\ Len(runtime'[q].held) = 5
             /\ Fixture /\ runtime'[q].prompt = "proof"
  <2>1. /\ Fixture /\ runtime[q].prompt = "proof" /\ Made(q) + 1 = 5
        /\ runtime'[q].held = Append(runtime[q].held, n)
        /\ runtime'[q].prompt = runtime[q].prompt
    BY <1>0, <1>3, MoveEffects
  <2> QED BY <1>0, <2>1 DEF Made
<1>4. ASSUME NEW phase \in RuntimePhases, Enters(q, phase) PROVE FALSE
  BY <1>0, <1>4, MoveEffects DEF Enters
<1>5. ASSUME Reloads(q) \/ \E prompt \in {"proof", "retry"} : Begins(q, prompt) PROVE FALSE
  BY <1>0, <1>5, MoveEffects
<1> QED
  BY <1>0, <1>1, <1>2, <1>3, <1>4, <1>5, MoveEffects DEF Moves

LEMMA UntouchedKept ==
    ASSUME Base, PInv, PInv', IInv, [AuthorityNext]_authVars, Moves
    PROVE  Untouched'
<1> SUFFICES ASSUME NEW q \in RunIds
             PROVE  runtime'[q].phase = "none" <=> runs'[q].state = "NONE"
  BY DEF Untouched, Phase
<1>0. ProofTypeOK /\ (Phase(q) = "none" <=> runs[q].state = "NONE")
  BY DEF Base, Untouched
<1>1. runs[q].state # "NONE" => runs'[q].state # "NONE"
  BY AuthorityKeepsColumns DEF ColumnsKept
<1>2. CASE runtime'[q] = runtime[q] /\ (runs[q].state = "NONE" => runs'[q].state = "NONE")
  BY <1>0, <1>1, <1>2 DEF Phase
<1>3. CASE NodeRestart /\ NoNewRow
  BY <1>0, <1>1, <1>3, RestartEffects DEF NoNewRow
<1>4. ASSUME NEW phase \in RuntimePhases, Enters(q, phase)
      PROVE  runtime'[q].phase = "none" <=> runs'[q].state = "NONE"
  BY <1>0, <1>1, <1>4, MoveEffects DEF Enters
<1>5. ASSUME Reloads(q) PROVE runtime'[q].phase = "none" <=> runs'[q].state = "NONE"
  <2>1. runtime'[q].phase = "ready" /\ Phase(q) = "starting"
    BY <1>0, <1>5, MoveEffects DEF Reloads
  <2> QED BY <1>0, <1>1, <2>1
<1>6. ASSUME NEW n \in Nat, Holds(q, n)
      PROVE  runtime'[q].phase = "none" <=> runs'[q].state = "NONE"
  <2>1. runtime'[q].phase =
           IF Fixture /\ runtime[q].prompt = "proof" /\ Made(q) + 1 = 5
           THEN "saving" ELSE "ready"
    BY <1>0, <1>6, MoveEffects
  <2>2. Phase(q) = "waiting"
    BY <1>6 DEF Holds
  <2> QED BY <1>0, <1>1, <2>1, <2>2
<1>7. ASSUME NEW prompt \in {"proof", "retry"}, Begins(q, prompt)
      PROVE  runtime'[q].phase = "none" <=> runs'[q].state = "NONE"
  <2>1. runtime'[q].phase = "prepared" /\ runs'[q].state = "PREPARED"
    BY <1>0, <1>7, MoveEffects DEF Begins
  <2> QED BY <2>1
<1> QED
  BY <1>0, <1>2, <1>3, <1>4, <1>5, <1>6, <1>7, MoveEffects DEF Moves, NoNewRow, NoNewRowBut

LEMMA CallsOwnKept ==
    ASSUME PInv, Base, [ProofNext]_allVars
    PROVE  CallsOwn'
<1> USE ProofNumbering
<1>0. /\ calls \in [CallIds -> Call] /\ CallsOwn /\ RowsComplete /\ CapabilityBindsOneRun
  BY DEF PInv, GInv, IInv, GatewayTypeOK, Base
<1>1. CASE UNCHANGED calls
  BY <1>0, <1>1 DEF CallsOwn
<1>2. ASSUME NEW r \in RunIds, SendCall(r) PROVE CallsOwn'
  <2>1. PICK s \in RunIds :
          /\ runs[s].cap = runs[r].cap /\ runs[s].state = "ACTIVE"
          /\ calls' = [calls EXCEPT ![r] = [phase |-> "run_read", run |-> s]]
    BY <1>2 DEF SendCall, CallReadsRun
  <2>2. s = r
    BY <1>0, <2>1 DEF CapabilityBindsOneRun
  <2> QED BY <1>0, <2>1, <2>2 DEF CallsOwn
<1>3. ASSUME NEW r \in RunIds, CallProceeds(r) PROVE CallsOwn'
  <2>1. /\ calls[r].phase = "run_read"
        /\ \/ calls' = [calls EXCEPT ![r] = [calls[r] EXCEPT !.phase = "authenticated"]]
           \/ calls' = [calls EXCEPT ![r] = NoCall]
    BY <1>3 DEF CallProceeds, CallReadsContext
  <2>2. calls[r] \in Call
    BY <1>0
  <2> QED BY <1>0, <2>1, <2>2 DEF CallsOwn, NoCall, Call
<1>4. ASSUME NEW r \in RunIds, CallServed(r) \/ CallServedLate(r) \/ CallRefused(r)
      PROVE  CallsOwn'
  <2>1. /\ calls[r].phase = "authenticated"
        /\ \/ calls' = [calls EXCEPT ![r].phase = "failed"]
           \/ calls' = [calls EXCEPT ![r] = NoCall]
    BY <1>4 DEF CallServed, CallServedLate, CallRefused, Executes, ExecuteTool, ExecuteRefused
  <2>2. calls[r] \in Call
    BY <1>0
  <2> QED BY <1>0, <2>1, <2>2 DEF CallsOwn, NoCall, Call
<1>5. CASE SidecarRestart
  BY <1>5 DEF SidecarRestart, GatewayRestart, CallsOwn, NoCall
<1> QED
  BY <1>1, <1>2, <1>3, <1>4, <1>5
  DEF ProofNext, NewWorkflow, NodeRestart, PrepareProof, PrepareAgain, Prepares, Launch,
      Confirm, Fail, Settle, StartProof, StartRetry, Rejected, GiveUp, SaveReference, Return,
      Revoke, gatewayVars, vars, allVars

LEMMA RowsBoundedKept ==
    ASSUME Base, Moves
    PROVE  RowsBounded'
<1>1. PICK n \in Nat : \A r \in RunIds : runs[r].state # "NONE" => r =< n
  BY DEF Base, RowsBounded
<1>2. CASE NoNewRow
  BY <1>1, <1>2 DEF NoNewRow, RowsBounded
<1>3. ASSUME NEW r \in RunIds, NoNewRowBut(r) PROVE RowsBounded'
  <2>1. PICK m \in Nat : m = IF r =< n THEN n ELSE r
    BY ProofNumbering
  <2>2. ASSUME NEW q \in RunIds, runs'[q].state # "NONE" PROVE q =< m
    <3>1. q \in Nat /\ r \in Nat /\ (q = r \/ q =< n)
      BY <1>1, <1>3, <2>2, ProofNumbering DEF NoNewRowBut
    <3> QED BY <2>1, <3>1
  <2> QED BY <2>2 DEF RowsBounded
<1> QED BY <1>2, <1>3 DEF Moves

LEMMA BaseStep == PInv /\ Base /\ [ProofNext]_allVars => PInv' /\ Base'
<1> SUFFICES ASSUME PInv, Base, [ProofNext]_allVars PROVE PInv' /\ Base'
  OBVIOUS
<1>1. [GatewayNext]_vars
  BY StepOnGateway
<1>2. PInv'
  BY <1>1, ProvenanceStep
<1>3. GatewayTypeOK'
  BY <1>2 DEF PInv, GInv
<1>4. Moves
  BY <1>3, StepMoves
<1>5. [AuthorityNext]_authVars
  BY <1>1, GatewayStepOnAuthority
<1>6. ProofTypeOK'
  <2>1. provider' \in Providers
    BY ProviderKept DEF Base, ProofTypeOK
  <2> QED BY <1>3, <1>4, <2>1, MovesKeepRuntimeType, SavedTyped, WorkflowTyped DEF ProofTypeOK
<1>7. IInv
  BY DEF PInv, GInv
<1> QED
  BY <1>2, <1>4, <1>5, <1>6, <1>7, SavingFiveKept, UntouchedKept, CallsOwnKept, RowsBoundedKept
  DEF Base

LEMMA BaseInit == ProofInit => PInv /\ Base
<1> SUFFICES ASSUME ProofInit PROVE PInv /\ Base
  OBVIOUS
<1>1. PInv
  BY ProvenanceInit DEF ProofInit
<1>2. ProofTypeOK
  <2>1. NoRuntime \in Runtime
    BY DEF NoRuntime, Runtime, RuntimePhases
  <2> QED BY <2>1 DEF ProofInit, ProofTypeOK
<1>3. \A r \in RunIds : runtime[r] = NoRuntime /\ runs[r].state = "NONE"
  BY DEF ProofInit, GatewayInit, Init, NoRun
<1>4. SavingFive /\ Untouched
  BY <1>3 DEF SavingFive, Untouched, Phase, NoRuntime
<1>5. CallsOwn
  BY DEF ProofInit, GatewayInit, CallsOwn, NoCall
<1>6. RowsBounded
  BY <1>3 DEF RowsBounded
<1> QED BY <1>1, <1>2, <1>4, <1>5, <1>6 DEF Base

(* It holds in every reachable state of the proof workflow.                *)
THEOREM ProofBase == ProofSpec => [](PInv /\ Base)
BY BaseInit, BaseStep, PTL DEF ProofSpec

(* The proof workflow implements the gateway: every step of a Runtime, of  *)
(* the control plane and of the operator is one of its handlers or leaves  *)
(* its tables alone.                                                       *)
THEOREM ProofKeepsGateway == ProofSpec => GatewaySpec
<1>1. ProofInit => GatewayInit
  BY DEF ProofInit
<1>2. PInv /\ Base /\ [ProofNext]_allVars => [GatewayNext]_vars
  BY StepOnGateway
<1> QED BY <1>1, <1>2, ProofBase, PTL DEF ProofSpec, GatewaySpec

(* What the runs of the proof workflow check of its evidence follows.      *)
THEOREM ProofEvidenceIsSound ==
    ProofSpec => [](NoPaymentReidentification /\ NoCallFails /\ CounterMatchesReceipts)
BY ProofKeepsGateway, PaymentsAreNotReidentified, CallsNeverFail, CounterCountsSuccesses, PTL

-----------------------------------------------------------------------------
(* The greedy search.  What one step of it finds among the numbers of S:   *)
(* the first one after start, or 0 when there is none.                     *)
Finds(x, S, start) ==
    \/ x = 0 /\ \A n \in S : ~(n > start)
    \/ x \in S /\ x > start /\ \A n \in S : n > start => x =< n

LEMMA AfterFinds ==
    ASSUME GatewayTypeOK, NEW c, NEW start \in Nat, NEW P
    PROVE  Finds(After(c, start, P), EvidenceOf(c) \cap P, start) /\ After(c, start, P) \in Nat
<1> DEFINE S == {n \in EvidenceOf(c) \cap P : n > start}
<1>1. EvidenceOf(c) \subseteq Nat
  BY DEF GatewayTypeOK, EvidenceOf
<1>2. S \subseteq Nat
  BY <1>1
<1>3. After(c, start, P) = First(S)
  BY DEF After
<1>4. CASE S = {}
  BY <1>3, <1>4 DEF First, Finds
<1>5. CASE S # {}
  <2>1. Min(S) \in S /\ \A y \in S : Min(S) =< y
    BY <1>2, <1>5, MinIsLeast
  <2>2. After(c, start, P) = Min(S)
    BY <1>3, <1>5 DEF First
  <2> QED BY <1>2, <2>1, <2>2 DEF Finds
<1> QED BY <1>4, <1>5

(* Along the receipts of a context the CRM counter never decreases.        *)
LEMMA CounterGrows ==
    ASSUME GatewayTypeOK, CounterMatchesReceipts,
           NEW m \in DOMAIN receipts, NEW n \in DOMAIN receipts, m =< n,
           receipts[m].ctx = receipts[n].ctx,
           receipts[m].tool = "crm.resolve_customer",
           receipts[n].tool = "crm.resolve_customer"
    PROVE  receipts[m].after =< receipts[n].after
<1> DEFINE c == receipts[n].ctx
<1>1. m \in Nat /\ n \in Nat
  BY DEF GatewayTypeOK
<1>2. IsFiniteSet(CrmSuccessesUpTo(c, n))
  BY <1>1, SuccessesFinite
<1>3. CrmSuccessesUpTo(c, m) \subseteq CrmSuccessesUpTo(c, n)
  BY <1>1 DEF CrmSuccessesUpTo
<1>4. Cardinality(CrmSuccessesUpTo(c, m)) =< Cardinality(CrmSuccessesUpTo(c, n))
  BY <1>2, <1>3, FS_Subset
<1> QED BY <1>4 DEF CounterMatchesReceipts

(* The ten searches of the validation, by what each of them finds.         *)
CounterAt(denial) == IF denial = 0 THEN 0 ELSE receipts[denial].after

Searches(i, c) ==
    LET evidence == EvidenceOf(c)
        supports == evidence \cap AllowedReceipts("support.list_tickets")
        cases == evidence \cap AllowedReceipts("cases.lookup_subject")
    IN  /\ Finds(i.support, supports, 0)
        /\ Finds(i.case, cases, i.support)
        /\ Finds(i.baseline, evidence \cap FirstResolutions, i.case)
        /\ Finds(i.payment, evidence \cap AllowedReceipts("payments.list_failures"), 0)
        /\ Finds(i.paid, cases, i.payment)
        /\ Finds(i.denial, evidence \cap DeniedCrm, i.paid)
        /\ Finds(i.aggregate,
                 evidence \cap AllowedReceipts("payments.aggregate_failures"), i.denial)
        /\ Finds(i.fresh, supports, i.denial)
        /\ Finds(i.freshCase, cases, i.fresh)
        /\ Finds(i.recovery, evidence \cap ResolutionsFrom(CounterAt(i.denial)), i.freshCase)

IndexNames == {"support", "case", "baseline", "payment", "paid", "denial", "aggregate",
               "fresh", "freshCase", "recovery"}

LEMMA IndexesSearch ==
    ASSUME GatewayTypeOK, NEW c
    PROVE  /\ Indexes(c) \in [IndexNames -> Nat]
           /\ Searches(Indexes(c), c)
<1>1. PICK support : support = After(c, 0, AllowedReceipts("support.list_tickets"))
  OBVIOUS
<1>2. support \in Nat
  BY <1>1, AfterFinds
<1>3. PICK case : case = After(c, support, AllowedReceipts("cases.lookup_subject"))
  OBVIOUS
<1>4. case \in Nat
  BY <1>2, <1>3, AfterFinds
<1>5. PICK baseline : baseline = After(c, case, FirstResolutions)
  OBVIOUS
<1>6. PICK payment : payment = After(c, 0, AllowedReceipts("payments.list_failures"))
  OBVIOUS
<1>7. payment \in Nat
  BY <1>6, AfterFinds
<1>8. PICK paid : paid = After(c, payment, AllowedReceipts("cases.lookup_subject"))
  OBVIOUS
<1>9. paid \in Nat
  BY <1>7, <1>8, AfterFinds
<1>10. PICK denial : denial = After(c, paid, DeniedCrm)
  OBVIOUS
<1>11. denial \in Nat
  BY <1>9, <1>10, AfterFinds
<1>12. PICK aggregate :
         aggregate = After(c, denial, AllowedReceipts("payments.aggregate_failures"))
  OBVIOUS
<1>13. PICK fresh : fresh = After(c, denial, AllowedReceipts("support.list_tickets"))
  OBVIOUS
<1>14. fresh \in Nat
  BY <1>11, <1>13, AfterFinds
<1>15. PICK freshCase : freshCase = After(c, fresh, AllowedReceipts("cases.lookup_subject"))
  OBVIOUS
<1>16. freshCase \in Nat
  BY <1>14, <1>15, AfterFinds
<1>17. PICK recovery : recovery = After(c, freshCase, ResolutionsFrom(CounterAt(denial)))
  OBVIOUS
<1>18. Indexes(c) =
         [support |-> support, case |-> case, baseline |-> baseline, payment |-> payment,
          paid |-> paid, denial |-> denial, aggregate |-> aggregate, fresh |-> fresh,
          freshCase |-> freshCase, recovery |-> recovery]
  BY <1>1, <1>3, <1>5, <1>6, <1>8, <1>10, <1>12, <1>13, <1>15, <1>17 DEF Indexes, CounterAt
<1>19. /\ Finds(support, EvidenceOf(c) \cap AllowedReceipts("support.list_tickets"), 0)
       /\ Finds(case, EvidenceOf(c) \cap AllowedReceipts("cases.lookup_subject"), support)
       /\ Finds(baseline, EvidenceOf(c) \cap FirstResolutions, case)
       /\ baseline \in Nat
  BY <1>1, <1>2, <1>3, <1>4, <1>5, AfterFinds
<1>20. /\ Finds(payment, EvidenceOf(c) \cap AllowedReceipts("payments.list_failures"), 0)
       /\ Finds(paid, EvidenceOf(c) \cap AllowedReceipts("cases.lookup_subject"), payment)
       /\ Finds(denial, EvidenceOf(c) \cap DeniedCrm, paid)
  BY <1>6, <1>7, <1>8, <1>9, <1>10, AfterFinds
<1>21. /\ Finds(aggregate,
                EvidenceOf(c) \cap AllowedReceipts("payments.aggregate_failures"), denial)
       /\ aggregate \in Nat
       /\ Finds(fresh, EvidenceOf(c) \cap AllowedReceipts("support.list_tickets"), denial)
       /\ Finds(freshCase, EvidenceOf(c) \cap AllowedReceipts("cases.lookup_subject"), fresh)
  BY <1>11, <1>12, <1>13, <1>14, <1>15, AfterFinds
<1>22. /\ Finds(recovery, EvidenceOf(c) \cap ResolutionsFrom(CounterAt(denial)), freshCase)
       /\ recovery \in Nat
  BY <1>16, <1>17, AfterFinds
<1>23. Indexes(c) \in [IndexNames -> Nat]
  BY <1>2, <1>4, <1>7, <1>9, <1>11, <1>14, <1>16, <1>18, <1>19, <1>21, <1>22 DEF IndexNames
<1>24. Searches(Indexes(c), c)
  BY <1>18, <1>19, <1>20, <1>21, <1>22 DEF Searches
<1> QED BY <1>23, <1>24

(* What the searches find is found everywhere when it is there at all:     *)
(* each stops no later than any chain passes.                              *)
LEMMA FoundBy ==
    ASSUME NEW S, S \subseteq Nat, NEW start \in Nat, NEW x \in Nat, Finds(x, S, start),
           NEW n \in S, n > start
    PROVE  x # 0 /\ x =< n
BY DEF Finds

LEMMA SearchFindsChains ==
    ASSUME GatewayTypeOK, CounterMatchesReceipts, NEW c, Chains(c)
    PROVE  Validated(c)
<1> DEFINE evidence == EvidenceOf(c)
           supports == evidence \cap AllowedReceipts("support.list_tickets")
           cases == evidence \cap AllowedReceipts("cases.lookup_subject")
           payments == evidence \cap AllowedReceipts("payments.list_failures")
           aggregates == evidence \cap AllowedReceipts("payments.aggregate_failures")
           x == Indexes(c)
<1>1. \A T : evidence \cap T \subseteq Nat
  BY DEF EvidenceOf, GatewayTypeOK
<1>2. x \in [IndexNames -> Nat] /\ Searches(x, c)
  BY IndexesSearch
<1>3. PICK i \in supports, k \in evidence \cap FirstResolutions :
        /\ 0 < i /\ i < k
        /\ \E j \in cases : i < j /\ j < k
  BY DEF Chains, Chain
<1>4. PICK j \in cases : i < j /\ j < k
  BY <1>3
<1>5. PICK d \in evidence \cap DeniedCrm :
        /\ Chain(0, payments, cases, {d})
        /\ \E n \in aggregates : n > d
        /\ Chain(d, supports, cases, evidence \cap ResolutionsFrom(receipts[d].after))
  BY DEF Chains
<1>6. PICK i2 \in payments, j2 \in cases : 0 < i2 /\ i2 < j2 /\ j2 < d
  BY <1>5 DEF Chain
<1>7. PICK n \in aggregates : n > d
  BY <1>5
<1>8. PICK i3 \in supports, j3 \in cases,
           k3 \in evidence \cap ResolutionsFrom(receipts[d].after) :
        d < i3 /\ i3 < j3 /\ j3 < k3
  BY <1>5 DEF Chain
<1>9. /\ i \in Nat /\ j \in Nat /\ k \in Nat /\ d \in Nat /\ i2 \in Nat /\ j2 \in Nat
      /\ n \in Nat /\ i3 \in Nat /\ j3 \in Nat /\ k3 \in Nat
  BY <1>1
<1>10. /\ Finds(x.support, supports, 0) /\ Finds(x.case, cases, x.support)
       /\ Finds(x.baseline, evidence \cap FirstResolutions, x.case)
       /\ Finds(x.payment, payments, 0) /\ Finds(x.paid, cases, x.payment)
       /\ Finds(x.denial, evidence \cap DeniedCrm, x.paid)
       /\ Finds(x.aggregate, aggregates, x.denial)
       /\ Finds(x.fresh, supports, x.denial) /\ Finds(x.freshCase, cases, x.fresh)
       /\ Finds(x.recovery, evidence \cap ResolutionsFrom(CounterAt(x.denial)), x.freshCase)
  BY <1>2 DEF Searches
<1>11. \A name \in IndexNames : x[name] \in Nat
  BY <1>2
<1>12. /\ x.support \in Nat /\ x.case \in Nat /\ x.baseline \in Nat /\ x.payment \in Nat
       /\ x.paid \in Nat /\ x.denial \in Nat /\ x.aggregate \in Nat /\ x.fresh \in Nat
       /\ x.freshCase \in Nat /\ x.recovery \in Nat
  BY <1>11 DEF IndexNames
<1>13. /\ supports \subseteq Nat /\ cases \subseteq Nat /\ payments \subseteq Nat
       /\ aggregates \subseteq Nat
  BY <1>1
<1>14. evidence \cap DeniedCrm \subseteq evidence /\ d \in DOMAIN receipts
  BY DEF EvidenceOf
<1>15. \A counter : evidence \cap ResolutionsFrom(counter) \subseteq Nat
  BY <1>1
<1>16. evidence \cap FirstResolutions \subseteq Nat /\ evidence \cap DeniedCrm \subseteq Nat
  BY <1>1
<1> HIDE DEF x, supports, cases, payments, aggregates
<1>17. x.support # 0 /\ x.support =< i
  BY <1>3, <1>9, <1>10, <1>12, <1>13, FoundBy
<1>18. x.case # 0 /\ x.case =< j
  <2>1. j > x.support
    BY <1>4, <1>9, <1>12, <1>17
  <2> QED BY <2>1, <1>10, <1>12, <1>13, FoundBy
<1>19. x.baseline # 0
  <2>1. k > x.case
    BY <1>4, <1>9, <1>12, <1>18
  <2> QED BY <2>1, <1>10, <1>12, <1>16, FoundBy
<1>20. x.payment # 0 /\ x.payment =< i2
  BY <1>6, <1>9, <1>10, <1>12, <1>13, FoundBy
<1>21. x.paid # 0 /\ x.paid =< j2
  <2>1. j2 > x.payment
    BY <1>6, <1>9, <1>12, <1>20
  <2> QED BY <2>1, <1>10, <1>12, <1>13, FoundBy
<1>22. x.denial # 0 /\ x.denial =< d
  <2>1. d > x.paid
    BY <1>6, <1>9, <1>12, <1>21
  <2> QED BY <2>1, <1>10, <1>12, <1>16, FoundBy
<1>23. x.aggregate # 0
  <2>1. n > x.denial
    BY <1>7, <1>9, <1>12, <1>22
  <2> QED BY <2>1, <1>10, <1>12, <1>13, FoundBy
<1>24. x.fresh # 0 /\ x.fresh =< i3
  <2>1. i3 > x.denial
    BY <1>8, <1>9, <1>12, <1>22
  <2> QED BY <2>1, <1>10, <1>12, <1>13, FoundBy
<1>25. x.freshCase # 0 /\ x.freshCase =< j3
  <2>1. j3 > x.fresh
    BY <1>8, <1>9, <1>12, <1>24
  <2> QED BY <2>1, <1>10, <1>12, <1>13, FoundBy
<1>26. x.recovery # 0
  <2>1. k3 > x.freshCase
    BY <1>8, <1>9, <1>12, <1>25
  <2>2. x.denial \in evidence \cap DeniedCrm
    BY <1>10, <1>22 DEF Finds
  <2>3. receipts[x.denial].after =< receipts[d].after
    BY <1>14, <1>22, <2>2, CounterGrows DEF EvidenceOf, DeniedCrm
  <2>4. receipts[k3].before >= receipts[d].after /\ k3 \in DOMAIN receipts
    BY DEF ResolutionsFrom, EvidenceOf
  <2>5. /\ receipts[k3].before \in Nat /\ receipts[d].after \in Nat
        /\ receipts[x.denial].after \in Nat
    <3>1. x.denial \in DOMAIN receipts
      BY <2>2 DEF EvidenceOf
    <3>2. /\ receipts[k3] \in Receipt /\ receipts[d] \in Receipt
          /\ receipts[x.denial] \in Receipt
      BY <1>14, <2>4, <3>1 DEF GatewayTypeOK
    <3> QED BY <3>2 DEF Receipt
  <2>6. receipts[k3].before >= receipts[x.denial].after
    BY <2>3, <2>4, <2>5
  <2>7. CounterAt(x.denial) = receipts[x.denial].after
    BY <1>22 DEF CounterAt
  <2>8. k3 \in evidence \cap ResolutionsFrom(CounterAt(x.denial))
    BY <2>6, <2>7 DEF ResolutionsFrom
  <2> QED BY <2>1, <2>8, <1>9, <1>10, <1>12, <1>15, FoundBy
<1>27. DOMAIN x = IndexNames
  BY <1>2
<1>28. \A name \in IndexNames : x[name] # 0
  BY <1>17, <1>18, <1>19, <1>20, <1>21, <1>22, <1>23, <1>24, <1>25, <1>26 DEF IndexNames
<1> QED BY <1>27, <1>28 DEF Validated, x

LEMMA ChainsAreFound ==
    ASSUME GatewayTypeOK, NEW c, Validated(c)
    PROVE  Chains(c)
<1> DEFINE evidence == EvidenceOf(c)
           supports == evidence \cap AllowedReceipts("support.list_tickets")
           cases == evidence \cap AllowedReceipts("cases.lookup_subject")
           payments == evidence \cap AllowedReceipts("payments.list_failures")
           aggregates == evidence \cap AllowedReceipts("payments.aggregate_failures")
           x == Indexes(c)
<1>1. x \in [IndexNames -> Nat] /\ Searches(x, c)
  BY IndexesSearch
<1>2. \A name \in IndexNames : x[name] \in Nat \ {0}
  BY <1>1 DEF Validated
<1>3. /\ x.support # 0 /\ x.case # 0 /\ x.baseline # 0 /\ x.payment # 0
      /\ x.paid # 0 /\ x.denial # 0 /\ x.aggregate # 0 /\ x.fresh # 0
      /\ x.freshCase # 0 /\ x.recovery # 0
  BY <1>2 DEF IndexNames
<1>4. /\ x.support \in Nat /\ x.case \in Nat /\ x.baseline \in Nat /\ x.payment \in Nat
      /\ x.paid \in Nat /\ x.denial \in Nat /\ x.aggregate \in Nat /\ x.fresh \in Nat
      /\ x.freshCase \in Nat /\ x.recovery \in Nat
  BY <1>2 DEF IndexNames
<1>5. /\ x.support \in supports /\ x.support > 0
      /\ x.case \in cases /\ x.case > x.support
      /\ x.baseline \in evidence \cap FirstResolutions /\ x.baseline > x.case
  BY <1>1, <1>3 DEF Searches, Finds
<1>6. /\ x.payment \in payments /\ x.payment > 0
      /\ x.paid \in cases /\ x.paid > x.payment
      /\ x.denial \in evidence \cap DeniedCrm /\ x.denial > x.paid
      /\ x.aggregate \in aggregates /\ x.aggregate > x.denial
  BY <1>1, <1>3 DEF Searches, Finds
<1>7. /\ x.fresh \in supports /\ x.fresh > x.denial
      /\ x.freshCase \in cases /\ x.freshCase > x.fresh
      /\ x.recovery \in evidence \cap ResolutionsFrom(receipts[x.denial].after)
      /\ x.recovery > x.freshCase
  BY <1>1, <1>3 DEF Searches, Finds, CounterAt
<1> HIDE DEF x, supports, cases, payments, aggregates
<1>8. Chain(0, supports, cases, evidence \cap FirstResolutions)
  BY <1>4, <1>5 DEF Chain
<1>9. Chain(0, payments, cases, {x.denial})
  BY <1>4, <1>6 DEF Chain
<1>10. Chain(x.denial, supports, cases,
             evidence \cap ResolutionsFrom(receipts[x.denial].after))
  BY <1>4, <1>7 DEF Chain
<1> QED BY <1>6, <1>8, <1>9, <1>10 DEF Chains, supports, cases, payments, aggregates

(* The control plane accepts exactly the receipts that contain the three   *)
(* chains and the aggregate, in every state of the proof workflow.         *)
LEMMA SearchIsExact == GatewayTypeOK /\ CounterMatchesReceipts => ValidationIsExact
<1> SUFFICES ASSUME GatewayTypeOK, CounterMatchesReceipts, NEW c \in CtxIds
             PROVE  Validated(c) <=> Chains(c)
  BY DEF ValidationIsExact, Validated, Chains, Chain
<1> QED BY SearchFindsChains, ChainsAreFound

(* validateMandateFlowProof accepts a workflow exactly when its evidence    *)
(* holds the chain of the proof: the greedy searches of                    *)
(* mandateflow-proof.ts overlook no chain and accept nothing else.         *)
THEOREM ValidationAcceptsExactlyTheProof == ProofSpec => []ValidationIsExact
<1>1. PInv => GatewayTypeOK
  BY DEF PInv, GInv
<1> QED BY <1>1, ProofBase, ProofEvidenceIsSound, SearchIsExact, PTL

-----------------------------------------------------------------------------
(* Confirmation.  Evidence only grows, so what was a proof stays one; and  *)
(* only Confirm completes a Run.                                           *)
Grows ==
    /\ \A n \in DOMAIN receipts : n \in DOMAIN receipts' /\ receipts'[n] = receipts[n]
    /\ \A i \in DOMAIN refs : i \in DOMAIN refs' /\ refs'[i] = refs[i]

LEMMA EvidenceGrows ==
    ASSUME PInv, [GatewayNext]_vars
    PROVE  Grows
<1>0. refs \in Seq(Reference) /\ receipts \in Seq(Receipt) /\ GInv
  BY DEF PInv, GInv, GatewayTypeOK
<1>1. CASE UNCHANGED <<refs, receipts, counters>>
  BY <1>1 DEF Grows
<1>2. ASSUME NEW r \in RunIds, NEW tool \in Tools, NEW i \in 0..Len(refs),
             Record(r, tool, i, Decide(r, tool, i))
      PROVE  Grows
  <2>1. \A n \in DOMAIN receipts : n \in DOMAIN receipts' /\ receipts'[n] = receipts[n]
    BY <1>0, <1>2 DEF Record
  <2>2. \A q \in DOMAIN refs : q \in DOMAIN refs' /\ refs'[q] = refs[q]
    BY <1>0, <1>2 DEF Record
  <2> QED BY <2>1, <2>2 DEF Grows
<1> QED BY <1>0, <1>1, <1>2, EvidenceStep

LEMMA ChainsGrow ==
    ASSUME Grows, NEW c, Chains(c)
    PROVE  Chains(c)'
<1> DEFINE supports == EvidenceOf(c) \cap AllowedReceipts("support.list_tickets")
           cases == EvidenceOf(c) \cap AllowedReceipts("cases.lookup_subject")
           payments == EvidenceOf(c) \cap AllowedReceipts("payments.list_failures")
           aggregates == EvidenceOf(c) \cap AllowedReceipts("payments.aggregate_failures")
           baselines == EvidenceOf(c) \cap FirstResolutions
           denials == EvidenceOf(c) \cap DeniedCrm
           recoveries(d) == EvidenceOf(c) \cap ResolutionsFrom(receipts[d].after)
<1>1. supports \subseteq supports' /\ cases \subseteq cases' /\ payments \subseteq payments'
  BY DEF Grows, EvidenceOf, AllowedReceipts
<1>2. aggregates \subseteq aggregates' /\ baselines \subseteq baselines'
  BY DEF Grows, EvidenceOf, AllowedReceipts, FirstResolutions
<1>3. denials \subseteq denials'
  BY DEF Grows, EvidenceOf, DeniedCrm
<1>4. ASSUME NEW d \in denials
      PROVE  recoveries(d) \subseteq EvidenceOf(c)' \cap ResolutionsFrom(receipts[d].after)'
  BY DEF Grows, EvidenceOf, AllowedReceipts, DeniedCrm, ResolutionsFrom
<1>5. ASSUME NEW start, NEW A, NEW B, NEW C, NEW A2, NEW B2, NEW C2,
             A \subseteq A2, B \subseteq B2, C \subseteq C2, Chain(start, A, B, C)
      PROVE  Chain(start, A2, B2, C2)
  BY <1>5 DEF Chain
<1>6. /\ Chain(0, supports, cases, baselines)
      /\ \E d \in denials :
            /\ Chain(0, payments, cases, {d})
            /\ \E n \in aggregates : n > d
            /\ Chain(d, supports, cases, recoveries(d))
  BY DEF Chains
<1>7. PICK d \in denials :
        /\ Chain(0, payments, cases, {d})
        /\ \E n \in aggregates : n > d
        /\ Chain(d, supports, cases, recoveries(d))
  BY <1>6
<1> HIDE DEF supports, cases, payments, aggregates, baselines, denials
<1>8. Chain(0, supports', cases', baselines')
  BY <1>1, <1>2, <1>5, <1>6
<1>9. Chain(0, payments', cases', {d})
  BY <1>1, <1>5, <1>7
<1>10. Chain(d, supports', cases', EvidenceOf(c)' \cap ResolutionsFrom(receipts[d].after)')
  BY <1>1, <1>4, <1>5, <1>7
<1>11. d \in denials' /\ \E n \in aggregates' : n > d
  BY <1>2, <1>3, <1>7
<1> QED
  BY <1>8, <1>9, <1>10, <1>11
  DEF Chains, supports, cases, payments, aggregates, baselines, denials, Chain

(* A Run is completed only by a confirmation, and that of a proof only     *)
(* when its receipts are validated.                                        *)
Confirmable(r) ==
    /\ Phase(r) = "returned"
    /\ runtime[r].prompt = "proof" => Validated(runs[r].ctx)

LEMMA CompletionConfirms ==
    ASSUME PInv, Base, [ProofNext]_allVars, NEW q \in RunIds, runs'[q].state = "COMPLETED"
    PROVE  runs[q].state = "COMPLETED" \/ (Confirmable(q) /\ Enters(q, "over"))
<1>1. TypeOK /\ runs \in [RunIds -> Run]
  BY DEF PInv, GInv, IInv, TypeOK
<1>2. CASE UNCHANGED runs
  BY <1>2
<1>3. ASSUME NEW r \in RunIds,
             PrepareProof(r) \/ \E original \in RunIds : PrepareAgain(r, original)
      PROVE  runs[q].state = "COMPLETED"
  <2>1. runs'[r].state = "PREPARED" /\ \A s \in RunIds \ {r} : runs'[s] = runs[s]
    BY <1>3, PreparingAddsRow DEF Begins
  <2> QED BY <2>1
<1>4. ASSUME NEW r \in RunIds, NEW s, s # "COMPLETED", SetState(r, s)
      PROVE  runs[q].state = "COMPLETED"
  <2>1. r = q => runs'[q].state = s
    BY <1>1, <1>4 DEF SetState, Run
  <2>2. r # q => runs'[q] = runs[q]
    BY <1>1, <1>4 DEF SetState
  <2> QED BY <1>4, <2>1, <2>2
<1>5. ASSUME NEW r \in RunIds, Launch(r) PROVE runs[q].state = "COMPLETED"
  <2>1. SetState(r, "ACTIVE") \/ SetState(r, "EXPIRED")
    BY <1>5 DEF Launch, Activate, ActivateLate
  <2> QED BY <1>4, <2>1
<1>6. ASSUME NEW r \in RunIds, Confirm(r)
      PROVE  runs[q].state = "COMPLETED" \/ (Confirmable(q) /\ Enters(q, "over"))
  <2>1. CASE q = r
    <3>1. Confirmable(q)
      BY <1>6, <2>1 DEF Confirm, Confirmable
    <3>2. Enters(q, "over")
      BY <1>6, <2>1 DEF Confirm, Settle, Enters, RuntimePhases
    <3> QED BY <3>1, <3>2
  <2>2. CASE q # r
    <3>1. SetState(r, "COMPLETED") \/ UNCHANGED runs
      BY <1>6 DEF Confirm, Settle, Finish, authVars
    <3>2. runs'[q] = runs[q]
      BY <1>1, <2>2, <3>1 DEF SetState
    <3> QED BY <3>2
  <2> QED BY <2>1, <2>2
<1>7. ASSUME NEW r \in RunIds, Fail(r) PROVE runs[q].state = "COMPLETED"
  <2>1. SetState(r, "FAILED") \/ UNCHANGED runs
    BY <1>7 DEF Fail, Settle, Finish, authVars
  <2> QED BY <1>4, <2>1
<1>8. ASSUME NEW c \in CtxIds, Revoke(c) PROVE runs[q].state = "COMPLETED"
  BY <1>1, <1>8 DEF Revoke, RevokeMandate
<1>9. ASSUME SidecarRestart PROVE runs[q].state = "COMPLETED"
  BY <1>1, <1>9 DEF SidecarRestart, GatewayRestart, Restart
<1>10. ASSUME NEW r \in RunIds,
              \/ StartProof(r) \/ StartRetry(r) \/ SendCall(r) \/ CallProceeds(r)
              \/ CallServed(r) \/ CallServedLate(r) \/ CallRefused(r)
              \/ Rejected(r) \/ GiveUp(r) \/ SaveReference(r) \/ Return(r)
       PROVE  UNCHANGED runs
  BY <1>10
  DEF StartProof, StartRetry, SendCall, CallReadsRun, CallProceeds, CallReadsContext,
      CallServed, CallServedLate, Executes, ExecuteTool, CallRefused, ExecuteRefused, Rejected,
      GiveUp, SaveReference, Return, authVars, vars
<1>11. ASSUME NewWorkflow \/ NodeRestart \/ Tick \/ UNCHANGED allVars PROVE UNCHANGED runs
  BY <1>11 DEF NewWorkflow, NodeRestart, Tick, authVars, vars, allVars
<1>12. CASE UNCHANGED runs \/ SidecarRestart \/ \E c \in CtxIds : Revoke(c)
  BY <1>2, <1>8, <1>9, <1>12
<1>13. CASE \E r \in RunIds :
              \/ PrepareProof(r) \/ \E original \in RunIds : PrepareAgain(r, original)
              \/ Launch(r) \/ Confirm(r) \/ Fail(r)
  BY <1>3, <1>5, <1>6, <1>7, <1>13
<1> QED
  BY <1>10, <1>11, <1>12, <1>13 DEF ProofNext

(* The moves as one Runtime sees them.                                     *)
OwnMove(q) ==
    \/ runtime'[q] = runtime[q]
    \/ NodeRestart
    \/ \E phase \in RuntimePhases : Enters(q, phase)
    \/ Reloads(q)
    \/ \E n \in Nat : Holds(q, n)
    \/ \E prompt \in {"proof", "retry"} : Begins(q, prompt)

LEMMA MovesOfOne ==
    ASSUME ProofTypeOK, Moves, NEW q \in RunIds
    PROVE  OwnMove(q)
<1>1. CASE UNCHANGED runtime \/ NodeRestart
  BY <1>1 DEF OwnMove
<1>2. ASSUME NEW r \in RunIds, NEW phase \in RuntimePhases, Enters(r, phase)
      PROVE  OwnMove(q)
  BY <1>2, MoveEffects DEF OwnMove
<1>3. ASSUME NEW r \in RunIds, Reloads(r) PROVE OwnMove(q)
  BY <1>3, MoveEffects DEF OwnMove
<1>4. ASSUME NEW r \in RunIds, NEW n \in Nat, Holds(r, n) PROVE OwnMove(q)
  BY <1>4, MoveEffects DEF OwnMove
<1>5. ASSUME NEW r \in RunIds, NEW prompt \in {"proof", "retry"}, Begins(r, prompt)
      PROVE  OwnMove(q)
  BY <1>5, MoveEffects DEF OwnMove
<1> QED BY <1>1, <1>2, <1>3, <1>4, <1>5 DEF Moves

LEMMA PromptKept ==
    ASSUME ProofTypeOK, Moves, NEW q \in RunIds, Phase(q) # "none"
    PROVE  runtime'[q].prompt = runtime[q].prompt
<1>1. OwnMove(q)
  BY MovesOfOne
<1>2. ~ \E prompt \in {"proof", "retry"} : Begins(q, prompt)
  BY DEF Begins
<1>3. CASE NodeRestart
  BY <1>3, RestartEffects
<1> QED BY <1>1, <1>2, <1>3, MoveEffects DEF OwnMove

(* A confirmed proof is still one.                                         *)
ProofsConfirmed ==
    \A r \in RunIds, c \in CtxIds :
        runs[r].state = "COMPLETED" /\ runtime[r].prompt = "proof" /\ c = runs[r].ctx
        => Chains(c)

LEMMA ProofsConfirmedKept ==
    ASSUME PInv, Base, Moves, Grows, ColumnsKept, SettledStep, ProofsConfirmed,
           [ProofNext]_allVars
    PROVE  ProofsConfirmed'
<1> SUFFICES ASSUME NEW r \in RunIds, NEW c \in CtxIds,
                    runs'[r].state = "COMPLETED", runtime'[r].prompt = "proof",
                    c = runs'[r].ctx
             PROVE  Chains(c)'
  BY DEF ProofsConfirmed
<1>1. runs[r].state = "COMPLETED" \/ Confirmable(r)
  BY CompletionConfirms
<1>2. Phase(r) # "none" /\ runs[r].state # "NONE"
  BY <1>1 DEF Base, Untouched, Confirmable
<1>3. runtime[r].prompt = "proof"
  BY <1>2, PromptKept DEF Base
<1>4. c = runs[r].ctx
  BY <1>2 DEF ColumnsKept
<1>5. Chains(c)
  <2>1. CASE runs[r].state = "COMPLETED"
    BY <1>3, <1>4, <2>1 DEF ProofsConfirmed
  <2>2. CASE Confirmable(r)
    <3>1. Validated(c)
      BY <1>3, <1>4, <2>2 DEF Confirmable
    <3>2. GatewayTypeOK
      BY DEF PInv, GInv
    <3> QED BY <3>1, <3>2, ChainsAreFound
  <2> QED BY <1>1, <2>1, <2>2
<1> QED BY <1>5, ChainsGrow

(* What the searches of a confirmed proof found.                           *)
LEMMA ConfirmedSearch ==
    ASSUME PInv, CounterMatchesReceipts, ProofsConfirmed,
           NEW r \in RunIds, runs[r].state = "COMPLETED", runtime[r].prompt = "proof",
           NEW c, c = runs[r].ctx
    PROVE  /\ c \in CtxIds
           /\ Searches(Indexes(c), c)
           /\ Indexes(c) \in [IndexNames -> Nat]
           /\ \A name \in IndexNames : Indexes(c)[name] # 0
<1>1. GatewayTypeOK /\ runs[r] \in Run /\ runs[r].ctx # None
  BY DEF PInv, GInv, IInv, TypeOK, RunWithinMandate
<1>2. c \in CtxIds
  BY <1>1 DEF Run
<1>3. Validated(c)
  BY <1>1, <1>2, SearchFindsChains DEF ProofsConfirmed
<1>4. Searches(Indexes(c), c) /\ Indexes(c) \in [IndexNames -> Nat]
  BY <1>1, IndexesSearch
<1>5. \A name \in IndexNames : Indexes(c)[name] # 0
  BY <1>3, <1>4 DEF Validated
<1> QED BY <1>2, <1>4, <1>5

LEMMA CausesOfPair ==
    ASSUME NEW n \in DOMAIN receipts, NEW a, NEW b, receipts[n].causedBy = <<a, b>>
    PROVE  CausesOf(n) = {receipts[a].tool, receipts[b].tool}
<1>1. DOMAIN receipts[n].causedBy = {1, 2}
  OBVIOUS
<1>2. receipts[n].causedBy[1] = a /\ receipts[n].causedBy[2] = b
  OBVIOUS
<1> QED BY <1>1, <1>2 DEF CausesOf

LEMMA LineageConfirmed ==
    PInv /\ CounterMatchesReceipts /\ DecidedOnChain /\ ProofsConfirmed
        => ConfirmedProofHasLineage
<1> SUFFICES ASSUME PInv, CounterMatchesReceipts, DecidedOnChain, ProofsConfirmed,
                    NEW r \in RunIds, runs[r].state = "COMPLETED",
                    runtime[r].prompt = "proof", NEW c, c = runs[r].ctx
             PROVE  /\ CausesOf(Indexes(c).baseline) =
                          {"support.list_tickets", "cases.lookup_subject"}
                    /\ CausesOf(Indexes(c).denial) =
                          {"payments.list_failures", "cases.lookup_subject"}
                    /\ receipts[Indexes(c).denial].before = receipts[Indexes(c).denial].after
  BY DEF ConfirmedProofHasLineage
<1>1. /\ Searches(Indexes(c), c)
      /\ Indexes(c).baseline # 0 /\ Indexes(c).denial # 0
  BY ConfirmedSearch DEF IndexNames
<1>2. PICK baseline, denial : baseline = Indexes(c).baseline /\ denial = Indexes(c).denial
  OBVIOUS
<1>3. /\ baseline \in EvidenceOf(c) \cap FirstResolutions
      /\ denial \in EvidenceOf(c) \cap DeniedCrm
  BY <1>1, <1>2 DEF Searches, Finds
<1>4. /\ baseline \in DOMAIN receipts
      /\ receipts[baseline].tool = "crm.resolve_customer"
      /\ receipts[baseline].decision = "ALLOW"
  BY <1>3 DEF FirstResolutions, AllowedReceipts
<1>5. /\ denial \in DOMAIN receipts
      /\ receipts[denial].tool = "crm.resolve_customer"
      /\ receipts[denial].decision = "FLOW_DENIED"
  BY <1>3 DEF DeniedCrm, PInv, EvidenceWithinMandate
<1>6. CausesOf(baseline) = {"support.list_tickets", "cases.lookup_subject"}
  <2>1. PICK a, b \in DOMAIN receipts :
          /\ receipts[baseline].causedBy = <<a, b>>
          /\ receipts[a].tool = "support.list_tickets"
          /\ receipts[b].tool = "cases.lookup_subject"
    BY <1>4 DEF DecidedOnChain
  <2> QED BY <1>4, <2>1, CausesOfPair
<1>7. CausesOf(denial) = {"payments.list_failures", "cases.lookup_subject"}
  <2>1. PICK a, b \in DOMAIN receipts :
          /\ receipts[denial].causedBy = <<a, b>>
          /\ receipts[a].tool = "payments.list_failures"
          /\ receipts[b].tool = "cases.lookup_subject"
    BY <1>5 DEF DecidedOnChain
  <2> QED BY <1>5, <2>1, CausesOfPair
<1>8. receipts[denial].before = receipts[denial].after
  <2>1. denial \in Nat
    BY <1>5 DEF PInv, GInv, GatewayTypeOK
  <2>2. CrmSuccessesUpTo(receipts[denial].ctx, denial - 1)
            = CrmSuccessesUpTo(receipts[denial].ctx, denial)
    BY <1>5, <2>1 DEF CrmSuccessesUpTo
  <2> QED BY <1>5, <2>2 DEF CounterMatchesReceipts
<1> QED BY <1>2, <1>6, <1>7, <1>8

LEMMA PanelShowsProof ==
    ASSUME PInv, CounterMatchesReceipts, ProofsConfirmed,
           NEW r \in RunIds, runs[r].state = "COMPLETED", runtime[r].prompt = "proof",
           NEW c, c = runs[r].ctx
    PROVE  PanelBaseline(c) /\ PanelDenial(c) # 0 /\ PanelRecovery(c) # 0
<1>1. GatewayTypeOK
  BY DEF PInv, GInv
<1>2. PICK x : x = Indexes(c)
  OBVIOUS
<1>3. Searches(x, c) /\ \A name \in IndexNames : x[name] \in Nat /\ x[name] # 0
  BY <1>2, ConfirmedSearch
<1>4. /\ x.baseline # 0 /\ x.denial # 0 /\ x.fresh # 0 /\ x.freshCase # 0 /\ x.recovery # 0
      /\ x.denial \in Nat /\ x.fresh \in Nat /\ x.freshCase \in Nat /\ x.recovery \in Nat
      /\ x.paid \in Nat
  BY <1>3 DEF IndexNames
<1>5. /\ x.baseline \in EvidenceOf(c) \cap FirstResolutions
      /\ x.denial \in EvidenceOf(c) \cap DeniedCrm
  BY <1>3, <1>4 DEF Searches, Finds
<1>6. /\ x.fresh \in EvidenceOf(c) \cap AllowedReceipts("support.list_tickets")
      /\ x.fresh > x.denial
      /\ x.freshCase \in EvidenceOf(c) \cap AllowedReceipts("cases.lookup_subject")
      /\ x.freshCase > x.fresh
      /\ x.recovery \in EvidenceOf(c) \cap ResolutionsFrom(receipts[x.denial].after)
      /\ x.recovery > x.freshCase
  BY <1>3, <1>4 DEF Searches, Finds, CounterAt
<1>7. EvidenceOf(c) \subseteq DOMAIN receipts /\ DOMAIN receipts \subseteq Nat
  BY <1>1 DEF EvidenceOf, GatewayTypeOK
<1>8. \A T : EvidenceOf(c) \cap T \subseteq Nat
  BY <1>7
<1>9. PICK d : d = PanelDenial(c)
  OBVIOUS
<1>10. Finds(d, EvidenceOf(c) \cap DeniedCrm, 0) /\ d \in Nat
  BY <1>1, <1>9, AfterFinds DEF PanelDenial
<1>11. d # 0 /\ d =< x.denial /\ d \in EvidenceOf(c) \cap DeniedCrm
  <2>1. x.denial > 0
    BY <1>4
  <2> QED BY <1>5, <1>7, <1>10, <2>1 DEF Finds
<1>12. PICK fresh : fresh = After(c, d, AllowedReceipts("support.list_tickets"))
  OBVIOUS
<1>13. /\ Finds(fresh, EvidenceOf(c) \cap AllowedReceipts("support.list_tickets"), d)
       /\ fresh \in Nat
  BY <1>1, <1>10, <1>12, AfterFinds
<1>14. fresh # 0 /\ fresh =< x.fresh
  <2>1. x.fresh > d
    BY <1>4, <1>6, <1>10, <1>11
  <2> QED BY <1>6, <1>10, <1>13, <1>8, <2>1, FoundBy
<1>15. PICK case : case = After(c, fresh, AllowedReceipts("cases.lookup_subject"))
  OBVIOUS
<1>16. /\ Finds(case, EvidenceOf(c) \cap AllowedReceipts("cases.lookup_subject"), fresh)
       /\ case \in Nat
  BY <1>1, <1>13, <1>15, AfterFinds
<1>17. case # 0 /\ case =< x.freshCase
  <2>1. x.freshCase > fresh
    BY <1>4, <1>6, <1>13, <1>14
  <2> QED BY <1>6, <1>13, <1>16, <1>8, <2>1, FoundBy
<1>18. PICK recovery : recovery = After(c, case, ResolutionsFrom(receipts[d].after))
  OBVIOUS
<1>19. /\ Finds(recovery, EvidenceOf(c) \cap ResolutionsFrom(receipts[d].after), case)
       /\ recovery \in Nat
  BY <1>1, <1>16, <1>18, AfterFinds
<1>20. receipts[d].after =< receipts[x.denial].after
  BY <1>1, <1>5, <1>7, <1>11, CounterGrows DEF EvidenceOf, DeniedCrm
<1>21. x.recovery \in EvidenceOf(c) \cap ResolutionsFrom(receipts[d].after)
  <2>1. /\ receipts[x.recovery] \in Receipt /\ receipts[d] \in Receipt
        /\ receipts[x.denial] \in Receipt
    BY <1>1, <1>5, <1>6, <1>7, <1>11 DEF GatewayTypeOK
  <2>2. /\ receipts[x.recovery].before \in Nat /\ receipts[d].after \in Nat
        /\ receipts[x.denial].after \in Nat
    BY <2>1 DEF Receipt
  <2>3. receipts[x.recovery].before >= receipts[x.denial].after
    BY <1>6 DEF ResolutionsFrom
  <2>4. receipts[x.recovery].before >= receipts[d].after
    BY <1>20, <2>2, <2>3
  <2> QED BY <1>6, <2>4 DEF ResolutionsFrom
<1>22. recovery # 0
  <2>1. x.recovery > case
    BY <1>4, <1>6, <1>16, <1>17
  <2> QED BY <1>16, <1>19, <1>21, <1>8, <2>1, FoundBy
<1>23. PanelRecovery(c) = recovery
  BY <1>9, <1>11, <1>12, <1>14, <1>15, <1>17, <1>18 DEF PanelRecovery
<1>24. PanelBaseline(c)
  BY <1>5 DEF PanelBaseline
<1> QED BY <1>9, <1>11, <1>22, <1>23, <1>24

-----------------------------------------------------------------------------
(* The pace of a Runtime: nothing is held before it starts, it waits only  *)
(* for a call of its script, and a completed one has made all of them.     *)
Paces(r) ==
    /\ Phase(r) \in {"none", "prepared", "starting"} => runtime[r].held = <<>>
    /\ Phase(r) = "waiting" => MayCall(r)
    /\ Fixture /\ Phase(r) = "returned" => Made(r) = Len(Script(r))
    /\ Fixture /\ runtime[r].prompt = "retry" /\ Phase(r) \in {"ready", "waiting"}
          => Made(r) >= 1
    /\ runs[r].state = "COMPLETED" =>
          Phase(r) = "over" /\ (Fixture => Made(r) = Len(Script(r)))

Paced == \A r \in RunIds : Paces(r)

LEMMA PacedKept ==
    ASSUME PInv, Base, Moves, Paced, [ProofNext]_allVars
    PROVE  Paced'
<1> SUFFICES ASSUME NEW q \in RunIds
             PROVE  Paces(q)'
  BY DEF Paced
<1>0. ProofTypeOK /\ runtime[q] \in Runtime /\ (Fixture' <=> Fixture)
  BY ProviderKept DEF Base, ProofTypeOK, Fixture
<1>1. runtime[q].held \in Seq(Nat) /\ Made(q) \in Nat
  BY <1>0 DEF Runtime, Made
<1>2. Paces(q)
  BY DEF Paced
<1>3. OwnMove(q)
  BY <1>0, MovesOfOne
<1>4. runs'[q].state = "COMPLETED" =>
         runs[q].state = "COMPLETED" \/ (Confirmable(q) /\ Enters(q, "over"))
  BY CompletionConfirms
<1>5. CASE runtime'[q] = runtime[q]
  <2>1. Enters(q, "over") => Phase(q) = "over"
    BY <1>0, <1>5, MoveEffects DEF Phase, RuntimePhases
  <2>2. ~Enters(q, "over")
    BY <2>1 DEF Enters
  <2> QED BY <1>0, <1>2, <1>4, <1>5, <2>2 DEF Paces, Phase, Made, Script, MayCall
<1>6. CASE NodeRestart
  <2>1. /\ runtime'[q].phase = IF Phase(q) \in {"none", "over"} THEN Phase(q) ELSE "failed"
        /\ runtime'[q].held = runtime[q].held
        /\ runtime'[q].prompt = runtime[q].prompt
    BY <1>0, <1>6, RestartEffects
  <2>2. UNCHANGED runs
    BY <1>6 DEF NodeRestart, vars, authVars
  <2> QED BY <1>0, <1>2, <2>1, <2>2 DEF Paces, Phase, Made, Script, MayCall
<1>7. ASSUME NEW phase \in RuntimePhases, Enters(q, phase)
      PROVE  Paces(q)'
  <2>1. /\ runtime'[q].phase = phase
        /\ runtime'[q].held = runtime[q].held
        /\ runtime'[q].prompt = runtime[q].prompt
    BY <1>0, <1>7, MoveEffects
  <2>2. Phase(q) \notin {"none", "over"} /\ phase \notin {"none", "prepared"}
    BY <1>7 DEF Enters
  <2>3. phase = "starting" => runtime[q].held = <<>>
    BY <1>2, <1>7 DEF Paces, Enters
  <2>4. phase = "waiting" => Phase(q) = "ready" /\ MayCall(q)
    BY <1>7 DEF Enters
  <2>5. Fixture /\ phase = "returned" => Made(q) = Len(Script(q))
    BY <1>7 DEF Enters, MayReturn
  <2>6. Fixture /\ phase = "ready" => runtime[q].prompt = "proof"
    BY <1>7 DEF Enters, StartsProof, Saves, Base, SavingFive
  <2>7. runs'[q].state = "COMPLETED" =>
           phase = "over" /\ (Fixture => Made(q) = Len(Script(q)))
    <3>1. ASSUME runs'[q].state = "COMPLETED" PROVE Confirmable(q) /\ Enters(q, "over")
      BY <1>2, <1>4, <2>2, <3>1 DEF Paces
    <3>2. Enters(q, "over") => phase = "over"
      <4>1. "over" \in RuntimePhases
        BY DEF RuntimePhases
      <4>2. Enters(q, "over") => runtime'[q].phase = "over"
        BY <1>0, <4>1, MoveEffects
      <4> QED BY <2>1, <4>2
    <3> QED BY <1>2, <3>1, <3>2 DEF Paces, Confirmable
  <2> QED BY <1>0, <1>2, <2>1, <2>2, <2>3, <2>4, <2>5, <2>6, <2>7
          DEF Paces, Phase, Made, Script, MayCall
<1>8. CASE Reloads(q)
  <2>1. /\ runtime'[q].phase = "ready"
        /\ \E n \in Nat : runtime'[q].held = <<n>>
        /\ runtime'[q].prompt = runtime[q].prompt
    BY <1>0, <1>8, MoveEffects
  <2>2. Len(runtime'[q].held) = 1
    BY <2>1
  <2>3. runs'[q].state # "COMPLETED"
    BY <1>2, <1>4, <1>8 DEF Paces, Reloads, Confirmable
  <2> QED BY <2>1, <2>2, <2>3 DEF Paces, Phase, Made
<1>9. ASSUME NEW n \in Nat, Holds(q, n)
      PROVE  Paces(q)'
  <2>1. /\ runtime'[q].phase \in {"saving", "ready"}
        /\ runtime'[q].held = Append(runtime[q].held, n)
    BY <1>0, <1>9, MoveEffects
  <2>2. Len(runtime'[q].held) >= 1
    BY <1>1, <2>1
  <2>3. runs'[q].state # "COMPLETED"
    BY <1>2, <1>4, <1>9 DEF Paces, Holds, Confirmable
  <2> QED BY <2>1, <2>2, <2>3 DEF Paces, Phase, Made
<1>10. ASSUME NEW prompt \in {"proof", "retry"}, Begins(q, prompt)
       PROVE  Paces(q)'
  <2>1. /\ runtime'[q].phase = "prepared"
        /\ runtime'[q].held = runtime[q].held
    BY <1>0, <1>10, MoveEffects
  <2>2. Phase(q) = "none" /\ runs'[q].state = "PREPARED"
    BY <1>10 DEF Begins
  <2> QED BY <1>2, <2>1, <2>2 DEF Paces, Phase
<1> QED BY <1>3, <1>5, <1>6, <1>7, <1>8, <1>9, <1>10 DEF OwnMove

(* A retry names the Run it repeats.                                       *)
RetriesNamed ==
    \A r \in RunIds : Phase(r) # "none" /\ runtime[r].prompt = "retry" => runs[r].retryOf # None

LEMMA RetriesNamedKept ==
    ASSUME PInv, Base, Moves, SettledStep, RetriesNamed
    PROVE  RetriesNamed'
<1> SUFFICES ASSUME NEW q \in RunIds, runtime'[q].phase # "none", runtime'[q].prompt = "retry"
             PROVE  runs'[q].retryOf # None
  BY DEF RetriesNamed, Phase
<1>0. ProofTypeOK /\ runs[q] \in Run
  BY DEF Base, PInv, GInv, IInv, TypeOK
<1>1. OwnMove(q)
  BY <1>0, MovesOfOne
<1>2. CASE Phase(q) # "none"
  <2>1. runs[q].state # "NONE"
    BY <1>2 DEF Base, Untouched
  <2>2. runs'[q] = [runs[q] EXCEPT !.state = runs'[q].state]
    BY <2>1 DEF SettledStep
  <2>3. runs'[q].retryOf = runs[q].retryOf
    BY <1>0, <2>2 DEF Run
  <2>4. runtime[q].prompt = "retry"
    BY <1>0, <1>2, PromptKept
  <2> QED BY <1>2, <2>3, <2>4 DEF RetriesNamed
<1>3. CASE Phase(q) = "none"
  <2>1. ~NodeRestart
    BY <1>0, <1>3, RestartEffects
  <2>2. PICK prompt \in {"proof", "retry"} : Begins(q, prompt)
    BY <1>1, <1>3, <2>1 DEF OwnMove, Enters, Reloads, Holds, Phase
  <2>3. prompt = "retry"
    BY <1>0, <2>2, MoveEffects
  <2>4. runs'[q].retryOf \in RunIds
    BY <2>2, <2>3 DEF Begins
  <2> QED BY <2>4, NoneAssumption
<1> QED BY <1>2, <1>3

-----------------------------------------------------------------------------
(* The script is followed.  The j-th reference a fixture holds came with   *)
(* the receipt of the j-th step of its script, and under the label of the  *)
(* listing the step goes back to; a retry starts with a loaded reference.  *)
ScriptOf(p) == IF p = "retry" THEN RetryScript ELSE ProofScript
FirstCall(p) == IF p = "retry" THEN 2 ELSE 1
ScriptLabels(j) ==
    IF j \in {4, 5} THEN {"PAYMENT_AGGREGATE_ONLY"} ELSE {"SUPPORT_FOLLOWUP_ALLOWED"}

(* Receipt n answers the j-th step of the script p of r.                   *)
Answers(r, p, c, held, j, n) ==
    /\ n \in DOMAIN receipts
    /\ receipts[n].run = r /\ receipts[n].ctx = c
    /\ receipts[n].tool = ScriptOf(p)[j].tool
    /\ receipts[n].decision = ScriptOf(p)[j].expect
    /\ Mints(ScriptOf(p)[j].tool) =>
          /\ held[j] \in DOMAIN refs
          /\ refs[held[j]].receipt = n
          /\ refs[held[j]].ctx = c
          /\ refs[held[j]].labels = ScriptLabels(j)

Follows(r, p, c, held) ==
    \E at \in [FirstCall(p)..Len(held) -> Nat] :
        /\ \A j \in FirstCall(p)..Len(held) : Answers(r, p, c, held, j, at[j])
        /\ \A j, k \in FirstCall(p)..Len(held) : j < k => at[j] < at[k]

Following ==
    Fixture =>
        \A r \in RunIds, c \in CtxIds, p \in {"proof", "retry"}, held \in Seq(Nat) :
            /\ Phase(r) # "none"
            /\ c = runs[r].ctx /\ p = runtime[r].prompt /\ held = runtime[r].held
            => Follows(r, p, c, held)

(* What is so of every step of the scripts.                                *)
LEMMA ScriptSteps ==
    /\ DOMAIN ProofScript = 1..10 /\ Len(ProofScript) = 10
    /\ \A j \in 1..10 :
          /\ ProofScript[j].tool \in Tools
          /\ ProofScript[j].input \in 0..(j - 1)
          /\ NeedsInput(ProofScript[j].tool) <=> ProofScript[j].input # 0
          /\ Mints(ProofScript[j].tool) => ProofScript[j].expect = "ALLOW"
    /\ \A j \in 1..10 :
          /\ ProofScript[j].tool \in {"support.list_tickets", "payments.list_failures"} =>
                ScriptLabels(j) = {AddedLabel(ProofScript[j].tool)}
          /\ ProofScript[j].tool = "cases.lookup_subject" =>
                /\ ScriptLabels(ProofScript[j].input) = ScriptLabels(j)
                /\ ProofScript[ProofScript[j].input].tool \in
                      {"support.list_tickets", "payments.list_failures"}
    /\ \A j \in 1..10 :
          /\ ProofScript[j].tool = "crm.resolve_customer" =>
                ProofScript[ProofScript[j].input].tool = "cases.lookup_subject"
          /\ ProofScript[j].expect =
                IF /\ ProofScript[j].tool = "crm.resolve_customer"
                   /\ ScriptLabels(ProofScript[j].input) = {"PAYMENT_AGGREGATE_ONLY"}
                THEN "FLOW_DENIED" ELSE "ALLOW"
<1>1. /\ DOMAIN ProofScript = 1..10 /\ Len(ProofScript) = 10
      /\ \A j \in 1..10 :
          /\ ProofScript[j].tool \in Tools
          /\ ProofScript[j].input \in 0..(j - 1)
          /\ NeedsInput(ProofScript[j].tool) <=> ProofScript[j].input # 0
          /\ Mints(ProofScript[j].tool) => ProofScript[j].expect = "ALLOW"
  BY DEF ProofScript, Step, Tools, NeedsInput, Mints
<1>2. \A j \in 1..10 :
          /\ ProofScript[j].tool \in {"support.list_tickets", "payments.list_failures"} =>
                ScriptLabels(j) = {AddedLabel(ProofScript[j].tool)}
          /\ ProofScript[j].tool = "cases.lookup_subject" =>
                /\ ScriptLabels(ProofScript[j].input) = ScriptLabels(j)
                /\ ProofScript[ProofScript[j].input].tool \in
                      {"support.list_tickets", "payments.list_failures"}
  BY DEF ProofScript, Step, ScriptLabels, AddedLabel
<1>3. \A j \in 1..10 :
          /\ ProofScript[j].tool = "crm.resolve_customer" =>
                ProofScript[ProofScript[j].input].tool = "cases.lookup_subject"
          /\ ProofScript[j].expect =
                IF /\ ProofScript[j].tool = "crm.resolve_customer"
                   /\ ScriptLabels(ProofScript[j].input) = {"PAYMENT_AGGREGATE_ONLY"}
                THEN "FLOW_DENIED" ELSE "ALLOW"
  BY DEF ProofScript, Step, ScriptLabels
<1> QED BY <1>1, <1>2, <1>3

(* Evidence that answers a step still does.                                *)
LEMMA AnswersGrow ==
    ASSUME Grows, NEW r, NEW p, NEW c, NEW held, NEW held2, NEW j, NEW n,
           Answers(r, p, c, held, j, n), held2[j] = held[j]
    PROVE  Answers(r, p, c, held2, j, n)'
BY DEF Grows, Answers

LEMMA FollowsGrow ==
    ASSUME Grows, NEW r, NEW p, NEW c, NEW held, Follows(r, p, c, held)
    PROVE  Follows(r, p, c, held)'
<1>1. PICK at \in [FirstCall(p)..Len(held) -> Nat] :
        /\ \A j \in FirstCall(p)..Len(held) : Answers(r, p, c, held, j, at[j])
        /\ \A j, k \in FirstCall(p)..Len(held) : j < k => at[j] < at[k]
  BY DEF Follows
<1>2. \A j \in FirstCall(p)..Len(held) : Answers(r, p, c, held, j, at[j])'
  BY <1>1, AnswersGrow
<1> QED BY <1>1, <1>2 DEF Follows

LEMMA FollowsNothing ==
    ASSUME NEW r, NEW p, NEW c, NEW held, Len(held) < FirstCall(p), Len(held) \in Nat
    PROVE  Follows(r, p, c, held) /\ Follows(r, p, c, held)'
<1>1. FirstCall(p) \in Nat
  BY DEF FirstCall
<1>2. FirstCall(p)..Len(held) = {}
  BY <1>1
<1>3. [x \in {} |-> 0] \in [FirstCall(p)..Len(held) -> Nat]
  BY <1>2
<1> QED BY <1>2, <1>3 DEF Follows

(* The receipt of a served call answers the next step.                     *)
LEMMA NextAnswered ==
    ASSUME PInv, Base, Paced, Fixture, NEW r \in RunIds, NEW n \in Nat, Holds(r, n),
           NEW p, NEW c, NEW held, NEW N,
           p = runtime[r].prompt, c = runs[r].ctx, held = runtime[r].held,
           N = Len(receipts) + 1, Follows(r, p, c, held)
    PROVE  Answers(r, p, c, Append(held, n), Len(held) + 1, N)'
<1>0. /\ refs \in Seq(Reference) /\ receipts \in Seq(Receipt)
      /\ held \in Seq(Nat) /\ p \in {"proof", "retry"}
  BY DEF PInv, GInv, GatewayTypeOK, Base, ProofTypeOK, Runtime
<1>1. PICK tool \in Tools, i \in 0..Len(refs) :
        /\ Served(r, tool, i)
        /\ Decide(r, tool, i) = Current(r).expect
        /\ n = IF Decide(r, tool, i) = "ALLOW" /\ Mints(tool) THEN Len(refs') ELSE 0
  BY DEF Holds
<1>2. PICK j : j = Len(held) + 1
  OBVIOUS
<1>3. Append(held, n)[j] = n
  BY <1>0, <1>2
<1>4. j \in Nat /\ Len(held) \in Nat
  BY <1>0, <1>2
<1>5. ASSUME NEW l \in Nat, j = l + 1, l < 10 
       PROVE  /\ j \in 1..10
              /\ \A k \in 0..(j - 1) : k # 0 => k \in 1..l /\ k \in 1..10
  <2>1. j \in 1..10
    BY <1>5
  <2>2. ASSUME NEW k \in 0..(j - 1), k # 0
        PROVE  k \in 1..l
    <3>1. k \in Int /\ 0 =< k /\ k =< j - 1
      BY <1>5
    <3> QED BY <1>5, <2>2, <3>1
  <2>3. ASSUME NEW k \in 1..l
        PROVE  k \in 1..10
    BY <1>5
  <2> QED BY <2>1, <2>2, <2>3
<1>6. Script(r) = ScriptOf(p) /\ Made(r) = Len(held)
  BY DEF Script, ScriptOf, Made
<1>7. Current(r) = ScriptOf(p)[j]
  BY <1>2, <1>6 DEF Current
<1>8. Len(held) < Len(ScriptOf(p)) /\ (p = "retry" => Len(held) >= 1)
  BY <1>6 DEF Paced, Paces, MayCall, Holds, Phase
<1>9. /\ N \in DOMAIN receipts'
      /\ receipts'[N].run = r /\ receipts'[N].ctx = c
      /\ receipts'[N].tool = tool /\ receipts'[N].decision = Decide(r, tool, i)
  BY <1>0, <1>1 DEF Served, Record
<1>10. tool = ScriptOf(p)[j].tool /\ Decide(r, tool, i) = ScriptOf(p)[j].expect
  BY <1>1, <1>7 DEF Served
<1>11. ASSUME Mints(tool)
      PROVE  /\ n \in DOMAIN refs'
             /\ refs'[n].receipt = N /\ refs'[n].ctx = c /\ refs'[n].labels = ScriptLabels(j)
  <2>1. p = "proof"
    <3>1. ASSUME p = "retry" PROVE FALSE
      <4>1. j = 2
        BY <1>0, <1>2, <1>8, <3>1 DEF ScriptOf, RetryScript
      <4>2. tool = "crm.resolve_customer"
        BY <1>10, <3>1, <4>1 DEF ScriptOf, RetryScript, Step
      <4> QED BY <1>11, <4>2 DEF Mints
    <3> QED BY <1>0, <3>1
  <2>2. ScriptOf(p) = ProofScript
    BY <2>1 DEF ScriptOf
  <2>3. Len(ProofScript) = 10
    BY ScriptSteps
  <2>4. Len(held) < 10
    BY <1>8, <2>2, <2>3
  <2>5. j \in 1..10
    BY <1>2, <1>4, <1>5, <2>4
  <2>6. Decide(r, tool, i) = "ALLOW"
    BY <1>10, <1>11, <2>2, <2>5, ScriptSteps
  <2>7. refs' = Append(refs, NewReference(r, tool, i)) /\ n = Len(refs')
    BY <1>1, <1>11, <2>6 DEF Served, Record
  <2>8. /\ n \in DOMAIN refs' /\ refs'[n] = NewReference(r, tool, i)
    BY <1>0, <2>7
  <2>9. /\ refs'[n].receipt = N /\ refs'[n].ctx = c
        /\ refs'[n].labels = Provenance(tool, i, contexts[c].owner).labels
    BY <2>8 DEF NewReference
  <2>10. CASE tool \in {"support.list_tickets", "payments.list_failures"}
    <3>1. refs'[n].labels = {AddedLabel(tool)}
      BY <2>9, <2>10 DEF Provenance
    <3> QED BY <1>10, <2>2, <2>5, <2>8, <2>9, <2>10, <3>1, ScriptSteps
  <2>11. CASE tool = "cases.lookup_subject"
    <3>1. PICK k : k = ProofScript[j].input
      OBVIOUS
    <3>2. k \in 0..(j - 1) /\ k # 0
      BY <1>10, <2>2, <2>5, <2>11, <3>1, ScriptSteps DEF NeedsInput
    <3>3. i = held[k]
      BY <1>1, <1>7, <2>2, <3>1, <3>2 DEF Served, InputOf
    <3>4. k \in 1..Len(held) /\ k \in 1..10
      BY <1>2, <1>4, <1>5, <2>4, <3>2
    <3>5. FirstCall(p) = 1
      BY <2>1 DEF FirstCall
    <3>6. PICK m : Answers(r, p, c, held, k, m)
      BY <3>4, <3>5 DEF Follows
    <3>7. /\ ScriptLabels(k) = ScriptLabels(j)
          /\ ProofScript[k].tool \in {"support.list_tickets", "payments.list_failures"}
      <4>1. ProofScript[j].tool = "cases.lookup_subject"
        BY <1>10, <2>2, <2>11
      <4>2. /\ ScriptLabels(ProofScript[j].input) = ScriptLabels(j)
            /\ ProofScript[ProofScript[j].input].tool \in
                  {"support.list_tickets", "payments.list_failures"}
        BY <2>5, <4>1, ScriptSteps
      <4> QED BY <3>1, <4>2
    <3>8. refs[i].labels = ScriptLabels(k)
      BY <2>2, <3>3, <3>6, <3>7 DEF Answers, Mints
    <3>9. refs'[n].labels = refs[i].labels
      BY <2>9, <2>11 DEF Provenance
    <3> QED BY <2>8, <2>9, <3>7, <3>8, <3>9
  <2> QED BY <1>11, <2>10, <2>11 DEF Mints
<1> HIDE DEF ScriptOf
<1> QED BY <1>2, <1>3, <1>9, <1>10, <1>11 DEF Answers

LEMMA FollowsExtend ==
    ASSUME PInv, Base, Paced, Fixture, Grows, NEW r \in RunIds, NEW n \in Nat, Holds(r, n),
           NEW p, NEW c, NEW held,
           p = runtime[r].prompt, c = runs[r].ctx, held = runtime[r].held,
           Follows(r, p, c, held)
    PROVE  Follows(r, p, c, Append(held, n))'
<1>0. receipts \in Seq(Receipt) /\ held \in Seq(Nat) /\ FirstCall(p) \in {1, 2}
  BY DEF PInv, GInv, GatewayTypeOK, Base, ProofTypeOK, Runtime, FirstCall
<1>1. PICK at \in [FirstCall(p)..Len(held) -> Nat] :
        /\ \A j \in FirstCall(p)..Len(held) : Answers(r, p, c, held, j, at[j])
        /\ \A j, k \in FirstCall(p)..Len(held) : j < k => at[j] < at[k]
  BY DEF Follows
<1>2. PICK N : N = Len(receipts) + 1
  OBVIOUS
<1>3. PICK L : L = Len(held) + 1
  OBVIOUS
<1>4. L \in Nat /\ Len(Append(held, n)) = L /\ N \in Nat
  BY <1>0, <1>2, <1>3
<1>5. \A j \in FirstCall(p)..L : j = L \/ j \in FirstCall(p)..Len(held)
  BY <1>0, <1>3, <1>4
<1>6. PICK at2 : at2 = [j \in FirstCall(p)..L |-> IF j = L THEN N ELSE at[j]]
  OBVIOUS
<1>7. at2 \in [FirstCall(p)..L -> Nat]
  BY <1>1, <1>4, <1>5, <1>6
<1>8. \A j \in FirstCall(p)..Len(held) : at[j] < N
  BY <1>0, <1>1, <1>2 DEF Answers
<1>9. \A j \in FirstCall(p)..L : Answers(r, p, c, Append(held, n), j, at2[j])'
  <2> SUFFICES ASSUME NEW j \in FirstCall(p)..L
               PROVE  Answers(r, p, c, Append(held, n), j, at2[j])'
    OBVIOUS
  <2>1. CASE j = L
    BY <1>2, <1>3, <1>6, <2>1, NextAnswered
  <2>2. CASE j # L
    <3>1. j \in FirstCall(p)..Len(held) /\ at2[j] = at[j]
      BY <1>5, <1>6, <2>2
    <3>2. Append(held, n)[j] = held[j]
      BY <1>0, <3>1
    <3> QED BY <1>1, <3>1, <3>2, AnswersGrow
  <2> QED BY <2>1, <2>2
<1>10. \A j, k \in FirstCall(p)..L : j < k => at2[j] < at2[k]
  BY <1>0, <1>1, <1>3, <1>4, <1>5, <1>6, <1>8
<1> QED BY <1>4, <1>7, <1>9, <1>10 DEF Follows

LEMMA FollowingKept ==
    ASSUME PInv, Base, Moves, Grows, ColumnsKept, Paced, Following, [ProofNext]_allVars
    PROVE  Following'
<1> SUFFICES ASSUME Fixture', NEW r \in RunIds, NEW c \in CtxIds,
                    NEW p \in {"proof", "retry"}, NEW held \in Seq(Nat),
                    runtime'[r].phase # "none",
                    c = runs'[r].ctx, p = runtime'[r].prompt, held = runtime'[r].held
             PROVE  Follows(r, p, c, held)'
  BY DEF Following, Phase
<1>0. ProofTypeOK /\ Fixture /\ runtime[r] \in Runtime
  BY ProviderKept DEF Base, ProofTypeOK, Fixture
<1>1. OwnMove(r)
  BY <1>0, MovesOfOne
<1>2. ASSUME NEW h \in Seq(Nat), Phase(r) # "none",
             runtime'[r].prompt = runtime[r].prompt, h = runtime[r].held
      PROVE  Follows(r, p, c, h) /\ c = runs[r].ctx /\ p = runtime[r].prompt
  <2>1. runs[r].state # "NONE"
    BY <1>2 DEF Base, Untouched
  <2>2. c = runs[r].ctx
    BY <2>1 DEF ColumnsKept
  <2> QED BY <1>0, <1>2, <2>2 DEF Following
<1>3. ASSUME Phase(r) # "none", runtime'[r].held = runtime[r].held,
             runtime'[r].prompt = runtime[r].prompt
      PROVE  Follows(r, p, c, held)'
  BY <1>2, <1>3, FollowsGrow
<1>4. CASE runtime'[r] = runtime[r]
  BY <1>3, <1>4 DEF Phase
<1>5. CASE NodeRestart
  BY <1>0, <1>3, <1>5, RestartEffects
<1>6. CASE \E phase \in RuntimePhases : Enters(r, phase)
  BY <1>0, <1>3, <1>6, MoveEffects DEF Enters
<1>7. CASE Reloads(r)
  <2>1. p = "retry" /\ \E n \in Nat : held = <<n>>
    BY <1>0, <1>7, MoveEffects DEF Reloads
  <2>2. FirstCall(p) = 2 /\ Len(held) = 1
    BY <2>1 DEF FirstCall
  <2>3. Len(held) < FirstCall(p) /\ Len(held) \in Nat
    BY <2>2
  <2> QED BY <2>3, FollowsNothing
<1>8. ASSUME NEW n \in Nat, Holds(r, n)
      PROVE  Follows(r, p, c, held)'
  <2>1. PICK h \in Seq(Nat) : h = runtime[r].held
    BY <1>0 DEF Runtime
  <2>2. runtime'[r].prompt = runtime[r].prompt /\ held = Append(h, n)
    BY <1>0, <1>8, <2>1, MoveEffects
  <2>3. Phase(r) # "none"
    BY <1>8 DEF Holds
  <2>4. Follows(r, p, c, h) /\ c = runs[r].ctx /\ p = runtime[r].prompt
    BY <1>2, <2>1, <2>2, <2>3
  <2>5. Follows(r, p, c, Append(h, n))'
    BY <1>0, <1>8, <2>1, <2>4, FollowsExtend
  <2> QED BY <2>2, <2>5
<1>9. ASSUME NEW prompt \in {"proof", "retry"}, Begins(r, prompt)
      PROVE  Follows(r, p, c, held)'
  <2>1. held = runtime[r].held
    BY <1>0, <1>9, MoveEffects
  <2>2. held = <<>>
    BY <1>9, <2>1 DEF Begins, Paced, Paces
  <2>3. Len(held) = 0 /\ FirstCall(p) \in {1, 2}
    BY <2>2 DEF FirstCall
  <2> QED BY <2>3, FollowsNothing
<1> QED BY <1>1, <1>4, <1>5, <1>6, <1>7, <1>8, <1>9 DEF OwnMove

(* A completed fixture retry made its two calls, the second was denied.    *)
LEMMA PanelShowsRetry ==
    ASSUME PInv, Base, Paced, RetriesNamed, Following, Fixture,
           NEW r \in RunIds, runs[r].state = "COMPLETED", runtime[r].prompt = "retry"
    PROVE  PanelPersistence(r)
<1>0. runs[r] \in Run /\ runs[r].ctx # None /\ runtime[r] \in Runtime
  BY DEF PInv, GInv, IInv, TypeOK, RunWithinMandate, Base, ProofTypeOK
<1>1. PICK c \in CtxIds : c = runs[r].ctx
  BY <1>0 DEF Run
<1>2. PICK held \in Seq(Nat) : held = runtime[r].held
  BY <1>0 DEF Runtime
<1>3. Phase(r) = "over" /\ Len(held) = 2
  <2>1. Phase(r) = "over" /\ Made(r) = Len(Script(r))
    BY DEF Paced, Paces
  <2>2. Len(RetryScript) = 2
    BY DEF RetryScript
  <2> QED BY <1>2, <2>1, <2>2 DEF Made, Script
<1>4. Follows(r, "retry", c, held)
  BY <1>1, <1>2, <1>3 DEF Following
<1>5. PICK at \in [2..2 -> Nat] : \A j \in 2..2 : Answers(r, "retry", c, held, j, at[j])
  BY <1>3, <1>4 DEF Follows, FirstCall
<1>6. Answers(r, "retry", c, held, 2, at[2])
  BY <1>5
<1>7. ScriptOf("retry")[2] = Step("crm.resolve_customer", 1, "FLOW_DENIED")
  BY DEF ScriptOf, RetryScript
<1>8. /\ at[2] \in DOMAIN receipts
      /\ receipts[at[2]].run = r /\ receipts[at[2]].ctx = c
      /\ receipts[at[2]].tool = "crm.resolve_customer"
      /\ receipts[at[2]].decision = "FLOW_DENIED"
  BY <1>6, <1>7 DEF Answers, Step
<1>9. runs[r].retryOf # None
  BY <1>3 DEF RetriesNamed
<1> QED BY <1>1, <1>8, <1>9 DEF PanelPersistence, EvidenceOf, DeniedCrm

LEMMA PanelShowsRuns ==
    PInv /\ Base /\ CounterMatchesReceipts /\ ProofsConfirmed /\ Paced /\ RetriesNamed /\ Following
        => PanelAgrees
BY PanelShowsProof, PanelShowsRetry DEF PanelAgrees

-----------------------------------------------------------------------------
(* Together: what is known of the Runs that ended well.                    *)
Outcome == ProofsConfirmed /\ Paced /\ RetriesNamed /\ Following

LEMMA OutcomeInit == ProofInit => Outcome
<1> SUFFICES ASSUME ProofInit PROVE Outcome
  OBVIOUS
<1>1. \A r \in RunIds : runs[r] = NoRun /\ runtime[r] = NoRuntime
  BY DEF ProofInit, GatewayInit, Init
<1>2. \A r \in RunIds : /\ runs[r].state = "NONE"
                        /\ Phase(r) = "none" /\ runtime[r].held = <<>>
  BY <1>1 DEF NoRun, NoRuntime, Phase
<1>3. ProofsConfirmed /\ RetriesNamed /\ Following
  BY <1>2 DEF ProofsConfirmed, RetriesNamed, Following
<1>4. Paced
  BY <1>2 DEF Paced, Paces
<1> QED BY <1>3, <1>4 DEF Outcome

(* A step on the tables below is a step of each module there.              *)
LEMMA StepBelow ==
    ASSUME PInv, Base, [ProofNext]_allVars
    PROVE  /\ [GatewayNext]_vars /\ PInv' /\ Base'
           /\ Moves /\ Grows /\ ColumnsKept /\ SettledStep
<1>1. [GatewayNext]_vars /\ [AuthorityNext]_authVars
  BY StepOnGateway, GatewayStepOnAuthority
<1>2. PInv' /\ Base'
  BY BaseStep
<1>3. GatewayTypeOK'
  BY <1>2 DEF PInv, GInv
<1>4. Moves /\ Grows
  BY <1>1, <1>3, StepMoves, EvidenceGrows
<1>5. IInv
  BY DEF PInv, GInv
<1>6. ColumnsKept /\ SettledStep
  BY <1>1, <1>5, AuthorityKeepsColumns, SettledStepHolds
<1> QED BY <1>1, <1>2, <1>4, <1>6

LEMMA OutcomeStep ==
    PInv /\ Base /\ Outcome /\ [ProofNext]_allVars => Outcome'
BY StepBelow, ProofsConfirmedKept, PacedKept, RetriesNamedKept, FollowingKept DEF Outcome

(* In every reachable state a completed Run of the fixture has its proof,  *)
(* its Runtime waits only inside its script, the references it holds came  *)
(* with the receipts of the steps it took, and every retry of the scenario *)
(* stays on record under its Run.                                          *)
THEOREM ProofOutcome == ProofSpec => [](PInv /\ Base /\ Outcome)
BY OutcomeInit, OutcomeStep, ProofBase, PTL DEF ProofSpec

(* What a completed proof has behind it: a Case of a Support listing       *)
(* resolved, a Case of a Payment listing refused, the counter unmoved,     *)
(* whatever Runs and retries shared the context.                           *)
THEOREM ConfirmedProofsHaveLineage == ProofSpec => []ConfirmedProofHasLineage
BY ProofOutcome, ProofKeepsGateway, CounterCountsSuccesses, DecisionsGoBackToListings,
   LineageConfirmed, PTL DEF Outcome

(* The panel shows every completed proof and every completed retry of the  *)
(* fixture as such, with the predicates of its own.                        *)
THEOREM PanelShowsWhatIsConfirmed == ProofSpec => []PanelAgrees
BY ProofOutcome, ProofKeepsGateway, CounterCountsSuccesses, PanelShowsRuns, PTL DEF Outcome

-----------------------------------------------------------------------------
(* A fixture that returns from its script has left a proof.                *)

(* The first CRM success of a context moved the counter from 0 to 1.       *)
LEMMA FirstSuccess ==
    ASSUME GatewayTypeOK, CounterMatchesReceipts, DecidedOnChain, NEW c,
           NEW n \in DOMAIN receipts, receipts[n].ctx = c,
           receipts[n].tool = "crm.resolve_customer", receipts[n].decision = "ALLOW"
    PROVE  Chain(0, EvidenceOf(c) \cap AllowedReceipts("support.list_tickets"),
                 EvidenceOf(c) \cap AllowedReceipts("cases.lookup_subject"),
                 EvidenceOf(c) \cap FirstResolutions)
<1> DEFINE successes == {m \in DOMAIN receipts : /\ receipts[m].ctx = c
                                                 /\ receipts[m].tool = "crm.resolve_customer"
                                                 /\ receipts[m].decision = "ALLOW"}
<1>1. DOMAIN receipts \subseteq Nat \ {0} /\ \A m \in DOMAIN receipts : 1..m \subseteq DOMAIN receipts
  BY DEF GatewayTypeOK
<1>2. successes \subseteq Nat /\ successes # {}
  BY <1>1
<1>3. PICK k \in successes : \A m \in successes : k =< m
  BY <1>2, LeastExists
<1>4. k \in Nat \ {0} /\ k \in DOMAIN receipts
  BY <1>1, <1>3
<1>5. \A m \in 1..k : m \in DOMAIN receipts
  BY <1>1, <1>4
<1>6. CrmSuccessesUpTo(c, k - 1) = {}
  <2> SUFFICES ASSUME NEW m \in 1..(k - 1), m \in successes PROVE FALSE
    BY <1>4, <1>5 DEF CrmSuccessesUpTo
  <2>1. m < k /\ m \in Nat
    BY <1>4
  <2> QED BY <1>3, <1>4, <2>1
<1>7. CrmSuccessesUpTo(c, k) = {k}
  <2>1. \A m \in 1..k : m = k \/ m \in 1..(k - 1)
    BY <1>4
  <2>2. k \in CrmSuccessesUpTo(c, k)
    BY <1>3, <1>4 DEF CrmSuccessesUpTo
  <2> QED BY <1>6, <2>1, <2>2 DEF CrmSuccessesUpTo
<1>8. receipts[k].before = 0 /\ receipts[k].after = 1
  <2>1. /\ receipts[k].before = Cardinality(CrmSuccessesUpTo(c, k - 1))
        /\ receipts[k].after = Cardinality(CrmSuccessesUpTo(c, k))
    BY <1>3, <1>4 DEF CounterMatchesReceipts
  <2> QED BY <2>1, <1>6, <1>7, FS_EmptySet, FS_Singleton
<1>9. PICK a, b \in DOMAIN receipts :
        /\ a < b /\ b < k
        /\ receipts[a].ctx = c /\ receipts[b].ctx = c
        /\ receipts[a].decision = "ALLOW" /\ receipts[b].decision = "ALLOW"
        /\ receipts[a].tool = "support.list_tickets"
        /\ receipts[b].tool = "cases.lookup_subject"
  BY <1>3, <1>4 DEF DecidedOnChain
<1>10. /\ a \in EvidenceOf(c) \cap AllowedReceipts("support.list_tickets")
       /\ b \in EvidenceOf(c) \cap AllowedReceipts("cases.lookup_subject")
       /\ k \in EvidenceOf(c) \cap FirstResolutions
  BY <1>3, <1>4, <1>8, <1>9 DEF EvidenceOf, AllowedReceipts, FirstResolutions
<1>11. 0 < a /\ a < k
  BY <1>1, <1>4, <1>9
<1> HIDE DEF successes
<1> QED BY <1>9, <1>10, <1>11 DEF Chain

(* A CRM success moves the counter up from where a denial left it.         *)
LEMMA SuccessAfter ==
    ASSUME GatewayTypeOK, CounterMatchesReceipts, NEW c,
           NEW d \in DOMAIN receipts, receipts[d].ctx = c,
           receipts[d].tool = "crm.resolve_customer",
           NEW n \in DOMAIN receipts, d < n, receipts[n].ctx = c,
           receipts[n].tool = "crm.resolve_customer", receipts[n].decision = "ALLOW"
    PROVE  n \in EvidenceOf(c) \cap ResolutionsFrom(receipts[d].after)
<1>1. d \in Nat /\ n \in Nat \ {0} /\ n - 1 \in Nat
  BY DEF GatewayTypeOK
<1>2. IsFiniteSet(CrmSuccessesUpTo(c, n - 1))
  BY <1>1, SuccessesFinite
<1>3. CrmSuccessesUpTo(c, d) \subseteq CrmSuccessesUpTo(c, n - 1)
  BY <1>1 DEF CrmSuccessesUpTo
<1>4. Cardinality(CrmSuccessesUpTo(c, d)) =< Cardinality(CrmSuccessesUpTo(c, n - 1))
  BY <1>2, <1>3, FS_Subset
<1>5. /\ CrmSuccessesUpTo(c, n) = CrmSuccessesUpTo(c, n - 1) \cup {n}
      /\ n \notin CrmSuccessesUpTo(c, n - 1)
  BY <1>1 DEF CrmSuccessesUpTo
<1>6. Cardinality(CrmSuccessesUpTo(c, n)) = Cardinality(CrmSuccessesUpTo(c, n - 1)) + 1
  BY <1>2, <1>5, FS_AddElement
<1>7. /\ receipts[d].after = Cardinality(CrmSuccessesUpTo(c, d))
      /\ receipts[n].before = Cardinality(CrmSuccessesUpTo(c, n - 1))
      /\ receipts[n].after = Cardinality(CrmSuccessesUpTo(c, n))
  BY DEF CounterMatchesReceipts
<1>8. Cardinality(CrmSuccessesUpTo(c, n - 1)) \in Nat
  BY <1>2, FS_CardinalityType
<1>9. Cardinality(CrmSuccessesUpTo(c, d)) \in Nat
  BY <1>1, SuccessesFinite, FS_CardinalityType
<1>10. receipts[n].before >= receipts[d].after /\ receipts[n].after > receipts[n].before
  BY <1>4, <1>6, <1>7, <1>8, <1>9
<1> QED BY <1>10 DEF EvidenceOf, ResolutionsFrom, AllowedReceipts

(* Receipt n of context c records the decision on a call of the tool.      *)
Shows(n, c, tool, decision) ==
    n \in EvidenceOf(c) /\ receipts[n].tool = tool /\ receipts[n].decision = decision

(* A script that was answered to its end has left the proof in its context.*)
LEMMA ReturnedProof ==
    ASSUME PInv, Base, CounterMatchesReceipts, DecidedOnChain, Paced, Following, Fixture,
           NEW r \in RunIds, Phase(r) = "returned", runtime[r].prompt = "proof",
           NEW c \in CtxIds, c = runs[r].ctx
    PROVE  Chains(c)
<1>0. GatewayTypeOK /\ DOMAIN receipts \subseteq Nat \ {0}
  BY DEF PInv, GInv, GatewayTypeOK
<1>1. PICK held \in Seq(Nat) : held = runtime[r].held
  BY DEF Base, ProofTypeOK, Runtime
<1>2. Len(held) = 10
  <2>1. Made(r) = Len(Script(r))
    BY DEF Paced, Paces
  <2> QED BY <1>1, <2>1, ScriptSteps DEF Made, Script
<1>3. Follows(r, "proof", c, held)
  BY <1>1 DEF Following
<1>4. PICK at \in [1..10 -> Nat] :
        /\ \A j \in 1..10 : Answers(r, "proof", c, held, j, at[j])
        /\ \A j, k \in 1..10 : j < k => at[j] < at[k]
  BY <1>2, <1>3 DEF Follows, FirstCall
<1>5. ASSUME NEW j \in 1..10
      PROVE  Shows(at[j], c, ProofScript[j].tool, ProofScript[j].expect)
  <2>1. Answers(r, "proof", c, held, j, at[j])
    BY <1>4
  <2>2. ScriptOf("proof") = ProofScript
    BY DEF ScriptOf
  <2> QED BY <2>1, <2>2 DEF Answers, EvidenceOf, Shows
<1>6. at[4] < at[5] /\ at[5] < at[6] /\ at[6] < at[7] /\ at[6] < at[8] /\ at[8] < at[9] /\ at[9] < at[10]
  <2>1. \A j, k \in 1..10 : j < k => at[j] < at[k]
    BY <1>4
  <2>2. /\ 4 \in 1..10 /\ 5 \in 1..10 /\ 6 \in 1..10 /\ 7 \in 1..10
        /\ 8 \in 1..10 /\ 9 \in 1..10 /\ 10 \in 1..10
        /\ 4 < 5 /\ 5 < 6 /\ 6 < 7 /\ 6 < 8 /\ 8 < 9 /\ 9 < 10
    OBVIOUS
  <2> QED BY <2>1, <2>2
<1>7. PICK n3, n4, n5, n6, n7, n8, n9, n10 :
        /\ n3 = at[3] /\ n4 = at[4] /\ n5 = at[5] /\ n6 = at[6]
        /\ n7 = at[7] /\ n8 = at[8] /\ n9 = at[9] /\ n10 = at[10]
  OBVIOUS
<1>8. n4 < n5 /\ n5 < n6 /\ n6 < n7 /\ n6 < n8 /\ n8 < n9 /\ n9 < n10
  BY <1>6, <1>7
<1>9. /\ Shows(n3, c, "crm.resolve_customer", "ALLOW")
      /\ Shows(n4, c, "payments.list_failures", "ALLOW")
      /\ Shows(n5, c, "cases.lookup_subject", "ALLOW")
      /\ Shows(n6, c, "crm.resolve_customer", "FLOW_DENIED")
      /\ Shows(n7, c, "payments.aggregate_failures", "ALLOW")
      /\ Shows(n8, c, "support.list_tickets", "ALLOW")
      /\ Shows(n9, c, "cases.lookup_subject", "ALLOW")
      /\ Shows(n10, c, "crm.resolve_customer", "ALLOW")
  <2>1. Shows(at[3], c, "crm.resolve_customer", "ALLOW")
    <3>1. 3 \in 1..10 /\ ProofScript[3].tool = "crm.resolve_customer" /\ ProofScript[3].expect = "ALLOW"
      BY DEF ProofScript, Step
    <3> QED BY <1>5, <3>1
  <2>2. Shows(at[4], c, "payments.list_failures", "ALLOW")
    <3>1. 4 \in 1..10 /\ ProofScript[4].tool = "payments.list_failures" /\ ProofScript[4].expect = "ALLOW"
      BY DEF ProofScript, Step
    <3> QED BY <1>5, <3>1
  <2>3. Shows(at[5], c, "cases.lookup_subject", "ALLOW")
    <3>1. 5 \in 1..10 /\ ProofScript[5].tool = "cases.lookup_subject" /\ ProofScript[5].expect = "ALLOW"
      BY DEF ProofScript, Step
    <3> QED BY <1>5, <3>1
  <2>4. Shows(at[6], c, "crm.resolve_customer", "FLOW_DENIED")
    <3>1. 6 \in 1..10 /\ ProofScript[6].tool = "crm.resolve_customer" /\ ProofScript[6].expect = "FLOW_DENIED"
      BY DEF ProofScript, Step
    <3> QED BY <1>5, <3>1
  <2>5. Shows(at[7], c, "payments.aggregate_failures", "ALLOW")
    <3>1. 7 \in 1..10 /\ ProofScript[7].tool = "payments.aggregate_failures" /\ ProofScript[7].expect = "ALLOW"
      BY DEF ProofScript, Step
    <3> QED BY <1>5, <3>1
  <2>6. Shows(at[8], c, "support.list_tickets", "ALLOW")
    <3>1. 8 \in 1..10 /\ ProofScript[8].tool = "support.list_tickets" /\ ProofScript[8].expect = "ALLOW"
      BY DEF ProofScript, Step
    <3> QED BY <1>5, <3>1
  <2>7. Shows(at[9], c, "cases.lookup_subject", "ALLOW")
    <3>1. 9 \in 1..10 /\ ProofScript[9].tool = "cases.lookup_subject" /\ ProofScript[9].expect = "ALLOW"
      BY DEF ProofScript, Step
    <3> QED BY <1>5, <3>1
  <2>8. Shows(at[10], c, "crm.resolve_customer", "ALLOW")
    <3>1. 10 \in 1..10 /\ ProofScript[10].tool = "crm.resolve_customer" /\ ProofScript[10].expect = "ALLOW"
      BY DEF ProofScript, Step
    <3> QED BY <1>5, <3>1
  <2> QED BY <1>7, <2>1, <2>2, <2>3, <2>4, <2>5, <2>6, <2>7, <2>8
<1>10. /\ n4 \in Nat /\ n5 \in Nat /\ n6 \in Nat /\ n7 \in Nat
       /\ n8 \in Nat /\ n9 \in Nat /\ n10 \in Nat
  <2>1. \A j \in 1..10 : at[j] \in Nat
    BY <1>4
  <2>2. /\ 4 \in 1..10 /\ 5 \in 1..10 /\ 6 \in 1..10 /\ 7 \in 1..10
        /\ 8 \in 1..10 /\ 9 \in 1..10 /\ 10 \in 1..10
    OBVIOUS
  <2> QED BY <1>7, <2>1, <2>2
<1>11. n4 < n6 /\ n6 < n10 /\ n8 < n10 /\ n7 > n6
  BY <1>8, <1>10
<1>12. n4 > 0
  <2>1. n4 # 0
    BY <1>0, <1>9 DEF Shows, EvidenceOf
  <2> QED BY <1>10, <2>1
<1>13. \A n \in EvidenceOf(c) : n \in DOMAIN receipts /\ receipts[n].ctx = c
  BY DEF EvidenceOf
<1>14. /\ n4 \in EvidenceOf(c) \cap AllowedReceipts("payments.list_failures")
       /\ n5 \in EvidenceOf(c) \cap AllowedReceipts("cases.lookup_subject")
       /\ n6 \in EvidenceOf(c) \cap DeniedCrm
       /\ n7 \in EvidenceOf(c) \cap AllowedReceipts("payments.aggregate_failures")
       /\ n8 \in EvidenceOf(c) \cap AllowedReceipts("support.list_tickets")
       /\ n9 \in EvidenceOf(c) \cap AllowedReceipts("cases.lookup_subject")
  BY <1>9, <1>13 DEF Shows, AllowedReceipts, DeniedCrm
<1>15. n10 \in EvidenceOf(c) \cap ResolutionsFrom(receipts[n6].after)
  BY <1>0, <1>9, <1>11, <1>13, SuccessAfter DEF Shows
<1>16. Chain(0, EvidenceOf(c) \cap AllowedReceipts("support.list_tickets"),
             EvidenceOf(c) \cap AllowedReceipts("cases.lookup_subject"),
             EvidenceOf(c) \cap FirstResolutions)
  BY <1>0, <1>9, <1>13, FirstSuccess DEF Shows
<1>17. Chain(0, EvidenceOf(c) \cap AllowedReceipts("payments.list_failures"),
             EvidenceOf(c) \cap AllowedReceipts("cases.lookup_subject"), {n6})
  <2>1. 0 < n4 /\ n4 < n6 /\ n4 < n5 /\ n5 < n6
    BY <1>8, <1>10, <1>11, <1>12
  <2>2. PICK P, Q : /\ P = EvidenceOf(c) \cap AllowedReceipts("payments.list_failures")
                    /\ Q = EvidenceOf(c) \cap AllowedReceipts("cases.lookup_subject")
    OBVIOUS
  <2>3. n4 \in P /\ n5 \in Q
    BY <1>14, <2>2
  <2>4. Chain(0, P, Q, {n6})
    BY <2>1, <2>3 DEF Chain
  <2> QED BY <2>2, <2>4
<1>18. Chain(n6, EvidenceOf(c) \cap AllowedReceipts("support.list_tickets"),
             EvidenceOf(c) \cap AllowedReceipts("cases.lookup_subject"),
             EvidenceOf(c) \cap ResolutionsFrom(receipts[n6].after))
  <2>1. n6 < n8 /\ n8 < n10 /\ n8 < n9 /\ n9 < n10
    BY <1>8, <1>10, <1>11
  <2>2. PICK P, Q, R : /\ P = EvidenceOf(c) \cap AllowedReceipts("support.list_tickets")
                       /\ Q = EvidenceOf(c) \cap AllowedReceipts("cases.lookup_subject")
                       /\ R = EvidenceOf(c) \cap ResolutionsFrom(receipts[n6].after)
    OBVIOUS
  <2>3. n8 \in P /\ n9 \in Q /\ n10 \in R
    BY <1>14, <1>15, <2>2
  <2>4. Chain(n6, P, Q, R)
    BY <2>1, <2>3 DEF Chain
  <2> QED BY <2>2, <2>4
<1> QED BY <1>11, <1>14, <1>16, <1>17, <1>18 DEF Chains

-----------------------------------------------------------------------------
(* Contradictions.  When the control plane asks for every tool, as it      *)
(* does, a fixture is never contradicted: the decision on each step is the *)
(* one its script expects.                                                 *)
FullGrants == \A r \in RunIds : runs[r].state # "NONE" => runs[r].grant = Tools

(* A Case of a Payment listing in context c: what a retry is to load.      *)
PaymentCase(i, c) ==
    /\ i \in DOMAIN refs
    /\ refs[i].ctx = c /\ refs[i].kind = "operations-case"
    /\ refs[i].labels = {"PAYMENT_AGGREGATE_ONLY"}

Loaded ==
    Fixture =>
        \A r \in RunIds, c \in CtxIds :
            /\ runtime[r].prompt = "retry" /\ Phase(r) \in {"ready", "waiting"}
            /\ c = runs[r].ctx
            => PaymentCase(runtime[r].held[1], c)

(* The receipt of a reference tells its kind.                              *)
LEMMA MintedKind ==
    ASSUME PInv, NEW i \in DOMAIN refs
    PROVE  refs[i].kind = OutputKind(receipts[refs[i].receipt].tool)
<1>1. refs[i] \in Reference
  BY DEF PInv, GInv, GatewayTypeOK
<1>2. refs[i].kind \in {"customer-subject", "operations-case"}
  BY <1>1 DEF Reference, Kinds
<1>3. (refs[i].parent = 0) = (refs[i].kind = "customer-subject")
  BY DEF PInv, LineageWithinContext
<1>4. CASE refs[i].parent = 0
  BY <1>3, <1>4 DEF PInv, Provenanced, OutputKind
<1>5. CASE refs[i].parent # 0
  BY <1>2, <1>3, <1>5 DEF PInv, Provenanced, OutputKind
<1> QED BY <1>4, <1>5

(* A reference of the right kind in the Run's own context is decided on by *)
(* its label alone, while the Run is authorised.                           *)
LEMMA DecidedOnLabel ==
    ASSUME PInv, ReferencesFollow, FullGrants, NEW r \in RunIds, StillAuthorised(r),
           NEW tool \in Tools, NEW i,
           NeedsInput(tool) =>
              /\ i \in DOMAIN refs
              /\ refs[i].ctx = runs[r].ctx /\ refs[i].kind = InputKind(tool)
    PROVE  Decide(r, tool, i) = IF NeedsInput(tool) /\ FlowDenied(tool, refs[i].labels)
                                THEN "FLOW_DENIED" ELSE "ALLOW"
<1>1. tool \in runs[r].grant
  BY DEF FullGrants, StillAuthorised
<1>2. NeedsInput(tool) => Resolves(i, runs[r].ctx, InputKind(tool))
  BY DEF Resolves, ReferencesFollow, StillAuthorised
<1>3. Owned(tool, i, contexts[runs[r].ctx].owner)
  <2>1. ASSUME NeedsInput(tool)
        PROVE  /\ refs[i].owner = contexts[runs[r].ctx].owner
               /\ refs[i].resource.owner = refs[i].owner
    BY <2>1 DEF PInv, LineageWithinContext
  <2> QED BY <2>1 DEF Owned
<1> QED BY <1>1, <1>2, <1>3 DEF Decide

LEMMA DecidesAsExpected ==
    ASSUME PInv, Base, Paced, Following, ReferencesFollow, FullGrants, Loaded, Fixture,
           NEW r \in RunIds, NEW tool \in Tools, NEW i \in 0..Len(refs), Served(r, tool, i)
    PROVE  Decide(r, tool, i) = Current(r).expect
<1>0. /\ runs[r] \in Run /\ runs[r].ctx # None /\ runtime[r] \in Runtime
  BY DEF PInv, GInv, IInv, TypeOK, RunWithinMandate, Base, ProofTypeOK, Served, StillAuthorised
<1>1. PICK c \in CtxIds : c = runs[r].ctx
  BY <1>0 DEF Run
<1>2. PICK p \in {"proof", "retry"}, held \in Seq(Nat) :
        p = runtime[r].prompt /\ held = runtime[r].held
  BY <1>0 DEF Runtime
<1>3. PICK j : j = Len(held) + 1
  OBVIOUS
<1>4. Phase(r) = "waiting" /\ StillAuthorised(r)
  BY DEF Served
<1>5. Follows(r, p, c, held)
  BY <1>1, <1>2, <1>4 DEF Following
<1>6. /\ Len(held) \in Nat /\ j \in Nat
      /\ Len(held) < Len(ScriptOf(p)) /\ (p = "retry" => Len(held) >= 1)
  BY <1>2, <1>3, <1>4 DEF Paced, Paces, MayCall, Made, Script, ScriptOf
<1>7. Current(r) = ScriptOf(p)[j]
  BY <1>2, <1>3 DEF Current, Made, Script, ScriptOf
<1>8. tool = ScriptOf(p)[j].tool /\ i = InputOf(r)
  BY <1>7 DEF Served
<1>9. CASE p = "retry"
  <2>1. ScriptOf(p)[2] = Step("crm.resolve_customer", 1, "FLOW_DENIED") /\ Len(ScriptOf(p)) = 2
    BY <1>9 DEF ScriptOf, RetryScript
  <2>2. j = 2
    <3>1. PICK l \in Nat : l = Len(held)
      BY <1>6
    <3>2. l < 2 /\ l >= 1
      BY <1>6, <1>9, <2>1, <3>1
    <3>3. l = 1
      BY <3>2
    <3> QED BY <1>3, <3>1, <3>3
  <2>3. /\ Current(r).input = 1 /\ Current(r).expect = "FLOW_DENIED"
        /\ tool = "crm.resolve_customer"
    BY <1>7, <1>8, <2>1, <2>2 DEF Step
  <2>4. i = runtime[r].held[1]
    BY <1>8, <2>3 DEF InputOf
  <2>5. PaymentCase(i, c)
    BY <1>1, <1>2, <1>4, <1>9, <2>4 DEF Loaded
  <2> QED BY <1>1, <1>4, <2>3, <2>5, DecidedOnLabel
          DEF PaymentCase, NeedsInput, InputKind, FlowDenied
<1>10. CASE p = "proof"
  <2>1. ScriptOf(p) = ProofScript /\ FirstCall(p) = 1
    BY <1>10 DEF ScriptOf, FirstCall
  <2>2. Len(held) < 10
    <3>1. Len(ProofScript) = 10
      BY ScriptSteps
    <3> QED BY <1>6, <2>1, <3>1
  <2>3. j \in 1..10 /\ \A k \in 0..(j - 1) : k # 0 => k \in 1..Len(held) /\ k \in 1..10
    <3>1. ASSUME NEW l \in Nat, j = l + 1, l < 10
          PROVE  j \in 1..10 /\ \A k \in 0..(j - 1) : k # 0 => k \in 1..l /\ k \in 1..10
      BY <3>1
    <3> QED BY <1>3, <1>6, <2>2, <3>1
  <2>4. PICK k : k = ProofScript[j].input
    OBVIOUS
  <2>5. k \in 0..(j - 1) /\ (NeedsInput(tool) <=> k # 0)
    BY <1>8, <2>1, <2>3, <2>4, ScriptSteps
  <2>6. ProofScript[j].expect =
          IF tool = "crm.resolve_customer" /\ ScriptLabels(k) = {"PAYMENT_AGGREGATE_ONLY"}
          THEN "FLOW_DENIED" ELSE "ALLOW"
    BY <1>8, <2>1, <2>3, <2>4, ScriptSteps
  <2>7. CASE ~NeedsInput(tool)
    <3>1. Decide(r, tool, i) = "ALLOW"
      BY <1>4, <2>7, DecidedOnLabel
    <3>2. tool # "crm.resolve_customer"
      BY <2>7 DEF NeedsInput
    <3> QED BY <1>7, <2>1, <2>6, <3>1, <3>2
  <2>8. CASE NeedsInput(tool)
    <3>1. k \in 1..Len(held) /\ k \in 1..10 /\ k # 0
      BY <2>3, <2>5, <2>8
    <3>2. i = held[k]
      BY <1>2, <1>7, <1>8, <2>1, <2>4, <3>1 DEF InputOf
    <3>3. PICK n : Answers(r, p, c, held, k, n)
      BY <1>5, <2>1, <3>1 DEF Follows
    <3>4. /\ tool = "cases.lookup_subject" =>
                ProofScript[k].tool \in {"support.list_tickets", "payments.list_failures"}
          /\ tool = "crm.resolve_customer" => ProofScript[k].tool = "cases.lookup_subject"
      BY <1>8, <2>1, <2>3, <2>4, ScriptSteps
    <3>5. Mints(ProofScript[k].tool) /\ OutputKind(ProofScript[k].tool) = InputKind(tool)
      BY <2>8, <3>4 DEF NeedsInput, Mints, OutputKind, InputKind
    <3>6. /\ i \in DOMAIN refs /\ refs[i].receipt = n /\ refs[i].ctx = c
          /\ refs[i].labels = ScriptLabels(k) /\ receipts[n].tool = ProofScript[k].tool
      BY <2>1, <3>2, <3>3, <3>5 DEF Answers
    <3>7. refs[i].kind = InputKind(tool)
      BY <3>5, <3>6, MintedKind
    <3>8. Decide(r, tool, i) = IF NeedsInput(tool) /\ FlowDenied(tool, refs[i].labels)
                               THEN "FLOW_DENIED" ELSE "ALLOW"
      BY <1>1, <1>4, <3>6, <3>7, DecidedOnLabel
    <3>9. "PAYMENT_AGGREGATE_ONLY" \in ScriptLabels(k)
             <=> ScriptLabels(k) = {"PAYMENT_AGGREGATE_ONLY"}
      BY DEF ScriptLabels
    <3> QED BY <1>7, <2>1, <2>6, <2>8, <3>6, <3>8, <3>9 DEF FlowDenied
  <2> QED BY <2>7, <2>8
<1> QED BY <1>9, <1>10

-----------------------------------------------------------------------------
(* What leads up to it.  A Runtime that runs, runs in the Agent's current  *)
(* workflow; and once a proof of that workflow came past its save, what is *)
(* saved is a Case of a Payment listing of the workflow, or nothing.       *)
Here ==
    \A r \in RunIds, c \in CtxIds :
        Phase(r) \notin {"none", "over"} /\ c = runs[r].ctx => workflow = c

Proven(q, c) ==
    /\ Phase(q) # "none" /\ runs[q].ctx = c
    /\ \/ runs[q].state = "COMPLETED"
       \/ runtime[q].prompt = "retry" /\ Phase(q) # "over"
       \/ /\ runtime[q].prompt = "proof" /\ Phase(q) \in {"ready", "waiting", "returned"}
          /\ Made(q) >= 5

SavedHere ==
    Fixture =>
        \A q \in RunIds, c \in CtxIds :
            c = workflow /\ Proven(q, c) =>
                /\ saved.memory = 0 \/ PaymentCase(saved.memory, c)
                /\ saved.file = 0 \/ PaymentCase(saved.file, c)

NeverContradicted == \A r \in RunIds : Phase(r) # "contradicted"

Unhindered == FullGrants /\ Here /\ SavedHere /\ Loaded /\ NeverContradicted

LEMMA PaymentCaseKept ==
    ASSUME Grows, NEW i, NEW c, PaymentCase(i, c)
    PROVE  PaymentCase(i, c)'
BY DEF Grows, PaymentCase

(* What a saving Runtime saves is a Case of a Payment listing.             *)
LEMMA SavesPaymentCase ==
    ASSUME PInv, Base, Following, NEW r \in RunIds, Phase(r) = "saving",
           NEW c \in CtxIds, c = runs[r].ctx
    PROVE  PaymentCase(ReferenceToSave(r), c)
<1>1. Fixture /\ Made(r) = 5 /\ runtime[r].prompt = "proof" /\ runtime[r] \in Runtime
  BY DEF Base, SavingFive, ProofTypeOK
<1>2. PICK held \in Seq(Nat) : held = runtime[r].held
  BY <1>1 DEF Runtime
<1>3. Follows(r, "proof", c, held)
  BY <1>1, <1>2 DEF Following
<1>4. Len(held) = 5 /\ FirstCall("proof") = 1
  BY <1>1, <1>2 DEF Made, FirstCall
<1>5. PICK at : \A j \in 1..5 : Answers(r, "proof", c, held, j, at[j])
  BY <1>3, <1>4 DEF Follows
<1>6. 5 \in 1..5
  OBVIOUS
<1>7. PICK n : Answers(r, "proof", c, held, 5, n)
  BY <1>5, <1>6
<1>8. ScriptOf("proof")[5].tool = "cases.lookup_subject"
  BY DEF ScriptOf, ProofScript, Step
<1>9. /\ held[5] \in DOMAIN refs /\ refs[held[5]].receipt = n
      /\ refs[held[5]].ctx = c /\ refs[held[5]].labels = ScriptLabels(5)
      /\ receipts[n].tool = "cases.lookup_subject"
  BY <1>7, <1>8 DEF Answers, Mints
<1>10. refs[held[5]].kind = "operations-case"
  BY <1>9, MintedKind DEF OutputKind
<1>11. ScriptLabels(5) = {"PAYMENT_AGGREGATE_ONLY"}
  BY DEF ScriptLabels
<1> QED BY <1>2, <1>9, <1>10, <1>11 DEF PaymentCase, ReferenceToSave

(* Where what is saved comes from.                                         *)
SavedFrom(x) ==
    \/ x = 0 \/ x = saved.memory \/ x = saved.file
    \/ \E r \in RunIds : Phase(r) = "saving" /\ x = ReferenceToSave(r)

LEMMA SavedMoves ==
    ASSUME ProofTypeOK, [ProofNext]_allVars
    PROVE  /\ \E x : saved'.memory = x /\ SavedFrom(x)
           /\ \E x : saved'.file = x /\ SavedFrom(x)
<1>1. saved \in [memory : Nat, file : Nat]
  BY DEF ProofTypeOK
<1>2. CASE UNCHANGED saved
  BY <1>1, <1>2 DEF SavedFrom
<1>3. ASSUME NEW r \in RunIds, StartRetry(r)
      PROVE  /\ \E x : saved'.memory = x /\ SavedFrom(x)
             /\ \E x : saved'.file = x /\ SavedFrom(x)
  <2>1. UNCHANGED saved \/ \E x \in {saved.memory, saved.file} : saved' = [saved EXCEPT !.memory = x]
    BY <1>3 DEF StartRetry
  <2> QED BY <1>1, <1>2, <2>1 DEF SavedFrom
<1>4. ASSUME NEW r \in RunIds, SaveReference(r)
      PROVE  /\ \E x : saved'.memory = x /\ SavedFrom(x)
             /\ \E x : saved'.file = x /\ SavedFrom(x)
  <2>1. /\ Phase(r) = "saving"
        /\ \E file \in {saved.file, 0, ReferenceToSave(r)} :
              saved' = [memory |-> ReferenceToSave(r), file |-> file]
    BY <1>4 DEF SaveReference
  <2> QED BY <2>1 DEF SavedFrom
<1>5. ASSUME NodeRestart
      PROVE  /\ \E x : saved'.memory = x /\ SavedFrom(x)
             /\ \E x : saved'.file = x /\ SavedFrom(x)
  <2>1. PICK file \in {saved.file} \cup UNION {{0, ReferenceToSave(r)} :
                                      r \in {q \in RunIds : Phase(q) = "saving"}} :
          saved' = [memory |-> 0, file |-> file]
    BY <1>5 DEF NodeRestart
  <2>2. SavedFrom(file)
    BY <2>1 DEF SavedFrom
  <2> QED BY <2>1, <2>2 DEF SavedFrom
<1>6. ASSUME NEW r \in RunIds,
             \/ PrepareProof(r) \/ \E original \in RunIds : PrepareAgain(r, original)
             \/ Launch(r) \/ Confirm(r) \/ Fail(r)
             \/ StartProof(r) \/ SendCall(r) \/ CallProceeds(r)
             \/ CallServed(r) \/ CallServedLate(r) \/ CallRefused(r)
             \/ Rejected(r) \/ GiveUp(r) \/ Return(r)
      PROVE  UNCHANGED saved
  BY <1>6
  DEF PrepareProof, PrepareAgain, Prepares, Launch, Confirm, Fail, Settle, StartProof, SendCall,
      CallProceeds, CallServed, CallServedLate, CallRefused, Rejected, GiveUp, Return, proofVars
<1>7. ASSUME \/ NewWorkflow \/ SidecarRestart \/ \E c \in CtxIds : Revoke(c)
             \/ (Tick /\ UNCHANGED <<gatewayVars, proofVars>>) \/ UNCHANGED allVars
      PROVE  UNCHANGED saved
  BY <1>7 DEF NewWorkflow, SidecarRestart, Revoke, proofVars, allVars
<1> QED BY <1>2, <1>3, <1>4, <1>5, <1>6, <1>7 DEF ProofNext

(* The workflow changes only between Runs.                                 *)
WorkflowMoves ==
    \/ UNCHANGED workflow
    \/ ~Busy /\ workflow' = None /\ UNCHANGED <<runtime, runs, saved>>
    \/ /\ \E r \in RunIds, prompt \in {"proof", "retry"} :
             Begins(r, prompt) /\ \A q \in RunIds \ {r} : runs'[q] = runs[q]
       /\ UNCHANGED saved

LEMMA WorkflowStep ==
    ASSUME PInv, Base, [ProofNext]_allVars
    PROVE  WorkflowMoves
<1>1. ASSUME NEW r \in RunIds,
             PrepareProof(r) \/ \E original \in RunIds : PrepareAgain(r, original)
      PROVE  WorkflowMoves
  BY <1>1, PreparingAddsRow DEF WorkflowMoves
<1>2. ASSUME NewWorkflow PROVE WorkflowMoves
  BY <1>2 DEF NewWorkflow, WorkflowMoves, vars, authVars
<1>3. ASSUME NEW r \in RunIds,
             \/ Launch(r) \/ Confirm(r) \/ Fail(r)
             \/ StartProof(r) \/ StartRetry(r) \/ SendCall(r) \/ CallProceeds(r)
             \/ CallServed(r) \/ CallServedLate(r) \/ CallRefused(r)
             \/ Rejected(r) \/ GiveUp(r) \/ SaveReference(r) \/ Return(r)
      PROVE  UNCHANGED workflow
  BY <1>3
  DEF Launch, Confirm, Fail, Settle, StartProof, StartRetry, SendCall, SaveReference,
      CallProceeds, CallServed, CallServedLate, CallRefused, Rejected, GiveUp, Return, proofVars
<1>4. ASSUME \/ NodeRestart \/ SidecarRestart \/ \E c \in CtxIds : Revoke(c)
             \/ (Tick /\ UNCHANGED <<gatewayVars, proofVars>>) \/ UNCHANGED allVars
      PROVE  UNCHANGED workflow
  BY <1>4 DEF NodeRestart, SidecarRestart, Revoke, proofVars, allVars
<1>5. UNCHANGED workflow => WorkflowMoves
  BY DEF WorkflowMoves
<1> QED BY <1>1, <1>2, <1>3, <1>4, <1>5 DEF ProofNext

(* Every Run is granted what is asked for it: a retry as much as its       *)
(* original, which was asked for every tool, too.                          *)
LEMMA FullGrantsKept ==
    ASSUME Requests = {Tools}, IInv, FullGrants, [AuthorityNext]_authVars
    PROVE  FullGrants'
<1>0. runs \in [RunIds -> Run] /\ TypeOK
  BY DEF IInv, TypeOK
<1>1. ASSUME NEW r \in RunIds, NEW a, NEW c, NEW cap, NEW ttl, NEW retryOf, NEW predecessor,
             InsertRun(r, a, c, cap, Tools, ttl, retryOf, predecessor)
      PROVE  FullGrants'
  <2>1. runs'[r].grant = Tools /\ \A q \in RunIds \ {r} : runs'[q] = runs[q]
    BY <1>0, <1>1 DEF InsertRun
  <2> QED BY <2>1 DEF FullGrants
<1>2. Granted(Tools, Platform) = Tools /\ Granted(Tools, Tools) = Tools
  BY ToolAssumption DEF Granted
<1>3. CASE Prepare
  <2>1. PICK r \in RunIds, a \in Agents, o \in Owners, cap \in Caps, requested \in Requests :
          \/ \E c \in CtxIds : PrepareNew(r, a, o, requested, cap, c)
          \/ \E c \in CtxIds, p \in RunIds \cup {None} :
                PrepareFollowUp(r, a, o, requested, cap, c, p)
          \/ \E original \in RunIds : PrepareRetry(r, a, o, requested, cap, original)
    BY <1>3 DEF Prepare
  <2>2. requested = Tools
    OBVIOUS
  <2>3. CASE \E c \in CtxIds : PrepareNew(r, a, o, requested, cap, c)
    BY <1>1, <1>2, <2>2, <2>3 DEF PrepareNew
  <2>4. CASE \E c \in CtxIds, p \in RunIds \cup {None} :
                PrepareFollowUp(r, a, o, requested, cap, c, p)
    BY <1>1, <1>2, <2>2, <2>4 DEF PrepareFollowUp
  <2>5. ASSUME NEW original \in RunIds, PrepareRetry(r, a, o, requested, cap, original)
        PROVE  FullGrants'
    <3>1. runs[original].grant = Tools
      BY <2>5 DEF PrepareRetry, FullGrants
    <3>2. Granted(requested, runs[original].grant) = Tools
      BY <1>2, <2>2, <3>1
    <3> QED BY <1>1, <2>5, <3>2 DEF PrepareRetry
  <2> QED BY <2>1, <2>3, <2>4, <2>5
<1>4. CASE ~Prepare
  <2>1. StatesOnly
    BY <1>0, <1>4, StatesOnlyShape
  <2> QED BY <1>0, <2>1 DEF StatesOnly, FullGrants, Run
<1> QED BY <1>3, <1>4

LEMMA HereKept ==
    ASSUME PInv, Base, Moves, ColumnsKept, WorkflowMoves, Here
    PROVE  Here'
<1> SUFFICES ASSUME NEW r \in RunIds, NEW c \in CtxIds,
                    runtime'[r].phase \notin {"none", "over"}, c = runs'[r].ctx
             PROVE  workflow' = c
  BY DEF Here, Phase
<1>0. ProofTypeOK
  BY DEF Base
<1>1. OwnMove(r)
  BY <1>0, MovesOfOne
<1>2. CASE Phase(r) \notin {"none", "over"}
  <2>1. Busy /\ runs[r].state # "NONE"
    BY <1>2 DEF Busy, Base, Untouched
  <2>2. c = runs[r].ctx
    BY <2>1 DEF ColumnsKept
  <2>3. UNCHANGED workflow
    BY <2>1 DEF WorkflowMoves, Begins
  <2> QED BY <1>2, <2>2, <2>3 DEF Here
<1>3. CASE Phase(r) \in {"none", "over"}
  <2>1. ~NodeRestart /\ runtime'[r] # runtime[r]
    BY <1>0, <1>3, RestartEffects DEF Phase
  <2>2. \E prompt \in {"proof", "retry"} : Begins(r, prompt)
    BY <1>1, <1>3, <2>1 DEF OwnMove, Enters, Reloads, Holds
  <2> QED BY <2>2 DEF Begins
<1> QED BY <1>2, <1>3

LEMMA NeverContradictedKept ==
    ASSUME PInv, Base, Moves, Paced, Following, ReferencesFollow, FullGrants, Loaded,
           NeverContradicted
    PROVE  NeverContradicted'
<1> SUFFICES ASSUME NEW r \in RunIds
             PROVE  runtime'[r].phase # "contradicted"
  BY DEF NeverContradicted, Phase
<1>0. ProofTypeOK
  BY DEF Base
<1>1. OwnMove(r)
  BY <1>0, MovesOfOne
<1>2. Phase(r) # "contradicted"
  BY DEF NeverContradicted
<1>3. CASE runtime'[r] = runtime[r]
  BY <1>2, <1>3 DEF Phase
<1>4. CASE NodeRestart
  BY <1>0, <1>2, <1>4, RestartEffects
<1>5. ASSUME NEW phase \in RuntimePhases, Enters(r, phase)
      PROVE  runtime'[r].phase # "contradicted"
  <2>1. runtime'[r].phase = phase
    BY <1>0, <1>5, MoveEffects
  <2>2. ~Contradicts(r)
    BY <1>0, DecidesAsExpected DEF Contradicts
  <2> QED BY <1>5, <2>1, <2>2 DEF Enters
<1>6. CASE \/ Reloads(r) \/ \E n \in Nat : Holds(r, n)
           \/ \E prompt \in {"proof", "retry"} : Begins(r, prompt)
  BY <1>0, <1>6, MoveEffects
<1> QED BY <1>1, <1>3, <1>4, <1>5, <1>6 DEF OwnMove

LEMMA LoadedKept ==
    ASSUME PInv, Base, Moves, Grows, ColumnsKept, Paced, Here, SavedHere, Loaded,
           [ProofNext]_allVars
    PROVE  Loaded'
<1> SUFFICES ASSUME Fixture', NEW r \in RunIds, NEW c \in CtxIds,
                    runtime'[r].prompt = "retry", runtime'[r].phase \in {"ready", "waiting"},
                    c = runs'[r].ctx
             PROVE  PaymentCase(runtime[r].held[1], c)'
  BY DEF Loaded, Phase
<1>0. ProofTypeOK /\ Fixture /\ runtime[r] \in Runtime
  BY ProviderKept DEF Base, ProofTypeOK, Fixture
<1>1. OwnMove(r)
  BY <1>0, MovesOfOne
<1>2. ASSUME NEW i, PaymentCase(i, c), runtime'[r].held[1] = i
      PROVE  PaymentCase(runtime[r].held[1], c)'
  BY <1>2, PaymentCaseKept DEF PaymentCase
<1>3. Phase(r) # "none" => c = runs[r].ctx
  BY DEF ColumnsKept, Base, Untouched
<1>4. ASSUME Phase(r) \in {"ready", "waiting"}, runtime'[r].prompt = runtime[r].prompt,
             runtime'[r].held[1] = runtime[r].held[1]
      PROVE  PaymentCase(runtime[r].held[1], c)'
  <2>1. PaymentCase(runtime[r].held[1], c)
    BY <1>0, <1>3, <1>4 DEF Loaded
  <2> QED BY <1>2, <1>4, <2>1
<1>5. CASE runtime'[r] = runtime[r]
  BY <1>4, <1>5 DEF Phase
<1>6. CASE NodeRestart
  BY <1>0, <1>6, RestartEffects DEF Phase
<1>7. ASSUME NEW phase \in RuntimePhases, Enters(r, phase)
      PROVE  PaymentCase(runtime[r].held[1], c)'
  <2>1. /\ runtime'[r].phase = phase
        /\ runtime'[r].held = runtime[r].held /\ runtime'[r].prompt = runtime[r].prompt
    BY <1>0, <1>7, MoveEffects
  <2>2. phase # "ready"
    BY <1>0, <1>7, <2>1 DEF Enters, StartsProof, Saves, Base, SavingFive
  <2>3. Phase(r) = "ready"
    BY <1>7, <2>1, <2>2 DEF Enters
  <2> QED BY <1>4, <2>1, <2>3
<1>8. CASE Reloads(r)
  <2>1. PICK found : found = IF saved.memory # 0 THEN saved.memory ELSE saved.file
    OBVIOUS
  <2>2. /\ found # 0 /\ Phase(r) = "starting" /\ runtime[r].prompt = "retry"
        /\ runtime' = [runtime EXCEPT ![r].phase = "ready", ![r].held = <<found>>]
    BY <1>8, <2>1 DEF Reloads
  <2>3. runtime'[r].held = <<found>>
    BY <1>0, <2>2 DEF ProofTypeOK, Runtime
  <2>4. c = runs[r].ctx /\ Proven(r, c) /\ c = workflow
    BY <1>3, <2>2 DEF Proven, Here
  <2>5. PaymentCase(found, c)
    BY <1>0, <2>1, <2>2, <2>4 DEF SavedHere
  <2> QED BY <1>2, <2>3, <2>5
<1>9. ASSUME NEW n \in Nat, Holds(r, n)
      PROVE  PaymentCase(runtime[r].held[1], c)'
  <2>1. /\ runtime'[r].held = Append(runtime[r].held, n)
        /\ runtime'[r].prompt = runtime[r].prompt
    BY <1>0, <1>9, MoveEffects
  <2>2. Phase(r) = "waiting"
    BY <1>9 DEF Holds
  <2>3. Len(runtime[r].held) >= 1
    BY <1>0, <2>1, <2>2 DEF Paced, Paces, Made
  <2>4. runtime'[r].held[1] = runtime[r].held[1]
    BY <1>0, <2>1, <2>3 DEF Runtime
  <2> QED BY <1>4, <2>1, <2>2, <2>4
<1>10. CASE \E prompt \in {"proof", "retry"} : Begins(r, prompt)
  BY <1>0, <1>10, MoveEffects
<1> QED BY <1>1, <1>5, <1>6, <1>7, <1>8, <1>9, <1>10 DEF OwnMove

(* A Run comes past its save only by saving, or behind another that did.   *)
LEMMA ProvenBefore ==
    ASSUME PInv, Base, Moves, ColumnsKept, Paced, Fixture, [ProofNext]_allVars,
           NEW q \in RunIds, NEW c \in CtxIds, c = workflow, Proven(q, c)'
    PROVE  Saves(q) \/ \E o \in RunIds : Proven(o, c)
<1>0. ProofTypeOK /\ runtime[q] \in Runtime
  BY DEF Base, ProofTypeOK
<1>1. OwnMove(q)
  BY <1>0, MovesOfOne
<1>2. /\ runtime'[q].phase # "none" /\ runs'[q].ctx = c
      /\ \/ runs'[q].state = "COMPLETED"
         \/ runtime'[q].prompt = "retry" /\ runtime'[q].phase # "over"
         \/ /\ runtime'[q].prompt = "proof"
            /\ runtime'[q].phase \in {"ready", "waiting", "returned"}
            /\ Len(runtime'[q].held) >= 5
  BY DEF Proven, Phase, Made
<1>3. ASSUME Phase(q) # "none" PROVE runs[q].ctx = c
  BY <1>2, <1>3 DEF ColumnsKept, Base, Untouched
<1>4. CASE runs'[q].state = "COMPLETED"
  <2>1. runs[q].state = "COMPLETED" \/ Confirmable(q)
    BY <1>4, CompletionConfirms
  <2>2. CASE runs[q].state = "COMPLETED"
    <3>1. Phase(q) # "none"
      BY <2>2 DEF Base, Untouched
    <3> QED BY <1>3, <2>2, <3>1 DEF Proven
  <2>3. CASE Confirmable(q)
    <3>1. Phase(q) = "returned"
      BY <2>3 DEF Confirmable
    <3>2. runtime[q].prompt = "proof" => Made(q) >= 5
      <4>1. Made(q) = Len(Script(q))
        BY <3>1 DEF Paced, Paces
      <4>2. Len(ProofScript) = 10
        BY ScriptSteps
      <4>3. runtime[q].prompt = "proof" => Script(q) = ProofScript
        BY DEF Script
      <4>4. runtime[q].prompt = "proof" => Made(q) = 10
        BY <4>1, <4>2, <4>3
      <4> QED BY <4>4
    <3>3. runtime[q].prompt \in {"proof", "retry"}
      BY <1>0 DEF Runtime
    <3> QED BY <1>3, <3>1, <3>2, <3>3 DEF Proven
  <2> QED BY <2>1, <2>2, <2>3
<1>5. CASE runtime'[q].prompt = "retry" /\ runtime'[q].phase # "over"
  <2>1. CASE Phase(q) = "none"
    <3>1. ~NodeRestart
      BY <1>0, <1>2, <2>1, RestartEffects
    <3>2. PICK prompt \in {"proof", "retry"} : Begins(q, prompt)
      BY <1>1, <1>2, <2>1, <3>1 DEF OwnMove, Enters, Reloads, Holds, Phase
    <3>3. prompt = "retry"
      BY <1>0, <1>5, <3>2, MoveEffects
    <3>4. PICK original \in RunIds : Retryable(original)
      BY <3>2, <3>3 DEF Begins
    <3>5. /\ runs[original].state = "COMPLETED" /\ runs[original].ctx = c
          /\ Phase(original) # "none"
      BY <3>4 DEF Retryable, Base, Untouched
    <3> QED BY <3>5 DEF Proven
  <2>2. CASE Phase(q) # "none"
    <3>1. runtime[q].prompt = "retry"
      BY <1>0, <1>5, <2>2, PromptKept
    <3>2. Phase(q) # "over"
      <4>1. ASSUME Phase(q) = "over" PROVE ~NodeRestart /\ runtime'[q] # runtime[q]
        BY <1>0, <1>5, <4>1, RestartEffects DEF Phase
      <4> QED BY <1>1, <4>1 DEF OwnMove, Enters, Reloads, Holds, Begins
    <3> QED BY <1>3, <2>2, <3>1, <3>2 DEF Proven
  <2> QED BY <2>1, <2>2
<1>6. CASE /\ runtime'[q].prompt = "proof"
           /\ runtime'[q].phase \in {"ready", "waiting", "returned"}
           /\ Len(runtime'[q].held) >= 5
  <2>1. ASSUME Phase(q) \in {"ready", "waiting", "returned"}, runtime[q].prompt = "proof",
               Made(q) >= 5
        PROVE  Proven(q, c)
    BY <1>3, <2>1 DEF Proven
  <2>2. CASE runtime'[q] = runtime[q]
    BY <1>6, <2>1, <2>2 DEF Phase, Made
  <2>3. CASE NodeRestart
    BY <1>0, <1>6, <2>3, RestartEffects DEF Phase
  <2>4. ASSUME NEW phase \in RuntimePhases, Enters(q, phase)
        PROVE  Saves(q) \/ Proven(q, c)
    <3>1. /\ runtime'[q].phase = phase
          /\ runtime'[q].held = runtime[q].held /\ runtime'[q].prompt = runtime[q].prompt
      BY <1>0, <2>4, MoveEffects
    <3>2. CASE phase = "ready"
      <4>1. ~StartsProof(q)
        <5>1. ASSUME StartsProof(q) PROVE FALSE
          <6>1. runtime[q].held = <<>>
            BY <5>1 DEF StartsProof, Paced, Paces
          <6>2. Len(runtime'[q].held) = 0
            BY <3>1, <6>1
          <6> QED BY <1>6, <6>2
        <5> QED BY <5>1
      <4> QED BY <2>4, <3>2, <4>1 DEF Enters
    <3>3. CASE phase \in {"waiting", "returned"}
      BY <1>6, <2>1, <2>4, <3>1, <3>3 DEF Enters, Made
    <3> QED BY <1>6, <3>1, <3>2, <3>3
  <2>5. CASE Reloads(q)
    BY <1>0, <1>6, <2>5, MoveEffects DEF Reloads
  <2>6. ASSUME NEW n \in Nat, Holds(q, n)
        PROVE  Proven(q, c)
    <3>1. /\ runtime'[q].phase =
                IF Fixture /\ runtime[q].prompt = "proof" /\ Made(q) + 1 = 5
                THEN "saving" ELSE "ready"
          /\ runtime'[q].held = Append(runtime[q].held, n)
          /\ runtime'[q].prompt = runtime[q].prompt
      BY <1>0, <2>6, MoveEffects
    <3>2. Made(q) \in Nat /\ Len(runtime'[q].held) = Made(q) + 1
      BY <1>0, <3>1 DEF Made, Runtime
    <3>3. Made(q) + 1 # 5
      BY <1>6, <3>1
    <3>4. Made(q) >= 5
      BY <1>6, <3>2, <3>3
    <3> QED BY <1>6, <2>1, <2>6, <3>1, <3>4 DEF Holds
  <2>7. CASE \E prompt \in {"proof", "retry"} : Begins(q, prompt)
    BY <1>0, <1>6, <2>7, MoveEffects
  <2> QED BY <1>1, <2>2, <2>3, <2>4, <2>5, <2>6, <2>7, <2>1, <1>6 DEF OwnMove
<1> QED BY <1>2, <1>4, <1>5, <1>6

LEMMA SavedHereKept ==
    ASSUME PInv, Base, Moves, Grows, ColumnsKept, WorkflowMoves, Paced, Following, Here, SavedHere,
           [ProofNext]_allVars
    PROVE  SavedHere'
<1> SUFFICES ASSUME Fixture', NEW q \in RunIds, NEW c \in CtxIds,
                    c = workflow', Proven(q, c)'
             PROVE  /\ saved'.memory = 0 \/ PaymentCase(saved.memory, c)'
                    /\ saved'.file = 0 \/ PaymentCase(saved.file, c)'
  BY DEF SavedHere
<1>0. ProofTypeOK /\ Fixture /\ runs[q] \in Run
  BY ProviderKept DEF Base, Fixture, PInv, GInv, IInv, TypeOK
<1>1. ASSUME NEW x, NEW y, PaymentCase(x, c), PaymentCase(y, c),
             saved'.memory = x, saved'.file = y
      PROVE  PaymentCase(saved.memory, c)' /\ PaymentCase(saved.file, c)'
  BY <1>1, PaymentCaseKept DEF PaymentCase
<1>2. ASSUME NEW r \in RunIds, Phase(r) = "saving", c = workflow
      PROVE  PaymentCase(ReferenceToSave(r), c)
  <2>1. runs[r] \in Run /\ runs[r].ctx # None
    BY <1>2 DEF PInv, GInv, IInv, TypeOK, RunWithinMandate, Base, Untouched
  <2>2. PICK d \in CtxIds : d = runs[r].ctx
    BY <2>1 DEF Run
  <2>3. d = c
    BY <1>2, <2>2 DEF Here
  <2> QED BY <1>2, <2>2, <2>3, SavesPaymentCase
<1>3. CASE UNCHANGED workflow
  <2>1. CASE Saves(q)
    <3>1. /\ Phase(q) = "saving"
          /\ saved'.memory = ReferenceToSave(q) /\ saved'.file = ReferenceToSave(q)
      BY <2>1 DEF Saves
    <3>2. PICK x : x = ReferenceToSave(q)
      OBVIOUS
    <3>3. PaymentCase(x, c)
      BY <1>2, <1>3, <3>1, <3>2
    <3> QED BY <1>1, <3>1, <3>2, <3>3
  <2>2. ASSUME NEW o \in RunIds, Proven(o, c)
        PROVE  /\ saved'.memory = 0 \/ PaymentCase(saved.memory, c)'
               /\ saved'.file = 0 \/ PaymentCase(saved.file, c)'
    <3>1. /\ saved.memory = 0 \/ PaymentCase(saved.memory, c)
          /\ saved.file = 0 \/ PaymentCase(saved.file, c)
      BY <1>0, <1>3, <2>2 DEF SavedHere
    <3>2. ASSUME NEW x, SavedFrom(x) PROVE x = 0 \/ PaymentCase(x, c)
      BY <1>2, <1>3, <3>1, <3>2 DEF SavedFrom
    <3>3. PICK x : saved'.memory = x /\ SavedFrom(x)
      BY <1>0, SavedMoves
    <3>4. PICK y : saved'.file = y /\ SavedFrom(y)
      BY <1>0, SavedMoves
    <3>5. x = 0 \/ PaymentCase(x, c)'
      BY <3>2, <3>3, PaymentCaseKept
    <3>6. y = 0 \/ PaymentCase(y, c)'
      BY <3>2, <3>4, PaymentCaseKept
    <3> QED BY <3>3, <3>4, <3>5, <3>6 DEF PaymentCase
  <2> QED BY <1>0, <1>3, <2>1, <2>2, ProvenBefore
<1>4. CASE workflow' = None
  BY <1>4, NoneAssumption
<1>5. ASSUME NEW r \in RunIds, NEW prompt \in {"proof", "retry"}, Begins(r, prompt),
             \A s \in RunIds \ {r} : runs'[s] = runs[s]
      PROVE  UNCHANGED workflow
  <2>1. workflow' = runs'[r].ctx
    BY <1>5 DEF Begins
  <2>2. CASE prompt = "retry"
    BY <1>5, <2>1, <2>2 DEF Begins
  <2>3. CASE prompt = "proof" /\ workflow # None
    BY <1>5, <2>1, <2>3 DEF Begins
  <2>4. CASE prompt = "proof" /\ workflow = None
    <3>1. contexts[c].state = "NONE" /\ runs'[r].state = "PREPARED"
      BY <1>5, <2>1, <2>4 DEF Begins
    <3>2. runtime'[r].phase = "prepared" /\ runtime'[r].prompt = "proof"
      BY <1>0, <1>5, <2>4, MoveEffects
    <3>3. q # r
      BY <3>1, <3>2 DEF Proven, Phase
    <3>4. runtime'[q] = runtime[q] /\ runs'[q] = runs[q]
      BY <1>0, <1>5, <3>3, MoveEffects
    <3>5. Phase(q) # "none" /\ runs[q].ctx = c
      BY <3>4 DEF Proven, Phase
    <3>6. contexts[c].state # "NONE"
      BY <3>5 DEF Base, Untouched, PInv, GInv, IInv, RunWithinMandate
    <3> QED BY <3>1, <3>6
  <2> QED BY <2>2, <2>3, <2>4
<1> QED BY <1>3, <1>4, <1>5 DEF WorkflowMoves

LEMMA UnhinderedInit == ProofInit => Unhindered
<1> SUFFICES ASSUME ProofInit PROVE Unhindered
  OBVIOUS
<1>1. \A r \in RunIds : runs[r] = NoRun /\ runtime[r] = NoRuntime
  BY DEF ProofInit, GatewayInit, Init
<1>2. \A r \in RunIds : runs[r].state = "NONE" /\ Phase(r) = "none"
  BY <1>1 DEF NoRun, NoRuntime, Phase
<1>3. FullGrants /\ Here /\ NeverContradicted /\ Loaded
  BY <1>2 DEF FullGrants, Here, NeverContradicted, Loaded
<1>4. SavedHere
  BY <1>2 DEF SavedHere, Proven
<1> QED BY <1>3, <1>4 DEF Unhindered

LEMMA UnhinderedStep ==
    ASSUME Requests = {Tools}
    PROVE  PInv /\ Base /\ Outcome /\ ReferencesFollow /\ Unhindered /\ [ProofNext]_allVars
              => Unhindered'
<1> SUFFICES ASSUME PInv, Base, Outcome, ReferencesFollow, Unhindered, [ProofNext]_allVars
             PROVE  Unhindered'
  OBVIOUS
<1>1. /\ [GatewayNext]_vars /\ Moves /\ Grows /\ ColumnsKept /\ WorkflowMoves /\ IInv
  BY StepBelow, WorkflowStep DEF PInv, GInv
<1>2. /\ Paced /\ Following
      /\ FullGrants /\ Here /\ SavedHere /\ Loaded /\ NeverContradicted
  BY DEF Outcome, Unhindered
<1>3. FullGrants'
  BY <1>1, <1>2, GatewayStepOnAuthority, FullGrantsKept
<1>4. Here'
  BY <1>1, <1>2, HereKept
<1>5. SavedHere'
  BY <1>1, <1>2, SavedHereKept
<1>6. Loaded'
  BY <1>1, <1>2, LoadedKept
<1>7. NeverContradicted'
  BY <1>1, <1>2, NeverContradictedKept
<1> QED BY <1>3, <1>4, <1>5, <1>6, <1>7 DEF Unhindered

LEMMA DecisionsMet ==
    /\ PInv /\ Base /\ Outcome /\ CounterMatchesReceipts /\ DecidedOnChain /\ NeverContradicted
    => FixtureMeetsItsDecisions
<1> SUFFICES ASSUME PInv, Base, Outcome, CounterMatchesReceipts, DecidedOnChain,
                    Fixture, NEW r \in RunIds,
                    Phase(r) = "returned", runtime[r].prompt = "proof"
             PROVE  Validated(runs[r].ctx)
  BY DEF FixtureMeetsItsDecisions, NeverContradicted
<1>1. runs[r] \in Run /\ runs[r].ctx # None /\ GatewayTypeOK
  BY DEF PInv, GInv, IInv, TypeOK, RunWithinMandate, Base, Untouched
<1>2. PICK c \in CtxIds : c = runs[r].ctx
  BY <1>1 DEF Run
<1>3. Chains(c)
  BY <1>2, ReturnedProof DEF Outcome
<1> QED BY <1>1, <1>2, <1>3, SearchFindsChains

(* When every tool is asked for, as the control plane always does, no      *)
(* restart, lost call, failed write, revocation or earlier failure brings  *)
(* the fixture a decision it does not expect; and a script it finished is  *)
(* a proof the control plane accepts.                                      *)
THEOREM FixtureIsNeverContradicted ==
    ASSUME Requests = {Tools}
    PROVE  ProofSpec => []FixtureMeetsItsDecisions
<1>1. PInv /\ Base /\ Outcome /\ ReferencesFollow /\ Unhindered /\ [ProofNext]_allVars
         => Unhindered'
  BY UnhinderedStep
<1>2. ProofSpec => [](ReferencesFollow /\ DecidedOnChain /\ CounterMatchesReceipts)
  BY ProofKeepsGateway, DecisionsGoBackToListings, CounterCountsSuccesses, PTL
<1>3. ProofSpec => []Unhindered
  BY <1>1, <1>2, UnhinderedInit, ProofOutcome, PTL DEF ProofSpec
<1>4. Unhindered => NeverContradicted
  BY DEF Unhindered
<1> QED BY <1>2, <1>3, <1>4, ProofOutcome, DecisionsMet, PTL
=============================================================================
