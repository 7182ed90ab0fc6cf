------------------------ MODULE AgentService_proofs ------------------------
(***************************************************************************)
(* Proofs about module AgentService, for every number of Runs, contexts,   *)
(* concurrent requests, attempts, restarts and late calls.                 *)
(*                                                                         *)
(* A step of the control plane drives the sidecar by its handlers          *)
(* (EveryStepIsSidecarStep), so the invariant of Authority_proofs holds    *)
(* under it.  ServiceInv adds, per Run, how the stored row, the execution  *)
(* and the sidecar's row fit together, and, per request, what it may       *)
(* still rely on after each of its awaits.  The heart of it is CanAct: a   *)
(* Run whose capability is usable, or may become usable because an         *)
(* abandoned activation is still on its way, is executing or pending.      *)
(***************************************************************************)
EXTENDS AgentService, Authority_proofs, WellFoundedInduction, FiniteSetTheorems

-----------------------------------------------------------------------------
(* Numbered ids.                                                           *)

(* A non-empty set of numbers has a least element, and Min returns it.      *)
LEMMA MinOfIds ==
    ASSUME NEW S \in SUBSET Nat, S # {}
    PROVE  Min(S) \in S /\ \A x \in S : Min(S) <= x
<1>1. PICK m \in S : \A x \in S : ~(<<x, m>> \in OpToRel(<, Nat))
  BY WFMin, NatLessThanWellFounded
<1>2. ASSUME NEW x \in S PROVE m <= x
  <2>1. ~(x < m)
    BY <1>1 DEF OpToRel
  <2> QED BY <2>1
<1> QED BY <1>2 DEF Min

(* A non-empty bounded set of numbers has a greatest element: Max returns it. *)
LEMMA MaxOfIds ==
    ASSUME NEW S \in SUBSET Nat, S # {}, NEW n \in Nat, \A x \in S : x <= n
    PROVE  Max(S) \in S
<1> DEFINE Bounds == {m \in Nat : \A x \in S : x <= m}
<1>1. Bounds \in SUBSET Nat /\ Bounds # {}
  OBVIOUS
<1>2. PICK m \in Bounds : \A k \in Bounds : m <= k
  BY <1>1, MinOfIds
<1>3. m \in S
  <2> SUFFICES ASSUME m \notin S PROVE FALSE
    OBVIOUS
  <2>1. ASSUME NEW x \in S PROVE x <= m - 1 /\ m > 0
    <3>1. x \in Nat /\ m \in Nat /\ x <= m /\ x # m
      OBVIOUS
    <3> QED BY <3>1
  <2>2. m > 0 /\ m - 1 \in Nat
    <3> PICK x \in S : TRUE
      OBVIOUS
    <3> QED BY <2>1
  <2>3. m - 1 \in Bounds
    BY <2>1, <2>2
  <2>4. m <= m - 1 /\ m \in Nat
    BY <1>2, <2>3
  <2> QED BY <2>4
<1> QED BY <1>3 DEF Max

-----------------------------------------------------------------------------
(* The inductive invariant.                                                *)

(* What a control call may carry, as the client makes it.                   *)
ControlCall ==
    [op : {"prepare"}, run : RunIds, ctx : CtxIds \cup {None},
     retryOf : RunIds \cup {None}, predecessor : RunIds \cup {None}]
    \cup [op : {"activate"}, run : RunIds]
    \cup [op : {"finish"}, run : RunIds, status : FinishStatuses]
    \cup [op : {"revoke"}, ctx : CtxIds]
(* Rows are admitted in the order of their numbers, and finitely many.      *)
RowsBounded ==
    \E n \in Nat : \A r \in RunIds : rows[r].status # "none" => r <= n

(* A row that is not stored is blank; a deleted Agent has no rows, an       *)
(* execution of an Agent that exists has its row, and an unsettled row has  *)
(* its execution.                                                           *)
RowOfAgent(r) ==
    /\ rows[r].status = "none" => rows[r] = NoRow
    /\ ~Exists => rows[r].status = "none"
    /\ Exists /\ Executing(r) => rows[r].status # "none"
    /\ Unsettled(r) => Executing(r)

(* What is, or is about to be, published as completed is COMPLETED at the   *)
(* sidecar, and no execution outlives the publication.                      *)
Confirmed(r) ==
    /\ exec[r].phase = "complete" => runs[r].state = "COMPLETED"
    /\ rows[r].status = "completed" => runs[r].state = "COMPLETED" /\ ~Executing(r)

(* A row cancelled under a running execution is one whose authority was     *)
(* withdrawn.                                                               *)
Withdrawn(r) == runs[r].state \in {"REVOKED", "CANCELLED", "ABANDONED"}
CancelledUnderExecution(r) ==
    rows[r].status \in {"failed", "cancelled"} /\ Executing(r) => Withdrawn(r)

(* A Run whose capability is usable, or may become so because an abandoned  *)
(* activation is still on its way.                                          *)
Open(r) == runs[r].state \in {"NONE", "PREPARED", "ACTIVE"}
ActivateCall(r) == [op |-> "activate", run |-> r]
CanAct(r) ==
    \/ runs[r].state = "ACTIVE"
    \/ Open(r) /\ ActivateCall(r) \in late

(* Such a Run is past its activation and not yet confirmed closed; while it *)
(* executes its row is unsettled and names its context, so that a restart   *)
(* finds it, and afterwards its row is pending.                             *)
Unactivated == {"start", "prepare", "prepared"}
Accounted(r) ==
    /\ ActivateCall(r) \in late => runs[r].state # "NONE"
    /\ exec[r].phase \in {"prepared", "activate"} => runs[r].state # "NONE"
    /\ rows[r].mandate = "security-finalization-pending" =>
         ~Executing(r) /\ rows[r].status # "none"
    /\ CanAct(r) => exec[r].phase \notin Unactivated \cup {"complete"}
    /\ CanAct(r) /\ exec[r].phase = "settle" => exec[r].unconfirmed # "nothing"
    /\ exec[r].unconfirmed # "nothing" => exec[r].phase = "settle"
    /\ Exists /\ Executing(r) /\ Open(r) =>
         Unsettled(r) /\ rows[r].mandate \in {"pending", "active", "finalizing"}
    /\ Exists /\ exec[r].phase \notin Unactivated \cup {"none", "settle"} =>
         rows[r].ctx # None
    /\ Exists /\ exec[r].unconfirmed # "nothing" => rows[r].ctx # None
    /\ Exists /\ CanAct(r) /\ ~Executing(r) =>
         rows[r].mandate = "security-finalization-pending"

RunInv(r) ==
    RowOfAgent(r) /\ Confirmed(r) /\ CancelledUnderExecution(r) /\ Accounted(r)

(* A reconciliation works on Runs that nothing executes, and closes a row   *)
(* only when its Run cannot act any more.                                   *)
Reconciled(q) ==
    /\ handlers[q].step \in {"reconcile", "evidence", "close"} /\ Exists =>
         \A r \in handlers[q].todo : ~Executing(r) /\ rows[r].status # "none"
    /\ handlers[q].step \in {"evidence", "close"} => handlers[q].todo # {}
    /\ handlers[q].step = "close" /\ Exists => ~CanAct(Min(handlers[q].todo))

(* Every Run that a revocation is about to cancel has been withdrawn.       *)
Cancelling(q) ==
    /\ handlers[q].step = "call" => handlers[q].ctx \in CtxIds
    /\ handlers[q].step \in {"cancel", "wait", "apply"} =>
         \A r \in handlers[q].todo : Withdrawn(r)

HandlerInv(q) == Reconciled(q) /\ Cancelling(q)

ServiceInv ==
    /\ IInv
    /\ ServiceTypeOK
    /\ late \subseteq ControlCall
    /\ RowsBounded
    /\ \A r \in RunIds : RunInv(r)
    /\ \A q \in HandlerIds : HandlerInv(q)

-----------------------------------------------------------------------------
(* Steps of the sidecar, as a control call sees them.                      *)

(* A call served or refused is a handler of the sidecar, or changes nothing; *)
(* what it does to the Run it names.                                        *)
LEMMA ServeIsAuthority ==
    ASSUME TypeOK, NEW c \in ControlCall, Serve(c) \/ Refuse(c)
    PROVE  [AuthorityNext]_authVars
<1> USE AgentAssumption, NumberingAssumption, ServiceRequestAssumption
<1>1. CASE c.op = "prepare"
  <2>1. /\ c.run \in RunIds /\ c.run \in Caps
        /\ c.ctx \in CtxIds \cup {None} /\ c.retryOf \in RunIds \cup {None}
        /\ c.predecessor \in RunIds \cup {None}
    BY <1>1 DEF ControlCall
  <2>2. CASE UNCHANGED authVars
    BY <2>2
  <2>3. CASE ServePrepare(c)
    <3>1. CASE \E new \in UnusedContexts : PrepareNew(c.run, Agent, Owner, Platform, c.run, new)
      BY <2>1, <3>1 DEF UnusedContexts, AuthorityNext, Prepare
    <3>2. CASE c.ctx # None
               /\ PrepareFollowUp(c.run, Agent, Owner, Platform, c.run, c.ctx, c.predecessor)
      BY <2>1, <3>2 DEF AuthorityNext, Prepare
    <3>3. CASE c.retryOf # None
               /\ PrepareRetry(c.run, Agent, Owner, Platform, c.run, c.retryOf)
      BY <2>1, <3>3 DEF AuthorityNext, Prepare
    <3> QED BY <2>3, <3>1, <3>2, <3>3 DEF ServePrepare
  <2> QED BY <1>1, <2>2, <2>3 DEF Serve, Refuse
<1>2. CASE c.op = "activate"
  <2>1. c.run \in RunIds
    BY <1>2 DEF ControlCall
  <2> QED BY <1>2, <2>1 DEF Serve, Refuse, ServeActivate, AuthorityNext
<1>3. CASE c.op = "finish"
  <2>1. c.run \in RunIds /\ c.status \in FinishStatuses
    BY <1>3 DEF ControlCall
  <2> QED BY <1>3, <2>1 DEF Serve, Refuse, ServeFinish, AuthorityNext
<1>4. CASE c.op = "revoke"
  <2>1. c.ctx \in CtxIds
    BY <1>4 DEF ControlCall
  <2> QED BY <1>4, <2>1 DEF Serve, Refuse, ServeRevoke, AuthorityNext
<1> QED BY <1>1, <1>2, <1>3, <1>4 DEF ControlCall

(* What no handler undoes: a row once written stays, in its context; a      *)
(* completed or withdrawn Run stays so, and no settled one opens again.     *)
LEMMA Progress ==
    ASSUME IInv, [AuthorityNext]_authVars, NEW r \in RunIds
    PROVE  /\ runs[r].state # "NONE" =>
                runs'[r].state # "NONE" /\ runs'[r].ctx = runs[r].ctx
           /\ runs[r].state = "COMPLETED" => runs'[r].state = "COMPLETED"
           /\ Withdrawn(r) => Withdrawn(r)'
           /\ Open(r)' => Open(r)
<1>1. SettledStep
  BY SettledStepHolds
<1>2. runs[r] \in Run /\ runs'[r] \in Run
  BY IInvStep DEF IInv, TypeOK
<1>3. CASE runs[r].state = "NONE"
  BY <1>3 DEF Withdrawn, Open
<1>4. CASE runs[r].state # "NONE"
  <2>1. /\ runs[r].state \in Terminal => runs'[r] = runs[r]
        /\ runs[r].state = "REVOKED" =>
              runs'[r].state \in {"REVOKED", "CANCELLED", "ABANDONED"}
        /\ runs'[r] = [runs[r] EXCEPT !.state = runs'[r].state]
    BY <1>1, <1>4 DEF SettledStep
  <2>2. runs'[r].ctx = runs[r].ctx
    BY <2>1, <1>2 DEF Run
  <2>3. runs'[r].state # "NONE"
    <3>1. CASE Prepare
      <4>1. runs'[r] = runs[r]
        BY <1>4, <3>1, PrepareShape DEF PrepareEffect, Admits, InsertRun, IInv, TypeOK
      <4> QED BY <4>1, <1>4
    <3>2. CASE ~Prepare
      BY <1>4, <3>2, StatesOnlyShape DEF StatesOnly, IInv
    <3> QED BY <3>1, <3>2
  <2>4. Withdrawn(r) => Withdrawn(r)'
    BY <2>1, <1>2 DEF Withdrawn, Run, Terminal
  <2>5. Open(r)' => Open(r)
    BY <2>1, <1>2 DEF Open, Run, Terminal
  <2> QED BY <2>1, <2>2, <2>3, <2>4, <2>5 DEF Terminal
<1> QED BY <1>3, <1>4

(* Only a call to activate a Run makes it ACTIVE.                           *)
LEMMA OnlyActivationActivates ==
    ASSUME TypeOK, NEW c \in ControlCall, Serve(c) \/ Refuse(c), NEW r \in RunIds,
           runs'[r].state = "ACTIVE", runs[r].state # "ACTIVE"
    PROVE  c = ActivateCall(r)
<1>1. ASSUME NEW q, NEW s, SetState(q, s)
      PROVE  runs'[r].state \in {runs[r].state, s} /\ (r # q => runs'[r] = runs[r])
  BY <1>1 DEF SetState, TypeOK, Run
<1>2. CASE c.op = "prepare" /\ ServePrepare(c)
  <2>1. ASSUME NEW q, NEW a, NEW x, NEW cap, NEW grant, NEW t, NEW o, NEW p,
               InsertRun(q, a, x, cap, grant, t, o, p)
        PROVE  runs'[r].state \in {runs[r].state, "PREPARED"}
    BY <2>1 DEF InsertRun, TypeOK
  <2> QED BY <1>2, <2>1 DEF ServePrepare, PrepareNew, PrepareFollowUp, PrepareRetry
<1>3. CASE c.op = "activate"
  <2>1. CASE UNCHANGED authVars
    BY <2>1 DEF authVars
  <2>2. CASE Activate(c.run)
    <3>1. c.run = r
      BY <2>2, <1>1 DEF Activate
    <3> QED BY <3>1, <1>3 DEF ControlCall, ActivateCall
  <2>3. CASE ActivateLate(c.run)
    BY <2>3, <1>1 DEF ActivateLate
  <2> QED BY <1>3, <2>1, <2>2, <2>3 DEF Serve, Refuse, ServeActivate
<1>4. CASE c.op = "finish" /\ ServeFinish(c)
  <2>1. c.status # "ACTIVE"
    BY <1>4 DEF ControlCall, FinishStatuses
  <2>2. CASE Finish(c.run, c.status)
    BY <2>1, <2>2, <1>1 DEF Finish
  <2>3. CASE UNCHANGED authVars
    BY <2>3 DEF authVars
  <2> QED BY <1>4, <2>2, <2>3 DEF ServeFinish
<1>5. CASE c.op = "revoke" /\ ServeRevoke(c)
  BY <1>5 DEF ServeRevoke, RevokeMandate, authVars, TypeOK, Run
<1>6. CASE UNCHANGED authVars
  BY <1>6 DEF authVars
<1> QED BY <1>2, <1>3, <1>4, <1>5, <1>6 DEF Serve, Refuse

(* What a control call does, for the client that made it.                   *)
LEMMA CallEffect ==
    ASSUME IInv, NEW c \in ControlCall, NEW reply \in Replies, Call(c, reply)
    PROVE  /\ [AuthorityNext]_authVars
           /\ late' \subseteq late \cup {c}
           /\ reply = "ok" => late' = late
           /\ \A r \in RunIds : CanAct(r)' => CanAct(r) \/ c = ActivateCall(r)
           /\ reply = "ok" => Serve(c)
<1>1. \/ (Serve(c) \/ Refuse(c)) /\ UNCHANGED late
      \/ reply = "error" /\ late' = late \cup {c} /\ UNCHANGED authVars
  BY DEF Call
<1>2. [AuthorityNext]_authVars
  BY <1>1, ServeIsAuthority DEF IInv
<1>3. ASSUME NEW r \in RunIds, CanAct(r)', c # ActivateCall(r) PROVE CanAct(r)
  <2>1. Open(r)
    BY <1>2, <1>3, Progress DEF CanAct, Open
  <2>2. CASE runs'[r].state = "ACTIVE"
    <3>1. runs[r].state = "ACTIVE"
      BY <1>1, <1>3, <2>2, OnlyActivationActivates DEF IInv, authVars
    <3> QED BY <3>1 DEF CanAct
  <2>3. CASE ActivateCall(r) \in late'
    BY <1>1, <1>3, <2>1, <2>3 DEF CanAct, ActivateCall
  <2> QED BY <1>3, <2>2, <2>3 DEF CanAct
<1>4. reply = "ok" => Serve(c) /\ late' = late
  BY DEF Call
<1> QED BY <1>1, <1>2, <1>3, <1>4

(* A finish that is answered leaves the Run with the status it asked for.   *)
LEMMA ServedFinish ==
    ASSUME TypeOK, NEW r \in RunIds, NEW status, Serve(FinishCall(r, status))
    PROVE  runs'[r].state = status
BY DEF Serve, FinishCall, ServeFinish, Finish, SetState, TypeOK, Run, authVars

(* A prepare that is answered leaves a row for the Run.                     *)
LEMMA ServedPrepare ==
    ASSUME TypeOK, NEW c \in ControlCall, c.op = "prepare", Serve(c)
    PROVE  runs'[c.run].state = "PREPARED"
<1>1. ServePrepare(c) /\ c.run \in RunIds
  BY DEF Serve, ControlCall
<1>2. ASSUME NEW a, NEW x, NEW cap, NEW grant, NEW t, NEW o, NEW p,
             InsertRun(c.run, a, x, cap, grant, t, o, p)
      PROVE  runs'[c.run].state = "PREPARED"
  BY <1>1, <1>2 DEF InsertRun, TypeOK
<1> QED BY <1>1, <1>2 DEF ServePrepare, PrepareNew, PrepareFollowUp, PrepareRetry

(* A revocation that is answered has withdrawn the Runs it reports.         *)
LEMMA ServedRevoke ==
    ASSUME TypeOK, NEW x \in CtxIds, Serve([op |-> "revoke", ctx |-> x]),
           NEW r \in RevokedBy(x)
    PROVE  r \in RunIds /\ runs'[r].state = "REVOKED"
<1>1. ServeRevoke([op |-> "revoke", ctx |-> x])
  BY DEF Serve
<1>2. r \in RunIds
  BY DEF RevokedBy, Affected, RunsOf
<1>3. CASE RevokeMandate(x)
  BY <1>2, <1>3 DEF RevokeMandate, RevokedBy, TypeOK, Run
<1>4. CASE contexts[x].state = "REVOKED" /\ UNCHANGED authVars
  BY <1>2, <1>4 DEF RevokedBy, authVars
<1> QED BY <1>1, <1>2, <1>3, <1>4 DEF ServeRevoke

-----------------------------------------------------------------------------
(* The calls the control plane makes.                                      *)

(* The client never names anything the sidecar could not know.              *)
LEMMA PrepareCallTyped ==
    ASSUME ServiceInv, NEW r \in RunIds
    PROVE  PrepareCall(r) \in ControlCall
<1>1. /\ rows[r].retryOf \in RunIds \cup {None}
      /\ exec[r].ctx \in CtxIds \cup {None}
  BY DEF ServiceInv, ServiceTypeOK, Row, Execution
<1>2. ASSUME Predecessors(r) # {} PROVE Max(Predecessors(r)) \in RunIds
  <2>1. Predecessors(r) \in SUBSET RunIds /\ Predecessors(r) \in SUBSET Nat
    BY NumberingAssumption DEF Predecessors
  <2>2. PICK n \in Nat : \A p \in RunIds : rows[p].status # "none" => p <= n
    BY DEF ServiceInv, RowsBounded
  <2>3. \A p \in Predecessors(r) : p <= n
    BY <2>2 DEF Predecessors
  <2> QED BY <1>2, <2>1, <2>3, MaxOfIds
<1> QED BY <1>1, <1>2 DEF PrepareCall, ControlCall

(* Nor does a finish name a status the sidecar does not accept.             *)
LEMMA FinishCallTyped ==
    ASSUME NEW r \in RunIds, NEW status \in FinishStatuses
    PROVE  FinishCall(r, status) \in ControlCall
BY DEF FinishCall, ControlCall

(* The Run a reconciliation works on is one of those it still has to do.    *)
LEMMA FirstToDo ==
    ASSUME ServiceTypeOK, NEW q \in HandlerIds, handlers[q].todo # {}
    PROVE  Min(handlers[q].todo) \in handlers[q].todo /\ Min(handlers[q].todo) \in RunIds
<1>1. handlers[q].todo \in SUBSET RunIds /\ handlers[q].todo \in SUBSET Nat
  BY NumberingAssumption DEF ServiceTypeOK, Handler
<1> QED BY <1>1, MinOfIds

(* What a step may do to the sidecar: run one of its handlers; a Run can    *)
(* act after it only if it could before, or if it is the one whose          *)
(* activation was called for.                                               *)
SidecarStep ==
    /\ [AuthorityNext]_authVars
    /\ late' \subseteq ControlCall
    /\ \A r \in RunIds : CanAct(r)' =>
         CanAct(r) \/ (exec[r].phase = "activate" /\ exec'[r].phase # "activate")
    /\ \A r \in RunIds : ActivateCall(r) \in late' =>
         ActivateCall(r) \in late \/ (exec[r].phase = "activate" /\ exec'[r].phase # "activate")

(* A step that makes no call and leaves the sidecar alone.                  *)
LEMMA NoCall ==
    ASSUME ServiceInv, UNCHANGED <<authVars, late>>
    PROVE  SidecarStep
BY DEF SidecarStep, ServiceInv, authVars, CanAct, Open, ActivateCall

(* A call other than an activation.                                         *)
LEMMA OtherCall ==
    ASSUME ServiceInv, NEW c \in ControlCall, c.op # "activate",
           NEW reply \in Replies, Call(c, reply)
    PROVE  SidecarStep
<1>1. \A r \in RunIds : c # ActivateCall(r)
  BY DEF ActivateCall
<1> QED BY <1>1, CallEffect DEF SidecarStep, ServiceInv, ActivateCall

(* Moving an execution changes its phase and nothing else.                  *)
LEMMA MoveEffect ==
    ASSUME ServiceTypeOK, NEW r \in RunIds, NEW phase \in Phases, MoveTo(r, phase)
    PROVE  /\ exec' \in [RunIds -> Execution]
           /\ exec'[r] = [exec[r] EXCEPT !.phase = phase]
           /\ exec'[r].phase = phase /\ exec'[r].unconfirmed = exec[r].unconfirmed
           /\ exec'[r].ctx = exec[r].ctx
           /\ \A s \in RunIds \ {r} : exec'[s] = exec[s]
BY DEF ServiceTypeOK, MoveTo, Execution

(* A thrown error leads to the invalidation of what was prepared, or ends.  *)
LEMMA ThrowEffect ==
    ASSUME ServiceTypeOK, NEW r \in RunIds, NEW prepared \in BOOLEAN, Throw(r, prepared)
    PROVE  /\ exec' \in [RunIds -> Execution]
           /\ exec'[r].phase = IF prepared THEN "invalidate" ELSE "settle"
           /\ exec'[r].unconfirmed = exec[r].unconfirmed
           /\ exec'[r].ctx = exec[r].ctx
           /\ \A s \in RunIds \ {r} : exec'[s] = exec[s]
<1>1. exec \in [RunIds -> Execution] /\ exec[r] \in Execution /\ 0 \in 0..Attempts
  BY AttemptsAssumption DEF ServiceTypeOK
<1>2. PICK cancelled \in BOOLEAN : cancelled = (exec[r].cancelled \/ r \in cancelReq)
  OBVIOUS
<1>3. PICK phase \in {"invalidate", "settle"} : phase = IF prepared THEN "invalidate" ELSE "settle"
  OBVIOUS
<1> DEFINE new == [exec[r] EXCEPT !.phase = phase, !.cancelled = cancelled, !.tries = 0]
<1>4. exec' = [exec EXCEPT ![r] = new]
  BY <1>2, <1>3 DEF Throw
<1>5. /\ new \in Execution /\ new.phase = phase
      /\ new.unconfirmed = exec[r].unconfirmed /\ new.ctx = exec[r].ctx
  BY <1>1 DEF Execution, Phases
<1> HIDE DEF new
<1> QED BY <1>1, <1>3, <1>4, <1>5

(* A completion that could not be confirmed ends the execution as such.     *)
LEMMA UnconfirmedEffect ==
    ASSUME ServiceTypeOK, NEW r \in RunIds, ThrowUnconfirmed(r)
    PROVE  /\ exec' \in [RunIds -> Execution]
           /\ exec'[r].phase = "settle" /\ exec'[r].unconfirmed = "completion"
           /\ \A s \in RunIds \ {r} : exec'[s] = exec[s]
<1>1. exec \in [RunIds -> Execution] /\ exec[r] \in Execution /\ 0 \in 0..Attempts
  BY AttemptsAssumption DEF ServiceTypeOK
<1>2. PICK cancelled \in BOOLEAN : cancelled = (exec[r].cancelled \/ r \in cancelReq)
  OBVIOUS
<1> DEFINE new == [exec[r] EXCEPT !.phase = "settle", !.unconfirmed = "completion",
                                  !.cancelled = cancelled, !.tries = 0]
<1>3. exec' = [exec EXCEPT ![r] = new]
  BY <1>2 DEF ThrowUnconfirmed
<1>4. new \in Execution /\ new.phase = "settle" /\ new.unconfirmed = "completion"
  BY <1>1 DEF Execution, Phases
<1> HIDE DEF new
<1> QED BY <1>1, <1>3, <1>4

(* Another attempt changes the count of attempts only.                      *)
LEMMA TryAgainEffect ==
    ASSUME ServiceTypeOK, NEW r \in RunIds, TryAgain(r), TriesLeft(exec[r].tries)
    PROVE  /\ exec' \in [RunIds -> Execution]
           /\ exec'[r].phase = exec[r].phase /\ exec'[r].unconfirmed = exec[r].unconfirmed
           /\ exec'[r].ctx = exec[r].ctx
           /\ \A s \in RunIds \ {r} : exec'[s] = exec[s]
<1> DEFINE n == IF TriesLeft(exec[r].tries) THEN exec[r].tries + 1 ELSE 0
<1>1. exec \in [RunIds -> Execution] /\ exec[r].tries \in 0..Attempts
  BY DEF ServiceTypeOK, Execution
<1>2. n \in 0..Attempts
  BY <1>1, AttemptsAssumption DEF TriesLeft
<1>3. exec' = [exec EXCEPT ![r].tries = n]
  BY DEF TryAgain
<1> HIDE DEF n
<1> QED BY <1>1, <1>2, <1>3 DEF Execution

(* Every step of the control plane is such a step.                          *)
LEMMA EveryStepIsSidecarStep == ServiceInv /\ [ServiceNext]_vars => SidecarStep
<1> SUFFICES ASSUME ServiceInv, [ServiceNext]_vars PROVE SidecarStep
  OBVIOUS
<1>1. ASSUME NEW r \in RunIds, ExecuteRun(r) PROVE SidecarStep
  <2>1. CASE ExecPrepare(r)
    <3>1. PrepareCall(r).op = "prepare"
      BY DEF PrepareCall
    <3> QED BY <2>1, <3>1, PrepareCallTyped, OtherCall DEF ExecPrepare
  <2>2. CASE ExecActivate(r)
    <3>1. PICK reply \in Replies :
            /\ Call(ActivateCall(r), reply)
            /\ IF reply = "ok" THEN MoveTo(r, "activated") ELSE Throw(r, TRUE)
      BY <2>2 DEF ExecActivate, ActivateCall
    <3>2. ActivateCall(r) \in ControlCall
      BY DEF ActivateCall, ControlCall
    <3>3. exec[r].phase = "activate" /\ exec'[r].phase # "activate"
      BY <2>2, <3>1, MoveEffect, ThrowEffect DEF ExecActivate, ServiceInv, Phases
    <3>4. \A s \in RunIds : ActivateCall(s) = ActivateCall(r) => s = r
      BY DEF ActivateCall
    <3>5. /\ [AuthorityNext]_authVars
          /\ late' \subseteq late \cup {ActivateCall(r)}
          /\ \A s \in RunIds : CanAct(s)' => CanAct(s) \/ ActivateCall(r) = ActivateCall(s)
      BY <3>1, <3>2, CallEffect DEF ServiceInv
    <3> QED BY <3>2, <3>3, <3>4, <3>5 DEF SidecarStep, ServiceInv
  <2>3. CASE ExecFinish(r)
    <3>1. FinishCall(r, "COMPLETED") \in ControlCall /\ FinishCall(r, "COMPLETED").op # "activate"
      BY FinishCallTyped DEF FinishStatuses, FinishCall
    <3> QED BY <2>3, <3>1, OtherCall DEF ExecFinish
  <2>4. CASE ExecInvalidate(r)
    <3> DEFINE status == IF exec[r].cancelled THEN "CANCELLED" ELSE "FAILED"
    <3>1. status \in FinishStatuses
      BY DEF FinishStatuses
    <3>2. FinishCall(r, status) \in ControlCall /\ FinishCall(r, status).op # "activate"
      BY <3>1, FinishCallTyped DEF FinishCall
    <3> QED BY <2>4, <3>2, OtherCall DEF ExecInvalidate
  <2>5. CASE UNCHANGED <<authVars, late>>
    BY <2>5, NoCall
  <2> QED BY <1>1, <2>1, <2>2, <2>3, <2>4, <2>5
          DEF ExecuteRun, ExecStart, ExecRecordContext, ExecMarkRunning, ExecLaunch, ExecSpawn,
              ExecRunnerReturns, ExecMarkFinalizing, ExecComplete, ExecSettle, EndExecution
<1>2. ASSUME NEW q \in HandlerIds, Handle(q) \/ Operator(q) PROVE SidecarStep
  <2>1. CASE ReconcileFinish(q)
    <3> DEFINE r == Min(handlers[q].todo)
               c == FinishCall(r, Intended(r))
    <3>1. r \in RunIds
      BY <2>1, FirstToDo DEF ReconcileFinish, ServiceInv
    <3>2. Intended(r) \in FinishStatuses
      BY DEF Intended, FinishStatuses
    <3>3. c \in ControlCall /\ c.op # "activate"
      BY <3>1, <3>2, FinishCallTyped DEF FinishCall
    <3> QED BY <2>1, <3>3, OtherCall DEF ReconcileFinish
  <2>2. CASE CallRevoke(q)
    <3> DEFINE c == [op |-> "revoke", ctx |-> handlers[q].ctx]
    <3>1. c \in ControlCall /\ c.op # "activate"
      BY <2>2 DEF CallRevoke, ServiceInv, HandlerInv, Cancelling, ControlCall
    <3> QED BY <2>2, <3>1, OtherCall DEF CallRevoke
  <2>3. CASE UNCHANGED <<authVars, late>>
    BY <2>3, NoCall
  <2> QED BY <1>2, <2>1, <2>2, <2>3
          DEF Handle, Operator, Reconcile, ReconcileEvidence, ReconcileClose, RequireFinalized,
              AdmitRun, NewWorkflow, CancelReturns, WaitEnds, ApplyStop, ApplyDelete,
              ApplyRevoke, Starts, StopOrDelete, StartRevoke
<1>3. CASE StartAgent \/ NodeRestart \/ UNCHANGED vars
  BY <1>3, NoCall DEF StartAgent, NodeRestart, vars, serviceVars
<1>4. CASE SidecarRestart
  <2>1. \A r \in RunIds : ~CanAct(r)'
    BY <1>4 DEF SidecarRestart, Restart, CanAct, Open, ActivateCall, Live, ServiceInv,
                IInv, TypeOK, Run
  <2> QED BY <1>4, <2>1 DEF SidecarRestart, SidecarStep, AuthorityNext
<1>5. ASSUME NEW c \in late, LateCallArrives(c) PROVE SidecarStep
  <2>1. c \in ControlCall /\ late' \subseteq late /\ (Serve(c) \/ Refuse(c))
    BY <1>5 DEF LateCallArrives, ServiceInv
  <2>2. [AuthorityNext]_authVars
    BY <2>1, ServeIsAuthority DEF ServiceInv, IInv
  <2>3. ASSUME NEW r \in RunIds, CanAct(r)' PROVE CanAct(r)
    <3>1. Open(r)
      BY <2>2, <2>3, Progress DEF CanAct, Open, ServiceInv
    <3>2. CASE runs'[r].state = "ACTIVE"
      <4>1. runs[r].state = "ACTIVE" \/ c = ActivateCall(r)
        BY <2>1, <3>2, OnlyActivationActivates DEF ServiceInv, IInv
      <4> QED BY <3>1, <4>1 DEF CanAct
    <3>3. CASE ActivateCall(r) \in late'
      BY <2>1, <3>1, <3>3 DEF CanAct
    <3> QED BY <2>3, <3>2, <3>3 DEF CanAct, ActivateCall
  <2> QED BY <2>1, <2>2, <2>3 DEF SidecarStep, ServiceInv
<1>6. CASE Tick /\ UNCHANGED serviceVars
  <2>1. [AuthorityNext]_authVars
    BY <1>6 DEF AuthorityNext
  <2>2. UNCHANGED <<runs, late>>
    BY <1>6 DEF Tick, serviceVars
  <2> QED BY <2>1, <2>2 DEF SidecarStep, ServiceInv, CanAct, Open, ActivateCall
<1> QED BY <1>1, <1>2, <1>3, <1>4, <1>5, <1>6 DEF ServiceNext

-----------------------------------------------------------------------------
(* Type correctness of the control plane.                                  *)

(* The values rows, executions and handlers start from.                     *)
LEMMA BlankTypes ==
    /\ 0 \in 0..Attempts
    /\ NoRow \in Row /\ NoExecution \in Execution /\ Idle \in Handler
<1>1. 0 \in 0..Attempts
  BY AttemptsAssumption
<1> QED BY <1>1 DEF NoRow, Row, NoExecution, Execution, Phases, Idle, Handler, Steps

(* The end of an execution frees its slot.                                  *)
LEMMA EndEffect ==
    ASSUME ServiceTypeOK, NEW r \in RunIds, EndExecution(r)
    PROVE  /\ exec' \in [RunIds -> Execution]
           /\ exec'[r] = NoExecution
           /\ \A s \in RunIds \ {r} : exec'[s] = exec[s]
           /\ activeExec' \in RunIds \cup {None} /\ cancelReq' \subseteq RunIds
           /\ handlers' = handlers
BY BlankTypes DEF EndExecution, ServiceTypeOK

(* Every await of an execution keeps the control plane well typed.          *)
LEMMA ExecutionTypes ==
    ASSUME ServiceInv, TypeOK', NEW r \in RunIds, ExecuteRun(r)
    PROVE  ServiceTypeOK'
<1> USE DEF ServiceInv
<1> DEFINE AgentType == [status : {"ready", "busy", "stopped", "error", "deleted"},
                         ctx    : CtxIds \cup {None}]
<1>1. /\ agent \in AgentType /\ rows \in [RunIds -> Row] /\ exec \in [RunIds -> Execution]
      /\ runs[r].ctx \in CtxIds \cup {None}
      /\ rows[r] \in Row /\ exec[r] \in Execution
  BY DEF ServiceTypeOK, TypeOK, Run
<1>2. ASSUME exec' \in [RunIds -> Execution],
             UNCHANGED <<agent, rows, activeExec, cancelReq, handlers>>
      PROVE  ServiceTypeOK'
  BY <1>2 DEF ServiceTypeOK
<1>3. CASE ExecStart(r) \/ ExecLaunch(r) \/ ExecSpawn(r) \/ ExecRunnerReturns(r)
  BY <1>2, <1>3, MoveEffect, ThrowEffect
     DEF ExecStart, ExecLaunch, ExecSpawn, ExecRunnerReturns, RunnerReturns, Phases, stored
<1>4. CASE ExecPrepare(r)
  BY <1>2, <1>4, MoveEffect, ThrowEffect DEF ExecPrepare, Phases, stored
<1>5. CASE ExecActivate(r)
  BY <1>2, <1>5, MoveEffect, ThrowEffect DEF ExecActivate, Phases, stored
<1>6. CASE ExecRecordContext(r)
  <2>1. exec' \in [RunIds -> Execution]
    BY <1>6, MoveEffect DEF ExecRecordContext, Phases
  <2>2. rows' \in [RunIds -> Row] /\ agent' \in AgentType
    BY <1>1, <1>6 DEF ExecRecordContext, stored, Row
  <2> QED BY <1>6, <2>1, <2>2 DEF ExecRecordContext, ServiceTypeOK
<1>7. CASE ExecMarkRunning(r)
  <2>1. exec' \in [RunIds -> Execution]
    BY <1>7, MoveEffect DEF ExecMarkRunning, Phases
  <2>2. rows' \in [RunIds -> Row]
    <3>0. rows[r] \in Row
      BY <1>1
    <3>1. [rows[r] EXCEPT !.status = "running", !.mandate = "active"] \in Row
      BY <3>0 DEF Row
    <3>2. rows' = rows \/ rows' = [rows EXCEPT ![r] =
             [rows[r] EXCEPT !.status = "running", !.mandate = "active"]]
      BY <1>7 DEF ExecMarkRunning
    <3> QED BY <1>1, <3>1, <3>2
  <2> QED BY <1>7, <2>1, <2>2 DEF ExecMarkRunning, ServiceTypeOK
<1>8. CASE ExecMarkFinalizing(r)
  <2>1. exec' \in [RunIds -> Execution]
    <3>1. [exec[r] EXCEPT !.phase = "finish", !.tries = 0] \in Execution
      BY <1>1, BlankTypes DEF Execution, Phases
    <3>2. exec' = [exec EXCEPT ![r] = [exec[r] EXCEPT !.phase = "finish", !.tries = 0]]
      BY <1>8 DEF ExecMarkFinalizing
    <3> QED BY <1>1, <3>1, <3>2
  <2>2. rows' \in [RunIds -> Row]
    BY <1>1, <1>8 DEF ExecMarkFinalizing, Row
  <2> QED BY <1>8, <2>1, <2>2 DEF ExecMarkFinalizing, ServiceTypeOK
<1>9. CASE ExecFinish(r)
  BY <1>2, <1>9, MoveEffect, TryAgainEffect, UnconfirmedEffect DEF ExecFinish, Phases, stored
<1>10. CASE ExecInvalidate(r)
  <2>1. ASSUME exec' = [exec EXCEPT ![r].phase = "settle", ![r].unconfirmed = "invalidation"]
        PROVE  exec' \in [RunIds -> Execution]
    <3>0. exec[r] \in Execution
      BY <1>1
    <3>1. [exec[r] EXCEPT !.phase = "settle", !.unconfirmed = "invalidation"] \in Execution
      BY <3>0 DEF Execution, Phases
    <3> QED BY <1>1, <2>1, <3>1
  <2> QED BY <1>2, <1>10, <2>1, MoveEffect, TryAgainEffect DEF ExecInvalidate, Phases, stored
<1>11. CASE ExecComplete(r)
  <2>1. rows' \in [RunIds -> Row] /\ agent' \in AgentType
    BY <1>1, <1>11 DEF ExecComplete, stored, Row, SettledStatus
  <2> QED BY <1>11, <2>1, EndEffect DEF ExecComplete, ServiceTypeOK
<1>12. CASE ExecSettle(r)
  <2>1. rows' \in [RunIds -> Row]
    <3> DEFINE e == exec[r]
               status == IF e.cancelled THEN "cancelled" ELSE "failed"
               mandate == IF e.unconfirmed = "nothing" THEN "closed"
                          ELSE "security-finalization-pending"
               codex == e.unconfirmed = "completion"
               new == [rows[r] EXCEPT !.status = status, !.mandate = mandate,
                                      !.codexFinished = codex]
    <3>1. status \in SettledStatus /\ codex \in BOOLEAN
          /\ mandate \in {"closed", "security-finalization-pending"}
      BY DEF SettledStatus
    <3>2. rows' = rows \/ rows' = [rows EXCEPT ![r] = new]
      BY <1>12 DEF ExecSettle
    <3> HIDE DEF status, mandate, codex
    <3>3. new \in Row
      <4>1. rows[r] \in Row
        BY <1>1
      <4> QED BY <4>1, <3>1 DEF Row
    <3> QED BY <1>1, <3>2, <3>3
  <2>2. agent' \in AgentType
    BY <1>1, <1>12 DEF ExecSettle, SettledAgent
  <2> QED BY <1>12, <2>1, <2>2, EndEffect DEF ExecSettle, ServiceTypeOK
<1> QED BY <1>3, <1>4, <1>5, <1>6, <1>7, <1>8, <1>9, <1>10, <1>11, <1>12 DEF ExecuteRun

(* A request moves on without touching the others.                          *)
LEMMA ProceedEffect ==
    ASSUME ServiceTypeOK, NEW q \in HandlerIds, NEW fields \in Handler, Proceed(q, fields)
    PROVE  /\ handlers' \in [HandlerIds -> Handler]
           /\ handlers'[q] = fields
           /\ \A p \in HandlerIds \ {q} : handlers'[p] = handlers[p]
BY DEF ServiceTypeOK, Proceed

(* A request that is answered is idle again.                                *)
LEMMA DoneEffect ==
    ASSUME ServiceTypeOK, NEW q \in HandlerIds, Done(q)
    PROVE  /\ handlers' \in [HandlerIds -> Handler]
           /\ handlers'[q] = Idle
           /\ \A p \in HandlerIds \ {q} : handlers'[p] = handlers[p]
BY BlankTypes, ProceedEffect DEF Done

(* What cancelExecution leaves: the request waits for the Run it asked to   *)
(* cancel, or has nothing to wait for.  No execution ends or moves.         *)
LEMMA CancelsEffect ==
    ASSUME ServiceTypeOK, NEW q \in HandlerIds, NEW kind \in AllOperations,
           NEW todo \in SUBSET RunIds, NEW candidates \in SUBSET RunIds,
           Cancels(q, kind, todo, candidates)
    PROVE  /\ handlers' \in [HandlerIds -> Handler]
           /\ \A p \in HandlerIds \ {q} : handlers'[p] = handlers[p]
           /\ handlers'[q].kind = kind /\ handlers'[q].todo = todo
           /\ handlers'[q].step \in {"cancel", "apply"}
           /\ exec' \in [RunIds -> Execution]
           /\ \A r \in RunIds : /\ exec'[r].phase = exec[r].phase
                                /\ exec'[r].unconfirmed = exec[r].unconfirmed
                                /\ exec'[r].ctx = exec[r].ctx
           /\ cancelReq' \subseteq RunIds
<1>1. CASE candidates = {}
  <2> DEFINE fields == [Idle EXCEPT !.kind = kind, !.step = "apply", !.todo = todo]
  <2>1. fields \in Handler /\ fields.kind = kind /\ fields.step = "apply" /\ fields.todo = todo
    BY BlankTypes DEF Idle, Handler, Steps
  <2>2. Proceed(q, fields) /\ UNCHANGED <<cancelReq, exec>>
    BY <1>1 DEF Cancels
  <2> HIDE DEF fields
  <2> QED BY <2>1, <2>2, ProceedEffect DEF ServiceTypeOK
<1>2. CASE candidates # {}
  <2> DEFINE m == Min(candidates)
             fields == [Idle EXCEPT !.kind = kind, !.step = "cancel", !.todo = todo, !.run = m]
  <2>1. m \in RunIds
    BY <1>2, MinOfIds, NumberingAssumption
  <2>2. /\ Proceed(q, fields)
        /\ cancelReq' = cancelReq \cup {m}
        /\ exec' = [exec EXCEPT ![m].cancelled = @ \/ exec[m].phase = "running"]
    BY <1>2 DEF Cancels
  <2> HIDE DEF m
  <2>3. fields \in Handler /\ fields.kind = kind /\ fields.step = "cancel" /\ fields.todo = todo
    BY <2>1, BlankTypes DEF Idle, Handler, Steps
  <2> HIDE DEF fields
  <2>4. exec \in [RunIds -> Execution]
    BY DEF ServiceTypeOK
  <2>5. exec' \in [RunIds -> Execution]
    <3>1. PICK cancelled \in BOOLEAN :
            cancelled = (exec[m].cancelled \/ exec[m].phase = "running")
      OBVIOUS
    <3>2. exec' = [exec EXCEPT ![m] = [exec[m] EXCEPT !.cancelled = cancelled]]
      BY <2>2, <3>1
    <3>3. exec[m] \in Execution
      BY <2>1, <2>4
    <3>4. [exec[m] EXCEPT !.cancelled = cancelled] \in Execution
      BY <3>3 DEF Execution
    <3> QED BY <2>1, <2>4, <3>2, <3>4
  <2>6. \A r \in RunIds : /\ exec'[r].phase = exec[r].phase
                          /\ exec'[r].unconfirmed = exec[r].unconfirmed
                          /\ exec'[r].ctx = exec[r].ctx
    BY <2>1, <2>2, <2>4 DEF Execution
  <2> QED BY <2>1, <2>2, <2>3, <2>5, <2>6, ProceedEffect DEF ServiceTypeOK
<1> QED BY <1>1, <1>2

(* Every step of an operator's request keeps the control plane well typed.  *)
LEMMA HandlerTypes ==
    ASSUME ServiceInv, TypeOK', NEW q \in HandlerIds, Handle(q) \/ Operator(q)
    PROVE  ServiceTypeOK'
<1> USE DEF ServiceInv
<1> DEFINE AgentType == [status : {"ready", "busy", "stopped", "error", "deleted"},
                         ctx    : CtxIds \cup {None}]
<1>1. /\ agent \in AgentType /\ rows \in [RunIds -> Row] /\ exec \in [RunIds -> Execution]
      /\ handlers[q] \in Handler
  BY DEF ServiceTypeOK
<1>2. ASSUME handlers' \in [HandlerIds -> Handler], UNCHANGED <<agent, rows, volatile>>
      PROVE  ServiceTypeOK'
  BY <1>2 DEF ServiceTypeOK, volatile
<1>3. CASE ReconcileFinish(q)
  <2>1. PICK reply \in Replies :
          Proceed(q, [handlers[q] EXCEPT
                !.step = CASE reply = "ok"                  -> "close"
                           [] TriesLeft(handlers[q].tries)  -> "reconcile"
                           [] OTHER                         -> "evidence",
                !.tries = IF reply = "error" /\ TriesLeft(handlers[q].tries)
                          THEN handlers[q].tries + 1 ELSE 0])
    BY <1>3 DEF ReconcileFinish
  <2> DEFINE tries == handlers[q].tries
             step == CASE reply = "ok"      -> "close"
                       [] TriesLeft(tries)  -> "reconcile"
                       [] OTHER             -> "evidence"
             left == IF reply = "error" /\ TriesLeft(tries) THEN tries + 1 ELSE 0
  <2>2. step \in Steps
    <3>1. CASE reply = "ok"
      BY <3>1 DEF Steps
    <3>2. CASE reply = "error"
      BY <3>2 DEF Steps
    <3> QED BY <3>1, <3>2 DEF Replies
  <2>3. left \in 0..Attempts
    BY <1>1, AttemptsAssumption DEF TriesLeft, Handler
  <2>4. Proceed(q, [handlers[q] EXCEPT !.step = step, !.tries = left])
    BY <2>1
  <2> HIDE DEF step, left
  <2>5. [handlers[q] EXCEPT !.step = step, !.tries = left] \in Handler
    BY <1>1, <2>2, <2>3 DEF Handler
  <2> QED BY <1>2, <1>3, <2>4, <2>5, ProceedEffect DEF ReconcileFinish, stored
<1>4. CASE ReconcileEvidence(q)
  <2> DEFINE r == Min(handlers[q].todo)
  <2>1. /\ [handlers[q] EXCEPT !.step = "close"] \in Handler
        /\ [handlers[q] EXCEPT !.step = "reconcile", !.todo = @ \ {r}] \in Handler
    BY <1>1 DEF Handler, Steps
  <2> QED BY <1>2, <1>4, <2>1, ProceedEffect DEF ReconcileEvidence, stored
<1>5. CASE ReconcileClose(q)
  <2> DEFINE r == Min(handlers[q].todo)
  <2>1. [handlers[q] EXCEPT !.step = "reconcile", !.todo = @ \ {r}] \in Handler
    BY <1>1 DEF Handler, Steps
  <2>2. handlers' \in [HandlerIds -> Handler]
    BY <1>5, <2>1, ProceedEffect DEF ReconcileClose
  <2>3. rows' \in [RunIds -> Row]
    <3>1. rows' = rows \/ (r \in RunIds /\ rows' = [rows EXCEPT ![r].mandate = "closed"])
      BY <1>5 DEF ReconcileClose, PendingRuns
    <3> HIDE DEF r
    <3> QED BY <1>1, <3>1 DEF Row
  <2> QED BY <1>5, <2>2, <2>3 DEF ReconcileClose, ServiceTypeOK, volatile
<1>6. CASE RequireFinalized(q)
  <2>1. [handlers[q] EXCEPT !.step = "admit"] \in Handler
    BY <1>1 DEF Handler, Steps
  <2> QED BY <1>2, <1>6, <2>1, ProceedEffect, DoneEffect DEF RequireFinalized, stored
<1>7. CASE AdmitRun(q)
  <2> DEFINE fresh == {r \in RunIds : rows[r].status = "none"}
             r == Min(fresh)
             original == handlers[q].run
             row == [NoRow EXCEPT !.status = "queued", !.retryOf = original]
             start == [NoExecution EXCEPT !.phase = "start", !.ctx = agent.ctx]
  <2>1. CASE Admissible(original) /\ fresh # {}
    <3>1. r \in RunIds
      BY <2>1, MinOfIds, NumberingAssumption
    <3>2. /\ rows' = [rows EXCEPT ![r] = row] /\ exec' = [exec EXCEPT ![r] = start]
          /\ agent' = [agent EXCEPT !.status = "busy"] /\ activeExec' = r
          /\ UNCHANGED cancelReq /\ Done(q)
      BY <1>7, <2>1 DEF AdmitRun
    <3> HIDE DEF r
    <3>3. row \in Row /\ start \in Execution
      BY <1>1, BlankTypes DEF Row, NoRow, Handler, NoExecution, Execution, Phases
    <3>4. agent' \in AgentType
      BY <1>1, <3>2
    <3> HIDE DEF row, start
    <3> QED BY <1>1, <3>1, <3>2, <3>3, <3>4, DoneEffect DEF ServiceTypeOK
  <2>2. CASE ~(Admissible(original) /\ fresh # {})
    BY <1>2, <1>7, <2>2, DoneEffect DEF AdmitRun, stored, volatile
  <2> QED BY <2>1, <2>2
<1>8. CASE NewWorkflow(q)
  <2>1. agent' \in AgentType
    BY <1>1, <1>8 DEF NewWorkflow
  <2> QED BY <1>8, <2>1, DoneEffect DEF NewWorkflow, ServiceTypeOK, volatile
<1>9. CASE CancelReturns(q)
  <2>1. /\ activeExec # None => [handlers[q] EXCEPT !.step = "wait", !.run = activeExec] \in Handler
        /\ [handlers[q] EXCEPT !.step = "apply"] \in Handler
    BY <1>1 DEF Handler, Steps, ServiceTypeOK
  <2> QED BY <1>9, <2>1, ProceedEffect DEF CancelReturns, ServiceTypeOK, stored
<1>10. CASE WaitEnds(q)
  <2>1. [handlers[q] EXCEPT !.step = "apply"] \in Handler
    BY <1>1 DEF Handler, Steps
  <2> QED BY <1>2, <1>10, <2>1, ProceedEffect DEF WaitEnds, stored
<1>11. CASE ApplyStop(q)
  <2>1. agent' \in AgentType
    BY <1>1, <1>11 DEF ApplyStop
  <2> QED BY <1>11, <2>1, DoneEffect DEF ApplyStop, ServiceTypeOK, volatile
<1>12. CASE ApplyDelete(q)
  <2>1. agent' \in AgentType /\ rows' \in [RunIds -> Row]
    BY <1>12, BlankTypes DEF ApplyDelete
  <2> QED BY <1>12, <2>1, DoneEffect DEF ApplyDelete, ServiceTypeOK, volatile
<1>13. CASE CallRevoke(q)
  <2> DEFINE affected == RevokedBy(handlers[q].ctx)
  <2>1. affected \in SUBSET RunIds /\ affected \cap UnsettledRuns \in SUBSET RunIds
    BY DEF RevokedBy, RunsOf, Affected
  <2>2. CASE Cancels(q, "revoke", affected, affected \cap UnsettledRuns)
    <3> HIDE DEF affected
    <3>1. "revoke" \in AllOperations
      BY DEF AllOperations
    <3> QED BY <1>13, <2>1, <2>2, <3>1, CancelsEffect DEF CallRevoke, ServiceTypeOK, stored
  <2>3. CASE Done(q) /\ UNCHANGED <<cancelReq, exec>>
    BY <1>2, <1>13, <2>3, DoneEffect DEF CallRevoke, stored, volatile
  <2> QED BY <1>13, <2>2, <2>3 DEF CallRevoke
<1>14. CASE ApplyRevoke(q)
  <2>1. \A r \in RunIds :
          [rows[r] EXCEPT !.mandate = "revoked",
             !.status = IF Unsettled(r) THEN "cancelled" ELSE @] \in Row
    <3> SUFFICES ASSUME NEW r \in RunIds
                 PROVE  [rows[r] EXCEPT !.mandate = "revoked",
                           !.status = IF Unsettled(r) THEN "cancelled" ELSE @] \in Row
      OBVIOUS
    <3>1. rows[r] \in Row
      BY <1>1
    <3> QED BY <3>1 DEF Row, SettledStatus
  <2>2. rows' \in [RunIds -> Row]
    BY <1>1, <1>14, <2>1 DEF ApplyRevoke
  <2>3. agent' \in AgentType
    BY <1>1, <1>14 DEF ApplyRevoke
  <2> QED BY <1>14, <2>2, <2>3, DoneEffect DEF ApplyRevoke, ServiceTypeOK, volatile
<1>15. ASSUME NEW kind \in Operations, NEW original \in RunIds \cup {None},
              Starts(q, kind, original)
       PROVE  ServiceTypeOK'
  <2>1. [Idle EXCEPT !.kind = kind, !.step = "reconcile", !.run = original,
                     !.todo = PendingRuns] \in Handler
    BY BlankTypes, OperationAssumption DEF Idle, Handler, Steps, PendingRuns
  <2> QED BY <1>2, <1>15, <2>1, ProceedEffect DEF Starts, stored
<1>16. ASSUME NEW kind \in Operations, StopOrDelete(q, kind) PROVE ServiceTypeOK'
  <2>1. UnsettledRuns \in SUBSET RunIds /\ kind \in AllOperations
    BY OperationAssumption DEF UnsettledRuns
  <2> QED BY <1>16, <2>1, CancelsEffect DEF StopOrDelete, ServiceTypeOK, stored
<1>17. ASSUME NEW c \in CtxIds, StartRevoke(q, c) PROVE ServiceTypeOK'
  <2>1. [Idle EXCEPT !.kind = "revoke", !.step = "call", !.ctx = c] \in Handler
    BY BlankTypes DEF Idle, Handler, Steps, AllOperations
  <2> QED BY <1>2, <1>17, <2>1, ProceedEffect DEF StartRevoke, stored
<1> QED BY <1>3, <1>4, <1>5, <1>6, <1>7, <1>8, <1>9, <1>10, <1>11, <1>12, <1>13, <1>14,
           <1>15, <1>16, <1>17 DEF Handle, Operator, Reconcile

(* The start of both processes is well typed.                               *)
LEMMA ServiceTypeInit == ServiceInit => ServiceTypeOK
BY TypeInit, BlankTypes DEF ServiceInit, ServiceTypeOK

(* Every step keeps the control plane well typed.                           *)
LEMMA ServiceTypeStep == ServiceInv /\ [ServiceNext]_vars => ServiceTypeOK'
<1> SUFFICES ASSUME ServiceInv, [ServiceNext]_vars PROVE ServiceTypeOK'
  OBVIOUS
<1>1. TypeOK'
  BY EveryStepIsSidecarStep, TypeStep DEF SidecarStep, ServiceInv, IInv
<1>2. /\ agent \in [status : {"ready", "busy", "stopped", "error", "deleted"},
                    ctx    : CtxIds \cup {None}]
      /\ rows \in [RunIds -> Row]
  BY DEF ServiceInv, ServiceTypeOK
<1>3. ASSUME UNCHANGED serviceVars PROVE ServiceTypeOK'
  BY <1>1, <1>3 DEF ServiceInv, ServiceTypeOK, serviceVars, stored, volatile
<1>4. CASE StartAgent
  <2>1. [agent EXCEPT !.status = "ready"] \in [status : {"ready", "busy", "stopped", "error", "deleted"},
                                               ctx    : CtxIds \cup {None}]
    BY <1>2
  <2> QED BY <1>1, <1>4, <2>1 DEF StartAgent, ServiceInv, ServiceTypeOK, volatile
<1>5. CASE NodeRestart
  <2>1. \A r \in RunIds : Restarted(r) \in Row
    <3> SUFFICES ASSUME NEW r \in RunIds PROVE Restarted(r) \in Row
      OBVIOUS
    <3> DEFINE mandate == IF rows[r].ctx # None THEN "security-finalization-pending" ELSE "closed"
    <3>1. mandate \in {"security-finalization-pending", "closed"} /\ rows[r] \in Row
      BY <1>2
    <3>2. Restarted(r) \in {rows[r], [rows[r] EXCEPT !.status = "cancelled",
                               !.codexFinished = FALSE, !.mandate = mandate]}
      BY DEF Restarted
    <3> HIDE DEF mandate
    <3> QED BY <3>1, <3>2 DEF Row, SettledStatus
  <2>2. rows' \in [RunIds -> Row] /\ exec' \in [RunIds -> Execution]
    BY <1>5, <2>1, BlankTypes DEF NodeRestart
  <2>3. agent' \in [status : {"ready", "busy", "stopped", "error", "deleted"},
                    ctx    : CtxIds \cup {None}]
    BY <1>2, <1>5 DEF NodeRestart
  <2> DEFINE pending == {r \in RunIds : rows'[r].mandate = "security-finalization-pending"}
             first == [Idle EXCEPT !.kind = "initialize", !.step = "reconcile", !.todo = pending]
  <2>4. pending \in SUBSET RunIds
    OBVIOUS
  <2>5. handlers' \in [HandlerIds -> Handler]
    <3> HIDE DEF pending
    <3>1. first \in Handler
      BY <2>4, BlankTypes DEF Idle, Handler, Steps
    <3>2. \/ handlers' = [q \in HandlerIds |-> Idle]
          \/ \E q \in HandlerIds :
               handlers' = [p \in HandlerIds |-> IF p # q THEN Idle ELSE first]
      BY <1>5 DEF NodeRestart, pending
    <3> HIDE DEF first
    <3> QED BY <3>1, <3>2, BlankTypes
  <2> QED BY <1>1, <1>5, <2>2, <2>3, <2>5 DEF NodeRestart, ServiceTypeOK
<1>6. CASE SidecarRestart
  BY <1>1, <1>6 DEF SidecarRestart, ServiceInv, ServiceTypeOK, stored, volatile
<1>7. ASSUME NEW c \in late, LateCallArrives(c) PROVE ServiceTypeOK'
  BY <1>1, <1>7 DEF LateCallArrives, ServiceInv, ServiceTypeOK, stored, volatile
<1> QED BY <1>1, <1>3, <1>4, <1>5, <1>6, <1>7, ExecutionTypes, HandlerTypes
        DEF ServiceNext, vars

-----------------------------------------------------------------------------
(* What each step keeps of a Run.                                          *)

(* What a step may do to the authority of a Run, in one place.              *)
AuthorityKept(r) ==
    /\ CanAct(r)' =>
         CanAct(r) \/ (exec[r].phase = "activate" /\ exec'[r].phase # "activate")
    /\ ActivateCall(r) \in late' =>
         ActivateCall(r) \in late \/ (exec[r].phase = "activate" /\ exec'[r].phase # "activate")
    /\ CanAct(r) => Open(r)
    /\ CanAct(r)' => Open(r)'
    /\ Open(r)' => Open(r)
    /\ Withdrawn(r) => Withdrawn(r)' /\ ~Open(r)
    /\ runs[r].state = "COMPLETED" => runs'[r].state = "COMPLETED"
    /\ runs'[r].state \in Terminal => ~CanAct(r)'
    /\ runs[r].state # "NONE" => runs'[r].state # "NONE"

(* Every step of the sidecar's does no more than that.                      *)
LEMMA AuthorityOfRun ==
    ASSUME ServiceInv, SidecarStep, NEW r \in RunIds
    PROVE  AuthorityKept(r)
<1>1. CanAct(r) => Open(r)
  BY DEF CanAct, Open
<1>2. CanAct(r)' => Open(r)'
  BY DEF CanAct, Open
<1>3. runs'[r].state \in Terminal => ~CanAct(r)'
  BY DEF CanAct, Open, Terminal
<1>4. Withdrawn(r) => ~Open(r)
  BY DEF Withdrawn, Open
<1>5. /\ Open(r)' => Open(r)
      /\ Withdrawn(r) => Withdrawn(r)'
      /\ runs[r].state = "COMPLETED" => runs'[r].state = "COMPLETED"
      /\ runs[r].state # "NONE" => runs'[r].state # "NONE"
  BY Progress DEF SidecarStep, ServiceInv
<1> QED BY <1>1, <1>2, <1>3, <1>4, <1>5 DEF SidecarStep, AuthorityKept

(* A step that neither moves the execution of a Run nor writes its row keeps *)
(* what is claimed of the Run, whatever the sidecar does meanwhile.         *)
LEMMA RunKept ==
    ASSUME ServiceInv, SidecarStep, NEW r \in RunIds,
           exec'[r].phase = exec[r].phase, exec'[r].unconfirmed = exec[r].unconfirmed,
           rows'[r] = rows[r], Exists' <=> Exists
    PROVE  RunInv(r)'
<1>1. RunInv(r) /\ AuthorityKept(r)
  BY AuthorityOfRun DEF ServiceInv
<1> QED BY <1>1
        DEF AuthorityKept, RunInv, RowOfAgent, Confirmed, CancelledUnderExecution, Accounted, Executing, Unsettled

(* What is claimed of a Run, as a list of facts about its columns.          *)
LEMMA OwnStep ==
    ASSUME ServiceInv, SidecarStep, NEW r \in RunIds, ExecuteRun(r)
    PROVE  RunInv(r)'
<1> USE DEF RunInv, RowOfAgent, Confirmed, CancelledUnderExecution, Accounted, Executing,
            Unsettled, Unactivated, AuthorityKept, Exists
<1>1. /\ RunInv(r) /\ AuthorityKept(r)
      /\ ServiceTypeOK
      /\ rows \in [RunIds -> Row] /\ exec \in [RunIds -> Execution]
  BY AuthorityOfRun DEF ServiceInv, ServiceTypeOK
<1>2. exec[r].phase # "settle" => exec[r].unconfirmed = "nothing"
  BY <1>1
<1>3. CASE ExecStart(r)
  <2>1. exec[r].phase = "start" /\ UNCHANGED stored
    BY <1>3 DEF ExecStart
  <2>2. CASE MoveTo(r, "prepare")
    BY <1>1, <1>2, <2>1, <2>2, MoveEffect DEF Phases, stored
  <2>3. CASE Throw(r, FALSE)
    BY <1>1, <1>2, <2>1, <2>3, ThrowEffect DEF stored
  <2> QED BY <1>3, <2>2, <2>3 DEF ExecStart
<1>4. CASE ExecPrepare(r)
  <2>1. exec[r].phase = "prepare" /\ UNCHANGED stored
    BY <1>4 DEF ExecPrepare
  <2>2. CASE Call(PrepareCall(r), "ok") /\ MoveTo(r, "prepared")
    <3>1. Serve(PrepareCall(r)) /\ PrepareCall(r).op = "prepare" /\ PrepareCall(r).run = r
      BY <2>2 DEF Call, PrepareCall
    <3>2. runs'[r].state = "PREPARED"
      BY <3>1, PrepareCallTyped, ServedPrepare DEF ServiceInv, IInv
    <3> QED BY <1>1, <1>2, <2>1, <2>2, <3>2, MoveEffect DEF Phases, stored
  <2>3. CASE Throw(r, FALSE)
    BY <1>1, <1>2, <2>1, <2>3, ThrowEffect DEF stored
  <2> QED BY <1>4, <2>2, <2>3 DEF ExecPrepare, Replies
<1>5. CASE ExecRecordContext(r)
  <2>1. exec[r].phase = "prepared" /\ MoveTo(r, "activate") /\ UNCHANGED runs
    BY <1>5 DEF ExecRecordContext, authVars
  <2>2. runs[r].ctx # None
    BY <1>1, <2>1 DEF ServiceInv, IInv, RunWithinMandate
  <2>3. CASE StoredTogether(r)
    <3>1. /\ rows'[r] = [rows[r] EXCEPT !.ctx = runs[r].ctx]
          /\ agent' = [agent EXCEPT !.ctx = runs[r].ctx]
      BY <1>1, <1>5, <2>3 DEF ExecRecordContext
    <3>2. /\ rows'[r].status = rows[r].status /\ rows'[r].mandate = rows[r].mandate
          /\ rows'[r].ctx # None
          /\ agent'.status = agent.status
      BY <1>1, <2>2, <3>1 DEF Row, ServiceTypeOK
    <3>3. rows[r].status # "none" /\ Exists /\ Exists'
      BY <2>3, <3>2 DEF StoredTogether, Exists
    <3> QED BY <1>1, <1>2, <2>1, <3>2, <3>3, MoveEffect DEF Phases
  <2>4. CASE ~StoredTogether(r)
    <3>1. UNCHANGED stored /\ ~Exists
      BY <1>1, <1>5, <2>1, <2>4 DEF ExecRecordContext, StoredTogether
    <3> QED BY <1>1, <1>2, <2>1, <3>1, MoveEffect DEF Phases, stored, Exists
  <2> QED BY <2>3, <2>4
<1>6. CASE ExecActivate(r)
  <2>1. exec[r].phase = "activate" /\ UNCHANGED stored
    BY <1>6 DEF ExecActivate
  <2>2. CASE MoveTo(r, "activated")
    BY <1>1, <1>2, <2>1, <2>2, MoveEffect DEF Phases, stored
  <2>3. CASE Throw(r, TRUE)
    BY <1>1, <1>2, <2>1, <2>3, ThrowEffect DEF stored
  <2> QED BY <1>6, <2>2, <2>3 DEF ExecActivate
<1>7. CASE ExecMarkRunning(r)
  <2>1. exec[r].phase = "activated" /\ MoveTo(r, "launch") /\ UNCHANGED agent
    BY <1>7 DEF ExecMarkRunning
  <2>2. CASE rows[r].status # "none"
    <3>1. rows'[r] = [rows[r] EXCEPT !.status = "running", !.mandate = "active"]
      BY <1>1, <1>7, <2>2 DEF ExecMarkRunning
    <3>2. /\ rows'[r].status = "running" /\ rows'[r].mandate = "active"
          /\ rows'[r].ctx = rows[r].ctx
      BY <1>1, <3>1 DEF Row
    <3> QED BY <1>1, <1>2, <2>1, <2>2, <3>2, MoveEffect DEF Phases
  <2>3. CASE rows[r].status = "none"
    BY <1>1, <1>2, <1>7, <2>1, <2>3, MoveEffect DEF Phases, ExecMarkRunning
  <2> QED BY <2>2, <2>3
<1>8. CASE ExecLaunch(r) \/ ExecSpawn(r) \/ ExecRunnerReturns(r)
  <2>1. exec[r].phase \in {"launch", "starting", "running"} /\ UNCHANGED stored
    BY <1>8 DEF ExecLaunch, ExecSpawn, ExecRunnerReturns
  <2>2. ASSUME NEW phase \in {"starting", "running", "returned"}, MoveTo(r, phase)
        PROVE  RunInv(r)'
    BY <1>1, <1>2, <2>1, <2>2, MoveEffect DEF Phases, stored
  <2>3. CASE Throw(r, TRUE)
    BY <1>1, <1>2, <2>1, <2>3, ThrowEffect DEF stored
  <2> QED BY <1>8, <2>2, <2>3 DEF ExecLaunch, ExecSpawn, ExecRunnerReturns, RunnerReturns
<1>9. CASE ExecMarkFinalizing(r)
  <2>1. /\ exec[r].phase = "returned" /\ UNCHANGED agent
        /\ exec'[r].phase = "finish" /\ exec'[r].unconfirmed = exec[r].unconfirmed
    BY <1>1, <1>9 DEF ExecMarkFinalizing, Execution
  <2>2. /\ rows'[r].status = rows[r].status
        /\ rows[r].status # "none" => rows'[r].mandate = "finalizing"
        /\ rows[r].status = "none" => rows'[r] = rows[r]
        /\ rows'[r].ctx = rows[r].ctx
    BY <1>1, <1>9 DEF ExecMarkFinalizing, Row
  <2> QED BY <1>1, <1>2, <2>1, <2>2
<1>10. CASE ExecFinish(r)
  <2>1. exec[r].phase = "finish" /\ UNCHANGED stored
    BY <1>10 DEF ExecFinish
  <2>2. CASE Call(FinishCall(r, "COMPLETED"), "ok") /\ MoveTo(r, "complete")
    <3>1. runs'[r].state = "COMPLETED"
      BY <2>2, ServedFinish DEF Call, ServiceInv, IInv
    <3> QED BY <1>1, <1>2, <2>1, <2>2, <3>1, MoveEffect
            DEF Phases, stored, Terminal
  <2>3. CASE TriesLeft(exec[r].tries) /\ TryAgain(r)
    BY <1>1, <1>2, <2>1, <2>3, TryAgainEffect DEF stored
  <2>4. CASE ThrowUnconfirmed(r)
    BY <1>1, <1>2, <2>1, <2>4, UnconfirmedEffect DEF stored
  <2> QED BY <1>10, <2>2, <2>3, <2>4 DEF ExecFinish, Replies
<1>11. CASE ExecInvalidate(r)
  <2> DEFINE status == IF exec[r].cancelled THEN "CANCELLED" ELSE "FAILED"
  <2>1. exec[r].phase = "invalidate" /\ UNCHANGED stored
    BY <1>11 DEF ExecInvalidate
  <2>2. CASE Call(FinishCall(r, status), "ok") /\ MoveTo(r, "settle")
    <3>1. status \in Terminal
      BY DEF Terminal
    <3> HIDE DEF status
    <3>2. runs'[r].state \in Terminal
      BY <2>2, <3>1, ServedFinish DEF Call, ServiceInv, IInv
    <3> QED BY <1>1, <1>2, <2>1, <2>2, <3>2, MoveEffect DEF Phases, stored
  <2>3. CASE TriesLeft(exec[r].tries) /\ TryAgain(r)
    BY <1>1, <1>2, <2>1, <2>3, TryAgainEffect DEF stored
  <2>4. CASE exec' = [exec EXCEPT ![r].phase = "settle", ![r].unconfirmed = "invalidation"]
    <3>1. exec'[r].phase = "settle" /\ exec'[r].unconfirmed = "invalidation"
      BY <1>1, <2>4 DEF Execution
    <3> QED BY <1>1, <1>2, <2>1, <3>1 DEF stored
  <2> QED BY <1>11, <2>2, <2>3, <2>4 DEF ExecInvalidate, Replies
<1>12. CASE ExecComplete(r)
  <2>1. exec[r].phase = "complete" /\ exec'[r] = NoExecution
    BY <1>1, <1>12, EndEffect DEF ExecComplete
  <2>2. exec'[r].phase = "none" /\ exec'[r].unconfirmed = "nothing" /\ ~CanAct(r)'
    BY <1>1, <2>1 DEF NoExecution, Terminal
  <2>3. CASE StoredTogether(r)
    <3>1. /\ rows'[r] = [rows[r] EXCEPT !.status = "completed", !.mandate = "closed"]
          /\ agent' = [agent EXCEPT !.status = "ready"]
      BY <1>1, <1>12, <2>3 DEF ExecComplete
    <3>2. /\ rows'[r].status = "completed" /\ rows'[r].mandate = "closed"
          /\ agent'.status = "ready"
      BY <1>1, <3>1 DEF Row, ServiceTypeOK
    <3> QED BY <1>1, <2>1, <2>2, <3>2 DEF Exists
  <2>4. CASE ~StoredTogether(r)
    <3>1. UNCHANGED stored /\ ~Exists
      BY <1>1, <1>12, <2>1, <2>4 DEF ExecComplete, StoredTogether
    <3> QED BY <1>1, <2>1, <2>2, <3>1 DEF stored, Exists
  <2> QED BY <2>3, <2>4
<1>13. CASE ExecSettle(r)
  <2> DEFINE e == exec[r]
  <2>1. e.phase = "settle" /\ exec'[r] = NoExecution
    BY <1>1, <1>13, EndEffect DEF ExecSettle
  <2>2. exec'[r].phase = "none" /\ exec'[r].unconfirmed = "nothing"
    BY <2>1 DEF NoExecution
  <2>3. Exists' <=> Exists
    BY <1>1, <1>13 DEF ExecSettle, SettledAgent, Exists, ServiceTypeOK
  <2>4. CASE rows[r].status = "none"
    BY <1>1, <1>13, <2>1, <2>2, <2>3, <2>4 DEF ExecSettle
  <2>5. CASE rows[r].status # "none"
    <3>1. rows'[r] = [rows[r] EXCEPT !.status = IF e.cancelled THEN "cancelled" ELSE "failed",
                                !.mandate = IF e.unconfirmed = "nothing" THEN "closed"
                                            ELSE "security-finalization-pending",
                                !.codexFinished = e.unconfirmed = "completion"]
      BY <1>1, <1>13, <2>5 DEF ExecSettle
    <3>2. /\ rows'[r].status \in {"failed", "cancelled"}
          /\ e.unconfirmed = "nothing" => rows'[r].mandate = "closed"
          /\ e.unconfirmed # "nothing" => rows'[r].mandate = "security-finalization-pending"
      BY <1>1, <3>1 DEF Row
    <3> QED BY <1>1, <2>1, <2>2, <2>3, <2>5, <3>2
  <2> QED BY <2>4, <2>5
<1> QED BY <1>3, <1>4, <1>5, <1>6, <1>7, <1>8, <1>9, <1>10, <1>11, <1>12, <1>13 DEF ExecuteRun

(* An execution touches no other Run, and never creates or deletes the Agent. *)
LEMMA OthersUntouched ==
    ASSUME ServiceInv, NEW r \in RunIds, ExecuteRun(r)
    PROVE  /\ Exists' <=> Exists
           /\ handlers' = handlers
           /\ \A s \in RunIds \ {r} : exec'[s] = exec[s] /\ rows'[s] = rows[s]
<1>1. /\ rows \in [RunIds -> Row] /\ exec \in [RunIds -> Execution]
      /\ agent \in [status : {"ready", "busy", "stopped", "error", "deleted"},
                    ctx    : CtxIds \cup {None}]
      /\ ServiceTypeOK
  BY DEF ServiceInv, ServiceTypeOK
<1>2. handlers' = handlers
  BY DEF ExecuteRun, ExecStart, ExecPrepare, ExecRecordContext, ExecActivate, ExecMarkRunning,
         ExecLaunch, ExecSpawn, ExecRunnerReturns, ExecMarkFinalizing, ExecFinish,
         ExecInvalidate, ExecComplete, ExecSettle, EndExecution
<1>3. Exists' <=> Exists
  BY <1>1 DEF ExecuteRun, ExecStart, ExecPrepare, ExecRecordContext, ExecActivate,
         ExecMarkRunning, ExecLaunch, ExecSpawn, ExecRunnerReturns, ExecMarkFinalizing,
         ExecFinish, ExecInvalidate, ExecComplete, ExecSettle, stored, Exists, StoredTogether,
         SettledAgent
<1> SUFFICES ASSUME NEW s \in RunIds \ {r} PROVE exec'[s] = exec[s] /\ rows'[s] = rows[s]
  BY <1>2, <1>3
<1>4. rows'[s] = rows[s]
  BY <1>1 DEF ExecuteRun, ExecStart, ExecPrepare, ExecRecordContext, ExecActivate,
         ExecMarkRunning, ExecLaunch, ExecSpawn, ExecRunnerReturns, ExecMarkFinalizing,
         ExecFinish, ExecInvalidate, ExecComplete, ExecSettle, stored
<1>5. exec'[s] = exec[s]
  BY <1>1 DEF ExecuteRun, ExecStart, ExecPrepare, ExecRecordContext, ExecActivate,
         ExecMarkRunning, ExecLaunch, ExecSpawn, ExecRunnerReturns, ExecMarkFinalizing,
         ExecFinish, ExecInvalidate, ExecComplete, ExecSettle, EndExecution, MoveTo, Throw,
         ThrowUnconfirmed, TryAgain, RunnerReturns
<1> QED BY <1>4, <1>5

(* An execution keeps what is claimed of every Run.                         *)
LEMMA ExecutionKeepsRuns ==
    ASSUME ServiceInv, SidecarStep, NEW r \in RunIds, ExecuteRun(r), NEW s \in RunIds
    PROVE  RunInv(s)'
BY OwnStep, OthersUntouched, RunKept

-----------------------------------------------------------------------------
(* What each step keeps of a request.                                      *)

(* An idle request claims nothing.                                          *)
LEMMA IdleClaimsNothing ==
    ASSUME NEW q \in HandlerIds, handlers'[q] = Idle
    PROVE  HandlerInv(q)'
BY DEF HandlerInv, Reconciled, Cancelling, Idle

(* A step that does not move a request keeps what is claimed of it, unless  *)
(* it starts an execution of a settled Run or unstores it.                  *)
LEMMA HandlerKept ==
    ASSUME ServiceInv, SidecarStep, NEW q \in HandlerIds,
           handlers'[q] = handlers[q], Exists' => Exists,
           \A r \in RunIds : Exists' /\ rows[r].status # "none" /\ ~Executing(r) =>
                                rows'[r].status # "none" /\ ~Executing(r)'
    PROVE  HandlerInv(q)'
<1>1. HandlerInv(q) /\ ServiceTypeOK /\ handlers[q].todo \in SUBSET RunIds
  BY DEF ServiceInv, ServiceTypeOK, Handler
<1>2. \A r \in RunIds : AuthorityKept(r)
  BY AuthorityOfRun
<1>3. Cancelling(q)'
  BY <1>1, <1>2 DEF HandlerInv, Cancelling, AuthorityKept
<1>4. Reconciled(q)'
  <2>1. ASSUME handlers[q].step \in {"reconcile", "evidence", "close"}, Exists',
               NEW r \in handlers[q].todo
        PROVE  ~Executing(r)' /\ rows'[r].status # "none"
    BY <1>1, <2>1 DEF HandlerInv, Reconciled
  <2>2. ASSUME handlers[q].step = "close", Exists'
        PROVE  ~CanAct(Min(handlers[q].todo))'
    <3> PICK r : r = Min(handlers[q].todo)
      OBVIOUS
    <3>1. r \in handlers[q].todo /\ r \in RunIds
      BY <1>1, <2>2, FirstToDo DEF HandlerInv, Reconciled
    <3>2. ~Executing(r) /\ ~CanAct(r)
      <4>1. Exists /\ Reconciled(q)
        BY <1>1, <2>2 DEF HandlerInv
      <4> QED BY <2>2, <3>1, <4>1 DEF Reconciled
    <3>3. ~CanAct(r)'
      BY <1>2, <3>1, <3>2 DEF AuthorityKept, Executing
    <3>4. Min(handlers'[q].todo) = r
      OBVIOUS
    <3> QED BY <3>3, <3>4
  <2> QED BY <1>1, <2>1, <2>2 DEF HandlerInv, Reconciled
<1> QED BY <1>3, <1>4 DEF HandlerInv

(* An execution keeps what is claimed of the requests.                      *)
LEMMA ExecutionKeepsHandlers ==
    ASSUME ServiceInv, SidecarStep, NEW r \in RunIds, ExecuteRun(r), NEW q \in HandlerIds
    PROVE  HandlerInv(q)'
<1>1. Executing(r)
  BY DEF ExecuteRun, ExecStart, ExecPrepare, ExecRecordContext, ExecActivate, ExecMarkRunning,
         ExecLaunch, ExecSpawn, ExecRunnerReturns, ExecMarkFinalizing, ExecFinish,
         ExecInvalidate, ExecComplete, ExecSettle, Executing
<1> QED BY <1>1, OthersUntouched, HandlerKept DEF Executing

(* A request that neither writes a row nor moves an execution keeps what is *)
(* claimed of the Runs and of the other requests.                           *)
LEMMA RequestAlone ==
    ASSUME ServiceInv, SidecarStep, NEW q \in HandlerIds,
           \A r \in RunIds : exec'[r].phase = exec[r].phase
                             /\ exec'[r].unconfirmed = exec[r].unconfirmed,
           UNCHANGED rows, Exists' <=> Exists,
           \A p \in HandlerIds \ {q} : handlers'[p] = handlers[p],
           HandlerInv(q)'
    PROVE  /\ \A r \in RunIds : RunInv(r)'
           /\ \A p \in HandlerIds : HandlerInv(p)'
<1>1. \A r \in RunIds : RunInv(r)'
  BY RunKept
<1>2. ASSUME NEW p \in HandlerIds \ {q} PROVE HandlerInv(p)'
  BY <1>2, HandlerKept DEF Executing
<1> QED BY <1>1, <1>2

(* Each await of a reconciliation keeps what is claimed.                    *)
LEMMA ReconcileKeeps ==
    ASSUME ServiceInv, SidecarStep, NEW q \in HandlerIds, Reconcile(q)
    PROVE  /\ \A r \in RunIds : RunInv(r)'
           /\ \A p \in HandlerIds : HandlerInv(p)'
<1>1. /\ HandlerInv(q) /\ ServiceTypeOK
      /\ handlers \in [HandlerIds -> Handler] /\ handlers[q] \in Handler
      /\ handlers[q].todo \in SUBSET RunIds
      /\ rows \in [RunIds -> Row]
  BY DEF ServiceInv, ServiceTypeOK, Handler
<1>2. \A r \in RunIds : AuthorityKept(r) /\ RunInv(r)
  BY AuthorityOfRun DEF ServiceInv
<1> PICK r : r = Min(handlers[q].todo)
  OBVIOUS
<1>3. handlers[q].todo # {} => r \in handlers[q].todo /\ r \in RunIds
  BY <1>1, FirstToDo
<1>4. CASE ReconcileFinish(q)
  <2>1. /\ handlers[q].step = "reconcile" /\ handlers[q].todo # {}
        /\ UNCHANGED <<agent, rows, exec>>
    BY <1>4 DEF ReconcileFinish, stored, volatile
  <2>2. PICK reply \in Replies :
          /\ Call(FinishCall(r, Intended(r)), reply)
          /\ Proceed(q, [handlers[q] EXCEPT
                !.step = CASE reply = "ok"                  -> "close"
                           [] TriesLeft(handlers[q].tries)  -> "reconcile"
                           [] OTHER                         -> "evidence",
                !.tries = IF reply = "error" /\ TriesLeft(handlers[q].tries)
                          THEN handlers[q].tries + 1 ELSE 0])
    BY <1>4 DEF ReconcileFinish
  <2>3. /\ handlers'[q].todo = handlers[q].todo
        /\ handlers'[q].step \in {"close", "reconcile", "evidence"}
        /\ handlers'[q].step = "close" => reply = "ok"
        /\ \A p \in HandlerIds \ {q} : handlers'[p] = handlers[p]
    <3>1. handlers'[q].todo = handlers[q].todo
      BY <1>1, <2>2 DEF Proceed, Handler
    <3>2. handlers'[q].step = CASE reply = "ok"                  -> "close"
                                [] TriesLeft(handlers[q].tries)  -> "reconcile"
                                [] OTHER                         -> "evidence"
      BY <1>1, <2>2 DEF Proceed, Handler
    <3>3. \A p \in HandlerIds \ {q} : handlers'[p] = handlers[p]
      BY <1>1, <2>2 DEF Proceed
    <3> QED BY <3>1, <3>2, <3>3
  <2>4. ASSUME reply = "ok" PROVE ~CanAct(r)'
    <3>1. Serve(FinishCall(r, Intended(r))) /\ Intended(r) \in Terminal
      BY <2>2, <2>4 DEF Call, Intended, Terminal
    <3>2. runs'[r].state \in Terminal
      BY <1>3, <2>1, <3>1, ServedFinish DEF ServiceInv, IInv
    <3> QED BY <1>2, <1>3, <2>1, <3>2 DEF AuthorityKept
  <2>5. HandlerInv(q)'
    <3>1. ~CanAct(r)' \/ handlers'[q].step # "close"
      BY <2>3, <2>4
    <3>2. \A s \in handlers[q].todo : Exists' => ~Executing(s)' /\ rows'[s].status # "none"
      BY <1>1, <2>1 DEF HandlerInv, Reconciled, Exists, Executing
    <3> QED BY <2>1, <2>3, <3>1, <3>2 DEF HandlerInv, Reconciled, Cancelling
  <2> QED BY <2>1, <2>3, <2>5, RequestAlone DEF Exists
<1>5. CASE ReconcileEvidence(q)
  <2>1. /\ handlers[q].step = "evidence" /\ handlers[q].todo # {}
        /\ UNCHANGED <<agent, rows, exec, runs, late>>
    BY <1>1, <1>5 DEF ReconcileEvidence, stored, volatile, authVars, HandlerInv, Reconciled
  <2>2. CASE ~Live(r) /\ Proceed(q, [handlers[q] EXCEPT !.step = "close"])
    <3>1. /\ handlers'[q].todo = handlers[q].todo /\ handlers'[q].step = "close"
          /\ \A p \in HandlerIds \ {q} : handlers'[p] = handlers[p]
      BY <1>1, <2>2 DEF Proceed, Handler
    <3>2. ~CanAct(r)
      BY <1>2, <1>3, <2>1, <2>2 DEF CanAct, Open, Live, RunInv, Accounted
    <3>3. ~CanAct(r)'
      BY <2>1, <3>2 DEF CanAct, Open, ActivateCall
    <3>4. \A s \in handlers[q].todo : Exists' => ~Executing(s)' /\ rows'[s].status # "none"
      BY <1>1, <2>1 DEF HandlerInv, Reconciled, Exists, Executing
    <3>5. HandlerInv(q)'
      BY <2>1, <3>1, <3>3, <3>4 DEF HandlerInv, Reconciled, Cancelling
    <3> QED BY <2>1, <3>1, <3>5, RequestAlone DEF Exists
  <2>3. CASE Proceed(q, [handlers[q] EXCEPT !.step = "reconcile", !.todo = @ \ {r}])
    <3>1. /\ handlers'[q].todo = handlers[q].todo \ {r} /\ handlers'[q].step = "reconcile"
          /\ \A p \in HandlerIds \ {q} : handlers'[p] = handlers[p]
      BY <1>1, <2>3 DEF Proceed, Handler
    <3>2. HandlerInv(q)'
      BY <1>1, <2>1, <3>1 DEF HandlerInv, Reconciled, Cancelling, Exists, Executing
    <3> QED BY <2>1, <3>1, <3>2, RequestAlone DEF Exists
  <2> QED BY <1>5, <2>2, <2>3 DEF ReconcileEvidence
<1>6. CASE ReconcileClose(q)
  <2>1. /\ handlers[q].step = "close" /\ handlers[q].todo # {}
        /\ UNCHANGED <<agent, exec, runs, late>>
        /\ r \in handlers[q].todo /\ r \in RunIds
    BY <1>1, <1>3, <1>6 DEF ReconcileClose, stored, volatile, authVars, HandlerInv, Reconciled
  <2>2. /\ handlers'[q].todo = handlers[q].todo \ {r} /\ handlers'[q].step = "reconcile"
        /\ \A p \in HandlerIds \ {q} : handlers'[p] = handlers[p]
    BY <1>1, <1>6 DEF ReconcileClose, Proceed, Handler
  <2>3. Exists => ~CanAct(r)
    BY <1>1, <2>1 DEF HandlerInv, Reconciled
  <2>4. /\ \A s \in RunIds \ {r} : rows'[s] = rows[s]
        /\ rows'[r].status = rows[r].status
        /\ rows'[r] = rows[r] \/ (r \in PendingRuns /\ rows'[r].mandate = "closed")
    BY <1>1, <1>6, <2>1 DEF ReconcileClose, Row
  <2>5. ASSUME NEW s \in RunIds, rows'[s] = rows[s] PROVE RunInv(s)'
    BY <2>1, <2>5, RunKept DEF Exists
  <2>6. ASSUME r \in PendingRuns, rows'[r].mandate = "closed" PROVE RunInv(r)'
    <3>1. RunInv(r) /\ AuthorityKept(r) /\ rows[r].mandate = "security-finalization-pending"
      BY <1>2, <2>1, <2>6 DEF PendingRuns
    <3>2. ~Executing(r) /\ rows[r].status # "none" /\ Exists /\ ~CanAct(r) /\ ~Unsettled(r)
      BY <2>3, <3>1 DEF RunInv, Accounted, RowOfAgent
    <3>3. ~CanAct(r)' /\ ~Executing(r)'
      BY <2>1, <3>1, <3>2 DEF AuthorityKept, Executing
    <3> QED BY <2>1, <2>4, <2>6, <3>1, <3>2, <3>3
            DEF RunInv, RowOfAgent, Confirmed, CancelledUnderExecution, Accounted, Executing,
                Unsettled, AuthorityKept, Exists, Unactivated
  <2>7. \A s \in RunIds : RunInv(s)'
    BY <2>1, <2>4, <2>5, <2>6
  <2>8. HandlerInv(q)'
    BY <1>1, <2>1, <2>2, <2>4 DEF HandlerInv, Reconciled, Cancelling, Exists, Executing
  <2>9. ASSUME NEW p \in HandlerIds \ {q} PROVE HandlerInv(p)'
    BY <2>1, <2>2, <2>4, HandlerKept DEF Exists, Executing
  <2> QED BY <2>7, <2>8, <2>9
<1>7. CASE RequireFinalized(q)
  <2>1. /\ handlers[q].todo = {} /\ UNCHANGED <<agent, rows, exec>>
    BY <1>7 DEF RequireFinalized, stored, volatile
  <2>2. CASE Proceed(q, [handlers[q] EXCEPT !.step = "admit"])
    <3>1. /\ handlers'[q].step = "admit"
          /\ \A p \in HandlerIds \ {q} : handlers'[p] = handlers[p]
      BY <1>1, <2>2 DEF Proceed, Handler
    <3>2. HandlerInv(q)'
      BY <3>1 DEF HandlerInv, Reconciled, Cancelling
    <3> QED BY <2>1, <3>1, <3>2, RequestAlone DEF Exists
  <2>3. CASE Done(q)
    BY <1>1, <2>1, <2>3, DoneEffect, IdleClaimsNothing, RequestAlone DEF Exists
  <2> QED BY <1>7, <2>2, <2>3 DEF RequireFinalized
<1> QED BY <1>4, <1>5, <1>6, <1>7 DEF Reconcile

(* The admission of a Run starts from a blank row that nothing executes and *)
(* nothing can act for.                                                     *)
LEMMA AdmitKeeps ==
    ASSUME ServiceInv, SidecarStep, NEW q \in HandlerIds, AdmitRun(q)
    PROVE  /\ \A r \in RunIds : RunInv(r)'
           /\ \A p \in HandlerIds : HandlerInv(p)'
<1>1. /\ ServiceTypeOK
      /\ rows \in [RunIds -> Row] /\ exec \in [RunIds -> Execution]
      /\ agent \in [status : {"ready", "busy", "stopped", "error", "deleted"},
                    ctx    : CtxIds \cup {None}]
  BY DEF ServiceInv, ServiceTypeOK
<1>2. /\ HandlerInv(q)'
      /\ \A p \in HandlerIds \ {q} : handlers'[p] = handlers[p]
  BY <1>1, DoneEffect, IdleClaimsNothing DEF AdmitRun
<1> PICK original : original = handlers[q].run
  OBVIOUS
<1> DEFINE fresh == {s \in RunIds : rows[s].status = "none"}
<1> PICK r : r = Min(fresh)
  OBVIOUS
<1>3. CASE Admissible(original) /\ fresh # {}
  <2>1. /\ r \in RunIds /\ rows[r].status = "none"
        /\ agent.status \in {"ready", "error"}
    BY <1>3, MinOfIds, NumberingAssumption DEF Admissible
  <2>2. /\ rows' = [rows EXCEPT ![r] = [NoRow EXCEPT !.status = "queued", !.retryOf = original]]
        /\ agent' = [agent EXCEPT !.status = "busy"]
        /\ exec' = [exec EXCEPT ![r] = [NoExecution EXCEPT !.phase = "start", !.ctx = agent.ctx]]
    BY <1>3 DEF AdmitRun
  <2>3. /\ \A s \in RunIds \ {r} : rows'[s] = rows[s] /\ exec'[s] = exec[s]
        /\ rows'[r].status = "queued" /\ rows'[r].mandate = "pending"
        /\ exec'[r].phase = "start" /\ exec'[r].unconfirmed = "nothing"
        /\ Exists /\ Exists'
    BY <1>1, <2>1, <2>2 DEF NoRow, NoExecution, Exists
  <2>4. /\ RunInv(r) /\ AuthorityKept(r)
    BY <2>1, AuthorityOfRun DEF ServiceInv
  <2>5. rows[r].mandate = "pending" /\ ~Executing(r)
    BY <2>1, <2>3, <2>4 DEF RunInv, RowOfAgent, NoRow
  <2>6. ~CanAct(r)
    BY <2>3, <2>4, <2>5 DEF RunInv, Accounted
  <2>7. RunInv(r)'
    BY <2>3, <2>4, <2>5, <2>6
       DEF RunInv, RowOfAgent, Confirmed, CancelledUnderExecution, Accounted, Executing,
           Unsettled, AuthorityKept, Unactivated
  <2>8. ASSUME NEW s \in RunIds \ {r} PROVE RunInv(s)'
    BY <2>3, <2>8, RunKept
  <2>9. ASSUME NEW p \in HandlerIds \ {q} PROVE HandlerInv(p)'
    BY <1>2, <2>1, <2>3, HandlerKept DEF Executing
  <2> QED BY <1>2, <2>7, <2>8, <2>9
<1>4. CASE ~(Admissible(original) /\ fresh # {})
  <2>1. UNCHANGED <<agent, rows, exec>>
    BY <1>4 DEF AdmitRun, stored
  <2> QED BY <1>2, <2>1, RequestAlone DEF Exists
<1> QED BY <1>3, <1>4

(* A stop, a deletion or a revocation on its way, and what each applies.    *)
LEMMA HandleKeeps ==
    ASSUME ServiceInv, SidecarStep, NEW q \in HandlerIds, Handle(q)
    PROVE  /\ \A r \in RunIds : RunInv(r)'
           /\ \A p \in HandlerIds : HandlerInv(p)'
<1>1. /\ HandlerInv(q) /\ ServiceTypeOK
      /\ handlers \in [HandlerIds -> Handler] /\ handlers[q] \in Handler
      /\ handlers[q].todo \in SUBSET RunIds
      /\ rows \in [RunIds -> Row]
      /\ agent \in [status : {"ready", "busy", "stopped", "error", "deleted"},
                    ctx    : CtxIds \cup {None}]
  BY DEF ServiceInv, ServiceTypeOK, Handler
<1>2. \A r \in RunIds : AuthorityKept(r) /\ RunInv(r)
  BY AuthorityOfRun DEF ServiceInv
<1>3. CASE Reconcile(q) \/ AdmitRun(q)
  BY <1>3, ReconcileKeeps, AdmitKeeps
<1>4. CASE NewWorkflow(q) \/ ApplyStop(q)
  <2>1. /\ Done(q) /\ UNCHANGED <<rows, exec>>
        /\ Exists' <=> Exists
    BY <1>1, <1>4 DEF NewWorkflow, ApplyStop, Exists, volatile
  <2> QED BY <1>1, <2>1, DoneEffect, IdleClaimsNothing, RequestAlone
<1>5. CASE CancelReturns(q) \/ WaitEnds(q)
  <2>1. /\ handlers[q].step \in {"cancel", "wait"}
        /\ UNCHANGED <<agent, rows, exec>>
    BY <1>5 DEF CancelReturns, WaitEnds, stored, volatile
  <2>2. /\ handlers'[q].step \in {"wait", "apply"}
        /\ handlers'[q].todo = handlers[q].todo
        /\ \A p \in HandlerIds \ {q} : handlers'[p] = handlers[p]
    <3>1. CASE Proceed(q, [handlers[q] EXCEPT !.step = "wait", !.run = activeExec])
      BY <1>1, <3>1 DEF Proceed, Handler
    <3>2. CASE Proceed(q, [handlers[q] EXCEPT !.step = "apply"])
      BY <1>1, <3>2 DEF Proceed, Handler
    <3> QED BY <1>5, <3>1, <3>2 DEF CancelReturns, WaitEnds
  <2>3. HandlerInv(q)'
    <3>1. \A r \in handlers[q].todo : Withdrawn(r)'
      BY <1>1, <1>2, <2>1 DEF HandlerInv, Cancelling, AuthorityKept
    <3> QED BY <2>2, <3>1 DEF HandlerInv, Reconciled, Cancelling
  <2> QED BY <2>1, <2>3, <2>2, RequestAlone DEF Exists
<1>6. CASE ApplyDelete(q)
  <2>1. /\ ~Exists' /\ UNCHANGED exec
        /\ \A r \in RunIds : rows'[r] = NoRow
        /\ HandlerInv(q)'
        /\ \A p \in HandlerIds \ {q} : handlers'[p] = handlers[p]
    BY <1>1, <1>6, DoneEffect, IdleClaimsNothing DEF ApplyDelete, Exists, volatile
  <2>2. ASSUME NEW r \in RunIds PROVE RunInv(r)'
    <3>0. rows'[r] = NoRow
      BY <2>1
    <3>1. rows'[r].status = "none" /\ rows'[r].mandate = "pending" /\ rows'[r] = NoRow
      BY <3>0 DEF NoRow
    <3>2. RunInv(r) /\ AuthorityKept(r) /\ exec'[r] = exec[r]
      BY <1>2, <2>1
    <3>3. Accounted(r)'
      BY <2>1, <3>1, <3>2 DEF RunInv, Accounted, Executing, AuthorityKept
    <3> QED BY <2>1, <3>1, <3>2, <3>3
            DEF RunInv, RowOfAgent, Confirmed, CancelledUnderExecution, Executing, Unsettled,
                AuthorityKept
  <2>3. ASSUME NEW p \in HandlerIds \ {q} PROVE HandlerInv(p)'
    BY <2>1, HandlerKept
  <2> QED BY <2>1, <2>2, <2>3
<1>7. CASE CallRevoke(q)
  <2> PICK c : c = handlers[q].ctx
    OBVIOUS
  <2> PICK affected : affected = RevokedBy(handlers[q].ctx)
    OBVIOUS
  <2> PICK unsettled : unsettled = UnsettledRuns
    OBVIOUS
  <2>1. PICK reply \in Replies :
          /\ Call([op |-> "revoke", ctx |-> c], reply)
          /\ IF reply = "ok" THEN Cancels(q, "revoke", affected, affected \cap unsettled)
             ELSE Done(q) /\ UNCHANGED <<cancelReq, exec>>
    BY <1>7 DEF CallRevoke
  <2>2. c \in CtxIds /\ UNCHANGED <<agent, rows>>
    BY <1>1, <1>7 DEF CallRevoke, HandlerInv, Cancelling, stored
  <2>3. CASE reply = "ok"
    <3>1. \A r \in affected : r \in RunIds /\ Withdrawn(r)'
      <4>1. Serve([op |-> "revoke", ctx |-> c])
        BY <2>1, <2>3 DEF Call
      <4> QED BY <2>2, <4>1, ServedRevoke DEF ServiceInv, IInv, Withdrawn
    <3>2. affected \in SUBSET RunIds /\ affected \cap unsettled \in SUBSET RunIds
          /\ "revoke" \in AllOperations
      BY <3>1 DEF AllOperations
    <3>3. /\ \A p \in HandlerIds \ {q} : handlers'[p] = handlers[p]
          /\ handlers'[q].todo = affected /\ handlers'[q].step \in {"cancel", "apply"}
          /\ \A r \in RunIds : exec'[r].phase = exec[r].phase
                               /\ exec'[r].unconfirmed = exec[r].unconfirmed
      <4>1. Cancels(q, "revoke", affected, affected \cap unsettled)
        BY <2>1, <2>3
      <4>2. ServiceTypeOK
        BY <1>1
      <4>3. PICK candidates \in SUBSET RunIds : candidates = affected \cap unsettled
        BY <3>2
      <4>4. Cancels(q, "revoke", affected, candidates)
        BY <4>1, <4>3
      <4> QED BY <3>2, <4>2, <4>4, CancelsEffect
    <3>4. HandlerInv(q)'
      BY <3>1, <3>3 DEF HandlerInv, Reconciled, Cancelling
    <3> QED BY <2>2, <3>3, <3>4, RequestAlone DEF Exists
  <2>4. CASE reply # "ok"
    <3>1. Done(q) /\ UNCHANGED exec
      BY <2>1, <2>4
    <3> QED BY <1>1, <2>2, <3>1, DoneEffect, IdleClaimsNothing, RequestAlone DEF Exists
  <2> QED BY <2>3, <2>4
<1>8. CASE ApplyRevoke(q)
  <2>1. /\ handlers[q].step = "apply" /\ UNCHANGED exec
        /\ Exists' <=> Exists
        /\ HandlerInv(q)'
        /\ \A p \in HandlerIds \ {q} : handlers'[p] = handlers[p]
    BY <1>1, <1>8, DoneEffect, IdleClaimsNothing DEF ApplyRevoke, Exists, volatile
  <2>2. ASSUME NEW r \in RunIds
        PROVE  \/ rows'[r] = rows[r]
               \/ /\ r \in handlers[q].todo /\ rows[r].status # "none"
                  /\ rows'[r].mandate = "revoked" /\ rows'[r].ctx = rows[r].ctx
                  /\ rows'[r].status = IF Unsettled(r) THEN "cancelled" ELSE rows[r].status
    <3>1. rows[r] \in Row
      BY DEF ServiceInv, ServiceTypeOK
    <3>2. \/ rows'[r] = rows[r]
          \/ /\ r \in handlers[q].todo /\ rows[r].status # "none"
             /\ rows'[r] = [rows[r] EXCEPT !.mandate = "revoked",
                               !.status = IF Unsettled(r) THEN "cancelled" ELSE @]
      BY <1>8 DEF ApplyRevoke
    <3> QED BY <3>1, <3>2 DEF Row
  <2>3. ASSUME NEW r \in RunIds, rows'[r] = rows[r] PROVE RunInv(r)'
    BY <2>1, <2>3, RunKept
  <2>4. ASSUME NEW r \in handlers[q].todo, rows[r].status # "none",
               rows'[r].mandate = "revoked", rows'[r].ctx = rows[r].ctx,
               rows'[r].status = IF Unsettled(r) THEN "cancelled" ELSE rows[r].status
        PROVE  RunInv(r)'
    <3>1. r \in RunIds /\ Withdrawn(r) /\ RunInv(r) /\ AuthorityKept(r)
      BY <1>1, <1>2, <2>1 DEF HandlerInv, Cancelling
    <3>2. ~CanAct(r) /\ ~CanAct(r)' /\ ~Open(r)' /\ Withdrawn(r)'
      BY <3>1 DEF AuthorityKept
    <3> QED BY <2>1, <2>4, <3>1, <3>2
            DEF RunInv, RowOfAgent, Confirmed, CancelledUnderExecution, Accounted, Executing,
                Unsettled, AuthorityKept, Exists
  <2>5. \A r \in RunIds : rows'[r].status = "none" => rows[r].status = "none"
    BY <2>2
  <2>6. ASSUME NEW p \in HandlerIds \ {q} PROVE HandlerInv(p)'
    BY <2>1, <2>5, HandlerKept DEF Executing
  <2> QED BY <2>1, <2>2, <2>3, <2>4, <2>6
<1> QED BY <1>3, <1>4, <1>5, <1>6, <1>7, <1>8 DEF Handle

(* A new request.                                                           *)
LEMMA OperatorKeeps ==
    ASSUME ServiceInv, SidecarStep, NEW q \in HandlerIds, Operator(q)
    PROVE  /\ \A r \in RunIds : RunInv(r)'
           /\ \A p \in HandlerIds : HandlerInv(p)'
<1>1. ServiceTypeOK /\ handlers \in [HandlerIds -> Handler]
  BY DEF ServiceInv, ServiceTypeOK
<1>2. ASSUME NEW kind \in Operations, NEW original \in RunIds \cup {None},
             Starts(q, kind, original)
      PROVE  /\ \A r \in RunIds : RunInv(r)'
             /\ \A p \in HandlerIds : HandlerInv(p)'
  <2>1. /\ handlers'[q].step = "reconcile" /\ handlers'[q].todo = PendingRuns
        /\ \A p \in HandlerIds \ {q} : handlers'[p] = handlers[p]
        /\ UNCHANGED <<agent, rows, exec>>
    BY <1>1, <1>2 DEF Starts, Proceed, Idle, stored, volatile
  <2>2. \A r \in PendingRuns : ~Executing(r)' /\ rows'[r].status # "none"
    BY <2>1 DEF PendingRuns, ServiceInv, RunInv, Accounted, Executing
  <2>3. HandlerInv(q)'
    BY <2>1, <2>2 DEF HandlerInv, Reconciled, Cancelling
  <2> QED BY <2>1, <2>3, RequestAlone DEF Exists
<1>3. ASSUME NEW kind \in Operations, StopOrDelete(q, kind)
      PROVE  /\ \A r \in RunIds : RunInv(r)'
             /\ \A p \in HandlerIds : HandlerInv(p)'
  <2>1. kind \in AllOperations /\ UnsettledRuns \in SUBSET RunIds /\ {} \in SUBSET RunIds
    BY OperationAssumption DEF UnsettledRuns
  <2>2. Cancels(q, kind, {}, UnsettledRuns) /\ UNCHANGED <<agent, rows>>
    BY <1>3 DEF StopOrDelete, stored
  <2>3. /\ \A p \in HandlerIds \ {q} : handlers'[p] = handlers[p]
        /\ handlers'[q].todo = {} /\ handlers'[q].step \in {"cancel", "apply"}
        /\ \A r \in RunIds : exec'[r].phase = exec[r].phase
                             /\ exec'[r].unconfirmed = exec[r].unconfirmed
    <3>1. PICK todo \in SUBSET RunIds : todo = {}
      BY <2>1
    <3>2. PICK candidates \in SUBSET RunIds : candidates = UnsettledRuns
      BY <2>1
    <3>3. ServiceTypeOK /\ Cancels(q, kind, todo, candidates)
      BY <1>1, <2>2, <3>1, <3>2
    <3>4. kind \in AllOperations
      BY <2>1
    <3>5. /\ \A p \in HandlerIds \ {q} : handlers'[p] = handlers[p]
          /\ handlers'[q].todo = todo /\ handlers'[q].step \in {"cancel", "apply"}
          /\ \A r \in RunIds : exec'[r].phase = exec[r].phase
                               /\ exec'[r].unconfirmed = exec[r].unconfirmed
      BY <3>3, <3>4, CancelsEffect
    <3> QED BY <3>1, <3>5
  <2>4. HandlerInv(q)'
    BY <2>3 DEF HandlerInv, Reconciled, Cancelling
  <2> QED BY <2>2, <2>3, <2>4, RequestAlone DEF Exists
<1>4. ASSUME NEW c \in CtxIds, StartRevoke(q, c)
      PROVE  /\ \A r \in RunIds : RunInv(r)'
             /\ \A p \in HandlerIds : HandlerInv(p)'
  <2>1. /\ handlers'[q].step = "call" /\ handlers'[q].ctx = c
        /\ \A p \in HandlerIds \ {q} : handlers'[p] = handlers[p]
        /\ UNCHANGED <<agent, rows, exec>>
    BY <1>1, <1>4 DEF StartRevoke, Proceed, Idle, stored, volatile
  <2>2. HandlerInv(q)'
    BY <2>1 DEF HandlerInv, Reconciled, Cancelling
  <2> QED BY <2>1, <2>2, RequestAlone DEF Exists
<1> QED BY <1>2, <1>3, <1>4 DEF Operator

-----------------------------------------------------------------------------
(* Restarts, and the steps that nobody asked for.                          *)

(* A step that leaves rows, executions and requests alone keeps what is     *)
(* claimed of them.                                                         *)
LEMMA NothingMoves ==
    ASSUME ServiceInv, SidecarStep, UNCHANGED <<rows, exec, handlers>>, Exists' <=> Exists
    PROVE  /\ \A r \in RunIds : RunInv(r)'
           /\ \A p \in HandlerIds : HandlerInv(p)'
<1>1. ASSUME NEW r \in RunIds PROVE RunInv(r)'
  BY <1>1, RunKept
<1>2. ASSUME NEW p \in HandlerIds PROVE HandlerInv(p)'
  BY <1>2, HandlerKept DEF Executing
<1> QED BY <1>1, <1>2

(* A restart of the control plane ends every execution; a Run that may      *)
(* still act had its context stored, and is recorded as pending.            *)
LEMMA NodeRestartKeeps ==
    ASSUME ServiceInv, SidecarStep, NodeRestart
    PROVE  /\ \A r \in RunIds : RunInv(r)'
           /\ \A p \in HandlerIds : HandlerInv(p)'
<1>1. /\ rows \in [RunIds -> Row]
      /\ agent \in [status : {"ready", "busy", "stopped", "error", "deleted"},
                    ctx    : CtxIds \cup {None}]
      /\ UNCHANGED <<runs, late>>
  BY DEF ServiceInv, ServiceTypeOK, NodeRestart, authVars
<1>2. Exists' <=> Exists
  BY <1>1 DEF NodeRestart, Exists
<1>3. ASSUME NEW r \in RunIds PROVE RunInv(r)'
  <2>1. /\ RunInv(r) /\ AuthorityKept(r)
        /\ CanAct(r)' <=> CanAct(r)
        /\ Open(r)' <=> Open(r)
    BY <1>1, <1>3, AuthorityOfRun DEF ServiceInv, CanAct, Open, ActivateCall
  <2>2. /\ exec'[r] = NoExecution
        /\ rows'[r] = Restarted(r)
    BY <1>3 DEF NodeRestart
  <2>3. exec'[r].phase = "none" /\ exec'[r].unconfirmed = "nothing"
    BY <2>2 DEF NoExecution
  <2>4. CASE Unsettled(r)
    <3>1. /\ rows'[r].status = "cancelled"
          /\ rows'[r].mandate = IF rows[r].ctx # None
                                THEN "security-finalization-pending" ELSE "closed"
      BY <1>1, <1>3, <2>2, <2>4 DEF Restarted, Row
    <3>2. Exists /\ Executing(r)
      BY <2>1, <2>4 DEF RunInv, RowOfAgent, Unsettled
    <3>3. CanAct(r) => rows[r].ctx # None
      BY <2>1, <3>2 DEF RunInv, Accounted, Executing
    <3> QED BY <1>1, <1>2, <2>1, <2>3, <3>1, <3>2, <3>3
            DEF RunInv, RowOfAgent, Confirmed, CancelledUnderExecution, Accounted, Executing,
                Unsettled, AuthorityKept, Unactivated
  <2>5. CASE ~Unsettled(r)
    <3>1. rows'[r] = rows[r]
      BY <2>2, <2>5 DEF Restarted
    <3>2. Exists /\ CanAct(r) => ~Executing(r)
      BY <2>1, <2>5 DEF RunInv, Accounted, AuthorityKept
    <3> QED BY <1>1, <1>2, <2>1, <2>3, <2>5, <3>1, <3>2
            DEF RunInv, RowOfAgent, Confirmed, CancelledUnderExecution, Accounted, Executing,
                Unsettled, AuthorityKept, Unactivated
  <2> QED BY <2>4, <2>5
<1>4. ASSUME NEW p \in HandlerIds PROVE HandlerInv(p)'
  <2>1. CASE handlers'[p] = Idle
    BY <1>4, <2>1, IdleClaimsNothing
  <2>2. CASE handlers'[p] = [Idle EXCEPT !.kind = "initialize", !.step = "reconcile",
                        !.todo = {r \in RunIds :
                                    rows'[r].mandate = "security-finalization-pending"}]
    <3>1. /\ handlers'[p].step = "reconcile"
          /\ handlers'[p].todo = {r \in RunIds :
                                    rows'[r].mandate = "security-finalization-pending"}
      BY <2>2 DEF Idle
    <3>2. \A r \in handlers'[p].todo : ~Executing(r)' /\ rows'[r].status # "none"
      BY <1>3, <3>1 DEF RunInv, Accounted
    <3> QED BY <3>1, <3>2 DEF HandlerInv, Reconciled, Cancelling
  <2> QED BY <1>4, <2>1, <2>2 DEF NodeRestart
<1> QED BY <1>3, <1>4

-----------------------------------------------------------------------------
(* The invariant is inductive.                                             *)

(* One more row at most is written by a step, so the rows stay bounded.     *)
LEMMA OneMoreRow ==
    ASSUME RowsBounded, NEW m \in RunIds,
           \A r \in RunIds \ {m} : rows[r].status = "none" => rows'[r].status = "none"
    PROVE  RowsBounded'
<1>1. m \in Nat /\ RunIds \subseteq Nat
  BY NumberingAssumption
<1>2. PICK n \in Nat : \A r \in RunIds : rows[r].status # "none" => r <= n
  BY DEF RowsBounded
<1>3. PICK k \in Nat : m <= k /\ n <= k
  BY <1>1
<1>4. ASSUME NEW r \in RunIds, rows'[r].status # "none" PROVE r <= k
  <2>1. r \in Nat /\ (r = m \/ r <= n)
    BY <1>1, <1>2, <1>4
  <2> QED BY <1>1, <1>3, <2>1
<1> QED BY <1>4 DEF RowsBounded

LEMMA NoMoreRows ==
    ASSUME RowsBounded,
           \A r \in RunIds : rows[r].status = "none" => rows'[r].status = "none"
    PROVE  RowsBounded'
BY DEF RowsBounded

(* Rows are written one at a time.                                          *)
LEMMA RowsStayBounded ==
    ASSUME ServiceInv, [ServiceNext]_vars
    PROVE  RowsBounded'
<1>1. /\ RowsBounded /\ rows \in [RunIds -> Row] /\ ServiceTypeOK
  BY DEF ServiceInv, ServiceTypeOK
<1>2. CASE UNCHANGED rows
  BY <1>1, <1>2, NoMoreRows
<1>3. ASSUME NEW r \in RunIds, ExecuteRun(r) PROVE RowsBounded'
  BY <1>1, <1>3, OthersUntouched, OneMoreRow
<1>4. ASSUME NEW q \in HandlerIds, AdmitRun(q) PROVE RowsBounded'
  <2> DEFINE fresh == {s \in RunIds : rows[s].status = "none"}
  <2>1. CASE fresh # {}
    <3> PICK m : m = Min(fresh)
      OBVIOUS
    <3>1. m \in RunIds
      BY <2>1, MinOfIds, NumberingAssumption
    <3>2. \A r \in RunIds \ {m} : rows'[r] = rows[r]
      BY <1>1, <1>4, <3>1 DEF AdmitRun, stored
    <3> QED BY <1>1, <3>1, <3>2, OneMoreRow
  <2>2. CASE fresh = {}
    BY <1>2, <1>4, <2>2 DEF AdmitRun, stored
  <2> QED BY <2>1, <2>2
<1>5. ASSUME NEW q \in HandlerIds, ReconcileClose(q) \/ ApplyDelete(q) \/ ApplyRevoke(q)
      PROVE  RowsBounded'
  <2>1. ASSUME NEW r \in RunIds, rows[r].status = "none" PROVE rows'[r].status = "none"
    <3>1. CASE ReconcileClose(q)
      BY <1>1, <2>1, <3>1 DEF ReconcileClose, PendingRuns, Row
    <3>2. CASE ApplyDelete(q)
      <4>1. rows'[r] = NoRow
        BY <2>1, <3>2 DEF ApplyDelete
      <4> QED BY <4>1 DEF NoRow
    <3>3. CASE ApplyRevoke(q)
      <4>1. rows'[r] = rows[r]
        BY <1>1, <2>1, <3>3 DEF ApplyRevoke
      <4> QED BY <4>1, <2>1
    <3> QED BY <1>5, <3>1, <3>2, <3>3
  <2> QED BY <1>1, <2>1, NoMoreRows
<1>6. CASE NodeRestart
  <2>1. ASSUME NEW r \in RunIds, rows[r].status = "none" PROVE rows'[r].status = "none"
    <3>1. rows'[r] = rows[r]
      BY <1>6, <2>1 DEF NodeRestart, Restarted, Unsettled
    <3> QED BY <2>1, <3>1
  <2> QED BY <1>1, <2>1, NoMoreRows
<1>7. ASSUME NEW q \in HandlerIds, Handle(q), ~AdmitRun(q), ~ReconcileClose(q),
             ~ApplyDelete(q), ~ApplyRevoke(q)
      PROVE  UNCHANGED rows
  BY <1>7 DEF Handle, Reconcile, ReconcileFinish, ReconcileEvidence, RequireFinalized,
              NewWorkflow, CancelReturns, WaitEnds, ApplyStop, CallRevoke, stored
<1>8. ASSUME NEW q \in HandlerIds, Operator(q) PROVE UNCHANGED rows
  BY <1>8 DEF Operator, Starts, StopOrDelete, StartRevoke, stored
<1>9. ASSUME StartAgent \/ SidecarRestart \/ (\E c \in late : LateCallArrives(c))
             \/ (Tick /\ UNCHANGED serviceVars) \/ UNCHANGED vars
      PROVE  UNCHANGED rows
  BY <1>9 DEF StartAgent, SidecarRestart, LateCallArrives, serviceVars, vars, stored
<1> QED BY <1>2, <1>3, <1>4, <1>5, <1>6, <1>7, <1>8, <1>9 DEF ServiceNext

(* The initial state satisfies the invariant.                               *)
LEMMA ServiceInvInit == ServiceInit => ServiceInv
<1> SUFFICES ASSUME ServiceInit PROVE ServiceInv
  OBVIOUS
<1>1. IInv /\ ServiceTypeOK
  BY InitInv, ServiceTypeInit DEF ServiceInit
<1>2. \A r \in RunIds : /\ rows[r] = NoRow /\ exec[r] = NoExecution
                        /\ runs[r].state = "NONE"
  BY DEF ServiceInit, Init, NoRun
<1>3. Exists /\ late = {} /\ \A q \in HandlerIds : handlers[q] = Idle
  BY DEF ServiceInit, Exists
<1>4. late \subseteq ControlCall
  BY <1>3
<1>5. RowsBounded
  <2>1. \A r \in RunIds : rows[r].status = "none"
    BY <1>2 DEF NoRow
  <2> QED BY <2>1 DEF RowsBounded
<1>6. ASSUME NEW r \in RunIds PROVE RunInv(r)
  <2>0. rows[r] = NoRow /\ exec[r] = NoExecution /\ runs[r].state = "NONE"
    BY <1>2
  <2>1. /\ rows[r] = NoRow /\ rows[r].status = "none" /\ rows[r].mandate = "pending"
        /\ exec[r].phase = "none" /\ exec[r].unconfirmed = "nothing"
        /\ ~CanAct(r) /\ ActivateCall(r) \notin late
    BY <1>3, <2>0 DEF NoRow, NoExecution, CanAct
  <2> QED BY <1>3, <2>1
          DEF RunInv, RowOfAgent, Confirmed, CancelledUnderExecution, Accounted, Executing,
              Unsettled, Unactivated
<1>7. ASSUME NEW q \in HandlerIds PROVE HandlerInv(q)
  BY <1>3, <1>7 DEF HandlerInv, Reconciled, Cancelling, Idle
<1> QED BY <1>1, <1>4, <1>5, <1>6, <1>7 DEF ServiceInv

(* Every step keeps it.                                                     *)
LEMMA ServiceInvStep == ServiceInv /\ [ServiceNext]_vars => ServiceInv'
<1> SUFFICES ASSUME ServiceInv, [ServiceNext]_vars PROVE ServiceInv'
  OBVIOUS
<1>1. SidecarStep
  BY EveryStepIsSidecarStep
<1>2. IInv'
  BY <1>1, IInvStep DEF SidecarStep, ServiceInv
<1>3. ServiceTypeOK' /\ RowsBounded' /\ late' \subseteq ControlCall
  BY <1>1, ServiceTypeStep, RowsStayBounded DEF SidecarStep
<1>4. ASSUME NEW r \in RunIds, ExecuteRun(r)
      PROVE  (\A s \in RunIds : RunInv(s)') /\ (\A p \in HandlerIds : HandlerInv(p)')
  BY <1>1, <1>4, ExecutionKeepsRuns, ExecutionKeepsHandlers
<1>5. ASSUME NEW q \in HandlerIds, Handle(q) \/ Operator(q)
      PROVE  (\A s \in RunIds : RunInv(s)') /\ (\A p \in HandlerIds : HandlerInv(p)')
  BY <1>1, <1>5, HandleKeeps, OperatorKeeps
<1>6. ASSUME StartAgent
      PROVE  (\A s \in RunIds : RunInv(s)') /\ (\A p \in HandlerIds : HandlerInv(p)')
  <2>1. UNCHANGED <<rows, exec, handlers>> /\ (Exists' <=> Exists)
    BY <1>6 DEF StartAgent, volatile, Exists, ServiceInv, ServiceTypeOK
  <2> QED BY <1>1, <2>1, NothingMoves
<1>7. ASSUME NodeRestart
      PROVE  (\A s \in RunIds : RunInv(s)') /\ (\A p \in HandlerIds : HandlerInv(p)')
  BY <1>1, <1>7, NodeRestartKeeps
<1>8. ASSUME SidecarRestart \/ (\E c \in late : LateCallArrives(c))
             \/ (Tick /\ UNCHANGED serviceVars) \/ UNCHANGED vars
      PROVE  (\A s \in RunIds : RunInv(s)') /\ (\A p \in HandlerIds : HandlerInv(p)')
  <2>1. UNCHANGED <<rows, exec, handlers>> /\ (Exists' <=> Exists)
    BY <1>8 DEF SidecarRestart, LateCallArrives, serviceVars, vars, stored, volatile, Exists
  <2> QED BY <1>1, <2>1, NothingMoves
<1>9. (\A s \in RunIds : RunInv(s)') /\ (\A p \in HandlerIds : HandlerInv(p)')
  BY <1>4, <1>5, <1>6, <1>7, <1>8 DEF ServiceNext
<1> QED BY <1>2, <1>3, <1>9 DEF ServiceInv

-----------------------------------------------------------------------------
(* How each kind of step moves the Agent and its executions.               *)

AgentType == [status : {"ready", "busy", "stopped", "error", "deleted"},
              ctx    : CtxIds \cup {None}]

(* An execution leaves the Agent's status alone until it ends, and then     *)
(* frees a busy Agent; only what it records gives the Agent a context.      *)
LEMMA ExecutionShape ==
    ASSUME ServiceInv, NEW r \in RunIds, ExecuteRun(r)
    PROVE  /\ Executing(r)
           /\ Executing(r)' => agent'.status = agent.status
           /\ ~Executing(r)' => agent'.status # "busy"
           /\ agent'.ctx = agent.ctx \/ ExecRecordContext(r)
<1>1. /\ agent \in AgentType /\ ServiceTypeOK
      /\ exec \in [RunIds -> Execution]
      /\ RowOfAgent(r)
  BY DEF ServiceInv, ServiceTypeOK, AgentType, RunInv
<1>2. Executing(r)
  BY DEF ExecuteRun, ExecStart, ExecPrepare, ExecRecordContext, ExecActivate, ExecMarkRunning,
         ExecLaunch, ExecSpawn, ExecRunnerReturns, ExecMarkFinalizing, ExecFinish,
         ExecInvalidate, ExecComplete, ExecSettle, Executing
<1>3. CASE ExecComplete(r)
  <2>1. exec'[r].phase = "none"
    BY <1>1, <1>3, EndEffect DEF ExecComplete, NoExecution
  <2>2. agent'.status # "busy" /\ agent'.ctx = agent.ctx
    <3>1. CASE StoredTogether(r)
      BY <1>1, <1>3, <3>1 DEF ExecComplete, AgentType
    <3>2. CASE ~StoredTogether(r)
      BY <1>1, <1>2, <1>3, <3>2 DEF ExecComplete, stored, StoredTogether, RowOfAgent, Exists
    <3> QED BY <3>1, <3>2
  <2> QED BY <1>2, <2>1, <2>2 DEF Executing
<1>4. CASE ExecSettle(r)
  <2>1. exec'[r].phase = "none"
    BY <1>1, <1>4, EndEffect DEF ExecSettle, NoExecution
  <2>2. agent'.status # "busy" /\ agent'.ctx = agent.ctx
    BY <1>1, <1>4 DEF ExecSettle, SettledAgent, AgentType
  <2> QED BY <1>2, <2>1, <2>2 DEF Executing
<1>5. CASE ExecRecordContext(r)
  <2>1. exec'[r].phase = "activate"
    BY <1>1, <1>5, MoveEffect DEF ExecRecordContext, Phases
  <2>2. agent'.status = agent.status
    BY <1>1, <1>5 DEF ExecRecordContext, stored, AgentType
  <2> QED BY <1>2, <1>5, <2>1, <2>2 DEF Executing
<1>6. ASSUME ExecuteRun(r), ~ExecComplete(r), ~ExecSettle(r), ~ExecRecordContext(r)
      PROVE  agent' = agent /\ Executing(r)'
  <2>1. agent' = agent
    BY <1>6 DEF ExecuteRun, ExecStart, ExecPrepare, ExecActivate, ExecMarkRunning, ExecLaunch,
             ExecSpawn, ExecRunnerReturns, ExecMarkFinalizing, ExecFinish, ExecInvalidate, stored
  <2>2. ASSUME NEW phase \in Phases \ {"none"}, MoveTo(r, phase) PROVE Executing(r)'
    BY <1>1, <2>2, MoveEffect DEF Executing
  <2>3. ASSUME NEW prepared \in BOOLEAN, Throw(r, prepared) PROVE Executing(r)'
    BY <1>1, <2>3, ThrowEffect DEF Executing
  <2>4. CASE ExecStart(r) \/ ExecPrepare(r) \/ ExecActivate(r) \/ ExecMarkRunning(r)
    BY <2>1, <2>2, <2>3, <2>4 DEF ExecStart, ExecPrepare, ExecActivate, ExecMarkRunning, Phases
  <2>5. CASE ExecLaunch(r) \/ ExecSpawn(r) \/ ExecRunnerReturns(r)
    BY <2>1, <2>2, <2>3, <2>5 DEF ExecLaunch, ExecSpawn, ExecRunnerReturns, RunnerReturns, Phases
  <2>6. CASE ExecMarkFinalizing(r)
    BY <1>1, <2>1, <2>6 DEF ExecMarkFinalizing, Execution, Executing
  <2>7. CASE ExecFinish(r)
    <3>1. CASE ThrowUnconfirmed(r)
      BY <1>1, <2>1, <3>1, UnconfirmedEffect DEF Executing
    <3>2. CASE TriesLeft(exec[r].tries) /\ TryAgain(r)
      BY <1>1, <1>2, <2>1, <3>2, TryAgainEffect DEF Executing
    <3> QED BY <2>1, <2>2, <2>7, <3>1, <3>2 DEF ExecFinish, Phases
  <2>8. CASE ExecInvalidate(r)
    <3>1. CASE exec' = [exec EXCEPT ![r].phase = "settle", ![r].unconfirmed = "invalidation"]
      BY <1>1, <2>1, <3>1 DEF Executing, Execution
    <3>2. CASE TriesLeft(exec[r].tries) /\ TryAgain(r)
      BY <1>1, <1>2, <2>1, <3>2, TryAgainEffect DEF Executing
    <3> QED BY <2>1, <2>2, <2>8, <3>1, <3>2 DEF ExecInvalidate, Phases
  <2> QED BY <1>6, <2>1, <2>4, <2>5, <2>6, <2>7, <2>8 DEF ExecuteRun
<1> QED BY <1>2, <1>3, <1>4, <1>5, <1>6

(* A request moves no execution, and only an admission makes an Agent busy. *)
(* Short of a stop or a revocation, a busy Agent stays busy or is deleted.  *)
LEMMA RequestShape ==
    ASSUME ServiceInv, NEW q \in HandlerIds, Handle(q) \/ Operator(q), ~AdmitRun(q)
    PROVE  /\ \A r \in RunIds : exec'[r].phase = exec[r].phase /\ exec'[r].ctx = exec[r].ctx
           /\ agent'.status = "busy" => agent.status = "busy"
           /\ agent'.ctx \in {agent.ctx, None}
           /\ agent.status = "deleted" => agent'.status = "deleted"
           /\ agent.status = "busy" /\ handlers[q].kind \notin {"stop", "revoke"} =>
                agent'.status \in {"busy", "deleted"}
<1>1. agent \in AgentType /\ ServiceTypeOK
  BY DEF ServiceInv, ServiceTypeOK, AgentType
<1>2. ASSUME NEW kind \in AllOperations, NEW todo \in SUBSET RunIds,
             NEW candidates \in SUBSET RunIds, Cancels(q, kind, todo, candidates)
      PROVE  \A r \in RunIds : exec'[r].phase = exec[r].phase /\ exec'[r].ctx = exec[r].ctx
  BY <1>1, <1>2, CancelsEffect
<1>3. CASE CallRevoke(q)
  <2> PICK affected : affected = RevokedBy(handlers[q].ctx)
    OBVIOUS
  <2> PICK unsettled : unsettled = UnsettledRuns
    OBVIOUS
  <2>1. affected \in SUBSET RunIds /\ affected \cap unsettled \in SUBSET RunIds
    BY DEF RevokedBy, Affected, RunsOf
  <2>2. /\ UNCHANGED agent
        /\ Cancels(q, "revoke", affected, affected \cap unsettled) \/ UNCHANGED exec
    BY <1>3 DEF CallRevoke, stored
  <2> QED BY <1>2, <2>1, <2>2 DEF AllOperations
<1>4. ASSUME NEW kind \in Operations, StopOrDelete(q, kind)
      PROVE  /\ agent' = agent
             /\ \A r \in RunIds : exec'[r].phase = exec[r].phase /\ exec'[r].ctx = exec[r].ctx
  <2>1. kind \in AllOperations /\ {} \in SUBSET RunIds /\ UnsettledRuns \in SUBSET RunIds
    BY OperationAssumption DEF UnsettledRuns
  <2> QED BY <1>2, <1>4, <2>1 DEF StopOrDelete, stored
<1>5. CASE Reconcile(q) \/ CancelReturns(q) \/ WaitEnds(q)
           \/ (\E kind \in Operations, original \in RunIds \cup {None} : Starts(q, kind, original))
           \/ (\E c \in CtxIds : StartRevoke(q, c))
  <2>1. UNCHANGED <<agent, exec>>
    BY <1>5 DEF Reconcile, ReconcileFinish, ReconcileEvidence, ReconcileClose, RequireFinalized,
                CancelReturns, WaitEnds, Starts, StartRevoke, stored, volatile
  <2> QED BY <2>1
<1>6. CASE NewWorkflow(q)
  BY <1>1, <1>6 DEF NewWorkflow, AgentType, Exists, volatile
<1>7. CASE ApplyStop(q)
  BY <1>1, <1>7 DEF ApplyStop, AgentType, Exists, volatile
<1>8. CASE ApplyDelete(q)
  BY <1>1, <1>8 DEF ApplyDelete, AgentType, Exists, volatile
<1>9. CASE ApplyRevoke(q)
  BY <1>1, <1>9 DEF ApplyRevoke, AgentType, Exists, volatile
<1> QED BY <1>3, <1>4, <1>5, <1>6, <1>7, <1>8, <1>9 DEF Handle, Operator

(* An admission starts one execution, in the Agent's context, and makes a   *)
(* ready Agent busy; or it changes nothing.                                 *)
Admission(r) ==
    /\ agent.status \in {"ready", "error"}
    /\ agent'.status = "busy" /\ agent'.ctx = agent.ctx
    /\ exec'[r].phase = "start" /\ exec'[r].ctx = agent.ctx
    /\ \A s \in RunIds \ {r} : exec'[s] = exec[s] /\ rows'[s] = rows[s]
    /\ rows[r].status = "none"
LEMMA AdmissionShape ==
    ASSUME ServiceInv, NEW q \in HandlerIds, AdmitRun(q)
    PROVE  UNCHANGED <<agent, rows, exec>> \/ \E r \in RunIds : Admission(r)
<1>1. /\ rows \in [RunIds -> Row] /\ exec \in [RunIds -> Execution] /\ agent \in AgentType
  BY DEF ServiceInv, ServiceTypeOK, AgentType
<1> PICK original : original = handlers[q].run
  OBVIOUS
<1> DEFINE fresh == {s \in RunIds : rows[s].status = "none"}
<1>2. CASE Admissible(original) /\ fresh # {}
  <2> PICK r : r = Min(fresh)
    OBVIOUS
  <2>1. r \in RunIds /\ rows[r].status = "none" /\ agent.status \in {"ready", "error"}
    BY <1>2, MinOfIds, NumberingAssumption DEF Admissible
  <2>2. /\ rows' = [rows EXCEPT ![r] = [NoRow EXCEPT !.status = "queued", !.retryOf = original]]
        /\ agent' = [agent EXCEPT !.status = "busy"]
        /\ exec' = [exec EXCEPT ![r] = [NoExecution EXCEPT !.phase = "start", !.ctx = agent.ctx]]
    BY <1>2 DEF AdmitRun
  <2> QED BY <1>1, <2>1, <2>2 DEF Admission, AgentType, NoExecution
<1>3. CASE ~(Admissible(original) /\ fresh # {})
  BY <1>3 DEF AdmitRun, stored
<1> QED BY <1>2, <1>3

(* What is left: restarts, time, late calls and startAgent.                 *)
Background ==
    \/ StartAgent \/ NodeRestart \/ SidecarRestart \/ (\E c \in late : LateCallArrives(c))
    \/ (Tick /\ UNCHANGED serviceVars) \/ UNCHANGED vars
LEMMA BackgroundShape ==
    ASSUME ServiceInv, Background
    PROVE  /\ agent'.ctx = agent.ctx
           /\ \/ exec' = exec /\ agent'.status = agent.status
              \/ exec' = exec /\ agent.status \notin {"busy", "deleted"} /\ agent'.status = "ready"
              \/ /\ \A r \in RunIds : exec'[r] = NoExecution
                 /\ agent'.status # "busy"
<1>1. agent \in AgentType
  BY DEF ServiceInv, ServiceTypeOK, AgentType
<1>2. CASE StartAgent
  BY <1>1, <1>2 DEF StartAgent, AgentType, Exists, volatile
<1>3. CASE NodeRestart
  BY <1>1, <1>3 DEF NodeRestart, AgentType
<1>4. ASSUME SidecarRestart \/ (\E c \in late : LateCallArrives(c))
             \/ (Tick /\ UNCHANGED serviceVars) \/ UNCHANGED vars
      PROVE  UNCHANGED <<agent, exec>>
  BY <1>4 DEF SidecarRestart, LateCallArrives, serviceVars, vars, stored, volatile
<1> QED BY <1>2, <1>3, <1>4 DEF Background

(* These are all the steps there are.                                       *)
LEMMA StepKinds ==
    ASSUME [ServiceNext]_vars
    PROVE  \/ \E r \in RunIds : ExecuteRun(r)
           \/ \E q \in HandlerIds : AdmitRun(q)
           \/ \E q \in HandlerIds : (Handle(q) \/ Operator(q)) /\ ~AdmitRun(q)
           \/ Background
BY DEF ServiceNext, Background

-----------------------------------------------------------------------------
(* Theorems.                                                               *)

(* The inductive invariant holds in every reachable state, whatever the     *)
(* numbers of Runs, requests, attempts, restarts and late calls.            *)
THEOREM ServiceInductiveInvariant == ServiceSpec => []ServiceInv
BY ServiceInvInit, ServiceInvStep, PTL DEF ServiceSpec

(* Rows, executions and requests stay well typed through every handler of   *)
(* both processes.                                                          *)
THEOREM ServiceTypeCorrect == ServiceSpec => []ServiceTypeOK
<1>1. ServiceInv => ServiceTypeOK
  BY DEF ServiceInv
<1> QED BY <1>1, ServiceInductiveInvariant, PTL

(* The control plane only drives the sidecar through its handlers, so what  *)
(* is proved of the sidecar holds under it: timeouts, replays, calls that   *)
(* arrive late and the restarts of either process included.                 *)
THEOREM ServiceImplementsAuthority == ServiceSpec => Spec
<1>1. ServiceInit => Init
  BY DEF ServiceInit
<1>2. ServiceInv /\ [ServiceNext]_vars => [AuthorityNext]_authVars
  BY EveryStepIsSidecarStep DEF SidecarStep
<1> QED BY <1>1, <1>2, ServiceInductiveInvariant, PTL DEF ServiceSpec, Spec

(* No Run is published as completed before the sidecar has confirmed it.    *)
THEOREM CompletionsAreConfirmed == ServiceSpec => []CompletionIsConfirmed
<1>1. ServiceInv => CompletionIsConfirmed
  BY DEF ServiceInv, RunInv, Confirmed, CompletionIsConfirmed
<1> QED BY <1>1, ServiceInductiveInvariant, PTL

(* A usable capability is always on record: its Run executes, or its row is *)
(* pending, and it is never shown closed or revoked.                        *)
THEOREM AuthorityAccounted == ServiceSpec => []AuthorityIsAccountedFor
<1>1. ASSUME ServiceInv, NEW r \in RunIds, Exists, runs[r].state = "ACTIVE"
      PROVE  /\ rows[r].mandate \notin {"closed", "revoked"}
             /\ ~Executing(r) => rows[r].mandate = "security-finalization-pending"
  <2>1. RunInv(r) /\ Open(r) /\ CanAct(r)
    BY <1>1 DEF ServiceInv, Open, CanAct
  <2> QED BY <1>1, <2>1 DEF RunInv, Accounted
<1>2. ServiceInv => AuthorityIsAccountedFor
  BY <1>1 DEF AuthorityIsAccountedFor
<1> QED BY <1>2, ServiceInductiveInvariant, PTL

(* Who writes the status of a stored row: its own execution, or a           *)
(* revocation or a restart that cancels it while it is unsettled.           *)
LEMMA WhoWritesStatus ==
    ASSUME ServiceInv, [ServiceNext]_vars, NEW r \in RunIds, rows[r].status # "none"
    PROVE  \/ rows'[r].status \in {rows[r].status, "none"}
           \/ Unsettled(r) /\ rows'[r].status = "cancelled"
           \/ ExecuteRun(r)
<1>1. rows \in [RunIds -> Row]
  BY DEF ServiceInv, ServiceTypeOK
<1>2. ASSUME NEW s \in RunIds \ {r}, ExecuteRun(s) PROVE rows'[r] = rows[r]
  BY <1>2, OthersUntouched
<1>3. ASSUME NEW q \in HandlerIds, AdmitRun(q) PROVE rows'[r] = rows[r]
  BY <1>3, AdmissionShape DEF Admission
<1>4. ASSUME NEW q \in HandlerIds, ReconcileClose(q) PROVE rows'[r].status = rows[r].status
  BY <1>1, <1>4 DEF ReconcileClose, PendingRuns, Row
<1>5. ASSUME NEW q \in HandlerIds, ApplyDelete(q) PROVE rows'[r].status = "none"
  <2>1. rows'[r] = NoRow
    BY <1>5 DEF ApplyDelete
  <2> QED BY <2>1 DEF NoRow
<1>6. ASSUME NEW q \in HandlerIds, ApplyRevoke(q)
      PROVE  rows'[r].status = rows[r].status \/ (Unsettled(r) /\ rows'[r].status = "cancelled")
  BY <1>1, <1>6 DEF ApplyRevoke, Row
<1>7. ASSUME NEW q \in HandlerIds, Handle(q) \/ Operator(q), ~AdmitRun(q),
             ~ReconcileClose(q), ~ApplyDelete(q), ~ApplyRevoke(q)
      PROVE  UNCHANGED rows
  BY <1>7 DEF Handle, Reconcile, ReconcileFinish, ReconcileEvidence, RequireFinalized,
              NewWorkflow, CancelReturns, WaitEnds, ApplyStop, CallRevoke, stored, Operator,
              Starts, StopOrDelete, StartRevoke
<1>8. CASE NodeRestart
  <2>1. rows'[r] = Restarted(r)
    BY <1>8 DEF NodeRestart
  <2> QED BY <1>1, <2>1 DEF Restarted, Row
<1>9. ASSUME StartAgent \/ SidecarRestart \/ (\E c \in late : LateCallArrives(c))
             \/ (Tick /\ UNCHANGED serviceVars) \/ UNCHANGED vars
      PROVE  UNCHANGED rows
  BY <1>9 DEF StartAgent, SidecarRestart, LateCallArrives, serviceVars, vars, stored
<1> QED BY <1>2, <1>3, <1>4, <1>5, <1>6, <1>7, <1>8, <1>9, StepKinds DEF Background

(* Only the finished execution of a Run publishes it as completed.          *)
LEMMA OnlyCompletePublishes ==
    ASSUME ServiceInv, NEW r \in RunIds, ExecuteRun(r), rows'[r].status = "completed"
    PROVE  rows[r].status = "completed" \/ exec[r].phase = "complete"
<1>1. rows \in [RunIds -> Row]
  BY DEF ServiceInv, ServiceTypeOK
<1>2. CASE ExecRecordContext(r) \/ ExecMarkFinalizing(r)
  BY <1>1, <1>2 DEF ExecRecordContext, ExecMarkFinalizing, stored, Row
<1>3. CASE ExecMarkRunning(r)
  BY <1>1, <1>3 DEF ExecMarkRunning, Row
<1>4. CASE ExecComplete(r)
  BY <1>4 DEF ExecComplete
<1>5. CASE ExecSettle(r)
  <2>1. ASSUME rows[r].status # "none"
        PROVE  rows'[r].status \in {"cancelled", "failed"}
    BY <1>1, <1>5, <2>1 DEF ExecSettle, Row
  <2> QED BY <1>5, <2>1 DEF ExecSettle
<1>6. CASE UNCHANGED stored
  BY <1>6 DEF stored
<1> QED BY <1>2, <1>3, <1>4, <1>5, <1>6
        DEF ExecuteRun, ExecStart, ExecPrepare, ExecActivate, ExecLaunch, ExecSpawn,
            ExecRunnerReturns, ExecFinish, ExecInvalidate

(* A published outcome is final, whatever is written after it.              *)
THEOREM OutcomesFinal == ServiceSpec => OutcomesAreFinal
<1>1. ASSUME ServiceInv, [ServiceNext]_vars, NEW r \in RunIds, rows'[r].status # "none"
      PROVE  /\ rows[r].status = "completed" => rows'[r].status = "completed"
             /\ rows[r].status \in {"failed", "cancelled"} => rows'[r].status # "completed"
  <2>1. RunInv(r)
    BY <1>1 DEF ServiceInv
  <2>2. CASE ExecuteRun(r)
    <3>1. Executing(r)
      BY <1>1, <2>2, ExecutionShape
    <3>2. rows[r].status # "completed"
      BY <2>1, <3>1 DEF RunInv, Confirmed
    <3>3. rows[r].status \in {"failed", "cancelled"} => exec[r].phase # "complete"
      BY <2>1, <3>1 DEF RunInv, Confirmed, CancelledUnderExecution, Withdrawn
    <3> QED BY <1>1, <2>2, <3>2, <3>3, OnlyCompletePublishes
  <2>3. CASE ~ExecuteRun(r)
    BY <1>1, <2>3, WhoWritesStatus DEF Unsettled
  <2> QED BY <2>2, <2>3
<1>2. ServiceInv /\ [ServiceNext]_vars => [OutcomeStep]_vars
  BY <1>1 DEF OutcomeStep
<1> QED BY <1>2, ServiceInductiveInvariant, PTL DEF ServiceSpec, OutcomesAreFinal

(* A busy Agent is executing something: the end of an execution, however it *)
(* ends, and a restart free the Agent.                                      *)
THEOREM BusyMeansExecuting == ServiceSpec => []BusyIsExecuting
<1>1. ServiceInit => BusyIsExecuting
  BY DEF ServiceInit, BusyIsExecuting
<1>2. ASSUME ServiceInv, BusyIsExecuting, [ServiceNext]_vars, agent'.status = "busy"
      PROVE  \E r \in RunIds : Executing(r)'
  <2>1. ASSUME NEW r \in RunIds, ExecuteRun(r) PROVE Executing(r)'
    BY <1>2, <2>1, ExecutionShape
  <2>2. ASSUME NEW q \in HandlerIds, AdmitRun(q) PROVE \E r \in RunIds : Executing(r)'
    <3>1. CASE UNCHANGED <<agent, rows, exec>>
      BY <1>2, <3>1 DEF BusyIsExecuting, Executing
    <3>2. ASSUME NEW r \in RunIds, Admission(r) PROVE Executing(r)'
      BY <3>2 DEF Admission, Executing
    <3> QED BY <1>2, <2>2, <3>1, <3>2, AdmissionShape
  <2>3. ASSUME NEW q \in HandlerIds, Handle(q) \/ Operator(q), ~AdmitRun(q)
        PROVE  \E r \in RunIds : Executing(r)'
    BY <1>2, <2>3, RequestShape DEF BusyIsExecuting, Executing
  <2>4. CASE Background
    BY <1>2, <2>4, BackgroundShape DEF BusyIsExecuting, Executing
  <2> QED BY <1>2, <2>1, <2>2, <2>3, <2>4, StepKinds
<1>3. ServiceInv /\ BusyIsExecuting /\ [ServiceNext]_vars => BusyIsExecuting'
  BY <1>2 DEF BusyIsExecuting
<1> QED BY <1>1, <1>3, ServiceInductiveInvariant, PTL DEF ServiceSpec

-----------------------------------------------------------------------------
(* An Agent that is neither stopped nor revoked.                           *)

(* Without stops and revocations an Agent with an execution stays busy, so  *)
(* that it admits no second one; requests of the two kinds never exist.     *)
Alone ==
    /\ \A q \in HandlerIds :
         handlers[q].kind \notin {"stop", "revoke"} /\ handlers[q].step # "call"
    /\ \A r \in RunIds : Executing(r) => agent.status \in {"busy", "deleted"}
    /\ OneExecution

(* The Agent still has the context the execution found at its admission, or *)
(* none, until the execution records the context it was prepared in.        *)
ContextFollowed ==
    /\ late = {}
    /\ AgentContextNotClosed
    /\ \A r \in RunIds :
         /\ exec[r].phase \in {"start", "prepare"} => agent.ctx \in {None, exec[r].ctx}
         /\ exec[r].phase = "prepared" =>
              runs[r].ctx # None /\ contexts[runs[r].ctx].state # "CLOSED"

(* A request that only goes on with its work keeps its kind.               *)
LEMMA StepOnly ==
    ASSUME ServiceTypeOK, NEW p \in HandlerIds, NEW step, NEW todo, NEW tries, NEW run
    PROVE  /\ Proceed(p, [handlers[p] EXCEPT !.step = step, !.todo = todo]) =>
                handlers'[p].kind = handlers[p].kind /\ handlers'[p].step = step
           /\ Proceed(p, [handlers[p] EXCEPT !.step = step]) =>
                handlers'[p].kind = handlers[p].kind /\ handlers'[p].step = step
           /\ Proceed(p, [handlers[p] EXCEPT !.step = step, !.tries = tries]) =>
                handlers'[p].kind = handlers[p].kind /\ handlers'[p].step = step
           /\ Proceed(p, [handlers[p] EXCEPT !.step = step, !.run = run]) =>
                handlers'[p].kind = handlers[p].kind /\ handlers'[p].step = step
<1>1. handlers \in [HandlerIds -> Handler] /\ handlers[p] \in Handler
  BY DEF ServiceTypeOK
<1>2. ASSUME NEW fields, Proceed(p, fields) PROVE handlers'[p] = fields
  BY <1>1, <1>2 DEF Proceed
<1>3. /\ [handlers[p] EXCEPT !.step = step, !.todo = todo].kind = handlers[p].kind
      /\ [handlers[p] EXCEPT !.step = step, !.todo = todo].step = step
  BY <1>1 DEF Handler
<1>4. /\ [handlers[p] EXCEPT !.step = step].kind = handlers[p].kind
      /\ [handlers[p] EXCEPT !.step = step].step = step
  BY <1>1 DEF Handler
<1>5. /\ [handlers[p] EXCEPT !.step = step, !.tries = tries].kind = handlers[p].kind
      /\ [handlers[p] EXCEPT !.step = step, !.tries = tries].step = step
  BY <1>1 DEF Handler
<1>6. /\ [handlers[p] EXCEPT !.step = step, !.run = run].kind = handlers[p].kind
      /\ [handlers[p] EXCEPT !.step = step, !.run = run].step = step
  BY <1>1 DEF Handler
<1> QED BY <1>2, <1>3, <1>4, <1>5, <1>6

(* Neither kind of request appears when the operator makes none.            *)
LEMMA NoStopAppears ==
    ASSUME ServiceInv, Operations \cap {"stop", "revoke"} = {}, [ServiceNext]_vars,
           NEW p \in HandlerIds, \A q \in HandlerIds :
              handlers[q].kind \notin {"stop", "revoke"} /\ handlers[q].step # "call"
    PROVE  handlers'[p].kind \notin {"stop", "revoke"} /\ handlers'[p].step # "call"
<1>1. /\ ServiceTypeOK /\ handlers \in [HandlerIds -> Handler]
      /\ handlers[p].kind \notin {"stop", "revoke"} /\ handlers[p].step # "call"
  BY DEF ServiceInv, ServiceTypeOK
<1>2. ASSUME handlers'[p] = Idle
      PROVE  handlers'[p].kind \notin {"stop", "revoke"} /\ handlers'[p].step # "call"
  BY <1>2 DEF Idle
<1>3. CASE handlers'[p] = handlers[p]
  BY <1>1, <1>3
<1>4. ASSUME NEW q \in HandlerIds, NEW fields, Proceed(q, fields), q # p
      PROVE  handlers'[p] = handlers[p]
  BY <1>1, <1>4 DEF Proceed
<1>5. CASE Reconcile(p)
  <2>1. ASSUME NEW step, NEW todo, NEW tries, step # "call",
               Proceed(p, [handlers[p] EXCEPT !.step = step, !.todo = todo])
               \/ Proceed(p, [handlers[p] EXCEPT !.step = step])
               \/ Proceed(p, [handlers[p] EXCEPT !.step = step, !.tries = tries])
        PROVE  handlers'[p].kind \notin {"stop", "revoke"} /\ handlers'[p].step # "call"
    BY <1>1, <2>1, StepOnly
  <2>2. CASE ReconcileFinish(p)
    <3>1. ASSUME NEW reply,
                 Proceed(p, [handlers[p] EXCEPT
                    !.step = CASE reply = "ok"                 -> "close"
                              [] TriesLeft(handlers[p].tries)  -> "reconcile"
                              [] OTHER                         -> "evidence",
                    !.tries = IF reply = "error" /\ TriesLeft(handlers[p].tries)
                              THEN handlers[p].tries + 1 ELSE 0])
          PROVE  handlers'[p].kind \notin {"stop", "revoke"} /\ handlers'[p].step # "call"
      <4> DEFINE step == CASE reply = "ok"                 -> "close"
                           [] TriesLeft(handlers[p].tries)  -> "reconcile"
                           [] OTHER                         -> "evidence"
                 tries == IF reply = "error" /\ TriesLeft(handlers[p].tries)
                          THEN handlers[p].tries + 1 ELSE 0
      <4>1. step # "call" /\ Proceed(p, [handlers[p] EXCEPT !.step = step, !.tries = tries])
        BY <3>1
      <4> HIDE DEF step, tries
      <4> QED BY <4>1, <2>1
    <3> QED BY <2>2, <3>1 DEF ReconcileFinish
  <2>3. CASE ReconcileEvidence(p) \/ ReconcileClose(p) \/ RequireFinalized(p)
    BY <1>1, <1>2, <2>1, <2>3, DoneEffect
       DEF ReconcileEvidence, ReconcileClose, RequireFinalized
  <2> QED BY <1>5, <2>2, <2>3 DEF Reconcile
<1>6. CASE AdmitRun(p) \/ NewWorkflow(p) \/ ApplyStop(p) \/ ApplyDelete(p) \/ ApplyRevoke(p)
  <2>1. Done(p)
    BY <1>6 DEF AdmitRun, NewWorkflow, ApplyStop, ApplyDelete, ApplyRevoke
  <2> QED BY <1>1, <1>2, <2>1, DoneEffect
<1>7. CASE CancelReturns(p) \/ WaitEnds(p)
  <2>1. ASSUME NEW step \in {"wait", "apply"}, NEW run,
               Proceed(p, [handlers[p] EXCEPT !.step = step, !.run = run])
               \/ Proceed(p, [handlers[p] EXCEPT !.step = step])
        PROVE  handlers'[p].kind \notin {"stop", "revoke"} /\ handlers'[p].step # "call"
    BY <1>1, <2>1, StepOnly
  <2> QED BY <1>7, <2>1 DEF CancelReturns, WaitEnds
<1>8. ~CallRevoke(p) /\ \A c \in CtxIds : ~StartRevoke(p, c)
  BY <1>1 DEF CallRevoke, StartRevoke
<1>9. ASSUME NEW kind \in Operations, StopOrDelete(p, kind)
      PROVE  handlers'[p].kind \notin {"stop", "revoke"} /\ handlers'[p].step # "call"
  <2>1. /\ kind \in AllOperations /\ UnsettledRuns \in SUBSET RunIds /\ {} \in SUBSET RunIds
        /\ kind \notin {"stop", "revoke"}
    BY OperationAssumption DEF UnsettledRuns
  <2> QED BY <1>1, <1>9, <2>1, CancelsEffect DEF StopOrDelete
<1>10. ASSUME NEW kind \in Operations, NEW original \in RunIds \cup {None},
              Starts(p, kind, original)
       PROVE  handlers'[p].kind \notin {"stop", "revoke"} /\ handlers'[p].step # "call"
  BY <1>1, <1>10 DEF Starts, Proceed, Idle
<1>11. ASSUME NEW q \in HandlerIds \ {p}, Handle(q) \/ Operator(q)
       PROVE  handlers'[p] = handlers[p]
  BY <1>4, <1>11
     DEF Handle, Operator, Reconcile, ReconcileFinish, ReconcileEvidence, ReconcileClose,
         RequireFinalized, AdmitRun, NewWorkflow, CancelReturns, WaitEnds, ApplyStop, ApplyDelete,
         CallRevoke, ApplyRevoke, Starts, StopOrDelete, StartRevoke, Cancels, Done
<1>12. ASSUME NEW r \in RunIds, ExecuteRun(r) PROVE handlers'[p] = handlers[p]
  BY <1>12, OthersUntouched
<1>13. CASE Background
  <2>1. CASE NodeRestart
    <3>1. ASSUME NEW todo,
                 handlers'[p] = [Idle EXCEPT !.kind = "initialize", !.step = "reconcile",
                                             !.todo = todo]
          PROVE  handlers'[p].kind \notin {"stop", "revoke"} /\ handlers'[p].step # "call"
      BY <3>1 DEF Idle
    <3>2. \/ handlers'[p] = Idle
          \/ \E todo : handlers'[p] = [Idle EXCEPT !.kind = "initialize", !.step = "reconcile",
                                                   !.todo = todo]
      BY <2>1 DEF NodeRestart
    <3> QED BY <1>2, <3>1, <3>2
  <2>2. CASE StartAgent \/ SidecarRestart \/ (\E c \in late : LateCallArrives(c))
             \/ (Tick /\ UNCHANGED serviceVars) \/ UNCHANGED vars
    BY <1>3, <2>2 DEF StartAgent, SidecarRestart, LateCallArrives, serviceVars, vars
  <2> QED BY <1>13, <2>1, <2>2 DEF Background
<1>14. ASSUME Handle(p) \/ Operator(p)
       PROVE  handlers'[p].kind \notin {"stop", "revoke"} /\ handlers'[p].step # "call"
  BY <1>5, <1>6, <1>7, <1>8, <1>9, <1>10, <1>14 DEF Handle, Operator
<1>15. ASSUME NEW q \in HandlerIds, Handle(q) \/ Operator(q)
       PROVE  handlers'[p].kind \notin {"stop", "revoke"} /\ handlers'[p].step # "call"
  BY <1>3, <1>11, <1>14, <1>15
<1> QED BY <1>3, <1>12, <1>13, <1>15, StepKinds DEF Handle

(* Without stops and revocations, the Agent's executions stay alone.        *)
LEMMA AloneStep ==
    ASSUME ServiceInv, Operations \cap {"stop", "revoke"} = {}, Alone, [ServiceNext]_vars
    PROVE  Alone'
<1>1. \A q \in HandlerIds :
         handlers'[q].kind \notin {"stop", "revoke"} /\ handlers'[q].step # "call"
  BY NoStopAppears DEF Alone
<1>2. \A r \in RunIds : Executing(r) => agent.status \in {"busy", "deleted"}
  BY DEF Alone
<1>3. \A r, s \in RunIds : Executing(r) /\ Executing(s) => r = s
  BY DEF Alone, OneExecution
<1> SUFFICES /\ \A r \in RunIds : Executing(r)' => agent'.status \in {"busy", "deleted"}
             /\ \A r, s \in RunIds : Executing(r)' /\ Executing(s)' => r = s
  BY <1>1 DEF Alone, OneExecution
<1>4. ASSUME NEW r \in RunIds, ExecuteRun(r)
      PROVE  /\ \A s \in RunIds : Executing(s)' => s = r
             /\ Executing(r)' => agent'.status \in {"busy", "deleted"}
  <2>1. Executing(r) /\ (Executing(r)' => agent'.status = agent.status)
    BY <1>4, ExecutionShape
  <2>2. ASSUME NEW s \in RunIds \ {r} PROVE ~Executing(s)'
    BY <1>3, <1>4, <2>1, <2>2, OthersUntouched DEF Executing
  <2> QED BY <1>2, <2>1, <2>2
<1>5. ASSUME NEW q \in HandlerIds, AdmitRun(q)
      PROVE  \/ UNCHANGED <<agent, exec>>
             \/ \E r \in RunIds : /\ \A s \in RunIds : Executing(s)' => s = r
                                  /\ agent'.status = "busy"
  <2>1. ASSUME NEW r \in RunIds, Admission(r)
        PROVE  agent'.status = "busy" /\ \A s \in RunIds : Executing(s)' => s = r
    <3>1. \A s \in RunIds : ~Executing(s)
      BY <1>2, <2>1 DEF Admission
    <3> QED BY <2>1, <3>1 DEF Admission, Executing
  <2> QED BY <1>5, <2>1, AdmissionShape
<1>6. ASSUME NEW q \in HandlerIds, Handle(q) \/ Operator(q), ~AdmitRun(q)
      PROVE  /\ \A r \in RunIds : Executing(r)' <=> Executing(r)
             /\ agent.status \in {"busy", "deleted"} => agent'.status \in {"busy", "deleted"}
  BY <1>6, RequestShape DEF Alone, Executing
<1>7. CASE Background
  <2>1. CASE \A r \in RunIds : exec'[r] = NoExecution
    <3>1. \A r \in RunIds : ~Executing(r)'
      BY <2>1 DEF Executing, NoExecution
    <3> QED BY <3>1
  <2>2. CASE exec' = exec /\ agent'.status = agent.status
    BY <1>2, <1>3, <2>2 DEF Executing
  <2>3. CASE exec' = exec /\ agent.status \notin {"busy", "deleted"}
    BY <1>2, <2>3 DEF Executing
  <2> QED BY <1>7, <2>1, <2>2, <2>3, BackgroundShape
<1>8. CASE UNCHANGED <<agent, exec>>
  BY <1>2, <1>3, <1>8 DEF Executing
<1>9. CASE \E r \in RunIds : ExecuteRun(r)
  BY <1>4, <1>9
<1>10. CASE \E q \in HandlerIds : AdmitRun(q)
  BY <1>5, <1>8, <1>10
<1>11. CASE \E q \in HandlerIds : (Handle(q) \/ Operator(q)) /\ ~AdmitRun(q)
  BY <1>2, <1>3, <1>6, <1>11
<1> QED BY <1>7, <1>9, <1>10, <1>11, StepKinds

(* While nobody stops the Agent or revokes its mandate, at most one of its  *)
(* Runs is executed at a time, through restarts, deletions and calls that   *)
(* arrive late.  (With stops it is not so: a stop that found no Run may     *)
(* mark the Agent after a message was admitted, and a start frees it.)      *)
THEOREM OneExecutionWithoutStops ==
    ASSUME Operations \cap {"stop", "revoke"} = {}
    PROVE  ServiceSpec => []OneExecution
<1>1. ServiceInit => Alone
  <2>1. ASSUME ServiceInit PROVE \A r \in RunIds : ~Executing(r)
    BY <2>1 DEF ServiceInit, Executing, NoExecution
  <2> QED BY <2>1 DEF ServiceInit, Alone, OneExecution, Idle
<1>2. ServiceInv /\ Alone /\ [ServiceNext]_vars => Alone'
  BY AloneStep
<1>3. Alone => OneExecution
  BY DEF Alone
<1> QED BY <1>1, <1>2, <1>3, ServiceInductiveInvariant, PTL DEF ServiceSpec

-----------------------------------------------------------------------------
(* The context an Agent continues.                                         *)

(* A control call closes contexts only when it prepares a Run in a new one. *)
LEMMA OnlyNewPrepareCloses ==
    ASSUME TypeOK, NEW c \in ControlCall, Serve(c) \/ Refuse(c), NEW x \in CtxIds,
           contexts'[x].state = "CLOSED", contexts[x].state # "CLOSED"
    PROVE  c.op = "prepare" /\ c.ctx = None
<1>1. contexts' # contexts
  OBVIOUS
<1>2. CASE c.op = "prepare" /\ ServePrepare(c)
  BY <1>1, <1>2 DEF ServePrepare, PrepareRetry, PrepareFollowUp
<1>3. CASE c.op = "revoke" /\ ServeRevoke(c)
  BY <1>1, <1>3 DEF ServeRevoke, RevokeMandate, authVars, TypeOK, Context
<1>4. CASE c.op = "activate"
  BY <1>1, <1>4 DEF Serve, Refuse, ServeActivate, Activate, ActivateLate, authVars
<1>5. CASE c.op = "finish" /\ ServeFinish(c)
  BY <1>1, <1>5 DEF ServeFinish, Finish, authVars
<1>6. CASE UNCHANGED authVars
  BY <1>1, <1>6 DEF authVars
<1> QED BY <1>2, <1>3, <1>4, <1>5, <1>6 DEF Serve, Refuse

(* A Run that has been prepared has a context that is not closed.           *)
LEMMA PreparedInOpenContext ==
    ASSUME IInv, NEW r \in RunIds, runs[r].state = "PREPARED"
    PROVE  runs[r].ctx # None /\ contexts[runs[r].ctx].state # "CLOSED"
BY DEF IInv, LiveRunUnderActiveMandate, Live

(* With no call given up, a control call is served or refused at once.      *)
LEMMA NothingLate ==
    ASSUME MaxLate = 0, late = {}, NEW c, NEW reply \in Replies, Call(c, reply)
    PROVE  (Serve(c) \/ Refuse(c)) /\ late' = {}
<1>1. Cardinality(late) = 0
  BY FS_EmptySet
<1> QED BY <1>1 DEF Call

(* Which step closes a context: the preparation of a Run whose Agent had no *)
(* context when it was admitted.                                            *)
LEMMA WhoClosesContexts ==
    ASSUME ServiceInv, MaxLate = 0, late = {}, [ServiceNext]_vars
    PROVE  /\ late' = {}
           /\ \A x \in CtxIds : contexts'[x].state = "CLOSED" /\ contexts[x].state # "CLOSED" =>
                \E r \in RunIds : ExecPrepare(r) /\ exec[r].ctx = None
<1>1. TypeOK
  BY DEF ServiceInv, IInv
<1>2. ASSUME NEW c \in ControlCall, NEW reply \in Replies, Call(c, reply),
             c.op # "prepare" \/ c.ctx # None
      PROVE  /\ late' = {}
             /\ \A x \in CtxIds : contexts'[x].state = "CLOSED" => contexts[x].state = "CLOSED"
  BY <1>1, <1>2, NothingLate, OnlyNewPrepareCloses
<1>3. ASSUME NEW r \in RunIds, ExecPrepare(r)
      PROVE  /\ late' = {}
             /\ exec[r].ctx = None \/ \A x \in CtxIds :
                   contexts'[x].state = "CLOSED" => contexts[x].state = "CLOSED"
  <2>1. PrepareCall(r) \in ControlCall /\ PrepareCall(r).ctx = exec[r].ctx
    BY PrepareCallTyped DEF PrepareCall
  <2>2. PICK reply \in Replies : Call(PrepareCall(r), reply)
    BY <1>3 DEF ExecPrepare
  <2>3. late' = {}
    BY <2>2, NothingLate
  <2> QED BY <1>2, <2>1, <2>2, <2>3
<1>4. ASSUME NEW r \in RunIds, ExecActivate(r)
      PROVE  /\ late' = {}
             /\ \A x \in CtxIds : contexts'[x].state = "CLOSED" => contexts[x].state = "CLOSED"
  <2>1. ActivateCall(r) \in ControlCall /\ ActivateCall(r).op = "activate"
    BY DEF ActivateCall, ControlCall
  <2>2. PICK reply \in Replies : Call(ActivateCall(r), reply)
    BY <1>4 DEF ExecActivate, ActivateCall
  <2> QED BY <1>2, <2>1, <2>2
<1>5. ASSUME NEW r \in RunIds, NEW status \in FinishStatuses, NEW reply \in Replies,
             Call(FinishCall(r, status), reply)
      PROVE  /\ late' = {}
             /\ \A x \in CtxIds : contexts'[x].state = "CLOSED" => contexts[x].state = "CLOSED"
  <2>1. FinishCall(r, status).op = "finish"
    BY DEF FinishCall
  <2> QED BY <1>2, <1>5, <2>1, FinishCallTyped
<1>6. ASSUME NEW r \in RunIds, ExecFinish(r) \/ ExecInvalidate(r)
      PROVE  /\ late' = {}
             /\ \A x \in CtxIds : contexts'[x].state = "CLOSED" => contexts[x].state = "CLOSED"
  <2>1. PICK status \in FinishStatuses, reply \in Replies : Call(FinishCall(r, status), reply)
    BY <1>6 DEF ExecFinish, ExecInvalidate, FinishStatuses
  <2> QED BY <1>5, <2>1
<1>7. ASSUME NEW q \in HandlerIds, ReconcileFinish(q)
      PROVE  /\ late' = {}
             /\ \A x \in CtxIds : contexts'[x].state = "CLOSED" => contexts[x].state = "CLOSED"
  <2>1. Min(handlers[q].todo) \in RunIds
    BY <1>7, FirstToDo DEF ReconcileFinish, ServiceInv
  <2> PICK r : r = Min(handlers[q].todo)
    OBVIOUS
  <2>2. PICK reply \in Replies : Call(FinishCall(r, Intended(r)), reply)
    BY <1>7 DEF ReconcileFinish
  <2>3. Intended(r) \in FinishStatuses
    BY DEF Intended, FinishStatuses
  <2> QED BY <1>5, <2>1, <2>2, <2>3
<1>8. ASSUME NEW q \in HandlerIds, CallRevoke(q)
      PROVE  /\ late' = {}
             /\ \A x \in CtxIds : contexts'[x].state = "CLOSED" => contexts[x].state = "CLOSED"
  <2>1. handlers[q].ctx \in CtxIds
    BY <1>8 DEF CallRevoke, ServiceInv, HandlerInv, Cancelling
  <2>2. PICK reply \in Replies : Call([op |-> "revoke", ctx |-> handlers[q].ctx], reply)
    BY <1>8 DEF CallRevoke
  <2>3. [op |-> "revoke", ctx |-> handlers[q].ctx] \in ControlCall
    BY <2>1 DEF ControlCall
  <2> QED BY <1>2, <2>2, <2>3
<1>9. CASE SidecarRestart
  BY <1>9 DEF SidecarRestart, Restart
<1>10. CASE UNCHANGED <<contexts, late>>
  BY <1>10
<1>11. ASSUME NEW r \in RunIds, ExecuteRun(r), ~ExecPrepare(r), ~ExecActivate(r),
              ~ExecFinish(r), ~ExecInvalidate(r)
       PROVE  UNCHANGED <<contexts, late>>
  BY <1>11 DEF ExecuteRun, ExecStart, ExecRecordContext, ExecMarkRunning, ExecLaunch, ExecSpawn,
               ExecRunnerReturns, ExecMarkFinalizing, ExecComplete, ExecSettle, EndExecution,
               authVars
<1>12. ASSUME NEW q \in HandlerIds, Handle(q) \/ Operator(q), ~ReconcileFinish(q), ~CallRevoke(q)
       PROVE  UNCHANGED <<contexts, late>>
  BY <1>12 DEF Handle, Operator, Reconcile, ReconcileEvidence, ReconcileClose, RequireFinalized,
               AdmitRun, NewWorkflow, CancelReturns, WaitEnds, ApplyStop, ApplyDelete,
               ApplyRevoke, Starts, StopOrDelete, StartRevoke, authVars
<1>13. CASE Background
  <2>1. ASSUME StartAgent \/ NodeRestart \/ (Tick /\ UNCHANGED serviceVars) \/ UNCHANGED vars
        PROVE  UNCHANGED <<contexts, late>>
    BY <2>1 DEF StartAgent, NodeRestart, Tick, serviceVars, vars, authVars
  <2> QED BY <1>9, <1>10, <1>13, <2>1 DEF Background
<1> QED BY <1>3, <1>4, <1>6, <1>7, <1>8, <1>10, <1>11, <1>12, <1>13, StepKinds DEF Handle

(* Where an execution that is not yet activated stands after a step of it.  *)
LEMMA EarlyPhases ==
    ASSUME ServiceInv, NEW r \in RunIds, ExecuteRun(r), ~ExecPrepare(r),
           exec'[r].phase \in {"start", "prepare", "prepared"}
    PROVE  /\ exec[r].phase = "start" /\ exec'[r].phase = "prepare"
           /\ exec'[r].ctx = exec[r].ctx /\ agent' = agent
<1>1. ServiceTypeOK /\ exec \in [RunIds -> Execution]
  BY DEF ServiceInv, ServiceTypeOK
<1>2. CASE ExecStart(r)
  BY <1>1, <1>2, MoveEffect, ThrowEffect DEF ExecStart, Phases, stored
<1>3. ASSUME NEW phase \in Phases \ {"start", "prepare", "prepared"}, MoveTo(r, phase) PROVE FALSE
  BY <1>1, <1>3, MoveEffect
<1>4. ASSUME NEW prepared \in BOOLEAN, Throw(r, prepared) PROVE FALSE
  BY <1>1, <1>4, ThrowEffect
<1>5. CASE ExecRecordContext(r) \/ ExecActivate(r) \/ ExecMarkRunning(r) \/ ExecLaunch(r)
           \/ ExecSpawn(r) \/ ExecRunnerReturns(r)
  BY <1>3, <1>4, <1>5 DEF ExecRecordContext, ExecActivate, ExecMarkRunning, ExecLaunch, ExecSpawn,
                          ExecRunnerReturns, RunnerReturns, Phases
<1>6. CASE ExecMarkFinalizing(r)
  BY <1>1, <1>6 DEF ExecMarkFinalizing, Execution
<1>7. ASSUME TriesLeft(exec[r].tries), TryAgain(r), exec[r].phase \in {"finish", "invalidate"}
      PROVE  FALSE
  BY <1>1, <1>7, TryAgainEffect
<1>8. CASE ExecFinish(r)
  <2>1. ~ThrowUnconfirmed(r)
    BY <1>1, UnconfirmedEffect
  <2> QED BY <1>3, <1>7, <1>8, <2>1 DEF ExecFinish, Phases
<1>9. CASE ExecInvalidate(r)
  <2>1. exec' # [exec EXCEPT ![r].phase = "settle", ![r].unconfirmed = "invalidation"]
    BY <1>1 DEF Execution
  <2> QED BY <1>3, <1>7, <1>9, <2>1 DEF ExecInvalidate, Phases
<1>10. CASE ExecComplete(r) \/ ExecSettle(r)
  <2>1. exec'[r] = NoExecution
    BY <1>1, <1>10, EndEffect DEF ExecComplete, ExecSettle
  <2> QED BY <2>1 DEF NoExecution
<1> QED BY <1>2, <1>5, <1>6, <1>8, <1>9, <1>10 DEF ExecuteRun

(* The preparation of a Run: the Agent is left alone, and if the call is    *)
(* answered the Run stands in a context that is not closed.                 *)
LEMMA PreparationShape ==
    ASSUME ServiceInv, IInv', NEW r \in RunIds, ExecPrepare(r)
    PROVE  /\ agent' = agent
           /\ exec'[r].phase \notin {"start", "prepare"}
           /\ exec'[r].phase = "prepared" =>
                runs'[r].ctx # None /\ contexts'[runs'[r].ctx].state # "CLOSED"
<1>1. ServiceTypeOK /\ TypeOK
  BY DEF ServiceInv, IInv
<1>2. agent' = agent
  BY DEF ExecPrepare, stored
<1>3. PICK reply \in Replies :
        /\ Call(PrepareCall(r), reply)
        /\ IF reply = "ok" THEN MoveTo(r, "prepared") ELSE Throw(r, FALSE)
  BY DEF ExecPrepare
<1>4. CASE reply = "ok"
  <2>1. exec'[r].phase = "prepared"
    BY <1>1, <1>3, <1>4, MoveEffect DEF Phases
  <2>2. /\ Serve(PrepareCall(r)) /\ PrepareCall(r) \in ControlCall
        /\ PrepareCall(r).op = "prepare" /\ PrepareCall(r).run = r
    BY <1>3, <1>4, PrepareCallTyped DEF Call, PrepareCall
  <2>3. runs'[r].state = "PREPARED"
    BY <1>1, <2>2, ServedPrepare
  <2>4. runs'[r].ctx # None /\ contexts'[runs'[r].ctx].state # "CLOSED"
    BY <2>3 DEF IInv, LiveRunUnderActiveMandate, Live
  <2> QED BY <1>2, <2>1, <2>4
<1>5. CASE reply # "ok"
  <2>1. exec'[r].phase = "settle"
    BY <1>1, <1>3, <1>5, ThrowEffect
  <2> QED BY <1>2, <2>1
<1> QED BY <1>4, <1>5

(* The Agent's context is followed through every step.                      *)
LEMMA ContextFollowedStep ==
    ASSUME ServiceInv, MaxLate = 0, Alone, ContextFollowed, [ServiceNext]_vars
    PROVE  ContextFollowed'
<1>1. /\ ServiceInv' /\ IInv' /\ IInv /\ [AuthorityNext]_authVars
      /\ agent \in AgentType
      /\ runs \in [RunIds -> Run]
  BY ServiceInvStep, EveryStepIsSidecarStep
     DEF ServiceInv, SidecarStep, ServiceTypeOK, AgentType, IInv, TypeOK
<1>2. /\ late' = {}
      /\ \A x \in CtxIds : contexts'[x].state = "CLOSED" /\ contexts[x].state # "CLOSED" =>
           \E r \in RunIds : ExecPrepare(r) /\ exec[r].ctx = None
  BY WhoClosesContexts DEF ContextFollowed
<1>3. /\ agent.ctx # None => agent.ctx \in CtxIds /\ contexts[agent.ctx].state # "CLOSED"
      /\ \A r \in RunIds :
         /\ exec[r].phase \in {"start", "prepare"} => agent.ctx \in {None, exec[r].ctx}
         /\ exec[r].phase = "prepared" =>
              /\ runs[r].ctx # None /\ runs[r].ctx \in CtxIds
              /\ contexts[runs[r].ctx].state # "CLOSED"
      /\ \A r, s \in RunIds : Executing(r) /\ Executing(s) => r = s
      /\ \A r \in RunIds : Executing(r) => agent.status \in {"busy", "deleted"}
  BY <1>1 DEF ContextFollowed, AgentContextNotClosed, Alone, OneExecution, AgentType, Run
<1> DEFINE Goal == /\ agent'.ctx # None => contexts'[agent'.ctx].state # "CLOSED"
                   /\ \A r \in RunIds :
                        /\ exec'[r].phase \in {"start", "prepare"} =>
                             agent'.ctx \in {None, exec'[r].ctx}
                        /\ exec'[r].phase = "prepared" =>
                             runs'[r].ctx # None /\ contexts'[runs'[r].ctx].state # "CLOSED"
<1>4. ASSUME NEW r \in RunIds, ExecPrepare(r) PROVE Goal
  <2>1. /\ exec[r].phase = "prepare" /\ ExecuteRun(r) /\ Executing(r)
        /\ agent.ctx \in {None, exec[r].ctx}
    BY <1>3, <1>4 DEF ExecPrepare, ExecuteRun, Executing
  <2>2. ASSUME NEW s \in RunIds \ {r} PROVE exec'[s].phase = "none"
    BY <1>3, <2>1, <2>2, OthersUntouched DEF Executing
  <2>3. ASSUME agent.ctx # None PROVE contexts'[agent.ctx].state # "CLOSED"
    <3>1. ~\E s \in RunIds : ExecPrepare(s) /\ exec[s].ctx = None
      BY <1>3, <2>1, <2>3 DEF ExecPrepare, Executing
    <3> QED BY <1>2, <1>3, <2>3, <3>1
  <2>4. /\ agent' = agent
        /\ exec'[r].phase \notin {"start", "prepare"}
        /\ exec'[r].phase = "prepared" =>
             runs'[r].ctx # None /\ contexts'[runs'[r].ctx].state # "CLOSED"
    BY <1>1, <1>4, PreparationShape
  <2> QED BY <2>2, <2>3, <2>4
<1>5. ASSUME \A r \in RunIds : ~ExecPrepare(r) PROVE Goal
  <2>1. \A x \in CtxIds : contexts[x].state # "CLOSED" => contexts'[x].state # "CLOSED"
    BY <1>2, <1>5
  <2>2. ASSUME NEW r \in RunIds, exec[r].phase = "prepared"
        PROVE  runs'[r].ctx # None /\ contexts'[runs'[r].ctx].state # "CLOSED"
    <3>1. runs[r].state # "NONE"
      BY <2>2 DEF ServiceInv, RunInv, Accounted
    <3>2. runs'[r].ctx = runs[r].ctx
      BY <1>1, <3>1, Progress
    <3> QED BY <1>3, <2>1, <2>2, <3>2
  <2>3. ASSUME agent'.ctx \in {agent.ctx, None}
        PROVE  agent'.ctx # None => contexts'[agent'.ctx].state # "CLOSED"
    BY <1>3, <2>1, <2>3
  <2>4. ASSUME NEW r \in RunIds, ExecuteRun(r) PROVE Goal
    <3>1. Executing(r)
      BY <2>4, ExecutionShape
    <3>2. ASSUME NEW s \in RunIds \ {r} PROVE exec'[s].phase = "none"
      BY <1>3, <2>4, <3>1, <3>2, OthersUntouched DEF Executing
    <3>3. exec'[r].phase \in {"start", "prepare", "prepared"} =>
            /\ exec[r].phase = "start" /\ exec'[r].phase = "prepare"
            /\ exec'[r].ctx = exec[r].ctx /\ agent' = agent
      BY <1>5, <2>4, EarlyPhases
    <3>4. agent'.ctx # None => contexts'[agent'.ctx].state # "CLOSED"
      <4>1. CASE agent'.ctx = agent.ctx
        BY <2>3, <4>1
      <4>2. CASE ExecRecordContext(r)
        <5>1. agent'.ctx \in {agent.ctx, runs[r].ctx} /\ exec[r].phase = "prepared"
          BY <1>1, <4>2 DEF ExecRecordContext, stored, AgentType
        <5> QED BY <1>3, <2>1, <2>3, <5>1
      <4> QED BY <2>4, <4>1, <4>2, ExecutionShape
    <3> QED BY <1>3, <3>2, <3>3, <3>4
  <2>5. ASSUME UNCHANGED exec, agent'.ctx \in {agent.ctx, None} PROVE Goal
    BY <1>3, <2>2, <2>3, <2>5
  <2>6. ASSUME NEW q \in HandlerIds, AdmitRun(q) PROVE Goal
    <3>1. CASE UNCHANGED <<agent, rows, exec>>
      BY <2>5, <3>1
    <3>2. ASSUME NEW r \in RunIds, Admission(r) PROVE Goal
      <4>1. /\ agent'.ctx = agent.ctx /\ exec'[r].phase = "start" /\ exec'[r].ctx = agent.ctx
            /\ \A s \in RunIds \ {r} : exec'[s] = exec[s]
        BY <3>2 DEF Admission
      <4>2. \A s \in RunIds \ {r} : exec'[s].phase = "none"
        BY <1>3, <3>2, <4>1 DEF Admission, Executing
      <4> QED BY <2>3, <4>1, <4>2
    <3> QED BY <2>6, <3>1, <3>2, AdmissionShape
  <2>7. ASSUME NEW q \in HandlerIds, Handle(q) \/ Operator(q), ~AdmitRun(q) PROVE Goal
    <3>1. /\ \A r \in RunIds : exec'[r].phase = exec[r].phase /\ exec'[r].ctx = exec[r].ctx
          /\ agent'.ctx \in {agent.ctx, None}
      BY <2>7, RequestShape
    <3> QED BY <1>3, <2>2, <2>3, <3>1
  <2>8. CASE Background
    <3>1. agent'.ctx = agent.ctx
      BY <2>8, BackgroundShape
    <3>2. CASE \A r \in RunIds : exec'[r] = NoExecution
      <4>1. \A r \in RunIds : exec'[r].phase = "none"
        BY <3>2 DEF NoExecution
      <4> QED BY <2>3, <3>1, <4>1
    <3>3. CASE exec' = exec
      BY <2>5, <3>1, <3>3
    <3> QED BY <2>8, <3>2, <3>3, BackgroundShape
  <2> QED BY <2>4, <2>6, <2>7, <2>8, StepKinds
<1>6. Goal
  BY <1>4, <1>5
<1> QED BY <1>2, <1>6 DEF ContextFollowed, AgentContextNotClosed

(* The context the Agent continues is not closed behind its back, while     *)
(* nobody stops it or revokes its mandate and no call that was given up is  *)
(* handled later.                                                           *)
THEOREM ContextNotClosed ==
    ASSUME Operations \cap {"stop", "revoke"} = {}, MaxLate = 0
    PROVE  ServiceSpec => []AgentContextNotClosed
<1>1. ServiceInit => Alone /\ ContextFollowed
  <2> SUFFICES ASSUME ServiceInit PROVE Alone /\ ContextFollowed
    OBVIOUS
  <2>1. \A r \in RunIds : exec[r].phase = "none"
    BY DEF ServiceInit, NoExecution
  <2>2. late = {} /\ agent.ctx = None
    BY DEF ServiceInit
  <2>3. \A q \in HandlerIds : handlers[q].kind = "none" /\ handlers[q].step = "none"
    BY DEF ServiceInit, Idle
  <2> QED BY <2>1, <2>2, <2>3
          DEF Alone, OneExecution, Executing, ContextFollowed, AgentContextNotClosed
<1>2. ServiceInv /\ Alone /\ ContextFollowed /\ [ServiceNext]_vars
        => Alone' /\ ContextFollowed'
  BY AloneStep, ContextFollowedStep
<1>3. ContextFollowed => AgentContextNotClosed
  BY DEF ContextFollowed
<1> QED BY <1>1, <1>2, <1>3, ServiceInductiveInvariant, PTL DEF ServiceSpec
=============================================================================
