---------------------------- MODULE AgentService ----------------------------
(***************************************************************************)
(* The Node control plane (CodeJam/apps/server/src/agent-service.ts) for   *)
(* one Agent, above the sidecar of module Authority: its stored Runs, the  *)
(* asynchronous executions, the request handlers, and the control calls   *)
(* between the two processes.                                              *)
(*                                                                         *)
(* JsonStore.mutate runs one mutation at a time, so a mutation is one      *)
(* step; between two awaits anything else may happen.  A control call may  *)
(* fail whatever the sidecar did with it (refused, unreachable, timed out  *)
(* after 5 s), and an abandoned request may still be handled later.        *)
(* Either process may crash and restart.  MandateFlow is enabled.          *)
(*                                                                         *)
(* ServeFinishAnyTerminal, ThrowSettled, PrepareCallFresh, RunnerHangs,    *)
(* SettledAgentUncancelled, AdmissibleBusy and RestartedClosed are the     *)
(* operators after them with one plausible slip; each breaks a property    *)
(* below, and ServiceSpec uses none of them.                               *)
(***************************************************************************)
EXTENDS Authority, FiniteSetsExt

CONSTANTS
    Agent, Owner,   \* the Agent and its ownerPrincipal
    HandlerIds,     \* requests of the operator that may be handled together
    Operations,     \* kinds of operator request made in this instance
    Attempts,       \* calls made by finishMandate before it gives up
    WaitsTimeOut,   \* whether waitForCancellation may run into its 8 s
    MaxCrashes,     \* bound: restarts of either process
    MaxLate         \* bound: abandoned control calls still on their way

AllOperations == {"send", "retry", "workflow", "start", "stop", "revoke", "delete"}

ASSUME AgentAssumption == Agent \in Agents /\ Owner \in Owners
ASSUME OperationAssumption == Operations \subseteq AllOperations
(* prepare always asks for MANDATE_PERMISSIONS, all that is registered.   *)
ASSUME ServiceRequestAssumption == Platform \in Requests
ASSUME AttemptsAssumption == Attempts \in Nat \ {0} /\ WaitsTimeOut \in BOOLEAN
(* Ids are drawn at random; here Runs and contexts are numbered in the     *)
(* order they are created, and a capability has the number of its Run.     *)
ASSUME NumberingAssumption ==
    RunIds \subseteq Nat /\ CtxIds \subseteq Nat /\ Caps = RunIds

VARIABLES
    agent,       \* status and activePolicyContextId of the stored Agent
    rows,        \* stored Runs
    exec,        \* executeRun of each Run
    activeExec,  \* activeExecutions, for this Agent
    cancelReq,   \* cancellationRequests
    handlers,    \* the operator's requests in progress
    late,        \* control calls given up by the client and not yet handled
    crashes      \* restarts so far

stored == <<agent, rows>>
volatile == <<exec, activeExec, cancelReq>>
serviceVars == <<stored, volatile, handlers, late, crashes>>
vars == <<authVars, serviceVars>>

-----------------------------------------------------------------------------
(* Records.                                                                *)

SettledStatus == {"completed", "failed", "cancelled"}
NoRow == [status |-> "none", mandate |-> "pending", ctx |-> None,
          retryOf |-> None, codexFinished |-> FALSE]

Row == [status  : {"none", "queued", "running"} \cup SettledStatus,
        mandate : {"pending", "active", "finalizing", "closed", "revoked",
                   "security-finalization-pending"},
        ctx     : CtxIds \cup {None},
        retryOf : RunIds \cup {None},
        codexFinished : BOOLEAN]  \* error starts with "Codex finished,"

(* The awaits of executeRun; "none" is no execution.                       *)
Phases == {"none", "start", "prepare", "prepared", "activate", "activated", "launch",
           "starting", "running", "returned", "finish", "complete", "invalidate", "settle"}

(* ctx is activePolicyContextId of agentAtStart; unconfirmed is what       *)
(* finishMandate gave up on.                                               *)
Execution == [phase : Phases, ctx : CtxIds \cup {None}, tries : 0..Attempts,
              cancelled : BOOLEAN, unconfirmed : {"nothing", "completion", "invalidation"}]
NoExecution == [phase |-> "none", ctx |-> None, tries |-> 0,
                cancelled |-> FALSE, unconfirmed |-> "nothing"]

Steps == {"none", "reconcile", "evidence", "close", "admit", "call", "cancel",
          "wait", "apply"}
Handler == [kind  : AllOperations \cup {"none", "initialize"},
            step  : Steps,
            run   : RunIds \cup {None},
            ctx   : CtxIds \cup {None},
            todo  : SUBSET RunIds,
            tries : 0..Attempts]
Idle == [kind |-> "none", step |-> "none", run |-> None, ctx |-> None,
         todo |-> {}, tries |-> 0]

Executing(r) == exec[r].phase # "none"
Unsettled(r) == rows[r].status \in {"queued", "running"}
UnsettledRuns == {r \in RunIds : Unsettled(r)}
PendingRuns == {r \in RunIds : rows[r].mandate = "security-finalization-pending"}
Exists == agent.status # "deleted"

-----------------------------------------------------------------------------
(* Control calls.  Serve(c) is the handler of the sidecar when it accepts  *)
(* the call, replays included.                                             *)

UnusedContexts == {c \in CtxIds : contexts[c].state = "NONE"}

ServePrepare(c) ==
    LET r == c.run IN
    \/ /\ c.retryOf # None
       /\ c.ctx = runs[c.retryOf].ctx
       /\ PrepareRetry(r, Agent, Owner, Platform, r, c.retryOf)
    \/ /\ c.retryOf = None /\ c.ctx # None
       /\ PrepareFollowUp(r, Agent, Owner, Platform, r, c.ctx, c.predecessor)
    \/ /\ c.retryOf = None /\ c.ctx = None
       /\ \E new \in UnusedContexts :
            /\ \A other \in UnusedContexts : new <= other
            /\ PrepareNew(r, Agent, Owner, Platform, r, new)

ServeActivate(c) ==
    \/ Activate(c.run)
    \/ runs[c.run].state = "ACTIVE" /\ UNCHANGED authVars

ServeFinishAnyTerminal(c) ==
    \/ Finish(c.run, c.status)
    \/ ~Live(c.run) /\ UNCHANGED authVars
ServeFinish(c) ==
    \/ Finish(c.run, c.status)
    \/ runs[c.run].state = c.status /\ UNCHANGED authVars

ServeRevoke(c) ==
    \/ RevokeMandate(c.ctx)
    \/ contexts[c.ctx].state = "REVOKED" /\ UNCHANGED authVars

Serve(c) ==
    \/ c.op = "prepare" /\ ServePrepare(c)
    \/ c.op = "activate" /\ ServeActivate(c)
    \/ c.op = "finish" /\ ServeFinish(c)
    \/ c.op = "revoke" /\ ServeRevoke(c)

(* A refusal changes nothing, but for an activation that comes too late.   *)
Refuse(c) ==
    \/ UNCHANGED authVars
    \/ c.op = "activate" /\ ActivateLate(c.run)

(* MandateFlowClient.request: an error says nothing of the handler.        *)
Call(c, reply) ==
    \/ reply = "ok" /\ Serve(c) /\ UNCHANGED late
    \/ reply = "error" /\ (Serve(c) \/ Refuse(c)) /\ UNCHANGED late
    \/ /\ reply = "error"
       /\ Cardinality(late) < MaxLate
       /\ late' = late \cup {c}
       /\ UNCHANGED authVars

LateCallArrives(c) ==
    /\ late' = late \ {c}
    /\ Serve(c) \/ Refuse(c)
    /\ UNCHANGED <<stored, volatile, handlers, crashes>>

FinishCall(r, status) == [op |-> "finish", run |-> r, status |-> status]
Replies == {"ok", "error"}

-----------------------------------------------------------------------------
(* executeRun, from await to await.  The catch block reads the flag at     *)
(* once; it invalidates what was prepared, unless finishMandate has        *)
(* already failed to confirm the completion.                               *)

MoveTo(r, phase) == exec' = [exec EXCEPT ![r].phase = phase]
StoredTogether(r) == rows[r].status # "none" /\ Exists

Throw(r, prepared) ==
    exec' = [exec EXCEPT ![r] =
        [exec[r] EXCEPT !.phase = IF prepared THEN "invalidate" ELSE "settle",
                        !.cancelled = exec[r].cancelled \/ r \in cancelReq, !.tries = 0]]
ThrowSettled(r) ==
    exec' = [exec EXCEPT ![r] =
        [exec[r] EXCEPT !.phase = "settle",
                        !.cancelled = exec[r].cancelled \/ r \in cancelReq, !.tries = 0]]
ThrowUnconfirmed(r) ==
    exec' = [exec EXCEPT ![r] =
        [exec[r] EXCEPT !.phase = "settle", !.unconfirmed = "completion",
                        !.cancelled = exec[r].cancelled \/ r \in cancelReq, !.tries = 0]]

ExecStart(r) ==
    /\ exec[r].phase = "start"
    /\ IF r \in cancelReq THEN Throw(r, FALSE) ELSE MoveTo(r, "prepare")
    /\ UNCHANGED <<authVars, stored, activeExec, cancelReq, handlers, late, crashes>>

(* The latest completed Run of the context the Agent had at admission.     *)
Predecessors(r) ==
    {p \in RunIds \ {r} : rows[p].status = "completed" /\ rows[p].ctx = exec[r].ctx}
PrepareCallFresh(r) ==
    [op |-> "prepare", run |-> r, ctx |-> None, retryOf |-> rows[r].retryOf,
     predecessor |-> None]
PrepareCall(r) ==
    [op |-> "prepare", run |-> r, ctx |-> exec[r].ctx, retryOf |-> rows[r].retryOf,
     predecessor |-> IF Predecessors(r) = {} THEN None ELSE Max(Predecessors(r))]

ExecPrepare(r) ==
    /\ exec[r].phase = "prepare"
    /\ \E reply \in Replies :
         /\ Call(PrepareCall(r), reply)
         /\ IF reply = "ok" THEN MoveTo(r, "prepared") ELSE Throw(r, FALSE)
    /\ UNCHANGED <<stored, activeExec, cancelReq, handlers, crashes>>

ExecRecordContext(r) ==
    /\ exec[r].phase = "prepared"
    /\ IF StoredTogether(r)
       THEN /\ rows' = [rows EXCEPT ![r].ctx = runs[r].ctx]
            /\ agent' = [agent EXCEPT !.ctx = runs[r].ctx]
       ELSE UNCHANGED stored
    /\ MoveTo(r, "activate")
    /\ UNCHANGED <<authVars, activeExec, cancelReq, handlers, late, crashes>>

ExecActivate(r) ==
    /\ exec[r].phase = "activate"
    /\ \E reply \in Replies :
         /\ Call([op |-> "activate", run |-> r], reply)
         /\ IF reply = "ok" THEN MoveTo(r, "activated") ELSE Throw(r, TRUE)
    /\ UNCHANGED <<stored, activeExec, cancelReq, handlers, crashes>>

ExecMarkRunning(r) ==
    /\ exec[r].phase = "activated"
    /\ rows' = IF rows[r].status # "none"
               THEN [rows EXCEPT ![r].status = "running", ![r].mandate = "active"]
               ELSE rows
    /\ MoveTo(r, "launch")
    /\ UNCHANGED <<authVars, agent, activeExec, cancelReq, handlers, late, crashes>>

ExecLaunch(r) ==
    /\ exec[r].phase = "launch"
    /\ IF r \in cancelReq THEN Throw(r, TRUE) ELSE MoveTo(r, "starting")
    /\ UNCHANGED <<authVars, stored, activeExec, cancelReq, handlers, late, crashes>>

(* CodexRunner.run: until the child process is spawned and registered, a   *)
(* cancellation does not find it and goes unheard.                         *)
ExecSpawn(r) ==
    /\ exec[r].phase = "starting"
    /\ MoveTo(r, "running") \/ Throw(r, TRUE)
    /\ UNCHANGED <<authVars, stored, activeExec, cancelReq, handlers, late, crashes>>

(* The Runtime answers, fails, times out or is killed by a cancellation;   *)
(* an answer is not taken while a cancellation is noted, heard or not, and *)
(* an incomplete proof is a failure too.                                   *)
RunnerHangs(r) == exec[r].cancelled /\ Throw(r, TRUE)
RunnerReturns(r) ==
    \/ ~exec[r].cancelled /\ r \notin cancelReq /\ MoveTo(r, "returned")
    \/ Throw(r, TRUE)

ExecRunnerReturns(r) ==
    /\ exec[r].phase = "running"
    /\ RunnerReturns(r)
    /\ UNCHANGED <<authVars, stored, activeExec, cancelReq, handlers, late, crashes>>

ExecMarkFinalizing(r) ==
    /\ exec[r].phase = "returned"
    /\ rows' = IF rows[r].status # "none"
               THEN [rows EXCEPT ![r].mandate = "finalizing"] ELSE rows
    /\ exec' = [exec EXCEPT ![r].phase = "finish", ![r].tries = 0]
    /\ UNCHANGED <<authVars, agent, activeExec, cancelReq, handlers, late, crashes>>

(* finishMandate: one attempt after the other.                             *)
TriesLeft(tries) == tries + 1 < Attempts
TryAgain(r) ==
    exec' = [exec EXCEPT ![r].tries = IF TriesLeft(@) THEN @ + 1 ELSE 0]

ExecFinish(r) ==
    /\ exec[r].phase = "finish"
    /\ \E reply \in Replies :
         /\ Call(FinishCall(r, "COMPLETED"), reply)
         /\ CASE reply = "ok"              -> MoveTo(r, "complete")
              [] TriesLeft(exec[r].tries)  -> TryAgain(r)
              [] OTHER                     -> ThrowUnconfirmed(r)
    /\ UNCHANGED <<stored, activeExec, cancelReq, handlers, crashes>>

ExecInvalidate(r) ==
    /\ exec[r].phase = "invalidate"
    /\ \E reply \in Replies :
         /\ Call(FinishCall(r, IF exec[r].cancelled THEN "CANCELLED" ELSE "FAILED"), reply)
         /\ CASE reply = "ok"              -> MoveTo(r, "settle")
              [] TriesLeft(exec[r].tries)  -> TryAgain(r)
              [] OTHER -> exec' = [exec EXCEPT ![r].phase = "settle",
                                                ![r].unconfirmed = "invalidation"]
    /\ UNCHANGED <<stored, activeExec, cancelReq, handlers, crashes>>

(* The finally block and the removal from activeExecutions.                *)
EndExecution(r) ==
    /\ exec' = [exec EXCEPT ![r] = NoExecution]
    /\ activeExec' = IF activeExec = r THEN None ELSE activeExec
    /\ cancelReq' = cancelReq \ {r}
    /\ UNCHANGED <<authVars, handlers, late, crashes>>

ExecComplete(r) ==
    /\ exec[r].phase = "complete"
    /\ IF StoredTogether(r)
       THEN /\ rows' = [rows EXCEPT ![r].status = "completed", ![r].mandate = "closed"]
            /\ agent' = [agent EXCEPT !.status = "ready"]
       ELSE UNCHANGED stored
    /\ EndExecution(r)

SettledAgentUncancelled(e) ==
    IF agent.status \in {"stopped", "deleted"} \/ e.cancelled THEN agent
    ELSE [agent EXCEPT !.status = "error"]
SettledAgent(e) ==
    IF agent.status \in {"stopped", "deleted"} THEN agent
    ELSE [agent EXCEPT !.status = IF e.cancelled THEN "ready" ELSE "error"]

ExecSettle(r) ==
    LET e == exec[r] IN
    /\ e.phase = "settle"
    /\ rows' = IF rows[r].status = "none" THEN rows
               ELSE [rows EXCEPT ![r] =
                      [@ EXCEPT !.status = IF e.cancelled THEN "cancelled" ELSE "failed",
                                !.mandate = IF e.unconfirmed = "nothing" THEN "closed"
                                            ELSE "security-finalization-pending",
                                !.codexFinished = e.unconfirmed = "completion"]]
    /\ agent' = SettledAgent(e)
    /\ EndExecution(r)

-----------------------------------------------------------------------------
(* The operator's requests.  Every one that may issue authority first      *)
(* reconciles the Runs it finds pending, then looks for pending ones       *)
(* again, and only then queues its mutation.                               *)

Serving == \A q \in HandlerIds : handlers[q].kind # "initialize"
Proceed(q, fields) == handlers' = [handlers EXCEPT ![q] = fields]
Done(q) == Proceed(q, Idle)

RetryEligible(original) ==
    /\ rows[original].status = "completed"
    /\ rows[original].ctx # None /\ rows[original].ctx = agent.ctx

Starts(q, kind, original) ==
    /\ handlers[q] = Idle /\ Serving /\ Exists
    /\ kind \in Operations \cap {"send", "retry", "workflow"}
    /\ IF original = None THEN kind # "retry"
       ELSE kind = "retry" /\ RetryEligible(original)
    /\ Proceed(q, [Idle EXCEPT !.kind = kind, !.step = "reconcile",
                                    !.run = original, !.todo = PendingRuns])
    /\ UNCHANGED <<authVars, stored, volatile, late, crashes>>

Intended(r) ==
    CASE rows[r].status = "cancelled" -> "CANCELLED"
      [] rows[r].codexFinished        -> "COMPLETED"
      [] OTHER                        -> "FAILED"

ReconcileFinish(q) ==
    LET r == Min(handlers[q].todo)
        tries == handlers[q].tries
    IN
    /\ handlers[q].step = "reconcile" /\ handlers[q].todo # {}
    /\ \E reply \in Replies :
         /\ Call(FinishCall(r, Intended(r)), reply)
         /\ Proceed(q, [handlers[q] EXCEPT
                !.step = CASE reply = "ok"      -> "close"
                           [] TriesLeft(tries)  -> "reconcile"
                           [] OTHER             -> "evidence",
                !.tries = IF reply = "error" /\ TriesLeft(tries) THEN tries + 1 ELSE 0])
    /\ UNCHANGED <<stored, volatile, crashes>>

(* The evidence may show that the Run ended some other way.                *)
ReconcileEvidence(q) ==
    LET r == Min(handlers[q].todo) IN
    /\ handlers[q].step = "evidence"
    /\ \/ ~Live(r) /\ Proceed(q, [handlers[q] EXCEPT !.step = "close"])
       \/ Proceed(q, [handlers[q] EXCEPT !.step = "reconcile", !.todo = @ \ {r}])
    /\ UNCHANGED <<authVars, stored, volatile, late, crashes>>

ReconcileClose(q) ==
    LET r == Min(handlers[q].todo) IN
    /\ handlers[q].step = "close"
    /\ rows' = IF r \in PendingRuns THEN [rows EXCEPT ![r].mandate = "closed"] ELSE rows
    /\ Proceed(q, [handlers[q] EXCEPT !.step = "reconcile", !.todo = @ \ {r}])
    /\ UNCHANGED <<authVars, agent, volatile, late, crashes>>

RequireFinalized(q) ==
    /\ handlers[q].step = "reconcile" /\ handlers[q].todo = {}
    /\ IF handlers[q].kind # "initialize" /\ PendingRuns = {}
       THEN Proceed(q, [handlers[q] EXCEPT !.step = "admit"])
       ELSE Done(q)
    /\ UNCHANGED <<authVars, stored, volatile, late, crashes>>

(* createRun: the atomic admission, and the execution it starts.           *)
AdmissibleBusy(original) ==
    agent.status # "stopped" /\ Exists /\ (original # None => RetryEligible(original))
Admissible(original) ==
    /\ agent.status \in {"ready", "error"}
    /\ original # None => RetryEligible(original)

AdmitRun(q) ==
    LET original == handlers[q].run
        fresh == {r \in RunIds : rows[r].status = "none"}
        r == Min(fresh)
    IN
    /\ handlers[q].step = "admit" /\ handlers[q].kind \in {"send", "retry"}
    /\ IF Admissible(original) /\ fresh # {}
       THEN /\ rows' = [rows EXCEPT ![r] = [NoRow EXCEPT !.status = "queued",
                                                        !.retryOf = original]]
            /\ agent' = [agent EXCEPT !.status = "busy"]
            /\ exec' = [exec EXCEPT ![r] = [NoExecution EXCEPT !.phase = "start",
                                                              !.ctx = agent.ctx]]
            /\ activeExec' = r
       ELSE UNCHANGED <<stored, exec, activeExec>>
    /\ Done(q)
    /\ UNCHANGED <<authVars, cancelReq, late, crashes>>

(* newDemoWorkflow: the Agent forgets its context.                         *)
NewWorkflow(q) ==
    /\ handlers[q].step = "admit" /\ handlers[q].kind = "workflow"
    /\ agent' = IF Exists /\ agent.status # "busy" /\ UnsettledRuns = {}
                THEN [status |-> IF agent.status = "error" THEN "ready" ELSE agent.status,
                      ctx |-> None]
                ELSE agent
    /\ Done(q)
    /\ UNCHANGED <<authVars, rows, volatile, late, crashes>>

(* startAgent.                                                             *)
StartAgent ==
    /\ "start" \in Operations /\ Serving /\ Exists
    /\ agent.status # "busy"
    /\ agent' = [agent EXCEPT !.status = "ready"]
    /\ UNCHANGED <<authVars, rows, volatile, handlers, late, crashes>>

(* stopAgent and deleteAgent: cancelExecution, then one mutation.  The     *)
(* request is noted, and a registered Runtime is killed.                   *)
Cancels(q, kind, todo, candidates) ==
    IF candidates = {}
    THEN /\ Proceed(q, [Idle EXCEPT !.kind = kind, !.step = "apply", !.todo = todo])
         /\ UNCHANGED <<cancelReq, exec>>
    ELSE /\ Proceed(q, [Idle EXCEPT !.kind = kind, !.step = "cancel", !.todo = todo,
                                         !.run = Min(candidates)])
         /\ cancelReq' = cancelReq \cup {Min(candidates)}
         /\ exec' = [exec EXCEPT ![Min(candidates)].cancelled =
                        @ \/ exec[Min(candidates)].phase = "running"]

StopOrDelete(q, kind) ==
    /\ handlers[q] = Idle /\ Serving /\ Exists
    /\ kind \in Operations \cap {"stop", "delete"}
    /\ Cancels(q, kind, {}, UnsettledRuns)
    /\ UNCHANGED <<authVars, stored, activeExec, late, crashes>>

(* runner.cancel has answered, failed or timed out: the execution that is  *)
(* waited for is the one activeExecutions holds now.                       *)
CancelReturns(q) ==
    /\ handlers[q].step = "cancel"
    /\ IF activeExec # None
       THEN /\ Proceed(q, [handlers[q] EXCEPT !.step = "wait", !.run = activeExec])
            /\ UNCHANGED cancelReq
       ELSE /\ Proceed(q, [handlers[q] EXCEPT !.step = "apply"])
            /\ cancelReq' = cancelReq \ {handlers[q].run}
    /\ UNCHANGED <<authVars, stored, exec, activeExec, late, crashes>>

WaitEnds(q) ==
    /\ handlers[q].step = "wait"
    /\ ~Executing(handlers[q].run) \/ WaitsTimeOut
    /\ Proceed(q, [handlers[q] EXCEPT !.step = "apply"])
    /\ UNCHANGED <<authVars, stored, volatile, late, crashes>>

ApplyStop(q) ==
    /\ handlers[q].step = "apply" /\ handlers[q].kind = "stop"
    /\ agent' = IF Exists THEN [agent EXCEPT !.status = "stopped"] ELSE agent
    /\ Done(q)
    /\ UNCHANGED <<authVars, rows, volatile, late, crashes>>

ApplyDelete(q) ==
    /\ handlers[q].step = "apply" /\ handlers[q].kind = "delete"
    /\ agent' = [status |-> "deleted", ctx |-> None]
    /\ rows' = [r \in RunIds |-> NoRow]
    /\ Done(q)
    /\ UNCHANGED <<authVars, volatile, late, crashes>>

(* revokeMandate: the sidecar first, then the Runtime, then the rows.      *)
StartRevoke(q, c) ==
    /\ handlers[q] = Idle /\ Serving
    /\ "revoke" \in Operations
    /\ \E r \in RunIds : rows[r].status # "none" /\ rows[r].ctx = c
    /\ Proceed(q, [Idle EXCEPT !.kind = "revoke", !.step = "call", !.ctx = c])
    /\ UNCHANGED <<authVars, stored, volatile, late, crashes>>

(* affectedRunIds: what this revocation withdraws, or, when it repeats one,*)
(* what the first withdrew and nobody closed yet.                          *)
RevokedBy(c) ==
    IF contexts[c].state = "REVOKED" THEN {r \in RunsOf(c) : runs[r].state = "REVOKED"}
    ELSE Affected(c)

CallRevoke(q) ==
    LET c == handlers[q].ctx IN
    /\ handlers[q].step = "call"
    /\ \E reply \in Replies :
         /\ Call([op |-> "revoke", ctx |-> c], reply)
         /\ IF reply = "ok"
            THEN Cancels(q, "revoke", RevokedBy(c), RevokedBy(c) \cap UnsettledRuns)
            ELSE Done(q) /\ UNCHANGED <<cancelReq, exec>>
    /\ UNCHANGED <<stored, activeExec, crashes>>

ApplyRevoke(q) ==
    LET affected == {r \in handlers[q].todo : rows[r].status # "none"} IN
    /\ handlers[q].step = "apply" /\ handlers[q].kind = "revoke"
    /\ rows' = [r \in RunIds |->
          IF r \notin affected THEN rows[r]
          ELSE [rows[r] EXCEPT !.mandate = "revoked",
                               !.status = IF Unsettled(r) THEN "cancelled" ELSE @]]
    /\ agent' = IF agent.status = "busy" THEN [agent EXCEPT !.status = "ready"] ELSE agent
    /\ Done(q)
    /\ UNCHANGED <<authVars, volatile, late, crashes>>

-----------------------------------------------------------------------------
(* Restarts.  initialize settles what was queued or running, and, when the *)
(* sidecar is ready, reconciles before the server listens.                 *)

RestartedClosed(r) ==
    IF ~Unsettled(r) THEN rows[r]
    ELSE [rows[r] EXCEPT !.status = "cancelled", !.codexFinished = FALSE,
                         !.mandate = "closed"]
Restarted(r) ==
    IF ~Unsettled(r) THEN rows[r]
    ELSE [rows[r] EXCEPT !.status = "cancelled",
                         !.codexFinished = FALSE,
                         !.mandate = IF rows[r].ctx # None
                                     THEN "security-finalization-pending" ELSE "closed"]

NodeRestart ==
    /\ crashes < MaxCrashes
    /\ rows' = [r \in RunIds |-> Restarted(r)]
    /\ agent' = IF agent.status = "busy" THEN [agent EXCEPT !.status = "ready"] ELSE agent
    /\ exec' = [r \in RunIds |-> NoExecution]
    /\ activeExec' = None
    /\ cancelReq' = {}
    /\ \/ handlers' = [q \in HandlerIds |-> Idle]
       \/ \E q \in HandlerIds :
            handlers' = [p \in HandlerIds |->
                IF p # q THEN Idle
                ELSE [Idle EXCEPT !.kind = "initialize", !.step = "reconcile",
                        !.todo = {r \in RunIds :
                                    rows'[r].mandate = "security-finalization-pending"}]]
    /\ crashes' = crashes + 1
    /\ UNCHANGED <<authVars, late>>

SidecarRestart ==
    /\ crashes < MaxCrashes
    /\ Restart
    /\ late' = {}
    /\ crashes' = crashes + 1
    /\ UNCHANGED <<stored, volatile, handlers>>

-----------------------------------------------------------------------------
ServiceInit ==
    /\ Init
    /\ agent = [status |-> "ready", ctx |-> None]
    /\ rows = [r \in RunIds |-> NoRow]
    /\ exec = [r \in RunIds |-> NoExecution]
    /\ activeExec = None
    /\ cancelReq = {}
    /\ handlers = [q \in HandlerIds |-> Idle]
    /\ late = {}
    /\ crashes = 0

ExecuteRun(r) ==
    \/ ExecStart(r) \/ ExecPrepare(r) \/ ExecRecordContext(r) \/ ExecActivate(r)
    \/ ExecMarkRunning(r) \/ ExecLaunch(r) \/ ExecSpawn(r)
    \/ ExecRunnerReturns(r) \/ ExecMarkFinalizing(r) \/ ExecFinish(r) \/ ExecInvalidate(r)
    \/ ExecComplete(r) \/ ExecSettle(r)

Reconcile(q) ==
    \/ ReconcileFinish(q) \/ ReconcileEvidence(q) \/ ReconcileClose(q)
    \/ RequireFinalized(q)

Handle(q) ==
    \/ Reconcile(q) \/ AdmitRun(q) \/ NewWorkflow(q)
    \/ CancelReturns(q) \/ WaitEnds(q) \/ ApplyStop(q) \/ ApplyDelete(q)
    \/ CallRevoke(q) \/ ApplyRevoke(q)

Operator(q) ==
    \/ \E kind \in Operations, original \in RunIds \cup {None} : Starts(q, kind, original)
    \/ \E kind \in Operations : StopOrDelete(q, kind)
    \/ \E c \in CtxIds : StartRevoke(q, c)

ServiceNext ==
    \/ \E r \in RunIds : ExecuteRun(r)
    \/ \E q \in HandlerIds : Handle(q) \/ Operator(q)
    \/ StartAgent
    \/ NodeRestart \/ SidecarRestart
    \/ \E c \in late : LateCallArrives(c)
    \/ Tick /\ UNCHANGED serviceVars

ServiceSpec == ServiceInit /\ [][ServiceNext]_vars

(* Every await of an execution ends: a call is aborted after 5 s, the      *)
(* Runtime is killed after codexTimeoutMs, a mutation is a local write.    *)
FairServiceSpec == ServiceSpec /\ \A r \in RunIds : WF_vars(ExecuteRun(r))

-----------------------------------------------------------------------------
(* Rows, executions and handlers stay well typed.                          *)
ServiceTypeOK ==
    /\ TypeOK
    /\ agent \in [status : {"ready", "busy", "stopped", "error", "deleted"},
                  ctx    : CtxIds \cup {None}]
    /\ rows \in [RunIds -> Row]
    /\ exec \in [RunIds -> Execution]
    /\ activeExec \in RunIds \cup {None}
    /\ cancelReq \subseteq RunIds
    /\ handlers \in [HandlerIds -> Handler]

(* A Run is published as completed only when the sidecar has confirmed it. *)
CompletionIsConfirmed ==
    \A r \in RunIds : rows[r].status = "completed" => runs[r].state = "COMPLETED"

(* The control plane never loses sight of a usable capability: while a Run *)
(* is ACTIVE at the sidecar its row is not shown closed or revoked, and    *)
(* when nothing executes it any more it is recorded as pending, so that it *)
(* will be reconciled.  (A deleted Agent has no rows left.)                *)
AuthorityIsAccountedFor ==
    \A r \in RunIds : Exists /\ runs[r].state = "ACTIVE" =>
        /\ rows[r].mandate \notin {"closed", "revoked"}
        /\ ~Executing(r) => rows[r].mandate = "security-finalization-pending"

(* A busy Agent is executing something: it never stays busy for nothing.   *)
BusyIsExecuting == agent.status = "busy" => \E r \in RunIds : Executing(r)

(* Only one Run of an Agent is executed at a time.                         *)
OneExecution == \A r, s \in RunIds : Executing(r) /\ Executing(s) => r = s

(* A published outcome is final: a completed Run keeps its status, and a   *)
(* failed or cancelled one is not published as completed, whatever the     *)
(* execution, a revocation and a restart still write.                      *)
OutcomeStep ==
    \A r \in RunIds : rows'[r].status # "none" =>
        /\ rows[r].status = "completed" => rows'[r].status = "completed"
        /\ rows[r].status \in {"failed", "cancelled"} => rows'[r].status # "completed"
OutcomesAreFinal == [][OutcomeStep]_vars

(* The context the Agent continues is not closed behind its back by the    *)
(* preparation of another Run.                                             *)
AgentContextNotClosed == agent.ctx # None => contexts[agent.ctx].state # "CLOSED"

(* Every admitted Run is settled.                                          *)
EveryRunSettles == \A r \in RunIds : Executing(r) ~> ~Executing(r) /\ ~Unsettled(r)
=============================================================================
