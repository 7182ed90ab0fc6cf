------------------------------- MODULE Records -------------------------------
(***************************************************************************)
(* What the control plane keeps on disk: the rows of module JsonStore and  *)
(* the directories of WorkspaceManager (workspace.ts).  Requests create,   *)
(* edit and delete an Agent, each a step on the directory and a mutation,  *)
(* in an order of its own; they revoke its mandate and reconcile a pending *)
(* one, each a call of the sidecar and a mutation; a Run writes its        *)
(* progress and its end (agent-service.ts).  Requests overlap, and a crash *)
(* or a failed write may fall between the two steps of one.                *)
(*                                                                         *)
(* One Agent and one Run of it: ids are UUIDs and never come back.  A      *)
(* queued Run is "running": the mutation between the two was called before *)
(* that of any revocation, which waits for 8 s where the activation waits  *)
(* for 5.                                                                  *)
(*                                                                         *)
(* CutsNewest, RevokedAnyway, MutatesFirst and ForgetsFailure are the      *)
(* operators after them with one plausible slip; each breaks a property    *)
(* below, and RecordsSpec uses none of them.                               *)
(***************************************************************************)
EXTENDS JsonStore, FiniteSetsExt

CONSTANTS
    Callers,     \* HTTP requests that may overlap
    MaxRequests, \* bound: requests of a behaviour
    MaxEvents,   \* bound: progress events of the Run
    LogLimit     \* MAX_RUN_PROGRESS_EVENTS

Statuses == {"none", "running", "completed", "failed", "cancelled"}
LogEntry == [sequence : Nat, event : Nat]
RunRow == [status : Statuses, mandate : {"none", "active", "pending", "closed", "revoked"},
           log : Seq(LogEntry)]
Database == [version : {1, 4}, applied : Seq(Jobs),
             agent : {Absent} \cup 0..MaxRequests, run : RunRow]

ASSUME RecordsAssumption ==
    /\ MaxRequests \in Nat /\ MaxEvents \in Nat /\ LogLimit \in Nat \ {0}
    /\ {Absent, Torn} \cap Database = {} /\ Absent \notin Nat

VARIABLES
    workspace,  \* the directory: where it is, and what AGENTS.md says
    requests,   \* the request each caller has made
    made,       \* requests so far, which number the instructions they bring
    execution,  \* executeRun of the Run
    authority,  \* of the Run at the sidecar: "live", "revoked", "finished"
    events,     \* progress events so far
    chain,      \* progressWrites: the events that wait for their mutation
    writing     \* the mutation of the first of them, or of the end of the Run

recordVars == <<workspace, requests, made, execution, authority, events, chain, writing>>
allVars == <<storeVars, recordVars>>

-----------------------------------------------------------------------------
(* The database: the instructions of the Agent, 0 at first and Absent when *)
(* it is deleted, and the Run.                                             *)

NoRun == [status |-> "none", mandate |-> "none", log |-> <<>>]
Empty == [version |-> 4, applied |-> <<>>, agent |-> Absent, run |-> NoRun]

(* Files of version 1 knew no mandates and no progress.                    *)
Legacy(status) == [version |-> 1, applied |-> <<>>, agent |-> 0,
                   run |-> [NoRun EXCEPT !.status = status]]
Migrate(db) ==
    IF db.version = 1 /\ db.run.status # "none" THEN [db EXCEPT !.run.mandate = "closed"] ELSE db

(* An entry is the event it was made for, 0 for the one of the end.        *)
Entry(sequence, event) == [sequence |-> sequence, event |-> event]

(* addRunProgress: the next number after the greatest, and the last        *)
(* LogLimit entries.                                                       *)
CutsNewest(log, event) ==
    LET greatest == Max({0} \cup {log[n].sequence : n \in DOMAIN log})
        longer == Append(log, Entry(greatest + 1, event))
    IN  IF Len(longer) > LogLimit THEN Front(longer) ELSE longer
AddRunProgress(log, event) ==
    LET greatest == Max({0} \cup {log[n].sequence : n \in DOMAIN log})
        longer == Append(log, Entry(greatest + 1, event))
    IN  IF Len(longer) > LogLimit THEN Tail(longer) ELSE longer

Executing(db) == db.run.status = "running"

(* Initialize ends what was running; without a mandate there is nothing    *)
(* left to finalize.                                                       *)
Recovered(db) ==
    IF Executing(db)
    THEN [db EXCEPT !.run.status = "cancelled",
                    !.run.mandate = IF @ = "closed" THEN "closed" ELSE "pending"]
    ELSE db

Ended(db, status, mandate) ==
    IF db.run.status = "none" \/ (status = "completed" /\ db.agent = Absent) THEN db
    ELSE [db EXCEPT !.run.status = status,
                    !.run.mandate = mandate,
                    !.run.log = AddRunProgress(@, 0)]

RevokedAnyway(db) ==
    [db EXCEPT !.run.status = "cancelled", !.run.mandate = "revoked"]
Revoked(db) ==
    [db EXCEPT !.run.status = IF Executing(db) THEN "cancelled" ELSE @,
               !.run.mandate = "revoked"]

(* What updateAgent says of a busy Agent is left out: an edit may come     *)
(* while a Run executes.                                                   *)
Throws(job, db) == job.kind \in {"update", "start"} /\ db.agent = Absent

Effect(job, db) ==
    CASE job.kind = "create" -> [db EXCEPT !.agent = 0]
      [] job.kind = "update" -> [db EXCEPT !.agent = job.value]
      [] job.kind = "delete" -> [db EXCEPT !.agent = Absent, !.run = NoRun]
      [] job.kind = "start" -> [db EXCEPT !.run = [status |-> "running", mandate |-> "active",
                                                   log |-> <<>>]]
      [] job.kind = "progress" ->
            IF Executing(db) THEN [db EXCEPT !.run.log = AddRunProgress(@, job.value)] ELSE db
      [] job.kind = "end" -> Ended(db, job.value, job.mandate)
      [] job.kind = "recover" -> Recovered(db)
      [] job.kind = "revoke" ->
            IF job.value = 0 \/ db.run.status = "none" THEN db ELSE Revoked(db)
      [] job.kind = "reconcile" ->
            IF db.run.mandate = "pending" THEN [db EXCEPT !.run.mandate = "closed"] ELSE db

Mutation(kind, value) == [id |-> NextJob, kind |-> kind, value |-> value, mandate |-> "closed"]

Apply == queue # <<>> /\ ~Throws(Job, data) /\ Applies(Effect(Job, data))
Throw == queue # <<>> /\ Throws(Job, data) /\ MutationThrows

-----------------------------------------------------------------------------
(* Requests: createAgent, updateAgent, deleteAgent, revokeMandate, and     *)
(* those that first reconcile what is pending.  job is the mutation a      *)
(* request waits for.                                                      *)

RequestKinds == {"create", "update", "delete", "revoke", "reconcile"}
Idle == [op |-> "none", phase |-> "idle", value |-> 0, job |-> 0]
Moves(c, phase) == requests' = [requests EXCEPT ![c].phase = phase]
Done(c) == requests' = [requests EXCEPT ![c] = Idle]
Waits(c, job) == requests' = [requests EXCEPT ![c].phase = "mutating", ![c].job = job]

(* getAgent reads a snapshot; a second createAgent is another Agent.       *)
Known(op) ==
    CASE op = "create" -> workspace.at = "nowhere" /\ data.agent = Absent
      [] op = "revoke" -> data.run.status # "none"
      [] op = "reconcile" -> data.run.mandate = "pending"
      [] OTHER -> data.agent # Absent

Request(c, op) ==
    /\ process = "up" /\ requests[c] = Idle /\ made < MaxRequests
    /\ Known(op)
    /\ op = "create" => \A d \in Callers : requests[d].op # "create"
    /\ made' = made + 1
    /\ requests' = [requests EXCEPT ![c] = [op |-> op, phase |-> "asked",
                                           value |-> made + 1, job |-> 0]]
    /\ UNCHANGED <<storeVars, workspace, execution, authority, events, chain, writing>>

(* The step on the directory that create and delete take first.            *)
MakesDirectory(c) ==
    /\ requests[c].op = "create" /\ requests[c].phase = "asked"
    /\ workspace' = [at |-> "root", instructions |-> 0]
    /\ Moves(c, "prepared")
    /\ UNCHANGED <<storeVars, made, execution, authority, events, chain, writing>>

(* A directory that another request has archived is an error.              *)
Archives(c) ==
    /\ requests[c].op = "delete" /\ requests[c].phase = "asked"
    /\ IF workspace.at = "root"
       THEN workspace' = [workspace EXCEPT !.at = ".deleted"] /\ Moves(c, "prepared")
       ELSE Done(c) /\ UNCHANGED workspace
    /\ UNCHANGED <<storeVars, made, execution, authority, events, chain, writing>>

(* A failed call on the directory answers the request with an error.       *)
DirectoryFails(c) ==
    /\ requests[c].phase \in {"asked", "mutated"}
    /\ requests[c].op \in {"create", "delete"} \/ requests[c].phase = "mutated"
    /\ Fault
    /\ Done(c)
    /\ UNCHANGED <<process, data, next, file, temp, queue, step, issued, settled,
                   workspace, made, execution, authority, events, chain, writing>>

(* The sidecar revokes what is not finished, and names the Runs that it    *)
(* affects (value 0: not this one); its answer may be lost, and then the   *)
(* rows stay as they are.  The wait for the Runtime may end without it.    *)
Revokes(c) ==
    /\ requests[c].op = "revoke" /\ requests[c].phase = "asked"
    /\ authority' = IF authority = "finished" THEN "finished" ELSE "revoked"
    /\ \/ Done(c)
       \/ requests' = [requests EXCEPT ![c].phase = "prepared",
                           ![c].value = IF authority = "finished" THEN 0 ELSE @]
    /\ UNCHANGED <<storeVars, workspace, made, execution, events, chain, writing>>

(* The sidecar has finished the Run, or shows that it is not live.         *)
Reconciled(a) == IF a = "live" THEN "finished" ELSE a

MutatesFirst(c) == requests[c].phase = "asked"
MayMutate(c) ==
    requests[c].phase =
        IF requests[c].op \in {"update", "reconcile"} THEN "asked" ELSE "prepared"

Mutates(c) ==
    /\ MayMutate(c)
    /\ Mutate(Mutation(requests[c].op, requests[c].value))
    /\ Waits(c, NextJob)
    /\ authority' = IF requests[c].op = "reconcile" THEN Reconciled(authority) ELSE authority
    /\ UNCHANGED <<workspace, made, execution, events, chain, writing>>

(* The mutation was answered; an edit goes on with AGENTS.md.              *)
Returns(c) ==
    /\ requests[c].phase = "mutating"
    /\ settled[requests[c].job] # "none"
    /\ IF requests[c].op = "update" /\ settled[requests[c].job] = "done"
       THEN Moves(c, "mutated") ELSE Done(c)
    /\ UNCHANGED <<storeVars, workspace, made, execution, authority, events, chain, writing>>

(* writeInstructions; the directory may have gone.                         *)
WritesInstructions(c) ==
    /\ requests[c].phase = "mutated"
    /\ workspace' = IF workspace.at = "root"
                    THEN [workspace EXCEPT !.instructions = requests[c].value] ELSE workspace
    /\ Done(c)
    /\ UNCHANGED <<storeVars, made, execution, authority, events, chain, writing>>

-----------------------------------------------------------------------------
(* The Run.                                                                *)

Outcomes == {"completed", "failed", "cancelled"}

StartsRun ==
    /\ process = "up" /\ execution = "none"
    /\ data.agent # Absent /\ data.run = NoRun
    /\ Mutate(Mutation("start", 0))
    /\ execution' = "starting" /\ writing' = NextJob
    /\ UNCHANGED <<workspace, requests, made, authority, events, chain>>

RunStarted ==
    /\ execution = "starting" /\ settled[writing] # "none"
    /\ execution' = IF settled[writing] = "done" THEN "running" ELSE "over"
    /\ writing' = 0
    /\ UNCHANGED <<storeVars, workspace, requests, made, authority, events, chain>>

(* onProgress and executeRun's own entries: queueRunProgress.              *)
Emits ==
    /\ execution = "running" /\ events < MaxEvents
    /\ events' = events + 1
    /\ chain' = Append(chain, events + 1)
    /\ UNCHANGED <<storeVars, workspace, requests, made, execution, authority, writing>>

WritesProgress ==
    /\ execution \in {"running"} \cup Outcomes /\ chain # <<>> /\ writing = 0
    /\ Mutate(Mutation("progress", Head(chain)))
    /\ writing' = NextJob
    /\ UNCHANGED <<workspace, requests, made, execution, authority, events, chain>>

(* Whether it succeeded or not, the next one follows.                      *)
ProgressWritten ==
    /\ execution \in {"running"} \cup Outcomes /\ chain # <<>> /\ writing # 0
    /\ settled[writing] # "none"
    /\ chain' = Tail(chain) /\ writing' = 0
    /\ UNCHANGED <<storeVars, workspace, requests, made, execution, authority, events>>

(* The Runtime has ended or was cancelled.  A completion is confirmed by   *)
(* the sidecar, for which the Run is live until then; a failed Run may be  *)
(* finished there or not, a revoked one only as cancelled.                 *)
RuntimeEnds ==
    /\ execution = "running"
    /\ execution' \in Outcomes
    /\ \/ /\ authority' = "finished"
          /\ authority = "live" \/ execution' = "cancelled"
       \/ execution' # "completed" /\ UNCHANGED authority
    /\ UNCHANGED <<storeVars, workspace, requests, made, events, chain, writing>>

(* flushRunProgress has waited for the chain.  Whether the capability is   *)
(* invalidated may not be certain.                                         *)
EndsRun ==
    /\ execution \in Outcomes /\ chain = <<>> /\ writing = 0
    /\ \E mandate \in {"closed", "pending"} :
          /\ execution = "completed" => mandate = "closed"
          /\ authority # "finished" => mandate = "pending"
          /\ Mutate([Mutation("end", execution) EXCEPT !.mandate = mandate])
    /\ execution' = IF execution = "completed" THEN "completing" ELSE "failing"
    /\ writing' = NextJob
    /\ UNCHANGED <<workspace, requests, made, authority, events, chain>>

(* A completion that could not be stored is stored as a failure; a failure *)
(* that could not be is lost until the next start-up.                      *)
ForgetsFailure == IF execution = "completing" THEN {"over"} ELSE {"lost"}
AfterFailedEnd == IF execution = "completing" THEN {"failed", "cancelled"} ELSE {"lost"}
RunEnded ==
    /\ execution \in {"completing", "failing"} /\ settled[writing] # "none"
    /\ execution' \in IF settled[writing] = "done" THEN {"over"} ELSE AfterFailedEnd
    /\ writing' = 0
    /\ UNCHANGED <<storeVars, workspace, requests, made, authority, events, chain>>

-----------------------------------------------------------------------------
(* Start-up, and its end.                                                  *)

Starts == Boot(Empty, IF file \in {Absent, Torn} THEN Empty ELSE Migrate(file))
          /\ UNCHANGED recordVars

Recovers ==
    /\ process = "recovering" /\ queue = <<>> /\ writing = 0
    /\ Mutate(Mutation("recover", 0))
    /\ writing' = NextJob
    /\ UNCHANGED <<workspace, requests, made, execution, authority, events, chain>>

(* When the sidecar answers, what the recovery left pending is reconciled. *)
StartReconciles ==
    /\ process = "recovering" /\ writing # 0 /\ settled[writing] = "done"
    /\ data.run.mandate = "pending"
    /\ Mutate(Mutation("reconcile", 0))
    /\ writing' = NextJob
    /\ authority' = Reconciled(authority)
    /\ UNCHANGED <<workspace, requests, made, execution, events, chain>>

(* One of the two that could not be stored ends the process.               *)
StartedUp ==
    /\ process = "recovering" /\ writing # 0 /\ settled[writing] # "none"
    /\ process' = IF settled[writing] = "done" THEN "up" ELSE "down"
    /\ writing' = 0
    /\ UNCHANGED <<data, next, file, temp, queue, step, issued, settled, faults,
                   workspace, requests, made, execution, authority, events, chain>>

Crashes ==
    /\ Crash
    /\ requests' = [c \in Callers |-> Idle]
    /\ execution' = IF execution = "none" THEN "none" ELSE "over"
    /\ chain' = <<>> /\ writing' = 0
    /\ UNCHANGED <<workspace, made, authority, events>>

Stores == (Apply \/ Throw \/ WriteEnds \/ Rename \/ Publish \/ PersistFails)
          /\ UNCHANGED recordVars

-----------------------------------------------------------------------------
RecordsInit ==
    /\ StoreInit({Absent, Legacy("none"), Legacy("running")})
    /\ workspace = IF file = Absent THEN [at |-> "nowhere", instructions |-> 0]
                   ELSE [at |-> "root", instructions |-> 0]
    /\ requests = [c \in Callers |-> Idle] /\ made = 0
    /\ authority = IF file = Legacy("running") THEN "finished" ELSE "live"
    /\ execution = "none" /\ events = 0 /\ chain = <<>> /\ writing = 0

Serves(c) ==
    \/ MakesDirectory(c) \/ Archives(c) \/ Revokes(c) \/ Mutates(c)
    \/ Returns(c) \/ WritesInstructions(c)

Executes ==
    RunStarted \/ WritesProgress \/ ProgressWritten \/ EndsRun \/ RunEnded

RecordsNext ==
    \/ Starts \/ Recovers \/ StartReconciles \/ StartedUp \/ Crashes \/ Stores
    \/ \E c \in Callers : Serves(c) \/ DirectoryFails(c)
    \/ \E c \in Callers, op \in RequestKinds : Request(c, op)
    \/ StartsRun \/ Emits \/ RuntimeEnds \/ Executes

RecordsSpec == RecordsInit /\ [][RecordsNext]_allVars

-----------------------------------------------------------------------------
Written == IF file \in {Absent, Torn} THEN Empty ELSE file
StoredJob ==
    [id : Jobs, kind : RequestKinds, value : 0..MaxRequests, mandate : {"closed"}]
    \cup [id : Jobs, kind : {"start", "progress", "recover"}, value : Nat, mandate : {"closed"}]
    \cup [id : Jobs, kind : {"end"}, value : Outcomes,
          mandate : {"closed", "pending"}]

StoreTypeOK ==
    /\ process \in {"down", "booting", "recovering", "up"}
    /\ data \in {Absent} \cup Database
    /\ next \in {Absent} \cup Database
    /\ file \in {Absent} \cup Database
    /\ queue \in Seq(StoredJob)
    /\ step \in {"idle", "writing", "written", "renamed"}
    /\ issued \in 0..MaxJobs
    /\ settled \in [Jobs -> {"none", "done", "failed"}]
    /\ faults \in 0..MaxFaults

(* The rows in memory and on disk are well typed, and the file is never a  *)
(* torn one.                                                               *)
RecordsTypeOK ==
    /\ StoreTypeOK
    /\ workspace \in [at : {"nowhere", "root", ".deleted"}, instructions : 0..MaxRequests]
    /\ requests \in [Callers -> [op : {"none"} \cup RequestKinds,
                                 phase : {"idle", "asked", "prepared", "mutating", "mutated"},
                                 value : 0..MaxRequests, job : {0} \cup Jobs]]
    /\ made \in 0..MaxRequests
    /\ execution \in {"none", "starting", "running", "completing", "failing", "lost", "over"}
                      \cup Outcomes
    /\ authority \in {"live", "revoked", "finished"}
    /\ events \in 0..MaxEvents
    /\ chain \in Seq(Nat)
    /\ writing \in 0..issued

(* The stored progress is a window on the events of the Run in the order   *)
(* they were emitted, no longer than its limit: consecutive numbers, and   *)
(* the terminal entry last, once, in an ended Run only, and in every one   *)
(* that was not cancelled.                                                 *)
Terminal(entry) == entry.event = 0
Closed(log) == log # <<>> /\ Terminal(Last(log))
LogIsWindow ==
    LET log == Written.run.log IN
    /\ Len(log) <= LogLimit
    /\ \A n \in 1..Len(log) - 1 :
          /\ log[n + 1].sequence = log[n].sequence + 1
          /\ ~Terminal(log[n])
          /\ ~Terminal(log[n + 1]) => log[n].event < log[n + 1].event
    /\ Closed(log) => Written.run.status \in Outcomes
    /\ Written.run.status \in {"completed", "failed"} => Closed(log)

(* The status and progress of a Run that has ended stay as they are until  *)
(* the Agent is deleted, whatever writes of it are still queued, with one  *)
(* exception: an execution that a revocation did not wait for adds its own *)
(* end, once, and never as completed.  Only its mandate is revoked later,  *)
(* or closed when it was pending, and that of a completed Run is neither.  *)
EndedRunStep ==
    LET run == Written.run
        later == Written'.run
    IN  run.status \in Outcomes =>
            \/ later \in {run, NoRun}
            \/ /\ run.status # "completed" /\ later = [run EXCEPT !.mandate = later.mandate]
               /\ \/ later.mandate = "revoked"
                  \/ run.mandate = "pending" /\ later.mandate = "closed"
            \/ /\ run.status = "cancelled" /\ run.mandate = "revoked" /\ ~Closed(run.log)
               /\ later.status \in {"failed", "cancelled"}
               /\ later.mandate # "revoked" /\ later.log = AddRunProgress(run.log, 0)
EndedRunStays == [][EndedRunStep]_allVars

(* A row has its directory: only a delete that is under way, or was cut    *)
(* short by a fault after the archive, leaves a row without one.           *)
RowHasWorkspace ==
    Written.agent # Absent /\ workspace.at # "root" =>
        \/ faults > 0 /\ workspace.at = ".deleted"
        \/ \E c \in Callers : requests[c].op = "delete"

(* Nobody waits for an answer that cannot come: the mutation that a        *)
(* request, a Run or the start-up waits for is in the queue until it is    *)
(* settled, whatever threw or failed before it and whoever crashed.        *)
NoCallerIsForgotten ==
    \A job \in {requests[c].job : c \in {d \in Callers : requests[d].phase = "mutating"}}
              \cup ({writing} \ {0}) :
        settled[job] # "none" \/ \E n \in DOMAIN queue : queue[n].id = job

(* No row looks active while nothing executes it: a completion that cannot *)
(* be stored is stored as a failure, and a start-up ends what a crash left *)
(* behind, but for the Run whose failure could not be stored either.       *)
NoRunLeftExecuting ==
    process = "up" /\ execution \in {"none", "over"} => Written.run.status # "running"

(* "The platform-generated AGENTS.md contains the current Agent            *)
(* instructions": when no request is under way and nothing failed.         *)
InstructionsAreCurrent ==
    /\ process = "up" /\ faults = 0 /\ Written.agent # Absent
    /\ \A c \in Callers : requests[c] = Idle
    => workspace.instructions = Written.agent
=============================================================================
