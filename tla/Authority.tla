------------------------------ MODULE Authority ------------------------------
(***************************************************************************)
(* The authority half of the MandateFlow sidecar                           *)
(* (middleware/mandateflow/internal/mandateflow: service.go, store.go):    *)
(* policy contexts (one mandate each) and the Runs that act under them.    *)
(*                                                                         *)
(* Every handler runs in one SQLite transaction on the only connection of  *)
(* the pool (OpenStore: _txlock=immediate, SetMaxOpenConns(1)), so one     *)
(* action is one handler.  A handler that returns an error rolls back and  *)
(* is no step at all, except the late activation, which commits EXPIRED    *)
(* before it reports the conflict.  A replayed request (same Run ID and    *)
(* prepare hash, activation of an ACTIVE Run, a repeated finish or         *)
(* revocation) reads the row back and changes nothing.                     *)
(*                                                                         *)
(* Some operators have a neighbour that differs by one plausible slip (a   *)
(* dropped check, a missing cap): OwnerBindingIgnored, GrantExpiryUncapped,*)
(* ActiveContexts, PrepareRetryUnceiled, FinishStatusesUnchecked,          *)
(* FinishAnyRow, AffectedActivated.  Put in the place of the operator they *)
(* stand before, each breaks a property below; Spec uses none of them.     *)
(***************************************************************************)
EXTENDS Naturals, FiniteSets

CONSTANTS
    Agents,       \* agent ids the control plane knows
    Owners,       \* the demo users (user-a, user-b)
    CtxIds,       \* ids createContext may draw; one context is one mandate
    RunIds,       \* Run ids the control plane may prepare
    Caps,         \* capability digests
    Permissions,  \* permission tuples a request may name, registered or not
    Platform,     \* PlatformPermissions: the tuples of the tool registry
    Requests,     \* bound: the permission sets a prepare request may carry
    RunTTL,       \* lifetime of a Run grant
    ContextTTL,   \* lifetime of a context
    MaxTime,      \* bound: the clock stops here
    None          \* an absent (NULL) column

ASSUME LifetimeAssumption == RunTTL \in Nat /\ ContextTTL \in Nat
ASSUME ClockAssumption == MaxTime \in Nat
ASSUME PlatformAssumption == Platform \subseteq Permissions
ASSUME RequestAssumption == Requests \subseteq SUBSET Permissions
ASSUME NoneAssumption ==
    None \notin Agents \cup Owners \cup CtxIds \cup RunIds \cup Caps

VARIABLES contexts,  \* table contexts, by id
          runs,      \* table runs, by run_id
          now        \* the clock behind Service.now

authVars == <<contexts, runs, now>>

-----------------------------------------------------------------------------
(* Rows.  "NONE" is the state of an id that has no row.                     *)

Terminal == {"COMPLETED", "FAILED", "CANCELLED", "ABANDONED", "EXPIRED",
             "GATEWAY_RESTART"}

Context == [state     : {"NONE", "ACTIVE", "CLOSED", "REVOKED"},
            agent     : Agents \cup {None},
            owner     : Owners \cup {None},
            issuedAt  : Nat,
            expiresAt : Nat]

Run == [state       : {"NONE", "PREPARED", "ACTIVE", "REVOKED"} \cup Terminal,
        ctx         : CtxIds \cup {None},
        agent       : Agents \cup {None},
        retryOf     : RunIds \cup {None},
        predecessor : RunIds \cup {None},
        grant       : SUBSET Permissions,
        cap         : Caps \cup {None},
        expiresAt   : Nat]

NoContext == [state |-> "NONE", agent |-> None, owner |-> None,
              issuedAt |-> 0, expiresAt |-> 0]

NoRun == [state |-> "NONE", ctx |-> None, agent |-> None, retryOf |-> None,
          predecessor |-> None, grant |-> {}, cap |-> None, expiresAt |-> 0]

-----------------------------------------------------------------------------
Live(r) == runs[r].state \in {"PREPARED", "ACTIVE"}
RunsOf(c) == {r \in RunIds : runs[r].ctx = c}
ContextsOf(a) == {c \in CtxIds : contexts[c].state # "NONE" /\ contexts[c].agent = a}

(* time.Time.After and Before: the two readings differ at the instant of   *)
(* expiry, where a context still admits a prepare but authorises nothing.  *)
PastExpiry(t) == now > t
Unexpired(t) == now < t

(* loadBoundAgentOwner: the owner of the agent's earliest context.         *)
Earliest(a) == {c \in ContextsOf(a) :
                  \A d \in ContextsOf(a) : contexts[c].issuedAt <= contexts[d].issuedAt}
OwnerBindingIgnored(a, o) == TRUE
OwnerBindingAllows(a, o) ==
    ContextsOf(a) = {} \/ \E c \in Earliest(a) : contexts[c].owner = o

(* intersectPermissions(requested, platform, ceiling)                      *)
Granted(requested, ceiling) == requested \cap Platform \cap ceiling

(* min(now + runTTL, context expiry)                                       *)
GrantExpiryUncapped(ctxExpiry) == now + RunTTL
GrantExpiry(ctxExpiry) ==
    IF ctxExpiry < now + RunTTL THEN ctxExpiry ELSE now + RunTTL

(* What Prepare checks in every mode: the Run id is new, the agent keeps   *)
(* its owner, and the UNIQUE index accepts the capability digest.          *)
Admits(r, a, o, cap) ==
    /\ runs[r].state = "NONE"
    /\ OwnerBindingAllows(a, o)
    /\ \A s \in RunIds : runs[s].cap # cap

InsertRun(r, a, c, cap, grant, ctxExpiry, retryOf, predecessor) ==
    /\ grant # {}
    /\ runs' = [runs EXCEPT ![r] =
                  [state |-> "PREPARED", ctx |-> c, agent |-> a,
                   retryOf |-> retryOf, predecessor |-> predecessor,
                   grant |-> grant, cap |-> cap,
                   expiresAt |-> GrantExpiry(ctxExpiry)]]

-----------------------------------------------------------------------------
(* Prepare, mode NEW: the agent's active contexts without a live Run are   *)
(* closed, and a context with a mandate of its own is created.             *)
ActiveContexts(a) == {c \in ContextsOf(a) : contexts[c].state = "ACTIVE"}
IdleContexts(a) ==
    {c \in ContextsOf(a) :
        contexts[c].state = "ACTIVE" /\ \A r \in RunsOf(c) : ~Live(r)}

PrepareNew(r, a, o, requested, cap, c) ==
    /\ Admits(r, a, o, cap)
    /\ contexts[c].state = "NONE"
    /\ contexts' = [d \in CtxIds |->
          IF d = c
          THEN [state |-> "ACTIVE", agent |-> a, owner |-> o,
                issuedAt |-> now, expiresAt |-> now + ContextTTL]
          ELSE IF d \in IdleContexts(a) THEN [contexts[d] EXCEPT !.state = "CLOSED"]
          ELSE contexts[d]]
    /\ InsertRun(r, a, c, cap, Granted(requested, Platform), now + ContextTTL, None, None)
    /\ UNCHANGED now

(* Prepare, mode FOLLOW_UP: another Run in an existing context of the same *)
(* agent and owner, optionally naming a completed Run of it.               *)
PrepareFollowUp(r, a, o, requested, cap, c, predecessor) ==
    /\ Admits(r, a, o, cap)
    /\ contexts[c].agent = a
    /\ contexts[c].state = "ACTIVE"
    /\ ~PastExpiry(contexts[c].expiresAt)
    /\ contexts[c].owner = o
    /\ predecessor # None =>
         /\ runs[predecessor].ctx = c
         /\ runs[predecessor].agent = a
         /\ runs[predecessor].state = "COMPLETED"
    /\ InsertRun(r, a, c, cap, Granted(requested, Platform), contexts[c].expiresAt,
                 None, predecessor)
    /\ UNCHANGED <<contexts, now>>

(* Prepare, mode RETRY: a completed Run again, in its own context and      *)
(* under no more than its own grant.                                       *)
PrepareRetryUnceiled(r, a, o, requested, cap, original) ==
    LET c == runs[original].ctx IN
    /\ Admits(r, a, o, cap)
    /\ runs[original].agent = a /\ runs[original].state = "COMPLETED"
    /\ c # None
    /\ contexts[c].state = "ACTIVE" /\ ~PastExpiry(contexts[c].expiresAt)
    /\ contexts[c].owner = o
    /\ InsertRun(r, a, c, cap, Granted(requested, Platform), contexts[c].expiresAt,
                 original, original)
    /\ UNCHANGED <<contexts, now>>
PrepareRetry(r, a, o, requested, cap, original) ==
    LET c == runs[original].ctx IN
    /\ Admits(r, a, o, cap)
    /\ runs[original].agent = a
    /\ runs[original].state = "COMPLETED"
    /\ c # None
    /\ contexts[c].state = "ACTIVE"
    /\ ~PastExpiry(contexts[c].expiresAt)
    /\ contexts[c].owner = o
    /\ InsertRun(r, a, c, cap, Granted(requested, runs[original].grant),
                 contexts[c].expiresAt, original, original)
    /\ UNCHANGED <<contexts, now>>

-----------------------------------------------------------------------------
SetState(r, s) == runs' = [runs EXCEPT ![r].state = s]

(* Activate: PREPARED to ACTIVE under an active mandate ...                *)
Activate(r) ==
    /\ runs[r].state = "PREPARED"
    /\ contexts[runs[r].ctx].state = "ACTIVE"
    /\ Unexpired(runs[r].expiresAt)
    /\ SetState(r, "ACTIVE")
    /\ UNCHANGED <<contexts, now>>

(* ... or, too late, to EXPIRED: the row is committed, then refused.       *)
ActivateLate(r) ==
    /\ runs[r].state = "PREPARED"
    /\ contexts[runs[r].ctx].state = "ACTIVE"
    /\ ~Unexpired(runs[r].expiresAt)
    /\ SetState(r, "EXPIRED")
    /\ UNCHANGED <<contexts, now>>

(* Finish: a live Run ends with the reported status whether or not it was  *)
(* activated or has expired; a revoked one may still be cancelled.         *)
FinishStatusesUnchecked == {"COMPLETED", "FAILED", "CANCELLED", "ABANDONED", "DONE"}
FinishStatuses == {"COMPLETED", "FAILED", "CANCELLED", "ABANDONED"}

FinishAnyRow(r, s) ==
    /\ runs[r].state # "NONE"
    /\ SetState(r, s)
    /\ UNCHANGED <<contexts, now>>
Finish(r, s) ==
    /\ \/ Live(r)
       \/ /\ runs[r].state = "REVOKED"
          /\ contexts[runs[r].ctx].state = "REVOKED"
          /\ s \in {"CANCELLED", "ABANDONED"}
    /\ SetState(r, s)
    /\ UNCHANGED <<contexts, now>>

(* RevokeMandate: the context and all of its live Runs in one transaction. *)
AffectedActivated(c) == {r \in RunsOf(c) : runs[r].state = "ACTIVE"}
Affected(c) == {r \in RunsOf(c) : Live(r)}

RevokeMandate(c) ==
    /\ contexts[c].state = "ACTIVE"
    /\ contexts' = [contexts EXCEPT ![c].state = "REVOKED"]
    /\ runs' = [r \in RunIds |->
                  IF r \in Affected(c) THEN [runs[r] EXCEPT !.state = "REVOKED"]
                  ELSE runs[r]]
    /\ UNCHANGED now

(* Store.initialize after a crash: every interrupted Run loses authority.  *)
Restart ==
    /\ runs' = [r \in RunIds |->
                  IF Live(r) THEN [runs[r] EXCEPT !.state = "GATEWAY_RESTART"]
                  ELSE runs[r]]
    /\ UNCHANGED <<contexts, now>>

Tick ==
    /\ now < MaxTime
    /\ now' = now + 1
    /\ UNCHANGED <<contexts, runs>>

-----------------------------------------------------------------------------
Init ==
    /\ contexts = [c \in CtxIds |-> NoContext]
    /\ runs = [r \in RunIds |-> NoRun]
    /\ now = 0

Prepare ==
    \E r \in RunIds, a \in Agents, o \in Owners, cap \in Caps,
       requested \in Requests :
      \/ \E c \in CtxIds : PrepareNew(r, a, o, requested, cap, c)
      \/ \E c \in CtxIds, p \in RunIds \cup {None} :
            PrepareFollowUp(r, a, o, requested, cap, c, p)
      \/ \E original \in RunIds : PrepareRetry(r, a, o, requested, cap, original)

AuthorityNext ==
    \/ Prepare
    \/ \E r \in RunIds : Activate(r) \/ ActivateLate(r)
    \/ \E r \in RunIds, s \in FinishStatuses : Finish(r, s)
    \/ \E c \in CtxIds : RevokeMandate(c)
    \/ Restart
    \/ Tick

Spec == Init /\ [][AuthorityNext]_authVars

-----------------------------------------------------------------------------
(* Rows stay well typed, whatever handlers run.                            *)
TypeOK ==
    /\ contexts \in [CtxIds -> Context]
    /\ runs \in [RunIds -> Run]
    /\ now \in Nat

(* A Run that can still act has an active mandate above it: closing idle   *)
(* contexts, revocation and the admission of retries and follow-ups never  *)
(* leave a PREPARED or ACTIVE Run under a closed or revoked context.       *)
LiveRunUnderActiveMandate ==
    \A r \in RunIds : Live(r) =>
        runs[r].ctx # None /\ contexts[runs[r].ctx].state = "ACTIVE"

(* A Run belongs to the agent of its context and never outlives it; its    *)
(* grant is not empty and stays within the platform's permissions.         *)
RunWithinMandate ==
    \A r \in RunIds : runs[r].state # "NONE" =>
        /\ runs[r].ctx # None
        /\ contexts[runs[r].ctx].state # "NONE"
        /\ contexts[runs[r].ctx].agent = runs[r].agent
        /\ runs[r].expiresAt <= contexts[runs[r].ctx].expiresAt
        /\ runs[r].grant # {} /\ runs[r].grant \subseteq Platform

(* Along a chain of retries authority only shrinks: a retry holds a subset *)
(* of the grant of the completed Run it repeats, in the same context and   *)
(* for the same agent; a predecessor is a completed Run of the context.    *)
RetryNarrows ==
    \A r \in RunIds :
        /\ runs[r].retryOf # None =>
              /\ runs[r].retryOf = runs[r].predecessor
              /\ runs[r].grant \subseteq runs[runs[r].retryOf].grant
        /\ runs[r].predecessor # None =>
              /\ runs[runs[r].predecessor].state = "COMPLETED"
              /\ runs[runs[r].predecessor].ctx = runs[r].ctx
              /\ runs[runs[r].predecessor].agent = runs[r].agent

(* All mandates of an agent have one owner, although Prepare compares the  *)
(* request with the earliest context only.                                 *)
OneOwnerPerAgent ==
    \A a \in Agents : \A c, d \in ContextsOf(a) : contexts[c].owner = contexts[d].owner

(* A capability digest identifies one Run, so Authenticate cannot confuse  *)
(* two of them.                                                            *)
CapabilityBindsOneRun ==
    \A r, s \in RunIds :
        runs[r].state # "NONE" /\ runs[r].cap = runs[s].cap => r = s

(* A step never reopens a settled Run, whatever arrives late or twice; a   *)
(* revoked Run can only be closed as cancelled or abandoned; and what was  *)
(* granted at preparation never changes.                                   *)
SettledStep ==
    \A r \in RunIds : runs[r].state # "NONE" =>
        /\ runs[r].state \in Terminal => runs'[r] = runs[r]
        /\ runs[r].state = "REVOKED" =>
              runs'[r].state \in {"REVOKED", "CANCELLED", "ABANDONED"}
        /\ runs[r].state = "ACTIVE" => runs'[r].state # "PREPARED"
        /\ runs'[r] = [runs[r] EXCEPT !.state = runs'[r].state]
SettledRunsStaySettled == [][SettledStep]_authVars

(* A closed or revoked mandate stays so, and no Run is prepared under it.  *)
ClosedStep ==
    \A c \in CtxIds : contexts[c].state \in {"CLOSED", "REVOKED"} =>
        /\ contexts'[c] = contexts[c]
        /\ \A r \in RunIds : runs'[r].ctx = c => runs[r].ctx = c
ClosedMandatesStayClosed == [][ClosedStep]_authVars

(* The tables implement the contract: a Run is issued, usable, spent; a    *)
(* mandate is open or shut.                                                *)
RunStatus(r) ==
    CASE runs[r].state = "NONE"     -> "fresh"
      [] runs[r].state = "PREPARED" -> "issued"
      [] runs[r].state = "ACTIVE"   -> "usable"
      [] OTHER                      -> "spent"

MandateStatus(c) ==
    CASE contexts[c].state = "NONE"   -> "absent"
      [] contexts[c].state = "ACTIVE" -> "open"
      [] OTHER                        -> "shut"

Contract == INSTANCE AuthorityContract WITH
    Runs <- RunIds,
    Mandates <- CtxIds,
    status <- [r \in RunIds |-> RunStatus(r)],
    mandate <- [c \in CtxIds |-> MandateStatus(c)],
    under <- [r \in RunIds |-> runs[r].ctx]

ImplementsContract == Contract!Spec
=============================================================================
