-------------------------- MODULE Authority_proofs --------------------------
(***************************************************************************)
(* Proofs about module Authority, for every value of its constants.        *)
(* The inductive invariant is the conjunction of the invariants that the   *)
(* runs check and of two facts about rows: an id without a row is blank,   *)
(* and a Run that has a row has a capability and an agent.                 *)
(***************************************************************************)
EXTENDS Authority, TLAPS

(* An id with state NONE carries no data; a Run with a row has a digest.   *)
RowsComplete ==
    /\ \A c \in CtxIds : contexts[c].state = "NONE" => contexts[c] = NoContext
    /\ \A r \in RunIds : runs[r].state = "NONE" => runs[r] = NoRun
    /\ \A r \in RunIds : runs[r].state # "NONE" => runs[r].cap \in Caps

IInv ==
    /\ TypeOK
    /\ RowsComplete
    /\ LiveRunUnderActiveMandate
    /\ RunWithinMandate
    /\ RetryNarrows
    /\ OneOwnerPerAgent
    /\ CapabilityBindsOneRun

-----------------------------------------------------------------------------
(* Type correctness.                                                       *)

(* The blank context and the blank Run are rows.                            *)
LEMMA NoRowTypes == NoContext \in Context /\ NoRun \in Run
BY DEF NoContext, NoRun, Context, Run, Terminal

(* A Run's expiry never passes the expiry of its context.                   *)
LEMMA GrantExpiryType ==
    ASSUME now \in Nat, NEW t \in Nat
    PROVE  GrantExpiry(t) \in Nat /\ GrantExpiry(t) <= t
BY LifetimeAssumption DEF GrantExpiry

(* Inserting the row of a new Run keeps the table of Runs well typed.       *)
LEMMA InsertRunType ==
    ASSUME TypeOK,
           NEW r \in RunIds, NEW a \in Agents, NEW c \in CtxIds, NEW cap \in Caps,
           NEW grant \in SUBSET Permissions, NEW t \in Nat,
           NEW retryOf \in RunIds \cup {None}, NEW predecessor \in RunIds \cup {None},
           InsertRun(r, a, c, cap, grant, t, retryOf, predecessor)
    PROVE  runs' \in [RunIds -> Run]
<1>1. GrantExpiry(t) \in Nat
  BY GrantExpiryType DEF TypeOK
<1> DEFINE new == [state |-> "PREPARED", ctx |-> c, agent |-> a,
                   retryOf |-> retryOf, predecessor |-> predecessor,
                   grant |-> grant, cap |-> cap,
                   expiresAt |-> GrantExpiry(t)]
<1>2. new \in Run
  BY <1>1 DEF Run
<1>3. runs' = [runs EXCEPT ![r] = new]
  BY DEF InsertRun
<1> QED BY <1>2, <1>3 DEF TypeOK

(* So does writing a known state into an existing row.                      *)
LEMMA SetStateType ==
    ASSUME TypeOK, NEW r \in RunIds,
           NEW s \in {"PREPARED", "ACTIVE", "REVOKED"} \cup Terminal, SetState(r, s)
    PROVE  runs' \in [RunIds -> Run]
BY DEF TypeOK, SetState, Run

(* What the columns of a context range over.                                *)
LEMMA ContextFields ==
    ASSUME TypeOK, NEW c \in CtxIds
    PROVE  /\ contexts[c] \in Context
           /\ contexts[c].expiresAt \in Nat
BY DEF TypeOK, Context

(* The empty tables are well typed.                                         *)
LEMMA TypeInit == Init => TypeOK
BY NoRowTypes DEF Init, TypeOK

(* Every handler keeps the tables well typed.                               *)
LEMMA TypeStep == TypeOK /\ [AuthorityNext]_authVars => TypeOK'
<1> SUFFICES ASSUME TypeOK, [AuthorityNext]_authVars PROVE TypeOK'
  OBVIOUS
<1>1. ASSUME NEW r \in RunIds, NEW a \in Agents, NEW o \in Owners, NEW cap \in Caps,
             NEW requested \in SUBSET Permissions, NEW c \in CtxIds,
             PrepareNew(r, a, o, requested, cap, c)
      PROVE  TypeOK'
  <2>1. now + ContextTTL \in Nat /\ Granted(requested, Platform) \in SUBSET Permissions
    BY LifetimeAssumption, PlatformAssumption DEF TypeOK, Granted
  <2>2. runs' \in [RunIds -> Run]
    BY <1>1, <2>1, InsertRunType DEF PrepareNew
  <2>3. contexts' \in [CtxIds -> Context]
    <3> SUFFICES ASSUME NEW d \in CtxIds PROVE contexts'[d] \in Context
      BY <1>1 DEF PrepareNew
    <3>1. CASE d = c
      BY <3>1, <1>1, <2>1 DEF PrepareNew, Context, TypeOK
    <3>2. CASE d # c
      BY <3>2, <1>1 DEF PrepareNew, Context, TypeOK
    <3> QED BY <3>1, <3>2
  <2> QED BY <2>2, <2>3, <1>1 DEF PrepareNew, TypeOK
<1>2. ASSUME NEW r \in RunIds, NEW a \in Agents, NEW o \in Owners, NEW cap \in Caps,
             NEW requested \in SUBSET Permissions, NEW c \in CtxIds,
             NEW p \in RunIds \cup {None},
             PrepareFollowUp(r, a, o, requested, cap, c, p)
      PROVE  TypeOK'
  <2>1. Granted(requested, Platform) \in SUBSET Permissions
    BY DEF Granted
  <2>2. runs' \in [RunIds -> Run]
    BY <1>2, <2>1, InsertRunType, ContextFields DEF PrepareFollowUp
  <2> QED BY <2>2, <1>2 DEF PrepareFollowUp, TypeOK
<1>3. ASSUME NEW r \in RunIds, NEW a \in Agents, NEW o \in Owners, NEW cap \in Caps,
             NEW requested \in SUBSET Permissions, NEW original \in RunIds,
             PrepareRetry(r, a, o, requested, cap, original)
      PROVE  TypeOK'
  <2> DEFINE c == runs[original].ctx
  <2>1. Granted(requested, runs[original].grant) \in SUBSET Permissions
    BY DEF Granted
  <2>2. c \in CtxIds
    BY <1>3 DEF PrepareRetry, TypeOK, Run
  <2>3. runs' \in [RunIds -> Run]
    BY <1>3, <2>1, <2>2, InsertRunType, ContextFields DEF PrepareRetry
  <2> QED BY <2>3, <1>3 DEF PrepareRetry, TypeOK
<1>4. ASSUME NEW r \in RunIds, Activate(r) \/ ActivateLate(r) PROVE TypeOK'
  BY <1>4, SetStateType DEF Activate, ActivateLate, TypeOK, Terminal
<1>5. ASSUME NEW r \in RunIds, NEW s \in FinishStatuses, Finish(r, s) PROVE TypeOK'
  BY <1>5, SetStateType DEF Finish, FinishStatuses, TypeOK, Terminal
<1>6. ASSUME NEW c \in CtxIds, RevokeMandate(c) PROVE TypeOK'
  <2>1. contexts' \in [CtxIds -> Context]
    BY <1>6 DEF RevokeMandate, TypeOK, Context
  <2>2. runs' \in [RunIds -> Run]
    <3> SUFFICES ASSUME NEW r \in RunIds PROVE runs'[r] \in Run
      BY <1>6 DEF RevokeMandate
    <3>1. [runs[r] EXCEPT !.state = "REVOKED"] \in Run
      BY DEF TypeOK, Run
    <3> QED BY <1>6, <3>1 DEF RevokeMandate, TypeOK
  <2> QED BY <1>6, <2>1, <2>2 DEF RevokeMandate, TypeOK
<1>7. CASE Restart
  BY <1>7 DEF Restart, TypeOK, Run, Terminal
<1>8. CASE Tick
  BY <1>8 DEF Tick, TypeOK
<1>9. CASE UNCHANGED authVars
  BY <1>9 DEF authVars, TypeOK
<1> QED
  BY <1>1, <1>2, <1>3, <1>4, <1>5, <1>6, <1>7, <1>8, <1>9, RequestAssumption
     DEF AuthorityNext, Prepare

(* Every reachable state is well typed.                                    *)
THEOREM TypeCorrect == Spec => []TypeOK
BY TypeInit, TypeStep, PTL DEF Spec

-----------------------------------------------------------------------------
(* Two shapes of step.  A handler other than Prepare moves states only.    *)
StatesOnly ==
    /\ \A r \in RunIds :
         /\ runs'[r] = [runs[r] EXCEPT !.state = runs'[r].state]
         /\ runs[r].state = "NONE" <=> runs'[r].state = "NONE"
         /\ runs[r].state \in Terminal => runs'[r] = runs[r]
    /\ \A c \in CtxIds :
         /\ contexts'[c] = [contexts[c] EXCEPT !.state = contexts'[c].state]
         /\ contexts[c].state = "NONE" <=> contexts'[c].state = "NONE"

(* Prepare inserts one Run under c, which is new or already active, and    *)
(* may close contexts in which no Run is live.                             *)
PrepareEffect(r, a, o, cap, c, grant, retryOf, predecessor) ==
    /\ Admits(r, a, o, cap)
    /\ InsertRun(r, a, c, cap, grant, contexts'[c].expiresAt, retryOf, predecessor)
    /\ grant \subseteq Platform
    /\ contexts'[c].state = "ACTIVE"
    /\ contexts'[c].agent = a
    /\ contexts'[c].owner = o
    /\ contexts[c].state = "NONE" \/ contexts'[c] = contexts[c]
    /\ \A d \in CtxIds \ {c} :
         \/ contexts'[d] = contexts[d]
         \/ /\ contexts'[d] = [contexts[d] EXCEPT !.state = "CLOSED"]
            /\ contexts[d].state = "ACTIVE"
            /\ \A s \in RunsOf(d) : ~Live(s)
    /\ predecessor # None =>
         /\ runs[predecessor].state = "COMPLETED"
         /\ runs[predecessor].ctx = c
         /\ runs[predecessor].agent = a
    /\ retryOf # None =>
         retryOf = predecessor /\ grant \subseteq runs[retryOf].grant

(* All three modes of Prepare have the one effect PrepareEffect describes.  *)
LEMMA PrepareShape ==
    ASSUME TypeOK, RunWithinMandate, Prepare
    PROVE  \E r \in RunIds, a \in Agents, o \in Owners, cap \in Caps, c \in CtxIds,
              grant \in SUBSET Permissions,
              retryOf \in RunIds \cup {None}, predecessor \in RunIds \cup {None} :
             PrepareEffect(r, a, o, cap, c, grant, retryOf, predecessor)
<1>1. ASSUME NEW r \in RunIds, NEW a \in Agents, NEW o \in Owners, NEW cap \in Caps,
             NEW requested \in SUBSET Permissions, NEW c \in CtxIds,
             PrepareNew(r, a, o, requested, cap, c)
      PROVE  PrepareEffect(r, a, o, cap, c, Granted(requested, Platform), None, None)
  <2>1. contexts'[c] = [state |-> "ACTIVE", agent |-> a, owner |-> o,
                        issuedAt |-> now, expiresAt |-> now + ContextTTL]
    BY <1>1 DEF PrepareNew
  <2>2. ASSUME NEW d \in CtxIds \ {c}
        PROVE  \/ contexts'[d] = contexts[d]
               \/ /\ contexts'[d] = [contexts[d] EXCEPT !.state = "CLOSED"]
                  /\ contexts[d].state = "ACTIVE"
                  /\ \A s \in RunsOf(d) : ~Live(s)
    BY <1>1 DEF PrepareNew, IdleContexts
  <2>3. Granted(requested, Platform) \subseteq Platform
    BY DEF Granted
  <2> QED BY <1>1, <2>1, <2>2, <2>3 DEF PrepareNew, PrepareEffect
<1>2. ASSUME NEW r \in RunIds, NEW a \in Agents, NEW o \in Owners, NEW cap \in Caps,
             NEW requested \in SUBSET Permissions, NEW c \in CtxIds,
             NEW p \in RunIds \cup {None},
             PrepareFollowUp(r, a, o, requested, cap, c, p)
      PROVE  PrepareEffect(r, a, o, cap, c, Granted(requested, Platform), None, p)
  BY <1>2 DEF PrepareFollowUp, PrepareEffect, Granted
<1>3. ASSUME NEW r \in RunIds, NEW a \in Agents, NEW o \in Owners, NEW cap \in Caps,
             NEW requested \in SUBSET Permissions, NEW original \in RunIds,
             PrepareRetry(r, a, o, requested, cap, original)
      PROVE  /\ runs[original].ctx \in CtxIds
             /\ PrepareEffect(r, a, o, cap, runs[original].ctx,
                              Granted(requested, runs[original].grant), original, original)
  <2>1. runs[original].ctx \in CtxIds
    BY <1>3 DEF PrepareRetry, TypeOK, Run
  <2>2. contexts[runs[original].ctx].agent = a
    BY <1>3 DEF PrepareRetry, RunWithinMandate
  <2>3. Granted(requested, runs[original].grant) \subseteq Platform
    BY DEF Granted
  <2>4. Granted(requested, runs[original].grant) \subseteq runs[original].grant
    BY DEF Granted
  <2> QED BY <1>3, <2>1, <2>2, <2>3, <2>4 DEF PrepareRetry, PrepareEffect
<1>4. ASSUME NEW requested \in SUBSET Permissions, NEW ceiling
      PROVE  Granted(requested, ceiling) \in SUBSET Permissions
  BY DEF Granted
<1> PICK r \in RunIds, a \in Agents, o \in Owners, cap \in Caps,
         requested \in SUBSET Permissions :
           \/ \E c \in CtxIds : PrepareNew(r, a, o, requested, cap, c)
           \/ \E c \in CtxIds, p \in RunIds \cup {None} :
                 PrepareFollowUp(r, a, o, requested, cap, c, p)
           \/ \E original \in RunIds : PrepareRetry(r, a, o, requested, cap, original)
  BY RequestAssumption DEF Prepare
<1>5. CASE \E c \in CtxIds : PrepareNew(r, a, o, requested, cap, c)
  BY <1>1, <1>4, <1>5
<1>6. CASE \E c \in CtxIds, p \in RunIds \cup {None} :
             PrepareFollowUp(r, a, o, requested, cap, c, p)
  <2> PICK c \in CtxIds, p \in RunIds \cup {None} :
             PrepareFollowUp(r, a, o, requested, cap, c, p)
    BY <1>6
  <2>1. PrepareEffect(r, a, o, cap, c, Granted(requested, Platform), None, p)
    BY <1>2
  <2> QED BY <2>1, <1>4
<1>7. CASE \E original \in RunIds : PrepareRetry(r, a, o, requested, cap, original)
  <2> PICK original \in RunIds : PrepareRetry(r, a, o, requested, cap, original)
    BY <1>7
  <2> DEFINE c == runs[original].ctx
             grant == Granted(requested, runs[original].grant)
  <2>1. c \in CtxIds /\ PrepareEffect(r, a, o, cap, c, grant, original, original)
    BY <1>3
  <2>2. grant \in SUBSET Permissions
    BY <1>4
  <2> HIDE DEF c, grant
  <2> QED BY <2>1, <2>2
<1> QED BY <1>5, <1>6, <1>7

(* Every handler but Prepare writes state columns only (StatesOnly).        *)
LEMMA StatesOnlyShape ==
    ASSUME TypeOK, [AuthorityNext]_authVars, ~Prepare
    PROVE  StatesOnly
<1> USE DEF StatesOnly
<1>1. ASSUME NEW r \in RunIds
      PROVE  [runs[r] EXCEPT !.state = runs[r].state] = runs[r]
  BY DEF TypeOK, Run
<1>2. ASSUME NEW c \in CtxIds
      PROVE  [contexts[c] EXCEPT !.state = contexts[c].state] = contexts[c]
  BY DEF TypeOK, Context
<1>3. ASSUME NEW r \in RunIds, NEW s \in {"ACTIVE"} \cup Terminal, SetState(r, s),
             runs[r].state \in {"PREPARED", "ACTIVE", "REVOKED"}, UNCHANGED contexts
      PROVE  StatesOnly
  <2>1. ASSUME NEW q \in RunIds
        PROVE  /\ runs'[q] = [runs[q] EXCEPT !.state = runs'[q].state]
               /\ runs[q].state = "NONE" <=> runs'[q].state = "NONE"
               /\ runs[q].state \in Terminal => runs'[q] = runs[q]
    BY <1>1, <1>3 DEF SetState, TypeOK, Run, Terminal
  <2> QED BY <1>2, <1>3, <2>1
<1>4. ASSUME NEW r \in RunIds, Activate(r) \/ ActivateLate(r) PROVE StatesOnly
  BY <1>3, <1>4 DEF Activate, ActivateLate, Terminal
<1>5. ASSUME NEW r \in RunIds, NEW s \in FinishStatuses, Finish(r, s) PROVE StatesOnly
  BY <1>3, <1>5 DEF Finish, FinishStatuses, Live, Terminal
<1>6. ASSUME NEW c \in CtxIds, RevokeMandate(c) PROVE StatesOnly
  <2>1. ASSUME NEW q \in RunIds
        PROVE  /\ runs'[q] = [runs[q] EXCEPT !.state = runs'[q].state]
               /\ runs[q].state = "NONE" <=> runs'[q].state = "NONE"
               /\ runs[q].state \in Terminal => runs'[q] = runs[q]
    BY <1>1, <1>6 DEF RevokeMandate, Affected, Live, Terminal, TypeOK, Run
  <2>2. ASSUME NEW d \in CtxIds
        PROVE  /\ contexts'[d] = [contexts[d] EXCEPT !.state = contexts'[d].state]
               /\ contexts[d].state = "NONE" <=> contexts'[d].state = "NONE"
    BY <1>2, <1>6 DEF RevokeMandate, TypeOK, Context
  <2> QED BY <2>1, <2>2
<1>7. CASE Restart
  <2>1. ASSUME NEW q \in RunIds
        PROVE  /\ runs'[q] = [runs[q] EXCEPT !.state = runs'[q].state]
               /\ runs[q].state = "NONE" <=> runs'[q].state = "NONE"
               /\ runs[q].state \in Terminal => runs'[q] = runs[q]
    BY <1>1, <1>7 DEF Restart, Live, Terminal, TypeOK, Run
  <2> QED BY <1>2, <1>7, <2>1 DEF Restart
<1>8. CASE Tick \/ UNCHANGED authVars
  BY <1>1, <1>2, <1>8 DEF Tick, authVars
<1> QED BY <1>4, <1>5, <1>6, <1>7, <1>8 DEF AuthorityNext

-----------------------------------------------------------------------------
(* Safety.                                                                 *)

(* The empty tables satisfy the inductive invariant.                        *)
LEMMA InitInv == Init => IInv
<1> SUFFICES ASSUME Init PROVE IInv
  OBVIOUS
<1>1. TypeOK
  BY TypeInit
<1>2. /\ \A c \in CtxIds : contexts[c] = NoContext
      /\ \A r \in RunIds : runs[r] = NoRun
  BY DEF Init
<1>3. RowsComplete
  BY <1>2 DEF RowsComplete, NoRun
<1>4. LiveRunUnderActiveMandate /\ RunWithinMandate /\ RetryNarrows /\ CapabilityBindsOneRun
  BY <1>2 DEF NoRun, LiveRunUnderActiveMandate, Live, RunWithinMandate, RetryNarrows,
              CapabilityBindsOneRun
<1>5. OneOwnerPerAgent
  BY <1>2 DEF OneOwnerPerAgent, ContextsOf, NoContext
<1> QED BY <1>1, <1>3, <1>4, <1>5 DEF IInv

(* What a StatesOnly step keeps of a row.                                  *)
LEMMA KeptColumns ==
    ASSUME TypeOK, StatesOnly
    PROVE  /\ \A r \in RunIds :
                /\ runs'[r].ctx = runs[r].ctx
                /\ runs'[r].agent = runs[r].agent
                /\ runs'[r].retryOf = runs[r].retryOf
                /\ runs'[r].predecessor = runs[r].predecessor
                /\ runs'[r].grant = runs[r].grant
                /\ runs'[r].cap = runs[r].cap
                /\ runs'[r].expiresAt = runs[r].expiresAt
                /\ runs'[r].state = "NONE" <=> runs[r].state = "NONE"
           /\ \A c \in CtxIds :
                /\ contexts'[c].agent = contexts[c].agent
                /\ contexts'[c].owner = contexts[c].owner
                /\ contexts'[c].expiresAt = contexts[c].expiresAt
                /\ contexts'[c].state = "NONE" <=> contexts[c].state = "NONE"
<1>1. ASSUME NEW r \in RunIds
      PROVE  runs[r] \in Run /\ runs'[r] = [runs[r] EXCEPT !.state = runs'[r].state]
  BY DEF TypeOK, StatesOnly
<1>2. ASSUME NEW c \in CtxIds
      PROVE  /\ contexts[c] \in Context
             /\ contexts'[c] = [contexts[c] EXCEPT !.state = contexts'[c].state]
  BY DEF TypeOK, StatesOnly
<1>3. ASSUME NEW r \in RunIds
      PROVE  /\ runs'[r].ctx = runs[r].ctx /\ runs'[r].agent = runs[r].agent
             /\ runs'[r].retryOf = runs[r].retryOf
             /\ runs'[r].predecessor = runs[r].predecessor
             /\ runs'[r].grant = runs[r].grant /\ runs'[r].cap = runs[r].cap
             /\ runs'[r].expiresAt = runs[r].expiresAt
  BY <1>1 DEF Run
<1>4. ASSUME NEW c \in CtxIds
      PROVE  /\ contexts'[c].agent = contexts[c].agent
             /\ contexts'[c].owner = contexts[c].owner
             /\ contexts'[c].expiresAt = contexts[c].expiresAt
  BY <1>2 DEF Context
<1> QED BY <1>3, <1>4 DEF StatesOnly

(* A StatesOnly step keeps what depends on the other columns.               *)
LEMMA StatesOnlyKeeps ==
    ASSUME IInv, TypeOK', StatesOnly
    PROVE  (RowsComplete /\ RunWithinMandate /\ RetryNarrows /\ OneOwnerPerAgent
              /\ CapabilityBindsOneRun)'
<1> USE DEF IInv
<1>1. RowsComplete'
  BY KeptColumns DEF RowsComplete, StatesOnly, TypeOK, Run, Context, NoRun, NoContext
<1>2. RunWithinMandate'
  <2> SUFFICES ASSUME NEW r \in RunIds, runs'[r].state # "NONE"
               PROVE  /\ runs'[r].ctx # None
                      /\ contexts'[runs'[r].ctx].state # "NONE"
                      /\ contexts'[runs'[r].ctx].agent = runs'[r].agent
                      /\ runs'[r].expiresAt <= contexts'[runs'[r].ctx].expiresAt
                      /\ runs'[r].grant # {} /\ runs'[r].grant \subseteq Platform
    BY DEF RunWithinMandate
  <2>1. runs[r].state # "NONE" /\ runs[r].ctx \in CtxIds
    BY DEF StatesOnly, RunWithinMandate, TypeOK, Run
  <2> QED BY <2>1, KeptColumns DEF RunWithinMandate, StatesOnly
<1>3. RetryNarrows'
  <2> SUFFICES ASSUME NEW r \in RunIds
               PROVE  /\ runs'[r].retryOf # None =>
                           /\ runs'[r].retryOf = runs'[r].predecessor
                           /\ runs'[r].grant \subseteq runs'[runs'[r].retryOf].grant
                      /\ runs'[r].predecessor # None =>
                           /\ runs'[runs'[r].predecessor].state = "COMPLETED"
                           /\ runs'[runs'[r].predecessor].ctx = runs'[r].ctx
                           /\ runs'[runs'[r].predecessor].agent = runs'[r].agent
    BY DEF RetryNarrows
  <2>1. runs[r].retryOf \in RunIds \cup {None} /\ runs[r].predecessor \in RunIds \cup {None}
    BY DEF TypeOK, Run
  <2>2. \A q \in RunIds : runs[q].state = "COMPLETED" => runs'[q].state = "COMPLETED"
    BY DEF StatesOnly, Terminal
  <2> QED BY <2>1, <2>2, KeptColumns DEF RetryNarrows
<1>4. OneOwnerPerAgent'
  <2>1. \A a : ContextsOf(a)' = ContextsOf(a)
    BY KeptColumns DEF ContextsOf
  <2>2. \A a : \A c \in ContextsOf(a) : contexts'[c].owner = contexts[c].owner
    BY KeptColumns DEF ContextsOf
  <2> QED BY <2>1, <2>2 DEF OneOwnerPerAgent
<1>5. CapabilityBindsOneRun'
  <2>1. \A r \in RunIds : runs'[r].cap = runs[r].cap
                          /\ (runs'[r].state = "NONE" <=> runs[r].state = "NONE")
    BY KeptColumns
  <2> QED BY <2>1 DEF CapabilityBindsOneRun
<1> QED BY <1>1, <1>2, <1>3, <1>4, <1>5

(* Closing never strands a live Run: only a revocation leaves the ACTIVE   *)
(* state of a context here, and it takes the live Runs with it.            *)
LEMMA StatesOnlyKeepsMandates ==
    ASSUME IInv, [AuthorityNext]_authVars, ~Prepare
    PROVE  LiveRunUnderActiveMandate'
<1> USE DEF IInv, LiveRunUnderActiveMandate, Live
<1>1. ASSUME NEW r \in RunIds, NEW s \in {"ACTIVE"} \cup Terminal, SetState(r, s),
             s = "ACTIVE" => runs[r].state = "PREPARED", UNCHANGED contexts
      PROVE  LiveRunUnderActiveMandate'
  <2>1. \A q \in RunIds : runs'[q].ctx = runs[q].ctx /\ (q # r => runs'[q] = runs[q])
    BY <1>1 DEF SetState, TypeOK, Run
  <2>2. runs'[r].state = s
    BY <1>1 DEF SetState, TypeOK, Run
  <2> QED BY <1>1, <2>1, <2>2 DEF Terminal
<1>2. ASSUME NEW r \in RunIds, Activate(r) \/ ActivateLate(r)
      PROVE  LiveRunUnderActiveMandate'
  BY <1>1, <1>2 DEF Activate, ActivateLate, Terminal
<1>3. ASSUME NEW r \in RunIds, NEW s \in FinishStatuses, Finish(r, s)
      PROVE  LiveRunUnderActiveMandate'
  BY <1>1, <1>3 DEF Finish, FinishStatuses, Terminal
<1>4. ASSUME NEW c \in CtxIds, RevokeMandate(c)
      PROVE  LiveRunUnderActiveMandate'
  <2> SUFFICES ASSUME NEW r \in RunIds, runs'[r].state \in {"PREPARED", "ACTIVE"}
               PROVE  runs'[r].ctx # None /\ contexts'[runs'[r].ctx].state = "ACTIVE"
    OBVIOUS
  <2>1. r \notin Affected(c) /\ runs'[r] = runs[r]
    BY <1>4 DEF RevokeMandate, TypeOK, Run
  <2>2. runs[r].ctx # c
    BY <2>1 DEF Affected, RunsOf
  <2>3. runs[r].ctx \in CtxIds
    BY <2>1 DEF TypeOK, Run
  <2> QED BY <1>4, <2>1, <2>2, <2>3 DEF RevokeMandate, TypeOK
<1>5. CASE Restart
  BY <1>5 DEF Restart, TypeOK, Run
<1>6. CASE Tick \/ UNCHANGED authVars
  BY <1>6 DEF Tick, authVars
<1> QED BY <1>2, <1>3, <1>4, <1>5, <1>6 DEF AuthorityNext

(* Prepare: the new Run is checked against its context, every other row    *)
(* keeps what the invariants say of it.                                    *)
LEMMA PrepareKeeps ==
    ASSUME IInv, TypeOK',
           NEW r \in RunIds, NEW a \in Agents, NEW o \in Owners, NEW cap \in Caps,
           NEW c \in CtxIds, NEW grant \in SUBSET Permissions,
           NEW retryOf \in RunIds \cup {None}, NEW predecessor \in RunIds \cup {None},
           PrepareEffect(r, a, o, cap, c, grant, retryOf, predecessor)
    PROVE  (RowsComplete /\ LiveRunUnderActiveMandate /\ RunWithinMandate
              /\ RetryNarrows /\ OneOwnerPerAgent /\ CapabilityBindsOneRun)'
<1> USE DEF IInv
<1>1. \A q \in RunIds \ {r} : runs'[q] = runs[q]
  BY DEF PrepareEffect, InsertRun, TypeOK
<1>2. /\ runs'[r].state = "PREPARED" /\ runs'[r].ctx = c /\ runs'[r].agent = a
      /\ runs'[r].retryOf = retryOf /\ runs'[r].predecessor = predecessor
      /\ runs'[r].grant = grant /\ runs'[r].cap = cap /\ grant # {}
      /\ runs'[r].expiresAt = GrantExpiry(contexts'[c].expiresAt)
  BY DEF PrepareEffect, InsertRun, TypeOK
<1>3. runs[r] = NoRun
  BY DEF PrepareEffect, Admits, RowsComplete
<1>4. c # None
  BY NoneAssumption
<1>5. ASSUME NEW d \in CtxIds, contexts[d].state # "NONE"
      PROVE  /\ contexts'[d].state # "NONE"
             /\ contexts'[d].agent = contexts[d].agent
             /\ contexts'[d].owner = contexts[d].owner
             /\ contexts'[d].expiresAt = contexts[d].expiresAt
  BY <1>5 DEF PrepareEffect, TypeOK, Context
<1>6. ASSUME NEW d \in CtxIds, d # c, contexts'[d].state # "NONE"
      PROVE  contexts[d].state # "NONE"
  BY <1>6 DEF PrepareEffect, TypeOK, Context
<1>7. RowsComplete'
  <2>1. \A d \in CtxIds : contexts'[d].state = "NONE" => contexts'[d] = NoContext
    <3> SUFFICES ASSUME NEW d \in CtxIds, contexts'[d].state = "NONE"
                 PROVE  contexts'[d] = NoContext
      OBVIOUS
    <3>1. d # c
      BY DEF PrepareEffect
    <3>2. contexts[d].state = "NONE"
      BY <1>5
    <3> QED BY <3>1, <3>2 DEF PrepareEffect, RowsComplete
  <2>2. \A q \in RunIds : runs'[q].state = "NONE" => runs'[q] = NoRun
    BY <1>1, <1>2 DEF RowsComplete
  <2>3. \A q \in RunIds : runs'[q].state # "NONE" => runs'[q].cap \in Caps
    BY <1>1, <1>2 DEF RowsComplete
  <2> QED BY <2>1, <2>2, <2>3 DEF RowsComplete
<1>8. LiveRunUnderActiveMandate'
  <2> SUFFICES ASSUME NEW q \in RunIds, runs'[q].state \in {"PREPARED", "ACTIVE"}
               PROVE  runs'[q].ctx # None /\ contexts'[runs'[q].ctx].state = "ACTIVE"
    BY DEF LiveRunUnderActiveMandate, Live
  <2>1. CASE q = r
    BY <2>1, <1>2, <1>4 DEF PrepareEffect
  <2>2. CASE q # r
    <3>1. runs'[q] = runs[q]
      BY <2>2, <1>1
    <3>2. Live(q) /\ runs[q].ctx \in CtxIds /\ contexts[runs[q].ctx].state = "ACTIVE"
      BY <3>1 DEF Live, LiveRunUnderActiveMandate, TypeOK, Run
    <3>3. CASE runs[q].ctx = c
      BY <3>1, <3>3, <1>4 DEF PrepareEffect
    <3>4. CASE runs[q].ctx # c
      <4>1. contexts'[runs[q].ctx] = contexts[runs[q].ctx]
        BY <3>2, <3>4 DEF PrepareEffect, RunsOf
      <4> QED BY <4>1, <3>1, <3>2, NoneAssumption
    <3> QED BY <3>3, <3>4
  <2> QED BY <2>1, <2>2
<1>9. RunWithinMandate'
  <2> SUFFICES ASSUME NEW q \in RunIds, runs'[q].state # "NONE"
               PROVE  /\ runs'[q].ctx # None
                      /\ contexts'[runs'[q].ctx].state # "NONE"
                      /\ contexts'[runs'[q].ctx].agent = runs'[q].agent
                      /\ runs'[q].expiresAt <= contexts'[runs'[q].ctx].expiresAt
                      /\ runs'[q].grant # {} /\ runs'[q].grant \subseteq Platform
    BY DEF RunWithinMandate
  <2>1. CASE q = r
    <3>1. contexts'[c].expiresAt \in Nat
      BY DEF TypeOK, Context
    <3>2. GrantExpiry(contexts'[c].expiresAt) <= contexts'[c].expiresAt
      BY <3>1, GrantExpiryType DEF TypeOK
    <3> QED BY <2>1, <3>2, <1>2, <1>4 DEF PrepareEffect
  <2>2. CASE q # r
    <3>1. runs'[q] = runs[q]
      BY <2>2, <1>1
    <3>2. runs[q].ctx \in CtxIds /\ contexts[runs[q].ctx].state # "NONE"
      BY <3>1 DEF RunWithinMandate, TypeOK, Run
    <3> QED BY <3>1, <3>2, <1>5 DEF RunWithinMandate
  <2> QED BY <2>1, <2>2
<1>10. RetryNarrows'
  <2> SUFFICES ASSUME NEW q \in RunIds
               PROVE  /\ runs'[q].retryOf # None =>
                           /\ runs'[q].retryOf = runs'[q].predecessor
                           /\ runs'[q].grant \subseteq runs'[runs'[q].retryOf].grant
                      /\ runs'[q].predecessor # None =>
                           /\ runs'[runs'[q].predecessor].state = "COMPLETED"
                           /\ runs'[runs'[q].predecessor].ctx = runs'[q].ctx
                           /\ runs'[runs'[q].predecessor].agent = runs'[q].agent
    BY DEF RetryNarrows
  <2>1. \A p \in RunIds : runs[p].state = "COMPLETED" => runs'[p] = runs[p]
    BY <1>1, <1>3 DEF NoRun
  <2>2. CASE q = r
    <3>1. predecessor # None => runs'[predecessor] = runs[predecessor]
      BY <2>1 DEF PrepareEffect
    <3> QED BY <2>2, <3>1, <1>2 DEF PrepareEffect
  <2>3. CASE q # r
    <3>1. runs'[q] = runs[q]
      BY <2>3, <1>1
    <3>2. runs[q].predecessor # None =>
            runs[q].predecessor \in RunIds /\ runs'[runs[q].predecessor] = runs[runs[q].predecessor]
      BY <2>1 DEF RetryNarrows, TypeOK, Run
    <3> QED BY <3>1, <3>2 DEF RetryNarrows
  <2> QED BY <2>2, <2>3
<1>11. OneOwnerPerAgent'
  <2> SUFFICES ASSUME NEW b \in Agents,
                      NEW d \in CtxIds, contexts'[d].state # "NONE", contexts'[d].agent = b,
                      NEW e \in CtxIds, contexts'[e].state # "NONE", contexts'[e].agent = b
               PROVE  contexts'[d].owner = contexts'[e].owner
    BY DEF OneOwnerPerAgent, ContextsOf
  <2>1. ASSUME NEW x \in CtxIds, x # c, contexts'[x].state # "NONE"
        PROVE  x \in ContextsOf(contexts'[x].agent) /\ contexts'[x].owner = contexts[x].owner
    BY <2>1, <1>5, <1>6 DEF ContextsOf
  <2>2. ASSUME NEW x \in ContextsOf(a) PROVE contexts[x].owner = o
    <3>1. PICK y \in Earliest(a) : contexts[y].owner = o
      BY <2>2 DEF PrepareEffect, Admits, OwnerBindingAllows
    <3> QED BY <3>1, <2>2 DEF Earliest, OneOwnerPerAgent
  <2>3. contexts'[c].agent = a /\ contexts'[c].owner = o
    BY DEF PrepareEffect
  <2> QED BY <2>1, <2>2, <2>3 DEF OneOwnerPerAgent
<1>12. CapabilityBindsOneRun'
  <2>1. \A s \in RunIds : runs[s].cap # cap
    BY DEF PrepareEffect, Admits
  <2> QED BY <2>1, <1>1, <1>2 DEF CapabilityBindsOneRun
<1> QED BY <1>7, <1>8, <1>9, <1>10, <1>11, <1>12

(* Every handler preserves the inductive invariant.                         *)
LEMMA IInvStep == IInv /\ [AuthorityNext]_authVars => IInv'
<1> SUFFICES ASSUME IInv, [AuthorityNext]_authVars PROVE IInv'
  OBVIOUS
<1>1. TypeOK'
  BY TypeStep DEF IInv
<1>2. CASE Prepare
  BY <1>1, <1>2, PrepareShape, PrepareKeeps DEF IInv
<1>3. CASE ~Prepare
  BY <1>1, <1>3, StatesOnlyShape, StatesOnlyKeeps, StatesOnlyKeepsMandates DEF IInv
<1> QED BY <1>2, <1>3

(* The inductive invariant holds in every reachable state of the tables.    *)
THEOREM InductiveInvariant == Spec => []IInv
BY InitInv, IInvStep, PTL DEF Spec

(* No handler, in any order, leaves a live Run under a dead mandate.       *)
THEOREM LiveRunsHaveMandates == Spec => []LiveRunUnderActiveMandate
<1>1. IInv => LiveRunUnderActiveMandate
  BY DEF IInv
<1> QED BY <1>1, InductiveInvariant, PTL

(* A Run stays within its mandate's agent, lifetime and permissions.       *)
THEOREM RunsStayWithinMandates == Spec => []RunWithinMandate
<1>1. IInv => RunWithinMandate
  BY DEF IInv
<1> QED BY <1>1, InductiveInvariant, PTL

(* Retries never widen a grant, however long the chain.                    *)
THEOREM RetriesNarrow == Spec => []RetryNarrows
<1>1. IInv => RetryNarrows
  BY DEF IInv
<1> QED BY <1>1, InductiveInvariant, PTL

(* An agent never acquires a second owner.                                 *)
THEOREM AgentsHaveOneOwner == Spec => []OneOwnerPerAgent
<1>1. IInv => OneOwnerPerAgent
  BY DEF IInv
<1> QED BY <1>1, InductiveInvariant, PTL

(* A capability digest is never shared by two Runs.                        *)
THEOREM CapabilitiesAreUnique == Spec => []CapabilityBindsOneRun
<1>1. IInv => CapabilityBindsOneRun
  BY DEF IInv
<1> QED BY <1>1, InductiveInvariant, PTL

-----------------------------------------------------------------------------
(* Action properties.                                                      *)

(* From a state of the invariant no handler reopens a settled Run.          *)
LEMMA SettledStepHolds == IInv /\ [AuthorityNext]_authVars => SettledStep
<1> SUFFICES ASSUME IInv, [AuthorityNext]_authVars, NEW r \in RunIds, runs[r].state # "NONE"
             PROVE  /\ runs[r].state \in Terminal => runs'[r] = runs[r]
                    /\ runs[r].state = "REVOKED" =>
                          runs'[r].state \in {"REVOKED", "CANCELLED", "ABANDONED"}
                    /\ runs[r].state = "ACTIVE" => runs'[r].state # "PREPARED"
                    /\ runs'[r] = [runs[r] EXCEPT !.state = runs'[r].state]
  BY DEF SettledStep
<1> USE DEF IInv
<1>1. runs[r] \in Run /\ [runs[r] EXCEPT !.state = runs[r].state] = runs[r]
  BY DEF TypeOK, Run
<1>2. CASE Prepare
  <2>1. runs'[r] = runs[r]
    BY <1>2, PrepareShape DEF PrepareEffect, Admits, InsertRun, TypeOK
  <2> QED BY <2>1, <1>1
<1>3. CASE ~Prepare
  <2>1. /\ runs[r].state \in Terminal => runs'[r] = runs[r]
        /\ runs'[r] = [runs[r] EXCEPT !.state = runs'[r].state]
    BY <1>3, StatesOnlyShape DEF StatesOnly
  <2>2. ASSUME NEW q \in RunIds, NEW s, SetState(q, s)
        PROVE  runs'[r].state \in {runs[r].state, s} /\ (r # q => runs'[r] = runs[r])
    BY <2>2 DEF SetState, TypeOK, Run
  <2>3. CASE \E q \in RunIds : Activate(q) \/ ActivateLate(q)
    BY <2>1, <2>2, <2>3 DEF Activate, ActivateLate
  <2>4. CASE \E q \in RunIds, s \in FinishStatuses : Finish(q, s)
    BY <2>1, <2>2, <2>4 DEF Finish, Live, FinishStatuses
  <2>5. CASE \E c \in CtxIds : RevokeMandate(c)
    BY <2>1, <2>5 DEF RevokeMandate, Affected, Live, TypeOK, Run
  <2>6. CASE Restart
    BY <2>1, <2>6 DEF Restart, Live, TypeOK, Run
  <2>7. CASE Tick \/ UNCHANGED authVars
    BY <2>1, <2>7 DEF Tick, authVars
  <2> QED BY <1>3, <2>3, <2>4, <2>5, <2>6, <2>7 DEF AuthorityNext
<1> QED BY <1>2, <1>3

(* A settled Run never comes back: late activations, repeated finishes and *)
(* restarts change nothing, and revocation only leads to a cancellation.   *)
THEOREM SettledRuns == Spec => SettledRunsStaySettled
<1>1. IInv /\ [AuthorityNext]_authVars => [SettledStep]_authVars
  BY SettledStepHolds
<1> QED BY <1>1, InductiveInvariant, PTL DEF Spec, SettledRunsStaySettled

(* Nor does one reopen a closed or revoked mandate, or add a Run to it.     *)
LEMMA ClosedStepHolds == IInv /\ [AuthorityNext]_authVars => ClosedStep
<1> SUFFICES ASSUME IInv, [AuthorityNext]_authVars,
                    NEW c \in CtxIds, contexts[c].state \in {"CLOSED", "REVOKED"}
             PROVE  /\ contexts'[c] = contexts[c]
                    /\ \A r \in RunIds : runs'[r].ctx = c => runs[r].ctx = c
  BY DEF ClosedStep
<1> USE DEF IInv
<1>1. CASE Prepare
  <2> PICK r \in RunIds, a \in Agents, o \in Owners, cap \in Caps, d \in CtxIds,
           grant \in SUBSET Permissions,
           retryOf \in RunIds \cup {None}, predecessor \in RunIds \cup {None} :
             PrepareEffect(r, a, o, cap, d, grant, retryOf, predecessor)
    BY <1>1, PrepareShape
  <2>1. d # c /\ contexts'[c] = contexts[c]
    BY DEF PrepareEffect
  <2>2. \A q \in RunIds : runs'[q] = runs[q] \/ (q = r /\ runs'[q].ctx = d)
    BY DEF PrepareEffect, InsertRun, TypeOK
  <2> QED BY <2>1, <2>2
<1>2. CASE ~Prepare
  <2>1. contexts'[c] = contexts[c]
    BY <1>2 DEF AuthorityNext, Activate, ActivateLate, Finish, RevokeMandate, Restart,
                Tick, authVars, TypeOK
  <2>2. \A r \in RunIds : runs'[r].ctx = runs[r].ctx
    BY <1>2, StatesOnlyShape, KeptColumns
  <2> QED BY <2>1, <2>2
<1> QED BY <1>1, <1>2

(* A shut mandate is shut for good and takes no new Run.                   *)
THEOREM ClosedMandates == Spec => ClosedMandatesStayClosed
<1>1. IInv /\ [AuthorityNext]_authVars => [ClosedStep]_authVars
  BY ClosedStepHolds
<1> QED BY <1>1, InductiveInvariant, PTL DEF Spec, ClosedMandatesStayClosed

-----------------------------------------------------------------------------
(* Refinement: every handler is a step of the contract or a stutter.       *)

(* The contract's status of a Run, read back as states of its row.          *)
LEMMA StatusCases ==
    ASSUME TypeOK, NEW r \in RunIds
    PROVE  /\ RunStatus(r) \in {"fresh", "issued", "usable", "spent"}
           /\ RunStatus(r) = "fresh" <=> runs[r].state = "NONE"
           /\ RunStatus(r) = "issued" <=> runs[r].state = "PREPARED"
           /\ RunStatus(r) = "usable" <=> runs[r].state = "ACTIVE"
BY DEF RunStatus

(* The contract's status of a mandate, read back as states of its row.      *)
LEMMA MandateCases ==
    ASSUME TypeOK, NEW c \in CtxIds
    PROVE  /\ MandateStatus(c) \in {"absent", "open", "shut"}
           /\ MandateStatus(c) = "absent" <=> contexts[c].state = "NONE"
           /\ MandateStatus(c) = "open" <=> contexts[c].state = "ACTIVE"
BY DEF MandateStatus

(* Preparing a Run is issuing it under an open mandate.                     *)
LEMMA PrepareIssues ==
    ASSUME IInv, IInv',
           NEW r \in RunIds, NEW a \in Agents, NEW o \in Owners, NEW cap \in Caps,
           NEW c \in CtxIds, NEW grant \in SUBSET Permissions,
           NEW retryOf \in RunIds \cup {None}, NEW predecessor \in RunIds \cup {None},
           PrepareEffect(r, a, o, cap, c, grant, retryOf, predecessor)
    PROVE  Contract!Issue(r, c)
<1> USE DEF IInv
<1>1. /\ \A q \in RunIds \ {r} : runs'[q] = runs[q]
      /\ runs'[r].state = "PREPARED" /\ runs'[r].ctx = c
      /\ runs[r].state = "NONE"
  BY DEF PrepareEffect, InsertRun, Admits, TypeOK
<1>2. RunStatus(r) = "fresh" /\ RunStatus(r)' = "issued"
  BY <1>1, StatusCases DEF RunStatus
<1>3. \A q \in RunIds \ {r} : RunStatus(q)' = RunStatus(q)
  BY <1>1 DEF RunStatus
<1>4. [q \in RunIds |-> RunStatus(q)'] =
        [[q \in RunIds |-> RunStatus(q)] EXCEPT ![r] = "issued"]
  BY <1>2, <1>3
<1>5. [q \in RunIds |-> runs'[q].ctx] = [[q \in RunIds |-> runs[q].ctx] EXCEPT ![r] = c]
  BY <1>1
<1>6. MandateStatus(c) \in {"absent", "open"} /\ MandateStatus(c)' = "open"
  BY MandateCases DEF PrepareEffect, MandateStatus
<1>7. [d \in CtxIds |-> MandateStatus(d)'] \in [CtxIds -> {"absent", "open", "shut"}]
  BY DEF MandateStatus
<1>8. ASSUME NEW d \in CtxIds \ {c}
      PROVE  \/ MandateStatus(d)' = MandateStatus(d)
             \/ /\ MandateStatus(d) = "open" /\ MandateStatus(d)' = "shut"
                /\ \A q \in RunsOf(d) : ~Live(q)
  <2>1. CASE contexts'[d] = contexts[d]
    BY <2>1 DEF MandateStatus
  <2>2. CASE /\ contexts'[d] = [contexts[d] EXCEPT !.state = "CLOSED"]
             /\ contexts[d].state = "ACTIVE"
             /\ \A s \in RunsOf(d) : ~Live(s)
    <3>1. contexts'[d].state = "CLOSED"
      BY <2>2 DEF TypeOK, Context
    <3> QED BY <2>2, <3>1 DEF MandateStatus
  <2> QED BY <2>1, <2>2 DEF PrepareEffect
<1>9. ASSUME NEW d \in CtxIds, \A q \in RunsOf(d) : ~Live(q)
      PROVE  Contract!Idle(d)
  <2> SUFFICES ASSUME NEW q \in RunIds, runs[q].ctx = d
               PROVE  RunStatus(q) \notin {"issued", "usable"}
    BY DEF Contract!Idle, Contract!RunsUnder, Contract!CanAct
  <2> QED BY <1>9, StatusCases DEF RunsOf, Live
<1> QED BY <1>2, <1>4, <1>5, <1>6, <1>7, <1>8, <1>9 DEF Contract!Issue

(* The empty tables are an initial state of the contract.                   *)
LEMMA RefinementInit == Init => Contract!Init
BY DEF Init, Contract!Init, NoRun, NoContext, RunStatus, MandateStatus

(* A step that leaves the contexts alone and settles a set of live Runs.   *)
LEMMA SettlingSpends ==
    ASSUME IInv, IInv', UNCHANGED contexts,
           \A r \in RunIds : runs'[r].ctx = runs[r].ctx,
           \A r \in RunIds :
              \/ runs'[r].state = runs[r].state
              \/ Live(r) /\ runs'[r].state \in Terminal
              \/ runs[r].state = "REVOKED" /\ runs'[r].state \in Terminal
    PROVE  Contract!Spend
<1> USE DEF IInv
<1> DEFINE S == {r \in RunIds : Live(r) /\ runs'[r].state \in Terminal}
<1>1. S \in SUBSET {r \in RunIds : Contract!CanAct(r)}
  BY StatusCases DEF Contract!CanAct, Live
<1>2. ASSUME NEW r \in RunIds
      PROVE  RunStatus(r)' = IF r \in S THEN "spent" ELSE RunStatus(r)
  BY DEF RunStatus, Live, Terminal
<1>3. [r \in RunIds |-> RunStatus(r)'] =
        [r \in RunIds |-> IF r \in S THEN "spent" ELSE [q \in RunIds |-> RunStatus(q)][r]]
  BY <1>2
<1>4. [c \in CtxIds |-> MandateStatus(c)'] = [c \in CtxIds |-> MandateStatus(c)]
  BY DEF MandateStatus
<1>5. [r \in RunIds |-> runs'[r].ctx] = [r \in RunIds |-> runs[r].ctx]
  OBVIOUS
<1> HIDE DEF S
<1> QED BY <1>1, <1>3, <1>4, <1>5 DEF Contract!Spend

(* Every handler is a step of the contract or changes nothing it sees.      *)
LEMMA RefinementStep ==
    ASSUME IInv, IInv', [AuthorityNext]_authVars
    PROVE  [Contract!Next]_(Contract!vars)
<1> USE DEF IInv
<1>1. CASE Prepare
  <2> PICK r \in RunIds, a \in Agents, o \in Owners, cap \in Caps, c \in CtxIds,
           grant \in SUBSET Permissions,
           retryOf \in RunIds \cup {None}, predecessor \in RunIds \cup {None} :
             PrepareEffect(r, a, o, cap, c, grant, retryOf, predecessor)
    BY <1>1, PrepareShape
  <2>1. Contract!Issue(r, c)
    BY PrepareIssues
  <2> QED BY <2>1 DEF Contract!Next
<1>2. ASSUME NEW r \in RunIds, Activate(r) PROVE Contract!Enable(r)
  <2>1. \A q \in RunIds \ {r} : runs'[q] = runs[q]
    BY <1>2 DEF Activate, SetState, TypeOK
  <2>2. runs[r].state = "PREPARED" /\ runs'[r].state = "ACTIVE" /\ runs'[r].ctx = runs[r].ctx
    BY <1>2 DEF Activate, SetState, TypeOK, Run
  <2>3. RunStatus(r) = "issued" /\ RunStatus(r)' = "usable"
    BY <2>2, StatusCases DEF RunStatus
  <2>4. [q \in RunIds |-> RunStatus(q)'] =
          [[q \in RunIds |-> RunStatus(q)] EXCEPT ![r] = "usable"]
    BY <2>1, <2>3 DEF RunStatus
  <2>5. [q \in RunIds |-> runs'[q].ctx] = [q \in RunIds |-> runs[q].ctx]
    BY <2>1, <2>2
  <2>6. [c \in CtxIds |-> MandateStatus(c)'] = [c \in CtxIds |-> MandateStatus(c)]
    BY <1>2 DEF Activate, MandateStatus
  <2>7. runs[r].ctx \in CtxIds /\ MandateStatus(runs[r].ctx) = "open"
    BY <1>2, <2>2, MandateCases DEF Activate, LiveRunUnderActiveMandate, Live, TypeOK, Run
  <2> QED BY <2>3, <2>4, <2>5, <2>6, <2>7 DEF Contract!Enable
<1>3. ASSUME NEW r \in RunIds, NEW s \in Terminal, SetState(r, s), UNCHANGED contexts,
             Live(r) \/ runs[r].state = "REVOKED"
      PROVE  Contract!Spend
  <2>1. \A q \in RunIds \ {r} : runs'[q] = runs[q]
    BY <1>3 DEF SetState, TypeOK
  <2>2. runs'[r].state = s /\ runs'[r].ctx = runs[r].ctx
    BY <1>3 DEF SetState, TypeOK, Run
  <2> QED BY <1>3, <2>1, <2>2, SettlingSpends
<1>4. ASSUME NEW r \in RunIds, ActivateLate(r) PROVE Contract!Spend
  BY <1>3, <1>4 DEF ActivateLate, Live, Terminal
<1>5. ASSUME NEW r \in RunIds, NEW s \in FinishStatuses, Finish(r, s) PROVE Contract!Spend
  BY <1>3, <1>5 DEF Finish, FinishStatuses, Terminal
<1>6. ASSUME NEW c \in CtxIds, RevokeMandate(c) PROVE Contract!Revoke(c)
  <2>1. ASSUME NEW q \in RunIds
        PROVE  /\ q \in Affected(c) => runs'[q].state = "REVOKED"
               /\ q \notin Affected(c) => runs'[q].state = runs[q].state
               /\ runs'[q].ctx = runs[q].ctx
    BY <1>6 DEF RevokeMandate, TypeOK, Run
  <2>2. \A q \in RunIds : q \in Affected(c) <=> runs[q].ctx = c /\ Live(q)
    BY DEF Affected, RunsOf
  <2>3. \A q \in RunIds :
          RunStatus(q)' = IF runs[q].ctx = c /\ RunStatus(q) \in {"issued", "usable"}
                          THEN "spent" ELSE RunStatus(q)
    BY <2>1, <2>2 DEF RunStatus, Live
  <2>4. [q \in RunIds |-> RunStatus(q)'] =
          [q \in RunIds |->
             IF q \in Contract!RunsUnder(c) /\ Contract!CanAct(q)
             THEN "spent" ELSE [p \in RunIds |-> RunStatus(p)][q]]
    BY <2>3 DEF Contract!RunsUnder, Contract!CanAct
  <2>5. [q \in RunIds |-> runs'[q].ctx] = [q \in RunIds |-> runs[q].ctx]
    BY <2>1
  <2>6. /\ contexts[c].state = "ACTIVE" /\ contexts'[c].state = "REVOKED"
        /\ \A d \in CtxIds \ {c} : contexts'[d] = contexts[d]
    BY <1>6 DEF RevokeMandate, TypeOK, Context
  <2>7. [d \in CtxIds |-> MandateStatus(d)'] =
          [[d \in CtxIds |-> MandateStatus(d)] EXCEPT ![c] = "shut"]
    BY <2>6 DEF MandateStatus
  <2>8. MandateStatus(c) = "open"
    BY <2>6, MandateCases
  <2> QED BY <2>4, <2>5, <2>7, <2>8 DEF Contract!Revoke
<1>7. CASE Restart
  BY <1>7, SettlingSpends DEF Restart, Live, Terminal, TypeOK, Run, Contract!Next
<1>8. CASE Tick \/ UNCHANGED authVars
  BY <1>8 DEF Tick, authVars, Contract!vars, RunStatus, MandateStatus
<1> QED BY <1>1, <1>2, <1>4, <1>5, <1>6, <1>7, <1>8 DEF AuthorityNext, Contract!Next

(* The sidecar's tables implement the authority contract.                  *)
THEOREM AuthorityImplementsContract == Spec => ImplementsContract
<1>1. IInv /\ IInv' /\ [AuthorityNext]_authVars => [Contract!Next]_(Contract!vars)
  BY RefinementStep
<1> QED BY <1>1, RefinementInit, InductiveInvariant, PTL
        DEF Spec, ImplementsContract, Contract!Spec
=============================================================================
