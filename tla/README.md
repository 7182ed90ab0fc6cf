# MandateFlow in TLA+

MandateFlow lets a demo user run coding agents whose tools are protected by a
*mandate*: a Node control plane admits and executes Runs, a Go sidecar issues
each Run a capability under a policy context, and an MCP gateway in that
sidecar decides every tool call from the Run's grant and from where its inputs
came from. This directory holds TLA+ modules for those parts, TLC
configurations that check them on small instances, and TLAPS proofs.

## The system

| Component | Code | State | Operations |
|---|---|---|---|
| Authority lifecycle | `middleware/mandateflow/internal/mandateflow/service.go`, `store.go` | tables `contexts`, `runs` | prepare (NEW, FOLLOW_UP, RETRY), activate, finish, revoke, restart recovery, authenticate |
| Tool gateway and policy | `tools.go`, `policy.go`, `types.go`, `mcpserver/server.go` | tables `protected_references`, `receipts`, `fixture_counters` | ExecuteTool for five tools |
| Evidence, control API | `evidence.go`, `httpapi/control.go` | none | read-only views; routing to the handlers above |
| Agent service | `CodeJam/apps/server/src/agent-service.ts` | agents and Runs in the JSON store; `activeExecutions`, `cancellationRequests`, `progressWrites` in memory | create, update, delete, send, retry, new workflow, start, stop, revoke, executeRun, reconcile, initialize |
| MandateFlow client | `mandateflow-client.ts` | none | HTTP calls, aborted after 5 s |
| Fixture Runtime and proof | `fixture-runner.ts`, `proof-validation.ts`, `web/src/proof.ts` | the saved payment reference | ten scripted calls, a retry; two judgements of the receipts |
| Codex runners | `codex-runner.ts`, `container-codex-runner.ts` | child processes, timers, containers | run, cancel, time out, limit output |
| Groq proxy | `groq-responses.ts`, `scripts/groq-responses-proxy.mjs` | a loopback server of each local Run | start, forward with bounded retry, close |
| JSON store | `store.ts` | the database file, the copy in memory, a queue | initialize, mutate, snapshot |
| Workspaces | `workspace.ts` | a directory of each Agent | create, writeInstructions, archive |
| Web UI | `web/src/App.tsx`, `api.ts` | selection, shown Run, evidence and mandate, polling loops | select, send, retry, new workflow, revoke, poll |
| Runtime trace | `runtime-session.ts`, `trace.ts` | the progress log of a Run | bounded log, redaction |
| Scripts, deployment, CI | `scripts`, `deploy`, `.github` | none | build and test descriptions |

How they interact: the browser polls the control plane and sends it commands.
The control plane calls the sidecar over HTTP (prepare, activate, finish,
revoke, evidence); a Runtime calls the gateway over MCP with the Run's
capability; both reach the same SQLite database, through a pool of one
connection with immediate transactions. Inside the control plane, request
handlers and executions interleave at every `await`; `JsonStore.mutate`
serialises the mutations between them. A local Runtime sends its model requests
to a proxy in the control plane's own process.

What is hard in it, and what each part must therefore get right:

- **Authority.** Late, repeated and racing control calls; closing idle contexts
  while other Runs prepare; expiry, where `After` and `!Before` differ at one
  instant; a restart in between. No usable Run without an active mandate, no
  authority gained by a retry, nothing reopened.
- **Gateway.** The principal is read before the transaction that uses it;
  provenance must survive derivations, follow-ups and retries. Nothing is
  recorded on withdrawn authority, and Payment provenance never reaches the CRM.
- **Proof.** The control plane judges a whole context's receipts by their
  order, and the page does so again with other predicates; the fixture's retry
  depends on a reference remembered across restarts. What the three say agrees.
- **Agent service.** Stop, revoke and delete race an execution and stop waiting
  for it after 8 s; a call may fail after it took effect; either process may
  crash. One execution at a time, completions confirmed, no usable capability
  forgotten, every Run settled.
- **Runner and proxy.** Timeout, output limit and cancellation race the exit of
  a process that may ignore SIGTERM; output arrives in chunks; the removal of a
  container is asked once. Run and cancel end, the verdict is right, nothing is
  left behind.
- **Records.** Mutations are queued over a copy and may fail or crash half
  way, directories change outside that queue, and a revocation ends a Run that
  is still executing. Each mutation is whole and durable, rows have their
  directories, the log keeps its newest entries, an outcome stays.
- **Web UI.** Responses arrive after the selection has changed and in any order,
  polls overlap. What is shown belongs to the selected Agent, and a revoked
  workflow is locked.

`PROJECT.json` lists the hazards line by line with the properties aimed at them.

## Modules

    AuthorityContract          (abstract)      DurableStore        (abstract)
      ^ implemented by                           ^ implemented by
    Authority <- Gateway <- ProofRun           JsonStore <- Records
         ^                                     GroqProxy <- Runner
         +------ AgentService                  WebApp

An arrow points to the module that is extended.

`AuthorityContract` is the abstract specification of authority: a Run is
issued once under an open mandate, may become usable, and once spent is spent;
a mandate is shut when idle, or by a revocation that spends its Runs at once.

`Authority` models the sidecar's tables. `contexts` and `runs` are functions
from ids to rows (state NONE is "no row"), `now` is the clock behind
`Service.now`. One action is one handler, because a handler is one transaction;
a handler that fails rolls back and is no step, except the late activation,
which commits EXPIRED before it answers with a conflict (`ActivateLate`).
Replays read the row back and are stutters. `PrepareNew` includes the closing
of idle contexts, `RevokeMandate` the Runs it takes with it, `Restart` is the
UPDATE that `Store.initialize` runs. `Granted` is `intersectPermissions` as set
intersection, `OwnerBindingAllows` is `loadBoundAgentOwner`: only the
earliest context is compared. Two contexts created at the same instant are both
earliest, so the model allows either answer.

`Gateway` EXTENDS `Authority` with MCP calls in flight. `CallReadsRun` and
`CallReadsContext` are the two reads of `Authenticate`, `ExecuteTool` is the
transaction that repeats the checks, takes the decision in the code's order
(scope, reference, flow, ownership) and writes receipt, counter and reference
together. References and receipts are sequences in creation order. An internal
error rolls the transaction back and leaves the call `failed`.

`ProofRun` EXTENDS `Gateway` with what stands around it in a proof: a Runtime
that makes one call at a time, the fixture's script of ten calls with the
decision it expects of each, the retry that resubmits the saved payment
reference (`saved`, in memory and on disk), a Codex Runtime that replaces some
calls by any, `validateMandateFlowProof` as the greedy search it is (`First`,
`Indexes`), and the panel's predicates. A call may be given up and served
later, a write of the state file may fail, either process may restart.

`AgentService` EXTENDS `Authority` with the control plane for one Agent. Every
execution has a phase, one per await of `executeRun`; every operator request has
a step, one per await of its handler. A control call (`Call`) is served, refused,
or answered with an error although it was served; or it is given up and handled
later (`late`, `LateCallArrives`). `NodeRestart` loses everything in memory and
applies `initialize`; `SidecarRestart` is `Restart`. A cancellation kills a
Runtime only once it is registered (`ExecSpawn`); before that it goes unheard.

`Runner` models one Run from `run()` to its answer, for both runners: spawn,
output cut into chunks (`written`, `consumed`, `rest`, `parsed`), the flags and
timers of the entry in `active`, signals, the memoised `rm --force`, 'close',
the verdict, the clean-up. It EXTENDS `GroqProxy`, the loopback server with the
bounded repetition of a 429.

`DurableStore` is the abstract specification of the store: mutations take
effect whole, in the order of the calls; an answered one stays, a rejected one
never happens. `JsonStore` is `store.ts` step by step: take a copy, apply,
write the temporary file, rename, publish, answer; any step may be the last
before a crash, and a file operation may fail. What is in a database is left to
the module that extends it.

`Records` EXTENDS `JsonStore` with the rows of an Agent and a Run, the
Agent's directory, requests that create, edit and delete it in the code's order
of directory and row, requests that revoke the Run's mandate or reconcile what
is pending (`Revokes`, `Revoked`, `Reconciled`), the progress log with its queue
of writes, the end of a Run, and what start-up repairs and reconciles. A
revocation may stop waiting for the execution, which then ends the Run again.
Of the sidecar it keeps whether the Run is live, revoked or finished there.

`WebApp` is the page: `view` is what it shows, `net` the requests under way,
`loops` the calls of `pollRun`. A response is handled by the handler that
asked for it, with its look at `selectedIdRef` where the code has one. The
control plane answers the requests in any order, and the page handles the
answers in any order, as parallel connections and `Promise.all` allow. Two
variables only watch: `astray` (the answer to a click on another Agent changed
this view) and `overtaken` (an answer was handled before one that was given
earlier and changes the same).

The `MC` modules instantiate them for TLC. The theorems are in
`Authority_proofs`, `Gateway_proofs` (which extends it), `AgentService_proofs`
and `ProofRun_proofs` (which extend `Authority_proofs` and `Gateway_proofs`),
`Records_proofs`, `Runner_proofs` and `WebApp_proofs`.

Several operators have a neighbour that differs by one plausible slip (for
example `GrantExpiryUncapped`); the module comments list them. They document
what each property is sensitive to, and no specification uses them.

### Abstractions

- Ids are model values, or numbers in creation order in `AgentService` and
  `ProofRun` (the code draws them at random; the order stands for
  `created_at`). A capability digest has the number of its Run there.
- A permission tuple is its tool. A fixture resource is the tool that lists it
  and its owner; the seeded fixtures never change.
- Hashes, fingerprints, JSON and wording are left out. A prepare with the hash
  of an existing Run is a replay, one with another hash a conflict: no step.
- In `AgentService` time only passes between steps; timeouts are
  nondeterministic (`WaitsTimeOut`, failing calls, a failing Runtime).
- `ensureMandateFlowReady` failing is a request that was never made. The
  retry's look at the evidence (`hasRetryableDenial`) is left out of
  `AgentService`: any retry of an eligible Run may be requested.
- `Runner`: an output limit counts lines, a chunk is a number of lines and
  perhaps the beginning of another. An engine answers a removal of a container
  it does not know with an error (`MissingIsFailure`), which makes the runner
  kill the client; with an engine that answers success `EveryRunEnds`
  fails, because the removal is asked once.
- `JsonStore`: the file system keeps what it was given; the code does not sync,
  and a loss of power is not modelled. `Records` has one Agent and one Run. Its
  edits are not refused while the Agent is busy (`agent-service.ts:209-219`
  refuses them): the model does more than the code. A queued Run is `running`.
- `WebApp`: a click, its render and the effects of that render are one step.
  Polls and clicks wait while `MaxInFlight` requests are under way; what an
  answer asks for is never held back. The page opens on the first Agent, each
  Agent with one completed Run.

## Runs

| Run | Checks | Bounds |
|---|---|---|
| `authority` | `TypeOK`, `RunWithinMandate`, `LiveRunUnderActiveMandate`, `RetryNarrows`, `SettledRunsStaySettled`, `ImplementsContract` | 1 agent, 2 contexts, 3 Runs (a retry of a retry), 2 permissions and a foreign one, clock past both lifetimes |
| `gateway` | `OneOwnerPerAgent`, `LineageWithinContext`, `EvidenceWithinMandate`, `NoEvidenceWithoutAuthority` | 2 agents, owners, contexts and Runs, a call in flight, 2 decisions: one to mint, one to use elsewhere |
| `proof` | `FixtureMeetsItsDecisions`, `ValidationIsExact`, `ConfirmedProofHasLineage`, `PanelAgrees`, `NoPaymentReidentification`, `NoCallFails`, `CounterMatchesReceipts` | 1 context, 2 Runs (a proof, then a second one or a retry), 21 receipts, one fault; a Codex Run replaces calls 6, 9 and 10 by any |
| `service_retries` | `OneExecution`, `AgentContextNotClosed`, `EveryRunSettles` | 2 requests at a time, 2 Runs, 2 contexts, 2 finish attempts; send, retry, new workflow |
| `service_stop` | `AuthorityIsAccountedFor`, `BusyIsExecuting` | stop, start, delete, waits that time out, one late control call |
| `service_recovery` | `CompletionIsConfirmed`, `AuthorityIsAccountedFor`, `OutcomesAreFinal` | send, retry, new workflow, revoke; waits that time out; one restart of either process; clock past expiry |
| `runner` | `StoppedRunHasNoResult`, `ResultIsLastMessage`, `NothingLeftBehind`, `EveryRunEnds` | both runners, 3 lines under an output limit of 2, 1 request repeated once |
| `records` | `SnapshotIsDurable`, `LogIsWindow`, `RowHasWorkspace`, `NoCallerIsForgotten`, `NoRunLeftExecuting`, `ImplementsDurableStore`, `EndedRunStays` | 2 overlapping requests (create, edit, delete, revoke, reconcile), a Run with 2 events in a log of 2 (a third, terminal entry cuts it), one crash or failed operation anywhere |
| `web` | `WebTypeOK`, `EvidenceOfSelection`, `BlockedUnlessMisled`, `EndedRunIsShown` | 2 Agents, 1 click, 2 changes of selection (away and back), 1 lost request, 2 requests under way when a poll or a click adds one |
| `service_stop_race` | `OneExecution`, violated | send, stop, start; 2 Runs; no wait times out |
| `records_instructions` | `InstructionsAreCurrent`, violated | as `records` |
| `web_lock` | `BlockedInOrder`, violated | 2 Agents, 2 clicks, 2 changes of selection |

The type invariants `GatewayTypeOK`, `ServiceTypeOK`, `RunnerTypeOK` and
`RecordsTypeOK`, and `CapabilityBindsOneRun` and `ClosedMandatesStayClosed`,
hold in these runs too; the runs leave them out to spend their time on
properties that take several steps to break. All six are proved.

Two Runs are enough where a property compares two; three where it concerns a
chain. All bounds are constants of a `.cfg`, and each module names its own:
`MaxTime`, `MaxReceipts`, `Attempts` (3 in the code; that it is bounded is what
matters), `MaxCrashes`, `MaxLate`, `MaxFaults`, `FreeSteps`, `CodexRuns`,
`MaxRetries`, `MaxLines`, `MaxJobs`, `MaxRequests`, `MaxEvents`, `MaxRuns`,
`MaxClicks`, `MaxSelects`, `MaxFailures`, `MaxInFlight` and the finite id sets.
Symmetry is used in the runs of `MCAuthority` and `MCGateway`, whose ids are
interchangeable, and among the callers of `records`, and nowhere else: other
ids are ordered, or liveness is checked. Deadlock is checked in those two runs; elsewhere the system may
rest, when every Run has ended and nobody asks for anything.

**Fairness.** All of it is weak fairness, of steps the code's runtime takes.

- `FairServiceSpec`: each execution. A control call is aborted after 5 s, the
  Runtime is killed after `codexTimeoutMs`, a mutation is a local write, so
  every await ends. Nothing is assumed of operators, late calls or the clock.
- `FairRunnerSpec`: promises resolve, timers fire, the engine answers within
  its 8 s, SIGKILL and the end of a container end a process, an upstream
  request ends, and what Codex left behind lets go of the pipes. Codex itself
  may run for ever and may ignore SIGTERM.
- `FairWebSpec`: the server answers, responses arrive, the timer of a poll
  fires, and a Run ends, which `EveryRunSettles` and `EveryRunEnds` say of the
  control plane and its Runtimes. Nothing is assumed of clicks.

`EndedRunIsShown` excepts behaviours with a lost request: `pollRun` ends with
the first request that fails, and the page then shows the error and the last
status it read until something is selected or clicked. It also excepts those in
which an answer overtakes an earlier one on the same. The code has no such
account of the order: `Promise.all` (`App.tsx:287`) may hold an old list of Runs
until the messages have come, while a surviving poll shows the end and is at its
last refresh; the old Run is then shown as running, `pollRun` returns at once
because the Run is still registered, and no poll follows. With the exception
dropped TLC finds this; no text of the repository promises otherwise.

`EndedRunStays` says what the code keeps, which is less than the whole row: a
revocation or a reconciliation may still change the mandate of a Run that was
not completed, and an execution that a revocation did not wait for writes its
own end over `cancelled`, once: its terminal entry, and `failed` or `cancelled`,
never `completed`.

### What the violated runs show

- `service_stop_race`: `stopAgent` looks for an unfinished Run, finds none,
  and writes `stopped` although a message was admitted meanwhile. That Run goes
  on; `start` makes the stopped Agent ready and a second Run is admitted. Tests
  promise "atomically accepts only one concurrent run per Agent"
  (`agent-service.test.ts:167`).
- `records_instructions`: `updateAgent` stores the instructions in a queued
  mutation and writes `AGENTS.md` afterwards. Two overlapping edits may store
  in one order and write in the other, although a workspace says that its
  `AGENTS.md` "contains the current Agent instructions" (`workspace.ts:54`).
- `web_lock`: the answer to *New secure workflow* clears the shown mandate
  without a look at the selected Agent. If another Agent with a revoked mandate
  was selected meanwhile, its Send and Retry are offered again, until the
  mandate is next read; the README of the repository says they "are blocked
  while revoked" (`README.md:146`). The sidecar refuses the authority all the
  same. `BlockedInOrder` excludes answers that overtake others, so these are not
  the cause.

Three more behaviours against the same texts, or against none, have no run of
their own:

- `refreshMandate` (`App.tsx:248-253`) shows whatever answer is handled last. One
  that was given before the revocation and comes after the REVOKED one unlocks
  Send and Retry, until the mandate is next read: `BlockedUnlessMisled` fails
  when its condition `~overtaken` is dropped. With both exceptions it passes and
  is proved: lost requests apart, nothing else unlocks the page.
- `revokeMandate` makes a busy Agent ready whether or not the revocation affected
  the Run that keeps it busy (`agent-service.ts:338`): the sidecar may have
  finished that Run already, or the mandate may be one of an earlier workflow.
  A second Run is admitted beside it; TLC finds it with
  `Operations = {"send", "revoke"}` in `MCServiceStopRace.cfg`. `OneExecution`
  holds when neither stop nor revocation is used (`service_retries`).
- `requireFinalizedAuthority` looks for pending Runs before the admission is
  queued (`agent-service.ts:849`), so that a Run may settle as pending, with the
  Agent in `error`, between the two, and the message is admitted.

## Proofs

`Authority_proofs` proves, for any constants that satisfy the named
assumptions (lifetimes and clock are naturals, the platform's permissions are
permissions, `None` is no id), that `Spec` implies always `TypeOK`,
`LiveRunUnderActiveMandate`, `RunWithinMandate`, `RetryNarrows`,
`OneOwnerPerAgent`, `CapabilityBindsOneRun`, and that it satisfies
`SettledRunsStaySettled`, `ClosedMandatesStayClosed` and the refinement
`ImplementsContract`.

The inductive invariant `IInv` is the conjunction of these state properties
and `RowsComplete` (an id without a row is blank, a Run with a row has a
digest). They need each other: `RetryNarrows` needs that a completed
predecessor never leaves COMPLETED and its context column never changes;
`OneOwnerPerAgent` needs the types of `issuedAt`, to know that some earliest
context agrees with all; the refinement needs `LiveRunUnderActiveMandate`, to
know that a mandate is open when its Run becomes usable. The proof treats steps
by shape: `PrepareShape` shows that the three modes of Prepare have one effect
(insert a row under an active context, perhaps close idle ones), and
`StatesOnlyShape` that every other handler writes state columns only. Each
invariant is then preserved by the two shapes, and only
`LiveRunUnderActiveMandate` needs the handlers one by one.

`Gateway_proofs` starts from `GatewaySpec => Spec`: a call in flight only reads
the authority tables, so every theorem above holds of the gateway too. Its
first invariant, `GInv`, adds to `IInv` the types, that every context has an
owner (`OwnersNamed`) and that a call past its first read names an existing
Run (`CallsNamed`); from it follows that evidence is only added under authority
that is valid at that very step (`NoEvidenceWithoutAuthority`), although the
call read the principal earlier. The second, `PInv`, is the provenance of
evidence: `LineageWithinContext`, `NoPaymentReidentification`,
`EvidenceWithinMandate` and `NoCallFails` with two strengthenings. `Provenanced`
says that the labels of a subject tell which listing caused it: without
it the payment property is not inductive, because the decision looks at labels
and the property at causes. `ReceiptsNamed` says that the Runs of receipts exist.
Each step either leaves the evidence alone or appends one decision
(`EvidenceStep`), so preservation is one argument about keeping and one about
recording. `CounterMatchesReceipts` is proved with the library's facts on
cardinality. The assumption `ToolAssumption` says that the platform grants the
modelled tools.

A third section goes back from decisions to listings. `ReferencesFollow` (a
reference expires with its mandate and was minted after its parent) makes
`DecidedOnChain` inductive: an answered CRM decision goes back, through an
allowed lookup, to the listing its label names, in the order of the receipts.

`AgentService_proofs` starts from `EveryStepIsSidecarStep`: whatever the control
plane, its operator, the network and two restarts do, the sidecar's tables move
by a handler of `Authority` or not at all (`ServiceImplementsAuthority`). The
invariant `ServiceInv` then says for each Run how three tables fit together,
the stored row, the execution in memory and the sidecar's row (`RowOfAgent`,
`Confirmed`, `CancelledUnderExecution`, `Accounted`), and for each request what
its handler may still rely on after each await (`Reconciled`, `Cancelling`).
`AuthorityIsAccountedFor` is not inductive without `CanAct`: an activation that
was given up and may still arrive (`late`) counts like an ACTIVE row. From it
follow `CompletionIsConfirmed`, `AuthorityIsAccountedFor`, `BusyIsExecuting` and
`OutcomesAreFinal` for any number of requests, Runs, losses and restarts. Two
theorems have hypotheses, those of the run `service_retries`:
`OneExecution` without stop and revoke (`service_stop_race` shows a
counterexample with stop), `AgentContextNotClosed` also without late calls. The
assumption `ServiceRequestAssumption` is that a request asks for the whole
platform, as `agent-service.ts:625` does.

`Records_proofs` proves of `JsonStore` that the queue is ordered, that at most
the head is between its effect and its answer, and that the file is at every
instant a whole database (`StoreInv`); each action is a disjunct of `StoreStep`,
and `StoreKeepsPromise` maps it to a step of `DurableStore` or a stutter
(`ImplementsDurableStore`). On top, `Together` relates queue, rows, directory and
waiting callers: who waits for which mutation (`NobodyForgotten`), what a queued
edit will find (`Owned`, `ChainInv`), what the rows hold at each stage of a
request and of the Run, and what the sidecar thinks of it then (`Stage`,
`RequestInv`, `RowInv`). `RowHasWorkspace`,
`NoRunLeftExecuting`, `NoCallerIsForgotten`, `SnapshotIsDurable`, `LogIsWindow`
and `EndedRunStays` follow. `RecordsAssumption` says that the markers of an
absent and a torn file are no databases.

`Runner_proofs` has one inductive invariant, `RunnerInv`: what each stage of
`run()` knows of process, timers, proxy and container (`Stages`); that signals
go to a living process, and that a container's client is killed only after its
removal failed (`Removal`); that a stop which was answered is not forgotten
(`Stopped`); and that what is parsed is a prefix of what was written, up to the
limit (`Output`), which `ResultIsLastMessage` needs: the length of the output
and its division into chunks are arbitrary.

`ProofRun_proofs` shows first that every step of the proof workflow is a step
of the gateway (`ProofKeepsGateway`), so that all its theorems carry over.
`ValidationAcceptsExactlyTheProof` is a theorem about the greedy search: each
search stops no later than any chain passes, so a choice made early never hides
a proof, and where two denials compete the counter, which only grows, decides
the recovery. `ProofOutcome` is the invariant of the Runtime: `Paced` (how many
calls each phase has made), `Following` (the j-th reference it holds came with
the receipt of the j-th step of its script, and in that order), `RetriesNamed`
and `ProofsConfirmed` (receipts only grow, so what was a proof stays one). It
yields `ConfirmedProofHasLineage` and `PanelAgrees`. `FixtureMeetsItsDecisions`
needs more, `Unhindered`: grants are full, the Runtime works in the current
workflow, and what is saved, in memory and on disk, is a denied Payment case of
that workflow from the moment a proof came past it, so that a retry loads what
it expects. It holds for `Requests = {Tools}`, which is what the control plane
asks for; with a narrower grant the fixture is rightly contradicted.

`WebApp_proofs` proves the page for any number of Agents, Runs, clicks and
requests under way, answered and handled in any order. `WebInv` says what the
rows of the control plane hold (`ServerFits`), what a request and its answer are
about (`NetFits`), and what the page may show (`PageFits`).
`BlockedUnlessMisled` speaks of a page that waits for nothing; it is inductive
only with what a page that waits still hears of a revocation. `Heard` says that
either something under way will tell of it (a read of the mandate or a
revocation yet to be answered, or an answer that says REVOKED with nothing
stale given after it), or the lock is closed and no answer on its way can open
it. While no answer overtakes another, an answer that was given last is handled
last, which is why `net` keeps those that change the same in the order in which
they were given. The assumptions are that there is an Agent, that it may have a
Run, and that `None` is neither a Run nor a mandate.

**Left to TLC.** Liveness (`EveryRunSettles`, `EveryRunEnds`,
`EndedRunIsShown`) is out of the provers' reach. The violated runs are
counterexamples. Every safety invariant and action property of a passing run is
a theorem, `OneExecution` and `AgentContextNotClosed` under the hypotheses above.

## Not modelled

- Scripts, deployment and CI: no part of the running system. Configuration
  parsing, authentication, JSON schemas, HTTP and MCP encoding, redaction and
  the shaping of texts: data conversion without protocol state.
- Of the page: the dialogs that create, change, stop and delete an Agent, the
  list of messages, sign-in, rendering.
- Of the control plane: messages, `codexThreadId`, MandateFlow disabled.
- Receipts are listed by the text of `created_at`, whose fraction of a second
  has no fixed width, so two of one second may be listed in the wrong order;
  the models list them as they were recorded.
- A shutdown by signal leaves a local Codex process behind (`index.ts:34`);
  the models end a Runtime with its control plane.

## Plan

Modelled, checked and proved: everything above. What is left is a statement of
what `AgentService` promises its callers (a Run has one outcome, and a
completed one was confirmed by the sidecar) as an abstract module of its own,
like `AuthorityContract`, and the proof that `AgentService` implements it.
