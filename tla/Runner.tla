------------------------------- MODULE Runner -------------------------------
(***************************************************************************)
(* One Run of Codex in a local process (codex-runner.ts) or in a container *)
(* (container-codex-runner.ts): the child and its output, the timeout, the *)
(* output limit, cancel, and what run() returns.  A local Run has a        *)
(* Responses proxy of its own (module GroqProxy).                          *)
(*                                                                         *)
(* The child ends with 'close', when the process has exited and its pipes  *)
(* have no writer left: a command Codex left behind may hold them longer.  *)
(* The engine's client may die without its container.                      *)
(*                                                                         *)
(* ForgetsCancellation, TerminateOnce, RemovalGivesUp, DropsLastLine and   *)
(* DecidesAtOnce are the operators after them with one plausible slip;     *)
(* each breaks a property below, and RunnerSpec uses none of them.         *)
(***************************************************************************)
EXTENDS GroqProxy, Sequences, SequencesExt

CONSTANTS
    Kinds,            \* runtimeProvider: "local", "container"
    Lines,            \* the lines a Runtime writes: agent messages and others
    Messages,         \* those that complete an agent message
    MaxLines,         \* bound: lines a Runtime writes
    OutputLimit,      \* codexMaxOutputBytes, in lines
    MissingIsFailure  \* "rm --force" of no container fails, on every engine here

ASSUME RunnerAssumption ==
    /\ Kinds \subseteq {"local", "container"}
    /\ Messages \subseteq Lines
    /\ MaxLines \in Nat /\ OutputLimit \in Nat
    /\ MissingIsFailure \in BOOLEAN

VARIABLES
    kind,       \* the runner
    run,        \* run(): "idle", "starting", "running", "closing", "over", "crashed"
    outcome,    \* what it returns or throws
    flags,      \* cancelled, timedOut, outputExceeded of the entry in active
    child,      \* the process: its state, whether its pipes are open, its exit code
    signals,    \* sent to the child and not yet acted upon
    killTimer,  \* forceKillTimer, and the timer after a failed removal
    timeout,    \* the timer of codexTimeoutMs is armed
    container,  \* "none", "absent", "up", "gone"
    removal,    \* the memoised "rm --force": "none", "asked", "done", "failed"
    written,    \* lines the Runtime wrote
    consumed,   \* how many of them consume() has seen
    rest,       \* how many of those wait for their newline
    parsed,     \* lines that reached parseCodexEventLine
    stop        \* cancel(): "none", "waiting", "true", "false"

runnerVars == <<kind, run, outcome, flags, child, signals, killTimer, timeout,
                container, removal, written, consumed, rest, parsed, stop>>
vars == <<proxyVars, runnerVars>>

Outcomes == {"none", "result", "cancelled", "timed out", "output exceeded",
             "exit code", "no message", "error"}
Flags == {"cancelled", "timedOut", "outputExceeded"}

Local == kind = "local"
Active == run = "running"
Closed == child.state = "exited" /\ ~child.pipes
Alive == child.state = "alive"
Container == container # "none"

-----------------------------------------------------------------------------
(* terminate(), and removeContainer(), which asks once.                    *)

TerminateOnce ==
    /\ signals' = IF Alive THEN signals \cup {"SIGTERM"} ELSE signals
    /\ UNCHANGED <<killTimer, removal>>
Terminate ==
    /\ signals' = IF Alive THEN signals \cup {"SIGTERM"} ELSE signals
    /\ killTimer' = IF Alive /\ killTimer = "unset" THEN "armed" ELSE killTimer
    /\ UNCHANGED removal
RemoveContainer ==
    /\ removal' = IF removal = "none" THEN "asked" ELSE removal
    /\ UNCHANGED <<signals, killTimer>>

Raise(flag) ==
    /\ flags' = flags \cup {flag}
    /\ IF Local THEN Terminate ELSE RemoveContainer

-----------------------------------------------------------------------------
(* run(): a local Run starts its proxy first and is not in active yet.     *)

Begin ==
    /\ run = "idle"
    /\ IF Local
       THEN /\ run' = "starting"
            /\ UNCHANGED <<child, timeout, container>>
       ELSE /\ run' = "running"
            /\ child' = [child EXCEPT !.state = "alive", !.pipes = TRUE]
            /\ timeout' = TRUE
            /\ container' = "absent"
    /\ UNCHANGED <<proxyVars, kind, outcome, flags, signals, killTimer, removal,
                   written, consumed, rest, parsed, stop>>

Spawn ==
    /\ run = "starting"
    /\ ProxyStarts
    /\ run' = "running"
    /\ child' = [child EXCEPT !.state = "alive", !.pipes = TRUE]
    /\ timeout' = TRUE
    /\ UNCHANGED <<kind, outcome, flags, signals, killTimer, container, removal,
                   written, consumed, rest, parsed, stop>>

StartFails ==
    /\ run = "starting"
    /\ ProxyStartFails
    /\ run' = "over" /\ outcome' = "error"
    /\ UNCHANGED <<kind, flags, child, signals, killTimer, timeout, container, removal,
                   written, consumed, rest, parsed, stop>>

(* finally: timers cleared, the entry deleted, then the proxy closed.      *)
CloseProxy ==
    IF proxy = "listening" THEN ProxyCloses ELSE UNCHANGED proxyVars

DecidesAtOnce(result) ==
    /\ outcome' = result
    /\ timeout' = FALSE
    /\ killTimer' = IF Local THEN "unset" ELSE killTimer
    /\ run' = "over"
    /\ CloseProxy
Decides(result) ==
    /\ outcome' = result
    /\ timeout' = FALSE
    /\ killTimer' = IF Local THEN "unset" ELSE killTimer
    /\ run' = IF Local THEN "closing" ELSE "over"
    /\ CloseProxy

(* 'error' of the child: nothing was started.                              *)
SpawnFails ==
    /\ Active /\ Alive /\ written = <<>> /\ requests = [q \in Requests |-> "none"]
    /\ container \in {"none", "absent"} /\ signals = {}
    /\ child' = [child EXCEPT !.state = "exited", !.pipes = FALSE]
    /\ container' = IF Container THEN "gone" ELSE "none"
    /\ Decides("error")
    /\ UNCHANGED <<kind, flags, signals, removal, written, consumed, rest, parsed, stop>>

(* 'close': the line without a newline is parsed, and the first reason to  *)
(* fail decides.                                                           *)
DropsLastLine == parsed
ParseRest == parsed \o SubSeq(written, consumed - rest + 1, consumed)

LastMessage(lines) == SelectLastInSeq(lines, LAMBDA line : line \in Messages)

ForgetsCancellation(raised, lines) ==
    IF "timedOut" \in raised THEN "timed out"
    ELSE IF "outputExceeded" \in raised THEN "output exceeded"
    ELSE IF child.code # 0 THEN "exit code"
    ELSE IF LastMessage(lines) = 0 THEN "no message"
    ELSE "result"
Verdict(raised, lines) ==
    IF "cancelled" \in raised THEN "cancelled"
    ELSE IF "timedOut" \in raised THEN "timed out"
    ELSE IF "outputExceeded" \in raised THEN "output exceeded"
    ELSE IF child.code # 0 THEN "exit code"
    ELSE IF LastMessage(lines) = 0 THEN "no message"
    ELSE "result"

Close ==
    /\ Active /\ Closed
    /\ consumed = Len(written)
    /\ parsed' = ParseRest
    /\ rest' = 0
    /\ Decides(Verdict(flags, parsed'))
    /\ UNCHANGED <<kind, flags, child, signals, container, removal, written,
                   consumed, stop>>

Ends ==
    /\ run = "closing"
    /\ ProxyClosed
    /\ run' = "over"
    /\ UNCHANGED <<kind, outcome, flags, child, signals, killTimer, timeout, container,
                   removal, written, consumed, rest, parsed, stop>>

-----------------------------------------------------------------------------
(* consume(): one more line, with its newline or without; the newline that *)
(* a line waited for comes with the next one.  Beyond the limit a chunk is *)
(* dropped.                                                                *)
Consume ==
    /\ Active /\ consumed < Len(written)
    /\ IF consumed >= OutputLimit
       THEN /\ Raise("outputExceeded")
            /\ consumed' = Len(written)
            /\ rest' = 0
            /\ UNCHANGED parsed
       ELSE /\ consumed' = consumed + 1
            /\ \/ parsed' = ParseRest \o <<written[consumed + 1]>> /\ rest' = 0
               \/ parsed' = ParseRest /\ rest' = 1
            /\ UNCHANGED <<flags, signals, killTimer, removal>>
    /\ UNCHANGED <<proxyVars, kind, run, outcome, child, timeout, container, written, stop>>

TimeoutFires ==
    /\ timeout
    /\ timeout' = FALSE
    /\ Raise("timedOut")
    /\ UNCHANGED <<proxyVars, kind, run, outcome, child, container, written, consumed,
                   rest, parsed, stop>>

(* The timer of terminate, or of a removal that failed.                    *)
KillTimerFires ==
    /\ killTimer = "armed"
    /\ killTimer' = "fired"
    /\ signals' = IF Alive THEN signals \cup {"SIGKILL"} ELSE signals
    /\ UNCHANGED <<proxyVars, kind, run, outcome, flags, child, timeout, container,
                   removal, written, consumed, rest, parsed, stop>>

Cancel ==
    /\ stop = "none" /\ run # "idle"
    /\ IF Active
       THEN stop' = "waiting" /\ Raise("cancelled")
       ELSE stop' = "false" /\ UNCHANGED <<flags, signals, killTimer, removal>>
    /\ UNCHANGED <<proxyVars, kind, run, outcome, child, timeout, container, written,
                   consumed, rest, parsed>>

(* settled is resolved with 'close' or 'error', like the promise of run(), *)
(* which may still wait for its proxy.                                     *)
CancelReturns ==
    /\ stop = "waiting" /\ outcome # "none"
    /\ removal # "asked"
    /\ stop' = "true"
    /\ UNCHANGED <<proxyVars, kind, run, outcome, flags, child, signals, killTimer,
                   timeout, container, removal, written, consumed, rest, parsed>>

-----------------------------------------------------------------------------
(* The engine.                                                             *)

ContainerAppears ==
    /\ container = "absent" /\ Alive
    /\ container' = "up"
    /\ UNCHANGED <<proxyVars, kind, run, outcome, flags, child, signals, killTimer,
                   timeout, removal, written, consumed, rest, parsed, stop>>

(* "rm --force" found the container, or found none.                        *)
Removed ==
    /\ removal = "asked"
    /\ container = "absent" => ~MissingIsFailure
    /\ removal' = "done"
    /\ container' = IF container = "up" THEN "gone" ELSE container
    /\ UNCHANGED <<proxyVars, kind, run, outcome, flags, child, signals, killTimer,
                   timeout, written, consumed, rest, parsed, stop>>

(* It failed or took 8 s: the client is signalled.                         *)
RemovalGivesUp == UNCHANGED <<signals, killTimer>>
RemovalFallback ==
    /\ signals' = IF Alive THEN signals \cup {"SIGTERM"} ELSE signals
    /\ killTimer' = "armed"
RemovalFails ==
    /\ removal = "asked"
    /\ removal' = "failed"
    /\ container' \in {container} \cup (IF container = "up" THEN {"gone"} ELSE {})
    /\ RemovalFallback
    /\ UNCHANGED <<proxyVars, kind, run, outcome, flags, child, timeout, written,
                   consumed, rest, parsed, stop>>

-----------------------------------------------------------------------------
(* The Runtime.                                                            *)

Working == Alive /\ (Container => container = "up")

Writes(line) ==
    /\ Working /\ Len(written) < MaxLines
    /\ written' = Append(written, line)
    /\ UNCHANGED <<proxyVars, kind, run, outcome, flags, child, signals, killTimer,
                   timeout, container, removal, consumed, rest, parsed, stop>>

Asks(q) == Alive /\ Opens(q) /\ UNCHANGED runnerVars

(* It exits of its own accord, when its container is gone, or by a signal, *)
(* SIGTERM in its own time and with any code.  Its connections go with it. *)
Exits ==
    /\ Alive
    /\ \E code \in {0, 1} :
          /\ "SIGKILL" \in signals \/ container = "gone" => code = 1
          /\ child' = [state |-> "exited", pipes |-> Local, code |-> code]
    /\ container' \in (IF container = "up" THEN {"gone"} ELSE {container})
                         \cup (IF signals = {} THEN {} ELSE {container})
    /\ connected' = {}
    /\ signals' = {}
    /\ UNCHANGED <<proxy, requests, attempts, kind, run, outcome, flags, killTimer,
                   timeout, removal, written, consumed, rest, parsed, stop>>

(* What Codex left behind ends.                                            *)
PipesClose ==
    /\ child.state = "exited" /\ child.pipes
    /\ child' = [child EXCEPT !.pipes = FALSE]
    /\ UNCHANGED <<proxyVars, kind, run, outcome, flags, signals, killTimer, timeout,
                   container, removal, written, consumed, rest, parsed, stop>>

(* Nobody listens to 'error' of the upstream's body: a body that breaks    *)
(* off takes the control plane down.                                       *)
StreamBreaks(q) ==
    /\ requests[q] = "streaming" /\ run # "crashed"
    /\ run' = "crashed"
    /\ UNCHANGED <<proxyVars, kind, outcome, flags, child, signals, killTimer, timeout,
                   container, removal, written, consumed, rest, parsed, stop>>

Serves(q) == Handler(q) /\ UNCHANGED runnerVars

-----------------------------------------------------------------------------
RunnerInit ==
    /\ ProxyInit
    /\ kind \in Kinds
    /\ run = "idle" /\ outcome = "none" /\ flags = {}
    /\ child = [state |-> "none", pipes |-> FALSE, code |-> 0]
    /\ signals = {} /\ killTimer = "unset" /\ timeout = FALSE
    /\ container = "none" /\ removal = "none"
    /\ written = <<>> /\ consumed = 0 /\ rest = 0 /\ parsed = <<>>
    /\ stop = "none"

(* Nothing of the control plane moves after a crash.                       *)
ControlPlane ==
    /\ run # "crashed"
    /\ \/ Begin \/ Spawn \/ StartFails \/ SpawnFails \/ Close \/ Ends
       \/ Consume \/ TimeoutFires \/ KillTimerFires \/ Cancel \/ CancelReturns
       \/ Removed \/ RemovalFails
       \/ \E q \in Requests : Serves(q)

RunnerNext ==
    \/ ControlPlane
    \/ ContainerAppears \/ Exits \/ PipesClose
    \/ \E line \in Lines : Writes(line)
    \/ \E q \in Requests : run # "crashed" /\ (Asks(q) \/ StreamBreaks(q))

RunnerSpec == RunnerInit /\ [][RunnerNext]_vars

(* Promises are resolved and timers fire; the engine answers within 8 s;   *)
(* SIGKILL and the end of its container end a process, SIGTERM need not.   *)
(* An upstream request ends, and what Codex left behind lets go of the     *)
(* pipes.  Codex itself may run for ever.                                  *)
FairRunnerSpec ==
    /\ RunnerSpec
    /\ WF_vars(run # "crashed" /\ (Spawn \/ StartFails \/ Close \/ Ends \/ Consume \/ CancelReturns))
    /\ WF_vars(run # "crashed" /\ TimeoutFires)
    /\ WF_vars(run # "crashed" /\ KillTimerFires)
    /\ WF_vars(run # "crashed" /\ (Removed \/ RemovalFails))
    /\ WF_vars(Exits /\ ("SIGKILL" \in signals \/ container = "gone"))
    /\ WF_vars(PipesClose)
    /\ \A q \in Requests : WF_vars(run # "crashed" /\ (Serves(q) \/ StreamBreaks(q)))

-----------------------------------------------------------------------------
(* States of one Run stay well typed.                                      *)
RunnerTypeOK ==
    /\ ProxyTypeOK
    /\ kind \in Kinds
    /\ run \in {"idle", "starting", "running", "closing", "over", "crashed"}
    /\ outcome \in Outcomes
    /\ flags \subseteq Flags
    /\ child \in [state : {"none", "alive", "exited"}, pipes : BOOLEAN, code : {0, 1}]
    /\ signals \subseteq {"SIGTERM", "SIGKILL"}
    /\ killTimer \in {"unset", "armed", "fired"}
    /\ timeout \in BOOLEAN
    /\ container \in {"none", "absent", "up", "gone"}
    /\ removal \in {"none", "asked", "done", "failed"}
    /\ written \in BoundedSeq(Lines, MaxLines)
    /\ consumed \in 0..MaxLines /\ rest \in 0..1
    /\ parsed \in BoundedSeq(Lines, MaxLines)
    /\ stop \in {"none", "waiting", "true", "false"}

(* A cancel() that answered true is never followed by a result, whatever   *)
(* the Runtime wrote before or after the signal and however it exited.     *)
StoppedRunHasNoResult == stop = "true" => outcome # "result"

(* A result carries the last message the Runtime wrote: neither the cut    *)
(* into chunks, nor a missing last newline, nor output that was still in   *)
(* the pipe at exit loses or replaces it.                                  *)
ResultIsLastMessage ==
    outcome = "result" =>
        /\ LastMessage(written) # 0
        /\ parsed[LastMessage(parsed)] = written[LastMessage(written)]

(* When run() has returned, nothing of the Run is left: the child has      *)
(* exited, its proxy is closed with no client, no timer can fire into a    *)
(* later Run, and the container is gone unless its removal failed.         *)
NothingLeftBehind ==
    run = "over" =>
        /\ ~Alive /\ ~timeout /\ signals = {}
        /\ Local => proxy = "closed" /\ connected = {} /\ killTimer # "armed"
        /\ container = "up" => removal = "failed"

(* A Run that was stopped, timed out or wrote too much ends, even when the *)
(* Runtime ignores SIGTERM, and every Run is given its timeout; a cancel() *)
(* is answered; and so is a request, or given up, although it may be rate  *)
(* limited over and over by the upstream and outlive its Run.              *)
EveryRunEnds ==
    /\ run \in {"starting", "running"} ~> run \in {"over", "crashed"}
    /\ stop = "waiting" ~> stop = "true" \/ run = "crashed"
    /\ \A q \in Requests :
          requests[q] = "reading" ~> requests[q] = "done" \/ run = "crashed"
=============================================================================
