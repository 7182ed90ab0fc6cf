------------------------------- MODULE WebApp -------------------------------
(***************************************************************************)
(* The browser's view of the control plane (web/src/App.tsx): what it      *)
(* shows of the selected Agent, the requests it has sent, and the handlers *)
(* of their responses, which run whenever a response arrives and look at   *)
(* selectedIdRef, or do not, before they change what is shown.             *)
(*                                                                         *)
(* A click, the render it causes and the effects of that render are one    *)
(* step: React flushes all three before another event is handled.          *)
(* Requests travel on connections of their own: the control plane answers  *)
(* them in any order, and the page handles the answers in any order.  An   *)
(* answer that the page holds until another has come (Promise.all) arrives *)
(* when it is handled.                                                     *)
(*                                                                         *)
(* ShowsAnyEvidence, ShowsAnyMandate, PollsAgain and PollsSelections are   *)
(* the operators after them with one plausible slip; each breaks a         *)
(* property below, and WebSpec uses none of them.                          *)
(***************************************************************************)
EXTENDS Naturals, Sequences, SequencesExt

CONSTANTS
    Agents,
    MaxRuns,      \* bound: Runs of an Agent
    MaxClicks,    \* bound: clicks that send a request
    MaxSelects,   \* bound: changes of the selection
    MaxFailures,  \* bound: requests that fail
    MaxInFlight,  \* bound: requests under way when a poll or a click adds one
    None

ASSUME WebAssumption ==
    /\ Agents # {}
    /\ MaxRuns \in Nat \ {0}
    /\ MaxClicks \in Nat /\ MaxSelects \in Nat /\ MaxFailures \in Nat
    /\ MaxInFlight \in Nat \ {0}

VARIABLES
    server,    \* of each Agent: its Runs, and the mandates of its workflows
    selected,  \* selectedId, and selectedIdRef
    view,      \* activeRun, evidence, mandate
    known,     \* the Agents that the list shows as busy
    busy,      \* busy
    revoking,  \* revokePending
    loops,     \* the calls of pollRun under way
    net,       \* requests whose responses have not been handled, the answers
               \* that change the same of what is shown as they were given
    astray,    \* a click's answer for another Agent has changed this view
    overtaken, \* an answer was handled before one given earlier on the same
    clicks, selects, failures

webVars == <<server, selected, view, known, busy, revoking, loops, net, astray, overtaken,
             clicks, selects, failures>>
budget == <<clicks, selects, failures>>
controls == <<known, busy, revoking>>

-----------------------------------------------------------------------------
(* The control plane, as the browser sees it: the Runs of an Agent, oldest *)
(* first, each of a workflow (0: refused its authority), and a mandate for *)
(* every workflow, "NONE" until its first Run.                             *)

Runs == [agent : Agents, n : 1..MaxRuns]
RunStates == {"running", "completed", "ended"}
Mandates == [agent : Agents, workflow : Nat, status : {"NONE", "ACTIVE", "REVOKED"}]

ASSUME NoneAssumption == None \notin Runs /\ None \notin Mandates

RunOf(a, n) == [agent |-> a, n |-> n]
StatusIn(s, run) == s[run.agent].runs[run.n].status
Executing(a) == \E n \in DOMAIN server[a].runs : server[a].runs[n].status = "running"
CurrentMandate(a) == Last(server[a].mandates)

Accepts(request) ==
    LET a == request.agent IN
    CASE request.kind = "send" -> ~Executing(a) /\ Len(server[a].runs) < MaxRuns
      [] request.kind = "retry" ->
            /\ ~Executing(a) /\ Len(server[a].runs) < MaxRuns
            /\ server[a].runs[request.n].status = "completed"
            /\ server[a].runs[request.n].workflow = Len(server[a].mandates)
      [] request.kind = "workflow" -> ~Executing(a)
      [] OTHER -> TRUE

(* Beginning a Run activates the mandate of its workflow, or is refused by *)
(* a revoked one.                                                          *)
Begun(agent, retry) ==
    LET w == Len(agent.mandates)
        revoked == agent.mandates[w] = "REVOKED"
    IN  [runs |-> Append(agent.runs, [status |-> "running", retry |-> retry,
                                      workflow |-> IF revoked THEN 0 ELSE w]),
         mandates |-> IF revoked THEN agent.mandates
                      ELSE [agent.mandates EXCEPT ![w] = "ACTIVE"]]

RevokedIn(agent, w) ==
    [runs |-> [n \in DOMAIN agent.runs |->
                  IF agent.runs[n].workflow = w /\ agent.runs[n].status = "running"
                  THEN [agent.runs[n] EXCEPT !.status = "ended"] ELSE agent.runs[n]],
     mandates |-> [agent.mandates EXCEPT ![w] = "REVOKED"]]

Handled(request) ==
    LET a == request.agent IN
    IF ~Accepts(request) THEN server
    ELSE CASE request.kind \in {"send", "retry"} ->
                [server EXCEPT ![a] = Begun(server[a], request.kind = "retry")]
           [] request.kind = "workflow" -> [server EXCEPT ![a].mandates = Append(@, "NONE")]
           [] request.kind = "revoke" -> [server EXCEPT ![a] = RevokedIn(server[a], request.n)]
           [] OTHER -> server

(* What a response shows of Run n; 0 is no Run.  context: it has a         *)
(* policyContextId, and with it evidence and a mandateId.                  *)
NoRun == [run |-> None, status |-> "ended", retry |-> FALSE, context |-> FALSE]
Shown(s, a, n) ==
    IF n = 0 THEN NoRun
    ELSE [run |-> RunOf(a, n), status |-> s[a].runs[n].status, retry |-> s[a].runs[n].retry,
          context |-> s[a].runs[n].workflow # 0]
LatestOf(agent, w) ==
    LET those == {n \in DOMAIN agent.runs : agent.runs[n].workflow = w}
    IN  IF those = {} THEN 0 ELSE CHOOSE n \in those : \A m \in those : m <= n
MandateIn(s, a, w) == [agent |-> a, workflow |-> w, status |-> s[a].mandates[w]]

Answer(request, s) ==
    LET a == request.agent IN
    CASE request.kind \in {"send", "retry", "runs"} -> Shown(s, a, Len(s[a].runs))
      [] request.kind = "run" -> Shown(s, a, request.n)
      [] request.kind = "mandate" -> MandateIn(s, a, Len(s[a].mandates))
      [] request.kind = "workflow" -> <<>>
      [] request.kind = "revoke" ->
            [mandate |-> MandateIn(s, a, request.n),
             active |-> Shown(s, a, LatestOf(s[a], request.n))]
      [] request.kind = "agents" -> {b \in Agents : \E n \in DOMAIN s[b].runs :
                                                       s[b].runs[n].status = "running"}

(* n is the Run or the workflow it names, by the handler that awaits the   *)
(* answer, if any, and poll the Run of the poll that does.  Evidence is    *)
(* that of the Run that it was asked for, whenever it is given.            *)
Request(kind, a, n, by, poll) ==
    [kind |-> kind, agent |-> a, n |-> n, by |-> by, poll |-> poll,
     answered |-> kind = "evidence", ok |-> TRUE,
     answer |-> IF kind = "evidence" THEN RunOf(a, n) ELSE <<>>]
Plain(kind, a, n) == Request(kind, a, n, "nobody", None)
Sends(request) == net' = <<request>> \o net

(* What the answer to a request changes of the view.                       *)
Changes(request) ==
    CASE request.kind = "mandate" -> {"mandate"}
      [] request.kind \in {"run", "runs", "send", "retry"} -> {"active"}
      [] request.kind \in {"workflow", "revoke"} -> {"active", "mandate"}
      [] OTHER -> {}

Answered(request) ==
    [request EXCEPT !.answered = TRUE, !.ok = Accepts(request),
                    !.answer = IF Accepts(request) THEN Answer(request, server') ELSE <<>>]

(* The order of the others does not matter.                                *)
ServerAnswers ==
    /\ \E i \in DOMAIN net :
        /\ ~net[i].answered
        /\ server' = Handled(net[i])
        /\ net' = IF Changes(net[i]) = {} THEN [net EXCEPT ![i] = Answered(net[i])]
                  ELSE Append(RemoveAt(net, i), Answered(net[i]))
    /\ UNCHANGED <<selected, view, controls, loops, astray, overtaken, budget>>

ServerEndsRun(a) ==
    /\ \E n \in DOMAIN server[a].runs :
        /\ server[a].runs[n].status = "running"
        /\ server' = [server EXCEPT ![a].runs[n].status =
                         IF server[a].runs[n].workflow = 0 THEN "ended" ELSE "completed"]
    /\ UNCHANGED <<selected, view, controls, loops, net, astray, overtaken, budget>>

-----------------------------------------------------------------------------
(* pollRun: one loop for a Run, registered in pollingRunIds.               *)

Polled(run) == \E i \in DOMAIN loops : loops[i].run = run
PollsAgain(run, origin) ==
    Append(loops, [run |-> run, origin |-> origin, phase |-> "waiting"])
PollsSelections(run, origin) ==
    IF Polled(run) \/ origin # "effect" THEN loops
    ELSE Append(loops, [run |-> run, origin |-> origin, phase |-> "waiting"])
PollRun(run, origin) ==
    IF Polled(run) THEN loops
    ELSE Append(loops, [run |-> run, origin |-> origin, phase |-> "waiting"])

InPhase(i, phase) == [loops EXCEPT ![i].phase = phase]

(* The 900 ms timer fires.                                                 *)
PollTick(i) ==
    LET run == loops[i].run IN
    /\ loops[i].phase = "waiting"
    /\ Len(net) < MaxInFlight
    /\ loops' = InPhase(i, "fetching")
    /\ Sends(Request("run", run.agent, run.n, "nobody", run))
    /\ UNCHANGED <<server, selected, view, controls, astray, overtaken, budget>>

(* finally, after the refreshes: a retry has been busy until now.          *)
PollEnds(i) ==
    /\ loops[i].phase = "refreshing"
    /\ \A m \in DOMAIN net : net[m].poll # loops[i].run
    /\ loops' = RemoveAt(loops, i)
    /\ busy' = (busy /\ loops[i].origin # "retry")
    /\ UNCHANGED <<server, selected, view, known, revoking, net, astray, overtaken, budget>>

PollContinues(answer) == answer.status = "running"

(* Every poll of a Run with a mandate refreshes that; the last one, once   *)
(* more, all it can.                                                       *)
PollAnswered(request, rest) ==
    LET a == request.agent
        Given(requests) == IF request.answer.context THEN requests ELSE <<>>
        last == <<Request("agents", a, 0, "nobody", request.poll)>>
                \o Given(<<Request("evidence", a, request.n, "nobody", request.poll)>>)
                \o <<Request("mandate", a, 0, "nobody", request.poll)>>
    IN  \E i \in DOMAIN loops :
            /\ loops[i].run = request.poll
            /\ view' = IF selected = a THEN [view EXCEPT !.active = request.answer] ELSE view
            /\ loops' = InPhase(i, IF PollContinues(request.answer)
                                   THEN "waiting" ELSE "refreshing")
            /\ net' = Given(<<Plain("mandate", a, 0)>>)
                       \o (IF PollContinues(request.answer) THEN <<>> ELSE last) \o rest
            /\ UNCHANGED <<controls, astray>>

-----------------------------------------------------------------------------
(* The handlers of the other responses, one for each kind.                 *)

(* refreshEvidence.                                                        *)
ShowsAnyEvidence(a) == TRUE
ShowsEvidence(a) == selected = a

EvidenceArrives(request, rest) ==
    /\ view' = IF ShowsEvidence(request.agent)
               THEN [view EXCEPT !.evidence = request.answer] ELSE view
    /\ net' = rest
    /\ UNCHANGED <<controls, loops, astray>>

(* refreshMandate; retryRun goes on to poll its Run, and is not busy if    *)
(* somebody already does.                                                  *)
ShowsAnyMandate(a) == TRUE
ShowsMandate(a) == selected = a

MandateArrives(request, rest) ==
    LET run == RunOf(request.agent, request.n) IN
    /\ view' = IF ShowsMandate(request.agent)
               THEN [view EXCEPT !.mandate = request.answer] ELSE view
    /\ net' = rest
    /\ IF request.by = "retry"
       THEN /\ known' = known \cup {request.agent}
            /\ loops' = PollRun(run, "retry")
            /\ busy' = (busy /\ ~Polled(run))
       ELSE UNCHANGED <<known, loops, busy>>
    /\ UNCHANGED <<revoking, astray>>

(* refreshAgents; newDemoWorkflow is busy until it has come back.          *)
AgentsArrive(request, rest) ==
    /\ known' = request.answer
    /\ busy' = (busy /\ request.by # "workflow")
    /\ net' = rest
    /\ UNCHANGED <<view, revoking, loops, astray>>

(* The effect of a selection: the latest Run, polled if it is active.      *)
RunsArrive(request, rest) ==
    LET latest == request.answer
        here == selected = request.agent /\ latest.run # None IN
    /\ view' = IF selected = request.agent THEN [view EXCEPT !.active = latest] ELSE view
    /\ loops' = IF here /\ latest.status = "running"
                THEN PollRun(latest.run, "effect") ELSE loops
    /\ net' = IF /\ here /\ latest.status # "running"
                 /\ latest.context
              THEN <<Plain("evidence", request.agent, latest.run.n)>> \o rest ELSE rest
    /\ UNCHANGED <<controls, astray>>

(* runPrompt.                                                              *)
SendArrives(request, rest) ==
    /\ view' = IF selected = request.agent
               THEN [view EXCEPT !.active = request.answer] ELSE view
    /\ known' = known \cup {request.agent}
    /\ loops' = PollRun(request.answer.run, "send")
    /\ net' = rest
    /\ UNCHANGED <<busy, revoking, astray>>

(* The answers of retryRun, newDemoWorkflow and revokeMandate change what  *)
(* is shown without a look at the selection.                               *)
StraysFrom(request) == astray' = (astray \/ selected # request.agent)

RetryArrives(request, rest) ==
    /\ view' = [view EXCEPT !.evidence = None, !.active = request.answer]
    /\ StraysFrom(request)
    /\ net' = <<Request("mandate", request.agent, request.answer.run.n, "retry", None)>> \o rest
    /\ UNCHANGED <<controls, loops>>

NothingShown == [active |-> NoRun, evidence |-> None, mandate |-> None]

WorkflowArrives(request, rest) ==
    /\ view' = NothingShown
    /\ StraysFrom(request)
    /\ net' = <<Request("agents", request.agent, 0, "workflow", None)>> \o rest
    /\ UNCHANGED <<controls, loops>>

RevokeRefreshes(a, run) ==
    <<Request("agents", a, 0, "revoke", None)>>
        \o (IF run = None THEN <<>> ELSE <<Request("evidence", a, run.n, "revoke", None)>>)
        \o <<Request("mandate", a, 0, "revoke", None)>>

RevokeArrives(request, rest) ==
    /\ view' = [view EXCEPT !.mandate = request.answer.mandate,
                            !.active = request.answer.active]
    /\ StraysFrom(request)
    /\ known' = known \ {request.agent}
    /\ net' = RevokeRefreshes(request.agent, request.answer.active.run) \o rest
    /\ UNCHANGED <<busy, revoking, loops>>

(* Its refreshes have come back.                                           *)
RevokeEnds ==
    /\ revoking /\ \A m \in DOMAIN net : net[m].by # "revoke"
    /\ revoking' = FALSE
    /\ UNCHANGED <<server, selected, view, known, busy, loops, net, astray, overtaken, budget>>

(* An error response, or none.  What waited for it ends: a poll leaves its *)
(* loop, runPrompt clears activeRun whoever is selected, and both it and   *)
(* retryRun refresh the list.                                              *)
Fails(request, rest) ==
    LET waiting == {i \in DOMAIN loops : request.poll # None /\ loops[i].run = request.poll}
        origins == {request.kind, request.by} \cup {loops[i].origin : i \in waiting}
    IN  /\ loops' = IF waiting = {} THEN loops
                    ELSE RemoveAt(loops, CHOOSE i \in waiting : TRUE)
        /\ view' = IF "send" \in origins THEN [view EXCEPT !.active = NoRun] ELSE view
        /\ astray' = (astray \/ ("send" \in origins /\ selected # request.agent))
        /\ net' = (IF origins \cap {"send", "retry"} = {} THEN <<>>
                   ELSE <<Plain("agents", request.agent, 0)>>)
                  \o [m \in DOMAIN rest |->
                        IF rest[m].poll = request.poll THEN [rest[m] EXCEPT !.poll = None]
                        ELSE rest[m]]
        /\ busy' = (busy /\ origins \cap {"retry", "workflow"} = {})
        /\ revoking' = (revoking /\ "revoke" \notin origins)
        /\ UNCHANGED known

Succeeds(request, rest) ==
    CASE request.kind = "run" -> PollAnswered(request, rest)
      [] request.kind = "evidence" -> EvidenceArrives(request, rest)
      [] request.kind = "mandate" -> MandateArrives(request, rest)
      [] request.kind = "agents" -> AgentsArrive(request, rest)
      [] request.kind = "runs" -> RunsArrive(request, rest)
      [] request.kind = "send" -> SendArrives(request, rest)
      [] request.kind = "retry" -> RetryArrives(request, rest)
      [] request.kind = "workflow" -> WorkflowArrives(request, rest)
      [] request.kind = "revoke" -> RevokeArrives(request, rest)

(* An answer overtakes those that were given before it and change the same.*)
Overtakes(i) ==
    \E j \in 1..i - 1 :
        /\ net[j].answered /\ net[j].agent = net[i].agent
        /\ Changes(net[j]) \cap Changes(net[i]) # {}

(* The page keeps no account of the order of what it asked.                *)
ResponseArrives ==
    /\ \E i \in DOMAIN net :
        /\ net[i].answered
        /\ overtaken' = (overtaken \/ Overtakes(i))
        /\ IF net[i].ok THEN Succeeds(net[i], RemoveAt(net, i))
           ELSE Fails(net[i], RemoveAt(net, i))
    /\ UNCHANGED <<server, selected, budget>>

(* The connection breaks; the control plane may have handled the request.  *)
RequestBreaks ==
    /\ failures < MaxFailures /\ failures' = failures + 1
    /\ \E i \in DOMAIN net : Fails(net[i], RemoveAt(net, i))
    /\ UNCHANGED <<server, selected, overtaken, clicks, selects>>

-----------------------------------------------------------------------------
(* Clicks; a button is there, and enabled, under these conditions.         *)

Click == Len(net) < MaxInFlight /\ clicks < MaxClicks /\ clicks' = clicks + 1
Locked == view.mandate # None /\ view.mandate.status = "REVOKED"
Idle == ~revoking /\ selected \notin known

(* The selection: its effects clear what was shown and ask for the rest.   *)
Select(a) ==
    /\ a # selected
    /\ Len(net) < MaxInFlight /\ selects < MaxSelects /\ selects' = selects + 1
    /\ selected' = a
    /\ view' = NothingShown
    /\ astray' = FALSE
    /\ net' = <<Plain("runs", a, 0), Plain("mandate", a, 0)>> \o net
    /\ UNCHANGED <<server, controls, loops, overtaken, clicks, failures>>

ClickSend ==
    /\ Click /\ Idle /\ ~Locked
    /\ view.active.status # "running"
    /\ Sends(Plain("send", selected, 0))
    /\ UNCHANGED <<server, selected, view, controls, loops, astray, overtaken, selects, failures>>

(* hasRetryableDenial: the evidence, which is of a whole context, holds    *)
(* receipts of the Run that is shown, whichever Run it was asked for.      *)
ClickRetry ==
    /\ Click /\ Idle /\ ~Locked /\ ~busy
    /\ view.active.status = "completed" /\ ~view.active.retry
    /\ view.evidence # None /\ view.evidence.agent = view.active.run.agent
    /\ busy' = TRUE
    /\ Sends(Plain("retry", view.active.run.agent, view.active.run.n))
    /\ UNCHANGED <<server, selected, view, known, revoking, loops, astray, overtaken,
                   selects, failures>>

ClickNewWorkflow ==
    /\ Click /\ Idle /\ ~busy
    /\ busy' = TRUE
    /\ Sends(Plain("workflow", selected, 0))
    /\ UNCHANGED <<server, selected, view, known, revoking, loops, astray, overtaken,
                   selects, failures>>

(* The mandate that is shown is revoked.                                   *)
ClickRevoke ==
    /\ Click /\ ~revoking
    /\ view.mandate # None /\ view.mandate.status = "ACTIVE"
    /\ revoking' = TRUE
    /\ Sends(Request("revoke", view.mandate.agent, view.mandate.workflow, "revoke", None))
    /\ UNCHANGED <<server, selected, view, known, busy, loops, astray, overtaken,
                   selects, failures>>

-----------------------------------------------------------------------------
(* The page is opened, with the first Agent selected, on Agents that have  *)
(* each completed a Run.                                                   *)
WebInit ==
    /\ server = [a \in Agents |->
                    [runs |-> <<[status |-> "completed", retry |-> FALSE, workflow |-> 1]>>,
                     mandates |-> <<"ACTIVE">>]]
    /\ known = {}
    /\ selected = CHOOSE a \in Agents : TRUE
    /\ view = NothingShown
    /\ busy = FALSE /\ revoking = FALSE /\ astray = FALSE /\ overtaken = FALSE
    /\ loops = <<>>
    /\ net = <<Plain("runs", selected, 0), Plain("mandate", selected, 0)>>
    /\ clicks = 0 /\ selects = 0 /\ failures = 0

WebNext ==
    \/ ServerAnswers \/ ResponseArrives \/ RequestBreaks \/ RevokeEnds
    \/ \E a \in Agents : ServerEndsRun(a) \/ Select(a)
    \/ \E i \in DOMAIN loops : PollTick(i) \/ PollEnds(i)
    \/ ClickSend \/ ClickRetry \/ ClickNewWorkflow \/ ClickRevoke

WebSpec == WebInit /\ [][WebNext]_webVars

(* Requests are answered, answers arrive, the timer of a poll fires, and a *)
(* Run ends (EveryRunSettles and EveryRunEnds are the properties of the    *)
(* control plane and of its Runtimes that say so).                         *)
FairWebSpec ==
    /\ WebSpec
    /\ WF_webVars(ServerAnswers) /\ WF_webVars(ResponseArrives)
    /\ \A run \in Runs :
          WF_webVars(\E i \in DOMAIN loops : loops[i].run = run /\ PollTick(i))
    /\ \A a \in Agents : WF_webVars(ServerEndsRun(a))

-----------------------------------------------------------------------------
(* What is shown is well typed, and a Run has at most one polling loop.    *)
WebTypeOK ==
    /\ selected \in Agents /\ known \subseteq Agents
    /\ view.active.run \in Runs \cup {None} /\ view.active.status \in RunStates
    /\ view.evidence \in Runs \cup {None}
    /\ view.mandate # None =>
          /\ view.mandate.agent \in Agents
          /\ view.mandate.workflow \in DOMAIN server[view.mandate.agent].mandates
    /\ \A i, j \in DOMAIN loops : loops[i].run = loops[j].run => i = j

(* The evidence on the screen is that of the selected Agent, whenever its  *)
(* response arrives and whichever poll, click or selection asked for it.   *)
EvidenceOfSelection == view.evidence # None => view.evidence.agent = selected

(* "Send and Retry are blocked while revoked": once the page has heard of  *)
(* everything, they are locked while the mandate of the selected Agent's   *)
(* workflow is revoked, whatever was clicked meanwhile; but for a request  *)
(* that failed, the answer to a click on another Agent, and an answer that *)
(* overtook an earlier one.                                                *)
HeardRevocation ==
    net = <<>> /\ failures = 0 /\ CurrentMandate(selected) = "REVOKED"
BlockedUnlessMisled == HeardRevocation /\ ~astray /\ ~overtaken => Locked

(* The same without the second exception, which README.md:146 does not     *)
(* make.                                                                   *)
BlockedInOrder == HeardRevocation /\ ~overtaken => Locked

(* A Run that has ended is not shown as running for ever: a poll survives  *)
(* every change of the selection, and serves the selections that follow;   *)
(* with the same exceptions.                                               *)
ShownRunning ==
    /\ failures = 0 /\ ~astray /\ ~overtaken
    /\ view.active.status = "running" /\ StatusIn(server, view.active.run) # "running"
EndedRunIsShown == []<>~ShownRunning
=============================================================================
