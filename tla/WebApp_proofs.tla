---------------------------- MODULE WebApp_proofs ----------------------------
(***************************************************************************)
(* What the page shows, for any number of Agents, Runs, clicks, changes of *)
(* the selection and responses under way, in whatever order they arrive.   *)
(*                                                                         *)
(* WebInv has three parts: what a request and its answer are about (Fit),  *)
(* what the page may show (PageFits), and why the page hears of a          *)
(* revocation (Heard).  The control plane answers in any order, and so     *)
(* does the page handle what it is answered; net keeps the answers that    *)
(* change the same of what is shown in the order in which they were given. *)
(***************************************************************************)
EXTENDS WebApp, SequenceTheorems, WellFoundedInduction, TLAPS

-----------------------------------------------------------------------------
(* What may be on its way, and what may be shown.                          *)

RunRows == [status : RunStates, retry : BOOLEAN, workflow : Nat]
AgentRows == [runs : Seq(RunRows), mandates : Seq({"NONE", "ACTIVE", "REVOKED"})]

ShownRuns == [run : Runs, status : RunStates, retry : BOOLEAN, context : BOOLEAN] \cup {NoRun}
Views == [active : ShownRuns, evidence : Runs \cup {None}, mandate : Mandates \cup {None}]
Loops == [run : Runs, origin : {"send", "retry", "effect"},
          phase : {"waiting", "fetching", "refreshing"}]

Answers == ShownRuns \cup Runs \cup Mandates \cup [mandate : Mandates, active : ShownRuns]
              \cup (SUBSET Agents) \cup {<<>>}
Kinds == {"send", "retry", "workflow", "revoke", "run", "evidence", "mandate", "agents", "runs"}
Requests == [kind : Kinds, agent : Agents, n : Nat,
             by : {"nobody", "retry", "workflow", "revoke"}, poll : Runs \cup {None},
             answered : BOOLEAN, ok : BOOLEAN, answer : Answers]

(* Runs and mandates that the control plane has.                           *)
Exists(run) == run \in Runs /\ run.n \in DOMAIN server[run.agent].runs
Issued(m) == m \in Mandates /\ m.workflow \in DOMAIN server[m.agent].mandates

AgentFits(x) ==
    /\ x \in AgentRows
    /\ Len(x.mandates) >= 1 /\ Len(x.runs) =< MaxRuns
    /\ \A n \in DOMAIN x.runs : x.runs[n].workflow =< Len(x.mandates)

ServerFits == server \in [Agents -> AgentRows] /\ \A a \in Agents : AgentFits(server[a])

(* A request names what exists; its answer is about what it asked for, and *)
(* only a command may be refused.                                          *)
Says(m) ==
    CASE m.kind \in {"send", "retry", "run"} ->
            /\ m.answer \in ShownRuns
            /\ Exists(m.answer.run) /\ m.answer.run.agent = m.agent
      [] m.kind = "runs" ->
            /\ m.answer \in ShownRuns
            /\ m.answer.run = None \/ (Exists(m.answer.run) /\ m.answer.run.agent = m.agent)
      [] m.kind = "evidence" -> m.answer \in Runs /\ m.answer.agent = m.agent
      [] m.kind = "mandate" -> Issued(m.answer) /\ m.answer.agent = m.agent
      [] m.kind = "revoke" ->
            /\ m.answer \in [mandate : Mandates, active : ShownRuns]
            /\ Issued(m.answer.mandate)
            /\ \/ m.answer.active.run = None
               \/ Exists(m.answer.active.run) /\ m.answer.active.run.agent = m.agent
      [] m.kind = "agents" -> m.answer \in SUBSET Agents
      [] OTHER -> TRUE

Fit(m) ==
    /\ m \in Requests
    /\ m.kind \in {"run", "evidence", "retry"} \/ m.by = "retry"
          => m.n \in DOMAIN server[m.agent].runs
    /\ m.kind = "revoke" => m.n \in DOMAIN server[m.agent].mandates
    /\ m.by = "retry" => m.kind = "mandate"
    /\ m.kind = "evidence" => m.answered
    /\ m.kind \notin {"send", "retry", "workflow"} => m.ok
    /\ m.answered /\ m.ok => Says(m)

NetFits == net \in Seq(Requests) /\ \A m \in Requests : (\E i \in DOMAIN net : net[i] = m) => Fit(m)

ViewFits ==
    /\ view \in Views
    /\ view.active.run # None => Exists(view.active.run)
    /\ view.evidence # None => view.evidence.agent = selected
    /\ view.mandate # None => Issued(view.mandate)

(* A Run has at most one loop.                                             *)
LoopsFit ==
    /\ loops \in Seq(Loops)
    /\ \A i \in DOMAIN loops : Exists(loops[i].run)
    /\ \A i, j \in DOMAIN loops : loops[i].run = loops[j].run => i = j

PageFits ==
    /\ selected \in Agents /\ known \subseteq Agents
    /\ busy \in BOOLEAN /\ revoking \in BOOLEAN
    /\ astray \in BOOLEAN /\ overtaken \in BOOLEAN
    /\ clicks \in Nat /\ selects \in Nat /\ failures \in Nat
    /\ ViewFits /\ LoopsFit

(* An answer that unlocks Send and Retry, if it is handled last: a mandate *)
(* that was read before it was revoked, or a new workflow, which clears    *)
(* the page.                                                               *)
Spoils(m) ==
    /\ m.agent = selected /\ m.answered
    /\ \/ m.kind = "mandate" /\ m.answer.status # "REVOKED"
       \/ m.kind = "workflow" /\ m.ok
QuietAfter(i) == \A p \in DOMAIN net : p > i => ~Spoils(net[p])

(* What tells the page that the selected Agent's mandate is revoked: a     *)
(* revocation, which is followed by a read; a read that has not been       *)
(* answered; or one that says so, after which nothing was answered that    *)
(* unlocks the page.                                                       *)
AsksMandate(m) == m.kind = "mandate" /\ m.agent = selected
Tells(i) ==
    \/ net[i].kind = "revoke" /\ net[i].agent = selected
    \/ AsksMandate(net[i]) /\ ~net[i].answered
    \/ /\ AsksMandate(net[i]) /\ net[i].answered
       /\ net[i].answer.status = "REVOKED" /\ QuietAfter(i)

Hears == (\E i \in DOMAIN net : Tells(i)) \/ (Locked /\ QuietAfter(0))

(* The exceptions are those of BlockedUnlessMisled.                        *)
Spared == failures = 0 /\ ~astray /\ ~overtaken
Heard == Spared /\ CurrentMandate(selected) = "REVOKED" => Hears

WebInv == ServerFits /\ NetFits /\ PageFits /\ Heard

-----------------------------------------------------------------------------
(* Sequences of requests.                                                  *)
LEMMA Removed ==
    ASSUME NEW S, NEW s \in Seq(S), NEW i \in DOMAIN s
    PROVE  /\ RemoveAt(s, i) \in Seq(S) /\ Len(RemoveAt(s, i)) = Len(s) - 1
           /\ \A k \in 1..(Len(s) - 1) :
                 RemoveAt(s, i)[k] = IF k < i THEN s[k] ELSE s[k + 1]
<1>1. i \in 1..Len(s) /\ Len(s) \in Nat /\ i \in Int /\ i - 1 \in Int /\ i + 1 \in Int
  OBVIOUS
<1>2. /\ SubSeq(s, 1, i - 1) \in Seq(S) /\ Len(SubSeq(s, 1, i - 1)) = i - 1
      /\ \A k \in 1..(i - 1) : SubSeq(s, 1, i - 1)[k] = s[k]
  OBVIOUS
<1>3. /\ SubSeq(s, i + 1, Len(s)) \in Seq(S) /\ Len(SubSeq(s, i + 1, Len(s))) = Len(s) - i
      /\ \A k \in 1..(Len(s) - i) : SubSeq(s, i + 1, Len(s))[k] = s[i + k]
  OBVIOUS
<1>4. PICK a, b \in Seq(S) : a = SubSeq(s, 1, i - 1) /\ b = SubSeq(s, i + 1, Len(s))
  BY <1>2, <1>3
<1>5. RemoveAt(s, i) = a \o b
  BY <1>4 DEF RemoveAt
<1>6. /\ Len(a) = i - 1 /\ Len(b) = Len(s) - i
      /\ \A k \in 1..(i - 1) : a[k] = s[k]
      /\ \A k \in 1..(Len(s) - i) : b[k] = s[i + k]
  BY <1>2, <1>3, <1>4
<1>7. /\ a \o b \in Seq(S) /\ Len(a \o b) = Len(a) + Len(b)
      /\ \A k \in 1..(Len(a) + Len(b)) :
            (a \o b)[k] = IF k <= Len(a) THEN a[k] ELSE b[k - Len(a)]
  BY ConcatProperties
<1>8. ASSUME NEW k \in 1..(Len(s) - 1)
      PROVE  (a \o b)[k] = IF k < i THEN s[k] ELSE s[k + 1]
  <2>1. CASE k < i
    <3>1. k \in 1..(i - 1) /\ k <= Len(a) /\ k \in 1..(Len(a) + Len(b))
      BY <1>1, <1>6, <2>1
    <3> QED BY <1>6, <1>7, <2>1, <3>1
  <2>2. CASE ~ (k < i)
    <3>1. /\ k \in Nat /\ i \in Nat /\ i =< k /\ k =< Len(s) - 1 /\ 1 =< k
          /\ Len(a) = i - 1 /\ Len(b) = Len(s) - i
      BY <1>1, <1>6, <2>2
    <3>2. k \in 1..(Len(a) + Len(b)) /\ ~ (k <= Len(a))
      BY <1>1, <3>1
    <3>3. k - Len(a) = k - i + 1 /\ k - i + 1 \in 1..(Len(s) - i) /\ i + (k - i + 1) = k + 1
      <4>1. ASSUME NEW l \in Nat, NEW n \in Int, k =< l - 1, n = i - 1
            PROVE  /\ k - n = k - i + 1 /\ k - i + 1 \in 1..(l - i) /\ i + (k - i + 1) = k + 1
        <5>1. k \in Int /\ i \in Int /\ i =< k /\ k =< l - 1
          BY <3>1, <4>1
        <5>2. k - n = k - i + 1
          BY <4>1, <5>1
        <5>3. k - i + 1 \in 1..(l - i)
          BY <5>1
        <5> QED BY <5>1, <5>2, <5>3
      <4>2. Len(s) \in Nat /\ Len(a) \in Int /\ k =< Len(s) - 1 /\ Len(a) = i - 1
        BY <1>1, <3>1
      <4> QED BY <4>1, <4>2
    <3>4. (a \o b)[k] = b[k - i + 1]
      BY <1>7, <3>2, <3>3
    <3> QED BY <1>6, <2>2, <3>3, <3>4
  <2> QED BY <2>1, <2>2
<1>9. Len(a) + Len(b) = Len(s) - 1
  BY <1>1, <1>6
<1> QED BY <1>5, <1>7, <1>8, <1>9

(* What the server has stays: Runs and workflows are only added.           *)
Grows ==
    \A a \in Agents :
        /\ DOMAIN server[a].runs \subseteq DOMAIN server'[a].runs
        /\ DOMAIN server[a].mandates \subseteq DOMAIN server'[a].mandates

LEMMA ExistsKept ==
    ASSUME Grows
    PROVE  /\ \A run : Exists(run) => Exists(run)'
           /\ \A m : Issued(m) => Issued(m)'
<1>1. \A run \in Runs : run.agent \in Agents
  BY DEF Runs
<1>2. \A m \in Mandates : m.agent \in Agents
  BY DEF Mandates
<1> QED BY <1>1, <1>2 DEF Grows, Exists, Issued

LEMMA FitKept ==
    ASSUME Grows
    PROVE  \A m : Fit(m) => Fit(m)'
<1> SUFFICES ASSUME NEW m, Fit(m)
             PROVE  Fit(m)'
  OBVIOUS
<1>1. /\ \A run : Exists(run) => Exists(run)'
      /\ \A x : Issued(x) => Issued(x)'
  BY ExistsKept
<1>2. m \in Requests /\ m.agent \in Agents
  BY DEF Fit, Requests
<1>3. Says(m) => Says(m)'
  BY <1>1 DEF Says
<1> QED BY <1>2, <1>3 DEF Fit, Grows

-----------------------------------------------------------------------------
(* How the requests under way change: one of them is answered, handled or  *)
(* lost, and the handler asks new ones, or a click does.                   *)
News == {m \in Requests : Fit(m) /\ (m.answered => m.kind = "evidence")}

(* What a handler may still change of a request: which poll waits for it.  *)
Alike(m, o) ==
    /\ m \in Requests
    /\ m.kind = o.kind /\ m.agent = o.agent /\ m.n = o.n /\ m.by = o.by
    /\ m.answered = o.answered /\ m.ok = o.ok /\ m.answer = o.answer

(* The request at i has left its place.  The others are still there, and   *)
(* after each of them there is only what was there, or what is new.        *)
Follows(i, New, j, k) ==
    \A p \in DOMAIN net' : p > k =>
        \/ net'[p] \in New
        \/ \E q \in DOMAIN net : q # i /\ q > j /\ Alike(net'[p], net[q])

Settled(i, New) ==
    /\ net' \in Seq(Requests) /\ Follows(i, New, 0, 0)
    /\ \A j \in DOMAIN net : j # i =>
          \E k \in DOMAIN net' : Alike(net'[k], net[j]) /\ Follows(i, New, j, k)

Asked == Settled(Len(net) + 1, News)

(* rest is net without its element at i, and the place in net of another.  *)
Place(i, k) == IF k < i THEN k ELSE k + 1
Leaves(i, rest) ==
    /\ rest \in Seq(Requests)
    /\ \A k \in DOMAIN rest :
          /\ Place(i, k) \in DOMAIN net /\ Place(i, k) # i
          /\ Alike(rest[k], net[Place(i, k)])
    /\ \A j \in DOMAIN net : j # i => \E k \in DOMAIN rest : Place(i, k) = j

LEMMA Handling ==
    ASSUME NetFits, NEW i \in DOMAIN net,
           NEW rest, rest = RemoveAt(net, i)
    PROVE  Leaves(i, rest)
<1>1. net \in Seq(Requests)
  BY DEF NetFits
<1>2. /\ rest \in Seq(Requests) /\ Len(rest) = Len(net) - 1
      /\ \A k \in 1..(Len(net) - 1) : rest[k] = IF k < i THEN net[k] ELSE net[k + 1]
  BY <1>1, Removed
<1>3. /\ Len(net) \in Nat /\ DOMAIN net = 1..Len(net) /\ i \in 1..Len(net)
      /\ DOMAIN rest = 1..(Len(net) - 1)
  BY <1>1, <1>2
<1>4. ASSUME NEW k \in DOMAIN rest
      PROVE  /\ Place(i, k) \in DOMAIN net /\ Place(i, k) # i
             /\ Alike(rest[k], net[Place(i, k)])
  <2>1. k \in 1..(Len(net) - 1) /\ rest[k] \in Requests
    BY <1>2, <1>3
  <2>2. rest[k] = net[Place(i, k)]
    BY <1>2, <2>1 DEF Place
  <2>3. Place(i, k) \in DOMAIN net /\ Place(i, k) # i
    BY <1>3, <2>1 DEF Place
  <2> QED BY <2>1, <2>2, <2>3 DEF Alike
<1>5. ASSUME NEW j \in DOMAIN net, j # i
      PROVE  \E k \in DOMAIN rest : Place(i, k) = j
  <2>1. PICK k : k = IF j < i THEN j ELSE j - 1
    OBVIOUS
  <2>2. k \in DOMAIN rest /\ Place(i, k) = j
    BY <1>3, <1>5, <2>1 DEF Place
  <2> QED BY <2>2
<1> QED BY <1>2, <1>4, <1>5 DEF Leaves

LEMMA NetLeft ==
    ASSUME NetFits
    PROVE  Leaves(Len(net) + 1, net)
<1>1. net \in Seq(Requests) /\ Len(net) \in Nat /\ DOMAIN net = 1..Len(net)
  BY DEF NetFits
<1>2. \A k \in DOMAIN net : Place(Len(net) + 1, k) = k /\ k # Len(net) + 1
  BY <1>1 DEF Place
<1>3. \A k \in DOMAIN net : Alike(net[k], net[k])
  BY <1>1 DEF Alike
<1> QED BY <1>1, <1>2, <1>3 DEF Leaves

(* New requests are put in front of the others.                            *)
LEMMA SettledBy ==
    ASSUME NetFits, NEW i \in Nat, NEW rest, Leaves(i, rest),
           NEW added \in Seq(News), net' = added \o rest
    PROVE  Settled(i, News)
<1>1. added \in Seq(Requests) /\ rest \in Seq(Requests)
  BY DEF News, Leaves
<1>2. /\ added \o rest \in Seq(Requests) /\ Len(added \o rest) = Len(added) + Len(rest)
      /\ \A k \in 1..(Len(added) + Len(rest)) :
            (added \o rest)[k] = IF k <= Len(added) THEN added[k] ELSE rest[k - Len(added)]
  BY <1>1, ConcatProperties
<1>3. PICK l, n \in Nat : l = Len(added) /\ n = Len(rest)
  BY <1>1
<1>4. DOMAIN rest = 1..n /\ DOMAIN net' = 1..(l + n) /\ DOMAIN net \subseteq Nat \ {0}
  BY <1>1, <1>2, <1>3 DEF NetFits
<1>5. ASSUME NEW p \in DOMAIN net'
      PROVE  \/ p =< l /\ net'[p] \in News
             \/ p > l /\ p - l \in DOMAIN rest /\ net'[p] = rest[p - l]
  <2>1. CASE p =< l
    <3>1. p \in DOMAIN added /\ net'[p] = added[p]
      BY <1>2, <1>3, <1>4, <2>1
    <3> QED BY <2>1, <3>1
  <2>2. CASE ~ (p =< l)
    <3>1. p - l \in 1..n /\ p > l
      BY <1>4, <2>2
    <3>2. net'[p] = rest[p - l]
      BY <1>2, <1>3, <1>4, <2>2
    <3> QED BY <1>4, <3>1, <3>2
  <2> QED BY <2>1, <2>2
<1>6. Follows(i, News, 0, 0)
  <2> SUFFICES ASSUME NEW p \in DOMAIN net', ~ (net'[p] \in News)
               PROVE  \E q \in DOMAIN net : q # i /\ q > 0 /\ Alike(net'[p], net[q])
    BY DEF Follows
  <2>1. p - l \in DOMAIN rest /\ net'[p] = rest[p - l]
    BY <1>5
  <2>2. PICK q : q = Place(i, p - l)
    OBVIOUS
  <2>3. q \in DOMAIN net /\ q # i /\ Alike(net'[p], net[q])
    BY <2>1, <2>2 DEF Leaves
  <2>4. q > 0
    BY <1>4, <2>3
  <2> QED BY <2>3, <2>4
<1>7. ASSUME NEW j \in DOMAIN net, j # i
      PROVE  \E k \in DOMAIN net' : Alike(net'[k], net[j]) /\ Follows(i, News, j, k)
  <2>1. PICK h \in DOMAIN rest : Place(i, h) = j
    BY <1>7 DEF Leaves
  <2>2. PICK k : k = l + h
    OBVIOUS
  <2>3. h \in Nat /\ k \in DOMAIN net' /\ k > l /\ k - l = h
    <3>1. h \in 1..n
      BY <1>4, <2>1
    <3>2. k \in 1..(l + n) /\ k > l /\ k - l = h
      BY <2>2, <3>1
    <3> QED BY <1>4, <3>1, <3>2
  <2>4. net'[k] = rest[h]
    <3>1. k \in DOMAIN net' /\ k \in Nat /\ l \in Nat /\ k > l
      BY <1>4, <2>2, <2>3
    <3>2. ~ (k =< l)
      BY <3>1
    <3>3. net'[k] = rest[k - l]
      BY <1>5, <3>1, <3>2
    <3> QED BY <2>3, <3>3
  <2>5. Alike(net'[k], net[j])
    BY <2>1, <2>4 DEF Leaves
  <2>6. Follows(i, News, j, k)
    <3> SUFFICES ASSUME NEW p \in DOMAIN net', p > k
                 PROVE  \E q \in DOMAIN net : q # i /\ q > j /\ Alike(net'[p], net[q])
      BY DEF Follows
    <3>1. p \in Nat /\ p > l /\ p - l > h
      BY <1>4, <2>2, <2>3
    <3>2. p - l \in DOMAIN rest /\ net'[p] = rest[p - l] /\ p - l \in Nat
      BY <1>4, <1>5, <3>1
    <3>3. PICK q : q = Place(i, p - l)
      OBVIOUS
    <3>4. q \in DOMAIN net /\ q # i /\ Alike(net'[p], net[q])
      BY <3>2, <3>3 DEF Leaves
    <3>5. q > j
      BY <2>1, <2>3, <3>1, <3>2, <3>3 DEF Place
    <3> QED BY <3>4, <3>5
  <2> QED BY <2>3, <2>5, <2>6
<1> QED BY <1>1, <1>2, <1>6, <1>7 DEF Settled

LEMMA AskedBy ==
    ASSUME NetFits, NEW added \in Seq(News), net' = added \o net
    PROVE  Asked
<1>1. Len(net) + 1 \in Nat
  BY DEF NetFits
<1> QED BY <1>1, NetLeft, SettledBy DEF Asked

(* An answer stays where its request was, or comes last.                   *)
LEMMA SettledInPlace ==
    ASSUME NetFits, NEW i \in DOMAIN net, NEW o \in Requests, net' = [net EXCEPT ![i] = o]
    PROVE  Settled(i, {o}) /\ i \in DOMAIN net' /\ net'[i] = o
<1>1. /\ net \in Seq(Requests) /\ DOMAIN net \subseteq Nat \ {0}
      /\ net' \in Seq(Requests) /\ DOMAIN net' = DOMAIN net /\ net'[i] = o
      /\ \A k \in DOMAIN net : k # i => net'[k] = net[k] /\ net[k] \in Requests
  BY DEF NetFits
<1>2. \A k \in DOMAIN net : k # i => Alike(net'[k], net[k])
  BY <1>1 DEF Alike
<1>3. \A j \in DOMAIN net \cup {0} : Follows(i, {o}, j, j)
  BY <1>1, <1>2 DEF Follows
<1> QED BY <1>1, <1>2, <1>3 DEF Settled

LEMMA SettledLast ==
    ASSUME NetFits, NEW i \in DOMAIN net, NEW o \in Requests,
           net' = Append(RemoveAt(net, i), o)
    PROVE  /\ Settled(i, {o}) /\ Len(net') \in DOMAIN net' /\ net'[Len(net')] = o
<1>1. PICK rest : rest = RemoveAt(net, i) /\ Leaves(i, rest)
  BY Handling
<1>2. PICK n \in Nat : n = Len(rest) /\ DOMAIN rest = 1..n
  BY <1>1 DEF Leaves
<1>3. /\ net' \in Seq(Requests) /\ DOMAIN net' = 1..(n + 1) /\ Len(net') = n + 1
      /\ net'[n + 1] = o /\ \A k \in 1..n : net'[k] = rest[k]
  BY <1>1, <1>2 DEF Leaves
<1>4. DOMAIN net \subseteq Nat \ {0} /\ i \in Nat
  BY DEF NetFits
<1>5. \A p \in DOMAIN net' :
         \/ net'[p] = o
         \/ /\ p \in DOMAIN rest /\ Place(i, p) \in DOMAIN net /\ Place(i, p) # i
            /\ Alike(net'[p], net[Place(i, p)])
  BY <1>1, <1>2, <1>3 DEF Leaves
<1>6. Follows(i, {o}, 0, 0)
  BY <1>4, <1>5 DEF Follows
<1>7. ASSUME NEW j \in DOMAIN net, j # i
      PROVE  \E k \in DOMAIN net' : Alike(net'[k], net[j]) /\ Follows(i, {o}, j, k)
  <2>1. PICK k \in DOMAIN rest : Place(i, k) = j /\ Alike(rest[k], net[j])
    BY <1>1, <1>7 DEF Leaves
  <2>2. k \in DOMAIN net' /\ Alike(net'[k], net[j]) /\ k \in Nat
    BY <1>2, <1>3, <2>1
  <2>3. ASSUME NEW p \in DOMAIN rest, p > k
        PROVE  Place(i, p) > j
    <3>1. p \in Nat /\ k \in Nat /\ i \in Nat
      BY <1>2, <1>4
    <3>2. j = IF k < i THEN k ELSE k + 1
      BY <2>1 DEF Place
    <3> QED BY <2>3, <3>1, <3>2 DEF Place
  <2>4. Follows(i, {o}, j, k)
    <3> SUFFICES ASSUME NEW p \in DOMAIN net', p > k, net'[p] # o
                 PROVE  \E q \in DOMAIN net : q # i /\ q > j /\ Alike(net'[p], net[q])
      BY DEF Follows
    <3>1. PICK q : q = Place(i, p)
      OBVIOUS
    <3>2. q \in DOMAIN net /\ q # i /\ q > j /\ Alike(net'[p], net[q])
      BY <1>5, <2>3, <3>1
    <3> QED BY <3>2
  <2> QED BY <2>2, <2>4
<1>8. Settled(i, {o})
  BY <1>3, <1>6, <1>7 DEF Settled
<1>9. n + 1 \in 1..(n + 1)
  OBVIOUS
<1> QED BY <1>3, <1>8, <1>9

LEMMA AlikeFits ==
    ASSUME NEW m, NEW o, Alike(m, o), Fit(o)
    PROVE  Fit(m)
<1>1. Says(o) => Says(m)
  BY DEF Alike, Says
<1> QED BY <1>1 DEF Alike, Fit

(* The requests that are under way still fit.                              *)
LEMMA NetFitsSettled ==
    ASSUME NetFits, NEW i, NEW New, Settled(i, New), Grows, \A x \in New : Fit(x)'
    PROVE  NetFits'
<1>1. \A m : Fit(m) => Fit(m)'
  BY FitKept
<1>2. net' \in Seq(Requests) /\ DOMAIN net' \subseteq Nat \ {0}
  BY DEF Settled
<1>3. ASSUME NEW m \in Requests, NEW p \in DOMAIN net', net'[p] = m
      PROVE  Fit(m)'
  <2>1. CASE m \in New
    BY <2>1
  <2>2. CASE \E q \in DOMAIN net : Alike(m, net[q])
    <3>1. PICK q \in DOMAIN net : Alike(m, net[q])
      BY <2>2
    <3>2. PICK o \in Requests : o = net[q] /\ Fit(o)
      BY DEF NetFits
    <3>3. Fit(m)
      BY <3>1, <3>2, AlikeFits
    <3> QED BY <1>1, <3>3
  <2>3. p > 0
    BY <1>2
  <2> QED BY <1>3, <2>1, <2>2, <2>3 DEF Settled, Follows
<1> QED BY <1>2, <1>3 DEF NetFits

LEMMA NewsFit ==
    ASSUME UNCHANGED server
    PROVE  Grows /\ \A x \in News : Fit(x)'
<1>1. Grows
  BY DEF Grows
<1> QED BY <1>1, FitKept DEF News

(* Nothing that is new unlocks the page.                                   *)
LEMMA NewsQuiet == \A x \in News : ~Spoils(x)
BY DEF News, Spoils

LEMMA QuietSettled ==
    ASSUME NEW i, NEW New, NEW j, NEW k, Follows(i, New, j, k), selected' = selected,
           \A x \in New : ~Spoils(x),
           \A q \in DOMAIN net : q # i /\ q > j => ~Spoils(net[q])
    PROVE  QuietAfter(k)'
<1> SUFFICES ASSUME NEW p \in DOMAIN net', p > k
             PROVE  ~Spoils(net'[p])
  BY DEF QuietAfter, Spoils
<1>1. CASE net'[p] \in New
  BY <1>1
<1>2. CASE \E q \in DOMAIN net : q # i /\ q > j /\ Alike(net'[p], net[q])
  <2>1. PICK q \in DOMAIN net : q # i /\ q > j /\ Alike(net'[p], net[q])
    BY <1>2
  <2>2. ~Spoils(net[q])
    BY <2>1
  <2> QED BY <2>1, <2>2 DEF Spoils, Alike
<1> QED BY <1>1, <1>2 DEF Follows

(* What tells of a revocation still does, unless it is what is handled.    *)
LEMMA StillTells ==
    ASSUME NEW i, NEW New, Settled(i, New), selected' = selected,
           \A x \in New : ~Spoils(x), NEW j \in DOMAIN net, j # i, Tells(j)
    PROVE  Hears'
<1>1. PICK k \in DOMAIN net' : Alike(net'[k], net[j]) /\ Follows(i, New, j, k)
  BY DEF Settled
<1>2. /\ net'[k].kind = net[j].kind /\ net'[k].agent = net[j].agent
      /\ net'[k].answered = net[j].answered /\ net'[k].answer = net[j].answer
  BY <1>1 DEF Alike
<1>3. QuietAfter(j) => QuietAfter(k)'
  BY <1>1, QuietSettled DEF QuietAfter
<1>4. Tells(k)'
  BY <1>2, <1>3 DEF Tells, AsksMandate
<1> QED BY <1>4 DEF Hears

LEMMA StillLocked ==
    ASSUME NEW i, NEW New, Settled(i, New), selected' = selected,
           \A x \in New : ~Spoils(x), QuietAfter(0), Locked'
    PROVE  Hears'
<1>1. QuietAfter(0)'
  BY QuietSettled DEF Settled, QuietAfter
<1> QED BY <1>1 DEF Hears

LEMMA StillHears ==
    ASSUME NEW i, NEW New, Settled(i, New), selected' = selected,
           \A x \in New : ~Spoils(x), i \in DOMAIN net => ~Tells(i),
           view'.mandate = view.mandate, Hears
    PROVE  Hears'
<1>1. CASE \E j \in DOMAIN net : Tells(j)
  BY <1>1, StillTells
<1>2. CASE Locked /\ QuietAfter(0)
  <2>1. Locked'
    BY <1>2 DEF Locked
  <2> QED BY <1>2, <2>1, StillLocked
<1> QED BY <1>1, <1>2 DEF Hears

(* Handlers that leave the mandate that is shown alone.                    *)
MandateKept ==
    /\ UNCHANGED <<server, selected>>
    /\ view'.mandate = view.mandate /\ (Spared' => Spared)

LEMMA HeardSettled ==
    ASSUME NEW i, Settled(i, News), Heard, MandateKept,
           i \in DOMAIN net => ~AsksMandate(net[i]) /\ net[i].kind # "revoke"
    PROVE  Heard'
<1> SUFFICES ASSUME Spared', CurrentMandate(selected)' = "REVOKED"
             PROVE  Hears'
  BY DEF Heard
<1>1. selected' = selected /\ view'.mandate = view.mandate /\ Hears
  BY DEF Heard, MandateKept, CurrentMandate
<1>2. i \in DOMAIN net => ~Tells(i)
  BY DEF Tells
<1> QED BY <1>1, <1>2, NewsQuiet, StillHears

LEMMA HeardAsked ==
    ASSUME NetFits, Asked, Heard, MandateKept
    PROVE  Heard'
<1>1. Len(net) + 1 \notin DOMAIN net
  BY DEF NetFits
<1> QED BY <1>1, HeardSettled DEF Asked

(* The selected Agent's mandate is read: the page shows what it was, and   *)
(* no answer that was given before is still to come.                       *)
LEMMA HeardMandate ==
    ASSUME NetFits, NEW i \in DOMAIN net, Settled(i, News), Heard,
           AsksMandate(net[i]), net[i].answered, ~Overtakes(i), Spared,
           UNCHANGED <<server, selected>>, view'.mandate = net[i].answer
    PROVE  Heard'
<1> SUFFICES ASSUME CurrentMandate(selected)' = "REVOKED"
             PROVE  Hears'
  BY DEF Heard
<1>1. Hears /\ selected' = selected
  BY DEF Heard, CurrentMandate
<1>2. PICK m \in Requests : m = net[i] /\ Fit(m)
  BY DEF NetFits
<1>3. m.answer \in Mandates /\ m.answer # None
  BY <1>2, NoneAssumption DEF Fit, AsksMandate, Says, Issued
<1>4. DOMAIN net = 1..Len(net) /\ Len(net) \in Nat /\ i \in Nat
  BY DEF NetFits
<1>5. \A j \in DOMAIN net : j < i /\ net[j].agent = selected /\ net[j].answered
                            => net[j].kind \notin {"mandate", "workflow"}
  BY <1>4 DEF Overtakes, Changes, AsksMandate
<1>6. ASSUME m.answer.status = "REVOKED", QuietAfter(i)
      PROVE  Hears'
  <2>1. Locked'
    BY <1>2, <1>3, <1>6 DEF Locked
  <2>2. \A q \in DOMAIN net : q # i /\ q > 0 => ~Spoils(net[q])
    BY <1>4, <1>5, <1>6 DEF QuietAfter, Spoils
  <2>3. QuietAfter(0)'
    BY <1>1, <2>2, NewsQuiet, QuietSettled DEF Settled
  <2> QED BY <2>1, <2>3 DEF Hears
<1>7. CASE \E j \in DOMAIN net : Tells(j)
  <2>1. PICK j \in DOMAIN net : Tells(j)
    BY <1>7
  <2>2. CASE j # i
    BY <1>1, <2>1, <2>2, NewsQuiet, StillTells
  <2>3. CASE j = i
    BY <1>2, <1>6, <2>1, <2>3 DEF Tells, AsksMandate
  <2> QED BY <2>2, <2>3
<1>8. CASE QuietAfter(0)
  <2>1. ~Spoils(net[i]) /\ QuietAfter(i)
    BY <1>4, <1>8 DEF QuietAfter
  <2>2. m.answer.status = "REVOKED"
    BY <1>2, <2>1 DEF Spoils, AsksMandate
  <2> QED BY <1>6, <2>1, <2>2
<1> QED BY <1>1, <1>7, <1>8 DEF Hears

(* A new workflow clears the page; what had told it of a revocation was    *)
(* answered later, and is still to come.                                   *)
LEMMA HeardWorkflow ==
    ASSUME NetFits, NEW i \in DOMAIN net, Settled(i, News), Heard,
           net[i].kind = "workflow", net[i].answered, net[i].ok, net[i].agent = selected,
           Spared, UNCHANGED <<server, selected>>
    PROVE  Heard'
<1> SUFFICES ASSUME CurrentMandate(selected)' = "REVOKED"
             PROVE  Hears'
  BY DEF Heard
<1>1. Hears /\ selected' = selected
  BY DEF Heard, CurrentMandate
<1>2. i > 0 /\ Spoils(net[i]) /\ ~Tells(i)
  BY DEF NetFits, Spoils, Tells, AsksMandate
<1>3. PICK j \in DOMAIN net : Tells(j) /\ j # i
  BY <1>1, <1>2 DEF Hears, QuietAfter
<1> QED BY <1>1, <1>3, NewsQuiet, StillTells

(* A revocation is followed by a read of the mandate.                      *)
LEMMA HeardRevoke ==
    ASSUME NEW k \in DOMAIN net', net'[k].kind = "mandate",
           net'[k].agent = selected', ~net'[k].answered
    PROVE  Heard'
<1>1. Tells(k)'
  BY DEF Tells, AsksMandate
<1> QED BY <1>1 DEF Heard, Hears

-----------------------------------------------------------------------------
(* New requests, and the loops of the polls.                               *)
LEMMA RunExists ==
    ASSUME ServerFits, NEW a \in Agents, NEW n \in DOMAIN server[a].runs
    PROVE  Exists(RunOf(a, n))
<1>1. server[a].runs \in Seq(RunRows)
  BY DEF ServerFits, AgentRows
<1>2. n \in 1..MaxRuns
  <2>1. /\ n \in Nat /\ 1 =< n /\ n =< Len(server[a].runs) /\ Len(server[a].runs) \in Nat
    BY <1>1
  <2>2. Len(server[a].runs) =< MaxRuns /\ MaxRuns \in Nat
    BY WebAssumption DEF ServerFits, AgentFits
  <2> QED BY <2>1, <2>2
<1> QED BY <1>2 DEF Exists, RunOf, Runs

LEMMA NewRequest ==
    ASSUME ServerFits, NEW kind \in Kinds, NEW a \in Agents, NEW n \in Nat,
           NEW by \in {"nobody", "retry", "workflow", "revoke"}, NEW poll \in Runs \cup {None},
           kind \in {"run", "evidence", "retry"} \/ by = "retry" => n \in DOMAIN server[a].runs,
           kind = "revoke" => n \in DOMAIN server[a].mandates,
           by = "retry" => kind = "mandate"
    PROVE  /\ Request(kind, a, n, by, poll) \in News
           /\ <<Request(kind, a, n, by, poll)>> \in Seq(News)
<1>1. PICK m : m = Request(kind, a, n, by, poll)
  OBVIOUS
<1>2. PICK answered \in BOOLEAN : answered = (kind = "evidence")
  OBVIOUS
<1>3. PICK answer : answer = IF kind = "evidence" THEN RunOf(a, n) ELSE <<>>
  OBVIOUS
<1>4. kind = "evidence" => answer \in Runs /\ answer.agent = a
  BY <1>3, RunExists DEF Exists, RunOf
<1>5. answer \in Answers
  <2>1. <<>> \in Answers
    BY DEF Answers
  <2> QED BY <1>3, <1>4, <2>1 DEF Answers
<1>6. m = [kind |-> kind, agent |-> a, n |-> n, by |-> by, poll |-> poll,
           answered |-> answered, ok |-> TRUE, answer |-> answer]
  BY <1>1, <1>2, <1>3 DEF Request
<1>7. m \in Requests
  BY <1>5, <1>6 DEF Requests
<1>8. /\ m.kind = kind /\ m.agent = a /\ m.n = n /\ m.by = by /\ m.poll = poll
      /\ m.answered = answered /\ m.ok = TRUE /\ m.answer = answer
  BY <1>6
<1>9. m.answered <=> m.kind = "evidence"
  BY <1>2, <1>8
<1>10. m.kind = "evidence" => Says(m)
  BY <1>4, <1>8 DEF Says
<1>11. Fit(m)
  BY <1>7, <1>8, <1>9, <1>10 DEF Fit
<1> QED BY <1>1, <1>7, <1>9, <1>11 DEF News

(* What is known of the request whose answer is handled.                   *)
LEMMA Handles ==
    ASSUME NetFits, NEW i \in DOMAIN net
    PROVE  net[i] \in Requests /\ Fit(net[i])
BY DEF NetFits

LEMMA ExistsTypes ==
    ASSUME ServerFits, NEW run, Exists(run)
    PROVE  /\ run \in Runs /\ run # None /\ run.agent \in Agents /\ run.n \in Nat
           /\ run.n \in DOMAIN server[run.agent].runs
           /\ RunOf(run.agent, run.n) = run
BY NoneAssumption, WebAssumption DEF Exists, Runs, RunOf

LEMMA PollRunFits ==
    ASSUME LoopsFit, NEW run, Exists(run), NEW origin \in {"send", "retry", "effect"},
           loops' = PollRun(run, origin), UNCHANGED server
    PROVE  LoopsFit'
<1>1. CASE Polled(run)
  BY <1>1 DEF PollRun, LoopsFit, Exists
<1>2. CASE ~Polled(run)
  <2>1. PICK l : l = [run |-> run, origin |-> origin, phase |-> "waiting"]
    OBVIOUS
  <2>2. l \in Loops /\ l.run = run
    BY <2>1 DEF Loops, Exists
  <2>3. loops' = Append(loops, l) /\ loops \in Seq(Loops)
    BY <1>2, <2>1 DEF PollRun, LoopsFit
  <2>4. /\ loops' \in Seq(Loops) /\ Len(loops') = Len(loops) + 1
        /\ \A k \in DOMAIN loops : loops'[k] = loops[k]
        /\ loops'[Len(loops) + 1] = l
    BY <2>2, <2>3
  <2>5. \A k \in DOMAIN loops' : k \in DOMAIN loops \/ k = Len(loops) + 1
    BY <2>3, <2>4
  <2>6. \A k \in DOMAIN loops : loops[k].run # run
    BY <1>2 DEF Polled
  <2>7. \A k \in DOMAIN loops' : Exists(loops'[k].run)
    BY <2>2, <2>4, <2>5 DEF LoopsFit
  <2>8. ASSUME NEW j \in DOMAIN loops', NEW k \in DOMAIN loops', loops'[j].run = loops'[k].run
        PROVE  j = k
    BY <2>2, <2>4, <2>5, <2>6, <2>8 DEF LoopsFit
  <2> QED BY <2>4, <2>7, <2>8 DEF LoopsFit, Exists
<1> QED BY <1>1, <1>2

LEMMA PhaseFits ==
    ASSUME LoopsFit, NEW i \in DOMAIN loops,
           NEW phase \in {"waiting", "fetching", "refreshing"},
           loops' = InPhase(i, phase), UNCHANGED server
    PROVE  LoopsFit'
<1>1. loops \in Seq(Loops) /\ loops[i] \in Loops
  BY DEF LoopsFit
<1>2. PICK l : l = [loops[i] EXCEPT !.phase = phase]
  OBVIOUS
<1>3. l \in Loops /\ l.run = loops[i].run
  BY <1>1, <1>2 DEF Loops
<1>4. loops' = [loops EXCEPT ![i] = l]
  BY <1>2 DEF InPhase
<1>5. /\ loops' \in Seq(Loops) /\ DOMAIN loops' = DOMAIN loops
      /\ \A k \in DOMAIN loops : loops'[k].run = loops[k].run
  BY <1>1, <1>3, <1>4
<1> QED BY <1>5 DEF LoopsFit, Exists

LEMMA LoopRemoved ==
    ASSUME LoopsFit, NEW i \in DOMAIN loops, loops' = RemoveAt(loops, i), UNCHANGED server
    PROVE  LoopsFit'
<1>1. /\ loops' \in Seq(Loops) /\ Len(loops') = Len(loops) - 1
      /\ \A k \in 1..(Len(loops) - 1) : loops'[k] = IF k < i THEN loops[k] ELSE loops[k + 1]
  BY Removed DEF LoopsFit
<1>2. /\ Len(loops) \in Nat /\ DOMAIN loops = 1..Len(loops) /\ i \in Nat
      /\ DOMAIN loops' = 1..(Len(loops) - 1)
  BY <1>1 DEF LoopsFit
<1>3. ASSUME NEW k \in DOMAIN loops'
      PROVE  /\ k \in Nat /\ Place(i, k) \in DOMAIN loops
             /\ loops'[k] = loops[Place(i, k)]
    BY <1>1, <1>2 DEF Place
<1>4. ASSUME NEW j \in DOMAIN loops', NEW k \in DOMAIN loops', loops'[j].run = loops'[k].run
      PROVE  j = k
  <2>1. Place(i, j) = Place(i, k)
    BY <1>3, <1>4 DEF LoopsFit
  <2> QED BY <1>2, <1>3, <2>1 DEF Place
<1> QED BY <1>1, <1>3, <1>4 DEF LoopsFit, Exists

-----------------------------------------------------------------------------
(* One handler after the other.                                            *)
Handler(i, m, rest) ==
    /\ i \in DOMAIN net /\ m = net[i] /\ rest = RemoveAt(net, i)
    /\ m.answered /\ m.ok
    /\ overtaken' = (overtaken \/ Overtakes(i))
    /\ UNCHANGED <<server, selected, budget>>

LEMMA Settles ==
    ASSUME WebInv, NEW i, NEW m, NEW rest, Handler(i, m, rest)
    PROVE  /\ m \in Requests /\ m.agent \in Agents /\ m.n \in Nat /\ Fit(m) /\ Says(m)
           /\ m.poll \in Runs \cup {None} /\ overtaken' \in BOOLEAN
           /\ \A added \in Seq(News) : net' = added \o rest => Settled(i, News)
           /\ net' = rest => Settled(i, News)
           /\ \A x \in News : net' = <<x>> \o rest => Settled(i, News)
<1>1. NetFits /\ i \in DOMAIN net /\ m = net[i] /\ rest = RemoveAt(net, i)
  BY DEF WebInv, Handler
<1>2. m \in Requests /\ Fit(m)
  BY <1>1, Handles
<1>3. Leaves(i, rest) /\ rest \in Seq(Requests)
  BY <1>1, Handling DEF Leaves
<1>4. i \in Nat
  BY <1>1 DEF NetFits
<1>5. \A added \in Seq(News) : net' = added \o rest => Settled(i, News)
  BY <1>1, <1>3, <1>4, SettledBy
<1>6. rest = <<>> \o rest /\ <<>> \in Seq(News)
  BY <1>3, ConcatEmptySeq
<1>7. \A x \in News : <<x>> \in Seq(News)
  OBVIOUS
<1>8. overtaken' \in BOOLEAN
  BY DEF Handler, WebInv, PageFits
<1> QED BY <1>2, <1>5, <1>6, <1>7, <1>8 DEF Requests, Fit, Handler

LEMMA HandlerKeeps ==
    ASSUME NEW i, NEW m, NEW rest, Handler(i, m, rest),
           view'.mandate = view.mandate, astray => astray'
    PROVE  MandateKept
BY DEF Handler, MandateKept, Spared, budget

(* The parts of the page that no handler of a response changes.            *)
LEMMA PageKept ==
    ASSUME WebInv, UNCHANGED <<server, selected, budget>>,
           known' \subseteq Agents, busy' \in BOOLEAN, revoking' \in BOOLEAN,
           astray' \in BOOLEAN, overtaken' \in BOOLEAN, ViewFits', LoopsFit'
    PROVE  PageFits'
BY DEF WebInv, PageFits, budget

LEMMA LoopsKept ==
    ASSUME WebInv, UNCHANGED <<server, loops>>
    PROVE  LoopsFit'
BY DEF WebInv, PageFits, LoopsFit, Exists

LEMMA EvidenceHandled ==
    ASSUME WebInv, NEW i, NEW m, NEW rest, Handler(i, m, rest),
           m.kind = "evidence", EvidenceArrives(m, rest)
    PROVE  Settled(i, News) /\ PageFits' /\ Heard'
<1>1. Settled(i, News)
  BY Settles DEF EvidenceArrives
<1>2. m.answer \in Runs /\ m.answer.agent = m.agent
  BY Settles DEF Says
<1>3. view \in Views /\ ViewFits
  BY DEF WebInv, PageFits, ViewFits
<1>4. ViewFits' /\ view'.mandate = view.mandate
  <2>1. CASE selected = m.agent
    <3>1. view' = [view EXCEPT !.evidence = m.answer]
      BY <2>1 DEF EvidenceArrives, ShowsEvidence
    <3>2. /\ view' \in Views /\ view'.active = view.active /\ view'.mandate = view.mandate
          /\ view'.evidence = m.answer
      BY <1>2, <1>3, <3>1 DEF Views
    <3> QED BY <1>2, <1>3, <2>1, <3>2 DEF ViewFits, Handler, Exists, Issued
  <2>2. CASE selected # m.agent
    BY <1>3, <2>2 DEF EvidenceArrives, ShowsEvidence, ViewFits, Handler, Exists, Issued
  <2> QED BY <2>1, <2>2
<1>5. PageFits'
  BY <1>4, PageKept, LoopsKept, Settles DEF EvidenceArrives, Handler, controls, WebInv, PageFits
<1>6. MandateKept
  BY <1>4, HandlerKeeps DEF EvidenceArrives
<1>7. Heard'
  BY <1>1, <1>6, HeardSettled DEF WebInv, Handler, AsksMandate
<1> QED BY <1>1, <1>5, <1>7

LEMMA AgentsHandled ==
    ASSUME WebInv, NEW i, NEW m, NEW rest, Handler(i, m, rest),
           m.kind = "agents", AgentsArrive(m, rest)
    PROVE  Settled(i, News) /\ PageFits' /\ Heard'
<1>1. Settled(i, News)
  BY Settles DEF AgentsArrive
<1>2. m.answer \in SUBSET Agents
  BY Settles DEF Says
<1>3. ViewFits'
  BY DEF WebInv, PageFits, ViewFits, AgentsArrive, Handler, Exists, Issued
<1>4. known' \subseteq Agents /\ busy' \in BOOLEAN /\ revoking' = revoking /\ astray' = astray
  BY <1>2 DEF AgentsArrive, WebInv, PageFits
<1>5. PageFits'
  BY <1>3, <1>4, PageKept, LoopsKept, Settles DEF AgentsArrive, Handler, WebInv, PageFits
<1>6. MandateKept
  BY HandlerKeeps DEF AgentsArrive
<1>7. Heard'
  BY <1>1, <1>6, HeardSettled DEF WebInv, Handler, AsksMandate
<1> QED BY <1>1, <1>5, <1>7

LEMMA MandateHandled ==
    ASSUME WebInv, NEW i, NEW m, NEW rest, Handler(i, m, rest),
           m.kind = "mandate", MandateArrives(m, rest)
    PROVE  Settled(i, News) /\ PageFits' /\ Heard'
<1>1. Settled(i, News)
  BY Settles DEF MandateArrives
<1>2. Issued(m.answer) /\ m.answer.agent = m.agent /\ m.answer \in Mandates
  BY Settles DEF Says, Issued
<1>3. view \in Views /\ ViewFits
  BY DEF WebInv, PageFits, ViewFits
<1>4. /\ ViewFits'
      /\ view'.mandate = IF selected = m.agent THEN m.answer ELSE view.mandate
  <2>1. CASE selected = m.agent
    <3>1. view' = [view EXCEPT !.mandate = m.answer]
      BY <2>1 DEF MandateArrives, ShowsMandate
    <3>2. /\ view' \in Views /\ view'.active = view.active /\ view'.mandate = m.answer
          /\ view'.evidence = view.evidence
      BY <1>2, <1>3, <3>1 DEF Views
    <3> QED BY <1>2, <1>3, <2>1, <3>2 DEF ViewFits, Handler, Exists, Issued
  <2>2. CASE selected # m.agent
    BY <1>3, <2>2 DEF MandateArrives, ShowsMandate, ViewFits, Handler, Exists, Issued
  <2> QED BY <2>1, <2>2
<1>5. LoopsFit' /\ known' \subseteq Agents /\ busy' \in BOOLEAN
  <2>1. CASE m.by = "retry"
    <3>1. Exists(RunOf(m.agent, m.n))
      BY <2>1, Settles, RunExists DEF Fit, WebInv
    <3>2. LoopsFit'
      BY <2>1, <3>1, PollRunFits DEF MandateArrives, WebInv, PageFits, Handler
    <3> QED BY <2>1, <3>2, Settles DEF MandateArrives, WebInv, PageFits
  <2>2. CASE m.by # "retry"
    BY <2>2, LoopsKept DEF MandateArrives, WebInv, PageFits, Handler
  <2> QED BY <2>1, <2>2
<1>6. PageFits'
  BY <1>4, <1>5, PageKept, Settles DEF MandateArrives, Handler, WebInv, PageFits
<1>7. Heard'
  <2>1. CASE selected = m.agent
    <3> SUFFICES ASSUME Spared'
                 PROVE  Heard'
      BY DEF Heard
    <3>1. Spared /\ ~Overtakes(i) /\ UNCHANGED <<server, selected>>
      BY DEF Spared, Handler, MandateArrives, budget
    <3>2. /\ NetFits /\ Heard /\ i \in DOMAIN net
          /\ AsksMandate(net[i]) /\ net[i].answered /\ view'.mandate = net[i].answer
      BY <1>4, <2>1 DEF WebInv, Handler, AsksMandate
    <3> QED BY <1>1, <3>1, <3>2, HeardMandate
  <2>2. CASE selected # m.agent
    <3>1. MandateKept
      BY <1>4, <2>2, HandlerKeeps DEF MandateArrives
    <3> QED BY <1>1, <2>2, <3>1, HeardSettled DEF WebInv, Handler, AsksMandate
  <2> QED BY <2>1, <2>2
<1> QED BY <1>1, <1>6, <1>7

(* A view in which only the Run changes.                                   *)
LEMMA ActiveShown ==
    ASSUME WebInv, NEW x \in ShownRuns, x.run = None \/ Exists(x.run),
           view' = [view EXCEPT !.active = x], UNCHANGED <<server, selected>>
    PROVE  ViewFits' /\ view'.mandate = view.mandate
<1>1. view \in Views /\ ViewFits
  BY DEF WebInv, PageFits, ViewFits
<1>2. /\ view' \in Views /\ view'.active = x
      /\ view'.evidence = view.evidence /\ view'.mandate = view.mandate
  BY <1>1 DEF Views
<1> QED BY <1>1, <1>2 DEF ViewFits, Exists, Issued

LEMMA ViewKept ==
    ASSUME WebInv, UNCHANGED <<server, selected, view>>
    PROVE  ViewFits'
BY DEF WebInv, PageFits, ViewFits, Exists, Issued

LEMMA RunsHandled ==
    ASSUME WebInv, NEW i, NEW m, NEW rest, Handler(i, m, rest),
           m.kind = "runs", RunsArrive(m, rest)
    PROVE  Settled(i, News) /\ PageFits' /\ Heard'
<1>1. /\ m.answer \in ShownRuns
      /\ m.answer.run = None \/ (Exists(m.answer.run) /\ m.answer.run.agent = m.agent)
  BY Settles DEF Says
<1>2. Settled(i, News)
  <2>1. CASE net' = rest
    BY <2>1, Settles
  <2>2. CASE /\ m.answer.run # None
             /\ net' = <<Plain("evidence", m.agent, m.answer.run.n)>> \o rest
    <3>1. m.answer.run.n \in Nat /\ m.answer.run.n \in DOMAIN server[m.agent].runs
      BY <1>1, <2>2, ExistsTypes DEF WebInv
    <3>2. Plain("evidence", m.agent, m.answer.run.n) \in News
      BY <3>1, Settles, NewRequest DEF Plain, Kinds, WebInv
    <3> QED BY <2>2, <3>2, Settles
  <2> QED BY <2>1, <2>2 DEF RunsArrive
<1>3. ViewFits' /\ view'.mandate = view.mandate
  <2>1. CASE selected = m.agent
    BY <1>1, <2>1, ActiveShown DEF RunsArrive, Handler
  <2>2. CASE selected # m.agent
    BY <2>2, ViewKept DEF RunsArrive, Handler
  <2> QED BY <2>1, <2>2
<1>4. LoopsFit'
  <2>1. CASE loops' = loops
    BY <2>1, LoopsKept DEF Handler
  <2>2. CASE m.answer.run # None /\ loops' = PollRun(m.answer.run, "effect")
    BY <1>1, <2>2, PollRunFits DEF WebInv, PageFits, Handler
  <2> QED BY <2>1, <2>2 DEF RunsArrive
<1>5. PageFits'
  BY <1>3, <1>4, PageKept, Settles DEF RunsArrive, Handler, controls, WebInv, PageFits
<1>6. MandateKept
  BY <1>3, HandlerKeeps DEF RunsArrive
<1>7. Heard'
  BY <1>2, <1>6, HeardSettled DEF WebInv, Handler, AsksMandate
<1> QED BY <1>2, <1>5, <1>7

LEMMA SendHandled ==
    ASSUME WebInv, NEW i, NEW m, NEW rest, Handler(i, m, rest),
           m.kind = "send", SendArrives(m, rest)
    PROVE  Settled(i, News) /\ PageFits' /\ Heard'
<1>1. m.answer \in ShownRuns /\ Exists(m.answer.run)
  BY Settles DEF Says
<1>2. Settled(i, News)
  BY Settles DEF SendArrives
<1>3. ViewFits' /\ view'.mandate = view.mandate
  <2>1. CASE selected = m.agent
    BY <1>1, <2>1, ActiveShown DEF SendArrives, Handler
  <2>2. CASE selected # m.agent
    BY <2>2, ViewKept DEF SendArrives, Handler
  <2> QED BY <2>1, <2>2
<1>4. LoopsFit'
  BY <1>1, PollRunFits DEF SendArrives, WebInv, PageFits, Handler
<1>5. PageFits'
  BY <1>3, <1>4, Settles, PageKept DEF SendArrives, Handler, WebInv, PageFits
<1>6. MandateKept
  BY <1>3, HandlerKeeps DEF SendArrives
<1>7. Heard'
  BY <1>2, <1>6, HeardSettled DEF WebInv, Handler, AsksMandate
<1> QED BY <1>2, <1>5, <1>7

LEMMA RetryHandled ==
    ASSUME WebInv, NEW i, NEW m, NEW rest, Handler(i, m, rest),
           m.kind = "retry", RetryArrives(m, rest)
    PROVE  Settled(i, News) /\ PageFits' /\ Heard'
<1>1. m.answer \in ShownRuns /\ Exists(m.answer.run) /\ m.answer.run.agent = m.agent
  BY Settles DEF Says
<1>2. Settled(i, News)
  <2>1. m.answer.run.n \in Nat /\ m.answer.run.n \in DOMAIN server[m.agent].runs
    BY <1>1, ExistsTypes DEF WebInv
  <2>2. Request("mandate", m.agent, m.answer.run.n, "retry", None) \in News
    BY <2>1, Settles, NewRequest DEF Kinds, WebInv
  <2> QED BY <2>2, Settles DEF RetryArrives
<1>3. ViewFits' /\ view'.mandate = view.mandate
  <2>1. view \in Views /\ ViewFits
    BY DEF WebInv, PageFits, ViewFits
  <2>2. view' = [view EXCEPT !.evidence = None, !.active = m.answer]
    BY DEF RetryArrives
  <2>3. /\ view' \in Views /\ view'.active = m.answer
        /\ view'.evidence = None /\ view'.mandate = view.mandate
    BY <1>1, <2>1, <2>2 DEF Views
  <2> QED BY <1>1, <2>1, <2>3 DEF ViewFits, Exists, Issued, Handler
<1>4. astray' \in BOOLEAN /\ (astray => astray')
  BY DEF RetryArrives, StraysFrom, WebInv, PageFits
<1>5. PageFits'
  BY <1>3, <1>4, PageKept, LoopsKept, Settles DEF RetryArrives, Handler, controls, WebInv, PageFits
<1>6. MandateKept
  BY <1>3, <1>4, HandlerKeeps
<1>7. Heard'
  BY <1>2, <1>6, HeardSettled DEF WebInv, Handler, AsksMandate
<1> QED BY <1>2, <1>5, <1>7

LEMMA NothingFits ==
    ASSUME view' = NothingShown
    PROVE  ViewFits' /\ view'.mandate = None
BY DEF NothingShown, NoRun, ViewFits, Views, ShownRuns, RunStates

LEMMA WorkflowHandled ==
    ASSUME WebInv, NEW i, NEW m, NEW rest, Handler(i, m, rest),
           m.kind = "workflow", WorkflowArrives(m, rest)
    PROVE  Settled(i, News) /\ PageFits' /\ Heard'
<1>1. Settled(i, News)
  <2>1. Request("agents", m.agent, 0, "workflow", None) \in News
    BY Settles, NewRequest DEF Kinds, WebInv
  <2> QED BY <2>1, Settles DEF WorkflowArrives
<1>2. ViewFits'
  BY NothingFits DEF WorkflowArrives
<1>3. astray' \in BOOLEAN
  BY DEF WorkflowArrives, StraysFrom, WebInv, PageFits
<1>4. PageFits'
  BY <1>2, <1>3, PageKept, LoopsKept, Settles DEF WorkflowArrives, Handler, controls, WebInv, PageFits
<1>5. Heard'
  <2> SUFFICES ASSUME Spared'
               PROVE  Heard'
    BY DEF Heard
  <2>1. Spared /\ m.agent = selected /\ UNCHANGED <<server, selected>>
    BY DEF Spared, Handler, WorkflowArrives, StraysFrom, budget
  <2>2. /\ NetFits /\ Heard /\ i \in DOMAIN net /\ net[i].agent = selected
        /\ net[i].kind = "workflow" /\ net[i].answered /\ net[i].ok
    BY <2>1 DEF WebInv, Handler
  <2> QED BY <1>1, <2>1, <2>2, HeardWorkflow
<1> QED BY <1>1, <1>4, <1>5

LEMMA RevokeHandled ==
    ASSUME WebInv, NEW i, NEW m, NEW rest, Handler(i, m, rest),
           m.kind = "revoke", RevokeArrives(m, rest)
    PROVE  Settled(i, News) /\ PageFits' /\ Heard'
<1>1. PICK run : run = m.answer.active.run
  OBVIOUS
<1>2. /\ m.answer \in [mandate : Mandates, active : ShownRuns] /\ Issued(m.answer.mandate)
      /\ run = None \/ (Exists(run) /\ run.agent = m.agent)
  BY <1>1, Settles DEF Says
<1>3. PICK agents, mandate \in News :
        /\ agents = Request("agents", m.agent, 0, "revoke", None)
        /\ mandate = Request("mandate", m.agent, 0, "revoke", None)
  BY Settles, NewRequest DEF Kinds, WebInv
<1>4. PICK some \in Seq(News) :
        RevokeRefreshes(m.agent, run) = some \o <<mandate>>
  <2>1. CASE run = None
    <3>1. RevokeRefreshes(m.agent, run) = (<<agents>> \o <<>>) \o <<mandate>>
      BY <1>3, <2>1 DEF RevokeRefreshes
    <3>2. <<agents>> \o <<>> \in Seq(News)
      BY <1>3
    <3> QED BY <3>1, <3>2
  <2>2. CASE run # None
    <3>1. run.n \in Nat /\ run.n \in DOMAIN server[m.agent].runs
      BY <1>2, <2>2, ExistsTypes DEF WebInv
    <3>2. PICK evidence \in News : evidence = Request("evidence", m.agent, run.n, "revoke", None)
      BY <3>1, Settles, NewRequest DEF Kinds, WebInv
    <3>3. RevokeRefreshes(m.agent, run) = (<<agents>> \o <<evidence>>) \o <<mandate>>
      BY <1>3, <2>2, <3>2 DEF RevokeRefreshes
    <3>4. <<agents>> \o <<evidence>> \in Seq(News)
      BY <1>3, <3>2
    <3> QED BY <3>3, <3>4
  <2> QED BY <2>1, <2>2
<1>5. some \o <<mandate>> \in Seq(News) /\ net' = (some \o <<mandate>>) \o rest
  BY <1>1, <1>3, <1>4 DEF RevokeArrives
<1>6. Settled(i, News)
  BY <1>5, Settles
<1>7. PICK k \in DOMAIN net' : net'[k] = mandate
  <2>1. rest \in Seq(Requests)
    BY Handling DEF WebInv, Handler, Leaves
  <2>2. PICK added \in Seq(News) : added = some \o <<mandate>>
    BY <1>5
  <2>3. added \in Seq(Requests)
    BY DEF News
  <2>4. Len(added) = Len(some) + 1 /\ added[Len(added)] = mandate
    BY <2>2
  <2>5. /\ net' \in Seq(Requests) /\ Len(net') = Len(added) + Len(rest)
        /\ \A k \in 1..(Len(added) + Len(rest)) :
              net'[k] = IF k <= Len(added) THEN added[k] ELSE rest[k - Len(added)]
    BY <1>5, <2>1, <2>2, <2>3, ConcatProperties
  <2>6. PICK l, n \in Nat : l = Len(added) /\ n = Len(rest)
    BY <2>1, <2>3
  <2>7. l >= 1 /\ l \in 1..(l + n)
    BY <2>4, <2>6
  <2>8. l \in DOMAIN net' /\ net'[l] = mandate
    BY <2>4, <2>5, <2>6, <2>7
  <2> QED BY <2>8
<1>8. ViewFits'
  <2>1. view \in Views /\ ViewFits
    BY DEF WebInv, PageFits, ViewFits
  <2>2. view' = [view EXCEPT !.mandate = m.answer.mandate, !.active = m.answer.active]
    BY DEF RevokeArrives
  <2>3. m.answer.active \in ShownRuns /\ m.answer.mandate \in Mandates
    BY <1>2
  <2>4. /\ view' \in Views /\ view'.active = m.answer.active
        /\ view'.evidence = view.evidence /\ view'.mandate = m.answer.mandate
    BY <2>1, <2>2, <2>3 DEF Views
  <2> QED BY <1>1, <1>2, <2>1, <2>4 DEF ViewFits, Exists, Issued, Handler
<1>9. /\ known' \subseteq Agents /\ astray' \in BOOLEAN
      /\ UNCHANGED <<busy, revoking, loops>>
  BY DEF RevokeArrives, StraysFrom, WebInv, PageFits
<1>10. PageFits'
  BY <1>8, <1>9, PageKept, LoopsKept, Settles DEF Handler, WebInv, PageFits
<1>11. mandate.kind = "mandate" /\ mandate.agent = m.agent /\ ~mandate.answered
  BY <1>3 DEF Request
<1>12. Heard'
  <2> SUFFICES ASSUME Spared'
               PROVE  Heard'
    BY DEF Heard
  <2>1. m.agent = selected'
    BY DEF Spared, Handler, RevokeArrives, StraysFrom
  <2> QED BY <1>7, <1>11, <2>1, HeardRevoke
<1> QED BY <1>6, <1>10, <1>12

(* The answer to a poll: the page shows the Run, and the loop waits again  *)
(* or refreshes what is shown.                                             *)
LEMMA PollHandled ==
    ASSUME WebInv, NEW i, NEW m, NEW rest, Handler(i, m, rest),
           m.kind = "run", PollAnswered(m, rest)
    PROVE  Settled(i, News) /\ PageFits' /\ Heard'
<1>1. m.answer \in ShownRuns /\ Exists(m.answer.run)
  BY Settles DEF Says
<1>2. m.n \in DOMAIN server[m.agent].runs
  BY Settles DEF Fit
<1>3. PICK mandate, agents, evidence, current \in News :
        /\ mandate = Plain("mandate", m.agent, 0)
        /\ agents = Request("agents", m.agent, 0, "nobody", m.poll)
        /\ evidence = Request("evidence", m.agent, m.n, "nobody", m.poll)
        /\ current = Request("mandate", m.agent, 0, "nobody", m.poll)
  BY <1>2, Settles, NewRequest DEF Plain, Kinds, WebInv
<1>4. PICK given, last \in Seq(News) :
        /\ given = IF m.answer.context THEN <<mandate>> ELSE <<>>
        /\ last = (<<agents>> \o (IF m.answer.context THEN <<evidence>> ELSE <<>>)) \o <<current>>
  <2>1. <<mandate>> \in Seq(News) /\ <<>> \in Seq(News)
    BY <1>3
  <2>2. <<agents>> \o <<evidence>> \in Seq(News) /\ <<agents>> \o <<>> \in Seq(News)
    BY <1>3
  <2>3. /\ (<<agents>> \o <<evidence>>) \o <<current>> \in Seq(News)
        /\ (<<agents>> \o <<>>) \o <<current>> \in Seq(News)
    BY <1>3, <2>2
  <2> QED BY <2>1, <2>3
<1>5. PICK more \in Seq(News) :
        more = IF PollContinues(m.answer) THEN <<>> ELSE last
  <2>1. <<>> \in Seq(News)
    OBVIOUS
  <2> QED BY <2>1
<1>6. net' = (given \o more) \o rest
  BY <1>3, <1>4, <1>5 DEF PollAnswered
<1>7. Settled(i, News)
  <2>1. PICK added \in Seq(News) : added = given \o more
    BY ConcatProperties
  <2> QED BY <1>6, <2>1, Settles
<1>8. ViewFits' /\ view'.mandate = view.mandate
  <2>1. CASE selected = m.agent
    BY <1>1, <2>1, ActiveShown DEF PollAnswered, Handler
  <2>2. CASE selected # m.agent
    BY <2>2, ViewKept DEF PollAnswered, Handler
  <2> QED BY <2>1, <2>2
<1>9. LoopsFit'
  <2>1. PICK j \in DOMAIN loops, phase \in {"waiting", "fetching", "refreshing"} :
          loops' = InPhase(j, phase)
    BY DEF PollAnswered
  <2> QED BY <2>1, PhaseFits DEF WebInv, PageFits, Handler
<1>10. UNCHANGED <<controls, astray>>
  BY DEF PollAnswered
<1>11. PageFits'
  BY <1>8, <1>9, <1>10, PageKept, Settles DEF Handler, controls, WebInv, PageFits
<1>12. MandateKept
  BY <1>8, <1>10, HandlerKeeps
<1>13. Heard'
  BY <1>7, <1>12, HeardSettled DEF WebInv, Handler, AsksMandate
<1> QED BY <1>7, <1>11, <1>13

(* A request that failed: a poll that waited for it ends, and with it what *)
(* waited for the poll.                                                    *)
LEMMA FailsHandled ==
    ASSUME WebInv, NEW i \in DOMAIN net, NEW m, m = net[i],
           NEW rest, rest = RemoveAt(net, i), Fails(m, rest),
           UNCHANGED <<server, selected, clicks, selects>>, failures' \in Nat,
           overtaken' \in BOOLEAN
    PROVE  /\ Settled(i, News) /\ PageFits'
           /\ view'.mandate = view.mandate /\ (astray => astray')
<1>1. m \in Requests /\ m.agent \in Agents /\ Fit(m)
  BY Handles DEF WebInv, Requests
<1>2. Leaves(i, rest) /\ rest \in Seq(Requests)
  BY Handling DEF WebInv, Leaves
<1>3. PICK left : left = [k \in DOMAIN rest |->
                             IF rest[k].poll = m.poll THEN [rest[k] EXCEPT !.poll = None]
                             ELSE rest[k]]
  OBVIOUS
<1>4. ASSUME NEW k \in DOMAIN rest
      PROVE  left[k] \in Requests /\ Alike(left[k], rest[k])
  <2>1. PICK o \in Requests : o = rest[k]
    BY <1>2
  <2>2. PICK x : x = [o EXCEPT !.poll = None]
    OBVIOUS
  <2>3. /\ x \in Requests /\ x.kind = o.kind /\ x.agent = o.agent /\ x.n = o.n /\ x.by = o.by
        /\ x.answered = o.answered /\ x.ok = o.ok /\ x.answer = o.answer
    BY <2>2 DEF Requests
  <2>4. left[k] = x \/ left[k] = o
    BY <1>3, <2>1, <2>2
  <2> QED BY <2>1, <2>3, <2>4 DEF Alike
<1>5. left \in Seq(Requests) /\ DOMAIN left = DOMAIN rest
  <2>1. DOMAIN rest = 1..Len(rest) /\ Len(rest) \in Nat
    BY <1>2
  <2>2. left \in [1..Len(rest) -> Requests]
    BY <1>3, <1>4, <2>1
  <2>3. left \in Seq(Requests) /\ Len(left) = Len(rest)
    BY <2>1, <2>2
  <2> QED BY <1>2, <1>3, <2>3
<1>6. Leaves(i, left)
  <2>1. \A k \in DOMAIN left : Alike(left[k], net[Place(i, k)])
    BY <1>2, <1>4, <1>5 DEF Alike, Leaves
  <2> QED BY <1>2, <1>5, <2>1 DEF Leaves
<1>7. PICK added \in Seq(News) : net' = added \o left
  <2>1. <<>> \in Seq(News) /\ <<Plain("agents", m.agent, 0)>> \in Seq(News)
    BY <1>1, NewRequest DEF Plain, Kinds, WebInv
  <2>2. PICK added : /\ added \in {<<>>, <<Plain("agents", m.agent, 0)>>}
                     /\ net' = added \o left
    BY <1>3 DEF Fails
  <2> QED BY <2>1, <2>2
<1>8. Settled(i, News)
  <2>1. NetFits /\ i \in Nat
    BY DEF WebInv, NetFits
  <2> QED BY <1>6, <1>7, <2>1, SettledBy
<1>9. ViewFits' /\ view'.mandate = view.mandate
  <2>1. CASE view' = [view EXCEPT !.active = NoRun]
    <3>1. NoRun \in ShownRuns /\ NoRun.run = None
      BY DEF NoRun, ShownRuns, RunStates
    <3> QED BY <2>1, <3>1, ActiveShown
  <2>2. CASE view' = view
    BY <2>2, ViewKept
  <2> QED BY <2>1, <2>2 DEF Fails
<1>10. LoopsFit'
  <2>1. CASE loops' = loops
    BY <2>1, LoopsKept
  <2>2. CASE \E j \in DOMAIN loops : loops' = RemoveAt(loops, j)
    BY <2>2, LoopRemoved DEF WebInv, PageFits
  <2>3. PICK waiting : waiting = {j \in DOMAIN loops : m.poll # None /\ loops[j].run = m.poll}
    OBVIOUS
  <2>4. loops' = IF waiting = {} THEN loops ELSE RemoveAt(loops, CHOOSE j \in waiting : TRUE)
    BY <2>3 DEF Fails
  <2>5. waiting # {} => (CHOOSE j \in waiting : TRUE) \in DOMAIN loops
    BY <2>3
  <2> QED BY <2>1, <2>2, <2>4, <2>5
<1>11. /\ astray' \in BOOLEAN /\ (astray => astray') /\ busy' \in BOOLEAN
       /\ revoking' \in BOOLEAN /\ known' \subseteq Agents
  BY DEF Fails, WebInv, PageFits
<1>12. PageFits'
  BY <1>9, <1>10, <1>11 DEF PageFits, WebInv
<1> QED BY <1>8, <1>9, <1>11, <1>12

-----------------------------------------------------------------------------
(* Steps that only ask: clicks, the timer of a poll, and the effects of a  *)
(* selection.                                                              *)
LEMMA SettlingKeeps ==
    ASSUME WebInv, NEW i, Settled(i, News), UNCHANGED server, PageFits', Heard'
    PROVE  WebInv'
<1>1. ServerFits'
  BY DEF WebInv, ServerFits
<1> QED BY <1>1, NewsFit, NetFitsSettled DEF WebInv

LEMMA AskingKeeps ==
    ASSUME WebInv, Asked, UNCHANGED server, PageFits', Heard'
    PROVE  WebInv'
BY SettlingKeeps DEF Asked

LEMMA ResponseKeeps ==
    ASSUME WebInv, ResponseArrives
    PROVE  WebInv'
<1>1. PICK i \in DOMAIN net :
        /\ net[i].answered /\ overtaken' = (overtaken \/ Overtakes(i))
        /\ IF net[i].ok THEN Succeeds(net[i], RemoveAt(net, i))
           ELSE Fails(net[i], RemoveAt(net, i))
  BY DEF ResponseArrives
<1>2. PICK m, rest : m = net[i] /\ rest = RemoveAt(net, i)
  OBVIOUS
<1>3. UNCHANGED <<server, selected, budget>>
  BY DEF ResponseArrives
<1>4. m \in Requests /\ m.kind \in Kinds /\ Fit(m)
  BY <1>2, Handles DEF WebInv, Requests
<1>5. CASE m.ok
  <2>1. Handler(i, m, rest) /\ Succeeds(m, rest)
    BY <1>1, <1>2, <1>3, <1>5 DEF Handler
  <2>2. Settled(i, News) /\ PageFits' /\ Heard'
    <3>1. CASE m.kind = "run"
      BY <2>1, <3>1, PollHandled DEF Succeeds
    <3>2. CASE m.kind = "evidence"
      BY <2>1, <3>2, EvidenceHandled DEF Succeeds
    <3>3. CASE m.kind = "mandate"
      BY <2>1, <3>3, MandateHandled DEF Succeeds
    <3>4. CASE m.kind = "agents"
      BY <2>1, <3>4, AgentsHandled DEF Succeeds
    <3>5. CASE m.kind = "runs"
      BY <2>1, <3>5, RunsHandled DEF Succeeds
    <3>6. CASE m.kind = "send"
      BY <2>1, <3>6, SendHandled DEF Succeeds
    <3>7. CASE m.kind = "retry"
      BY <2>1, <3>7, RetryHandled DEF Succeeds
    <3>8. CASE m.kind = "workflow"
      BY <2>1, <3>8, WorkflowHandled DEF Succeeds
    <3>9. CASE m.kind = "revoke"
      BY <2>1, <3>9, RevokeHandled DEF Succeeds
    <3> QED BY <1>4, <3>1, <3>2, <3>3, <3>4, <3>5, <3>6, <3>7, <3>8, <3>9 DEF Kinds
  <2> QED BY <1>1, <1>3, <2>2, SettlingKeeps
<1>6. CASE ~m.ok
  <2>1. Fails(m, rest)
    BY <1>1, <1>2, <1>6
  <2>2. /\ UNCHANGED <<clicks, selects, failures>> /\ failures' \in Nat
        /\ overtaken' \in BOOLEAN /\ (overtaken => overtaken')
    BY <1>1, <1>3 DEF budget, WebInv, PageFits
  <2>3. /\ Settled(i, News) /\ PageFits'
        /\ view'.mandate = view.mandate /\ (astray => astray')
    BY <1>2, <1>3, <2>1, <2>2, FailsHandled
  <2>4. net[i].kind \notin {"mandate", "revoke"}
    BY <1>2, <1>4, <1>6 DEF Fit
  <2>5. MandateKept
    BY <1>3, <2>2, <2>3 DEF MandateKept, Spared
  <2>6. Heard'
    BY <2>3, <2>4, <2>5, HeardSettled DEF WebInv, AsksMandate
  <2> QED BY <1>1, <1>3, <2>3, <2>6, SettlingKeeps
<1> QED BY <1>5, <1>6

(* A request that breaks is an exception for as long as the page is open.  *)
LEMMA BreakKeeps ==
    ASSUME WebInv, RequestBreaks
    PROVE  WebInv'
<1>1. PICK i \in DOMAIN net : Fails(net[i], RemoveAt(net, i))
  BY DEF RequestBreaks
<1>2. /\ UNCHANGED <<server, selected, clicks, selects>>
      /\ failures' \in Nat /\ failures' # 0 /\ overtaken' \in BOOLEAN
  BY DEF RequestBreaks, WebInv, PageFits
<1>3. Settled(i, News) /\ PageFits'
  BY <1>1, <1>2, FailsHandled
<1>4. Heard'
  BY <1>2 DEF Heard, Spared
<1> QED BY <1>1, <1>2, <1>3, <1>4, SettlingKeeps

LEMMA AskedOne ==
    ASSUME WebInv, NEW x \in News, net' = <<x>> \o net
    PROVE  Asked
<1>1. <<x>> \in Seq(News)
  OBVIOUS
<1> QED BY <1>1, AskedBy DEF WebInv

LEMMA AskedNothing ==
    ASSUME WebInv, UNCHANGED net
    PROVE  Asked
<1>1. net = <<>> \o net /\ <<>> \in Seq(News)
  BY ConcatEmptySeq DEF WebInv, NetFits
<1> QED BY <1>1, AskedBy DEF WebInv

LEMMA ClickKeeps ==
    ASSUME WebInv, ClickSend \/ ClickRetry \/ ClickNewWorkflow \/ ClickRevoke
    PROVE  WebInv'
<1>0. selected \in Agents /\ ViewFits
  BY DEF WebInv, PageFits
<1>1. Asked
  <2>1. CASE ClickSend
    <3>1. Plain("send", selected, 0) \in News
      BY <1>0, NewRequest DEF Plain, Kinds, WebInv
    <3> QED BY <2>1, <3>1, AskedOne DEF ClickSend, Sends
  <2>2. CASE ClickRetry
    <3>1. view.active \in ShownRuns /\ view.active.status = "completed"
      BY <1>0, <2>2 DEF ViewFits, Views, ClickRetry
    <3>2. view.active.run \in Runs
      BY <3>1 DEF ShownRuns, NoRun
    <3>3. Exists(view.active.run)
      BY <1>0, <3>2, NoneAssumption DEF ViewFits
    <3>4. /\ view.active.run.agent \in Agents /\ view.active.run.n \in Nat
          /\ view.active.run.n \in DOMAIN server[view.active.run.agent].runs
      BY <3>3, ExistsTypes DEF WebInv
    <3>5. Plain("retry", view.active.run.agent, view.active.run.n) \in News
      BY <3>4, NewRequest DEF Plain, Kinds, WebInv
    <3> QED BY <2>2, <3>5, AskedOne DEF ClickRetry, Sends
  <2>3. CASE ClickNewWorkflow
    <3>1. Plain("workflow", selected, 0) \in News
      BY <1>0, NewRequest DEF Plain, Kinds, WebInv
    <3> QED BY <2>3, <3>1, AskedOne DEF ClickNewWorkflow, Sends
  <2>4. CASE ClickRevoke
    <3>1. Issued(view.mandate)
      BY <1>0, <2>4 DEF ViewFits, ClickRevoke
    <3>2. /\ view.mandate.agent \in Agents /\ view.mandate.workflow \in Nat
          /\ view.mandate.workflow \in DOMAIN server[view.mandate.agent].mandates
      BY <3>1 DEF Issued, Mandates
    <3>3. Request("revoke", view.mandate.agent, view.mandate.workflow, "revoke", None) \in News
      BY <3>2, NewRequest DEF Kinds, WebInv
    <3> QED BY <2>4, <3>3, AskedOne DEF ClickRevoke, Sends
  <2> QED BY <2>1, <2>2, <2>3, <2>4
<1>2. /\ UNCHANGED <<server, selected, view, known, loops, astray, overtaken,
                       selects, failures>>
      /\ clicks' \in Nat /\ busy' \in BOOLEAN /\ revoking' \in BOOLEAN
  <2>1. /\ UNCHANGED <<server, selected, view, known, loops, astray, overtaken,
                       selects, failures>>
        /\ clicks' = clicks + 1
        /\ busy' = busy \/ busy' = TRUE
        /\ revoking' = revoking \/ revoking' = TRUE
    BY DEF ClickSend, ClickRetry, ClickNewWorkflow, ClickRevoke, Click, controls
  <2>2. clicks' \in Nat
    BY <2>1 DEF WebInv, PageFits
  <2>3. busy \in BOOLEAN /\ revoking \in BOOLEAN
    BY DEF WebInv, PageFits
  <2>4. busy' \in BOOLEAN /\ revoking' \in BOOLEAN
    BY <2>1, <2>3
  <2> QED BY <2>1, <2>2, <2>4
<1>3. PageFits'
  BY <1>2, ViewKept, LoopsKept DEF WebInv, PageFits
<1>4. Heard'
  BY <1>1, <1>2, HeardAsked DEF WebInv, MandateKept, Spared
<1> QED BY <1>1, <1>2, <1>3, <1>4, AskingKeeps

(* After a change of the selection the mandate is read again.              *)
LEMMA SelectKeeps ==
    ASSUME WebInv, NEW a \in Agents, Select(a)
    PROVE  WebInv'
<1>1. PICK runs, mandate \in News :
        runs = Plain("runs", a, 0) /\ mandate = Plain("mandate", a, 0)
  BY NewRequest DEF Plain, Kinds, WebInv
<1>2. PICK added \in Seq(News) : added = <<runs, mandate>>
  <2>1. <<runs, mandate>> \in Seq(News)
    BY <1>1
  <2> QED BY <2>1
<1>3. net' = added \o net
  BY <1>1, <1>2 DEF Select
<1>4. Asked
  BY <1>3, AskedBy DEF WebInv
<1>5. PageFits'
  <2>1. ViewFits' /\ LoopsFit'
    BY NothingFits, LoopsKept DEF Select
  <2>2. /\ selected' \in Agents /\ UNCHANGED <<known, busy, revoking, overtaken, clicks, failures>>
        /\ astray' = FALSE /\ selects' = selects + 1
    BY DEF Select, controls
  <2>3. /\ known \subseteq Agents /\ busy \in BOOLEAN /\ revoking \in BOOLEAN
        /\ overtaken \in BOOLEAN
        /\ clicks \in Nat /\ selects \in Nat /\ failures \in Nat
    BY DEF WebInv, PageFits
  <2>4. astray' \in BOOLEAN
    BY <2>2
  <2>5. selects' \in Nat
    BY <2>2, <2>3
  <2> QED BY <2>1, <2>2, <2>3, <2>4, <2>5 DEF PageFits
<1>6. 2 \in DOMAIN net' /\ net'[2] = mandate
  <2>1. added \in Seq(Requests) /\ net \in Seq(Requests)
    BY DEF News, WebInv, NetFits
  <2>2. Len(added) = 2 /\ added[2] = mandate
    BY <1>2
  <2>3. PICK l \in Nat : l = Len(net)
    BY <2>1
  <2>4. /\ net' \in Seq(Requests) /\ Len(net') = 2 + l
        /\ \A k \in 1..(2 + l) :
              net'[k] = IF k <= 2 THEN added[k] ELSE net[k - 2]
    <3>1. /\ net' \in Seq(Requests) /\ Len(net') = Len(added) + Len(net)
          /\ \A k \in 1..(Len(added) + Len(net)) :
                net'[k] = IF k <= Len(added) THEN added[k] ELSE net[k - Len(added)]
      BY <1>3, <2>1, ConcatProperties
    <3> QED BY <2>2, <2>3, <3>1
  <2>5. 2 \in 1..(2 + l)
    OBVIOUS
  <2> QED BY <2>2, <2>4, <2>5
<1>7. Heard'
  <2>1. mandate.kind = "mandate" /\ mandate.agent = a /\ ~mandate.answered
    BY <1>1 DEF Plain, Request
  <2>2. selected' = a
    BY DEF Select
  <2> QED BY <1>6, <2>1, <2>2, HeardRevoke
<1> QED BY <1>4, <1>5, <1>7, AskingKeeps DEF Select

LEMMA PollKeeps ==
    ASSUME WebInv, NEW i \in DOMAIN loops, PollTick(i) \/ PollEnds(i)
    PROVE  WebInv'
<1>1. Exists(loops[i].run) /\ LoopsFit
  BY DEF WebInv, PageFits, LoopsFit
<1>2. Asked /\ LoopsFit' /\ busy' \in BOOLEAN
  <2>1. CASE PollTick(i)
    <3>1. PICK run : run = loops[i].run
      OBVIOUS
    <3>2. /\ run.agent \in Agents /\ run.n \in Nat /\ run \in Runs
          /\ run.n \in DOMAIN server[run.agent].runs
      BY <1>1, <3>1, ExistsTypes DEF WebInv
    <3>3. Request("run", run.agent, run.n, "nobody", run) \in News
      BY <3>2, NewRequest DEF Kinds, WebInv
    <3>4. Asked
      BY <2>1, <3>1, <3>3, AskedOne DEF PollTick, Sends
    <3>5. LoopsFit'
      BY <1>1, <2>1, PhaseFits DEF PollTick
    <3> QED BY <2>1, <3>4, <3>5 DEF PollTick, controls, WebInv, PageFits
  <2>2. CASE PollEnds(i)
    <3>1. Asked
      BY <2>2, AskedNothing DEF PollEnds
    <3>2. LoopsFit'
      BY <1>1, <2>2, LoopRemoved DEF PollEnds
    <3> QED BY <2>2, <3>1, <3>2 DEF PollEnds, WebInv, PageFits
  <2> QED BY <2>1, <2>2
<1>3. UNCHANGED <<server, selected, view, known, revoking, astray, overtaken, budget>>
  BY DEF PollTick, PollEnds, controls
<1>4. PageFits'
  BY <1>2, <1>3, ViewKept DEF WebInv, PageFits, budget
<1>5. Heard'
  BY <1>2, <1>3, HeardAsked DEF WebInv, MandateKept, Spared, budget
<1> QED BY <1>2, <1>3, <1>4, <1>5, AskingKeeps

LEMMA RevokeEndKeeps ==
    ASSUME WebInv, RevokeEnds
    PROVE  WebInv'
<1>1. Asked
  BY AskedNothing DEF RevokeEnds
<1>2. PageFits'
  BY ViewKept, LoopsKept DEF RevokeEnds, WebInv, PageFits, budget
<1>3. Heard'
  BY <1>1, HeardAsked DEF RevokeEnds, WebInv, MandateKept, Spared, budget
<1> QED BY <1>1, <1>2, <1>3, AskingKeeps DEF RevokeEnds

-----------------------------------------------------------------------------
(* The control plane: what its handlers do to the rows of an Agent.        *)
LEMMA RowsOf ==
    ASSUME ServerFits, NEW a \in Agents
    PROVE  /\ AgentFits(server[a]) /\ server[a] \in AgentRows
           /\ server[a].runs \in Seq(RunRows)
           /\ server[a].mandates \in Seq({"NONE", "ACTIVE", "REVOKED"})
           /\ Len(server[a].mandates) \in Nat /\ Len(server[a].mandates) >= 1
           /\ CurrentMandate(a) = server[a].mandates[Len(server[a].mandates)]
BY DEF ServerFits, AgentFits, AgentRows, CurrentMandate, Last

LEMMA AgentChanges ==
    ASSUME ServerFits, NEW a \in Agents, NEW x, AgentFits(x),
           DOMAIN server[a].runs \subseteq DOMAIN x.runs,
           DOMAIN server[a].mandates \subseteq DOMAIN x.mandates,
           server' = [server EXCEPT ![a] = x]
    PROVE  /\ ServerFits' /\ Grows
           /\ CurrentMandate(a)' = Last(x.mandates)
           /\ \A b \in Agents : b # a => CurrentMandate(b)' = CurrentMandate(b)
<1>1. x \in AgentRows /\ server \in [Agents -> AgentRows]
  BY DEF AgentFits, ServerFits
<1>2. /\ server' \in [Agents -> AgentRows] /\ server'[a] = x
      /\ \A b \in Agents : b # a => server'[b] = server[b]
  BY <1>1
<1>3. \A b \in Agents : AgentFits(server'[b])
  BY <1>2 DEF ServerFits
<1>4. ServerFits'
  BY <1>2, <1>3 DEF ServerFits, AgentFits
<1>5. Grows
  BY <1>2 DEF Grows
<1> QED BY <1>2, <1>4, <1>5 DEF CurrentMandate

LEMMA BegunFits ==
    ASSUME ServerFits, NEW a \in Agents, NEW retry \in BOOLEAN,
           Len(server[a].runs) < MaxRuns, NEW x, x = Begun(server[a], retry)
    PROVE  /\ AgentFits(x)
           /\ DOMAIN server[a].runs \subseteq DOMAIN x.runs
           /\ DOMAIN server[a].mandates \subseteq DOMAIN x.mandates
           /\ Len(x.runs) >= 1
           /\ Last(x.mandates) = "REVOKED" => CurrentMandate(a) = "REVOKED"
<1>1. PICK runs, mandates, w :
        runs = server[a].runs /\ mandates = server[a].mandates /\ w = Len(mandates)
  OBVIOUS
<1>2. /\ runs \in Seq(RunRows) /\ mandates \in Seq({"NONE", "ACTIVE", "REVOKED"})
      /\ w \in Nat /\ w >= 1 /\ CurrentMandate(a) = mandates[w]
      /\ Len(runs) < MaxRuns /\ MaxRuns \in Nat
      /\ \A n \in DOMAIN runs : runs[n].workflow =< w
  BY <1>1, RowsOf, WebAssumption DEF AgentFits
<1>3. PICK row : row = [status |-> "running", retry |-> retry,
                        workflow |-> IF mandates[w] = "REVOKED" THEN 0 ELSE w]
  OBVIOUS
<1>4. row \in RunRows /\ row.workflow =< w
  BY <1>2, <1>3 DEF RunRows, RunStates
<1>5. x.runs = Append(runs, row)
  BY <1>1, <1>3 DEF Begun
<1>6. x.mandates = IF mandates[w] = "REVOKED" THEN mandates
                   ELSE [mandates EXCEPT ![w] = "ACTIVE"]
  BY <1>1 DEF Begun
<1>7. /\ x.mandates \in Seq({"NONE", "ACTIVE", "REVOKED"}) /\ Len(x.mandates) = w
      /\ x.mandates[w] = "REVOKED" => mandates[w] = "REVOKED"
  BY <1>1, <1>2, <1>6
<1>8. /\ x.runs \in Seq(RunRows) /\ Len(x.runs) = Len(runs) + 1
      /\ \A n \in DOMAIN x.runs : x.runs[n] = IF n \in DOMAIN runs THEN runs[n] ELSE row
  BY <1>2, <1>4, <1>5
<1>9. x = [runs |-> x.runs, mandates |-> x.mandates]
  BY DEF Begun
<1>10. x \in AgentRows
  BY <1>7, <1>8, <1>9 DEF AgentRows
<1>11. \A n \in DOMAIN x.runs : x.runs[n].workflow =< w
  BY <1>2, <1>4, <1>8
<1>12. Len(x.runs) =< MaxRuns /\ Len(x.runs) >= 1
  BY <1>2, <1>8
<1>13. AgentFits(x)
  BY <1>2, <1>7, <1>10, <1>11, <1>12 DEF AgentFits
<1>14. DOMAIN runs \subseteq DOMAIN x.runs /\ DOMAIN mandates \subseteq DOMAIN x.mandates
  BY <1>1, <1>2, <1>7, <1>8
<1> QED BY <1>1, <1>2, <1>7, <1>12, <1>13, <1>14 DEF Last

LEMMA RevokedFits ==
    ASSUME ServerFits, NEW a \in Agents, NEW w \in DOMAIN server[a].mandates,
           NEW x, x = RevokedIn(server[a], w)
    PROVE  /\ AgentFits(x)
           /\ DOMAIN x.runs = DOMAIN server[a].runs
           /\ DOMAIN x.mandates = DOMAIN server[a].mandates
<1>1. PICK runs, mandates : runs = server[a].runs /\ mandates = server[a].mandates
  OBVIOUS
<1>2. /\ runs \in Seq(RunRows) /\ mandates \in Seq({"NONE", "ACTIVE", "REVOKED"})
      /\ Len(mandates) >= 1 /\ Len(runs) =< MaxRuns
      /\ \A n \in DOMAIN runs : runs[n].workflow =< Len(mandates)
  BY <1>1, RowsOf DEF AgentFits
<1>3. x.mandates = [mandates EXCEPT ![w] = "REVOKED"]
  BY <1>1 DEF RevokedIn
<1>4. /\ x.mandates \in Seq({"NONE", "ACTIVE", "REVOKED"}) /\ Len(x.mandates) = Len(mandates)
      /\ DOMAIN x.mandates = DOMAIN mandates
  BY <1>1, <1>2, <1>3
<1>5. x.runs = [n \in DOMAIN runs |->
                  IF runs[n].workflow = w /\ runs[n].status = "running"
                  THEN [runs[n] EXCEPT !.status = "ended"] ELSE runs[n]]
  BY <1>1 DEF RevokedIn
<1>6. ASSUME NEW n \in DOMAIN runs
      PROVE  x.runs[n] \in RunRows /\ x.runs[n].workflow = runs[n].workflow
  <2>1. PICK row \in RunRows : row = runs[n]
    BY <1>2
  <2>2. PICK ended : ended = [row EXCEPT !.status = "ended"]
    OBVIOUS
  <2>3. ended \in RunRows /\ ended.workflow = row.workflow
    BY <2>2 DEF RunRows, RunStates
  <2> QED BY <1>5, <2>1, <2>2, <2>3
<1>7. x.runs \in Seq(RunRows) /\ Len(x.runs) = Len(runs) /\ DOMAIN x.runs = DOMAIN runs
  <2>1. DOMAIN runs = 1..Len(runs) /\ Len(runs) \in Nat
    BY <1>2
  <2>2. x.runs \in [1..Len(runs) -> RunRows]
    BY <1>5, <1>6, <2>1
  <2> QED BY <1>5, <2>1, <2>2
<1>8. x = [runs |-> x.runs, mandates |-> x.mandates]
  BY DEF RevokedIn
<1>9. x \in AgentRows
  BY <1>4, <1>7, <1>8 DEF AgentRows
<1>10. \A n \in DOMAIN x.runs : x.runs[n].workflow =< Len(x.mandates)
  BY <1>2, <1>4, <1>6, <1>7
<1>11. AgentFits(x)
  BY <1>2, <1>4, <1>7, <1>9, <1>10 DEF AgentFits
<1> QED BY <1>1, <1>4, <1>7, <1>11

LEMMA RowChanges ==
    ASSUME NEW row \in AgentRows, NEW more \in Seq({"NONE", "ACTIVE", "REVOKED"})
    PROVE  /\ [row EXCEPT !.mandates = more] \in AgentRows
           /\ [row EXCEPT !.mandates = more].runs = row.runs
           /\ [row EXCEPT !.mandates = more].mandates = more
BY DEF AgentRows

LEMMA WorkflowFits ==
    ASSUME NEW row \in AgentRows, AgentFits(row)
    PROVE  \E x \in AgentRows :
              /\ x = [row EXCEPT !.mandates = Append(row.mandates, "NONE")]
              /\ AgentFits(x) /\ Last(x.mandates) = "NONE"
              /\ DOMAIN row.runs \subseteq DOMAIN x.runs
              /\ DOMAIN row.mandates \subseteq DOMAIN x.mandates
<1>1. PICK mandates \in Seq({"NONE", "ACTIVE", "REVOKED"}) : mandates = row.mandates
  BY DEF AgentRows
<1>2. PICK none \in {"NONE", "ACTIVE", "REVOKED"} : none = "NONE"
  OBVIOUS
<1>3. PICK more \in Seq({"NONE", "ACTIVE", "REVOKED"}) : more = Append(mandates, none)
  BY AppendProperties
<1>4. PICK x \in AgentRows : /\ x = [row EXCEPT !.mandates = more]
                             /\ x.runs = row.runs /\ x.mandates = more
  BY RowChanges
<1>5. PICK l \in Nat : l = Len(mandates) /\ l >= 1
  BY <1>1 DEF AgentFits
<1>6. /\ Len(more) = l + 1 /\ more[l + 1] = none
      /\ DOMAIN mandates = 1..l /\ DOMAIN more = 1..(l + 1)
  BY <1>3, <1>5
<1>7. x.runs \in Seq(RunRows)
  <2>1. x.runs = row.runs /\ row \in AgentRows
    BY <1>4
  <2> QED BY <2>1 DEF AgentRows
<1>8. \A n \in DOMAIN x.runs : x.runs[n].workflow \in Nat /\ x.runs[n].workflow =< l
  <2>1. PICK runs \in Seq(RunRows) : runs = x.runs /\ runs = row.runs
    BY <1>4, <1>7
  <2>2. ASSUME NEW n \in DOMAIN runs
        PROVE  runs[n].workflow \in Nat
    <3>1. runs[n] \in RunRows
      OBVIOUS
    <3> QED BY <3>1 DEF RunRows
  <2>3. \A n \in DOMAIN runs : runs[n].workflow =< l
    BY <1>1, <1>5, <2>1 DEF AgentFits
  <2> QED BY <2>1, <2>2, <2>3
<1>9. \A n \in DOMAIN x.runs : x.runs[n].workflow =< l + 1
  BY <1>8
<1>10. AgentFits(x)
  BY <1>4, <1>5, <1>6, <1>9 DEF AgentFits
<1>11. 1..l \subseteq 1..(l + 1)
  OBVIOUS
<1>12. Last(x.mandates) = "NONE"
  BY <1>2, <1>4, <1>6 DEF Last
<1>13. x = [row EXCEPT !.mandates = Append(row.mandates, "NONE")]
  BY <1>1, <1>2, <1>3, <1>4
<1> QED BY <1>1, <1>4, <1>6, <1>10, <1>11, <1>12, <1>13

LEMMA ServerSame ==
    ASSUME ServerFits, UNCHANGED server
    PROVE  /\ ServerFits' /\ Grows
           /\ \A b \in Agents : CurrentMandate(b)' = CurrentMandate(b)
BY DEF ServerFits, Grows, CurrentMandate

(* Only a revocation revokes the current mandate of an Agent, and a new    *)
(* workflow has one that is not revoked.                                   *)
LEMMA HandledFits ==
    ASSUME ServerFits, NEW m \in Requests, Fit(m), server' = Handled(m)
    PROVE  /\ ServerFits' /\ Grows
           /\ \A b \in Agents :
                 CurrentMandate(b)' = "REVOKED"
                 => CurrentMandate(b) = "REVOKED" \/ (m.kind = "revoke" /\ m.agent = b)
           /\ m.kind = "workflow" /\ Accepts(m) => CurrentMandate(m.agent)' # "REVOKED"
           /\ m.kind \in {"send", "retry"} /\ Accepts(m) => Len(server'[m.agent].runs) >= 1
<1>1. PICK a \in Agents : a = m.agent
  BY DEF Requests
<1>0. UNCHANGED server => ServerFits' /\ Grows
                          /\ \A b \in Agents : CurrentMandate(b)' = CurrentMandate(b)
  BY ServerSame
<1>2. CASE ~Accepts(m)
  <2>1. UNCHANGED server
    BY <1>2 DEF Handled
  <2> QED BY <1>0, <1>1, <1>2, <2>1 DEF Accepts
<1>3. CASE Accepts(m) /\ m.kind \in {"send", "retry"}
  <2>1. PICK x : x = Begun(server[a], m.kind = "retry")
    OBVIOUS
  <2>2. (m.kind = "retry") \in BOOLEAN
    OBVIOUS
  <2>3. Len(server[a].runs) < MaxRuns
    BY <1>1, <1>3 DEF Accepts
  <2>4. server' = [server EXCEPT ![a] = x]
    BY <1>1, <1>3, <2>1 DEF Handled
  <2>5. /\ AgentFits(x)
        /\ DOMAIN server[a].runs \subseteq DOMAIN x.runs
        /\ DOMAIN server[a].mandates \subseteq DOMAIN x.mandates
        /\ Len(x.runs) >= 1
        /\ Last(x.mandates) = "REVOKED" => CurrentMandate(a) = "REVOKED"
    BY <2>1, <2>2, <2>3, BegunFits
  <2>6. /\ ServerFits' /\ Grows
        /\ CurrentMandate(a)' = Last(x.mandates)
        /\ \A b \in Agents : b # a => CurrentMandate(b)' = CurrentMandate(b)
    BY <2>4, <2>5, AgentChanges
  <2>7. server'[a] = x
    BY <2>4 DEF ServerFits
  <2> QED BY <1>1, <1>3, <2>5, <2>6, <2>7
<1>4. CASE Accepts(m) /\ m.kind = "workflow"
  <2>1. PICK row \in AgentRows : row = server[a] /\ AgentFits(row)
    BY RowsOf
  <2>2. PICK x \in AgentRows :
          /\ x = [row EXCEPT !.mandates = Append(row.mandates, "NONE")]
          /\ AgentFits(x) /\ Last(x.mandates) = "NONE"
          /\ DOMAIN row.runs \subseteq DOMAIN x.runs
          /\ DOMAIN row.mandates \subseteq DOMAIN x.mandates
    BY <2>1, WorkflowFits
  <2>3. server' = [server EXCEPT ![a] = x]
    BY <1>1, <1>4, <2>1, <2>2 DEF Handled
  <2>4. /\ ServerFits' /\ Grows
        /\ CurrentMandate(a)' = "NONE"
        /\ \A b \in Agents : b # a => CurrentMandate(b)' = CurrentMandate(b)
    BY <2>1, <2>2, <2>3, AgentChanges
  <2> QED BY <1>1, <1>4, <2>4
<1>5. CASE m.kind = "revoke"
  <2>1. PICK x : x = RevokedIn(server[a], m.n)
    OBVIOUS
  <2>2. m.n \in DOMAIN server[a].mandates
    BY <1>1, <1>5 DEF Fit
  <2>3. server' = [server EXCEPT ![a] = x]
    BY <1>1, <1>5, <2>1 DEF Handled, Accepts
  <2>4. /\ AgentFits(x)
        /\ DOMAIN server[a].runs \subseteq DOMAIN x.runs
        /\ DOMAIN server[a].mandates \subseteq DOMAIN x.mandates
    BY <2>1, <2>2, RevokedFits
  <2>5. /\ ServerFits' /\ Grows
        /\ \A b \in Agents : b # a => CurrentMandate(b)' = CurrentMandate(b)
    BY <2>3, <2>4, AgentChanges
  <2> QED BY <1>1, <1>5, <2>5
<1>6. CASE Accepts(m) /\ m.kind \notin {"send", "retry", "workflow", "revoke"}
  <2>1. UNCHANGED server
    BY <1>6 DEF Handled
  <2> QED BY <1>0, <1>1, <1>6, <2>1
<1> QED BY <1>2, <1>3, <1>4, <1>5, <1>6

(* A non-empty set of positions has a greatest one, which LatestOf picks.  *)
LEMMA LeastOf ==
    ASSUME NEW S \in SUBSET Nat, S # {}
    PROVE  \E x \in S : \A y \in S : x =< y
<1>1. PICK x \in S : \A y \in S : ~(<<y, x>> \in OpToRel(<, Nat))
  BY WFMin, NatLessThanWellFounded
<1>2. ASSUME NEW y \in S
      PROVE  x =< y
  <2>1. ~(y < x)
    BY <1>1 DEF OpToRel
  <2> QED BY <2>1
<1> QED BY <1>2

LEMMA GreatestOf ==
    ASSUME NEW l \in Nat, NEW S \in SUBSET (1..l), S # {}
    PROVE  \E x \in S : \A y \in S : y =< x
<1>1. PICK Gaps : Gaps = {l - x : x \in S}
  OBVIOUS
<1>2. Gaps \in SUBSET Nat /\ Gaps # {}
  <2>1. \A x \in S : l - x \in Nat
    OBVIOUS
  <2> QED BY <1>1, <2>1
<1>3. PICK d \in Gaps : \A e \in Gaps : d =< e
  BY <1>2, LeastOf
<1>4. PICK x \in S : d = l - x
  BY <1>1
<1>5. ASSUME NEW y \in S
      PROVE  y =< x
  <2>1. l - x =< l - y
    BY <1>1, <1>3, <1>4
  <2>2. x \in Nat /\ y \in Nat
    OBVIOUS
  <2> QED BY <2>1, <2>2
<1> QED BY <1>5

LEMMA LatestIn ==
    ASSUME NEW x, AgentFits(x), NEW w
    PROVE  LatestOf(x, w) \in DOMAIN x.runs \cup {0}
<1>1. PICK l \in Nat : DOMAIN x.runs = 1..l
  BY DEF AgentFits, AgentRows
<1>2. PICK those : those = {n \in DOMAIN x.runs : x.runs[n].workflow = w}
  OBVIOUS
<1>3. LatestOf(x, w) = IF those = {} THEN 0 ELSE CHOOSE n \in those : \A m \in those : m <= n
  BY <1>2 DEF LatestOf
<1>4. CASE those # {}
  <2>1. those \in SUBSET (1..l)
    BY <1>1, <1>2
  <2>2. \E n \in those : \A m \in those : m <= n
    BY <1>4, <2>1, GreatestOf
  <2> QED BY <1>2, <1>3, <1>4, <2>2
<1> QED BY <1>3, <1>4

(* What is shown of a Run exists, and is of the Agent that was asked for.  *)
LEMMA ShownFits ==
    ASSUME NEW s, NEW a \in Agents, AgentFits(s[a]), NEW n \in DOMAIN s[a].runs \cup {0}
    PROVE  /\ Shown(s, a, n) \in ShownRuns
           /\ n = 0 => Shown(s, a, n).run = None
           /\ n # 0 => /\ Shown(s, a, n).run = RunOf(a, n) /\ RunOf(a, n) \in Runs
                       /\ RunOf(a, n).agent = a /\ RunOf(a, n).n = n
                       /\ n \in DOMAIN s[a].runs
<1>1. CASE n = 0
  BY <1>1 DEF Shown, NoRun, ShownRuns
<1>2. CASE n # 0
  <2>1. PICK runs \in Seq(RunRows) : runs = s[a].runs /\ Len(runs) =< MaxRuns
    BY DEF AgentFits, AgentRows
  <2>2. n \in DOMAIN runs
    BY <1>2, <2>1
  <2>3. n \in 1..MaxRuns
    <3>1. PICK l \in Nat : l = Len(runs) /\ l =< MaxRuns
      BY <2>1
    <3>2. n \in 1..l /\ MaxRuns \in Nat
      BY <2>2, <3>1, WebAssumption
    <3> QED BY <3>1, <3>2
  <2>4. /\ RunOf(a, n) \in Runs /\ RunOf(a, n).agent = a /\ RunOf(a, n).n = n
    BY <2>3 DEF RunOf, Runs
  <2>5. PICK row \in RunRows : row = runs[n]
    BY <2>2
  <2>6. PICK context \in BOOLEAN : context = (row.workflow # 0)
    OBVIOUS
  <2>7. Shown(s, a, n) = [run |-> RunOf(a, n), status |-> row.status, retry |-> row.retry,
                          context |-> context]
    BY <1>2, <2>1, <2>5, <2>6 DEF Shown
  <2>8. row.status \in RunStates /\ row.retry \in BOOLEAN
    BY DEF RunRows
  <2>9. Shown(s, a, n) \in ShownRuns /\ Shown(s, a, n).run = RunOf(a, n)
    BY <2>4, <2>7, <2>8 DEF ShownRuns
  <2> QED BY <1>2, <2>1, <2>2, <2>4, <2>9
<1> QED BY <1>1, <1>2

(* The answers of the control plane say what a request asks for.           *)
LEMMA AnswerSays ==
    ASSUME NEW m \in Requests, ServerFits', Accepts(m),
           m.kind # "evidence", m.kind = "run" => m.n \in DOMAIN server'[m.agent].runs,
           m.kind = "revoke" => m.n \in DOMAIN server'[m.agent].mandates,
           m.kind \in {"send", "retry"} => Len(server'[m.agent].runs) >= 1,
           NEW o, o.kind = m.kind, o.agent = m.agent, o.answer = Answer(m, server')
    PROVE  /\ Says(o)' /\ o.answer \in Answers
           /\ m.kind = "mandate" => o.answer.status = CurrentMandate(m.agent)'
<1>1. PICK a, s : a \in Agents /\ a = m.agent /\ s = server'
  BY DEF Requests
<1>2. PICK runs \in Seq(RunRows) : runs = s[a].runs
  BY <1>1 DEF ServerFits, AgentFits, AgentRows
<1>3. PICK mandates \in Seq({"NONE", "ACTIVE", "REVOKED"}) :
        mandates = s[a].mandates /\ Len(mandates) >= 1
  BY <1>1 DEF ServerFits, AgentFits, AgentRows
<1>4. AgentFits(s[a]) /\ m.kind \in Kinds /\ m.n \in Nat
  BY <1>1 DEF ServerFits, AgentFits, Requests
<1>5. PICK last \in Nat : last = Len(runs) /\ last \in DOMAIN runs \cup {0}
  BY <1>2
<1>6. ASSUME NEW n \in DOMAIN runs \cup {0}
      PROVE  /\ Shown(s, a, n) \in ShownRuns
             /\ n = 0 => Shown(s, a, n).run = None
             /\ n # 0 => /\ Exists(Shown(s, a, n).run)'
                         /\ Shown(s, a, n).run.agent = a
  BY <1>1, <1>2, <1>4, ShownFits DEF Exists
<1>7. ASSUME NEW w \in DOMAIN mandates
      PROVE  /\ Issued(MandateIn(s, a, w))' /\ MandateIn(s, a, w) \in Mandates
             /\ MandateIn(s, a, w).agent = a /\ MandateIn(s, a, w).status = mandates[w]
  <2>1. w \in Nat /\ mandates[w] \in {"NONE", "ACTIVE", "REVOKED"}
    OBVIOUS
  <2> QED BY <1>1, <1>3, <2>1 DEF MandateIn, Mandates, Issued
<1>8. CASE m.kind \in {"send", "retry", "runs"}
  <2>1. o.answer = Shown(s, a, last)
    BY <1>1, <1>2, <1>5, <1>8 DEF Answer
  <2>2. m.kind \in {"send", "retry"} => last # 0
    BY <1>1, <1>2, <1>5
  <2> QED BY <1>1, <1>5, <1>6, <1>8, <2>1, <2>2 DEF Says, Answers
<1>9. CASE m.kind = "run"
  <2>1. o.answer = Shown(s, a, m.n)
    BY <1>1, <1>9 DEF Answer
  <2>2. m.n \in DOMAIN runs /\ m.n # 0
    BY <1>1, <1>2, <1>9
  <2> QED BY <1>1, <1>6, <1>9, <2>1, <2>2 DEF Says, Answers
<1>10. CASE m.kind = "mandate"
  <2>1. PICK w \in DOMAIN mandates : w = Len(mandates)
    BY <1>3
  <2>2. o.answer = MandateIn(s, a, w)
    BY <1>1, <1>3, <1>10, <2>1 DEF Answer
  <2>3. CurrentMandate(a)' = mandates[w]
    BY <1>1, <1>3, <2>1 DEF CurrentMandate, Last
  <2> QED BY <1>1, <1>7, <1>10, <2>2, <2>3 DEF Says, Answers
<1>11. CASE m.kind = "workflow"
  <2>1. o.answer = <<>>
    BY <1>11 DEF Answer
  <2> QED BY <1>11, <2>1 DEF Says, Answers
<1>12. CASE m.kind = "revoke"
  <2>1. PICK latest \in DOMAIN runs \cup {0} : latest = LatestOf(s[a], m.n)
    BY <1>2, <1>4, LatestIn
  <2>2. m.n \in DOMAIN mandates
    BY <1>1, <1>3, <1>12
  <2>3. o.answer = [mandate |-> MandateIn(s, a, m.n), active |-> Shown(s, a, latest)]
    BY <1>1, <1>12, <2>1 DEF Answer
  <2>4. /\ Issued(MandateIn(s, a, m.n))' /\ MandateIn(s, a, m.n) \in Mandates
        /\ Shown(s, a, latest) \in ShownRuns
    BY <1>6, <1>7, <2>1, <2>2
  <2>5. /\ o.answer.mandate = MandateIn(s, a, m.n) /\ o.answer.active = Shown(s, a, latest)
        /\ o.answer \in [mandate : Mandates, active : ShownRuns]
    BY <2>3, <2>4
  <2>6. \/ o.answer.active.run = None
        \/ Exists(o.answer.active.run)' /\ o.answer.active.run.agent = a
    BY <1>6, <2>1, <2>5
  <2> QED BY <1>1, <1>12, <2>4, <2>5, <2>6 DEF Says, Answers
<1>13. CASE m.kind = "agents"
  <2>1. o.answer \in SUBSET Agents
    BY <1>13 DEF Answer
  <2> QED BY <1>13, <2>1 DEF Says, Answers
<1> QED BY <1>4, <1>8, <1>9, <1>10, <1>11, <1>12, <1>13 DEF Kinds

LEMMA AcceptsIs ==
    ASSUME NEW m
    PROVE  /\ Accepts(m) \in BOOLEAN
           /\ m.kind \notin {"send", "retry", "workflow"} => Accepts(m)
<1>1. CASE m.kind = "send"
  BY <1>1 DEF Accepts, Executing
<1>2. CASE m.kind = "retry"
  BY <1>2 DEF Accepts, Executing
<1>3. CASE m.kind = "workflow"
  BY <1>3 DEF Accepts, Executing
<1>4. CASE m.kind \notin {"send", "retry", "workflow"}
  BY <1>4 DEF Accepts
<1> QED BY <1>1, <1>2, <1>3, <1>4

(* The request at i is answered: o is what it becomes.                     *)
AnswersWith(i, m, o) ==
    /\ i \in DOMAIN net /\ m = net[i] /\ m \in Requests
    /\ server' = Handled(m)
    /\ net' = IF Changes(m) = {} THEN [net EXCEPT ![i] = o] ELSE Append(RemoveAt(net, i), o)
    /\ o \in Requests /\ o.kind = m.kind /\ o.agent = m.agent /\ o.answered
    /\ o.ok = Accepts(m)
    /\ m.kind = "mandate" => o.answer.status = CurrentMandate(m.agent)'

LEMMA AnswerFits ==
    ASSUME ServerFits, NetFits, NEW i \in DOMAIN net, ~net[i].answered,
           server' = Handled(net[i]),
           net' = IF Changes(net[i]) = {} THEN [net EXCEPT ![i] = Answered(net[i])]
                  ELSE Append(RemoveAt(net, i), Answered(net[i]))
    PROVE  \E m, o : AnswersWith(i, m, o) /\ Fit(o)'
<1>1. PICK m \in Requests : m = net[i] /\ Fit(m)
  BY Handles
<1>2. PICK answer : answer = IF Accepts(m) THEN Answer(m, server') ELSE <<>>
  OBVIOUS
<1>3. PICK ok \in BOOLEAN : ok = Accepts(m)
  BY AcceptsIs
<1>4. PICK o : o = [m EXCEPT !.answered = TRUE, !.ok = ok, !.answer = answer]
  OBVIOUS
<1>5. /\ o.kind = m.kind /\ o.agent = m.agent /\ o.n = m.n /\ o.by = m.by
      /\ o.answered = TRUE /\ o.ok = ok /\ o.answer = answer
  BY <1>4 DEF Requests
<1>6. o = Answered(m)
  BY <1>2, <1>3, <1>4 DEF Answered
<1>7. /\ ServerFits' /\ Grows
      /\ m.kind \in {"send", "retry"} /\ Accepts(m) => Len(server'[m.agent].runs) >= 1
  BY <1>1, HandledFits
<1>8. Fit(m)' /\ m.kind # "evidence"
  BY <1>1, <1>7, FitKept DEF Fit
<1>9. Accepts(m) => /\ Says(o)' /\ answer \in Answers
                    /\ m.kind = "mandate" => answer.status = CurrentMandate(m.agent)'
  BY <1>2, <1>5, <1>7, <1>8, AnswerSays DEF Fit
<1>10. answer \in Answers
  <2>1. <<>> \in Answers
    BY DEF Answers
  <2> QED BY <1>2, <1>9, <2>1
<1>11. o \in Requests
  BY <1>4, <1>10 DEF Requests
<1>12. m.kind \notin {"send", "retry", "workflow"} => ok
  BY <1>3, AcceptsIs
<1>13. Fit(o)'
  BY <1>3, <1>5, <1>8, <1>9, <1>11, <1>12 DEF Fit
<1>14. m.kind = "mandate" => answer.status = CurrentMandate(m.agent)'
  BY <1>3, <1>9, <1>12
<1>15. AnswersWith(i, m, o)
  BY <1>1, <1>3, <1>5, <1>6, <1>11, <1>14 DEF AnswersWith
<1> QED BY <1>13, <1>15

Comes(m, o) ==
    \E k \in DOMAIN net' : net'[k] = o /\ (m.kind = "mandate" => k = Len(net'))

LEMMA AnswerSettles ==
    ASSUME NetFits, NEW i, NEW m, NEW o, AnswersWith(i, m, o)
    PROVE  Settled(i, {o}) /\ Comes(m, o)
<1>1. i \in DOMAIN net /\ o \in Requests
  BY DEF AnswersWith
<1>2. CASE Changes(m) = {}
  <2>1. net' = [net EXCEPT ![i] = o] /\ m.kind # "mandate"
    BY <1>2 DEF AnswersWith, Changes
  <2> QED BY <1>1, <2>1, SettledInPlace DEF Comes
<1>3. CASE Changes(m) # {}
  <2>1. net' = Append(RemoveAt(net, i), o)
    BY <1>3 DEF AnswersWith
  <2> QED BY <1>1, <2>1, SettledLast DEF Comes
<1> QED BY <1>2, <1>3

(* A revocation that has just been made has still to be heard of; a read   *)
(* that is answered after it says so, and nothing was answered after that. *)
LEMMA HeardAnswered ==
    ASSUME ServerFits, NetFits, Heard, selected \in Agents,
           NEW i, NEW m, NEW o, AnswersWith(i, m, o),
           UNCHANGED <<selected, view, astray, overtaken, failures>>
    PROVE  Heard'
<1> SUFFICES ASSUME Spared, CurrentMandate(selected)' = "REVOKED"
             PROVE  Hears'
  BY DEF Heard, Spared
<1>1. /\ m \in Requests /\ Fit(m) /\ server' = Handled(m) /\ i \in DOMAIN net /\ m = net[i]
      /\ o.kind = m.kind /\ o.agent = m.agent /\ o.answered /\ o.ok = Accepts(m)
      /\ m.kind = "mandate" => o.answer.status = CurrentMandate(m.agent)'
  BY Handles DEF AnswersWith
<1>2. PICK a \in Agents : a = selected /\ CurrentMandate(a)' = "REVOKED" /\ selected' = a
  BY DEF CurrentMandate
<1>3. PICK k \in DOMAIN net' : net'[k] = o /\ (m.kind = "mandate" => k = Len(net'))
  <2>1. Comes(m, o)
    BY AnswerSettles
  <2> QED BY <2>1 DEF Comes
<1>4. CASE m.kind = "revoke" /\ m.agent = a
  <2>1. Tells(k)'
    BY <1>1, <1>2, <1>3, <1>4 DEF Tells
  <2> QED BY <2>1 DEF Hears
<1>5. CASE m.kind = "mandate" /\ m.agent = a
  <2>1. o.answer.status = "REVOKED" /\ k = Len(net')
    BY <1>1, <1>2, <1>3, <1>5
  <2>2. net' \in Seq(Requests)
    BY AnswerSettles DEF Settled
  <2>3. QuietAfter(k)'
    BY <2>1, <2>2 DEF QuietAfter
  <2>4. Tells(k)'
    BY <1>1, <1>2, <1>3, <1>5, <2>1, <2>3 DEF Tells, AsksMandate
  <2> QED BY <2>4 DEF Hears
<1>6. CASE ~ (m.kind \in {"revoke", "mandate"} /\ m.agent = a)
  <2>1. CurrentMandate(a) = "REVOKED"
    BY <1>1, <1>2, <1>6, HandledFits
  <2>2. Hears /\ ~Tells(i)
    BY <1>1, <1>2, <1>6, <2>1 DEF Heard, Tells, AsksMandate
  <2>3. ~ (m.kind = "workflow" /\ m.agent = a /\ Accepts(m))
    BY <1>1, <1>2, HandledFits
  <2>4. ~Spoils(o)
    BY <1>1, <1>2, <1>6, <2>3 DEF Spoils
  <2>5. \A x \in {o} : ~Spoils(x)
    BY <2>4
  <2>6. Settled(i, {o}) /\ selected' = selected /\ view'.mandate = view.mandate
    BY <1>2, AnswerSettles
  <2> QED BY <2>2, <2>5, <2>6, StillHears
<1> QED BY <1>4, <1>5, <1>6

(* The page does not change while the control plane acts.                  *)
LEMMA PageUnchanged ==
    ASSUME PageFits, Grows, UNCHANGED <<selected, view, controls, loops, astray, overtaken, budget>>
    PROVE  PageFits'
<1>1. \A run : Exists(run) => Exists(run)'
  BY ExistsKept
<1>2. \A x : Issued(x) => Issued(x)'
  BY ExistsKept
<1>3. ViewFits'
  BY <1>1, <1>2 DEF PageFits, ViewFits
<1>4. LoopsFit'
  BY <1>1 DEF PageFits, LoopsFit
<1> QED BY <1>3, <1>4 DEF PageFits, controls, budget

LEMMA AnswerKeeps ==
    ASSUME WebInv, ServerAnswers
    PROVE  WebInv'
<1>1. PICK i, m, o : AnswersWith(i, m, o) /\ Fit(o)'
  BY AnswerFits DEF WebInv, ServerAnswers
<1>2. m \in Requests /\ Fit(m) /\ server' = Handled(m)
  BY <1>1, Handles DEF AnswersWith, WebInv
<1>3. ServerFits' /\ Grows
  BY <1>2, HandledFits DEF WebInv
<1>4. NetFits'
  <2>1. Settled(i, {o}) /\ \A x \in {o} : Fit(x)'
    BY <1>1, AnswerSettles DEF WebInv
  <2> QED BY <1>3, <2>1, NetFitsSettled DEF WebInv
<1>5. UNCHANGED <<selected, view, controls, loops, astray, overtaken, budget>>
  BY DEF ServerAnswers
<1>6. PageFits'
  BY <1>3, <1>5, PageUnchanged DEF WebInv
<1>7. Heard'
  BY <1>1, <1>5, HeardAnswered DEF WebInv, PageFits, budget
<1> QED BY <1>3, <1>4, <1>6, <1>7 DEF WebInv

(* A Run ends: no mandate changes, and no request.                         *)
EndedIn(row, n, status) ==
    [row EXCEPT !.runs = [row.runs EXCEPT ![n] = [row.runs[n] EXCEPT !.status = status]]]

LEMMA RunEnded ==
    ASSUME NEW row \in AgentRows, AgentFits(row), NEW n \in DOMAIN row.runs,
           NEW status \in RunStates, NEW x, x = EndedIn(row, n, status)
    PROVE  AgentFits(x) /\ x.mandates = row.mandates /\ DOMAIN x.runs = DOMAIN row.runs
<1>1. PICK runs \in Seq(RunRows) : runs = row.runs
  BY DEF AgentRows
<1>2. PICK run \in RunRows : run = runs[n]
  BY <1>1
<1>3. PICK ended : ended = [run EXCEPT !.status = status]
  OBVIOUS
<1>4. ended \in RunRows /\ ended.workflow = run.workflow
  BY <1>3 DEF RunRows
<1>5. PICK after : after = [runs EXCEPT ![n] = ended]
  OBVIOUS
<1>6. /\ after \in Seq(RunRows) /\ DOMAIN after = DOMAIN runs /\ Len(after) = Len(runs)
      /\ \A k \in DOMAIN runs : after[k].workflow = runs[k].workflow
  BY <1>1, <1>2, <1>4, <1>5
<1>7. x = [row EXCEPT !.runs = after]
  BY <1>1, <1>2, <1>3, <1>5 DEF EndedIn
<1>8. x \in AgentRows /\ x.runs = after /\ x.mandates = row.mandates
  BY <1>6, <1>7 DEF AgentRows
<1>9. AgentFits(x)
  BY <1>1, <1>6, <1>8 DEF AgentFits
<1> QED BY <1>1, <1>6, <1>8, <1>9

LEMMA MandatesSame ==
    ASSUME PageFits, Heard,
           \A b \in Agents : CurrentMandate(b)' = CurrentMandate(b),
           UNCHANGED <<net, selected, view, astray, overtaken, failures>>
    PROVE  Heard'
<1>1. Hears => Hears'
  BY DEF Hears, Tells, AsksMandate, QuietAfter, Spoils, Locked
<1>2. CurrentMandate(selected)' = "REVOKED" => CurrentMandate(selected) = "REVOKED"
  <2>1. PICK a \in Agents : a = selected
    BY DEF PageFits
  <2>2. CurrentMandate(selected)' = CurrentMandate(a)'
    BY <2>1 DEF CurrentMandate
  <2> QED BY <2>1, <2>2
<1> QED BY <1>1, <1>2 DEF Heard, Spared

LEMMA EndKeeps ==
    ASSUME WebInv, NEW a \in Agents, ServerEndsRun(a)
    PROVE  WebInv'
<1>1. PICK row \in AgentRows : row = server[a] /\ AgentFits(row)
  BY RowsOf DEF WebInv
<1>2. PICK n \in DOMAIN row.runs, status \in RunStates :
        server' = [server EXCEPT ![a] = EndedIn(row, n, status)]
  <2>1. PICK n \in DOMAIN server[a].runs :
          server' = [server EXCEPT ![a].runs[n].status =
                       IF server[a].runs[n].workflow = 0 THEN "ended" ELSE "completed"]
    BY DEF ServerEndsRun
  <2>2. PICK status \in RunStates :
          status = IF server[a].runs[n].workflow = 0 THEN "ended" ELSE "completed"
    BY DEF RunStates
  <2> QED BY <1>1, <2>1, <2>2 DEF EndedIn
<1>3. PICK x : x = EndedIn(row, n, status)
  OBVIOUS
<1>4. /\ server' = [server EXCEPT ![a] = x]
      /\ AgentFits(x) /\ x.mandates = row.mandates /\ DOMAIN x.runs = DOMAIN row.runs
  BY <1>1, <1>2, <1>3, RunEnded
<1>5. /\ ServerFits' /\ Grows
      /\ \A b \in Agents : CurrentMandate(b)' = CurrentMandate(b)
  <2>1. /\ ServerFits' /\ Grows
        /\ CurrentMandate(a)' = Last(x.mandates)
        /\ \A b \in Agents : b # a => CurrentMandate(b)' = CurrentMandate(b)
    BY <1>1, <1>4, AgentChanges DEF WebInv
  <2>2. CurrentMandate(a)' = CurrentMandate(a)
    BY <1>1, <1>4, <2>1 DEF CurrentMandate
  <2> QED BY <2>1, <2>2
<1>6. UNCHANGED <<selected, view, controls, loops, net, astray, overtaken, budget>>
  BY DEF ServerEndsRun
<1>7. NetFits'
  BY <1>5, <1>6, FitKept DEF WebInv, NetFits
<1>8. PageFits'
  BY <1>5, <1>6, PageUnchanged DEF WebInv
<1>9. Heard'
  BY <1>5, <1>6, MandatesSame DEF WebInv, budget
<1> QED BY <1>5, <1>7, <1>8, <1>9 DEF WebInv

LEMMA NothingKeeps ==
    ASSUME WebInv, UNCHANGED webVars
    PROVE  WebInv'
<1>1. PageFits'
  BY ViewKept, LoopsKept DEF webVars, WebInv, PageFits
<1>2. Asked
  BY AskedNothing DEF webVars
<1>3. Heard'
  BY <1>2, HeardAsked DEF webVars, WebInv, MandateKept, Spared
<1> QED BY <1>1, <1>2, <1>3, AskingKeeps DEF webVars

LEMMA WebStep ==
    ASSUME WebInv, [WebNext]_webVars
    PROVE  WebInv'
<1>1. CASE ServerAnswers
  BY <1>1, AnswerKeeps
<1>2. CASE ResponseArrives
  BY <1>2, ResponseKeeps
<1>3. CASE RequestBreaks
  BY <1>3, BreakKeeps
<1>4. CASE RevokeEnds
  BY <1>4, RevokeEndKeeps
<1>5. ASSUME NEW a \in Agents, ServerEndsRun(a) \/ Select(a)
      PROVE  WebInv'
  BY <1>5, EndKeeps, SelectKeeps
<1>6. ASSUME NEW i \in DOMAIN loops, PollTick(i) \/ PollEnds(i)
      PROVE  WebInv'
  BY <1>6, PollKeeps
<1>7. CASE ClickSend \/ ClickRetry \/ ClickNewWorkflow \/ ClickRevoke
  BY <1>7, ClickKeeps
<1>8. CASE UNCHANGED webVars
  BY <1>8, NothingKeeps
<1> QED BY <1>1, <1>2, <1>3, <1>4, <1>5, <1>6, <1>7, <1>8 DEF WebNext

LEMMA WebStart ==
    ASSUME WebInit
    PROVE  WebInv
<1>1. selected \in Agents
  BY WebAssumption DEF WebInit
<1>2. PICK row \in AgentRows :
        /\ row = [runs |-> <<[status |-> "completed", retry |-> FALSE, workflow |-> 1]>>,
                  mandates |-> <<"ACTIVE">>]
        /\ AgentFits(row) /\ Last(row.mandates) = "ACTIVE"
  <2>1. PICK run : run = [status |-> "completed", retry |-> FALSE, workflow |-> 1]
    OBVIOUS
  <2>2. run \in RunRows /\ run.workflow = 1
    BY <2>1 DEF RunRows, RunStates
  <2>3. PICK active \in {"NONE", "ACTIVE", "REVOKED"} : active = "ACTIVE"
    OBVIOUS
  <2>4. PICK runs : runs = <<run>>
    OBVIOUS
  <2>5. runs \in Seq(RunRows) /\ Len(runs) = 1 /\ DOMAIN runs = 1..1 /\ runs[1] = run
    BY <2>2, <2>4
  <2>6. PICK mandates : mandates = <<active>>
    OBVIOUS
  <2>7. /\ mandates \in Seq({"NONE", "ACTIVE", "REVOKED"})
        /\ Len(mandates) = 1 /\ mandates[1] = active
    BY <2>6
  <2>8. PICK row : row = [runs |-> runs, mandates |-> mandates]
    OBVIOUS
  <2>9. row \in AgentRows /\ row.runs = runs /\ row.mandates = mandates
    BY <2>5, <2>7, <2>8 DEF AgentRows
  <2>10. AgentFits(row)
    <3>1. Len(row.runs) = 1 /\ Len(row.mandates) = 1 /\ DOMAIN row.runs = 1..1 /\ row.runs[1] = run
      BY <2>5, <2>7, <2>9, Zenon
    <3>2. \A n \in DOMAIN row.runs : row.runs[n].workflow =< Len(row.mandates)
      <4>1. \A n \in 1..1 : n = 1
        OBVIOUS
      <4> QED BY <2>2, <3>1, <4>1
    <3>3. Len(row.runs) =< MaxRuns /\ Len(row.mandates) >= 1
      BY <3>1, WebAssumption
    <3> QED BY <2>9, <3>2, <3>3 DEF AgentFits
  <2>11. Last(row.mandates) = "ACTIVE"
    BY <2>3, <2>7, <2>9 DEF Last
  <2> QED BY <2>1, <2>3, <2>4, <2>6, <2>8, <2>9, <2>10, <2>11
<1>3. server = [a \in Agents |-> row]
  BY <1>2 DEF WebInit
<1>4. ServerFits /\ \A a \in Agents : CurrentMandate(a) = "ACTIVE"
  BY <1>2, <1>3 DEF ServerFits, CurrentMandate
<1>5. PICK runs, mandate \in News :
        runs = Plain("runs", selected, 0) /\ mandate = Plain("mandate", selected, 0)
  BY <1>1, <1>4, NewRequest DEF Plain, Kinds
<1>6. net = <<runs, mandate>>
  BY <1>5 DEF WebInit
<1>7. /\ net \in Seq(Requests) /\ DOMAIN net = 1..2
      /\ \A i \in DOMAIN net : net[i] \in News
  <2>1. runs \in Requests /\ mandate \in Requests
    BY DEF News
  <2>2. net \in Seq(Requests) /\ DOMAIN net = 1..2 /\ net[1] = runs /\ net[2] = mandate
    BY <1>6, <2>1
  <2> QED BY <2>2
<1>8. NetFits
  BY <1>7 DEF NetFits, News
<1>9. ViewFits /\ LoopsFit
  <2>1. NoRun \in ShownRuns /\ NoRun.run = None
    BY DEF NoRun, ShownRuns
  <2>2. view = [active |-> NoRun, evidence |-> None, mandate |-> None]
    BY DEF WebInit, NothingShown
  <2>3. ViewFits
    BY <2>1, <2>2 DEF ViewFits, Views
  <2>4. loops = <<>> /\ DOMAIN loops = {}
    BY DEF WebInit
  <2> QED BY <2>3, <2>4 DEF LoopsFit
<1>10. PageFits
  BY <1>1, <1>9 DEF PageFits, WebInit
<1>11. Heard
  BY <1>1, <1>4 DEF Heard
<1> QED BY <1>4, <1>8, <1>10, <1>11 DEF WebInv

-----------------------------------------------------------------------------
(* What a request is about, what the page may show and what is still to be *)
(* heard of are kept by every step of App.tsx and of the control plane     *)
(* that answers it.                                                        *)
THEOREM WebInductiveInvariant == WebSpec => []WebInv
<1>1. WebInit => WebInv
  BY WebStart
<1>2. WebInv /\ [WebNext]_webVars => WebInv'
  BY WebStep
<1> QED BY <1>1, <1>2, PTL DEF WebSpec

(* App.tsx's state is well typed, the mandate that it shows exists, and a  *)
(* Run has at most one polling loop (pollingRunIds).                       *)
THEOREM WebTypeCorrect == WebSpec => []WebTypeOK
<1>1. WebInv => WebTypeOK
  <2> SUFFICES ASSUME WebInv
               PROVE  WebTypeOK
    OBVIOUS
  <2>1. /\ selected \in Agents /\ known \subseteq Agents /\ view \in Views
        /\ view.mandate # None => Issued(view.mandate)
        /\ \A i, j \in DOMAIN loops : loops[i].run = loops[j].run => i = j
    BY DEF WebInv, PageFits, ViewFits, LoopsFit
  <2>2. view.active \in ShownRuns /\ view.evidence \in Runs \cup {None}
    BY <2>1 DEF Views
  <2>3. view.active.run \in Runs \cup {None} /\ view.active.status \in RunStates
    BY <2>2 DEF ShownRuns, NoRun, RunStates
  <2>4. view.mandate # None => /\ view.mandate.agent \in Agents
                               /\ view.mandate.workflow \in DOMAIN server[view.mandate.agent].mandates
    BY <2>1 DEF Issued, Mandates
  <2> QED BY <2>1, <2>2, <2>3, <2>4 DEF WebTypeOK
<1> QED BY <1>1, WebInductiveInvariant, PTL

(* The evidence that is shown is that of the selected Agent, in whatever   *)
(* order the responses of refreshEvidence arrive.                          *)
THEOREM EvidenceStaysWithSelection == WebSpec => []EvidenceOfSelection
<1>1. WebInv => EvidenceOfSelection
  BY DEF WebInv, PageFits, ViewFits, EvidenceOfSelection
<1> QED BY <1>1, WebInductiveInvariant, PTL

(* When nothing is on its way any more, a page that no failure, no stray   *)
(* answer and no answer out of its order has touched has locked Send and   *)
(* Retry (App.tsx's mandateRevoked) if the current mandate of the selected *)
(* Agent is revoked.                                                       *)
THEOREM PageHearsOfRevocation == WebSpec => []BlockedUnlessMisled
<1>1. WebInv => BlockedUnlessMisled
  <2> SUFFICES ASSUME WebInv, HeardRevocation, ~astray, ~overtaken
               PROVE  Locked
    BY DEF BlockedUnlessMisled
  <2>1. Hears /\ net = <<>>
    BY DEF WebInv, Heard, Spared, HeardRevocation
  <2>2. DOMAIN net = {}
    BY <2>1
  <2> QED BY <2>1, <2>2 DEF Hears
<1> QED BY <1>1, WebInductiveInvariant, PTL
=============================================================================
