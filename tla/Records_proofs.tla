---------------------------- MODULE Records_proofs ----------------------------
(***************************************************************************)
(* Theorems of modules Records and JsonStore: the store implements the     *)
(* promise of DurableStore, and what the rows, the directories and the     *)
(* progress of a Run promise each other, through overlapping requests,     *)
(* crashes and failed writes.                                              *)
(*                                                                         *)
(* The invariant has two halves.  StoreInv says what the queue, the copies *)
(* in memory and the file have to do with each other; every action is, to  *)
(* the store, one of the disjuncts of StoreStep, and the lemmas on these   *)
(* say what each does.  Together says who waits for which queued job, and  *)
(* what the rows can hold at each stage of a request and of the Run; the   *)
(* job that a rename puts into effect is known by its owner.               *)
(***************************************************************************)
EXTENDS Records, SequenceTheorems, TLAPS

-----------------------------------------------------------------------------
(* Sequences by their elements.                                            *)

(* Appending adds one element.                                              *)
LEMMA RangeOfAppend ==
    ASSUME NEW S, NEW s \in Seq(S), NEW e \in S
    PROVE  Range(Append(s, e)) = Range(s) \cup {e}
<1>1. /\ Len(Append(s, e)) = Len(s) + 1 /\ Len(s) \in Nat
      /\ DOMAIN s = 1..Len(s) /\ DOMAIN Append(s, e) = 1..Len(s) + 1
      /\ \A i \in 1..Len(s) : Append(s, e)[i] = s[i]
      /\ Append(s, e)[Len(s) + 1] = e
  BY AppendProperties, LenProperties
<1>2. \A x \in Range(Append(s, e)) : x \in Range(s) \cup {e}
  BY <1>1 DEF Range
<1>3. \A x \in Range(s) : x \in Range(Append(s, e))
  BY <1>1 DEF Range
<1>4. e \in Range(Append(s, e))
  BY <1>1 DEF Range
<1> QED BY <1>2, <1>3, <1>4

(* The head and what follows it.                                            *)
LEMMA RangeOfTail ==
    ASSUME NEW S, NEW s \in Seq(S), s # <<>>
    PROVE  /\ Head(s) = s[1] /\ Head(s) \in Range(s)
           /\ Range(s) = {Head(s)} \cup Range(Tail(s))
           /\ \A x \in Range(Tail(s)) : \E i \in 2..Len(s) : x = s[i]
<1>1. /\ Len(s) \in Nat \ {0} /\ DOMAIN s = 1..Len(s)
      /\ Head(s) = s[1] /\ Len(Tail(s)) = Len(s) - 1 /\ Tail(s) \in Seq(S)
      /\ \A i \in 1..Len(s) - 1 : Tail(s)[i] = s[i + 1]
  BY HeadTailProperties, LenProperties, EmptySeq
<1>2. DOMAIN Tail(s) = 1..Len(s) - 1
  BY <1>1, LenProperties
<1>3. Head(s) \in Range(s)
  BY <1>1 DEF Range
<1>4. \A x \in Range(Tail(s)) : x \in Range(s) /\ \E i \in 2..Len(s) : x = s[i]
  <2>1. ASSUME NEW i \in 1..Len(s) - 1
        PROVE  i + 1 \in 2..Len(s) /\ i + 1 \in 1..Len(s) /\ Tail(s)[i] = s[i + 1]
    BY <1>1
  <2> QED BY <1>1, <1>2, <2>1 DEF Range
<1>5. ASSUME NEW i \in 1..Len(s) PROVE s[i] = Head(s) \/ s[i] \in Range(Tail(s))
  <2>1. CASE i = 1
    BY <1>1, <2>1
  <2>2. CASE i # 1
    <3>1. i - 1 \in 1..Len(s) - 1 /\ (i - 1) + 1 = i
      BY <1>1, <2>2
    <3> QED BY <1>1, <1>2, <3>1 DEF Range
  <2> QED BY <2>1, <2>2
<1>6. \A x \in Range(s) : x \in {Head(s)} \cup Range(Tail(s))
  BY <1>1, <1>5 DEF Range
<1> QED BY <1>1, <1>3, <1>4, <1>6

-----------------------------------------------------------------------------
(* The inductive invariant.                                                *)

Live == process \in {"recovering", "up"}
Queued == Range(queue)
InEffect(j) == \E n \in DOMAIN Durable : Durable[n] = j
Stamped(db) == [db EXCEPT !.applied = Append(@, Job.id)]

(* A window on consecutive entries, with a terminal one only at its end.    *)
Window(log) ==
    /\ Len(log) <= LogLimit
    /\ \A n \in 1..Len(log) : log[n].sequence > 0 /\ log[n].sequence = log[1].sequence + (n - 1)
    /\ \A m, n \in 1..Len(log) : m < n =>
          log[m].event > 0 /\ (log[n].event = 0 \/ log[m].event < log[n].event)

(* No entry of the log is terminal, nor later than the event.               *)
Precedes(log, event) ==
    \A n \in 1..Len(log) : log[n].event > 0 /\ (event = 0 \/ log[n].event < event)

(* What a job needs in order to apply: the log is a window, and the entry   *)
(* that it adds comes after the others.                                     *)
Applicable(job, db) ==
    /\ ~Throws(job, db) /\ Window(db.run.log)
    /\ job.kind = "progress" /\ Executing(db) => Precedes(db.run.log, job.value)
    /\ job.kind = "end" /\ db.run.status # "none" => Precedes(db.run.log, 0)

(* The file is always a whole database.  Between two mutations it is what   *)
(* is in memory; what is being persisted is the effect of the first job on  *)
(* what is in memory, or the migration of the file.                         *)
Replaced ==
    /\ Live => {data, file} \subseteq Database /\ data.version = 4 /\ file.version = 4
    /\ process \in {"down", "booting"} => queue = <<>>
    /\ process = "down" => step = "idle"
    /\ process = "booting" => step # "idle"
    /\ step # "idle" => next \in Database /\ next.version = 4
    /\ step = "written" => temp = next
    /\ step = "renamed" => file = next
    /\ process = "booting" /\ step # "renamed" => next = Migrated(Written, Migrate(Written))
    /\ Live /\ step # "renamed" => data = file
    /\ Live /\ step # "idle" => /\ queue # <<>> /\ Applicable(Job, data)
                                /\ next = Stamped(Effect(Job, data))

(* Jobs wait in the order of their numbers and unsettled; those in effect   *)
(* have lower ones, and nobody is told otherwise than it is.                *)
Ordered ==
    /\ \A job \in Queued : job.id <= issued /\ settled[job.id] = "none"
    /\ \A m, n \in DOMAIN queue : m < n => queue[m].id < queue[n].id
    /\ Live => \A job \in Queued, n \in DOMAIN data.applied : data.applied[n] < job.id
    /\ \A n \in DOMAIN Durable : Durable[n] <= issued
    /\ \A j \in Jobs : /\ j > issued => settled[j] = "none"
                       /\ settled[j] = "done" => InEffect(j)
                       /\ settled[j] = "failed" => ~InEffect(j)

StoreInv == StoreTypeOK /\ Replaced /\ Ordered

(* Whoever waits for a job finds it settled or in the queue.                *)
Awaited(j) == settled[j] # "none" \/ \E job \in Queued : job.id = j
NobodyForgotten ==
    /\ \A c \in Callers : requests[c].phase = "mutating" =>
          requests[c].job \in 1..issued /\ Awaited(requests[c].job)
    /\ writing # 0 => Awaited(writing)

(* Requests and the execution exist only while the process is up, and the   *)
(* start-up has the queue to itself.                                        *)
Quiet ==
    /\ process # "up" => /\ \A c \in Callers : requests[c] = Idle
                         /\ execution \in {"none", "over"} /\ chain = <<>>
    /\ process \in {"down", "booting"} => writing = 0
    /\ process = "recovering" /\ writing = 0 => queue = <<>>
    /\ process = "up" /\ writing # 0 =>
          execution \in {"starting", "running", "completing", "failing"} \cup Outcomes

(* The kinds of job that an execution, or the start-up, waits for.          *)
KindsOf(e) ==
    CASE e = "starting" -> {"start"}
      [] e \in {"running"} \cup Outcomes -> {"progress"}
      [] e \in {"completing", "failing"} -> {"end"}
      [] OTHER -> {"recover", "reconcile"}

(* A queued job is the one that a request, or writing, waits for, and says  *)
(* what its owner wants.                                                    *)
Owned(job) ==
    /\ job.kind \in RequestKinds =>
          \/ process = "recovering" /\ job.kind = "reconcile"
          \/ \E c \in Callers : /\ requests[c].op = job.kind /\ requests[c].phase = "mutating"
                                /\ requests[c].job = job.id /\ requests[c].value = job.value
    /\ job.kind \notin RequestKinds => job.id = writing
    /\ job.id = writing => job.kind \in KindsOf(execution)
    /\ process = "recovering" => job.kind \in {"recover", "reconcile"} /\ job.id = writing
    /\ process = "up" => job.kind # "recover"
    /\ job.kind = "end" =>
          IF execution = "completing" THEN job.value = "completed" /\ job.mandate = "closed"
          ELSE job.value \in {"failed", "cancelled"}
    /\ job.kind = "progress" => chain # <<>> /\ job.value = Head(chain)
    /\ \A c \in Callers : requests[c].phase = "mutating" /\ requests[c].job = job.id =>
          job.kind = requests[c].op

(* The events that wait are the last ones, in order; they wait only while   *)
(* the Run executes, and its end only after them.                           *)
ChainInv ==
    /\ Len(chain) <= events
    /\ \A n \in 1..Len(chain) : chain[n] = events - Len(chain) + n
    /\ chain # <<>> => execution \in {"running"} \cup Outcomes
    /\ process = "up" /\ execution \in {"running"} \cup Outcomes /\ writing # 0
          => chain # <<>>
    /\ execution \in {"starting", "completing", "failing"} => writing # 0

(* The greatest event that can be in the file.                              *)
Stored ==
    events - Len(chain)
        + (IF chain # <<>> /\ writing # 0 /\ InEffect(writing) THEN 1 ELSE 0)

(* The log has no terminal entry.                                           *)
Unclosed(log) == \A n \in 1..Len(log) : log[n].event > 0

RunOK(run, bound) ==
    /\ Window(run.log)
    /\ \A n \in 1..Len(run.log) : run.log[n].event <= bound
    /\ run.status = "none" => run = NoRun
    /\ run.status \in {"completed", "failed"} =>
          run.log # <<>> /\ run.log[Len(run.log)].event = 0
    /\ run.status \notin Outcomes => Unclosed(run.log)
    /\ run.status = "completed" => run.mandate = "closed"

(* A Run whose execution has not stored its end: a revocation may have      *)
(* cancelled it, a deletion removed it.                                     *)
Unfinished(run) ==
    /\ Unclosed(run.log)
    /\ \/ run.status \in {"running", "none"}
       \/ run.status = "cancelled" /\ run.mandate = "revoked"

RowInv ==
    /\ RunOK(Written.run, Stored)
    /\ Written.agent = Absent => Written.run = NoRun
    /\ Written.version = 1 => Written.run.status \in {"none", "running"}

(* What the file says of the Run at each stage of its execution, before and *)
(* after the job of that stage is in effect.                                *)
Stage ==
    /\ process = "up" /\ execution \in {"none", "over"} => Written.run.status # "running"
    /\ execution = "starting" => IF InEffect(writing) THEN Unfinished(Written.run)
                                 ELSE Written.run = NoRun
    /\ execution \in {"running"} \cup Outcomes => Unfinished(Written.run)
    /\ execution \in {"completing", "failing"} =>
          IF InEffect(writing) THEN Written.run.status # "running"
          ELSE Unfinished(Written.run)
    /\ process = "recovering" /\ writing # 0
          /\ (InEffect(writing) \/ \E job \in Queued : job.kind = "reconcile") =>
          Written.run.status # "running"

(* A revocation that is on its way to the row of the Run, or in it, keeps   *)
(* the Run from completing; a completion was confirmed by the sidecar.      *)
Revoking(c) ==
    /\ requests[c].op = "revoke" /\ requests[c].phase \in {"prepared", "mutating"}
    /\ requests[c].value # 0
Completes == execution \in {"completed", "completing"} \/ Written.run.status = "completed"
Confirmed ==
    /\ (\E c \in Callers : Revoking(c)) \/ Written.run.mandate = "revoked" =>
          authority # "live" /\ ~Completes
    /\ Completes => authority = "finished"

(* A request between its two steps: what it found of the directory still    *)
(* holds, and a create has the Agent to itself.                             *)
RequestInv(c) ==
    LET r == requests[c] IN
    /\ r.op = "none" <=> r = Idle
    /\ r.phase = "idle" => r = Idle
    /\ r.value <= made
    /\ r.phase = "prepared" => r.op \in {"create", "delete", "revoke"}
    /\ r.phase = "mutated" => r.op = "update"
    /\ r.op = "delete" /\ r.phase \in {"prepared", "mutating"} => workspace.at = ".deleted"
    /\ r.op = "delete" /\ r.phase = "mutating" =>
          /\ InEffect(r.job) => Written.agent = Absent
          /\ settled[r.job] = "failed" => faults > 0
    /\ r.op = "create" => \A d \in Callers : requests[d].op = "create" => d = c
    /\ r.op = "create" /\ r.phase = "asked" => workspace.at = "nowhere"
    /\ r.op = "create" /\ (r.phase = "prepared" \/ (r.phase = "mutating" /\ settled[r.job] = "none"))
          => /\ workspace.at = "root" /\ data.agent = Absent
             /\ \A d \in Callers : d # c => requests[d] = Idle

(* No Agent without a directory ever made, nor with one archived but for a  *)
(* delete under way or a fault.                                             *)
Placed ==
    /\ workspace.at = "nowhere" =>
          /\ Written.agent = Absent
          /\ \A c \in Callers :
                requests[c] = Idle \/ (requests[c].op = "create" /\ requests[c].phase = "asked")
    /\ workspace.at = ".deleted" /\ faults = 0 =>
          \/ Written.agent = Absent
          \/ \E c \in Callers : requests[c].op = "delete" /\ requests[c].phase \in {"prepared", "mutating"}

(* In memory, too, there is no Run without its Agent.                       *)
Remembered == process = "up" /\ data.agent = Absent => data.run = NoRun

(* Everything but the store: how rows, directory, requests and the Run fit  *)
(* together.                                                                *)
Together ==
    /\ NobodyForgotten /\ Quiet
    /\ \A job \in Queued : Owned(job)
    /\ ChainInv /\ RowInv /\ Stage /\ Confirmed
    /\ \A c \in Callers : RequestInv(c)
    /\ Placed /\ Remembered
RecordsInv == RecordsTypeOK /\ StoreInv /\ Together

-----------------------------------------------------------------------------
(* The progress log.                                                       *)

(* The greatest number of a window is that of its last entry.               *)
LEMMA GreatestSequence ==
    ASSUME NEW log \in Seq(LogEntry), Window(log)
    PROVE  Max({0} \cup {log[n].sequence : n \in DOMAIN log})
              = IF log = <<>> THEN 0 ELSE log[1].sequence + Len(log) - 1
<1> DEFINE numbers == {0} \cup {log[n].sequence : n \in DOMAIN log}
           greatest == IF log = <<>> THEN 0 ELSE log[1].sequence + Len(log) - 1
<1>1. /\ Len(log) \in Nat /\ DOMAIN log = 1..Len(log)
      /\ \A n \in 1..Len(log) : log[n] \in LogEntry
      /\ log = <<>> <=> Len(log) = 0
  BY LenProperties, ElementOfSeq, EmptySeq
<1>2. \A n \in 1..Len(log) : log[n].sequence \in Nat
                            /\ log[n].sequence = log[1].sequence + (n - 1)
  BY <1>1 DEF LogEntry, Window
<1>3. greatest \in numbers /\ greatest \in Nat
  <2>1. CASE log = <<>>
    BY <2>1
  <2>2. CASE log # <<>>
    <3>1. Len(log) \in 1..Len(log) /\ 1 \in 1..Len(log)
      BY <1>1, <2>2
    <3>2. log[Len(log)].sequence = greatest
      BY <1>1, <1>2, <2>2, <3>1
    <3> QED BY <1>1, <1>2, <3>1, <3>2
  <2> QED BY <2>1, <2>2
<1>4. ASSUME NEW x \in numbers PROVE x \in Nat /\ greatest >= x
  <2>1. CASE x = 0
    BY <1>3, <2>1
  <2>2. CASE \E n \in 1..Len(log) : x = log[n].sequence
    <3> PICK n \in 1..Len(log) : x = log[n].sequence
      BY <2>2
    <3>1. log # <<>> /\ 1 \in 1..Len(log)
      BY <1>1
    <3> QED BY <1>1, <1>2, <3>1
  <2> QED BY <1>1, <2>1, <2>2
<1> HIDE DEF numbers, greatest
<1>5. \A x \in numbers : (\A y \in numbers : x >= y) => x = greatest
  BY <1>3, <1>4
<1>6. Max(numbers) = greatest
  BY <1>3, <1>4, <1>5 DEF Max
<1> QED BY <1>6 DEF numbers, greatest

(* addRunProgress keeps a window a window, the new entry last.              *)
LEMMA AddsEntry ==
    ASSUME NEW log \in Seq(LogEntry), Window(log), NEW event \in Nat, Precedes(log, event)
    PROVE  LET new == AddRunProgress(log, event)
           IN  /\ new \in Seq(LogEntry) /\ Window(new) /\ new # <<>>
               /\ new[Len(new)].event = event
               /\ \A n \in 1..Len(new) :
                     new[n].event = event \/ \E m \in 1..Len(log) : new[n].event = log[m].event
<1> DEFINE greatest == Max({0} \cup {log[n].sequence : n \in DOMAIN log})
           entry == Entry(greatest + 1, event)
           longer == Append(log, entry)
<1>1. /\ Len(log) \in Nat /\ DOMAIN log = 1..Len(log)
      /\ \A n \in 1..Len(log) : log[n] \in LogEntry
      /\ log = <<>> <=> Len(log) = 0
  BY LenProperties, ElementOfSeq, EmptySeq
<1>2. \A n \in 1..Len(log) : /\ log[n].sequence \in Nat \ {0} /\ log[n].event \in Nat
                             /\ log[n].sequence = log[1].sequence + (n - 1)
  BY <1>1 DEF LogEntry, Window
<1>3. greatest = IF log = <<>> THEN 0 ELSE log[1].sequence + Len(log) - 1
  BY GreatestSequence
<1>4. greatest \in Nat
  <2>1. CASE log = <<>>
    BY <1>3, <2>1
  <2>2. CASE log # <<>>
    <3>1. 1 \in 1..Len(log)
      BY <1>1, <2>2
    <3> QED BY <1>1, <1>2, <1>3, <2>2, <3>1
  <2> QED BY <2>1, <2>2
<1>5. entry \in LogEntry /\ entry.sequence = greatest + 1 /\ entry.event = event
  BY <1>4 DEF Entry, LogEntry
<1> HIDE DEF greatest, entry
<1>6. /\ longer \in Seq(LogEntry) /\ longer # <<>> /\ Len(longer) = Len(log) + 1
      /\ \A n \in 1..Len(log) : longer[n] = log[n]
      /\ longer[Len(log) + 1] = entry
  BY <1>5, AppendProperties
<1> HIDE DEF longer
<1>7. /\ \A n \in 1..Len(log) + 1 :
            longer[n].sequence > 0 /\ longer[n].sequence = longer[1].sequence + (n - 1)
      /\ \A n \in 1..Len(log) + 1 : longer[n].sequence \in Nat
  <2>1. CASE log = <<>>
    <3>1. Len(log) = 0 /\ greatest = 0
      BY <1>1, <1>3, <2>1
    <3> QED BY <1>5, <1>6, <3>1
  <2>2. CASE log # <<>>
    <3>1. 1 \in 1..Len(log) /\ longer[1] = log[1]
      BY <1>1, <1>6, <2>2
    <3>2. greatest = log[1].sequence + Len(log) - 1
      BY <1>3, <2>2
    <3>3. ASSUME NEW n \in 1..Len(log) + 1
          PROVE  /\ longer[n].sequence > 0 /\ longer[n].sequence \in Nat
                 /\ longer[n].sequence = longer[1].sequence + (n - 1)
      <4>1. CASE n \in 1..Len(log)
        <5>1. longer[n] = log[n] /\ longer[1] = log[1]
          BY <1>6, <3>1, <4>1
        <5>2. /\ log[n].sequence \in Nat /\ log[n].sequence > 0
              /\ log[n].sequence = log[1].sequence + (n - 1)
          BY <1>2, <4>1
        <5> QED BY <5>1, <5>2
      <4>2. CASE n = Len(log) + 1
        <5>1. longer[n].sequence = greatest + 1
          BY <1>5, <1>6, <4>2
        <5>2. log[1].sequence \in Nat /\ Len(log) \in Nat /\ log[1].sequence > 0
          BY <1>2, <3>1
        <5>3. longer[n].sequence = log[1].sequence + (n - 1)
          BY <3>2, <4>2, <5>1, <5>2
        <5> QED BY <3>1, <4>2, <5>2, <5>3
      <4> QED BY <1>1, <4>1, <4>2
    <3> QED BY <3>3
  <2> QED BY <2>1, <2>2
<1>8. \A m, n \in 1..Len(log) + 1 : m < n =>
          longer[m].event > 0 /\ (longer[n].event = 0 \/ longer[m].event < longer[n].event)
  <2> SUFFICES ASSUME NEW m \in 1..Len(log) + 1, NEW n \in 1..Len(log) + 1, m < n
               PROVE  longer[m].event > 0 /\ (longer[n].event = 0 \/ longer[m].event < longer[n].event)
    OBVIOUS
  <2>1. m \in 1..Len(log) /\ longer[m] = log[m]
    BY <1>1, <1>6
  <2>2. CASE n \in 1..Len(log)
    BY <1>6, <2>1, <2>2 DEF Window
  <2>3. CASE n = Len(log) + 1
    BY <1>5, <1>6, <2>1, <2>3 DEF Precedes
  <2> QED BY <1>1, <2>2, <2>3
<1>9. \A n \in 1..Len(log) + 1 :
          longer[n].event = event \/ \E m \in 1..Len(log) : longer[n].event = log[m].event
  <2> SUFFICES ASSUME NEW n \in 1..Len(log) + 1, n # Len(log) + 1
               PROVE  \E m \in 1..Len(log) : longer[n].event = log[m].event
    BY <1>5, <1>6
  <2>1. n \in 1..Len(log)
    BY <1>1
  <2> QED BY <1>6, <2>1
<1>10. CASE Len(longer) > LogLimit
  <2> PICK new : new = AddRunProgress(log, event)
    OBVIOUS
  <2>1. new = Tail(longer)
    BY <1>10 DEF AddRunProgress, longer, entry, greatest
  <2>2. /\ new \in Seq(LogEntry) /\ Len(new) = Len(log)
        /\ \A n \in 1..Len(log) : new[n] = longer[n + 1]
    BY <1>1, <1>6, <2>1, HeadTailProperties
  <2>3. Len(log) = LogLimit /\ LogLimit >= 1
    <3>1. LogLimit \in Nat \ {0}
      BY RecordsAssumption
    <3>2. Len(log) <= LogLimit /\ Len(log) + 1 > LogLimit
      BY <1>6, <1>10 DEF Window
    <3>3. Len(log) \in Nat
      BY <1>1
    <3> QED BY <3>1, <3>2, <3>3
  <2>4. ASSUME NEW n \in 1..Len(log) PROVE n + 1 \in 1..Len(log) + 1
    BY <1>1
  <2>5. 2 \in 1..Len(log) + 1 /\ 1 \in 1..Len(log) /\ 1 + 1 = 2 /\ LogLimit \in Nat
    BY <1>1, <2>3, RecordsAssumption
  <2>6. \A n \in 1..Len(new) : new[n].sequence > 0 /\ new[n].sequence = new[1].sequence + (n - 1)
    <3>1. new[1] = longer[2] /\ longer[2].sequence = longer[1].sequence + 1
      BY <1>7, <2>2, <2>5
    <3>2. 1 \in 1..Len(log) + 1 /\ longer[1].sequence \in Nat /\ longer[2].sequence \in Nat
      BY <1>7, <2>4, <2>5
    <3> SUFFICES ASSUME NEW n \in 1..Len(log)
                 PROVE  new[n].sequence > 0 /\ new[n].sequence = new[1].sequence + (n - 1)
      BY <2>2
    <3>3. /\ new[n] = longer[n + 1] /\ longer[n + 1].sequence > 0
          /\ longer[n + 1].sequence = longer[1].sequence + n
          /\ longer[n + 1].sequence \in Nat
      BY <1>7, <2>2, <2>4
    <3>4. n \in Nat
      BY <1>1
    <3>5. n - 1 \in Int /\ 1 + (n - 1) = n
      BY <3>4
    <3> HIDE DEF Window
    <3> QED BY <3>1, <3>2, <3>3, <3>4, <3>5
  <2>7. \A m, n \in 1..Len(new) : m < n =>
          new[m].event > 0 /\ (new[n].event = 0 \/ new[m].event < new[n].event)
    <3>1. ASSUME NEW m \in 1..Len(log), NEW n \in 1..Len(log), m < n PROVE m + 1 < n + 1
      <4>1. m \in Nat /\ n \in Nat
        BY <1>1
      <4> QED BY <3>1, <4>1
    <3>2. ASSUME NEW m \in 1..Len(log), NEW n \in 1..Len(log), m < n
          PROVE  new[m].event > 0 /\ (new[n].event = 0 \/ new[m].event < new[n].event)
      <4>1. /\ new[m] = longer[m + 1] /\ new[n] = longer[n + 1]
            /\ m + 1 \in 1..Len(log) + 1 /\ n + 1 \in 1..Len(log) + 1
        BY <2>2, <2>4
      <4> QED BY <1>8, <3>1, <3>2, <4>1
    <3> QED BY <2>2, <3>2
  <2>8. Window(new)
    BY <1>1, <2>2, <2>3, <2>5, <2>6, <2>7 DEF Window
  <2>9. new # <<>> /\ new[Len(new)].event = event
    BY <1>1, <1>5, <1>6, <2>2, <2>3, EmptySeq
  <2>10. \A n \in 1..Len(new) :
            new[n].event = event \/ \E m \in 1..Len(log) : new[n].event = log[m].event
    BY <1>9, <2>2, <2>4
  <2> QED BY <2>2, <2>8, <2>9, <2>10
<1>11. CASE ~(Len(longer) > LogLimit)
  <2>1. AddRunProgress(log, event) = longer
    BY <1>11 DEF AddRunProgress, longer, entry, greatest
  <2>2. Len(longer) <= LogLimit
    BY <1>1, <1>6, <1>11, RecordsAssumption
  <2>3. Window(longer)
    BY <1>6, <1>7, <1>8, <2>2 DEF Window
  <2> QED BY <1>5, <1>6, <1>9, <2>1, <2>3
<1> QED BY <1>10, <1>11

-----------------------------------------------------------------------------
(* Mutations of a database.                                                *)

(* The agent that a job leaves.                                             *)
AgentAfter(job, db) ==
    IF job.kind = "create" THEN 0
    ELSE IF job.kind = "update" THEN job.value
    ELSE IF job.kind = "delete" THEN Absent ELSE db.agent

(* A mutation makes a database of a database, and leaves the version and    *)
(* the list of what is applied to the store.                                *)
LEMMA EffectOfJob ==
    ASSUME NEW job \in StoredJob, NEW db \in Database, Applicable(job, db)
    PROVE  /\ Effect(job, db) \in Database
           /\ Effect(job, db).version = db.version
           /\ Effect(job, db).applied = db.applied
           /\ Effect(job, db).agent = AgentAfter(job, db)
<1>1. /\ db = [version |-> db.version, applied |-> db.applied, agent |-> db.agent, run |-> db.run]
      /\ db.version \in {1, 4} /\ db.applied \in Seq(Jobs)
      /\ db.agent \in {Absent} \cup 0..MaxRequests /\ db.run \in RunRow
  BY DEF Database
<1>2. /\ db.run = [status |-> db.run.status, mandate |-> db.run.mandate, log |-> db.run.log]
      /\ db.run.status \in Statuses /\ db.run.log \in Seq(LogEntry)
      /\ db.run.mandate \in {"none", "active", "pending", "closed", "revoked"}
  BY <1>1 DEF RunRow
<1>3. MaxRequests \in Nat
  BY RecordsAssumption
<1>4. NoRun \in RunRow
  <2>1. <<>> \in Seq(LogEntry)
    BY EmptySeq
  <2> QED BY <2>1 DEF NoRun, RunRow, Statuses
<1> DEFINE Good(new) ==
      /\ new \in Database /\ new.version = db.version /\ new.applied = db.applied
      /\ new.agent = AgentAfter(job, db)
<1>5. ASSUME NEW agent \in {Absent} \cup 0..MaxRequests, NEW run \in RunRow,
             agent = AgentAfter(job, db),
             NEW new, new = [version |-> db.version, applied |-> db.applied,
                             agent |-> agent, run |-> run]
      PROVE  Good(new)
  BY <1>1, <1>5 DEF Database
<1> HIDE DEF Good
<1>6. job.kind \in {"create", "update", "delete", "revoke", "reconcile",
                    "start", "progress", "recover", "end"}
  BY DEF StoredJob, RequestKinds
<1>7. CASE job.kind = "create"
  <2>1. Effect(job, db) = [version |-> db.version, applied |-> db.applied, agent |-> 0, run |-> db.run]
    BY <1>1, <1>7 DEF Effect
  <2>2. 0 \in 0..MaxRequests /\ AgentAfter(job, db) = 0
    BY <1>3, <1>7 DEF AgentAfter
  <2> QED BY <1>1, <1>5, <2>1, <2>2 DEF Good
<1>8. CASE job.kind = "update"
  <2>1. Effect(job, db) = [version |-> db.version, applied |-> db.applied, agent |-> job.value, run |-> db.run]
    BY <1>1, <1>8 DEF Effect
  <2>2. job.value \in 0..MaxRequests /\ AgentAfter(job, db) = job.value
    BY <1>8 DEF StoredJob, RequestKinds, AgentAfter
  <2> QED BY <1>1, <1>5, <2>1, <2>2 DEF Good
<1>9. CASE job.kind = "delete"
  <2>1. Effect(job, db) = [version |-> db.version, applied |-> db.applied, agent |-> Absent, run |-> NoRun]
    BY <1>1, <1>9 DEF Effect
  <2>2. AgentAfter(job, db) = Absent
    BY <1>9 DEF AgentAfter
  <2> QED BY <1>4, <1>5, <2>1, <2>2 DEF Good
<1>10. CASE job.kind \in {"start", "progress", "recover", "end", "revoke", "reconcile"}
  <2>1. AgentAfter(job, db) = db.agent
    BY <1>10 DEF AgentAfter
  <2>2. Good(db)
    BY <1>1, <1>5, <2>1
  <2>3. CASE job.kind = "start"
    <3> PICK run : run = [status |-> "running", mandate |-> "active", log |-> <<>>]
      OBVIOUS
    <3>1. run \in RunRow
      BY EmptySeq DEF RunRow, Statuses
    <3>2. Effect(job, db) = [version |-> db.version, applied |-> db.applied,
                             agent |-> db.agent, run |-> run]
      BY <1>1, <2>3 DEF Effect
    <3> QED BY <1>1, <1>5, <2>1, <3>1, <3>2 DEF Good
  <2>4. CASE job.kind = "progress"
    <3>1. CASE ~Executing(db)
      BY <2>2, <2>4, <3>1 DEF Effect, Good
    <3>2. CASE Executing(db)
      <4> PICK log : log = AddRunProgress(db.run.log, job.value)
        OBVIOUS
      <4>1. job.value \in Nat
        BY <2>4 DEF StoredJob, RequestKinds
      <4>2. log \in Seq(LogEntry)
        BY <1>2, <2>4, <3>2, <4>1, AddsEntry DEF Applicable
      <4> PICK run : run = [status |-> db.run.status, mandate |-> db.run.mandate, log |-> log]
        OBVIOUS
      <4>3. run \in RunRow
        BY <1>2, <4>2 DEF RunRow
      <4>4. [db.run EXCEPT !.log = log] = run
        BY <1>2
      <4>5. Effect(job, db) = [version |-> db.version, applied |-> db.applied,
                               agent |-> db.agent, run |-> run]
        BY <1>1, <2>4, <3>2, <4>4 DEF Effect
      <4> QED BY <1>1, <1>5, <2>1, <4>3, <4>5 DEF Good
    <3> QED BY <3>1, <3>2
  <2>5. CASE job.kind = "recover"
    <3>1. CASE ~Executing(db)
      BY <2>2, <2>5, <3>1 DEF Effect, Recovered, Good
    <3>2. CASE Executing(db)
      <4> PICK mandate : mandate = IF db.run.mandate = "closed" THEN "closed" ELSE "pending"
        OBVIOUS
      <4> PICK run : run = [status |-> "cancelled", mandate |-> mandate, log |-> db.run.log]
        OBVIOUS
      <4>1. run \in RunRow
        BY <1>2 DEF RunRow, Statuses
      <4>2. Effect(job, db) = [version |-> db.version, applied |-> db.applied,
                               agent |-> db.agent, run |-> run]
        BY <1>1, <1>2, <2>5, <3>2 DEF Effect, Recovered
      <4> QED BY <1>1, <1>5, <2>1, <4>1, <4>2 DEF Good
    <3> QED BY <3>1, <3>2
  <2>6. CASE job.kind = "end"
    <3>1. CASE db.run.status = "none" \/ (job.value = "completed" /\ db.agent = Absent)
      BY <2>2, <2>6, <3>1 DEF Effect, Ended, Good
    <3>2. CASE ~(db.run.status = "none" \/ (job.value = "completed" /\ db.agent = Absent))
      <4> PICK log : log = AddRunProgress(db.run.log, 0)
        OBVIOUS
      <4>1. log \in Seq(LogEntry)
        BY <1>2, <2>6, <3>2, AddsEntry DEF Applicable
      <4> PICK run : run = [status |-> job.value, mandate |-> job.mandate, log |-> log]
        OBVIOUS
      <4>2. job.value \in Outcomes /\ job.mandate \in {"closed", "pending"}
        BY <2>6 DEF StoredJob, RequestKinds
      <4>3. run \in RunRow
        BY <4>1, <4>2 DEF RunRow, Statuses, Outcomes
      <4>4. Effect(job, db) = [version |-> db.version, applied |-> db.applied,
                               agent |-> db.agent, run |-> run]
        BY <1>1, <1>2, <2>6, <3>2 DEF Effect, Ended
      <4> QED BY <1>1, <1>5, <2>1, <4>3, <4>4 DEF Good
    <3> QED BY <3>1, <3>2
  <2>7. CASE job.kind = "revoke"
    <3>1. CASE job.value = 0 \/ db.run.status = "none"
      BY <2>2, <2>7, <3>1 DEF Effect, Good
    <3>2. CASE ~(job.value = 0 \/ db.run.status = "none")
      <4> PICK status : status = IF db.run.status = "running" THEN "cancelled" ELSE db.run.status
        OBVIOUS
      <4> PICK run : run = [status |-> status, mandate |-> "revoked", log |-> db.run.log]
        OBVIOUS
      <4>1. run \in RunRow
        BY <1>2 DEF RunRow, Statuses
      <4>2. Effect(job, db) = [version |-> db.version, applied |-> db.applied,
                               agent |-> db.agent, run |-> run]
        BY <1>1, <1>2, <2>7, <3>2 DEF Effect, Revoked, Executing
      <4> QED BY <1>1, <1>5, <2>1, <4>1, <4>2 DEF Good
    <3> QED BY <3>1, <3>2
  <2>8. CASE job.kind = "reconcile"
    <3>1. CASE db.run.mandate # "pending"
      BY <2>2, <2>8, <3>1 DEF Effect, Good
    <3>2. CASE db.run.mandate = "pending"
      <4> PICK run : run = [status |-> db.run.status, mandate |-> "closed", log |-> db.run.log]
        OBVIOUS
      <4>1. run \in RunRow
        BY <1>2 DEF RunRow
      <4>2. Effect(job, db) = [version |-> db.version, applied |-> db.applied,
                               agent |-> db.agent, run |-> run]
        BY <1>1, <1>2, <2>8, <3>2 DEF Effect
      <4> QED BY <1>1, <1>5, <2>1, <4>1, <4>2 DEF Good
    <3> QED BY <3>1, <3>2
  <2> QED BY <1>10, <2>3, <2>4, <2>5, <2>6, <2>7, <2>8
<1> QED BY <1>6, <1>7, <1>8, <1>9, <1>10 DEF Good

-----------------------------------------------------------------------------
(* The store.                                                              *)

(* What is written is a database, whether the file exists or not.           *)
LEMMA WrittenIsDatabase ==
    ASSUME file \in {Absent} \cup Database
    PROVE  /\ Written \in Database /\ Durable = Written.applied
           /\ file \in Database => Written = file
           /\ file # Absent => file \in Database
           /\ file = Absent => Written = Empty
           /\ Empty \in Database /\ Absent \notin Database
<1>1. {Absent, Torn} \cap Database = {} /\ Absent # Torn
  BY RecordsAssumption, StoreAssumption
<1>2. Empty \in Database
  <2>1. <<>> \in Seq(LogEntry) /\ <<>> \in Seq(Jobs)
    BY EmptySeq
  <2> QED BY <2>1 DEF Empty, Database, NoRun, RunRow, Statuses
<1>3. CASE file = Absent
  BY <1>1, <1>2, <1>3 DEF Written, Durable, Empty
<1>4. CASE file \in Database
  <2>1. file \notin {Absent, Torn}
    BY <1>1, <1>4
  <2> QED BY <1>1, <1>2, <1>4, <2>1 DEF Written, Durable
<1> QED BY <1>3, <1>4

(* The first job, and those behind it.                                      *)
LEMMA FirstJob ==
    ASSUME StoreTypeOK, Ordered, queue # <<>>
    PROVE  /\ Job \in Queued /\ Job \in StoredJob /\ Job.id \in Jobs
           /\ Tail(queue) \in Seq(StoredJob)
           /\ Queued = {Job} \cup Range(Tail(queue))
           /\ \A job \in Range(Tail(queue)) : job.id > Job.id
           /\ \A m, n \in DOMAIN Tail(queue) : m < n => Tail(queue)[m].id < Tail(queue)[n].id
<1>1. queue \in Seq(StoredJob)
  BY DEF StoreTypeOK
<1>2. /\ Job = queue[1] /\ Job \in Queued /\ Queued = {Job} \cup Range(Tail(queue))
      /\ \A job \in Range(Tail(queue)) : \E i \in 2..Len(queue) : job = queue[i]
  BY <1>1, RangeOfTail DEF Job, Queued
<1>3. /\ Tail(queue) \in Seq(StoredJob) /\ Len(Tail(queue)) = Len(queue) - 1
      /\ \A i \in 1..Len(Tail(queue)) : Tail(queue)[i] = queue[i + 1]
      /\ Job \in StoredJob
  BY <1>1, HeadTailProperties DEF Job
<1>4. Job.id \in Jobs
  BY <1>3 DEF StoredJob
<1>5. Len(queue) \in Nat \ {0} /\ DOMAIN queue = 1..Len(queue)
      /\ DOMAIN Tail(queue) = 1..Len(Tail(queue))
  BY <1>1, <1>3, LenProperties, EmptySeq
<1>6. ASSUME NEW i \in 1..Len(queue) PROVE queue[i].id \in Nat
  <2>1. queue[i] \in StoredJob
    BY <1>1, <1>6, ElementOfSeq
  <2> QED BY <2>1, StoreAssumption DEF StoredJob, Jobs
<1>7. ASSUME NEW job \in Range(Tail(queue)) PROVE job.id > Job.id
  <2> PICK i \in 2..Len(queue) : job = queue[i]
    BY <1>2
  <2>1. 1 \in DOMAIN queue /\ i \in DOMAIN queue /\ 1 < i
    BY <1>5
  <2>2. queue[1].id < queue[i].id
    BY <2>1 DEF Ordered
  <2> QED BY <1>2, <1>5, <1>6, <2>1, <2>2
<1>8. ASSUME NEW m \in DOMAIN Tail(queue), NEW n \in DOMAIN Tail(queue), m < n
      PROVE  Tail(queue)[m].id < Tail(queue)[n].id
  <2>1. /\ m + 1 \in DOMAIN queue /\ n + 1 \in DOMAIN queue /\ m + 1 < n + 1
        /\ Tail(queue)[m] = queue[m + 1] /\ Tail(queue)[n] = queue[n + 1]
    <3>1. m \in Nat /\ n \in Nat /\ m <= Len(queue) - 1 /\ n <= Len(queue) - 1 /\ m >= 1 /\ n >= 1
      BY <1>3, <1>5
    <3>2. m + 1 < n + 1 /\ m + 1 \in 1..Len(queue) /\ n + 1 \in 1..Len(queue)
      BY <1>5, <1>8, <3>1
    <3> QED BY <1>3, <1>5, <3>2
  <2> QED BY <2>1 DEF Ordered
<1> QED BY <1>2, <1>3, <1>4, <1>7, <1>8

(* A job that waits is not in effect, and numbers are natural ones.         *)
LEMMA QueuedIsFresh ==
    ASSUME StoreInv, Live, step # "renamed"
    PROVE  \A job \in Queued : ~InEffect(job.id)
<1>1. data = file /\ file \in Database
  BY DEF StoreInv, Replaced
<1>2. Durable = data.applied /\ data.applied \in Seq(Jobs)
  <2>1. Durable = file.applied
    BY <1>1, WrittenIsDatabase DEF StoreInv, StoreTypeOK
  <2> QED BY <1>1, <2>1 DEF Database
<1>3. ASSUME NEW job \in Queued, NEW n \in DOMAIN Durable PROVE Durable[n] # job.id
  <2>1. data.applied[n] < job.id
    BY <1>2, <1>3 DEF StoreInv, Ordered
  <2>2. Durable[n] \in Nat
    BY <1>2, ElementOfSeq, LenProperties, StoreAssumption DEF Jobs
  <2> QED BY <1>2, <2>1, <2>2
<1> QED BY <1>3 DEF InEffect

(* The migration of a database is a current database with the same rows.    *)
LEMMA MigrationOfDatabase ==
    ASSUME NEW db \in Database
    PROVE  LET new == Migrated(db, Migrate(db))
           IN  /\ new \in Database /\ new.version = 4
               /\ new.applied = db.applied /\ new.agent = db.agent
               /\ new.run.status = db.run.status /\ new.run.log = db.run.log
               /\ new.run.mandate \in {db.run.mandate, "closed"}
               /\ db.version = 4 \/ db.run.status = "none" => new.run = db.run
<1>1. /\ db = [version |-> db.version, applied |-> db.applied, agent |-> db.agent, run |-> db.run]
      /\ db.version \in {1, 4} /\ db.applied \in Seq(Jobs)
      /\ db.agent \in {Absent} \cup 0..MaxRequests /\ db.run \in RunRow
  BY DEF Database
<1>2. /\ db.run = [status |-> db.run.status, mandate |-> db.run.mandate, log |-> db.run.log]
      /\ db.run.status \in Statuses /\ db.run.log \in Seq(LogEntry)
  BY <1>1 DEF RunRow
<1> PICK run : run = IF db.version = 1 /\ db.run.status # "none"
                     THEN [status |-> db.run.status, mandate |-> "closed", log |-> db.run.log]
                     ELSE db.run
  OBVIOUS
<1>3. /\ run \in RunRow /\ run.status = db.run.status /\ run.log = db.run.log
      /\ run.mandate \in {db.run.mandate, "closed"}
  BY <1>1, <1>2 DEF RunRow
<1>4. Migrated(db, Migrate(db)) = [version |-> 4, applied |-> db.applied,
                                   agent |-> db.agent, run |-> run]
  BY <1>1, <1>2 DEF Migrated, Migrate
<1>5. db.version = 4 \/ db.run.status = "none" => run = db.run
  OBVIOUS
<1> QED BY <1>1, <1>3, <1>4, <1>5 DEF Database

(* The steps of the store, as the rest of the process drives it.            *)
Unstored == UNCHANGED <<process, data, next, file, temp, queue, step, issued, settled>>
Booted == Boot(Empty, IF file \in {Absent, Torn} THEN Empty ELSE Migrate(file))
StoreStep ==
    \/ Unstored /\ faults' \in 0..MaxFaults
    \/ \E job \in StoredJob : Live /\ Mutate(job)
    \/ Apply /\ Applicable(Job, data)
    \/ Throw \/ WriteEnds \/ Rename \/ Publish \/ PersistFails
    \/ Booted \/ Crash
    \/ /\ process = "recovering" /\ process' \in {"up", "down"} /\ queue = <<>>
       /\ UNCHANGED <<data, next, file, temp, queue, step, issued, settled, faults>>

(* A step that leaves the file alone leaves what is in effect alone.        *)
LEMMA FileKept ==
    ASSUME UNCHANGED file
    PROVE  /\ Written' = Written /\ Durable' = Durable
           /\ \A j : InEffect(j)' <=> InEffect(j)
BY DEF Written, Durable, InEffect

LEMMA UnstoredStep ==
    ASSUME StoreInv, Unstored, faults' \in 0..MaxFaults
    PROVE  StoreInv'
<1>1. Written' = Written /\ Durable' = Durable /\ \A j : InEffect(j)' <=> InEffect(j)
  BY FileKept DEF Unstored
<1>2. Queued' = Queued /\ (Live' <=> Live)
  BY DEF Queued, Unstored, Live
<1>3. StoreTypeOK'
  BY DEF StoreInv, StoreTypeOK, Unstored
<1>4. Ordered'
  BY <1>1, <1>2 DEF StoreInv, Ordered, Unstored
<1>5. Replaced'
  BY <1>1, <1>2 DEF StoreInv, Replaced, Unstored, Applicable, Throws, Effect, Stamped, Job
<1> QED BY <1>3, <1>4, <1>5 DEF StoreInv

(* A call appends a job with the next number.                               *)
LEMMA CallStep ==
    ASSUME StoreInv, Live, NEW job \in StoredJob, Mutate(job)
    PROVE  /\ StoreInv' /\ Queued' = Queued \cup {job} /\ NextJob \in Jobs
           /\ queue = <<>> \/ Job' = Job
<1>1. UNCHANGED <<process, data, next, file, temp, step, settled, faults>>
      /\ job.id = NextJob /\ NextJob \in Jobs /\ issued' = NextJob /\ queue' = Append(queue, job)
  BY DEF Mutate
<1>2. queue \in Seq(StoredJob) /\ issued \in Nat /\ NextJob = issued + 1
  BY StoreAssumption DEF StoreInv, StoreTypeOK, NextJob
<1>3. Queued' = Queued \cup {job} /\ queue' \in Seq(StoredJob) /\ queue' # <<>>
  BY <1>1, <1>2, RangeOfAppend, AppendProperties DEF Queued
<1>4. queue # <<>> => Job' = Job
  BY <1>1, <1>2, HeadTailAppend DEF Job
<1>5. Written' = Written /\ Durable' = Durable /\ \A j : InEffect(j)' <=> InEffect(j)
  BY <1>1, FileKept
<1>6. Live' <=> Live
  BY <1>1 DEF Live
<1>7. StoreTypeOK'
  BY <1>1, <1>2, <1>3, StoreAssumption DEF StoreInv, StoreTypeOK, Jobs
<1>8. Replaced'
  <2>1. step # "idle" => Job' = Job
    BY <1>4 DEF StoreInv, Replaced
  <2>2. step # "idle" => Applicable(Job, data)' = Applicable(Job, data)
                         /\ Stamped(Effect(Job, data))' = Stamped(Effect(Job, data))
    BY <1>1, <2>1 DEF Applicable, Throws, Effect, Stamped
  <2> QED BY <1>1, <1>3, <1>5, <1>6, <2>2 DEF StoreInv, Replaced, Live
<1>9. Ordered'
  <2>1. \A j \in Queued' : j.id <= issued' /\ settled'[j.id] = "none"
    <3>1. \A j \in Queued : j.id \in Nat
      <4>1. \A j \in Queued : j \in StoredJob
        BY <1>2, ElementOfSeq, LenProperties DEF Queued, Range
      <4> QED BY <4>1, StoreAssumption DEF StoredJob, Jobs
    <3>2. \A j \in Queued : j.id <= issued' /\ settled'[j.id] = "none"
      <4>1. \A j \in Queued : j.id <= issued /\ settled[j.id] = "none"
        BY DEF StoreInv, Ordered
      <4> QED BY <1>1, <1>2, <3>1, <4>1
    <3>3. settled[NextJob] = "none"
      BY <1>1, <1>2 DEF StoreInv, Ordered
    <3> QED BY <1>1, <1>2, <1>3, <3>2, <3>3
  <2>2. \A m, n \in DOMAIN queue' : m < n => queue'[m].id < queue'[n].id
    <3>1. /\ Len(queue) \in Nat /\ Len(queue') = Len(queue) + 1
          /\ \A n \in 1..Len(queue) : queue'[n] = queue[n]
          /\ queue'[Len(queue) + 1] = job
      BY <1>1, <1>2, AppendProperties, LenProperties
    <3>2. DOMAIN queue = 1..Len(queue) /\ DOMAIN queue' = 1..Len(queue) + 1
      BY <1>2, <1>3, <3>1, LenProperties
    <3>3. ASSUME NEW m \in 1..Len(queue) + 1, NEW n \in 1..Len(queue) + 1, m < n
          PROVE  queue'[m].id < queue'[n].id
      <4>1. m \in 1..Len(queue) /\ queue'[m] = queue[m]
        BY <3>1, <3>3
      <4>2. CASE n \in 1..Len(queue)
        BY <3>1, <3>2, <3>3, <4>1, <4>2 DEF StoreInv, Ordered
      <4>3. CASE n = Len(queue) + 1
        <5>1. queue[m] \in Queued /\ queue[m] \in StoredJob
          BY <1>2, <3>2, <4>1, ElementOfSeq DEF Queued, Range
        <5>2. queue[m].id <= issued /\ queue[m].id \in Nat
          BY <5>1, StoreAssumption DEF StoreInv, Ordered, StoredJob, Jobs
        <5>3. queue[m].id < job.id
          BY <1>1, <1>2, <5>2
        <5> QED BY <3>1, <4>1, <4>3, <5>3
      <4> QED BY <3>1, <4>2, <4>3
    <3> QED BY <3>2, <3>3
  <2>3. Live => \A j \in Queued', n \in DOMAIN data'.applied : data'.applied[n] < j.id
    <3> SUFFICES ASSUME NEW n \in DOMAIN data.applied PROVE \A j \in Queued' : data.applied[n] < j.id
      BY <1>1
    <3>1. \A j \in Queued : data.applied[n] < j.id
      BY DEF StoreInv, Ordered
    <3>2. data.applied[n] <= issued /\ data.applied[n] \in Nat
      <4>1. data \in Database /\ file \in Database
        BY DEF StoreInv, Replaced
      <4>2. data.applied \in Seq(Jobs) /\ data.applied[n] \in Jobs
        BY <4>1, ElementOfSeq, LenProperties DEF Database
      <4>3. CASE step # "renamed"
        <5>1. Durable = data.applied
          BY <4>1, <4>3, WrittenIsDatabase DEF StoreInv, StoreTypeOK, Replaced
        <5> QED BY <4>2, <5>1, StoreAssumption DEF StoreInv, Ordered, Jobs
      <4>4. CASE step = "renamed"
        <5>1. queue # <<>>
          BY <4>4 DEF StoreInv, Replaced
        <5>2. Job \in Queued /\ Job.id \in Jobs
          BY <5>1, FirstJob DEF StoreInv
        <5>3. data.applied[n] < Job.id /\ Job.id <= issued
          BY <5>2 DEF StoreInv, Ordered
        <5> QED BY <1>2, <4>2, <5>2, <5>3, StoreAssumption DEF Jobs
      <4> QED BY <4>3, <4>4
    <3>3. data.applied[n] < job.id
      BY <1>1, <1>2, <3>2
    <3> QED BY <1>3, <3>1, <3>3
  <2>4. \A n \in DOMAIN Durable : Durable[n] <= issued'
    <3> SUFFICES ASSUME NEW n \in DOMAIN Durable PROVE Durable[n] <= issued'
      OBVIOUS
    <3>1. Durable \in Seq(Jobs)
      BY WrittenIsDatabase DEF StoreInv, StoreTypeOK, Database
    <3>2. Durable[n] \in Nat /\ Durable[n] <= issued
      BY <3>1, ElementOfSeq, LenProperties, StoreAssumption DEF StoreInv, Ordered, Jobs
    <3> QED BY <1>1, <1>2, <3>2
  <2>5. \A j \in Jobs : j > issued' => settled'[j] = "none"
    <3>1. \A j \in Jobs : j > issued => settled[j] = "none"
      BY DEF StoreInv, Ordered
    <3>2. \A j \in Jobs : j \in Nat
      BY StoreAssumption DEF Jobs
    <3> QED BY <1>1, <1>2, <3>1, <3>2
  <2> QED BY <1>1, <1>5, <1>6, <2>1, <2>2, <2>3, <2>4, <2>5 DEF StoreInv, Ordered
<1> QED BY <1>1, <1>3, <1>4, <1>7, <1>8, <1>9 DEF StoreInv

(* Applying the first job only prepares the next database.                  *)
LEMMA ApplyStep ==
    ASSUME StoreInv, Apply, Applicable(Job, data)
    PROVE  /\ StoreInv' /\ Live
           /\ UNCHANGED <<process, data, file, queue, issued, settled, faults>>
<1>1. /\ step = "idle" /\ queue # <<>> /\ ~Throws(Job, data)
      /\ next' = Stamped(Effect(Job, data)) /\ step' = "writing"
      /\ UNCHANGED <<process, data, file, queue, issued, settled, faults>>
  BY DEF Apply, Applies, Persist, WriteTemporary, Stamped
<1>2. Live /\ data \in Database /\ data = file /\ data.version = 4
  BY <1>1 DEF StoreInv, StoreTypeOK, Replaced, Live
<1>3. Job \in StoredJob /\ Job.id \in Jobs
  BY <1>1, FirstJob DEF StoreInv
<1> PICK db : db = Effect(Job, data)
  OBVIOUS
<1>4. db \in Database /\ db.version = 4
  BY <1>2, <1>3, EffectOfJob
<1>5. next' \in Database /\ next'.version = 4
  <2>1. db = [version |-> db.version, applied |-> db.applied, agent |-> db.agent, run |-> db.run]
        /\ db.applied \in Seq(Jobs)
    BY <1>4 DEF Database
  <2>2. Append(db.applied, Job.id) \in Seq(Jobs)
    BY <1>3, <2>1, AppendProperties
  <2>3. next' = [version |-> db.version, applied |-> Append(db.applied, Job.id),
                 agent |-> db.agent, run |-> db.run]
    BY <1>1, <2>1 DEF Stamped
  <2> QED BY <1>4, <2>2, <2>3 DEF Database
<1>6. Written' = Written /\ Durable' = Durable /\ \A j : InEffect(j)' <=> InEffect(j)
  BY <1>1, FileKept
<1>7. Queued' = Queued /\ (Live' <=> Live) /\ Job' = Job
  BY <1>1 DEF Queued, Live, Job
<1>8. StoreTypeOK'
  BY <1>1, <1>5 DEF StoreInv, StoreTypeOK
<1>9. Ordered'
  BY <1>1, <1>6, <1>7 DEF StoreInv, Ordered
<1>10. /\ Applicable(Job, data)' = Applicable(Job, data)
       /\ Stamped(Effect(Job, data))' = Stamped(Effect(Job, data))
  BY <1>1, <1>7 DEF Applicable, Throws, Effect, Stamped
<1>11. Replaced'
  BY <1>1, <1>2, <1>5, <1>6, <1>7, <1>10 DEF StoreInv, Replaced, Live
<1> QED BY <1>1, <1>2, <1>8, <1>9, <1>11 DEF StoreInv

(* Writing the temporary file changes nothing else.                         *)
LEMMA WriteStep ==
    ASSUME StoreInv, WriteEnds
    PROVE  StoreInv'
<1>1. /\ step = "writing" /\ step' = "written" /\ temp' = next
      /\ UNCHANGED <<process, data, next, file, queue, issued, settled, faults>>
  BY DEF WriteEnds
<1>2. Written' = Written /\ Durable' = Durable /\ \A j : InEffect(j)' <=> InEffect(j)
  BY <1>1, FileKept
<1>3. Queued' = Queued /\ (Live' <=> Live) /\ Job' = Job
  BY <1>1 DEF Queued, Live, Job
<1>4. StoreTypeOK'
  BY <1>1 DEF StoreInv, StoreTypeOK
<1>5. Ordered'
  BY <1>1, <1>2, <1>3 DEF StoreInv, Ordered
<1>6. /\ Applicable(Job, data)' = Applicable(Job, data)
      /\ Stamped(Effect(Job, data))' = Stamped(Effect(Job, data))
  BY <1>1, <1>3 DEF Applicable, Throws, Effect, Stamped
<1>7. Replaced'
  BY <1>1, <1>2, <1>3, <1>6 DEF StoreInv, Replaced, Live
<1> QED BY <1>4, <1>5, <1>7 DEF StoreInv

(* The first job is settled without an effect.                              *)
LEMMA RejectionStep ==
    ASSUME StoreInv, Throw \/ (PersistFails /\ Live)
    PROVE  /\ StoreInv' /\ Live /\ queue # <<>> /\ UNCHANGED <<process, data, file, issued>>
           /\ step # "renamed" /\ queue' = Tail(queue) /\ Queued' \subseteq Queued
           /\ settled' = [settled EXCEPT ![Job.id] = "failed"]
<1>1. /\ queue # <<>> /\ step # "renamed" /\ process # "booting"
      /\ UNCHANGED <<process, data, next, file, temp, issued>> /\ faults' \in 0..MaxFaults
      /\ settled' = [settled EXCEPT ![Job.id] = "failed"] /\ queue' = Tail(queue) /\ step' = "idle"
  <2>1. CASE Throw
    BY <2>1 DEF Throw, MutationThrows, Settle, StoreInv, StoreTypeOK, Replaced
  <2>2. CASE PersistFails /\ Live
    BY <2>2, StoreAssumption DEF PersistFails, Settle, Fault, Live, StoreInv, StoreTypeOK, Replaced
  <2> QED BY <2>1, <2>2
<1>2. Live /\ data \in Database /\ data = file
  BY <1>1 DEF StoreInv, StoreTypeOK, Replaced, Live
<1>3. /\ Job \in Queued /\ Job \in StoredJob /\ Job.id \in Jobs
      /\ Tail(queue) \in Seq(StoredJob) /\ Queued = {Job} \cup Range(Tail(queue))
      /\ \A job \in Range(Tail(queue)) : job.id > Job.id
      /\ \A m, n \in DOMAIN Tail(queue) : m < n => Tail(queue)[m].id < Tail(queue)[n].id
  BY <1>1, FirstJob DEF StoreInv
<1>4. Written' = Written /\ Durable' = Durable /\ \A j : InEffect(j)' <=> InEffect(j)
  BY <1>1, FileKept
<1>5. Queued' = Range(Tail(queue)) /\ (Live' <=> Live)
  BY <1>1 DEF Queued, Live
<1>6. StoreTypeOK'
  BY <1>1, <1>3 DEF StoreInv, StoreTypeOK
<1>7. Replaced'
  BY <1>1, <1>2, <1>4, <1>5 DEF StoreInv, Replaced, Live
<1>8. ~InEffect(Job.id) /\ Job.id <= issued
  BY <1>1, <1>2, <1>3, QueuedIsFresh DEF StoreInv, Ordered
<1>9. \A j \in Jobs : settled'[j] = IF j = Job.id THEN "failed" ELSE settled[j]
  BY <1>1 DEF StoreInv, StoreTypeOK
<1>10. \A j \in Jobs : j \in Nat
  BY StoreAssumption DEF Jobs
<1>11. \A job \in Queued' : job.id <= issued' /\ settled'[job.id] = "none"
  <2> SUFFICES ASSUME NEW job \in Queued' PROVE job.id <= issued /\ settled'[job.id] = "none"
    BY <1>1
  <2>1. job \in Queued /\ job.id > Job.id
    BY <1>3, <1>5
  <2>2. job \in StoredJob
    BY <1>5, <1>3, ElementOfSeq, LenProperties DEF Range
  <2>3. job.id \in Jobs /\ job.id # Job.id
    BY <1>3, <1>10, <2>1, <2>2 DEF StoredJob
  <2> QED BY <1>9, <2>1, <2>3 DEF StoreInv, Ordered
<1>12. \A j \in Jobs : /\ j > issued' => settled'[j] = "none"
                       /\ settled'[j] = "done" => InEffect(j)'
                       /\ settled'[j] = "failed" => ~InEffect(j)'
  <2> SUFFICES ASSUME NEW j \in Jobs
               PROVE  /\ j > issued => settled'[j] = "none"
                      /\ settled'[j] = "done" => InEffect(j)
                      /\ settled'[j] = "failed" => ~InEffect(j)
    BY <1>1, <1>4
  <2>1. CASE j = Job.id
    <3>1. issued \in Nat /\ ~(j > issued)
      BY <1>3, <1>8, <1>10, <2>1, StoreAssumption DEF StoreInv, StoreTypeOK
    <3> QED BY <1>8, <1>9, <2>1, <3>1
  <2>2. CASE j # Job.id
    BY <1>9, <2>2 DEF StoreInv, Ordered
  <2> QED BY <2>1, <2>2
<1>13. Ordered'
  BY <1>1, <1>2, <1>3, <1>4, <1>5, <1>11, <1>12 DEF StoreInv, Ordered
<1> QED BY <1>1, <1>2, <1>3, <1>5, <1>6, <1>7, <1>13 DEF StoreInv

(* The rename of a mutation puts it in effect, and nothing else; that of a  *)
(* migration leaves the same jobs in effect.                                *)
LEMMA RenameStep ==
    ASSUME StoreInv, Rename
    PROVE  /\ StoreInv' /\ UNCHANGED <<process, data, queue, issued, settled, faults>>
           /\ file' \in Database /\ Written' = file' /\ step' = "renamed" /\ step = "written"
           /\ process = "booting" => /\ Written' = Migrated(Written, Migrate(Written))
                                     /\ Durable' = Durable /\ \A j : InEffect(j)' <=> InEffect(j)
           /\ process # "booting" =>
                 /\ Live /\ queue # <<>> /\ data = Written /\ Applicable(Job, data)
                 /\ Job \in Queued /\ Written'.version = 4
                 /\ Written'.run = Effect(Job, Written).run
                 /\ Written'.agent = AgentAfter(Job, Written)
                 /\ Durable' = Append(Durable, Job.id)
                 /\ \A j : InEffect(j)' <=> InEffect(j) \/ j = Job.id
<1>1. /\ step = "written" /\ step' = "renamed" /\ file' = next
      /\ UNCHANGED <<process, data, next, queue, issued, settled, faults>>
  BY DEF Rename, StoreInv, Replaced
<1>2. next \in Database /\ next.version = 4 /\ process # "down"
  BY <1>1 DEF StoreInv, Replaced
<1>3. /\ Written' = next /\ Durable' = next.applied
  <2>1. file' \notin {Absent, Torn}
    BY <1>1, <1>2, RecordsAssumption
  <2> QED BY <1>1, <2>1 DEF Written, Durable
<1>4. /\ Written \in Database /\ Durable = Written.applied
      /\ file \in Database => Written = file
  BY WrittenIsDatabase DEF StoreInv, StoreTypeOK
<1>5. Queued' = Queued /\ (Live' <=> Live) /\ Job' = Job
  BY <1>1 DEF Queued, Live, Job
<1>6. StoreTypeOK'
  BY <1>1, <1>2 DEF StoreInv, StoreTypeOK
<1>7. /\ Applicable(Job, data)' = Applicable(Job, data)
      /\ Stamped(Effect(Job, data))' = Stamped(Effect(Job, data))
  BY <1>1, <1>5 DEF Applicable, Throws, Effect, Stamped
<1>8. Replaced'
  BY <1>1, <1>2, <1>3, <1>5, <1>7 DEF StoreInv, Replaced, Live
<1>9. CASE process = "booting"
  <2>1. next = Migrated(Written, Migrate(Written)) /\ queue = <<>> /\ ~Live
    BY <1>1, <1>9 DEF StoreInv, Replaced, Live
  <2>2. Durable' = Durable
    BY <1>3, <1>4, <2>1, MigrationOfDatabase
  <2>3. \A j : InEffect(j)' <=> InEffect(j)
    BY <2>2 DEF InEffect
  <2>4. Ordered'
    BY <1>1, <1>5, <2>1, <2>2, <2>3 DEF StoreInv, Ordered
  <2> QED BY <1>1, <1>2, <1>3, <1>6, <1>8, <1>9, <2>1, <2>2, <2>3, <2>4 DEF StoreInv
<1>10. CASE process # "booting"
  <2>1. /\ Live /\ queue # <<>> /\ data = file /\ data \in Database /\ Applicable(Job, data)
        /\ next = Stamped(Effect(Job, data))
    BY <1>1, <1>2, <1>10 DEF StoreInv, StoreTypeOK, Replaced, Live
  <2>2. data = Written
    BY <1>4, <2>1
  <2>3. /\ Job \in Queued /\ Job \in StoredJob /\ Job.id \in Jobs /\ ~InEffect(Job.id)
        /\ Job.id <= issued /\ settled[Job.id] = "none"
    BY <1>1, <2>1, FirstJob, QueuedIsFresh DEF StoreInv, Ordered
  <2>4. Durable \in Seq(Jobs)
    BY <1>4 DEF Database
  <2> PICK db : db = Effect(Job, Written)
    OBVIOUS
  <2>5. db \in Database /\ db.applied = Durable /\ db.agent = AgentAfter(Job, Written)
    BY <1>4, <2>1, <2>2, <2>3, EffectOfJob
  <2>6. next = [version |-> db.version, applied |-> Append(Durable, Job.id),
                agent |-> db.agent, run |-> db.run]
    <3>1. next = [db EXCEPT !.applied = Append(@, Job.id)]
      BY <2>1, <2>2 DEF Stamped
    <3>2. db = [version |-> db.version, applied |-> db.applied, agent |-> db.agent, run |-> db.run]
      BY <2>5 DEF Database
    <3> QED BY <2>5, <3>1, <3>2
  <2>7. Durable' = Append(Durable, Job.id)
    BY <1>3, <2>6
  <2>8. /\ Len(Durable) \in Nat /\ DOMAIN Durable = 1..Len(Durable)
        /\ DOMAIN Durable' = 1..Len(Durable) + 1
        /\ \A n \in 1..Len(Durable) : Durable'[n] = Durable[n]
        /\ Durable'[Len(Durable) + 1] = Job.id
    <3>1. Durable' \in Seq(Jobs) /\ Len(Durable') = Len(Durable) + 1
      BY <2>3, <2>4, <2>7, AppendProperties
    <3> QED BY <2>3, <2>4, <2>7, <3>1, AppendProperties, LenProperties
  <2>9. \A j : InEffect(j)' <=> InEffect(j) \/ j = Job.id
    <3>1. \A j : InEffect(j)' => InEffect(j) \/ j = Job.id
      BY <2>8 DEF InEffect
    <3>2. \A j : InEffect(j) => InEffect(j)'
      BY <2>8 DEF InEffect
    <3>3. ASSUME NEW j, j = Job.id PROVE InEffect(j)'
      <4>1. Len(Durable) + 1 \in 1..Len(Durable) + 1
        BY <2>8
      <4> QED BY <2>8, <3>3, <4>1 DEF InEffect
    <3> QED BY <3>1, <3>2, <3>3
  <2>10. \A n \in DOMAIN Durable' : Durable'[n] <= issued'
    <3>1. \A n \in 1..Len(Durable) : Durable[n] <= issued
      BY <2>8 DEF StoreInv, Ordered
    <3> SUFFICES ASSUME NEW n \in 1..Len(Durable) + 1 PROVE Durable'[n] <= issued
      BY <1>1, <2>8
    <3>2. n \in 1..Len(Durable) \/ n = Len(Durable) + 1
      BY <2>8
    <3> QED BY <2>3, <2>8, <3>1, <3>2
  <2>11. ASSUME NEW j \in Jobs
         PROVE  /\ settled[j] = "done" => InEffect(j)'
                /\ settled[j] = "failed" => ~InEffect(j)'
    BY <2>3, <2>9 DEF StoreInv, Ordered
  <2>12. Ordered'
    BY <1>1, <1>5, <2>10, <2>11 DEF StoreInv, Ordered
  <2> QED BY <1>1, <1>2, <1>3, <1>6, <1>8, <1>10, <2>1, <2>2, <2>3, <2>5, <2>6, <2>7, <2>9, <2>12
          DEF StoreInv
<1> QED BY <1>9, <1>10

(* A renamed mutation is published and its caller told; a renamed migration *)
(* ends the first half of the start-up.                                     *)
LEMMA PublishStep ==
    ASSUME StoreInv, Publish
    PROVE  /\ StoreInv' /\ UNCHANGED <<file, issued, faults>> /\ data' = file /\ file \in Database
           /\ step = "renamed" /\ Live'
           /\ process = "booting" => UNCHANGED <<settled, queue>> /\ process' = "recovering"
           /\ process # "booting" =>
                 /\ Live /\ queue # <<>> /\ Job \in Queued /\ InEffect(Job.id)
                 /\ process' = process /\ Queued' \subseteq Queued /\ queue' = Tail(queue)
                 /\ Job \notin Queued' /\ Queued = {Job} \cup Queued'
                 /\ settled' = [settled EXCEPT ![Job.id] = "done"]
<1>1. /\ step = "renamed" /\ data' = next /\ step' = "idle"
      /\ UNCHANGED <<next, file, temp, issued, faults>>
      /\ process' = IF process = "booting" THEN "recovering" ELSE process
      /\ settled' = IF process = "booting" THEN settled ELSE [settled EXCEPT ![Job.id] = "done"]
      /\ queue' = IF process = "booting" THEN queue ELSE Tail(queue)
  BY DEF Publish, Settle
<1>2. file = next /\ next \in Database /\ next.version = 4 /\ process # "down"
  BY <1>1 DEF StoreInv, Replaced
<1>3. /\ Written' = Written /\ Durable' = Durable /\ \A j : InEffect(j)' <=> InEffect(j)
      /\ Written = file /\ Durable = next.applied
  BY <1>1, <1>2, FileKept, WrittenIsDatabase DEF StoreInv, StoreTypeOK
<1>4. Live'
  BY <1>1, <1>2 DEF Live, StoreInv, StoreTypeOK
<1>5. CASE process = "booting"
  <2>1. queue = <<>> /\ queue' = <<>> /\ Queued = {} /\ Queued' = {}
    <3>1. queue = <<>> /\ queue' = <<>>
      BY <1>1, <1>5 DEF StoreInv, Replaced
    <3>2. DOMAIN queue = {}
      BY <3>1
    <3> QED BY <3>1, <3>2 DEF Queued, Range
  <2>2. StoreTypeOK'
    BY <1>1, <1>2, <1>5 DEF StoreInv, StoreTypeOK
  <2>3. Replaced'
    BY <1>1, <1>2, <1>5, <2>1 DEF StoreInv, Replaced, Live
  <2>4. Ordered'
    BY <1>1, <1>3, <1>5, <2>1 DEF StoreInv, Ordered
  <2> QED BY <1>1, <1>2, <1>4, <1>5, <2>1, <2>2, <2>3, <2>4 DEF StoreInv
<1>6. CASE process # "booting"
  <2>1. Live /\ queue # <<>> /\ data \in Database /\ next = Stamped(Effect(Job, data))
        /\ Applicable(Job, data)
    BY <1>1, <1>2, <1>6 DEF StoreInv, StoreTypeOK, Replaced, Live
  <2>2. /\ Job \in Queued /\ Job \in StoredJob /\ Job.id \in Jobs
        /\ Tail(queue) \in Seq(StoredJob) /\ Queued = {Job} \cup Range(Tail(queue))
        /\ \A job \in Range(Tail(queue)) : job.id > Job.id
        /\ \A m, n \in DOMAIN Tail(queue) : m < n => Tail(queue)[m].id < Tail(queue)[n].id
    BY <2>1, FirstJob DEF StoreInv
  <2>3. Queued' = Range(Tail(queue))
    BY <1>1, <1>6 DEF Queued
  <2>4. \A j \in Jobs : j \in Nat
    BY StoreAssumption DEF Jobs
  <2>5. Job \notin Queued'
    BY <2>2, <2>3, <2>4
  <2>6. data.applied \in Seq(Jobs) /\ next.applied = Append(data.applied, Job.id)
    <3> PICK db : db = Effect(Job, data)
      OBVIOUS
    <3>1. db \in Database /\ db.applied = data.applied
      BY <2>1, <2>2, EffectOfJob
    <3>2. db = [version |-> db.version, applied |-> db.applied, agent |-> db.agent, run |-> db.run]
          /\ db.applied \in Seq(Jobs)
      BY <3>1 DEF Database
    <3>3. next = [version |-> db.version, applied |-> Append(db.applied, Job.id),
                  agent |-> db.agent, run |-> db.run]
      BY <2>1, <3>2 DEF Stamped
    <3> QED BY <3>1, <3>2, <3>3
  <2>7. /\ Len(data.applied) \in Nat /\ DOMAIN data.applied = 1..Len(data.applied)
        /\ DOMAIN next.applied = 1..Len(data.applied) + 1
        /\ \A n \in 1..Len(data.applied) : next.applied[n] = data.applied[n]
        /\ next.applied[Len(data.applied) + 1] = Job.id
    <3>1. next.applied \in Seq(Jobs) /\ Len(next.applied) = Len(data.applied) + 1
      BY <2>2, <2>6, AppendProperties
    <3> QED BY <2>2, <2>6, <3>1, AppendProperties, LenProperties
  <2>8. InEffect(Job.id)
    <3>1. Len(data.applied) + 1 \in DOMAIN next.applied
      BY <2>7
    <3> QED BY <1>3, <2>7, <3>1 DEF InEffect
  <2>9. StoreTypeOK'
    BY <1>1, <1>2, <1>6, <2>2 DEF StoreInv, StoreTypeOK
  <2>10. Replaced'
    BY <1>1, <1>2, <1>6, <2>1 DEF StoreInv, Replaced, Live
  <2>11. \A j \in Jobs : settled'[j] = IF j = Job.id THEN "done" ELSE settled[j]
    BY <1>1, <1>6 DEF StoreInv, StoreTypeOK
  <2>12. ASSUME NEW job \in Queued'
         PROVE  /\ job.id <= issued' /\ settled'[job.id] = "none"
                /\ \A n \in DOMAIN next.applied : next.applied[n] < job.id
    <3>1. job \in Queued /\ job.id > Job.id
      BY <2>2, <2>3
    <3>2. job \in StoredJob
      BY <2>2, <2>3, ElementOfSeq, LenProperties DEF Range
    <3>3. job.id \in Jobs /\ job.id # Job.id
      BY <2>2, <2>4, <3>1, <3>2 DEF StoredJob
    <3>4. \A n \in 1..Len(data.applied) : data.applied[n] < job.id
      BY <2>1, <2>7, <3>1 DEF StoreInv, Ordered
    <3>5. ASSUME NEW n \in 1..Len(data.applied) + 1 PROVE next.applied[n] < job.id
      <4>1. CASE n \in 1..Len(data.applied)
        BY <2>7, <3>4, <4>1
      <4>2. CASE n = Len(data.applied) + 1
        BY <2>2, <2>4, <2>7, <3>1, <3>3, <4>2
      <4> QED BY <2>7, <4>1, <4>2
    <3> QED BY <1>1, <2>7, <2>11, <3>1, <3>3, <3>5 DEF StoreInv, Ordered
  <2>13. ASSUME NEW j \in Jobs
         PROVE  /\ j > issued' => settled'[j] = "none"
                /\ settled'[j] = "done" => InEffect(j)'
                /\ settled'[j] = "failed" => ~InEffect(j)'
    <3>1. CASE j = Job.id
      <4>1. j <= issued /\ j \in Nat /\ issued \in Nat
        BY <2>2, <2>4, <3>1, StoreAssumption DEF StoreInv, StoreTypeOK, Ordered
      <4> QED BY <1>1, <1>3, <2>8, <2>11, <3>1, <4>1
    <3>2. CASE j # Job.id
      BY <1>1, <1>3, <2>11, <3>2 DEF StoreInv, Ordered
    <3> QED BY <3>1, <3>2
  <2>14. Ordered'
    BY <1>1, <1>3, <1>6, <2>2, <2>12, <2>13 DEF StoreInv, Ordered
  <2> QED BY <1>1, <1>2, <1>4, <1>6, <2>1, <2>2, <2>3, <2>5, <2>8, <2>9, <2>10, <2>14 DEF StoreInv
<1> QED BY <1>5, <1>6

(* A process that goes down loses its queue and what it was writing, not    *)
(* the file; one that comes up takes the file as it is or prepares it.      *)
LEMMA RestartStep ==
    ASSUME StoreInv, Crash \/ Booted \/ (PersistFails /\ ~Live)
    PROVE  /\ StoreInv' /\ UNCHANGED <<file, issued, settled>> /\ queue' = <<>> /\ Queued' = {}
           /\ process' # "up"
<1>1. UNCHANGED <<file, issued, settled>> /\ queue' = <<>> /\ process' # "up"
  <2>1. CASE Crash
    BY <2>1 DEF Crash
  <2>2. CASE Booted
    BY <2>2 DEF Booted, Boot, Persist, WriteTemporary, StoreInv, Replaced
  <2>3. CASE PersistFails /\ ~Live
    BY <2>3 DEF PersistFails, Settle, StoreInv, Replaced, Live, StoreTypeOK
  <2> QED BY <2>1, <2>2, <2>3
<1>2. Queued' = {}
  <2>1. DOMAIN queue' = {}
    BY <1>1
  <2> QED BY <2>1 DEF Queued, Range
<1>3. Written' = Written /\ Durable' = Durable /\ \A j : InEffect(j)' <=> InEffect(j)
  BY <1>1, FileKept
<1>4. faults' \in 0..MaxFaults
  BY StoreAssumption DEF Crash, Booted, Boot, PersistFails, Fault, StoreInv, StoreTypeOK
<1>5. Ordered'
  <2>1. DOMAIN queue' = {}
    BY <1>1
  <2> QED BY <1>1, <1>2, <1>3, <2>1 DEF StoreInv, Ordered
<1>6. CASE Crash
  <2>1. /\ process' = "down" /\ step' = "idle" /\ data' = Absent /\ next' = Absent
        /\ UNCHANGED <<file, temp, issued, settled>>
    BY <1>6 DEF Crash
  <2>2. StoreTypeOK'
    BY <1>1, <1>4, <2>1, EmptySeq DEF StoreInv, StoreTypeOK
  <2>3. Replaced'
    BY <1>1, <2>1 DEF StoreInv, Replaced, Live
  <2> QED BY <1>1, <1>2, <1>5, <2>2, <2>3 DEF StoreInv
<1>7. CASE PersistFails /\ ~Live
  <2>1. /\ process = "booting" /\ process' = "down" /\ step' = "idle"
        /\ UNCHANGED <<data, next, file, temp, issued, settled>>
    BY <1>7 DEF PersistFails, Settle, StoreInv, StoreTypeOK, Replaced, Live
  <2>2. StoreTypeOK'
    BY <1>1, <1>4, <2>1, EmptySeq DEF StoreInv, StoreTypeOK
  <2>3. Replaced'
    BY <1>1, <2>1 DEF StoreInv, Replaced, Live
  <2> QED BY <1>1, <1>2, <1>5, <2>2, <2>3 DEF StoreInv
<1>8. CASE Booted
  <2>1. process = "down" /\ step = "idle"
    BY <1>8 DEF Booted, Boot, StoreInv, Replaced
  <2>2. /\ Written \in Database
        /\ file = Absent => Written = Empty
        /\ file # Absent => file \in Database /\ Written = file
        /\ Empty \in Database /\ file # Torn
    <3>1. /\ file \in {Absent} \cup Database /\ Absent # Torn
          /\ {Absent, Torn} \cap Database = {}
      BY RecordsAssumption, StoreAssumption DEF StoreInv, StoreTypeOK
    <3> QED BY <3>1, WrittenIsDatabase
  <2>3. CASE file = Absent
    <3>1. /\ process' = "booting" /\ data' = Empty /\ next' = Empty /\ step' = "writing"
      BY <1>8, <2>3 DEF Booted, Boot, Persist
    <3>2. Empty = Migrated(Empty, Migrate(Empty)) /\ Empty.version = 4
      BY DEF Empty, Migrated, Migrate, NoRun
    <3>3. StoreTypeOK'
      BY <1>1, <1>4, <2>2, <3>1, EmptySeq DEF StoreInv, StoreTypeOK
    <3>4. next' = Migrated(Written', Migrate(Written'))
      BY <1>3, <2>2, <2>3, <3>1, <3>2
    <3>5. Replaced'
      BY <1>1, <2>2, <3>1, <3>2, <3>4 DEF StoreInv, Replaced, Live
    <3> QED BY <1>1, <1>2, <1>5, <3>3, <3>5 DEF StoreInv
  <2>4. CASE file # Absent /\ file.version = 4
    <3>1. process' = "recovering" /\ data' = file /\ UNCHANGED <<next, temp, step>>
      BY <1>8, <2>4 DEF Booted, Boot
    <3>2. StoreTypeOK'
      BY <1>1, <1>4, <2>2, <2>4, <3>1, EmptySeq DEF StoreInv, StoreTypeOK
    <3>3. Replaced'
      BY <1>1, <2>1, <2>2, <2>4, <3>1 DEF StoreInv, Replaced, Live
    <3> QED BY <1>1, <1>2, <1>5, <3>2, <3>3 DEF StoreInv
  <2>5. CASE file # Absent /\ file.version # 4
    <3>1. /\ process' = "booting" /\ step' = "writing"
          /\ next' = Migrated(file, Migrate(file)) /\ data' = Migrated(file, Migrate(file))
      BY <1>8, <2>2, <2>5 DEF Booted, Boot, Persist
    <3>2. next' \in Database /\ next'.version = 4
      BY <2>2, <2>5, <3>1, MigrationOfDatabase
    <3>3. StoreTypeOK'
      BY <1>1, <1>4, <3>1, <3>2, EmptySeq DEF StoreInv, StoreTypeOK
    <3>4. next' = Migrated(Written', Migrate(Written'))
      BY <1>3, <2>2, <2>5, <3>1
    <3>5. Replaced'
      BY <1>1, <3>1, <3>2, <3>4 DEF StoreInv, Replaced, Live
    <3> QED BY <1>1, <1>2, <1>5, <3>3, <3>5 DEF StoreInv
  <2> QED BY <2>3, <2>4, <2>5
<1> QED BY <1>6, <1>7, <1>8

(* Every step of the store keeps its invariant.                             *)
LEMMA StoreInvStep ==
    ASSUME StoreInv, StoreStep
    PROVE  StoreInv'
<1>1. CASE Unstored /\ faults' \in 0..MaxFaults
  BY <1>1, UnstoredStep
<1>2. CASE \E job \in StoredJob : Live /\ Mutate(job)
  BY <1>2, CallStep
<1>3. CASE Apply /\ Applicable(Job, data)
  BY <1>3, ApplyStep
<1>4. CASE Throw \/ (PersistFails /\ Live)
  BY <1>4, RejectionStep
<1>5. CASE WriteEnds
  BY <1>5, WriteStep
<1>6. CASE Rename
  BY <1>6, RenameStep
<1>7. CASE Publish
  BY <1>7, PublishStep
<1>8. CASE Crash \/ Booted \/ (PersistFails /\ ~Live)
  BY <1>8, RestartStep
<1>9. CASE /\ process = "recovering" /\ process' \in {"up", "down"} /\ queue = <<>>
           /\ UNCHANGED <<data, next, file, temp, queue, step, issued, settled, faults>>
  <2>1. Written' = Written /\ Durable' = Durable /\ \A j : InEffect(j)' <=> InEffect(j)
    BY <1>9, FileKept
  <2>2. DOMAIN queue = {} /\ Queued = {} /\ Queued' = {}
    BY <1>9 DEF Queued, Range
  <2>3. step = "idle" /\ Live
    BY <1>9 DEF StoreInv, Replaced, Live
  <2>4. StoreTypeOK'
    BY <1>9 DEF StoreInv, StoreTypeOK
  <2>5. Replaced'
    BY <1>9, <2>3 DEF StoreInv, Replaced, Live
  <2>6. Ordered'
    BY <1>9, <2>1, <2>2 DEF StoreInv, Ordered
  <2> QED BY <2>4, <2>5, <2>6 DEF StoreInv
<1> QED BY <1>1, <1>2, <1>3, <1>4, <1>5, <1>6, <1>7, <1>8, <1>9 DEF StoreStep

(* Every step of the store is one of its promise: it puts the next job in   *)
(* effect, answers one that is, rejects one that is not, or shows nothing.  *)
LEMMA StoreKeepsPromise ==
    ASSUME StoreInv, StoreStep
    PROVE  [Promise!DurableNext]_<<Durable, settled>>
<1>1. CASE UNCHANGED <<file, settled>>
  BY <1>1, FileKept
<1>2. CASE Throw \/ (PersistFails /\ Live)
  <2>1. /\ queue # <<>> /\ Live /\ step # "renamed" /\ UNCHANGED file
        /\ settled' = [settled EXCEPT ![Job.id] = "failed"]
    BY <1>2, RejectionStep
  <2>2. Job \in Queued /\ Job.id \in Jobs /\ settled[Job.id] = "none" /\ ~InEffect(Job.id)
    BY <2>1, FirstJob, QueuedIsFresh DEF StoreInv, Ordered
  <2>3. Durable' = Durable
    BY <2>1, FileKept
  <2>4. Promise!Rejected(Job.id)
    BY <2>1, <2>2, <2>3 DEF Promise!Rejected, InEffect
  <2> QED BY <2>2, <2>4 DEF Promise!DurableNext
<1>3. CASE Rename
  <2>1. UNCHANGED settled /\ step = "written"
    BY <1>3, RenameStep
  <2>2. CASE process = "booting"
    BY <1>3, <2>1, <2>2, RenameStep
  <2>3. CASE process # "booting"
    <3>1. Live /\ queue # <<>> /\ Durable' = Append(Durable, Job.id) /\ data = Written
      BY <1>3, <2>3, RenameStep
    <3>2. Job \in Queued /\ Job.id \in Jobs /\ settled[Job.id] = "none"
      BY <3>1, FirstJob DEF StoreInv, Ordered
    <3>3. \A n \in DOMAIN Durable : Durable[n] < Job.id
      <4>1. Durable = data.applied
        BY <3>1, WrittenIsDatabase DEF StoreInv, StoreTypeOK
      <4> QED BY <3>1, <3>2, <4>1 DEF StoreInv, Ordered
    <3>4. Promise!TakesEffect(Job.id)
      BY <2>1, <3>1, <3>2, <3>3 DEF Promise!TakesEffect, Promise!Fresh
    <3> QED BY <3>2, <3>4 DEF Promise!DurableNext
  <2> QED BY <2>2, <2>3
<1>4. CASE Publish
  <2>1. UNCHANGED file /\ Durable' = Durable
    BY <1>4, PublishStep, FileKept
  <2>2. CASE process = "booting"
    BY <1>4, <2>1, <2>2, PublishStep
  <2>3. CASE process # "booting"
    <3>1. /\ queue # <<>> /\ InEffect(Job.id) /\ Job \in Queued
          /\ settled' = [settled EXCEPT ![Job.id] = "done"]
      BY <1>4, <2>3, PublishStep
    <3>2. Job.id \in Jobs /\ settled[Job.id] = "none"
      BY <3>1, FirstJob DEF StoreInv, Ordered
    <3>3. Promise!Answered(Job.id)
      BY <2>1, <3>1, <3>2 DEF Promise!Answered, InEffect
    <3> QED BY <3>2, <3>3 DEF Promise!DurableNext
  <2> QED BY <2>2, <2>3
<1>5. CASE Apply /\ Applicable(Job, data)
  BY <1>1, <1>5, ApplyStep
<1>6. CASE Crash \/ Booted \/ (PersistFails /\ ~Live)
  BY <1>1, <1>6, RestartStep
<1> QED BY <1>1, <1>2, <1>3, <1>4, <1>5, <1>6 DEF StoreStep, Unstored, Mutate, WriteEnds

-----------------------------------------------------------------------------
(* Rows under mutations.                                                   *)

(* A log within a bound is within a greater one.                            *)
LEMMA BoundGrows ==
    ASSUME NEW run \in RunRow, NEW b \in Nat, NEW c \in Nat, b <= c, RunOK(run, b)
    PROVE  RunOK(run, c)
<1>1. run.log \in Seq(LogEntry)
  BY DEF RunRow
<1>2. ASSUME NEW n \in 1..Len(run.log) PROVE run.log[n].event <= c
  <2>1. run.log[n] \in LogEntry
    BY <1>1, ElementOfSeq
  <2>2. run.log[n].event \in Nat /\ run.log[n].event <= b
    BY <2>1 DEF LogEntry, RunOK
  <2> QED BY <2>2
<1> QED BY <1>2 DEF RunOK

(* What the log keeps to when an entry is added behind events that are all  *)
(* greater than 0 and at most b: a progress event keeps it going, the       *)
(* terminal entry ends it.                                                  *)
LEMMA RowAfterEntry ==
    ASSUME NEW run \in RunRow, NEW b \in Nat, NEW c \in Nat, b <= c, RunOK(run, b),
           Unclosed(run.log), NEW event \in Nat, event = 0 \/ (b < event /\ event <= c),
           NEW new \in RunRow, new.log = AddRunProgress(run.log, event),
           new.status = "running" => event > 0,
           new.status \in {"running"} \cup Outcomes,
           new.status \in Outcomes => event = 0,
           new.status = "completed" => new.mandate = "closed"
    PROVE  Precedes(run.log, event) /\ RunOK(new, c)
<1>1. /\ run.log \in Seq(LogEntry) /\ Window(run.log)
      /\ \A n \in 1..Len(run.log) : run.log[n].event <= b /\ run.log[n].event > 0
  BY DEF RunRow, RunOK, Unclosed
<1>2. \A n \in 1..Len(run.log) : run.log[n].event \in Nat
  <2>1. \A n \in 1..Len(run.log) : run.log[n] \in LogEntry
    BY <1>1, ElementOfSeq
  <2> QED BY <2>1 DEF LogEntry
<1>3. Precedes(run.log, event)
  <2>1. ASSUME NEW n \in 1..Len(run.log), event # 0 PROVE run.log[n].event < event
    BY <1>1, <1>2, <2>1
  <2> QED BY <1>1, <2>1 DEF Precedes
<1> PICK log : log = AddRunProgress(run.log, event)
  OBVIOUS
<1>4. /\ log \in Seq(LogEntry) /\ Window(log) /\ log # <<>> /\ log[Len(log)].event = event
      /\ \A n \in 1..Len(log) :
            log[n].event = event \/ \E m \in 1..Len(run.log) : log[n].event = run.log[m].event
  BY <1>1, <1>3, AddsEntry
<1>5. ASSUME NEW n \in 1..Len(log)
      PROVE  /\ log[n].event <= c
             /\ event > 0 => log[n].event > 0
  <2>1. CASE log[n].event = event
    BY <2>1
  <2>2. CASE \E m \in 1..Len(run.log) : log[n].event = run.log[m].event
    <3> PICK m \in 1..Len(run.log) : log[n].event = run.log[m].event
      BY <2>2
    <3>1. run.log[m].event \in Nat /\ run.log[m].event <= b /\ run.log[m].event > 0
      BY <1>1, <1>2
    <3> QED BY <3>1
  <2> QED BY <1>4, <2>1, <2>2
<1>6. RunOK(new, c)
  <2>1. new.log = log /\ new.status # "none"
    BY DEF Outcomes
  <2> QED BY <1>4, <1>5, <2>1 DEF RunOK, Unclosed, Outcomes
<1> QED BY <1>3, <1>6

(* The row of the Run that a job leaves.                                    *)
LEMMA RunAfterJob ==
    ASSUME NEW job \in StoredJob, NEW db \in Database, Applicable(job, db),
           NEW b \in Nat, NEW c \in Nat, b <= c, RunOK(db.run, b),
           job.kind = "progress" => b < job.value /\ job.value <= c,
           job.kind = "end" => /\ Unfinished(db.run)
                               /\ job.value = "completed" => job.mandate = "closed",
           job.kind = "revoke" /\ job.value # 0 => db.run.status # "completed",
           db.agent = Absent => db.run = NoRun
    PROVE  LET run == Effect(job, db).run
           IN  /\ RunOK(run, c)
               /\ AgentAfter(job, db) = Absent => run = NoRun
               /\ job.kind = "delete" \/ (job.kind # "start" /\ db.run = NoRun) => run = NoRun
               /\ job.kind = "start" => Unfinished(run)
               /\ job.kind \in {"recover", "end"} => run.status # "running"
               /\ job.kind \notin {"recover", "end"} /\ Unfinished(db.run) => Unfinished(run)
               /\ run.status = "running" => db.run.status = "running" \/ job.kind = "start"
               /\ run.status = "completed" =>
                     \/ db.run.status = "completed"
                     \/ job.kind = "end" /\ job.value = "completed"
               /\ run.mandate = "revoked" =>
                     \/ db.run.mandate = "revoked"
                     \/ job.kind = "revoke" /\ job.value # 0
<1>1. /\ db = [version |-> db.version, applied |-> db.applied, agent |-> db.agent, run |-> db.run]
      /\ db.agent \in {Absent} \cup 0..MaxRequests /\ db.run \in RunRow
  BY DEF Database
<1>2. /\ db.run = [status |-> db.run.status, mandate |-> db.run.mandate, log |-> db.run.log]
      /\ db.run.status \in Statuses /\ db.run.log \in Seq(LogEntry)
      /\ db.run.mandate \in {"none", "active", "pending", "closed", "revoked"}
  BY <1>1 DEF RunRow
<1>3. 0 # Absent /\ \A n \in 0..MaxRequests : n # Absent
  BY RecordsAssumption
<1>4. RunOK(db.run, c)
  BY <1>1, BoundGrows
<1>5. RunOK(NoRun, c)
  <2>1. /\ Len(NoRun.log) = 0 /\ NoRun.log = <<>> /\ NoRun.status = "none"
        /\ 1..Len(NoRun.log) = {}
    BY DEF NoRun
  <2> QED BY <2>1, RecordsAssumption DEF RunOK, Window, Unclosed
<1>6. job.kind \in {"create", "update", "delete", "revoke", "reconcile",
                    "start", "progress", "recover", "end"}
  BY DEF StoredJob, RequestKinds
<1> PICK run : run = Effect(job, db).run
  OBVIOUS
<1>15. NoRun.status = "none" /\ NoRun.mandate = "none" /\ Unfinished(NoRun)
  <2>1. NoRun.status = "none" /\ NoRun.mandate = "none" /\ Len(NoRun.log) = 0
    BY DEF NoRun
  <2> QED BY <2>1 DEF Unfinished, Unclosed
<1>7. CASE job.kind \in {"create", "update"}
  <2>1. run = db.run
    BY <1>1, <1>7 DEF Effect
  <2>2. AgentAfter(job, db) # Absent
    <3>1. job.kind = "update" => job.value \in 0..MaxRequests
      BY DEF StoredJob, RequestKinds
    <3> QED BY <1>3, <1>7, <3>1 DEF AgentAfter
  <2> QED BY <1>4, <1>7, <2>1, <2>2
<1>8. CASE job.kind = "delete"
  <2>1. run = NoRun
    BY <1>1, <1>8 DEF Effect
  <2> QED BY <1>5, <1>8, <1>15, <2>1
<1>9. CASE job.kind = "start"
  <2>1. run = [status |-> "running", mandate |-> "active", log |-> <<>>]
    BY <1>1, <1>9 DEF Effect
  <2>2. db.agent # Absent /\ AgentAfter(job, db) = db.agent
    BY <1>9 DEF Applicable, Throws, AgentAfter
  <2>3. /\ Len(run.log) = 0 /\ run.log = <<>>
        /\ run.status = "running" /\ run.mandate = "active"
    BY <2>1
  <2>4. Unfinished(run) /\ RunOK(run, c)
    BY <2>3, RecordsAssumption DEF RunOK, Window, Unfinished, Unclosed, Outcomes
  <2> QED BY <1>9, <2>2, <2>3, <2>4
<1>10. CASE job.kind = "progress"
  <2>1. AgentAfter(job, db) = db.agent
    BY <1>10 DEF AgentAfter
  <2>2. CASE ~Executing(db)
    <3>1. run = db.run
      BY <1>10, <2>2 DEF Effect
    <3> QED BY <1>4, <1>10, <2>1, <3>1
  <2>3. CASE Executing(db)
    <3> PICK log : log = AddRunProgress(db.run.log, job.value)
      OBVIOUS
    <3>1. run = [status |-> db.run.status, mandate |-> db.run.mandate, log |-> log]
      BY <1>1, <1>2, <1>10, <2>3 DEF Effect
    <3>2. job.value \in Nat /\ db.run.status = "running"
      BY <1>10, <2>3 DEF StoredJob, RequestKinds, Executing
    <3>3. log \in Seq(LogEntry)
      BY <1>2, <1>10, <2>3, <3>2, AddsEntry DEF Applicable
    <3>4. /\ run \in RunRow /\ run.log = log /\ run.status = "running" /\ job.value > 0
          /\ run.mandate = db.run.mandate
      BY <1>2, <1>10, <3>1, <3>2, <3>3 DEF RunRow
    <3>7. Unclosed(db.run.log)
      BY <3>2 DEF RunOK, Outcomes
    <3>5. RunOK(run, c)
      BY <1>1, <1>10, <3>2, <3>4, <3>7, RowAfterEntry DEF Outcomes
    <3>8. Unfinished(run)
      BY <3>4, <3>5 DEF Unfinished, RunOK, Outcomes
    <3>6. db.agent # Absent
      BY <1>15, <3>2
    <3> QED BY <1>10, <1>15, <2>1, <2>3, <3>2, <3>4, <3>5, <3>6, <3>8
  <2> QED BY <2>2, <2>3
<1>11. CASE job.kind = "recover"
  <2>1. AgentAfter(job, db) = db.agent
    BY <1>11 DEF AgentAfter
  <2>2. CASE ~Executing(db)
    <3>1. run = db.run
      BY <1>11, <2>2 DEF Effect, Recovered
    <3> QED BY <1>4, <1>11, <2>1, <2>2, <3>1 DEF Executing
  <2>3. CASE Executing(db)
    <3>1. /\ run.status = "cancelled" /\ run.log = db.run.log
          /\ run.mandate \in {"closed", "pending"}
      BY <1>1, <1>2, <1>11, <2>3 DEF Effect, Recovered
    <3>2. db.run.status = "running" /\ db.agent # Absent
      BY <1>15, <2>3 DEF Executing
    <3>3. RunOK(run, c)
      BY <1>4, <3>1, <3>2 DEF RunOK, Outcomes
    <3> QED BY <1>11, <1>15, <2>1, <2>3, <3>1, <3>2, <3>3
  <2> QED BY <2>2, <2>3
<1>12. CASE job.kind = "end"
  <2>1. AgentAfter(job, db) = db.agent
    BY <1>12 DEF AgentAfter
  <2>4. db.agent = Absent => db.run.status = "none"
    BY <1>15
  <2>2. CASE db.run.status = "none"
    <3>1. run = db.run
      BY <1>12, <2>2 DEF Effect, Ended
    <3> QED BY <1>4, <1>12, <2>1, <2>2, <3>1
  <2>3. CASE db.run.status # "none"
    <3>1. Unclosed(db.run.log) /\ db.agent # Absent /\ db.run # NoRun
      BY <1>12, <1>15, <2>3, <2>4 DEF Unfinished
    <3> PICK log : log = AddRunProgress(db.run.log, 0)
      OBVIOUS
    <3>2. run = [status |-> job.value, mandate |-> job.mandate, log |-> log]
      BY <1>1, <1>2, <1>12, <2>3, <3>1 DEF Effect, Ended
    <3>3. log \in Seq(LogEntry)
      BY <1>2, <1>12, <2>3, AddsEntry DEF Applicable
    <3>4. job.value \in Outcomes /\ job.mandate \in {"closed", "pending"}
      BY <1>12 DEF StoredJob, RequestKinds
    <3>5. /\ run \in RunRow /\ run.log = log /\ run.status \in Outcomes
          /\ run.status = job.value /\ run.mandate = job.mandate
      BY <3>2, <3>3, <3>4 DEF RunRow, Statuses, Outcomes
    <3>6. RunOK(run, c)
      BY <1>1, <1>12, <3>1, <3>5, RowAfterEntry DEF Outcomes
    <3> QED BY <1>12, <2>1, <3>1, <3>4, <3>5, <3>6 DEF Outcomes
  <2> QED BY <2>2, <2>3
<1>13. CASE job.kind = "revoke"
  <2>1. AgentAfter(job, db) = db.agent
    BY <1>13 DEF AgentAfter
  <2>2. CASE job.value = 0 \/ db.run.status = "none"
    <3>1. run = db.run
      BY <1>13, <2>2 DEF Effect
    <3> QED BY <1>4, <1>13, <2>1, <3>1
  <2>3. CASE ~(job.value = 0 \/ db.run.status = "none")
    <3>1. /\ run.status = IF db.run.status = "running" THEN "cancelled" ELSE db.run.status
          /\ run.mandate = "revoked" /\ run.log = db.run.log
      BY <1>1, <1>2, <1>13, <2>3 DEF Effect, Revoked, Executing
    <3>2. RunOK(run, c)
      BY <1>4, <1>13, <2>3, <3>1 DEF RunOK, Outcomes
    <3>3. Unfinished(db.run) => Unfinished(run)
      BY <2>3, <3>1 DEF Unfinished
    <3>4. db.agent # Absent /\ db.run # NoRun
      BY <1>15, <2>3
    <3> QED BY <1>13, <2>1, <2>3, <3>1, <3>2, <3>3, <3>4
  <2> QED BY <2>2, <2>3
<1>14. CASE job.kind = "reconcile"
  <2>1. AgentAfter(job, db) = db.agent
    BY <1>14 DEF AgentAfter
  <2>2. CASE db.run.mandate # "pending"
    <3>1. run = db.run
      BY <1>14, <2>2 DEF Effect
    <3> QED BY <1>4, <1>14, <2>1, <3>1
  <2>3. CASE db.run.mandate = "pending"
    <3>1. run.status = db.run.status /\ run.mandate = "closed" /\ run.log = db.run.log
      BY <1>1, <1>2, <1>14, <2>3 DEF Effect
    <3>2. db.run # NoRun /\ db.run.status # "none"
      BY <1>4, <1>15, <2>3 DEF RunOK
    <3>3. RunOK(run, c)
      BY <1>4, <3>1, <3>2 DEF RunOK, Outcomes
    <3>4. Unfinished(db.run) => Unfinished(run)
      BY <2>3, <3>1 DEF Unfinished
    <3> QED BY <1>14, <2>1, <3>1, <3>2, <3>3, <3>4
  <2> QED BY <2>2, <2>3
<1> QED BY <1>6, <1>7, <1>8, <1>9, <1>10, <1>11, <1>12, <1>13, <1>14

-----------------------------------------------------------------------------
(* What a job of the queue tells of its owner.                              *)

LEMMA StoredIsNat ==
    ASSUME RecordsTypeOK, ChainInv
    PROVE  /\ Stored \in Nat /\ events - Len(chain) \in Nat /\ Len(chain) \in Nat /\ events \in Nat
           /\ writing \in Nat
<1>1. events \in Nat /\ writing \in Nat
  BY RecordsAssumption, StoreAssumption DEF RecordsTypeOK, StoreTypeOK
<1>2. Len(chain) \in Nat /\ Len(chain) <= events
  BY LenProperties DEF RecordsTypeOK, ChainInv
<1>3. events - Len(chain) \in Nat
  BY <1>1, <1>2
<1>4. CASE chain # <<>> /\ writing # 0 /\ InEffect(writing)
  BY <1>1, <1>2, <1>3, <1>4 DEF Stored
<1>5. CASE ~(chain # <<>> /\ writing # 0 /\ InEffect(writing))
  BY <1>1, <1>2, <1>3, <1>5 DEF Stored
<1> QED BY <1>4, <1>5

(* A job of the queue that is not renamed: its owner waits, and what the    *)
(* file says of the Run is still as before the job.                         *)
LEMMA OwnerOf ==
    ASSUME RecordsInv, Live, step # "renamed", NEW job \in Queued
    PROVE  /\ job \in StoredJob /\ job.id \in Jobs /\ job.id # 0 /\ ~InEffect(job.id)
           /\ settled[job.id] = "none" /\ Owned(job)
           /\ job.kind = "start" =>
                 job.id = writing /\ execution = "starting" /\ Written.run = NoRun
           /\ job.kind = "progress" =>
                 /\ job.id = writing /\ execution \in {"running"} \cup Outcomes
                 /\ chain # <<>> /\ Stored = events - Len(chain) /\ job.value = Stored + 1
           /\ job.kind = "end" =>
                 /\ job.id = writing /\ execution \in {"completing", "failing"}
                 /\ Unfinished(Written.run)
                 /\ job.value = "completed" =>
                       job.mandate = "closed" /\ execution = "completing"
           /\ job.kind = "recover" => job.id = writing /\ process = "recovering"
           /\ job.kind = "revoke" => \E c \in Callers :
                 /\ requests[c].op = "revoke" /\ requests[c].phase = "mutating"
                 /\ requests[c].job = job.id /\ requests[c].value = job.value
           /\ process = "recovering" => job.id = writing
<1>1. job \in StoredJob /\ job.id \in Jobs /\ job.id # 0
  <2>1. queue \in Seq(StoredJob)
    BY DEF RecordsInv, StoreInv, StoreTypeOK
  <2>2. job \in StoredJob
    BY <2>1, ElementOfSeq, LenProperties DEF Queued, Range
  <2> QED BY <2>2, StoreAssumption DEF StoredJob, Jobs
<1>2. ~InEffect(job.id) /\ settled[job.id] = "none"
  BY QueuedIsFresh DEF RecordsInv, StoreInv, Ordered
<1>3. Owned(job)
  BY DEF RecordsInv, Together
<1>4. CASE job.kind \in RequestKinds
  BY <1>1, <1>2, <1>3, <1>4 DEF RequestKinds, Owned
<1>5. CASE job.kind \notin RequestKinds
  <2>1. job.id = writing /\ job.kind \in KindsOf(execution)
    BY <1>3, <1>5 DEF Owned
  <2>2. execution \in {"none", "starting", "running", "completing", "failing", "lost", "over"}
                      \cup Outcomes
    BY DEF RecordsInv, RecordsTypeOK
  <2>3. /\ job.kind = "start" => execution = "starting"
        /\ job.kind = "progress" => execution \in {"running"} \cup Outcomes
        /\ job.kind = "end" => execution \in {"completing", "failing"}
    BY <2>1, <2>2 DEF KindsOf, Outcomes
  <2>4. job.kind = "start" => Written.run = NoRun
    BY <1>2, <2>1, <2>3 DEF RecordsInv, Together, Stage
  <2>5. job.kind = "end" => /\ Unfinished(Written.run)
                            /\ job.value = "completed" =>
                                  job.mandate = "closed" /\ execution = "completing"
    BY <1>2, <1>3, <2>1, <2>3 DEF RecordsInv, Together, Stage, Owned
  <2>6. job.kind = "recover" => process = "recovering"
    BY <1>3 DEF Owned, Live
  <2>7. ASSUME job.kind = "progress"
        PROVE  chain # <<>> /\ Stored = events - Len(chain) /\ job.value = Stored + 1
    <3>1. chain # <<>> /\ job.value = Head(chain) /\ chain \in Seq(Nat)
      BY <1>3, <2>7 DEF Owned, RecordsInv, RecordsTypeOK
    <3>2. events - Len(chain) \in Nat /\ Len(chain) \in Nat /\ events \in Nat
      BY StoredIsNat DEF RecordsInv, Together
    <3>3. Stored = events - Len(chain)
      BY <1>2, <2>1, <3>2 DEF Stored
    <3>4. 1 \in 1..Len(chain) /\ Head(chain) = chain[1]
      BY <3>1, <3>2, EmptySeq, HeadTailProperties
    <3>5. chain[1] = events - Len(chain) + 1
      BY <3>4 DEF RecordsInv, Together, ChainInv
    <3> QED BY <3>1, <3>3, <3>4, <3>5
  <2> QED BY <1>1, <1>2, <1>3, <1>5, <2>1, <2>3, <2>4, <2>5, <2>6, <2>7 DEF RequestKinds
<1> QED BY <1>4, <1>5

(* The first job can be applied.                                            *)
LEMMA FirstIsApplicable ==
    ASSUME RecordsInv, Apply
    PROVE  Applicable(Job, data)
<1>1. step = "idle" /\ queue # <<>> /\ ~Throws(Job, data)
  BY DEF Apply, Applies
<1>2. Live /\ data = file /\ file \in Database
  BY <1>1 DEF RecordsInv, StoreInv, StoreTypeOK, Replaced, Live
<1>3. data = Written /\ Written.run \in RunRow
  BY <1>2, WrittenIsDatabase DEF RecordsInv, StoreInv, StoreTypeOK, Database
<1>4. Job \in Queued
  BY <1>1, FirstJob DEF RecordsInv, StoreInv
<1>5. RunOK(Written.run, Stored) /\ Stored \in Nat
  BY StoredIsNat DEF RecordsInv, Together, RowInv
<1>6. Written.run.log \in Seq(LogEntry)
  BY <1>3 DEF RunRow
<1>7. ASSUME NEW n \in 1..Len(Written.run.log)
      PROVE  Written.run.log[n].event \in Nat /\ Written.run.log[n].event <= Stored
  <2>1. Written.run.log[n] \in LogEntry
    BY <1>6, ElementOfSeq
  <2> QED BY <1>5, <2>1 DEF LogEntry, RunOK
<1>8. ASSUME Job.kind = "progress", Executing(data) PROVE Precedes(data.run.log, Job.value)
  <2>1. Job.value = Stored + 1 /\ Written.run.status = "running"
    BY <1>1, <1>2, <1>3, <1>4, <1>8, OwnerOf DEF Executing
  <2>2. \A n \in 1..Len(Written.run.log) : Written.run.log[n].event > 0
    BY <1>5, <2>1 DEF RunOK, Outcomes, Unclosed
  <2>3. \A n \in 1..Len(Written.run.log) : Written.run.log[n].event < Job.value
    BY <1>5, <1>7, <2>1
  <2> QED BY <1>3, <2>2, <2>3 DEF Precedes
<1>9. ASSUME Job.kind = "end", data.run.status # "none" PROVE Precedes(data.run.log, 0)
  <2>1. Unfinished(Written.run)
    BY <1>1, <1>2, <1>3, <1>4, <1>9, OwnerOf
  <2> QED BY <1>3, <2>1 DEF Unfinished, Unclosed, Precedes
<1> QED BY <1>1, <1>3, <1>5, <1>8, <1>9 DEF Applicable, RunOK

(* How the row of the Run follows from the one before the job.              *)
RunFollows(job, run, later) ==
    /\ job.kind = "delete" \/ (job.kind # "start" /\ run = NoRun) => later = NoRun
    /\ job.kind = "start" => Unfinished(later)
    /\ job.kind \in {"recover", "end"} => later.status # "running"
    /\ job.kind \notin {"recover", "end"} /\ Unfinished(run) => Unfinished(later)
    /\ later.status = "running" => run.status = "running" \/ job.kind = "start"
    /\ later.status = "completed" =>
          run.status = "completed" \/ (job.kind = "end" /\ job.value = "completed")
    /\ later.mandate = "revoked" =>
          run.mandate = "revoked" \/ (job.kind = "revoke" /\ job.value # 0)

(* A revocation that is in effect found no completed Run.                   *)
LEMMA RevocationIsConfirmed ==
    ASSUME RecordsInv, Live, step # "renamed", NEW job \in Queued, job.kind = "revoke",
           job.value # 0
    PROVE  authority # "live" /\ ~Completes
<1> PICK c \in Callers : /\ requests[c].op = "revoke" /\ requests[c].phase = "mutating"
                         /\ requests[c].job = job.id /\ requests[c].value = job.value
  BY OwnerOf
<1>1. Revoking(c)
  BY DEF Revoking
<1> QED BY <1>1 DEF RecordsInv, Together, Confirmed

(* What the rename of a mutation does to the file, by the kind of the job.  *)
LEMMA RenamedJob ==
    ASSUME RecordsInv, Rename, process # "booting", UNCHANGED recordVars
    PROVE  /\ Live /\ step # "renamed" /\ Job \in Queued /\ Applicable(Job, Written)
           /\ RunOK(Written'.run, Stored') /\ Written'.version = 4
           /\ Written'.agent = AgentAfter(Job, Written)
           /\ Written'.agent = Absent => Written'.run = NoRun
           /\ RunFollows(Job, Written.run, Written'.run)
           /\ \A j : InEffect(j)' <=> InEffect(j) \/ j = Job.id
<1>1. /\ Live /\ step = "written" /\ data = Written /\ Applicable(Job, data) /\ Job \in Queued
      /\ Written'.version = 4 /\ Written'.run = Effect(Job, Written).run
      /\ Written'.agent = AgentAfter(Job, Written)
      /\ \A j : InEffect(j)' <=> InEffect(j) \/ j = Job.id
  BY RenameStep DEF RecordsInv
<1>2. Written \in Database
  BY WrittenIsDatabase DEF RecordsInv, StoreInv, StoreTypeOK
<1>3. UNCHANGED <<events, chain, writing>>
  BY DEF recordVars
<1>4. Stored \in Nat /\ events - Len(chain) \in Nat /\ Len(chain) \in Nat /\ events \in Nat
  BY StoredIsNat DEF RecordsInv, Together
<1>5. Stored' = events - Len(chain) + (IF chain # <<>> /\ writing # 0
                                          /\ (InEffect(writing) \/ writing = Job.id) THEN 1 ELSE 0)
  BY <1>1, <1>3 DEF Stored
<1>6. Stored' \in Nat /\ Stored <= Stored'
  <2>1. CASE chain # <<>> /\ writing # 0 /\ InEffect(writing)
    BY <1>4, <1>5, <2>1 DEF Stored
  <2>2. CASE ~(chain # <<>> /\ writing # 0 /\ InEffect(writing))
    <3>1. Stored = events - Len(chain)
      BY <1>4, <2>2 DEF Stored
    <3>2. Stored' = events - Len(chain) \/ Stored' = events - Len(chain) + 1
      BY <1>4, <1>5
    <3> QED BY <1>4, <3>1, <3>2
  <2> QED BY <2>1, <2>2
<1>7. /\ Job \in StoredJob
      /\ Job.kind = "progress" => Stored < Job.value /\ Job.value <= Stored'
      /\ Job.kind = "end" => /\ Unfinished(Written.run)
                             /\ Job.value = "completed" => Job.mandate = "closed"
      /\ Job.kind = "revoke" /\ Job.value # 0 => Written.run.status # "completed"
  <2>1. /\ Job \in StoredJob /\ Job.id # 0
        /\ Job.kind = "progress" => Job.id = writing /\ chain # <<>>
              /\ Stored = events - Len(chain) /\ Job.value = Stored + 1
        /\ Job.kind = "end" => /\ Unfinished(Written.run)
                               /\ Job.value = "completed" => Job.mandate = "closed"
    BY <1>1, OwnerOf
  <2>3. Job.kind = "revoke" /\ Job.value # 0 => Written.run.status # "completed"
    BY <1>1, RevocationIsConfirmed DEF Completes
  <2>2. ASSUME Job.kind = "progress" PROVE Stored < Job.value /\ Job.value <= Stored'
    <3>1. Stored' = Stored + 1 /\ Job.value = Stored + 1
      BY <1>5, <2>1, <2>2
    <3> QED BY <1>4, <3>1
  <2> QED BY <2>1, <2>2, <2>3
<1>8. RunOK(Written.run, Stored) /\ (Written.agent = Absent => Written.run = NoRun)
  BY DEF RecordsInv, Together, RowInv
<1> PICK run, c : run = Effect(Job, Written).run /\ c = Stored'
  OBVIOUS
<1>9. /\ RunOK(run, c)
      /\ AgentAfter(Job, Written) = Absent => run = NoRun
      /\ Job.kind = "delete" \/ (Job.kind # "start" /\ Written.run = NoRun) => run = NoRun
      /\ Job.kind = "start" => Unfinished(run)
      /\ Job.kind \in {"recover", "end"} => run.status # "running"
      /\ Job.kind \notin {"recover", "end"} /\ Unfinished(Written.run) => Unfinished(run)
      /\ run.status = "running" => Written.run.status = "running" \/ Job.kind = "start"
      /\ run.status = "completed" =>
            \/ Written.run.status = "completed"
            \/ Job.kind = "end" /\ Job.value = "completed"
      /\ run.mandate = "revoked" =>
            \/ Written.run.mandate = "revoked"
            \/ Job.kind = "revoke" /\ Job.value # 0
  BY <1>1, <1>2, <1>4, <1>6, <1>7, <1>8, RunAfterJob
<1> QED BY <1>1, <1>9 DEF RunFollows

-----------------------------------------------------------------------------
(* Steps of the store, seen from the rest.                                  *)

(* A step that settles jobs, or none, without touching the file.            *)
Settling ==
    /\ UNCHANGED recordVars /\ UNCHANGED file /\ UNCHANGED process /\ UNCHANGED issued
    /\ data' = data \/ (data' = file /\ file \in Database)
    /\ Queued' \subseteq Queued
    /\ faults' = 0 => faults = 0
    /\ queue = <<>> => queue' = <<>>
    /\ \A job \in Queued : job \in Queued' \/ settled'[job.id] # "none"
    /\ \A j \in Jobs : settled[j] # "none" => settled'[j] = settled[j]
    /\ \A c \in Callers : requests[c].op = "delete" /\ requests[c].phase = "mutating"
                           /\ settled'[requests[c].job] = "failed" => faults' > 0
    /\ \A c \in Callers :
          requests[c].op = "create" /\ (requests[c].phase = "prepared" \/
             (requests[c].phase = "mutating" /\ settled'[requests[c].job] = "none"))
          => data'.agent = Absent
LEMMA SettlingStep ==
    ASSUME RecordsInv, Settling
    PROVE  Together'
<1>1. /\ UNCHANGED <<workspace, requests, made, execution, authority, events, chain, writing>>
      /\ Written' = Written /\ \A j : InEffect(j)' <=> InEffect(j)
  BY FileKept DEF recordVars, Settling
<1> issued \in Nat /\ writing \in 0..issued /\ \A j \in 1..issued : j \in Jobs
  BY StoreAssumption DEF RecordsInv, RecordsTypeOK, StoreTypeOK, Jobs
<1>2. /\ UNCHANGED <<file, process, issued>> /\ Queued' \subseteq Queued
      /\ faults' = 0 => faults = 0
      /\ queue = <<>> => queue' = <<>>
  BY DEF Settling
<1>3. NobodyForgotten'
  <2>1. ASSUME NEW j \in 1..issued, Awaited(j) PROVE Awaited(j)'
    BY <2>1, <1>2 DEF Awaited, Settling
  <2>2. writing # 0 => writing \in 1..issued
    OBVIOUS
  <2> QED BY <1>1, <1>2, <2>1, <2>2 DEF RecordsInv, Together, NobodyForgotten
<1>4. Quiet'
  BY <1>1, <1>2 DEF RecordsInv, Together, Quiet
<1>5. \A job \in Queued' : Owned(job)'
  BY <1>1, <1>2 DEF RecordsInv, Together, Owned
<1>6. ChainInv' /\ Stored' = Stored
  BY <1>1, <1>2 DEF RecordsInv, Together, ChainInv, Stored
<1>7. RowInv' /\ Stage'
  BY <1>1, <1>2, <1>6 DEF RecordsInv, Together, RowInv, Stage
<1>10. Confirmed'
  BY <1>1 DEF RecordsInv, Together, Confirmed, Revoking, Completes
<1>8. ASSUME NEW c \in Callers PROVE RequestInv(c)'
  <2>1. RequestInv(c)
    BY DEF RecordsInv, Together
  <2>2. requests[c].phase = "mutating" /\ settled'[requests[c].job] = "none"
        => settled[requests[c].job] = "none"
    BY DEF RecordsInv, Together, NobodyForgotten, Settling
  <2>3. requests[c].op = "create" /\ (requests[c].phase = "prepared" \/
                 (requests[c].phase = "mutating" /\ settled'[requests[c].job] = "none"))
        => data'.agent = Absent
    BY <2>1, <2>2 DEF RequestInv, Settling
  <2>4. requests[c].op = "delete" /\ requests[c].phase = "mutating"
           /\ settled'[requests[c].job] = "failed" => faults' > 0
    BY DEF Settling
  <2> QED BY <1>1, <1>2, <2>1, <2>2, <2>3, <2>4 DEF RequestInv
<1>9. Placed'
  <2> QED BY <1>1, <1>2 DEF RecordsInv, Together, Placed
<1>11. Remembered'
  <2>1. file \in Database => Written = file
    BY WrittenIsDatabase DEF RecordsInv, StoreInv, StoreTypeOK
  <2>2. Remembered /\ (Written.agent = Absent => Written.run = NoRun)
    BY DEF RecordsInv, Together, RowInv
  <2> QED BY <1>2, <2>1, <2>2 DEF Settling, Remembered
<1> QED BY <1>3, <1>4, <1>5, <1>6, <1>7, <1>8, <1>9, <1>10, <1>11 DEF Together

(* The rename of a mutation.                                                *)
LEMMA MutationRenamed ==
    ASSUME RecordsInv, Rename, process # "booting", UNCHANGED recordVars
    PROVE  Together'
<1>1. UNCHANGED <<process, data, queue, issued, settled, faults>>
  BY RenameStep DEF RecordsInv
<1>2. UNCHANGED <<workspace, requests, made, execution, authority, events, chain, writing>>
  BY DEF recordVars
<1>3. /\ Live /\ step # "renamed" /\ Job \in Queued /\ Applicable(Job, Written)
      /\ RunOK(Written'.run, Stored') /\ Written'.version = 4
      /\ Written'.agent = AgentAfter(Job, Written)
      /\ Written'.agent = Absent => Written'.run = NoRun
      /\ RunFollows(Job, Written.run, Written'.run)
      /\ \A j : InEffect(j)' <=> InEffect(j) \/ j = Job.id
  BY RenamedJob
<1>4. /\ Job \in StoredJob /\ Job.id # 0 /\ ~InEffect(Job.id) /\ settled[Job.id] = "none"
      /\ Owned(Job)
      /\ Job.kind = "start" => Job.id = writing /\ execution = "starting" /\ Written.run = NoRun
      /\ Job.kind = "progress" => Job.id = writing /\ execution \in {"running"} \cup Outcomes
      /\ Job.kind = "end" => /\ Job.id = writing /\ execution \in {"completing", "failing"}
                             /\ Job.value = "completed" => execution = "completing"
      /\ Job.kind = "recover" => Job.id = writing /\ process = "recovering"
      /\ process = "recovering" => Job.id = writing /\ Job.kind \in {"recover", "reconcile"}
  BY <1>3, OwnerOf DEF Owned
<1>5. Queued' = Queued
  BY <1>1 DEF Queued
<1>6. NobodyForgotten' /\ Quiet' /\ (\A job \in Queued' : Owned(job)') /\ ChainInv'
  BY <1>1, <1>2, <1>5
     DEF RecordsInv, Together, NobodyForgotten, Awaited, Quiet, Owned, ChainInv
<1>7. RowInv'
  BY <1>3 DEF RowInv
<1>8. Stage'
  <2>1. Job.kind \in {"create", "update", "delete", "revoke", "reconcile",
                      "start", "progress", "recover", "end"}
    BY <1>4 DEF StoredJob, RequestKinds
  <2>2. NoRun.status = "none"
    BY DEF NoRun
  <2>3. Stage
    BY DEF RecordsInv, Together
  <2>4. CASE Job.kind \in {"create", "update", "delete", "revoke", "reconcile"}
    <3>3. /\ Written.run = NoRun => Written'.run = NoRun
          /\ Unfinished(Written.run) => Unfinished(Written'.run)
          /\ Written'.run.status = "running" => Written.run.status = "running"
      BY <1>3, <2>4 DEF RunFollows
    <3>5. CASE process = "recovering"
      <4>1. Job.kind = "reconcile" /\ execution \in {"none", "over"}
        BY <1>4, <2>4, <3>5 DEF RecordsInv, Together, Quiet
      <4>2. writing # 0 => Written.run.status # "running"
        BY <1>3, <2>3, <3>5, <4>1 DEF Stage
      <4> QED BY <1>1, <1>2, <3>3, <3>5, <4>1, <4>2 DEF Stage, Outcomes
    <3>6. CASE process # "recovering"
      <4>1. writing # 0 =>
               execution \in {"starting", "running", "completing", "failing"} \cup Outcomes
        BY <1>3, <3>6 DEF Live, RecordsInv, Together, Quiet
      <4>2. Job.id # writing
        BY <1>4, <2>4, <4>1 DEF Owned, KindsOf, Outcomes
      <4>3. InEffect(writing)' <=> InEffect(writing)
        BY <1>2, <1>3, <4>2
      <4> QED BY <1>1, <1>2, <2>3, <3>3, <3>6, <4>3 DEF Stage
    <3> QED BY <3>5, <3>6
  <2>5. CASE Job.kind \in {"start", "progress", "recover", "end"}
    <3>1. Job.id = writing /\ InEffect(writing)' /\ ~InEffect(writing) /\ writing # 0
      BY <1>2, <1>3, <1>4, <2>5
    <3>2. CASE Job.kind = "start"
      <4>1. process = "up"
        BY <1>3, <1>4, <3>2 DEF Owned, Live
      <4> QED BY <1>1, <1>2, <1>3, <1>4, <3>1, <3>2, <4>1 DEF Stage, RunFollows, Outcomes
    <3>3. CASE Job.kind = "progress"
      <4>1. process = "up"
        BY <1>3, <1>4, <3>3 DEF Owned, Live
      <4>2. Unfinished(Written'.run)
        BY <1>3, <1>4, <2>3, <3>3 DEF Stage, RunFollows
      <4> QED BY <1>1, <1>2, <1>4, <3>3, <4>1, <4>2 DEF Stage, Outcomes
    <3>4. CASE Job.kind = "end"
      <4>1. process = "up"
        BY <1>3, <1>4, <3>4 DEF Owned, Live
      <4> QED BY <1>1, <1>2, <1>3, <1>4, <3>1, <3>4, <4>1 DEF Stage, RunFollows, Outcomes
    <3>5. CASE Job.kind = "recover"
      <4>1. execution \in {"none", "over"}
        BY <1>4, <3>5 DEF RecordsInv, Together, Quiet
      <4> QED BY <1>1, <1>2, <1>3, <1>4, <3>1, <3>5, <4>1 DEF Stage, RunFollows, Outcomes
    <3> QED BY <2>5, <3>2, <3>3, <3>4, <3>5
  <2> QED BY <2>1, <2>4, <2>5
<1>12. Confirmed'
  <2>1. Confirmed
    BY DEF RecordsInv, Together
  <2>2. Job.kind = "revoke" /\ Job.value # 0 => authority # "live" /\ ~Completes
    BY <1>3, RevocationIsConfirmed
  <2>3. Completes' => Completes
    BY <1>2, <1>3, <1>4 DEF Completes, RunFollows
  <2>4. \A c \in Callers : Revoking(c)' <=> Revoking(c)
    BY <1>2 DEF Revoking
  <2> QED BY <1>2, <1>3, <2>1, <2>2, <2>3, <2>4 DEF Confirmed, RunFollows
<1>9. Written.agent = Absent /\ workspace.at # "root" => Written'.agent = Absent
  <2> SUFFICES ASSUME Written.agent = Absent, workspace.at # "root" PROVE Written'.agent = Absent
    OBVIOUS
  <2>1. Job.kind # "update"
    BY <1>3 DEF Applicable, Throws
  <2>2. Job.kind # "create"
    <3> SUFFICES ASSUME Job.kind = "create" PROVE FALSE
      OBVIOUS
    <3> PICK c \in Callers : /\ requests[c].op = "create" /\ requests[c].phase = "mutating"
                             /\ requests[c].job = Job.id
      BY <1>4 DEF Owned, RequestKinds
    <3> QED BY <1>4 DEF RecordsInv, Together, RequestInv
  <2> QED BY <1>3, <2>1, <2>2 DEF AgentAfter
<1>10. ASSUME NEW c \in Callers PROVE RequestInv(c)'
  <2>1. RequestInv(c)
    BY DEF RecordsInv, Together
  <2>2. ASSUME requests[c].op = "delete", requests[c].phase = "mutating",
               InEffect(requests[c].job) \/ requests[c].job = Job.id
        PROVE  Written'.agent = Absent
    <3>1. CASE InEffect(requests[c].job)
      BY <1>9, <2>1, <2>2, <3>1 DEF RequestInv
    <3>2. CASE requests[c].job = Job.id
      BY <1>3, <1>4, <2>2, <3>2 DEF Owned, AgentAfter
    <3> QED BY <2>2, <3>1, <3>2
  <2>3. InEffect(requests[c].job)' <=> InEffect(requests[c].job) \/ requests[c].job = Job.id
    BY <1>2, <1>3
  <2> QED BY <1>1, <1>2, <2>1, <2>2, <2>3 DEF RequestInv
<1>11. Placed'
  BY <1>1, <1>2, <1>9 DEF RecordsInv, Together, Placed
<1>13. Remembered'
  BY <1>1 DEF RecordsInv, Together, Remembered
<1> QED BY <1>6, <1>7, <1>8, <1>10, <1>11, <1>12, <1>13 DEF Together

(* The rename of a migration.                                               *)
LEMMA MigrationRenamed ==
    ASSUME RecordsInv, Rename, process = "booting", UNCHANGED recordVars
    PROVE  Together'
<1>1. /\ UNCHANGED <<process, data, queue, issued, settled, faults>>
      /\ Written' = Migrated(Written, Migrate(Written))
      /\ \A j : InEffect(j)' <=> InEffect(j)
  BY RenameStep DEF RecordsInv
<1>2. UNCHANGED <<workspace, requests, made, execution, authority, events, chain, writing>>
  BY DEF recordVars
<1>3. Written \in Database
  BY WrittenIsDatabase DEF RecordsInv, StoreInv, StoreTypeOK
<1>4. /\ Written'.version = 4 /\ Written'.agent = Written.agent
      /\ Written'.run.mandate \in {Written.run.mandate, "closed"}
      /\ Written'.run.status = Written.run.status /\ Written'.run.log = Written.run.log
      /\ Written.run.status = "none" => Written'.run = Written.run
  BY <1>1, <1>3, MigrationOfDatabase
<1>5. Queued' = Queued /\ Stored' = Stored
  BY <1>1, <1>2 DEF Queued, Stored
<1>6. NobodyForgotten' /\ Quiet' /\ (\A job \in Queued' : Owned(job)') /\ ChainInv'
  BY <1>1, <1>2, <1>5
     DEF RecordsInv, Together, NobodyForgotten, Awaited, Quiet, Owned, ChainInv
<1>7. RowInv'
  <2>1. RunOK(Written.run, Stored) /\ (Written.agent = Absent => Written.run = NoRun)
    BY DEF RecordsInv, Together, RowInv
  <2>2. RunOK(Written'.run, Stored)
    BY <1>4, <2>1 DEF RunOK
  <2>3. Written.agent = Absent => Written'.run = NoRun
    BY <1>4, <2>1 DEF NoRun
  <2> QED BY <1>4, <1>5, <2>2, <2>3 DEF RowInv
<1>8. Stage'
  BY <1>1, <1>2 DEF RecordsInv, Together, Quiet, Stage, Outcomes
<1>9. \A c \in Callers : RequestInv(c)'
  BY <1>1, <1>2, <1>4 DEF RecordsInv, Together, RequestInv
<1>10. Placed'
  BY <1>1, <1>2, <1>4 DEF RecordsInv, Together, Placed
<1>11. Confirmed'
  BY <1>2, <1>4 DEF RecordsInv, Together, Confirmed, Revoking, Completes
<1>12. Remembered'
  BY <1>1 DEF RecordsInv, Together, Remembered
<1> QED BY <1>6, <1>7, <1>8, <1>9, <1>10, <1>11, <1>12 DEF Together

(* A start-up gets on, or a process is gone: there are no requests, and the *)
(* queue is empty.                                                          *)
LEMMA RestartedStep ==
    ASSUME RecordsInv, process' # "up", UNCHANGED <<file, workspace, made, authority, events>>,
           queue' = <<>>, \A c \in Callers : requests'[c] = Idle,
           execution' \in {"none", "over"}, chain' = <<>>, writing' = 0,
           process = "up" => faults' > 0, faults' = 0 => faults = 0
    PROVE  Together'
<1>1. Written' = Written /\ \A j : InEffect(j)' <=> InEffect(j)
  BY FileKept
<1>2. Queued' = {}
  BY DEF Queued, Range
<1>3. NobodyForgotten'
  BY DEF NobodyForgotten, Idle
<1>4. Quiet'
  BY DEF Quiet
<1>5. Len(chain') = 0
  OBVIOUS
<1>6. ChainInv'
  BY <1>5, RecordsAssumption DEF ChainInv, RecordsInv, RecordsTypeOK
<1>7. RowInv'
  <2>1. /\ events \in Nat /\ events - Len(chain) \in Nat /\ Len(chain) \in Nat /\ Stored \in Nat
    BY StoredIsNat DEF RecordsInv, Together
  <2>2. Stored' = events
    BY <1>5, <2>1 DEF Stored
  <2>3. Stored <= events
    <3>1. CASE chain = <<>>
      BY <2>1, <3>1 DEF Stored
    <3>2. CASE chain # <<>>
      <4>1. Len(chain) > 0
        BY <2>1, <3>2, EmptySeq DEF RecordsInv, RecordsTypeOK
      <4>2. Stored = events - Len(chain) \/ Stored = events - Len(chain) + 1
        BY <2>1 DEF Stored
      <4> QED BY <2>1, <4>1, <4>2
    <3> QED BY <3>1, <3>2
  <2>4. Written.run \in RunRow
    BY WrittenIsDatabase DEF RecordsInv, StoreInv, StoreTypeOK, Database
  <2>5. RunOK(Written.run, events)
    BY <2>1, <2>3, <2>4, BoundGrows DEF RecordsInv, Together, RowInv
  <2> QED BY <1>1, <2>2, <2>5 DEF RecordsInv, Together, RowInv
<1>8. Stage'
  BY DEF Stage, Outcomes
<1>11. Confirmed'
  <2>1. ~\E c \in Callers : Revoking(c)'
    BY DEF Revoking, Idle
  <2>2. Completes' => Completes
    BY <1>1 DEF Completes
  <2> QED BY <1>1, <2>1, <2>2 DEF RecordsInv, Together, Confirmed
<1>9. ASSUME NEW c \in Callers PROVE RequestInv(c)'
  <2>1. requests'[c] = Idle /\ \A d \in Callers : requests'[d].op # "create"
    BY DEF Idle
  <2>2. made' \in Nat
    BY RecordsAssumption DEF RecordsInv, RecordsTypeOK
  <2> QED BY <2>1, <2>2 DEF RequestInv, Idle
<1>10. Placed'
  <2>1. workspace.at = "nowhere" => Written.agent = Absent
    BY DEF RecordsInv, Together, Placed
  <2>2. ASSUME workspace.at = ".deleted", faults' = 0 PROVE Written.agent = Absent
    <3>1. faults = 0 /\ process # "up"
      BY <2>2
    <3>2. \A c \in Callers : requests[c].op # "delete"
      BY <3>1 DEF RecordsInv, Together, Quiet, Idle
    <3> QED BY <2>2, <3>1, <3>2 DEF RecordsInv, Together, Placed
  <2> QED BY <1>1, <2>1, <2>2 DEF Placed
<1>12. Remembered'
  BY DEF Remembered
<1> QED BY <1>2, <1>3, <1>4, <1>6, <1>7, <1>8, <1>9, <1>10, <1>11, <1>12 DEF Together

(* Every step of the queue, whoever's job it is.                            *)
LEMMA StoresStep ==
    ASSUME RecordsInv, Stores
    PROVE  StoreStep /\ Together'
<1>1. /\ UNCHANGED recordVars
      /\ (Apply \/ Throw \/ WriteEnds \/ Rename \/ Publish \/ PersistFails)
  BY DEF Stores
<1>2. StoreStep
  BY <1>1, FirstIsApplicable DEF StoreStep
<1> SUFFICES Together'
  BY <1>2
<1>3. ASSUME NEW c \in Callers, requests[c].phase = "mutating"
       PROVE  requests[c].job \in Jobs
  BY <1>3, StoreAssumption
     DEF RecordsInv, RecordsTypeOK, StoreTypeOK, Together, NobodyForgotten, Jobs
<1>4. UNCHANGED <<workspace, requests, made, execution, authority, events, chain, writing>>
  BY <1>1 DEF recordVars
<1>5. /\ faults \in Nat /\ (Live <=> process \in {"recovering", "up"})
      /\ \A j \in 1..issued : j \in Jobs
  BY StoreAssumption DEF RecordsInv, RecordsTypeOK, StoreTypeOK, Live, Jobs
<1>6. ASSUME process # "up", process' # "up", UNCHANGED file, queue' = <<>>, faults <= faults',
             faults' \in Nat, writing = 0
      PROVE  Together'
  <2>1. \A c \in Callers : requests'[c] = Idle
    BY <1>4, <1>6 DEF RecordsInv, Together, Quiet
  <2>2. execution' \in {"none", "over"} /\ chain' = <<>> /\ writing' = 0
    BY <1>4, <1>6 DEF RecordsInv, Together, Quiet
  <2>3. faults' = 0 => faults = 0
    BY <1>5, <1>6
  <2> QED BY <1>4, <1>6, <2>1, <2>2, <2>3, RestartedStep
<1>7. CASE Apply \/ WriteEnds
  <2>1. UNCHANGED <<process, data, file, queue, issued, settled, faults>>
    <3>1. CASE Apply
      BY <3>1, FirstIsApplicable, ApplyStep DEF RecordsInv
    <3>2. CASE WriteEnds
      BY <3>2 DEF WriteEnds
    <3> QED BY <1>7, <3>1, <3>2
  <2>2. Queued' = Queued
    BY <2>1 DEF Queued
  <2>3. \A c \in Callers : requests[c].op = "delete" /\ requests[c].phase = "mutating"
           /\ settled'[requests[c].job] = "failed" => faults' > 0
    BY <2>1 DEF RecordsInv, Together, RequestInv
  <2>4. \A c \in Callers :
           requests[c].op = "create" /\ (requests[c].phase = "prepared" \/
              (requests[c].phase = "mutating" /\ settled'[requests[c].job] = "none"))
           => data'.agent = Absent
    BY <2>1 DEF RecordsInv, Together, RequestInv
  <2>5. \A job \in Queued : job \in Queued'
    BY <2>2
  <2>6. Settling
    BY <1>1, <2>1, <2>2, <2>3, <2>4, <2>5 DEF Settling
  <2> QED BY <2>6, SettlingStep
<1>8. CASE Throw \/ (PersistFails /\ Live)
  <2>1. /\ Live /\ queue # <<>> /\ UNCHANGED <<process, data, file, issued>>
        /\ step # "renamed" /\ queue' = Tail(queue) /\ Queued' \subseteq Queued
        /\ settled' = [settled EXCEPT ![Job.id] = "failed"]
    BY <1>8, RejectionStep DEF RecordsInv
  <2>2. /\ Job \in Queued /\ Job.id \in Jobs /\ Queued = {Job} \cup Queued'
        /\ settled[Job.id] = "none" /\ Owned(Job)
    <3>1. queue # <<>> /\ Queued' = Range(Tail(queue))
      BY <2>1 DEF Queued
    <3> QED BY <3>1, FirstJob DEF RecordsInv, StoreInv, Ordered, Together
  <2>3. \A j \in Jobs : settled'[j] = IF j = Job.id THEN "failed" ELSE settled[j]
    <3>1. DOMAIN settled = Jobs
      BY DEF RecordsInv, StoreInv, StoreTypeOK
    <3> QED BY <2>1, <2>2, <3>1
  <2>4. faults' \in Nat /\ faults <= faults' /\ (PersistFails => faults' > 0)
    <3>1. CASE Throw
      <4>1. UNCHANGED faults /\ ~PersistFails
        BY <3>1 DEF Throw, MutationThrows, PersistFails
      <4> QED BY <1>5, <4>1
    <3>2. CASE PersistFails
      <4>1. faults' = faults + 1
        BY <3>2 DEF PersistFails, Fault
      <4> QED BY <1>5, <4>1
    <3> QED BY <1>8, <3>1, <3>2
  <2>5. ASSUME NEW c \in Callers, requests[c].op = "delete", requests[c].phase = "mutating",
               settled'[requests[c].job] = "failed"
        PROVE  faults' > 0
    <3>1. CASE requests[c].job = Job.id
      <4>1. Job.kind = "delete"
        BY <2>2, <2>5, <3>1 DEF Owned
      <4>2. ~Throw
        BY <4>1 DEF Throw, Throws
      <4> QED BY <1>8, <2>4, <4>2
    <3>2. CASE requests[c].job # Job.id
      <4>1. faults > 0
        BY <1>3, <2>3, <2>5, <3>2 DEF RecordsInv, Together, RequestInv
      <4> QED BY <1>5, <2>4, <4>1
    <3> QED BY <3>1, <3>2
  <2>6. \A job \in Queued : job \in Queued' \/ settled'[job.id] # "none"
    BY <2>2, <2>3
  <2>7. \A j \in Jobs : settled[j] # "none" => settled'[j] = settled[j]
    BY <2>2, <2>3
  <2>8. ASSUME NEW c \in Callers, requests[c].op = "create",
               requests[c].phase = "prepared" \/
                  (requests[c].phase = "mutating" /\ settled'[requests[c].job] = "none")
        PROVE  data'.agent = Absent
    <3>1. requests[c].phase = "mutating" => settled[requests[c].job] = "none"
      BY <1>5, <2>7, <2>8 DEF RecordsInv, Together, NobodyForgotten
    <3> QED BY <2>1, <2>8, <3>1 DEF RecordsInv, Together, RequestInv
  <2>9. faults' = 0 => faults = 0
    BY <1>5, <2>4
  <2>10. Settling
    BY <1>1, <2>1, <2>5, <2>6, <2>7, <2>8, <2>9 DEF Settling
  <2> QED BY <2>10, SettlingStep
<1>9. CASE Rename
  BY <1>1, <1>9, MigrationRenamed, MutationRenamed
<1>10. CASE Publish
  <2>1. /\ UNCHANGED <<file, issued, faults>> /\ data' = file /\ file \in Database
        /\ step = "renamed"
    BY <1>10, PublishStep DEF RecordsInv
  <2>2. CASE process = "booting"
    <3>1. process' = "recovering" /\ queue' = <<>> /\ writing = 0
      BY <1>10, <2>2, PublishStep DEF RecordsInv, StoreInv, Replaced, Together, Quiet
    <3> QED BY <1>5, <1>6, <2>1, <2>2, <3>1
  <2>3. CASE process # "booting"
    <3>1. /\ Live /\ queue # <<>> /\ Job \in Queued /\ process' = process
          /\ Queued' \subseteq Queued /\ queue' = Tail(queue) /\ Queued = {Job} \cup Queued'
          /\ settled' = [settled EXCEPT ![Job.id] = "done"]
      BY <1>10, <2>3, PublishStep DEF RecordsInv
    <3>2. Job \in StoredJob /\ Job.id \in Jobs /\ settled[Job.id] = "none" /\ Owned(Job)
      BY <3>1, FirstJob DEF RecordsInv, StoreInv, Ordered, Together
    <3>3. \A j \in Jobs : settled'[j] = IF j = Job.id THEN "done" ELSE settled[j]
      <4>1. DOMAIN settled = Jobs
        BY DEF RecordsInv, StoreInv, StoreTypeOK
      <4> QED BY <3>1, <3>2, <4>1
    <3>4. ASSUME NEW c \in Callers, requests[c].op = "delete", requests[c].phase = "mutating",
                 settled'[requests[c].job] = "failed"
          PROVE  faults' > 0
      BY <1>3, <2>1, <3>3, <3>4 DEF RecordsInv, Together, RequestInv
    <3>5. ASSUME NEW c \in Callers, requests[c].op = "create",
                 requests[c].phase = "prepared" \/
                    (requests[c].phase = "mutating" /\ settled'[requests[c].job] = "none")
          PROVE  data'.agent = Absent
      <4>1. /\ data.agent = Absent
            /\ \A d \in Callers : d # c => requests[d] = Idle
        BY <1>3, <3>2, <3>3, <3>5 DEF RecordsInv, Together, RequestInv
      <4>2. Job.kind \notin RequestKinds
        <5> SUFFICES ASSUME Job.kind \in RequestKinds PROVE FALSE
          OBVIOUS
        <5>2. process # "recovering"
          BY <3>5 DEF RecordsInv, Together, Quiet, Idle
        <5> PICK d \in Callers : /\ requests[d].phase = "mutating" /\ requests[d].job = Job.id
          BY <3>2, <5>2 DEF Owned
        <5>1. d = c
          BY <4>1 DEF Idle
        <5> QED BY <3>2, <3>3, <3>5, <4>1, <5>1
      <4>3. next = Stamped(Effect(Job, data)) /\ Applicable(Job, data) /\ file = next
            /\ data \in Database
        BY <2>1, <3>1 DEF RecordsInv, StoreInv, Replaced
      <4> PICK db : db = Effect(Job, data)
        OBVIOUS
      <4>4. db \in Database /\ db.agent = Absent
        BY <3>2, <4>1, <4>2, <4>3, EffectOfJob DEF AgentAfter, RequestKinds
      <4>5. next.agent = db.agent
        BY <4>3, <4>4 DEF Stamped, Database
      <4> QED BY <2>1, <4>3, <4>4, <4>5
    <3>6. \A job \in Queued : job \in Queued' \/ settled'[job.id] # "none"
      BY <3>1, <3>2, <3>3
    <3>7. \A j \in Jobs : settled[j] # "none" => settled'[j] = settled[j]
      BY <3>2, <3>3
    <3>8. faults' = 0 => faults = 0
      BY <2>1
    <3>9. Settling
      BY <1>1, <2>1, <3>1, <3>4, <3>5, <3>6, <3>7, <3>8 DEF Settling
    <3> QED BY <3>9, SettlingStep
  <2> QED BY <2>2, <2>3
<1>11. CASE PersistFails /\ ~Live
  <2>1. UNCHANGED file /\ queue' = <<>> /\ process' # "up"
    BY <1>11, RestartStep DEF RecordsInv
  <2>2. process = "booting" /\ faults' = faults + 1
    BY <1>11 DEF PersistFails, Fault, RecordsInv, StoreInv, StoreTypeOK, Replaced, Live
  <2>3. writing = 0
    BY <2>2 DEF RecordsInv, Together, Quiet
  <2>4. faults <= faults' /\ faults' \in Nat
    BY <1>5, <2>2
  <2> QED BY <1>6, <2>1, <2>2, <2>3, <2>4
<1> QED BY <1>1, <1>2, <1>7, <1>8, <1>9, <1>10, <1>11

-----------------------------------------------------------------------------
(* What a step leaves alone.                                                *)

(* The Run's part, while file and Run stay.                                 *)
LEMMA RunKept ==
    ASSUME RecordsInv, process = "up", UNCHANGED <<file, process, execution, events, chain, writing>>
    PROVE  /\ ChainInv' /\ RowInv' /\ Stage'
           /\ Written' = Written /\ \A j : InEffect(j)' <=> InEffect(j)
<1>1. Written' = Written /\ \A j : InEffect(j)' <=> InEffect(j)
  BY FileKept
<1>2. ChainInv' /\ Stored' = Stored
  BY <1>1 DEF RecordsInv, Together, ChainInv, Stored
<1>3. RowInv' /\ Stage'
  BY <1>1, <1>2 DEF RecordsInv, Together, RowInv, Stage
<1> QED BY <1>1, <1>2, <1>3

(* The requests' part, while they and the rows stay.                        *)
LEMMA RequestsKept ==
    ASSUME RecordsInv, UNCHANGED <<file, data, settled, faults, workspace, requests, made>>
    PROVE  (\A c \in Callers : RequestInv(c)') /\ Placed'
<1>1. Written' = Written /\ \A j : InEffect(j)' <=> InEffect(j)
  BY FileKept
<1>2. \A c \in Callers : RequestInv(c)'
  BY <1>1 DEF RecordsInv, Together, RequestInv
<1>3. Placed'
  BY <1>1 DEF RecordsInv, Together, Placed
<1> QED BY <1>2, <1>3

(* The number of the next job is nobody's yet.                              *)
LEMMA NextIsFresh ==
    ASSUME RecordsInv
    PROVE  /\ NextJob \in Nat \ {0} /\ ~InEffect(NextJob)
           /\ NextJob \in Jobs => settled[NextJob] = "none"
           /\ \A job \in Queued : job.id # NextJob /\ job.id # 0 /\ job.id \in Jobs
           /\ writing # NextJob
           /\ \A c \in Callers : requests[c].phase = "mutating" => requests[c].job # NextJob
           /\ \A j \in 1..issued : j \in 1..NextJob
<1>1. issued \in Nat /\ issued < NextJob /\ NextJob \in Nat \ {0}
  BY StoreAssumption DEF RecordsInv, RecordsTypeOK, StoreTypeOK, NextJob
<1>2. ~InEffect(NextJob)
  <2>1. \A n \in DOMAIN Durable : Durable[n] <= issued
    BY DEF RecordsInv, StoreInv, Ordered
  <2> QED BY <1>1, <2>1 DEF InEffect
<1>3. NextJob \in Jobs => settled[NextJob] = "none"
  BY <1>1 DEF RecordsInv, StoreInv, Ordered
<1>4. ASSUME NEW job \in Queued PROVE job.id # NextJob /\ job.id # 0 /\ job.id \in Jobs
  <2>1. job \in StoredJob
    BY ElementOfSeq, LenProperties DEF RecordsInv, StoreInv, StoreTypeOK, Queued, Range
  <2>2. job.id \in Jobs
    BY <2>1 DEF StoredJob
  <2>3. job.id <= issued
    BY DEF RecordsInv, StoreInv, Ordered
  <2> QED BY <1>1, <2>2, <2>3, StoreAssumption DEF Jobs
<1>5. writing # NextJob
  BY <1>1 DEF RecordsInv, RecordsTypeOK
<1>6. \A c \in Callers : requests[c].phase = "mutating" => requests[c].job # NextJob
  BY <1>1 DEF RecordsInv, Together, NobodyForgotten
<1>7. \A j \in 1..issued : j \in 1..NextJob
  BY <1>1
<1> QED BY <1>1, <1>2, <1>3, <1>4, <1>5, <1>6, <1>7

(* A row that memory and file agree on, or the job between them.            *)
LEMMA MemoryAndFile ==
    ASSUME RecordsInv, process = "up"
    PROVE  /\ Live /\ data \in Database /\ Written \in Database
           /\ \/ Written = data
              \/ /\ Job \in Queued /\ Owned(Job) /\ Job \in StoredJob /\ Applicable(Job, data)
                 /\ Written.agent = AgentAfter(Job, data)
                 /\ Written.run = Effect(Job, data).run
<1>1. /\ Live /\ data \in Database /\ file \in Database
      /\ step # "renamed" => data = file
      /\ step = "renamed" => /\ file = next /\ queue # <<>> /\ Applicable(Job, data)
                             /\ next = Stamped(Effect(Job, data))
  BY DEF RecordsInv, StoreInv, Replaced, Live
<1>2. Written = file /\ Written \in Database
  BY <1>1, WrittenIsDatabase DEF RecordsInv, StoreInv, StoreTypeOK
<1>3. CASE step = "renamed"
  <2>1. Job \in Queued /\ Job \in StoredJob
    BY <1>1, <1>3, FirstJob DEF RecordsInv, StoreInv
  <2> PICK db : db = Effect(Job, data)
    OBVIOUS
  <2>2. db \in Database /\ db.agent = AgentAfter(Job, data)
    BY <1>1, <1>3, <2>1, EffectOfJob
  <2>3. file.agent = db.agent /\ file.run = db.run
    BY <1>1, <1>3, <2>2 DEF Stamped, Database
  <2> QED BY <1>1, <1>2, <1>3, <2>1, <2>2, <2>3 DEF RecordsInv, Together
<1> QED BY <1>1, <1>2, <1>3

(* Before a directory is made, no row of an Agent is seen.                  *)
LEMMA NowhereNobody ==
    ASSUME RecordsInv, process = "up", workspace.at = "nowhere"
    PROVE  data.agent = Absent
<1>1. /\ Written.agent = Absent
      /\ \A c \in Callers : requests[c].phase # "mutating"
  BY DEF RecordsInv, Together, Placed, Idle
<1>2. CASE Job \in Queued /\ Owned(Job) /\ Job \in StoredJob /\ Written.agent = AgentAfter(Job, data)
  <2>1. Job.kind \notin RequestKinds
    BY <1>1, <1>2 DEF Owned
  <2> QED BY <1>1, <1>2, <2>1 DEF AgentAfter, RequestKinds
<1> QED BY <1>1, <1>2, MemoryAndFile

(* A Run that waits for nothing, or was answered, has no job in the queue.  *)
LEMMA NoJobOfTheRun ==
    ASSUME RecordsInv, process = "up", writing = 0 \/ settled[writing] # "none"
    PROVE  \A job \in Queued : job.kind \in RequestKinds /\ job.id # writing /\ job.id # 0
<1> SUFFICES ASSUME NEW job \in Queued
             PROVE  job.kind \in RequestKinds /\ job.id # writing /\ job.id # 0
  OBVIOUS
<1>1. Owned(job) /\ settled[job.id] = "none" /\ job.id # 0
  BY NextIsFresh DEF RecordsInv, Together, StoreInv, Ordered
<1> QED BY <1>1 DEF Owned

-----------------------------------------------------------------------------
(* Start-up and crashes.                                                    *)

LEMMA StartsStep ==
    ASSUME RecordsInv, Starts
    PROVE  StoreStep /\ Together'
<1>1. Booted /\ UNCHANGED recordVars
  BY DEF Starts, Booted
<1>2. process = "down" /\ UNCHANGED faults
  BY <1>1 DEF Booted, Boot
<1>3. UNCHANGED file /\ queue' = <<>> /\ process' # "up"
  BY <1>1, RestartStep DEF RecordsInv
<1>4. UNCHANGED <<workspace, requests, made, execution, authority, events, chain, writing>>
  BY <1>1 DEF recordVars
<1>5. /\ \A c \in Callers : requests'[c] = Idle
      /\ execution' \in {"none", "over"} /\ chain' = <<>> /\ writing' = 0
  BY <1>2, <1>4 DEF RecordsInv, Together, Quiet
<1>6. Together'
  BY <1>2, <1>3, <1>4, <1>5, RestartedStep
<1> QED BY <1>1, <1>6 DEF StoreStep

LEMMA CrashesStep ==
    ASSUME RecordsInv, Crashes
    PROVE  StoreStep /\ Together'
<1>1. Crash /\ UNCHANGED <<workspace, made, authority, events>>
  BY DEF Crashes
<1>2. faults \in Nat /\ faults' = faults + 1 /\ faults' > 0 /\ faults' # 0
  BY <1>1, StoreAssumption DEF Crash, Fault, RecordsInv, StoreInv, StoreTypeOK
<1>3. UNCHANGED file /\ queue' = <<>> /\ process' # "up"
  BY <1>1, RestartStep DEF RecordsInv
<1>4. /\ \A c \in Callers : requests'[c] = Idle
      /\ execution' \in {"none", "over"} /\ chain' = <<>> /\ writing' = 0
  BY DEF Crashes
<1>5. Together'
  BY <1>1, <1>2, <1>3, <1>4, RestartedStep
<1> QED BY <1>1, <1>5 DEF StoreStep

(* Whatever the start-up waited for, the queue is empty when it goes on.    *)
LEMMA StartUpIsAlone ==
    ASSUME RecordsInv, process = "recovering", writing = 0 \/ settled[writing] # "none"
    PROVE  queue = <<>>
<1> SUFFICES ASSUME queue # <<>> PROVE FALSE
  OBVIOUS
<1>1. Job \in Queued
  BY FirstJob DEF RecordsInv, StoreInv
<1>2. Owned(Job) /\ settled[Job.id] = "none"
  BY <1>1 DEF RecordsInv, Together, StoreInv, Ordered
<1> QED BY <1>2 DEF Owned, RecordsInv, Together, Quiet

(* The start-up asks for a mutation.                                        *)
LEMMA StartUpCalls ==
    ASSUME RecordsInv, process = "recovering", queue = <<>>, NEW kind \in {"recover", "reconcile"},
           kind = "reconcile" => Written.run.status # "running",
           Mutate(Mutation(kind, 0)), writing' = NextJob,
           UNCHANGED <<workspace, requests, made, execution, events, chain>>,
           authority' \in {authority, "finished"}
    PROVE  StoreStep /\ Together'
<1> PICK job : job = Mutation(kind, 0)
  OBVIOUS
<1>1. /\ process = "recovering" /\ queue = <<>>
      /\ Mutate(job) /\ writing' = NextJob
      /\ UNCHANGED <<workspace, requests, made, execution, events, chain>>
  OBVIOUS
<1>2. /\ NextJob \in Jobs /\ issued' = NextJob
      /\ UNCHANGED <<process, data, next, file, temp, step, settled, faults>>
  BY <1>1 DEF Mutate
<1>3. job \in StoredJob /\ job.id = NextJob /\ job.kind = kind
  <2>1. 0 \in 0..MaxRequests /\ 0 \in Nat
    BY RecordsAssumption
  <2> QED BY <1>2, <2>1 DEF Mutation, StoredJob, RequestKinds
<1>4. StoreStep /\ StoreInv' /\ Queued' = {job}
  <2>1. Live /\ Queued = {}
    BY <1>1 DEF Live, Queued, Range
  <2>2. StoreInv' /\ Queued' = Queued \cup {job}
    BY <1>1, <1>3, <2>1, CallStep DEF RecordsInv
  <2> QED BY <1>1, <1>3, <2>1, <2>2 DEF StoreStep
<1>5. /\ \A c \in Callers : requests'[c] = Idle
      /\ execution' \in {"none", "over"} /\ chain' = <<>>
  BY <1>1 DEF RecordsInv, Together, Quiet
<1>6. /\ Written' = Written /\ \A j : InEffect(j)' <=> InEffect(j)
      /\ ~InEffect(writing)' /\ writing' # 0
  BY <1>1, <1>2, FileKept, NextIsFresh
<1>7. NobodyForgotten'
  <2>1. Awaited(writing)'
    BY <1>1, <1>3, <1>4 DEF Awaited
  <2> QED BY <1>5, <2>1 DEF NobodyForgotten, Idle
<1>8. Quiet'
  BY <1>1, <1>2, <1>5, <1>6 DEF Quiet
<1>9. ASSUME NEW j, j = job PROVE Owned(j)'
  BY <1>1, <1>2, <1>3, <1>5, <1>9 DEF Owned, KindsOf, RequestKinds, Idle, Outcomes
<1>10. ChainInv' /\ Stored' = Stored
  BY <1>1, <1>2, <1>5 DEF RecordsInv, Together, ChainInv, Stored, Outcomes
<1>11. RowInv'
  BY <1>6, <1>10 DEF RecordsInv, Together, RowInv
<1>12. Stage'
  BY <1>1, <1>2, <1>3, <1>4, <1>5, <1>6 DEF Stage, Outcomes
<1>13. (\A c \in Callers : RequestInv(c)') /\ Placed'
  BY <1>1, <1>2, RequestsKept
<1>14. Confirmed'
  BY <1>1, <1>6 DEF RecordsInv, Together, Confirmed, Completes, Revoking
<1>15. Remembered'
  BY <1>1, <1>2 DEF Remembered
<1> QED BY <1>4, <1>7, <1>8, <1>9, <1>10, <1>11, <1>12, <1>13, <1>14, <1>15 DEF Together

(* The recovery is asked for.                                               *)
LEMMA RecoversStep ==
    ASSUME RecordsInv, Recovers
    PROVE  StoreStep /\ Together'
BY StartUpCalls DEF Recovers

(* What the recovery left pending is reconciled.                            *)
LEMMA StartReconcilesStep ==
    ASSUME RecordsInv, StartReconciles
    PROVE  StoreStep /\ Together'
<1>1. process = "recovering" /\ writing # 0 /\ settled[writing] = "done"
  BY DEF StartReconciles
<1>2. writing \in Jobs
  BY <1>1, StoreAssumption DEF RecordsInv, RecordsTypeOK, StoreTypeOK, Jobs
<1>3. InEffect(writing)
  BY <1>1, <1>2 DEF RecordsInv, StoreInv, Ordered
<1>4. Written.run.status # "running"
  BY <1>1, <1>3 DEF RecordsInv, Together, Stage
<1>5. authority' \in {authority, "finished"}
  BY DEF StartReconciles, Reconciled
<1> QED BY <1>1, <1>4, <1>5, StartUpIsAlone, StartUpCalls DEF StartReconciles

(* The recovery was answered.                                               *)
LEMMA StartedUpStep ==
    ASSUME RecordsInv, StartedUp
    PROVE  StoreStep /\ Together'
<1>1. /\ process = "recovering" /\ writing # 0 /\ settled[writing] # "none"
      /\ process' = IF settled[writing] = "done" THEN "up" ELSE "down"
      /\ writing' = 0
      /\ UNCHANGED <<data, next, file, temp, queue, step, issued, settled, faults,
                     workspace, requests, made, execution, authority, events, chain>>
  BY DEF StartedUp
<1>2. queue = <<>>
  BY <1>1, StartUpIsAlone
<1>3. StoreStep
  BY <1>1, <1>2 DEF StoreStep
<1>4. /\ \A c \in Callers : requests[c] = Idle
      /\ execution \in {"none", "over"} /\ chain = <<>>
  BY <1>1 DEF RecordsInv, Together, Quiet
<1>5. CASE settled[writing] # "done"
  <2>1. Together'
    BY <1>1, <1>2, <1>4, <1>5, RestartedStep
  <2> QED BY <1>3, <2>1
<1>6. CASE settled[writing] = "done"
  <2>1. writing \in Jobs
    BY <1>1, StoreAssumption DEF RecordsInv, RecordsTypeOK, StoreTypeOK, Jobs
  <2>2. InEffect(writing)
    BY <1>6, <2>1 DEF RecordsInv, StoreInv, Ordered
  <2>3. Written.run.status # "running"
    BY <1>1, <2>2 DEF RecordsInv, Together, Stage
  <2>4. process' = "up" /\ Queued' = {}
    BY <1>1, <1>2, <1>6 DEF Queued, Range
  <2>5. Written' = Written
    BY <1>1, FileKept
  <2>6. NobodyForgotten'
    BY <1>1, <1>4 DEF NobodyForgotten, Idle
  <2>7. Quiet'
    BY <1>1, <2>4 DEF Quiet
  <2>8. ChainInv' /\ Stored' = Stored
    BY <1>1, <1>4 DEF RecordsInv, Together, ChainInv, Stored, Outcomes
  <2>9. RowInv'
    BY <2>5, <2>8 DEF RecordsInv, Together, RowInv
  <2>10. Stage'
    BY <1>1, <1>4, <2>3, <2>4, <2>5 DEF Stage, Outcomes
  <2>11. (\A c \in Callers : RequestInv(c)') /\ Placed'
    BY <1>1, RequestsKept
  <2>12. Confirmed'
    BY <1>1, <2>5 DEF RecordsInv, Together, Confirmed, Completes, Revoking
  <2>13. Remembered'
    <3>1. step = "idle" /\ data = file /\ file \in Database
      BY <1>1, <1>2 DEF RecordsInv, StoreInv, Replaced, Live
    <3>2. data = Written
      BY <3>1, WrittenIsDatabase DEF RecordsInv, StoreInv, StoreTypeOK
    <3> QED BY <1>1, <3>2 DEF Remembered, RecordsInv, Together, RowInv
  <2> QED BY <1>3, <2>4, <2>6, <2>7, <2>8, <2>9, <2>10, <2>11, <2>12, <2>13 DEF Together
<1> QED BY <1>5, <1>6

-----------------------------------------------------------------------------
(* Requests.                                                                *)

(* The fields of a request after it moves, ends or waits.                   *)
LEMMA RequestMoves ==
    ASSUME RecordsInv, NEW c \in Callers, NEW phase
    PROVE  /\ Moves(c, phase) => /\ requests'[c].op = requests[c].op /\ requests'[c].phase = phase
                                 /\ requests'[c].value = requests[c].value
                                 /\ requests'[c].job = requests[c].job
           /\ Done(c) => requests'[c] = Idle
           /\ \A j : Waits(c, j) =>
                 /\ requests'[c].op = requests[c].op /\ requests'[c].phase = "mutating"
                 /\ requests'[c].value = requests[c].value /\ requests'[c].job = j
           /\ Moves(c, phase) \/ Done(c) \/ (\E j : Waits(c, j)) =>
                 \A d \in Callers : d # c => requests'[d] = requests[d]
           /\ requests[c] = [op |-> requests[c].op, phase |-> requests[c].phase,
                             value |-> requests[c].value, job |-> requests[c].job]
           /\ requests[c].op \in {"none"} \cup RequestKinds
           /\ requests[c].phase \in {"idle", "asked", "prepared", "mutating", "mutated"}
           /\ requests[c].value \in 0..MaxRequests /\ made \in 0..MaxRequests
           /\ RequestInv(c)
<1>1. /\ DOMAIN requests = Callers
      /\ requests[c] \in [op : {"none"} \cup RequestKinds,
                          phase : {"idle", "asked", "prepared", "mutating", "mutated"},
                          value : 0..MaxRequests, job : {0} \cup Jobs]
      /\ made \in 0..MaxRequests /\ RequestInv(c)
  BY DEF RecordsInv, RecordsTypeOK, Together
<1>2. requests[c] = [op |-> requests[c].op, phase |-> requests[c].phase,
                     value |-> requests[c].value, job |-> requests[c].job]
  BY <1>1
<1>3. Moves(c, phase) => /\ requests'[c].op = requests[c].op /\ requests'[c].phase = phase
                         /\ requests'[c].value = requests[c].value
                         /\ requests'[c].job = requests[c].job
  BY <1>1, <1>2 DEF Moves
<1>4. Done(c) => requests'[c] = Idle
  BY <1>1 DEF Done
<1>5. \A j : Waits(c, j) =>
         /\ requests'[c].op = requests[c].op /\ requests'[c].phase = "mutating"
         /\ requests'[c].value = requests[c].value /\ requests'[c].job = j
  BY <1>1, <1>2 DEF Waits
<1>6. Moves(c, phase) \/ Done(c) \/ (\E j : Waits(c, j)) =>
         \A d \in Callers : d # c => requests'[d] = requests[d]
  BY <1>1 DEF Moves, Done, Waits
<1> QED BY <1>1, <1>2, <1>3, <1>4, <1>5, <1>6

(* A step of a request that leaves queue and file alone, and whoever waits  *)
(* for a queued job.                                                        *)
Asking ==
    /\ Unstored /\ process = "up" /\ faults' \in 0..MaxFaults
    /\ UNCHANGED <<execution, events, chain, writing>>
    /\ \A d \in Callers : requests[d].phase = "mutating" /\ settled[requests[d].job] = "none"
          => requests'[d] = requests[d]
    /\ \A d \in Callers : requests'[d].phase = "mutating" => requests'[d] = requests[d]
LEMMA AskingStep ==
    ASSUME RecordsInv, Asking, \A c \in Callers : RequestInv(c)', Placed',
           \/ Confirmed'
           \/ UNCHANGED authority /\ \A c \in Callers : Revoking(c)' => Revoking(c)
    PROVE  StoreStep /\ Together'
<1>1. /\ UNCHANGED <<process, data, next, file, queue, step, issued, settled>>
      /\ UNCHANGED <<execution, events, chain, writing>> /\ process = "up"
      /\ faults' \in 0..MaxFaults
      /\ Queued' = Queued
  BY DEF Asking, Unstored, Queued
<1>2. StoreStep
  BY DEF Asking, StoreStep
<1>3. ChainInv' /\ RowInv' /\ Stage'
  BY <1>1, RunKept
<1>4. NobodyForgotten'
  BY <1>1 DEF RecordsInv, Together, NobodyForgotten, Awaited, Asking
<1>5. Quiet'
  BY <1>1 DEF RecordsInv, Together, Quiet
<1>6. ASSUME NEW job \in Queued PROVE Owned(job)'
  <2>1. Owned(job) /\ settled[job.id] = "none"
    BY DEF RecordsInv, Together, StoreInv, Ordered
  <2>2. ASSUME job.kind \in RequestKinds
        PROVE  \E c \in Callers : /\ requests'[c].op = job.kind /\ requests'[c].phase = "mutating"
                                  /\ requests'[c].job = job.id /\ requests'[c].value = job.value
    <3> PICK c \in Callers : /\ requests[c].op = job.kind /\ requests[c].phase = "mutating"
                             /\ requests[c].job = job.id /\ requests[c].value = job.value
      BY <1>1, <2>1, <2>2 DEF Owned
    <3>1. requests'[c] = requests[c]
      BY <2>1 DEF Asking
    <3> QED BY <3>1
  <2>3. \A c \in Callers : requests'[c].phase = "mutating" /\ requests'[c].job = job.id =>
           job.kind = requests'[c].op
    BY <2>1 DEF Owned, Asking
  <2> QED BY <1>1, <2>1, <2>2, <2>3 DEF Owned
<1>7. Confirmed'
  <2>1. Written' = Written
    BY <1>1, FileKept
  <2> QED BY <1>1, <2>1 DEF RecordsInv, Together, Confirmed, Completes
<1>8. Remembered'
  BY <1>1 DEF RecordsInv, Together, Remembered
<1> QED BY <1>1, <1>2, <1>3, <1>4, <1>5, <1>6, <1>7, <1>8 DEF Together

LEMMA RequestStep ==
    ASSUME RecordsInv, NEW c \in Callers, NEW op \in RequestKinds, Request(c, op)
    PROVE  StoreStep /\ Together'
<1>1. /\ process = "up" /\ requests[c] = Idle /\ made < MaxRequests /\ Known(op)
      /\ op = "create" => \A d \in Callers : requests[d].op # "create"
      /\ made' = made + 1
      /\ UNCHANGED <<process, data, next, file, temp, queue, step, issued, settled, faults>>
      /\ UNCHANGED <<workspace, execution, authority, events, chain, writing>>
      /\ requests' = [requests EXCEPT ![c] = [op |-> op, phase |-> "asked",
                                              value |-> made + 1, job |-> 0]]
  BY DEF Request, storeVars
<1>2. /\ requests'[c] = [op |-> op, phase |-> "asked", value |-> made + 1, job |-> 0]
      /\ \A d \in Callers : d # c => requests'[d] = requests[d]
  BY <1>1 DEF RecordsInv, RecordsTypeOK
<1>3. faults \in 0..MaxFaults /\ made \in Nat
  BY RecordsAssumption DEF RecordsInv, RecordsTypeOK, StoreTypeOK
<1>4. Asking
  BY <1>1, <1>2, <1>3 DEF Asking, Unstored, Idle
<1>5. Written' = Written /\ \A j : InEffect(j)' <=> InEffect(j)
  BY <1>1, FileKept
<1>6. ASSUME NEW d \in Callers PROVE RequestInv(d)'
  <2>1. CASE d = c
    <3>1. op # "none" /\ requests'[c] # Idle
      BY <1>2 DEF RequestKinds, Idle
    <3>2. \A e \in Callers : op = "create" /\ requests'[e].op = "create" => e = c
      BY <1>1, <1>2
    <3>3. op = "create" => workspace'.at = "nowhere"
      BY <1>1 DEF Known
    <3>4. /\ requests'[c].op = op /\ requests'[c].phase = "asked" /\ requests'[c].value = made'
          /\ made' <= made'
      BY <1>1, <1>2, <1>3
    <3> QED BY <2>1, <3>1, <3>2, <3>3, <3>4 DEF RequestInv
  <2>2. CASE d # c
    <3>1. requests'[d] = requests[d] /\ RequestInv(d)
      BY <1>2, <2>2 DEF RecordsInv, Together
    <3>2. requests[d].value <= made'
      <4>1. requests[d].value <= made /\ requests[d].value \in 0..MaxRequests
        BY <3>1 DEF RequestInv, RecordsInv, RecordsTypeOK
      <4> QED BY <1>1, <1>3, <4>1, RecordsAssumption
    <3>3. requests[d].op = "create" => \A e \in Callers : requests'[e].op = "create" => e = d
      BY <1>1, <1>2, <3>1 DEF RequestInv
    <3>4. ASSUME requests[d].op = "create",
                 requests[d].phase = "prepared" \/
                    (requests[d].phase = "mutating" /\ settled[requests[d].job] = "none")
          PROVE  FALSE
      <4>1. data.agent = Absent
        BY <3>1, <3>4 DEF RequestInv
      <4>2. op # "create" /\ data.run = NoRun
        BY <1>1, <3>4, <4>1 DEF RecordsInv, Together, Remembered
      <4> QED BY <1>1, <4>1, <4>2 DEF Known, NoRun
    <3> QED BY <1>1, <1>5, <3>1, <3>2, <3>3, <3>4 DEF RequestInv
  <2> QED BY <2>1, <2>2
<1>7. Placed'
  <2>1. Placed
    BY DEF RecordsInv, Together
  <2>2. ASSUME workspace.at = "nowhere" PROVE op = "create"
    <3>1. data.agent = Absent /\ data.run = NoRun
      BY <1>1, <2>2, NowhereNobody DEF RecordsInv, Together, Remembered
    <3> QED BY <1>1, <3>1 DEF Known, NoRun
  <2>3. requests[c].op # "delete"
    BY <1>1 DEF Idle
  <2> QED BY <1>1, <1>2, <1>5, <2>1, <2>2, <2>3 DEF Placed
<1>8. \A d \in Callers : Revoking(d)' => Revoking(d)
  BY <1>2 DEF Revoking
<1> QED BY <1>1, <1>4, <1>6, <1>7, <1>8, AskingStep

LEMMA MakesDirectoryStep ==
    ASSUME RecordsInv, NEW c \in Callers, MakesDirectory(c)
    PROVE  StoreStep /\ Together'
<1>1. /\ requests[c].op = "create" /\ requests[c].phase = "asked"
      /\ workspace'.at = "root" /\ Moves(c, "prepared")
      /\ UNCHANGED <<process, data, next, file, temp, queue, step, issued, settled, faults>>
      /\ UNCHANGED <<made, execution, authority, events, chain, writing>>
  BY DEF MakesDirectory, storeVars
<1>2. /\ requests'[c].op = "create" /\ requests'[c].phase = "prepared"
      /\ requests'[c].value = requests[c].value
      /\ \A d \in Callers : d # c => requests'[d] = requests[d]
      /\ RequestInv(c)
  BY <1>1, RequestMoves
<1>3. faults \in 0..MaxFaults /\ process = "up" /\ requests[c] # Idle
  BY <1>1 DEF RecordsInv, RecordsTypeOK, StoreTypeOK, Together, Quiet, Idle
<1>4. workspace.at = "nowhere" /\ data.agent = Absent
  BY <1>1, <1>2, <1>3, NowhereNobody DEF RequestInv
<1>5. \A d \in Callers : d # c => requests[d] = Idle /\ requests'[d] = Idle
  BY <1>1, <1>2, <1>4 DEF RecordsInv, Together, Placed, RequestInv
<1>6. Asking
  BY <1>1, <1>2, <1>3, <1>5 DEF Asking, Unstored, Idle
<1>7. ASSUME NEW d \in Callers PROVE RequestInv(d)'
  <2>1. CASE d = c
    BY <1>1, <1>2, <1>4, <1>5, <2>1 DEF RequestInv, Idle
  <2>2. CASE d # c
    <3>1. requests'[d] = Idle /\ made' \in Nat
      BY <1>1, <1>5, <2>2, RecordsAssumption DEF RecordsInv, RecordsTypeOK
    <3> QED BY <3>1 DEF RequestInv, Idle
  <2> QED BY <2>1, <2>2
<1>8. Placed'
  BY <1>1 DEF Placed
<1>9. \A d \in Callers : Revoking(d)' => Revoking(d)
  BY <1>2 DEF Revoking
<1> QED BY <1>1, <1>6, <1>7, <1>8, <1>9, AskingStep

LEMMA ArchivesStep ==
    ASSUME RecordsInv, NEW c \in Callers, Archives(c)
    PROVE  StoreStep /\ Together'
<1>1. /\ requests[c].op = "delete" /\ requests[c].phase = "asked"
      /\ \/ workspace.at = "root" /\ workspace'.at = ".deleted" /\ Moves(c, "prepared")
         \/ workspace.at # "root" /\ workspace' = workspace /\ Done(c)
      /\ UNCHANGED <<process, data, next, file, temp, queue, step, issued, settled, faults>>
      /\ UNCHANGED <<made, execution, authority, events, chain, writing>>
  <2>1. workspace' = [workspace EXCEPT !.at = ".deleted"] => workspace'.at = ".deleted"
    BY DEF RecordsInv, RecordsTypeOK
  <2> QED BY <2>1 DEF Archives, storeVars
<1>2. /\ \/ requests'[c] = Idle /\ workspace' = workspace /\ workspace.at # "root"
         \/ /\ workspace.at = "root" /\ workspace'.at = ".deleted"
            /\ requests'[c].op = "delete" /\ requests'[c].phase = "prepared"
            /\ requests'[c].value = requests[c].value
      /\ \A d \in Callers : d # c => requests'[d] = requests[d]
      /\ RequestInv(c)
  BY <1>1, RequestMoves
<1>3. faults \in 0..MaxFaults /\ process = "up" /\ requests[c] # Idle
  BY <1>1 DEF RecordsInv, RecordsTypeOK, StoreTypeOK, Together, Quiet, Idle
<1>4. Written' = Written /\ \A j : InEffect(j)' <=> InEffect(j)
  BY <1>1, FileKept
<1>5. Asking
  BY <1>1, <1>2, <1>3 DEF Asking, Unstored, Idle
<1>6. ASSUME NEW d \in Callers PROVE RequestInv(d)'
  <2>1. CASE d = c
    <3>1. requests'[c].op # "create" /\ requests'[c].phase \notin {"mutating", "mutated"}
      BY <1>2 DEF Idle
    <3>2. requests'[c].value <= made'
      <4>1. 0 <= made
        BY RecordsAssumption DEF RecordsInv, RecordsTypeOK
      <4> QED BY <1>1, <1>2, <4>1 DEF Idle, RequestInv
    <3>3. requests'[c].phase = "prepared" => requests'[c].op = "delete" /\ workspace'.at = ".deleted"
      BY <1>2 DEF Idle
    <3>4. requests'[c].op = "none" <=> requests'[c] = Idle
      BY <1>2 DEF Idle
    <3>5. requests'[c].phase = "idle" => requests'[c] = Idle
      BY <1>2 DEF Idle
    <3> QED BY <2>1, <3>1, <3>2, <3>3, <3>4, <3>5 DEF RequestInv
  <2>2. CASE d # c
    <3>1. requests'[d] = requests[d] /\ RequestInv(d)
      BY <1>2, <2>2 DEF RecordsInv, Together
    <3>2. requests[d].op = "create" => \A e \in Callers : requests'[e].op = "create" => e = d
      BY <1>1, <1>2, <3>1 DEF RequestInv, Idle
    <3>3. ~(requests[d].op = "create" /\ (requests[d].phase = "prepared" \/
               (requests[d].phase = "mutating" /\ settled[requests[d].job] = "none")))
      BY <1>3, <2>2, <3>1 DEF RequestInv
    <3>4. requests[d].op = "create" /\ requests[d].phase = "asked" => workspace' = workspace
      BY <1>1, <3>1 DEF RequestInv
    <3>5. workspace.at = ".deleted" => workspace'.at = ".deleted"
      BY <1>1
    <3> QED BY <1>1, <1>4, <3>1, <3>2, <3>3, <3>4, <3>5 DEF RequestInv
  <2> QED BY <2>1, <2>2
<1>7. Placed'
  <2>1. Placed
    BY DEF RecordsInv, Together
  <2>2. CASE workspace' = workspace /\ workspace.at # "root"
    <3>1. workspace.at # "nowhere"
      BY <1>1, <1>3, <2>1 DEF Placed
    <3>2. \A d \in Callers : requests[d].op = "delete" /\ requests[d].phase \in {"prepared", "mutating"}
             => requests'[d] = requests[d]
      BY <1>1, <1>2
    <3> QED BY <1>1, <1>4, <2>1, <2>2, <3>1, <3>2 DEF Placed
  <2>3. CASE workspace'.at = ".deleted" /\ requests'[c].op = "delete" /\ requests'[c].phase = "prepared"
    BY <2>3 DEF Placed
  <2> QED BY <1>2, <2>2, <2>3
<1>8. \A d \in Callers : Revoking(d)' => Revoking(d)
  BY <1>2 DEF Revoking, Idle
<1> QED BY <1>1, <1>5, <1>6, <1>7, <1>8, AskingStep

LEMMA RevokesStep ==
    ASSUME RecordsInv, NEW c \in Callers, Revokes(c)
    PROVE  StoreStep /\ Together'
<1>1. /\ requests[c].op = "revoke" /\ requests[c].phase = "asked"
      /\ authority' = IF authority = "finished" THEN "finished" ELSE "revoked"
      /\ UNCHANGED <<process, data, next, file, temp, queue, step, issued, settled, faults>>
      /\ UNCHANGED <<workspace, made, execution, events, chain, writing>>
  BY DEF Revokes, storeVars
<1>2. /\ \/ requests'[c] = Idle
         \/ /\ requests'[c].op = "revoke" /\ requests'[c].phase = "prepared"
            /\ requests'[c] # Idle
            /\ requests'[c].value = IF authority = "finished" THEN 0 ELSE requests[c].value
      /\ \A d \in Callers : d # c => requests'[d] = requests[d]
      /\ RequestInv(c)
  <2>1. RequestInv(c) /\ DOMAIN requests = Callers /\ DOMAIN requests[c] = {"op", "phase", "value", "job"}
    BY DEF RecordsInv, RecordsTypeOK, Together
  <2>2. CASE Done(c)
    BY <2>1, <2>2, RequestMoves
  <2>3. CASE requests' = [requests EXCEPT ![c].phase = "prepared",
                              ![c].value = IF authority = "finished" THEN 0 ELSE @]
    BY <1>1, <2>1, <2>3 DEF Idle
  <2> QED BY <2>2, <2>3 DEF Revokes
<1>3. faults \in 0..MaxFaults /\ process = "up" /\ requests[c] # Idle /\ made \in Nat
  BY <1>1, RecordsAssumption
     DEF RecordsInv, RecordsTypeOK, StoreTypeOK, Together, Quiet, Idle
<1>4. Written' = Written /\ \A j : InEffect(j)' <=> InEffect(j)
  BY <1>1, FileKept
<1>5. Asking
  BY <1>1, <1>2, <1>3 DEF Asking, Unstored, Idle
<1>6. ASSUME NEW d \in Callers PROVE RequestInv(d)'
  <2>1. CASE d = c
    <3>1. requests'[c].value <= made'
      BY <1>1, <1>2, <1>3 DEF Idle, RequestInv
    <3> QED BY <1>2, <2>1, <3>1 DEF RequestInv, Idle
  <2>2. CASE d # c
    <3>1. requests'[d] = requests[d] /\ RequestInv(d)
      BY <1>2, <2>2 DEF RecordsInv, Together
    <3>2. requests[d].op = "create" => \A e \in Callers : requests'[e].op = "create" => e = d
      BY <1>2, <3>1 DEF RequestInv, Idle
    <3>3. ~(requests[d].op = "create" /\ (requests[d].phase = "prepared" \/
               (requests[d].phase = "mutating" /\ settled[requests[d].job] = "none")))
      BY <1>3, <2>2, <3>1 DEF RequestInv
    <3> QED BY <1>1, <1>4, <3>1, <3>2, <3>3 DEF RequestInv
  <2> QED BY <2>1, <2>2
<1>7. Placed'
  <2>1. Placed /\ workspace.at # "nowhere"
    BY <1>1, <1>3 DEF RecordsInv, Together, Placed
  <2>2. \A d \in Callers : requests[d].op = "delete" => requests'[d] = requests[d]
    BY <1>1, <1>2
  <2> QED BY <1>1, <1>4, <2>1, <2>2 DEF Placed
<1>8. Confirmed'
  <2>1. Completes' <=> Completes
    BY <1>1, <1>4 DEF Completes
  <2>2. authority' # "live" /\ (Completes => authority' = "finished")
    BY <1>1 DEF RecordsInv, Together, Confirmed
  <2>3. ASSUME NEW d \in Callers, Revoking(d)' PROVE ~Completes
    <3>1. CASE d = c
      <4>1. authority # "finished"
        BY <1>2, <2>3, <3>1 DEF Revoking, Idle
      <4> QED BY <4>1 DEF RecordsInv, Together, Confirmed
    <3>2. CASE d # c
      <4>1. Revoking(d)
        BY <1>2, <2>3, <3>2 DEF Revoking
      <4> QED BY <4>1 DEF RecordsInv, Together, Confirmed
    <3> QED BY <3>1, <3>2
  <2> QED BY <1>4, <2>1, <2>2, <2>3 DEF RecordsInv, Together, Confirmed
<1> QED BY <1>5, <1>6, <1>7, <1>8, AskingStep

(* A request that ends, or an edit that goes on: what is left for the       *)
(* others.                                                                  *)
LEMMA LeavingStep ==
    ASSUME RecordsInv, NEW c \in Callers, requests[c] # Idle,
           \/ requests'[c] = Idle
           \/ /\ requests'[c].op = "update" /\ requests'[c].phase = "mutated"
              /\ requests'[c].value = requests[c].value,
           \A d \in Callers : d # c => requests'[d] = requests[d],
           workspace'.at = workspace.at, made' = made, Unstored, faults' \in 0..MaxFaults,
           faults <= faults', UNCHANGED <<execution, authority, events, chain, writing>>,
           requests[c].phase = "mutating" => settled[requests[c].job] # "none",
           requests'[c] # Idle => workspace.at # "nowhere",
           \/ faults' > 0
           \/ requests[c].op # "delete" \/ requests[c].phase \notin {"prepared", "mutating"}
           \/ Written.agent = Absent
    PROVE  StoreStep /\ Together'
<1>1. UNCHANGED <<process, data, next, file, temp, queue, step, issued, settled>>
  BY DEF Unstored
<1>2. /\ process = "up" /\ faults \in Nat /\ faults' \in Nat /\ RequestInv(c)
      /\ requests[c].value <= made /\ 0 <= made
  <2>1. process = "up"
    BY DEF RecordsInv, Together, Quiet
  <2>2. faults \in Nat /\ faults' \in Nat /\ 0 <= made
    BY StoreAssumption, RecordsAssumption DEF RecordsInv, RecordsTypeOK, StoreTypeOK
  <2>3. RequestInv(c)
    BY DEF RecordsInv, Together
  <2>4. requests[c].value <= made
    BY <2>3 DEF RequestInv
  <2> QED BY <2>1, <2>2, <2>3, <2>4
<1>3. Written' = Written /\ \A j : InEffect(j)' <=> InEffect(j)
  BY <1>1, FileKept
<1>4. Asking
  BY <1>2 DEF Asking, Idle
<1>5. ASSUME NEW d \in Callers PROVE RequestInv(d)'
  <2>1. CASE d = c
    <3>1. CASE requests'[c] = Idle
      BY <1>2, <2>1, <3>1 DEF RequestInv, Idle
    <3>2. CASE /\ requests'[c].op = "update" /\ requests'[c].phase = "mutated"
               /\ requests'[c].value = requests[c].value
      BY <1>2, <2>1, <3>2 DEF RequestInv, Idle
    <3> QED BY <3>1, <3>2
  <2>2. CASE d # c
    <3>1. requests'[d] = requests[d] /\ RequestInv(d)
      BY <2>2 DEF RecordsInv, Together
    <3>2. requests[d].op = "create" => \A e \in Callers : requests'[e].op = "create" => e = d
      BY <3>1 DEF RequestInv, Idle
    <3>3. ~(requests[d].op = "create" /\ (requests[d].phase = "prepared" \/
               (requests[d].phase = "mutating" /\ settled[requests[d].job] = "none")))
      BY <2>2, <3>1 DEF RequestInv
    <3>4. requests[d].op = "delete" /\ requests[d].phase = "mutating" =>
             (settled[requests[d].job] = "failed" => faults' > 0)
      BY <1>2, <3>1 DEF RequestInv
    <3> QED BY <1>1, <1>3, <3>1, <3>2, <3>3, <3>4 DEF RequestInv
  <2> QED BY <2>1, <2>2
<1>6. Placed'
  <2>1. Placed
    BY DEF RecordsInv, Together
  <2>2. faults' = 0 => faults = 0
    BY <1>2
  <2>3. \A d \in Callers : requests[d].op = "delete" /\ requests[d].phase \in {"prepared", "mutating"}
           => requests'[d] = requests[d] \/ faults' > 0 \/ Written.agent = Absent
    OBVIOUS
  <2> QED BY <1>3, <2>1, <2>2, <2>3 DEF Placed
<1>7. \A d \in Callers : Revoking(d)' => Revoking(d)
  BY DEF Revoking, Idle
<1> QED BY <1>4, <1>5, <1>6, <1>7, AskingStep

LEMMA DirectoryFailsStep ==
    ASSUME RecordsInv, NEW c \in Callers, DirectoryFails(c)
    PROVE  StoreStep /\ Together'
<1>1. /\ requests[c].phase \in {"asked", "mutated"} /\ Done(c)
      /\ faults < MaxFaults /\ faults' = faults + 1
      /\ UNCHANGED <<process, data, next, file, temp, queue, step, issued, settled,
                     workspace, made, execution, authority, events, chain, writing>>
  BY DEF DirectoryFails, Fault
<1>2. requests'[c] = Idle /\ \A d \in Callers : d # c => requests'[d] = requests[d]
  BY <1>1, RequestMoves
<1>3. faults' \in 0..MaxFaults /\ faults <= faults' /\ faults' > 0
  BY <1>1, StoreAssumption DEF RecordsInv, RecordsTypeOK, StoreTypeOK
<1>4. requests[c] # Idle /\ Unstored
  BY <1>1 DEF Idle, Unstored
<1> QED BY <1>1, <1>2, <1>3, <1>4, LeavingStep

LEMMA WritesInstructionsStep ==
    ASSUME RecordsInv, NEW c \in Callers, WritesInstructions(c)
    PROVE  StoreStep /\ Together'
<1>1. /\ requests[c].phase = "mutated" /\ Done(c)
      /\ UNCHANGED <<process, data, next, file, temp, queue, step, issued, settled, faults,
                     made, execution, authority, events, chain, writing>>
  BY DEF WritesInstructions, storeVars
<1>2. requests'[c] = Idle /\ \A d \in Callers : d # c => requests'[d] = requests[d]
  BY <1>1, RequestMoves
<1>3. faults' \in 0..MaxFaults /\ faults <= faults'
  BY <1>1, StoreAssumption DEF RecordsInv, RecordsTypeOK, StoreTypeOK
<1>4. requests[c] # Idle /\ Unstored
  BY <1>1 DEF Idle, Unstored
<1>5. workspace'.at = workspace.at
  BY DEF WritesInstructions, RecordsInv, RecordsTypeOK
<1> QED BY <1>1, <1>2, <1>3, <1>4, <1>5, LeavingStep

LEMMA ReturnsStep ==
    ASSUME RecordsInv, NEW c \in Callers, Returns(c)
    PROVE  StoreStep /\ Together'
<1>1. /\ requests[c].phase = "mutating" /\ settled[requests[c].job] # "none"
      /\ \/ requests[c].op = "update" /\ Moves(c, "mutated")
         \/ Done(c)
      /\ UNCHANGED <<process, data, next, file, temp, queue, step, issued, settled, faults,
                     workspace, made, execution, authority, events, chain, writing>>
  BY DEF Returns, storeVars
<1>2. /\ \/ requests'[c] = Idle
         \/ /\ requests'[c].op = "update" /\ requests'[c].phase = "mutated"
            /\ requests'[c].value = requests[c].value
      /\ \A d \in Callers : d # c => requests'[d] = requests[d]
  <2>1. CASE requests[c].op = "update" /\ Moves(c, "mutated")
    BY <2>1, RequestMoves
  <2>2. CASE Done(c)
    BY <2>2, RequestMoves
  <2> QED BY <1>1, <2>1, <2>2
<1>3. faults \in Nat /\ faults' \in 0..MaxFaults /\ faults <= faults'
  BY <1>1, StoreAssumption DEF RecordsInv, RecordsTypeOK, StoreTypeOK
<1>4. requests[c] # Idle /\ Unstored
  BY <1>1 DEF Idle, Unstored
<1>5. workspace.at # "nowhere"
  BY <1>1, <1>4 DEF RecordsInv, Together, Placed
<1>6. faults' > 0 \/ requests[c].op # "delete" \/ Written.agent = Absent
  <2> SUFFICES ASSUME requests[c].op = "delete" PROVE faults' > 0 \/ Written.agent = Absent
    OBVIOUS
  <2>1. /\ InEffect(requests[c].job) => Written.agent = Absent
        /\ settled[requests[c].job] = "failed" => faults > 0
    BY <1>1 DEF RecordsInv, Together, RequestInv
  <2>2. requests[c].job \in Jobs
    BY <1>1, StoreAssumption
       DEF RecordsInv, RecordsTypeOK, StoreTypeOK, Together, NobodyForgotten, Jobs
  <2>3. /\ settled[requests[c].job] \in {"done", "failed"}
        /\ settled[requests[c].job] = "done" => InEffect(requests[c].job)
    BY <1>1, <2>2 DEF RecordsInv, StoreInv, StoreTypeOK, Ordered
  <2> QED BY <1>1, <2>1, <2>3
<1> QED BY <1>1, <1>2, <1>3, <1>4, <1>5, <1>6, LeavingStep

LEMMA MutatesStep ==
    ASSUME RecordsInv, NEW c \in Callers, Mutates(c)
    PROVE  StoreStep /\ Together'
<1> PICK job : job = Mutation(requests[c].op, requests[c].value)
  OBVIOUS
<1>1. /\ MayMutate(c) /\ Mutate(job) /\ Waits(c, NextJob)
      /\ UNCHANGED <<workspace, made, execution, events, chain, writing>>
      /\ authority' = IF requests[c].op = "reconcile" THEN Reconciled(authority) ELSE authority
  BY DEF Mutates
<1>2. /\ NextJob \in Jobs /\ issued' = NextJob
      /\ UNCHANGED <<process, data, next, file, temp, step, settled, faults>>
  BY <1>1 DEF Mutate
<1>3. /\ requests'[c].op = requests[c].op /\ requests'[c].phase = "mutating"
      /\ requests'[c].value = requests[c].value /\ requests'[c].job = NextJob
      /\ \A d \in Callers : d # c => requests'[d] = requests[d]
      /\ RequestInv(c) /\ requests[c].value \in 0..MaxRequests
      /\ requests[c].op \in {"none"} \cup RequestKinds
  BY <1>1, RequestMoves
<1>4. /\ requests[c] # Idle /\ requests[c].op # "none" /\ requests[c].phase # "mutating"
      /\ requests[c].op \in {"update", "reconcile"} => requests[c].phase = "asked"
      /\ requests[c].op \notin {"update", "reconcile"} => requests[c].phase = "prepared"
  BY <1>1, <1>3 DEF MayMutate, Idle, RequestInv
<1>5. process = "up" /\ Live
  BY <1>4 DEF RecordsInv, Together, Quiet, Live
<1>6. /\ job \in StoredJob /\ job.id = NextJob /\ job.kind = requests[c].op
      /\ job.kind \in RequestKinds /\ job.value = requests[c].value
  BY <1>2, <1>3, <1>4 DEF Mutation, StoredJob
<1>7. Queued' = Queued \cup {job} /\ StoreStep
  BY <1>1, <1>5, <1>6, CallStep DEF RecordsInv, StoreStep
<1>8. ChainInv' /\ RowInv' /\ Stage' /\ Written' = Written /\ \A j : InEffect(j)' <=> InEffect(j)
  BY <1>1, <1>2, <1>5, RunKept
<1>9. NobodyForgotten'
  <2>1. ASSUME NEW j, Awaited(j) PROVE Awaited(j)'
    BY <1>2, <1>7, <2>1 DEF Awaited
  <2>2. ASSUME NEW d \in Callers, requests'[d].phase = "mutating", NEW j, j = requests'[d].job
        PROVE  j \in 1..issued' /\ Awaited(j)'
    <3>1. CASE d = c
      <4>1. NextJob \in 1..issued' /\ j = NextJob
        BY <1>2, <1>3, <2>2, <3>1, NextIsFresh
      <4>2. Awaited(j)'
        BY <1>6, <1>7, <4>1 DEF Awaited
      <4> QED BY <4>1, <4>2
    <3>2. CASE d # c
      <4>1. requests'[d] = requests[d]
        BY <1>3, <3>2
      <4>2. j \in 1..issued /\ Awaited(j)
        BY <2>2, <4>1 DEF RecordsInv, Together, NobodyForgotten
      <4>3. j \in 1..issued'
        BY <1>2, <4>2, NextIsFresh
      <4> QED BY <2>1, <4>2, <4>3
    <3> QED BY <3>1, <3>2
  <2>3. ASSUME writing' # 0, NEW j, j = writing' PROVE Awaited(j)'
    BY <1>1, <2>1, <2>3 DEF RecordsInv, Together, NobodyForgotten
  <2> QED BY <2>2, <2>3 DEF NobodyForgotten
<1>10. Quiet'
  BY <1>1, <1>2, <1>5 DEF RecordsInv, Together, Quiet
<1>11. ASSUME NEW old \in Queued PROVE Owned(old)'
  <2>1. Owned(old) /\ old.id # NextJob
    BY NextIsFresh DEF RecordsInv, Together
  <2>2. ASSUME old.kind \in RequestKinds
        PROVE  \E d \in Callers : /\ requests'[d].op = old.kind /\ requests'[d].phase = "mutating"
                                  /\ requests'[d].job = old.id /\ requests'[d].value = old.value
    <3> PICK d \in Callers : /\ requests[d].op = old.kind /\ requests[d].phase = "mutating"
                             /\ requests[d].job = old.id /\ requests[d].value = old.value
      BY <1>5, <2>1, <2>2 DEF Owned
    <3> QED BY <1>3, <1>4
  <2>3. \A d \in Callers : requests'[d].phase = "mutating" /\ requests'[d].job = old.id =>
           old.kind = requests'[d].op
    BY <1>3, <2>1 DEF Owned
  <2> QED BY <1>1, <1>2, <1>5, <2>1, <2>2, <2>3 DEF Owned
<1>12. ASSUME NEW new, new = job PROVE Owned(new)'
  <2>1. new.id # writing /\ writing' = writing
    BY <1>1, <1>6, <1>12, NextIsFresh
  <2>2. \A d \in Callers : requests'[d].phase = "mutating" /\ requests'[d].job = new.id =>
           new.kind = requests'[d].op
    BY <1>3, <1>6, <1>12, NextIsFresh
  <2>3. new.kind \notin {"recover", "end", "progress"}
    BY <1>6, <1>12 DEF RequestKinds
  <2> QED BY <1>2, <1>3, <1>5, <1>6, <1>12, <2>1, <2>2, <2>3 DEF Owned
<1>13. ASSUME NEW d \in Callers PROVE RequestInv(d)'
  <2>1. CASE d = c
    <3>1. ~InEffect(NextJob) /\ settled[NextJob] = "none"
      BY <1>2, NextIsFresh
    <3>2. requests[c].op = "create" =>
             \A e \in Callers : e # c => requests'[e] = requests[e]
      BY <1>3
    <3>3. requests'[c].op # "none" /\ requests'[c] # Idle
      BY <1>3, <1>4 DEF Idle
    <3> QED BY <1>1, <1>2, <1>3, <1>4, <1>8, <2>1, <3>1, <3>2, <3>3 DEF RequestInv
  <2>2. CASE d # c
    <3>1. requests'[d] = requests[d] /\ RequestInv(d)
      BY <1>3, <2>2 DEF RecordsInv, Together
    <3>2. requests[d].op = "create" => \A e \in Callers : requests'[e].op = "create" => e = d
      BY <1>3, <3>1 DEF RequestInv
    <3>3. ~(requests[d].op = "create" /\ (requests[d].phase = "prepared" \/
               (requests[d].phase = "mutating" /\ settled[requests[d].job] = "none")))
      BY <1>4, <2>2, <3>1 DEF RequestInv
    <3> QED BY <1>1, <1>2, <1>8, <3>1, <3>2, <3>3 DEF RequestInv
  <2> QED BY <2>1, <2>2
<1>14. Placed'
  <2>1. Placed /\ workspace.at # "nowhere"
    BY <1>4 DEF RecordsInv, Together, Placed
  <2>2. \A d \in Callers : requests[d].op = "delete" /\ requests[d].phase \in {"prepared", "mutating"}
           => requests'[d].op = "delete" /\ requests'[d].phase \in {"prepared", "mutating"}
    BY <1>3
  <2> QED BY <1>1, <1>2, <1>8, <2>1, <2>2 DEF Placed
<1>15. Confirmed'
  <2>1. \A d \in Callers : Revoking(d)' => Revoking(d)
    BY <1>3, <1>4 DEF Revoking
  <2>2. authority' \in {authority, "finished"}
    BY <1>1 DEF Reconciled
  <2> QED BY <1>1, <1>8, <2>1, <2>2 DEF RecordsInv, Together, Confirmed, Completes
<1>16. Remembered'
  BY <1>2 DEF RecordsInv, Together, Remembered
<1> QED BY <1>7, <1>8, <1>9, <1>10, <1>11, <1>12, <1>13, <1>14, <1>15, <1>16 DEF Together

-----------------------------------------------------------------------------
(* The Run.                                                                 *)

(* A step of the execution without a call: what the others see stays.       *)
Quietly ==
    /\ Unstored /\ process = "up"
    /\ UNCHANGED <<faults, workspace, requests, made>>
LEMMA ExecutionStep ==
    ASSUME RecordsInv, Quietly, writing' \in {0, writing},
           writing' # 0 => execution' \in {"running"} \cup Outcomes,
           \A job \in Queued : Owned(job)', ChainInv', RowInv', Stage',
           \/ Confirmed'
           \/ /\ UNCHANGED authority
              /\ execution' = execution \/ execution' \notin {"completed", "completing"}
    PROVE  StoreStep /\ Together'
<1>1. /\ UNCHANGED <<process, data, next, file, queue, step, issued, settled, faults>>
      /\ UNCHANGED <<workspace, requests, made>> /\ process = "up" /\ Queued' = Queued
  BY DEF Quietly, Unstored, Queued
<1>2. StoreStep
  BY <1>1 DEF Quietly, StoreStep, RecordsInv, RecordsTypeOK, StoreTypeOK
<1>3. (\A c \in Callers : RequestInv(c)') /\ Placed'
  BY <1>1, RequestsKept
<1>4. NobodyForgotten'
  BY <1>1 DEF RecordsInv, Together, NobodyForgotten, Awaited
<1>5. Quiet'
  BY <1>1 DEF Quiet
<1>6. Confirmed'
  <2>1. Written' = Written
    BY <1>1, FileKept
  <2> QED BY <1>1, <2>1 DEF RecordsInv, Together, Confirmed, Completes, Revoking
<1>7. Remembered'
  BY <1>1 DEF RecordsInv, Together, Remembered
<1> QED BY <1>1, <1>2, <1>3, <1>4, <1>5, <1>6, <1>7 DEF Together

(* After its answer, the Run has no job in the queue.                       *)
LEMMA AnsweredStep ==
    ASSUME RecordsInv, Quietly, writing = 0 \/ settled[writing] # "none", writing' \in {0, writing}
    PROVE  \A job \in Queued : Owned(job)'
<1> SUFFICES ASSUME NEW job \in Queued PROVE Owned(job)'
  OBVIOUS
<1>1. UNCHANGED <<process, requests>> /\ process = "up"
  BY DEF Quietly, Unstored
<1>2. job.kind \in RequestKinds /\ job.id # writing /\ job.id # 0
  BY <1>1, NoJobOfTheRun
<1>3. Owned(job) /\ job.id # writing'
  BY <1>2 DEF RecordsInv, Together
<1>4. job.kind \notin {"recover", "end", "progress"}
  BY <1>2 DEF RequestKinds
<1> QED BY <1>1, <1>2, <1>3, <1>4 DEF Owned

(* What the execution needs to know of the file.                            *)
LEMMA ExecutionFacts ==
    ASSUME RecordsInv
    PROVE  /\ Stored \in Nat /\ Len(chain) \in Nat /\ events \in Nat /\ events - Len(chain) \in Nat
           /\ Written.run \in RunRow /\ RunOK(Written.run, Stored)
           /\ chain # <<>> => Len(chain) > 0
           /\ NoRun.status = "none"
           /\ writing # 0 => /\ writing \in Jobs
                             /\ settled[writing] \in {"none", "done", "failed"}
                             /\ settled[writing] = "done" => InEffect(writing)
                             /\ settled[writing] = "failed" => ~InEffect(writing)
<1>1. /\ Stored \in Nat /\ Len(chain) \in Nat /\ events \in Nat /\ events - Len(chain) \in Nat
  BY StoredIsNat DEF RecordsInv, Together
<1>2. Written.run \in RunRow
  BY WrittenIsDatabase DEF RecordsInv, StoreInv, StoreTypeOK, Database
<1>3. RunOK(Written.run, Stored)
  BY DEF RecordsInv, Together, RowInv
<1>4. chain # <<>> => Len(chain) > 0
  BY <1>1, EmptySeq DEF RecordsInv, RecordsTypeOK
<1>5. writing # 0 => writing \in Jobs
  BY StoreAssumption DEF RecordsInv, RecordsTypeOK, StoreTypeOK, Jobs
<1>6. writing # 0 => /\ settled[writing] \in {"none", "done", "failed"}
                     /\ settled[writing] = "done" => InEffect(writing)
                     /\ settled[writing] = "failed" => ~InEffect(writing)
  BY <1>5 DEF RecordsInv, StoreInv, StoreTypeOK, Ordered
<1> QED BY <1>1, <1>2, <1>3, <1>4, <1>5, <1>6 DEF NoRun

LEMMA RunStartedStep ==
    ASSUME RecordsInv, RunStarted
    PROVE  StoreStep /\ Together'
<1>1. /\ execution = "starting" /\ settled[writing] # "none" /\ writing' = 0
      /\ execution' = IF settled[writing] = "done" THEN "running" ELSE "over"
      /\ UNCHANGED <<process, data, next, file, temp, queue, step, issued, settled, faults,
                     workspace, requests, made, authority, events, chain>>
  BY DEF RunStarted, storeVars
<1>2. process = "up" /\ writing # 0 /\ chain = <<>>
  BY <1>1 DEF RecordsInv, Together, Quiet, ChainInv, Outcomes
<1>3. Quietly
  BY <1>1, <1>2 DEF Quietly, Unstored
<1>4. \A job \in Queued : Owned(job)'
  BY <1>1, <1>3, AnsweredStep
<1>5. Written' = Written /\ \A j : InEffect(j)' <=> InEffect(j)
  BY <1>1, FileKept
<1>6. ChainInv' /\ Stored' = Stored
  BY <1>1, <1>2, <1>5 DEF RecordsInv, Together, ChainInv, Stored
<1>7. RowInv'
  BY <1>5, <1>6 DEF RecordsInv, Together, RowInv
<1>8. Stage'
  <2>1. /\ InEffect(writing) => Unfinished(Written.run)
        /\ ~InEffect(writing) => Written.run.status = "none"
    BY <1>1, ExecutionFacts DEF RecordsInv, Together, Stage
  <2>2. /\ settled[writing] # "done" => ~InEffect(writing)
        /\ settled[writing] = "done" => InEffect(writing)
    BY <1>1, <1>2, ExecutionFacts
  <2> QED BY <1>1, <1>2, <1>5, <2>1, <2>2 DEF Stage, Outcomes
<1> QED BY <1>1, <1>3, <1>4, <1>6, <1>7, <1>8, ExecutionStep

LEMMA EmitsStep ==
    ASSUME RecordsInv, Emits
    PROVE  StoreStep /\ Together'
<1>1. /\ execution = "running" /\ events' = events + 1 /\ chain' = Append(chain, events + 1)
      /\ UNCHANGED <<process, data, next, file, temp, queue, step, issued, settled, faults,
                     workspace, requests, made, execution, authority, writing>>
  BY DEF Emits, storeVars
<1>2. process = "up" /\ (writing # 0 => chain # <<>>)
  BY <1>1 DEF RecordsInv, Together, Quiet, ChainInv
<1>3. Quietly
  BY <1>1, <1>2 DEF Quietly, Unstored
<1>4. /\ Len(chain) \in Nat /\ events \in Nat /\ events + 1 \in Nat /\ chain \in Seq(Nat)
  BY ExecutionFacts DEF RecordsInv, RecordsTypeOK
<1>5. /\ Len(chain') = Len(chain) + 1 /\ chain' # <<>>
      /\ \A n \in 1..Len(chain) : chain'[n] = chain[n]
      /\ chain'[Len(chain) + 1] = events + 1
  BY <1>1, <1>4, AppendProperties
<1>6. chain # <<>> => Head(chain') = Head(chain)
  <2> SUFFICES ASSUME chain # <<>> PROVE Head(chain') = Head(chain)
    OBVIOUS
  <2>1. Head(chain) = chain[1] /\ Head(chain') = chain'[1]
    <3>1. chain' \in Seq(Nat)
      BY <1>1, <1>4, AppendProperties
    <3> QED BY <1>4, <1>5, <3>1, HeadTailProperties
  <2>2. 1 \in 1..Len(chain)
    BY <1>4, ExecutionFacts
  <2> QED BY <1>5, <2>1, <2>2
<1>7. Written' = Written /\ \A j : InEffect(j)' <=> InEffect(j)
  BY <1>1, FileKept
<1>8. ASSUME NEW job \in Queued PROVE Owned(job)'
  BY <1>1, <1>2, <1>5, <1>6 DEF RecordsInv, Together, Owned
<1>9. events' - Len(chain') = events - Len(chain)
  BY <1>1, <1>4, <1>5
<1>10. ChainInv'
  <2>1. Len(chain) <= events
    BY DEF RecordsInv, Together, ChainInv
  <2>2. Len(chain') <= events'
    BY <1>1, <1>4, <1>5, <2>1
  <2>3. ASSUME NEW n \in 1..Len(chain) + 1
        PROVE  chain'[n] = events - Len(chain) + n
    <3>1. CASE n \in 1..Len(chain)
      BY <1>5, <3>1 DEF RecordsInv, Together, ChainInv
    <3>2. CASE n = Len(chain) + 1
      BY <1>4, <1>5, <3>2
    <3> QED BY <1>4, <3>1, <3>2
  <2>4. \A n \in 1..Len(chain') : chain'[n] = events' - Len(chain') + n
    BY <1>5, <1>9, <2>3
  <2> QED BY <1>1, <1>5, <2>2, <2>4 DEF ChainInv
<1>11. Stored' = Stored
  BY <1>1, <1>2, <1>5, <1>7, <1>9 DEF Stored
<1>12. RowInv'
  BY <1>7, <1>11 DEF RecordsInv, Together, RowInv
<1>13. Stage'
  BY <1>1, <1>2, <1>7 DEF RecordsInv, Together, Stage, Outcomes
<1> QED BY <1>1, <1>3, <1>8, <1>10, <1>12, <1>13, ExecutionStep

LEMMA RuntimeEndsStep ==
    ASSUME RecordsInv, RuntimeEnds
    PROVE  StoreStep /\ Together'
<1>1. /\ execution = "running" /\ execution' \in Outcomes
      /\ UNCHANGED <<process, data, next, file, temp, queue, step, issued, settled, faults,
                     workspace, requests, made, events, chain, writing>>
  BY DEF RuntimeEnds, storeVars
<1>2. process = "up"
  BY <1>1 DEF RecordsInv, Together, Quiet
<1>3. Quietly
  BY <1>1, <1>2 DEF Quietly, Unstored
<1>4. Written' = Written /\ \A j : InEffect(j)' <=> InEffect(j)
  BY <1>1, FileKept
<1>5. ASSUME NEW job \in Queued PROVE Owned(job)'
  <2>1. Owned(job)
    BY DEF RecordsInv, Together
  <2>2. job.kind # "end"
    BY <1>1, <2>1 DEF Owned, KindsOf, RequestKinds, Outcomes
  <2> QED BY <1>1, <2>1, <2>2 DEF Owned, KindsOf, Outcomes
<1>6. ChainInv' /\ Stored' = Stored
  BY <1>1, <1>4 DEF RecordsInv, Together, ChainInv, Stored, Outcomes
<1>7. RowInv'
  BY <1>4, <1>6 DEF RecordsInv, Together, RowInv
<1>8. Stage'
  BY <1>1, <1>2, <1>4 DEF RecordsInv, Together, Stage, Outcomes
<1>9. Confirmed'
  <2>1. Confirmed
    BY DEF RecordsInv, Together
  <2>2. CASE authority' = "finished" /\ (authority = "live" \/ execution' = "cancelled")
    <3>1. CASE authority = "live"
      BY <1>1, <1>4, <2>1, <2>2, <3>1 DEF Confirmed, Completes, Revoking
    <3>2. CASE execution' = "cancelled"
      BY <1>1, <1>4, <2>1, <2>2, <3>2 DEF Confirmed, Completes, Revoking
    <3> QED BY <2>2, <3>1, <3>2
  <2>3. CASE execution' # "completed" /\ UNCHANGED authority
    BY <1>1, <1>4, <2>1, <2>3 DEF Confirmed, Completes, Revoking, Outcomes
  <2> QED BY <2>2, <2>3 DEF RuntimeEnds
<1> QED BY <1>1, <1>3, <1>5, <1>6, <1>7, <1>8, <1>9, ExecutionStep

LEMMA ProgressWrittenStep ==
    ASSUME RecordsInv, ProgressWritten
    PROVE  StoreStep /\ Together'
<1>1. /\ execution \in {"running"} \cup Outcomes /\ chain # <<>> /\ writing # 0
      /\ settled[writing] # "none" /\ chain' = Tail(chain) /\ writing' = 0
      /\ UNCHANGED <<process, data, next, file, temp, queue, step, issued, settled, faults,
                     workspace, requests, made, execution, authority, events>>
  BY DEF ProgressWritten, storeVars
<1>2. process = "up"
  BY <1>1 DEF RecordsInv, Together, Quiet, Outcomes
<1>3. Quietly
  BY <1>1, <1>2 DEF Quietly, Unstored
<1>4. \A job \in Queued : Owned(job)'
  BY <1>1, <1>3, AnsweredStep
<1>5. Written' = Written /\ \A j : InEffect(j)' <=> InEffect(j)
  BY <1>1, FileKept
<1>6. /\ Len(chain) \in Nat \ {0} /\ events \in Nat /\ chain \in Seq(Nat) /\ Stored \in Nat
      /\ events - Len(chain) \in Nat
  BY <1>1, ExecutionFacts DEF RecordsInv, RecordsTypeOK
<1>7. /\ Len(chain') = Len(chain) - 1
      /\ \A n \in 1..Len(chain) - 1 : chain'[n] = chain[n + 1]
  BY <1>1, <1>6, HeadTailProperties
<1>8. ChainInv'
  <2>1. Len(chain) <= events
    BY DEF RecordsInv, Together, ChainInv
  <2>2. Len(chain') <= events'
    BY <1>1, <1>6, <1>7, <2>1
  <2>3. ASSUME NEW n \in 1..Len(chain) - 1
        PROVE  chain'[n] = events - (Len(chain) - 1) + n
    <3>1. n + 1 \in 1..Len(chain) /\ n \in Nat
      BY <1>6
    <3>2. chain[n + 1] = events - Len(chain) + (n + 1)
      BY <3>1 DEF RecordsInv, Together, ChainInv
    <3> QED BY <1>6, <1>7, <3>1, <3>2
  <2>4. \A n \in 1..Len(chain') : chain'[n] = events' - Len(chain') + n
    BY <1>1, <1>7, <2>3
  <2> QED BY <1>1, <2>2, <2>4 DEF ChainInv, Outcomes
<1>9. Stored' \in Nat /\ Stored <= Stored'
  <2>1. Stored' = events - Len(chain) + 1
    BY <1>1, <1>6, <1>7 DEF Stored
  <2>2. Stored = events - Len(chain) \/ Stored = events - Len(chain) + 1
    BY <1>6 DEF Stored
  <2> QED BY <1>6, <2>1, <2>2
<1>10. RowInv'
  <2>1. RunOK(Written.run, Stored')
    BY <1>6, <1>9, BoundGrows, ExecutionFacts
  <2> QED BY <1>5, <2>1 DEF RecordsInv, Together, RowInv
<1>11. Stage'
  BY <1>1, <1>2, <1>5 DEF RecordsInv, Together, Stage, Outcomes
<1> QED BY <1>1, <1>3, <1>4, <1>8, <1>10, <1>11, ExecutionStep

LEMMA RunEndedStep ==
    ASSUME RecordsInv, RunEnded
    PROVE  StoreStep /\ Together'
<1>1. /\ execution \in {"completing", "failing"} /\ settled[writing] # "none" /\ writing' = 0
      /\ execution' \in IF settled[writing] = "done" THEN {"over"} ELSE AfterFailedEnd
      /\ UNCHANGED <<process, data, next, file, temp, queue, step, issued, settled, faults,
                     workspace, requests, made, authority, events, chain>>
  BY DEF RunEnded, storeVars
<1>2. process = "up" /\ writing # 0 /\ chain = <<>>
  BY <1>1 DEF RecordsInv, Together, Quiet, ChainInv, Outcomes
<1>3. Quietly
  BY <1>1, <1>2 DEF Quietly, Unstored
<1>4. \A job \in Queued : Owned(job)'
  BY <1>1, <1>3, AnsweredStep
<1>5. Written' = Written /\ \A j : InEffect(j)' <=> InEffect(j)
  BY <1>1, FileKept
<1>6. ChainInv' /\ Stored' = Stored
  BY <1>1, <1>2, <1>5 DEF RecordsInv, Together, ChainInv, Stored, AfterFailedEnd
<1>7. RowInv'
  BY <1>5, <1>6 DEF RecordsInv, Together, RowInv
<1>8. Stage'
  <2>1. /\ InEffect(writing) => Written.run.status # "running"
        /\ ~InEffect(writing) => Unfinished(Written.run)
    BY <1>1 DEF RecordsInv, Together, Stage
  <2>2. /\ settled[writing] = "done" => InEffect(writing)
        /\ settled[writing] # "done" => ~InEffect(writing)
    BY <1>1, <1>2, ExecutionFacts
  <2> QED BY <1>1, <1>2, <1>5, <2>1, <2>2 DEF Stage, AfterFailedEnd, Outcomes
<1>9. execution' \notin {"completed", "completing"}
  BY <1>1 DEF AfterFailedEnd
<1> QED BY <1>1, <1>3, <1>4, <1>6, <1>7, <1>8, <1>9, ExecutionStep

(* A mutation that the Run calls for.                                       *)
LEMMA RunCallsStep ==
    ASSUME RecordsInv, process = "up", NEW job \in StoredJob, Mutate(job), writing = 0,
           writing' = NextJob, UNCHANGED <<workspace, requests, made, authority, events, chain>>,
           execution' = "completing" => execution = "completed",
           execution' = "completed" => execution = "completed",
           \/ /\ job.kind = "start" /\ execution' = "starting" /\ chain = <<>>
              /\ Written.run = NoRun
           \/ /\ job.kind = "progress" /\ execution' \in {"running"} \cup Outcomes
              /\ chain # <<>> /\ job.value = Head(chain)
              /\ Unfinished(Written.run)
           \/ /\ job.kind = "end" /\ execution' \in {"completing", "failing"} /\ chain = <<>>
              /\ IF execution' = "completing"
                 THEN job.value = "completed" /\ job.mandate = "closed"
                 ELSE job.value \in {"failed", "cancelled"}
              /\ Unfinished(Written.run)
    PROVE  StoreStep /\ Together'
<1>1. /\ job.id = NextJob /\ NextJob \in Jobs /\ issued' = NextJob
      /\ UNCHANGED <<process, data, next, file, temp, step, settled, faults>>
  BY DEF Mutate
<1>2. Live
  BY DEF Live
<1>3. Queued' = Queued \cup {job} /\ StoreStep
  BY <1>2, CallStep DEF RecordsInv, StoreStep
<1>4. /\ Written' = Written /\ \A j : InEffect(j)' <=> InEffect(j)
      /\ ~InEffect(writing)' /\ writing' # 0
  BY <1>1, FileKept, NextIsFresh
<1>5. NobodyForgotten'
  <2>1. ASSUME NEW j, Awaited(j) PROVE Awaited(j)'
    BY <1>1, <1>3, <2>1 DEF Awaited
  <2>2. ASSUME NEW c \in Callers, requests[c].phase = "mutating"
        PROVE  requests[c].job \in 1..issued' /\ Awaited(requests[c].job)'
    <3>1. requests[c].job \in 1..issued /\ Awaited(requests[c].job)
      BY <2>2 DEF RecordsInv, Together, NobodyForgotten
    <3>2. requests[c].job \in 1..issued'
      BY <1>1, <3>1, NextIsFresh
    <3>3. requests' = requests
      OBVIOUS
    <3> QED BY <1>1, <1>3, <3>1, <3>2, <3>3 DEF Awaited
  <2>3. Awaited(writing)'
    BY <1>1, <1>3 DEF Awaited
  <2> QED BY <2>2, <2>3 DEF NobodyForgotten
<1>6. Quiet'
  BY <1>1 DEF Quiet
<1>7. ASSUME NEW old \in Queued PROVE Owned(old)'
  <2>1. Owned(old) /\ old.kind \in RequestKinds /\ old.id # writing'
    BY NoJobOfTheRun, NextIsFresh DEF RecordsInv, Together
  <2>2. old.kind \notin {"recover", "end", "progress"}
    BY <2>1 DEF RequestKinds
  <2> QED BY <1>1, <2>1, <2>2 DEF Owned
<1>8. ASSUME NEW new, new = job PROVE Owned(new)'
  <2>1. \A c \in Callers : requests'[c].phase = "mutating" => requests'[c].job # new.id
    BY <1>1, <1>8, NextIsFresh
  <2>2. new.kind \notin RequestKinds /\ new.kind \in KindsOf(execution')
    BY <1>8 DEF RequestKinds, KindsOf, Outcomes
  <2> QED BY <1>1, <1>8, <2>1, <2>2 DEF Owned
<1>9. ChainInv' /\ Stored' = Stored
  BY <1>1, <1>4 DEF RecordsInv, Together, ChainInv, Stored, Outcomes
<1>10. RowInv'
  BY <1>4, <1>9 DEF RecordsInv, Together, RowInv
<1>11. Stage'
  BY <1>1, <1>4 DEF Stage, Outcomes
<1>12. (\A c \in Callers : RequestInv(c)') /\ Placed'
  BY <1>1, RequestsKept
<1>13. Confirmed'
  <2>1. Completes' => Completes
    BY <1>4 DEF Completes
  <2> QED BY <1>4, <2>1 DEF RecordsInv, Together, Confirmed, Revoking
<1>14. Remembered'
  BY <1>1 DEF RecordsInv, Together, Remembered
<1> QED BY <1>3, <1>5, <1>6, <1>7, <1>8, <1>9, <1>10, <1>11, <1>12, <1>13, <1>14 DEF Together

LEMMA StartsRunStep ==
    ASSUME RecordsInv, StartsRun
    PROVE  StoreStep /\ Together'
<1> PICK job : job = Mutation("start", 0)
  OBVIOUS
<1>1. /\ process = "up" /\ execution = "none" /\ data.agent # Absent /\ data.run = NoRun
      /\ Mutate(job) /\ execution' = "starting" /\ writing' = NextJob
      /\ UNCHANGED <<workspace, requests, made, authority, events, chain>>
  BY DEF StartsRun
<1>2. job \in StoredJob /\ job.kind = "start"
  BY <1>1 DEF Mutate, Mutation, StoredJob
<1>3. writing = 0 /\ chain = <<>>
  BY <1>1 DEF RecordsInv, Together, Quiet, ChainInv, Outcomes
<1>4. Written.run = NoRun
  <2>1. CASE /\ Job \in Queued /\ Job \in StoredJob
             /\ Written.run = Effect(Job, data).run
    <3>1. Job.kind \in RequestKinds
      BY <1>1, <1>3, <2>1, NoJobOfTheRun
    <3>2. data \in Database
      BY <1>1, MemoryAndFile
    <3>3. data = [version |-> data.version, applied |-> data.applied, agent |-> data.agent,
                  run |-> data.run]
      BY <3>2 DEF Database
    <3>4. data.run.status = "none" /\ data.run.mandate = "none"
      BY <1>1 DEF NoRun
    <3> QED BY <1>1, <2>1, <3>1, <3>3, <3>4 DEF Effect, RequestKinds
  <2> QED BY <1>1, <2>1, MemoryAndFile
<1> QED BY <1>1, <1>2, <1>3, <1>4, RunCallsStep

LEMMA WritesProgressStep ==
    ASSUME RecordsInv, WritesProgress
    PROVE  StoreStep /\ Together'
<1> PICK job : job = Mutation("progress", Head(chain))
  OBVIOUS
<1>1. /\ execution \in {"running"} \cup Outcomes /\ chain # <<>> /\ writing = 0
      /\ Mutate(job) /\ writing' = NextJob
      /\ UNCHANGED <<workspace, requests, made, execution, authority, events, chain>>
  BY DEF WritesProgress
<1>2. process = "up" /\ Unfinished(Written.run)
  BY <1>1 DEF RecordsInv, Together, Quiet, Stage, Outcomes
<1>3. job \in StoredJob /\ job.kind = "progress" /\ job.value = Head(chain)
  <2>1. Head(chain) \in Nat
    BY <1>1, HeadTailProperties DEF RecordsInv, RecordsTypeOK
  <2> QED BY <1>1, <2>1 DEF Mutate, Mutation, StoredJob
<1> QED BY <1>1, <1>2, <1>3, RunCallsStep DEF Outcomes

LEMMA EndsRunStep ==
    ASSUME RecordsInv, EndsRun
    PROVE  StoreStep /\ Together'
<1>1. /\ execution \in Outcomes /\ chain = <<>> /\ writing = 0
      /\ execution' = IF execution = "completed" THEN "completing" ELSE "failing"
      /\ writing' = NextJob
      /\ UNCHANGED <<workspace, requests, made, authority, events, chain>>
  BY DEF EndsRun
<1> PICK mandate \in {"closed", "pending"} :
          /\ execution = "completed" => mandate = "closed"
          /\ Mutate([Mutation("end", execution) EXCEPT !.mandate = mandate])
  BY DEF EndsRun
<1> PICK job : job = [Mutation("end", execution) EXCEPT !.mandate = mandate]
  OBVIOUS
<1>2. process = "up" /\ Unfinished(Written.run)
  BY <1>1 DEF RecordsInv, Together, Quiet, Stage, Outcomes
<1>3. /\ job \in StoredJob /\ job.kind = "end" /\ Mutate(job)
      /\ job.value = execution /\ job.mandate = mandate
  BY <1>1 DEF Mutate, Mutation, StoredJob
<1>4. IF execution' = "completing" THEN job.value = "completed" /\ job.mandate = "closed"
      ELSE job.value \in {"failed", "cancelled"}
  BY <1>1, <1>3 DEF Outcomes
<1> QED BY <1>1, <1>2, <1>3, <1>4, RunCallsStep

-----------------------------------------------------------------------------
(* Types.                                                                   *)

Requested == [op : {"none"} \cup RequestKinds,
              phase : {"idle", "asked", "prepared", "mutating", "mutated"},
              value : 0..MaxRequests, job : {0} \cup Jobs]

(* A request keeps its type when it moves, ends or waits.                   *)
LEMMA RequestTypes ==
    ASSUME RecordsTypeOK, NEW c \in Callers
    PROVE  /\ \A phase \in {"prepared", "mutated"} :
                 Moves(c, phase) => requests' \in [Callers -> Requested]
           /\ Done(c) => requests' \in [Callers -> Requested]
           /\ \A j \in Jobs : Waits(c, j) => requests' \in [Callers -> Requested]
<1>1. requests \in [Callers -> Requested]
  BY DEF RecordsTypeOK, Requested
<1>2. /\ requests[c] \in Requested /\ Idle \in Requested
      /\ requests[c] = [op |-> requests[c].op, phase |-> requests[c].phase,
                        value |-> requests[c].value, job |-> requests[c].job]
  BY <1>1, RecordsAssumption DEF Requested, Idle
<1>3. \A phase \in {"prepared", "mutated"} : [requests[c] EXCEPT !.phase = phase] \in Requested
  BY <1>2 DEF Requested
<1>4. \A j \in Jobs : [[requests[c] EXCEPT !.phase = "mutating"] EXCEPT !.job = j] \in Requested
  BY <1>2 DEF Requested
<1>5. ASSUME NEW phase \in {"prepared", "mutated"}, Moves(c, phase)
      PROVE  requests' \in [Callers -> Requested]
  <2>1. requests' = [requests EXCEPT ![c] = [requests[c] EXCEPT !.phase = phase]]
    BY <1>5 DEF Moves
  <2> QED BY <1>1, <1>3, <2>1
<1>6. ASSUME Done(c) PROVE requests' \in [Callers -> Requested]
  BY <1>1, <1>2, <1>6 DEF Done
<1>7. ASSUME NEW j \in Jobs, Waits(c, j) PROVE requests' \in [Callers -> Requested]
  <2>1. requests' = [requests EXCEPT ![c] = [[requests[c] EXCEPT !.phase = "mutating"]
                                               EXCEPT !.job = j]]
    BY <1>1, <1>7 DEF Waits
  <2> QED BY <1>1, <1>4, <2>1
<1> QED BY <1>5, <1>6, <1>7

LEMMA TypeStep ==
    ASSUME RecordsInv, RecordsNext, StoreTypeOK'
    PROVE  RecordsTypeOK'
<1> DEFINE Directories == [at : {"nowhere", "root", ".deleted"}, instructions : 0..MaxRequests]
<1>1. /\ RecordsTypeOK /\ requests \in [Callers -> Requested] /\ workspace \in Directories
      /\ made \in 0..MaxRequests /\ events \in 0..MaxEvents /\ chain \in Seq(Nat)
      /\ writing \in 0..issued /\ issued \in Nat /\ MaxRequests \in Nat /\ MaxEvents \in Nat
      /\ 0 \in 0..MaxRequests /\ authority \in {"live", "revoked", "finished"}
  BY StoreAssumption, RecordsAssumption
     DEF RecordsInv, RecordsTypeOK, StoreTypeOK, Requested
<1>2. <<>> \in Seq(Nat) /\ NextJob \in 0..NextJob /\ writing \in 0..NextJob /\ 0 \in 0..issued
  BY <1>1, EmptySeq DEF NextJob
<1> USE DEF storeVars, recordVars
<1>3. SUFFICES /\ workspace' \in Directories /\ requests' \in [Callers -> Requested]
               /\ made' \in 0..MaxRequests
               /\ execution' \in {"none", "starting", "running", "completing", "failing",
                                  "lost", "over"} \cup Outcomes
               /\ authority' \in {"live", "revoked", "finished"}
               /\ events' \in 0..MaxEvents /\ chain' \in Seq(Nat) /\ writing' \in 0..issued'
  BY DEF RecordsTypeOK, Requested
<1>4. execution \in {"none", "starting", "running", "completing", "failing", "lost", "over"}
                   \cup Outcomes
  BY <1>1 DEF RecordsTypeOK
<1>5. \A job : Mutate(job) => issued' = NextJob /\ NextJob \in Jobs
  BY DEF Mutate
<1> HIDE DEF Directories
<1>6. CASE Starts
  BY <1>1, <1>4, <1>6 DEF Starts, Boot
<1>7. CASE Stores
  BY <1>1, <1>4, <1>7
     DEF Stores, Apply, Applies, Throw, MutationThrows, WriteEnds, Rename, Publish, PersistFails
<1>8. CASE Recovers
  BY <1>1, <1>2, <1>4, <1>5, <1>8 DEF Recovers
<1>21. CASE StartReconciles
  BY <1>1, <1>2, <1>4, <1>5, <1>21 DEF StartReconciles, Reconciled
<1>9. CASE StartedUp
  BY <1>1, <1>2, <1>4, <1>9 DEF StartedUp
<1>10. CASE Crashes
  <2>1. Idle \in Requested
    BY <1>1 DEF Idle, Requested
  <2> QED BY <1>1, <1>2, <1>4, <1>10, <2>1 DEF Crashes, Crash
<1>11. ASSUME NEW c \in Callers, NEW op \in RequestKinds, Request(c, op)
       PROVE  <1>3!1
  <2>1. [op |-> op, phase |-> "asked", value |-> made + 1, job |-> 0] \in Requested
        /\ made' \in 0..MaxRequests
    BY <1>1, <1>11 DEF Request, Requested
  <2> QED BY <1>1, <1>4, <1>11, <2>1 DEF Request
<1>12. ASSUME NEW c \in Callers, Serves(c) \/ DirectoryFails(c)
       PROVE  <1>3!1
  <2>1. CASE MakesDirectory(c)
    <3>1. workspace' \in Directories
      BY <1>1, <2>1 DEF MakesDirectory, Directories
    <3> QED BY <1>1, <1>4, <2>1, <3>1, RequestTypes DEF MakesDirectory
  <2>2. CASE Archives(c)
    <3>1. workspace' \in Directories
      BY <1>1, <2>2 DEF Archives, Directories
    <3>2. requests' \in [Callers -> Requested]
      BY <1>1, <2>2, RequestTypes DEF Archives
    <3> QED BY <1>1, <1>4, <2>2, <3>1, <3>2 DEF Archives
  <2>3. CASE Mutates(c)
    <3>1. requests' \in [Callers -> Requested]
      BY <1>1, <1>5, <2>3, RequestTypes DEF Mutates
    <3> QED BY <1>1, <1>2, <1>4, <1>5, <2>3, <3>1 DEF Mutates, Reconciled
  <2>4. CASE Returns(c)
    <3>1. requests' \in [Callers -> Requested]
      BY <1>1, <2>4, RequestTypes DEF Returns
    <3> QED BY <1>1, <1>4, <2>4, <3>1 DEF Returns
  <2>5. CASE WritesInstructions(c)
    <3>1. requests[c].value \in 0..MaxRequests
      BY <1>1 DEF Requested
    <3>2. workspace' \in Directories
      BY <1>1, <2>5, <3>1 DEF WritesInstructions, Directories
    <3> QED BY <1>1, <1>4, <2>5, <3>2, RequestTypes DEF WritesInstructions
  <2>6. CASE DirectoryFails(c)
    <3>1. requests' \in [Callers -> Requested]
      BY <1>1, <2>6, RequestTypes DEF DirectoryFails
    <3> QED BY <1>1, <1>4, <2>6, <3>1 DEF DirectoryFails
  <2>7. CASE Revokes(c)
    <3>1. requests' \in [Callers -> Requested]
      <4>1. CASE Done(c)
        BY <1>1, <4>1, RequestTypes
      <4>2. CASE requests' = [requests EXCEPT ![c].phase = "prepared",
                                  ![c].value = IF authority = "finished" THEN 0 ELSE @]
        <5> PICK value : value = IF authority = "finished" THEN 0 ELSE requests[c].value
          OBVIOUS
        <5>1. requests[c] \in Requested /\ value \in 0..MaxRequests
          BY <1>1 DEF Requested
        <5>2. [[requests[c] EXCEPT !.phase = "prepared"] EXCEPT !.value = value] \in Requested
          BY <5>1 DEF Requested
        <5>3. requests' = [requests EXCEPT ![c] = [[requests[c] EXCEPT !.phase = "prepared"]
                                                     EXCEPT !.value = value]]
          BY <1>1, <4>2, <5>1
        <5> QED BY <1>1, <5>2, <5>3
      <4> QED BY <2>7, <4>1, <4>2 DEF Revokes
    <3> QED BY <1>1, <1>4, <2>7, <3>1 DEF Revokes
  <2> QED BY <1>12, <2>1, <2>2, <2>3, <2>4, <2>5, <2>6, <2>7 DEF Serves
<1>13. CASE StartsRun
  BY <1>1, <1>2, <1>4, <1>5, <1>13 DEF StartsRun
<1>14. CASE Emits
  <2>1. events' \in 0..MaxEvents /\ events + 1 \in Nat
    BY <1>1, <1>14 DEF Emits
  <2>2. chain' \in Seq(Nat)
    BY <1>1, <1>14, <2>1, AppendProperties DEF Emits
  <2> QED BY <1>1, <1>4, <1>14, <2>1, <2>2 DEF Emits
<1>15. CASE RuntimeEnds
  BY <1>1, <1>4, <1>15 DEF RuntimeEnds
<1>16. CASE RunStarted
  BY <1>1, <1>2, <1>16 DEF RunStarted
<1>17. CASE WritesProgress
  BY <1>1, <1>2, <1>4, <1>5, <1>17 DEF WritesProgress
<1>18. CASE ProgressWritten
  <2>1. chain' \in Seq(Nat)
    BY <1>1, <1>18, HeadTailProperties DEF ProgressWritten
  <2> QED BY <1>1, <1>2, <1>4, <1>18, <2>1 DEF ProgressWritten
<1>19. CASE EndsRun
  <2>1. issued' = NextJob
    BY <1>5, <1>19 DEF EndsRun
  <2> QED BY <1>1, <1>2, <1>19, <2>1 DEF EndsRun
<1>20. CASE RunEnded
  BY <1>1, <1>2, <1>20 DEF RunEnded, AfterFailedEnd, Outcomes
<1> QED BY <1>6, <1>7, <1>8, <1>9, <1>10, <1>11, <1>12, <1>13, <1>14, <1>15, <1>16, <1>17,
           <1>18, <1>19, <1>20, <1>21 DEF RecordsNext, Executes

-----------------------------------------------------------------------------
(* The inductive invariant.                                                 *)

LEMMA RecordsInvInit == RecordsInit => RecordsInv
<1> SUFFICES ASSUME RecordsInit PROVE RecordsInv
  OBVIOUS
<1>1. /\ process = "down" /\ data = Absent /\ next = Absent /\ temp = Absent /\ queue = <<>>
      /\ file \in {Absent, Legacy("none"), Legacy("running")}
      /\ step = "idle" /\ issued = 0 /\ settled = [j \in Jobs |-> "none"] /\ faults = 0
      /\ workspace = IF file = Absent THEN [at |-> "nowhere", instructions |-> 0]
                     ELSE [at |-> "root", instructions |-> 0]
      /\ requests = [c \in Callers |-> Idle] /\ made = 0
      /\ authority \in {"live", "finished"}
      /\ execution = "none" /\ events = 0 /\ chain = <<>> /\ writing = 0
  BY DEF RecordsInit, StoreInit
<1>2. /\ MaxJobs \in Nat /\ MaxFaults \in Nat /\ MaxRequests \in Nat /\ MaxEvents \in Nat
      /\ 0 \in 0..MaxRequests /\ Queued = {}
  BY <1>1, StoreAssumption, RecordsAssumption DEF Queued, Range
<1>3. \A status \in {"none", "running"} :
         /\ Legacy(status) \in Database /\ Legacy(status).applied = <<>>
         /\ Legacy(status).version = 1 /\ Legacy(status).agent = 0
         /\ Legacy(status).run = [status |-> status, mandate |-> "none", log |-> <<>>]
  <2> SUFFICES ASSUME NEW status \in {"none", "running"}
               PROVE  /\ Legacy(status) \in Database /\ Legacy(status).applied = <<>>
                      /\ Legacy(status).version = 1 /\ Legacy(status).agent = 0
                      /\ Legacy(status).run = [status |-> status, mandate |-> "none", log |-> <<>>]
    OBVIOUS
  <2> PICK run : run = [status |-> status, mandate |-> "none", log |-> <<>>]
    OBVIOUS
  <2>1. <<>> \in Seq(LogEntry) /\ <<>> \in Seq(Jobs)
    BY EmptySeq
  <2>2. run \in RunRow
    BY <2>1 DEF RunRow, Statuses
  <2>3. Legacy(status) = [version |-> 1, applied |-> <<>>, agent |-> 0, run |-> run]
    BY DEF Legacy, NoRun
  <2> QED BY <1>2, <2>1, <2>2, <2>3 DEF Database
<1>4. file \in {Absent} \cup Database
  BY <1>1, <1>3
<1>5. StoreTypeOK
  BY <1>1, <1>2, <1>4 DEF StoreTypeOK
<1>6. Idle \in Requested
  BY <1>2 DEF Idle, Requested
<1>7. RecordsTypeOK
  BY <1>1, <1>2, <1>5, <1>6 DEF RecordsTypeOK, Requested
<1>8. /\ Written \in Database /\ Durable = <<>>
      /\ Written.run.log = <<>> /\ Written.run.status \in {"none", "running"}
      /\ Written.run.mandate = "none"
      /\ Written.run.status = "none" => Written.run = NoRun
      /\ Written.agent = Absent => Written.run = NoRun
      /\ file = Absent => Written.agent = Absent
  <2>1. CASE file = Absent
    BY <1>4, <2>1, WrittenIsDatabase DEF Empty, NoRun
  <2>2. CASE file # Absent
    <3>1. Written = file /\ Written \in Database /\ Durable = file.applied
      BY <1>4, <2>2, WrittenIsDatabase
    <3>2. 0 # Absent
      BY RecordsAssumption
    <3> QED BY <1>1, <1>3, <2>2, <3>1, <3>2 DEF NoRun
  <2> QED BY <2>1, <2>2
<1>9. Replaced
  BY <1>1 DEF Replaced, Live
<1>10. Ordered
  <2>1. DOMAIN Durable = {} /\ DOMAIN queue = {}
    BY <1>1, <1>8
  <2> QED BY <1>1, <1>2, <2>1 DEF Ordered, Live
<1>11. NobodyForgotten /\ Quiet
  BY <1>1 DEF NobodyForgotten, Quiet, Idle
<1>12. ChainInv /\ Stored = 0
  <2>1. Len(chain) = 0
    BY <1>1
  <2>2. events = 0
    BY <1>1
  <2>3. events - Len(chain) = 0
    BY <2>1, <2>2
  <2>4. Stored = 0
    BY <1>1, <2>3 DEF Stored
  <2>5. 1..Len(chain) = {} /\ Len(chain) <= events
    BY <2>1, <2>2
  <2> QED BY <1>1, <2>4, <2>5 DEF ChainInv
<1>13. RowInv
  <2>1. Len(Written.run.log) = 0
    BY <1>8
  <2>2. Window(Written.run.log)
    BY <2>1, RecordsAssumption DEF Window
  <2>3. RunOK(Written.run, Stored)
    BY <1>8, <2>1, <2>2 DEF RunOK, Unclosed
  <2> QED BY <1>8, <2>3 DEF RowInv
<1>14. Stage /\ Confirmed /\ Remembered
  BY <1>1, <1>8 DEF Stage, Outcomes, Confirmed, Completes, Revoking, Idle, Remembered
<1>15. \A c \in Callers : RequestInv(c)
  BY <1>1 DEF RequestInv, Idle
<1>16. Placed
  BY <1>1, <1>8 DEF Placed
<1> QED BY <1>2, <1>5, <1>7, <1>9, <1>10, <1>11, <1>12, <1>13, <1>14, <1>15, <1>16
        DEF RecordsInv, StoreInv, Together

(* A step that changes nothing.                                             *)
LEMMA Stutter ==
    ASSUME RecordsInv, UNCHANGED allVars
    PROVE  RecordsInv'
<1>1. UNCHANGED storeVars /\ UNCHANGED recordVars
  BY DEF allVars
<1>2. /\ UNCHANGED <<process, data, next, file, temp, queue, step, issued, settled, faults>>
      /\ UNCHANGED <<workspace, requests, made, execution, authority, events, chain, writing>>
  BY <1>1 DEF storeVars, recordVars
<1>3. RecordsTypeOK'
  BY <1>2 DEF RecordsInv, RecordsTypeOK, StoreTypeOK
<1>4. StoreInv'
  <2>1. Unstored /\ faults' \in 0..MaxFaults
    BY <1>2 DEF Unstored, RecordsInv, StoreInv, StoreTypeOK
  <2> QED BY <2>1, UnstoredStep DEF RecordsInv
<1>5. Settling
  <2>1. Queued' = Queued
    BY <1>2 DEF Queued
  <2> QED BY <1>1, <1>2, <2>1 DEF Settling, RecordsInv, Together, RequestInv
<1> QED BY <1>3, <1>4, <1>5, SettlingStep DEF RecordsInv

(* Every step is one of the store, and keeps the invariant.                 *)
LEMMA RecordsStep ==
    ASSUME RecordsInv, RecordsNext
    PROVE  StoreStep /\ RecordsInv'
<1>1. StoreStep /\ Together'
  <2>1. CASE \E c \in Callers : Serves(c) \/ DirectoryFails(c)
    <3> PICK c \in Callers : Serves(c) \/ DirectoryFails(c)
      BY <2>1
    <3> QED BY MakesDirectoryStep, ArchivesStep, RevokesStep, MutatesStep, ReturnsStep,
               WritesInstructionsStep, DirectoryFailsStep DEF Serves
  <2>2. CASE \E c \in Callers, op \in RequestKinds : Request(c, op)
    BY <2>2, RequestStep
  <2>3. CASE Starts \/ Recovers \/ StartReconciles \/ StartedUp \/ Crashes \/ Stores
    BY <2>3, StartsStep, RecoversStep, StartReconcilesStep, StartedUpStep, CrashesStep, StoresStep
  <2>4. CASE StartsRun \/ Emits \/ RuntimeEnds \/ Executes
    BY <2>4, StartsRunStep, EmitsStep, RuntimeEndsStep, RunStartedStep, WritesProgressStep,
       ProgressWrittenStep, EndsRunStep, RunEndedStep DEF Executes
  <2> QED BY <2>1, <2>2, <2>3, <2>4 DEF RecordsNext
<1>2. StoreInv'
  BY <1>1, StoreInvStep DEF RecordsInv
<1>3. RecordsTypeOK'
  BY <1>2, TypeStep DEF StoreInv
<1> QED BY <1>1, <1>2, <1>3 DEF RecordsInv

(* Types, the queue over the file, and how rows, directory, requests and    *)
(* the Run fit together, through crashes and failed writes.                 *)
THEOREM RecordsInductiveInvariant == RecordsSpec => []RecordsInv
<1>1. RecordsInv /\ [RecordsNext]_allVars => RecordsInv'
  BY RecordsStep, Stutter
<1> QED BY <1>1, RecordsInvInit, PTL DEF RecordsSpec

(* The rows in memory and on disk are well typed, and the file is whole.    *)
THEOREM RecordsTypeCorrect == RecordsSpec => []RecordsTypeOK
<1>1. RecordsInv => RecordsTypeOK
  BY DEF RecordsInv
<1> QED BY <1>1, RecordsInductiveInvariant, PTL

(* A queue of mutations over a temporary file and a rename gives whole,     *)
(* ordered and durable mutations: an answered one stays, a rejected one     *)
(* never takes effect, whatever crashes and failed writes come between.     *)
THEOREM StoreImplementsPromise == RecordsSpec => ImplementsDurableStore
<1>1. RecordsInit => Promise!DurableInit
  <2>1. ASSUME RecordsInit
        PROVE  /\ file \in {Absent, Legacy("none"), Legacy("running")}
               /\ settled = [j \in Jobs |-> "none"] /\ StoreTypeOK
    BY <2>1, RecordsInvInit DEF RecordsInit, StoreInit, RecordsInv, StoreInv
  <2>2. ASSUME RecordsInit PROVE Durable = <<>>
    <3>1. Legacy("none").applied = <<>> /\ Legacy("running").applied = <<>>
      BY DEF Legacy
    <3>2. file \in {Absent, Torn} \/ Durable = file.applied
      BY DEF Durable
    <3> QED BY <2>1, <2>2, <3>1, <3>2 DEF Durable
  <2> QED BY <2>1, <2>2 DEF Promise!DurableInit
<1>2. RecordsInv /\ [RecordsNext]_allVars => [Promise!DurableNext]_<<Durable, settled>>
  <2>1. ASSUME RecordsInv, RecordsNext PROVE [Promise!DurableNext]_<<Durable, settled>>
    BY <2>1, RecordsStep, StoreKeepsPromise DEF RecordsInv
  <2>2. ASSUME UNCHANGED allVars PROVE UNCHANGED <<Durable, settled>>
    BY <2>2 DEF allVars, storeVars, Durable
  <2> QED BY <2>1, <2>2
<1> QED BY <1>1, <1>2, RecordsInductiveInvariant, PTL
        DEF RecordsSpec, ImplementsDurableStore, Promise!DurableSpec

(* A snapshot shows the file, or what it was one mutation ago.              *)
THEOREM SnapshotsAreDurable == RecordsSpec => []SnapshotIsDurable
<1>1. ASSUME RecordsInv, process \in {"recovering", "up"}
      PROVE  IsPrefix(data.applied, Durable) /\ Len(Durable) <= Len(data.applied) + 1
  <2>1. /\ data \in Database /\ file \in Database /\ Live
        /\ step # "renamed" => data = file
        /\ step = "renamed" => /\ file = next /\ queue # <<>> /\ Applicable(Job, data)
                               /\ next = Stamped(Effect(Job, data))
    BY <1>1 DEF RecordsInv, StoreInv, Replaced, Live
  <2>2. Durable = file.applied /\ StoreTypeOK
    BY <1>1, <2>1, WrittenIsDatabase DEF RecordsInv, StoreInv, StoreTypeOK
  <2> PICK s : s = data.applied
    OBVIOUS
  <2>3. s \in Seq(Jobs) /\ Len(s) \in Nat /\ SubSeq(s, 1, Len(s)) = s
    <3>1. s \in Seq(Jobs)
      BY <2>1 DEF Database
    <3> QED BY <3>1, LenProperties, SubSeqProperties
  <2>4. CASE step # "renamed"
    BY <2>1, <2>2, <2>3, <2>4 DEF IsPrefix
  <2>5. CASE step = "renamed"
    <3>1. Job \in StoredJob /\ Job.id \in Jobs
      BY <1>1, <2>1, <2>5, FirstJob DEF RecordsInv, StoreInv
    <3> PICK db : db = Effect(Job, data)
      OBVIOUS
    <3>2. db \in Database /\ db.applied = s
      BY <2>1, <2>5, <3>1, EffectOfJob
    <3>3. Durable = Append(s, Job.id)
      BY <2>1, <2>2, <2>5, <3>2 DEF Stamped, Database
    <3>4. Len(Durable) = Len(s) + 1 /\ SubSeq(Durable, 1, Len(s)) = s
      BY <2>3, <3>1, <3>3
    <3> QED BY <2>3, <3>4 DEF IsPrefix
  <2> QED BY <2>4, <2>5
<1>2. RecordsInv => SnapshotIsDurable
  BY <1>1 DEF SnapshotIsDurable
<1> QED BY <1>2, RecordsInductiveInvariant, PTL

(* Whoever waits for a mutation finds it settled or in the queue.           *)
THEOREM CallersAnswered == RecordsSpec => []NoCallerIsForgotten
<1>1. ASSUME RecordsInv, NEW j, Awaited(j)
      PROVE  settled[j] # "none" \/ \E n \in DOMAIN queue : queue[n].id = j
  BY <1>1 DEF Awaited, Queued, Range
<1>2. RecordsInv => NoCallerIsForgotten
  BY <1>1 DEF RecordsInv, Together, NobodyForgotten, NoCallerIsForgotten
<1> QED BY <1>2, RecordsInductiveInvariant, PTL

(* Only a delete that is under way, or one that a fault cut short after the *)
(* archive, leaves a row without its directory.                             *)
THEOREM RowsHaveWorkspace == RecordsSpec => []RowHasWorkspace
<1>1. ASSUME RecordsInv, Written.agent # Absent, workspace.at # "root"
      PROVE  \/ faults > 0 /\ workspace.at = ".deleted"
             \/ \E c \in Callers : requests[c].op = "delete"
  <2>1. workspace.at = ".deleted" /\ faults \in Nat
    BY <1>1, StoreAssumption DEF RecordsInv, RecordsTypeOK, StoreTypeOK, Together, Placed
  <2>2. faults = 0 => \E c \in Callers : requests[c].op = "delete"
    BY <1>1, <2>1 DEF RecordsInv, Together, Placed
  <2> QED BY <2>1, <2>2
<1>2. RecordsInv => RowHasWorkspace
  BY <1>1 DEF RowHasWorkspace
<1> QED BY <1>2, RecordsInductiveInvariant, PTL

(* No row looks active while nothing executes it.                           *)
THEOREM NoRunLeft == RecordsSpec => []NoRunLeftExecuting
<1>1. RecordsInv => NoRunLeftExecuting
  BY DEF RecordsInv, Together, Stage, NoRunLeftExecuting
<1> QED BY <1>1, RecordsInductiveInvariant, PTL

(* The stored progress is a window on the events, in order, whole, with the *)
(* terminal entry last and in ended Runs only, in every one that completed  *)
(* or failed.                                                               *)
THEOREM LogsAreWindows == RecordsSpec => []LogIsWindow
<1>1. ASSUME RecordsInv PROVE LogIsWindow
  <2> PICK log : log = Written.run.log
    OBVIOUS
  <2>1. /\ log \in Seq(LogEntry) /\ Window(log) /\ Len(log) \in Nat
        /\ \A n \in 1..Len(log) : log[n].sequence \in Nat /\ log[n].event \in Nat
    <3>1. Written.run \in RunRow /\ RunOK(Written.run, Stored)
      BY <1>1, ExecutionFacts
    <3>2. log \in Seq(LogEntry) /\ Window(log)
      BY <3>1 DEF RunRow, RunOK
    <3>3. Len(log) \in Nat /\ \A n \in 1..Len(log) : log[n] \in LogEntry
      BY <3>2, LenProperties, ElementOfSeq
    <3> QED BY <3>2, <3>3 DEF LogEntry
  <2>2. ASSUME NEW n \in 1..Len(log) - 1
        PROVE  /\ log[n + 1].sequence = log[n].sequence + 1
               /\ log[n].event # 0
               /\ log[n + 1].event # 0 => log[n].event < log[n + 1].event
    <3>1. n \in 1..Len(log) /\ n + 1 \in 1..Len(log) /\ n < n + 1 /\ 1 \in 1..Len(log) /\ n \in Nat
      BY <2>1
    <3>2. /\ log[n].event > 0
          /\ log[n + 1].event = 0 \/ log[n].event < log[n + 1].event
      BY <2>1, <3>1 DEF Window
    <3>3. /\ log[n].sequence = log[1].sequence + (n - 1)
          /\ log[n + 1].sequence = log[1].sequence + ((n + 1) - 1)
          /\ log[1].sequence \in Nat
      BY <2>1, <3>1 DEF Window
    <3>4. log[n + 1].sequence = log[n].sequence + 1
      <4> PICK first \in Nat : first = log[1].sequence
        BY <3>3
      <4> PICK this, after : this = log[n].sequence /\ after = log[n + 1].sequence
        OBVIOUS
      <4>1. this = first + (n - 1) /\ after = first + ((n + 1) - 1)
        BY <3>3
      <4>2. n \in Nat
        BY <3>1
      <4>3. after = this + 1
        BY <4>1, <4>2, SMTT(30)
      <4> QED BY <4>3
    <3>5. log[n].event \in Nat
      BY <2>1, <3>1
    <3> QED BY <3>2, <3>4, <3>5
  <2>3. /\ Closed(log) => Written.run.status \in Outcomes
        /\ Written.run.status \in {"completed", "failed"} => Closed(log)
    <3>1. RunOK(Written.run, Stored)
      BY <1>1, ExecutionFacts
    <3>2. log # <<>> => Len(log) \in 1..Len(log)
      BY <2>1, EmptySeq
    <3>3. Closed(log) <=> log # <<>> /\ log[Len(log)].event = 0
      BY DEF Closed, Terminal, Last
    <3> QED BY <3>1, <3>2, <3>3 DEF RunOK, Unclosed
  <2>4. Len(log) <= LogLimit
    BY <2>1 DEF Window
  <2> QED BY <2>2, <2>3, <2>4 DEF LogIsWindow, Terminal
<1> QED BY <1>1, RecordsInductiveInvariant, PTL

(* The file changes at a rename only.                                       *)
LEMMA OnlyRenames ==
    ASSUME RecordsInv, RecordsNext
    PROVE  UNCHANGED file \/ (Rename /\ UNCHANGED recordVars)
<1>1. CASE Stores /\ Rename
  BY <1>1 DEF Stores
<1>2. CASE Stores /\ ~Rename
  BY <1>2 DEF Stores, Apply, Applies, Persist, WriteTemporary, Throw, MutationThrows, WriteEnds,
               Publish, PersistFails
<1>3. CASE Starts \/ Recovers \/ StartReconciles \/ StartedUp \/ Crashes
  BY <1>3 DEF Starts, Boot, Persist, WriteTemporary, Recovers, StartReconciles, Mutate, StartedUp,
               Crashes, Crash
<1>4. CASE \E c \in Callers : Serves(c) \/ DirectoryFails(c)
  BY <1>4 DEF Serves, MakesDirectory, Archives, Revokes, Mutates, Mutate, Returns,
               WritesInstructions, DirectoryFails, storeVars
<1>5. CASE \E c \in Callers, op \in RequestKinds : Request(c, op)
  BY <1>5 DEF Request, storeVars
<1>6. CASE StartsRun \/ Emits \/ RuntimeEnds \/ Executes
  BY <1>6 DEF StartsRun, Emits, RuntimeEnds, Executes, RunStarted, WritesProgress, ProgressWritten,
               EndsRun, RunEnded, Mutate, storeVars
<1> QED BY <1>1, <1>2, <1>3, <1>4, <1>5, <1>6 DEF RecordsNext

(* A mutation leaves the row of an ended Run as it is, or deletes it, or    *)
(* changes its mandate; the end of an execution that a revocation has not   *)
(* waited for finds the Run cancelled and revoked.                          *)
LEMMA EndedRunRenamed ==
    ASSUME RecordsInv, Rename, process # "booting", UNCHANGED recordVars,
           Written.run.status \in Outcomes
    PROVE  EndedRunStep
<1> DEFINE run == Written.run
           later == Written'.run
<1>1. /\ Live /\ step # "renamed" /\ Job \in Queued /\ Job \in StoredJob
      /\ later = Effect(Job, Written).run
  BY RenameStep, OwnerOf DEF RecordsInv
<1>2. /\ Written \in Database /\ run \in RunRow
      /\ run.status \notin {"none", "running"} /\ ~Executing(Written)
  BY WrittenIsDatabase
     DEF RecordsInv, StoreInv, StoreTypeOK, Database, Outcomes, Executing
<1>3. CASE Job.kind \in {"create", "update", "progress", "recover"}
  <2>1. later = run
    BY <1>1, <1>2, <1>3 DEF Effect, Recovered, Database
  <2> QED BY <2>1 DEF EndedRunStep
<1>4. CASE Job.kind = "delete"
  <2>1. later = NoRun
    BY <1>1, <1>2, <1>4 DEF Effect, Database
  <2> QED BY <2>1 DEF EndedRunStep
<1>5. Job.kind # "start"
  <2>1. Job.kind = "start" => run = NoRun
    BY <1>1, OwnerOf
  <2> QED BY <1>2, <2>1 DEF NoRun
<1>6. CASE Job.kind = "revoke"
  <2>1. CASE Job.value = 0
    BY <1>1, <1>6, <2>1 DEF Effect, EndedRunStep
  <2>2. CASE Job.value # 0
    <3>1. run.status # "completed"
      BY <1>1, <1>6, <2>2, RevocationIsConfirmed DEF Completes
    <3>2. later = [run EXCEPT !.status = run.status, !.mandate = "revoked"]
      BY <1>1, <1>2, <1>6, <2>2 DEF Effect, Revoked, Database
    <3>3. later = [run EXCEPT !.mandate = "revoked"] /\ later.mandate = "revoked"
      BY <1>2, <3>2 DEF RunRow
    <3> QED BY <3>1, <3>3 DEF EndedRunStep
  <2> QED BY <2>1, <2>2
<1>7. CASE Job.kind = "reconcile"
  <2>1. CASE run.mandate = "pending"
    <3>1. run.status # "completed"
      BY <2>1 DEF RecordsInv, Together, RowInv, RunOK
    <3>2. later = [run EXCEPT !.mandate = "closed"] /\ later.mandate = "closed"
      BY <1>1, <1>2, <1>7, <2>1 DEF Effect, Database, RunRow
    <3> QED BY <2>1, <3>1, <3>2 DEF EndedRunStep
  <2>2. CASE run.mandate # "pending"
    BY <1>1, <1>7, <2>2 DEF Effect, EndedRunStep
  <2> QED BY <2>1, <2>2
<1>8. CASE Job.kind = "end"
  <2>1. Unfinished(run) /\ (Job.value = "completed" => execution = "completing")
    BY <1>1, <1>8, OwnerOf
  <2>2. run.status = "cancelled" /\ run.mandate = "revoked" /\ Unclosed(run.log)
    BY <1>2, <2>1 DEF Unfinished
  <2>3. ~Closed(run.log)
    <3>1. run.log \in Seq(LogEntry)
      BY <1>2 DEF RunRow
    <3>2. run.log # <<>> => Len(run.log) \in 1..Len(run.log)
      BY <3>1, LenProperties, EmptySeq
    <3> QED BY <2>2, <3>2 DEF Unclosed, Closed, Terminal, Last
  <2>4. ~Completes
    BY <2>2 DEF RecordsInv, Together, Confirmed
  <2>5. Job.value \in {"failed", "cancelled"} /\ Job.mandate \in {"closed", "pending"}
    BY <1>1, <1>8, <2>1, <2>4 DEF Completes, StoredJob, RequestKinds, Outcomes
  <2>6. later = [run EXCEPT !.status = Job.value, !.mandate = Job.mandate,
                            !.log = AddRunProgress(run.log, 0)]
    BY <1>1, <1>2, <1>8, <2>5 DEF Effect, Ended, Database
  <2>7. later.status = Job.value /\ later.mandate = Job.mandate
        /\ later.log = AddRunProgress(run.log, 0)
    BY <1>2, <2>6 DEF RunRow
  <2> QED BY <2>2, <2>3, <2>5, <2>7 DEF EndedRunStep
<1>9. Job.kind \in RequestKinds \cup {"start", "progress", "recover", "end"}
  BY <1>1 DEF StoredJob
<1> QED BY <1>3, <1>4, <1>5, <1>6, <1>7, <1>8, <1>9 DEF RequestKinds

(* The status and progress that a Run ended with stay until the Agent is    *)
(* deleted, whatever is still queued for it, but for the end of an          *)
(* execution that a revocation did not wait for; its mandate changes only   *)
(* when it is revoked or reconciled, and that of a completed Run does not.  *)
THEOREM EndedRunsStay == RecordsSpec => EndedRunStays
<1>1. ASSUME RecordsInv, [RecordsNext]_allVars, Written.run.status \in Outcomes
      PROVE  EndedRunStep
  <2>1. CASE UNCHANGED file
    BY <2>1, FileKept DEF EndedRunStep
  <2>2. CASE Rename /\ UNCHANGED recordVars /\ process = "booting"
    <3>1. Written' = Migrated(Written, Migrate(Written))
      BY <1>1, <2>2, RenameStep DEF RecordsInv
    <3>2. Written \in Database
      BY <1>1, WrittenIsDatabase DEF RecordsInv, StoreInv, StoreTypeOK
    <3>3. Written.version = 4
      BY <1>1, <3>2 DEF RecordsInv, Together, RowInv, Database, Outcomes
    <3> QED BY <3>1, <3>2, <3>3, MigrationOfDatabase DEF EndedRunStep
  <2>3. CASE Rename /\ UNCHANGED recordVars /\ process # "booting"
    BY <1>1, <2>3, EndedRunRenamed
  <2>4. CASE UNCHANGED allVars
    BY <2>1, <2>4 DEF allVars, storeVars
  <2> QED BY <1>1, <2>1, <2>2, <2>3, <2>4, OnlyRenames
<1>2. RecordsInv /\ [RecordsNext]_allVars => [EndedRunStep]_allVars
  BY <1>1 DEF EndedRunStep
<1> QED BY <1>2, RecordsInductiveInvariant, PTL DEF RecordsSpec, EndedRunStays
=============================================================================
