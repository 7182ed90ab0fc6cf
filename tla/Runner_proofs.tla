---------------------------- MODULE Runner_proofs ----------------------------
(***************************************************************************)
(* Theorems of module Runner: whoever cancels, however the child ends and  *)
(* whatever is still in its pipes, a stopped Run has no result, a result   *)
(* is the last message that the Runtime wrote, and run() leaves nothing    *)
(* behind.                                                                 *)
(*                                                                         *)
(* The invariant says what each stage of run() knows of its parts: the     *)
(* process and the timers, the proxy, the container, the flags and what    *)
(* consume() has made of the output.                                       *)
(***************************************************************************)
EXTENDS Runner, SequenceTheorems, TLAPS

-----------------------------------------------------------------------------
(* The invariant.                                                          *)

(* What run() has done at each of its stages.  After a crash only the      *)
(* process and its container still move.                                   *)
Untouched ==
    /\ child.state = "none" /\ flags = {} /\ ~timeout
    /\ killTimer = "unset" /\ removal = "none" /\ container = "none"
    /\ stop \in {"none", "false"}
Stages ==
    /\ (run \in {"idle", "starting"} => Untouched)
    /\ (run \in {"idle", "starting", "running"} => outcome = "none")
    /\ (run = "running" => child.state # "none")
    /\ (run \in {"closing", "over"} => child.state # "alive" /\ ~timeout)
    /\ (run \in {"starting", "closing"} => Local)
    /\ (run \in {"closing", "over"} /\ Local => killTimer = "unset")

(* The proxy follows a local Run, and a server that does not listen and    *)
(* has closed has no connection.                                           *)
ProxyFollows ==
    /\ (~Local => proxy = "off")
    /\ (Local /\ run \in {"idle", "starting"} => proxy = "off")
    /\ (Local /\ run = "running" => proxy = "listening")
    /\ (Local /\ run = "closing" => proxy = "closing")
    /\ (Local /\ run = "over" => proxy = "closed")
    /\ (proxy \in {"off", "closed"} => connected = {})

(* Signals are for a living process; that of a container is only signalled *)
(* when the removal has failed, so it dies before its container only then. *)
Removal ==
    /\ (child.state # "alive" => signals = {})
    /\ (Local => container = "none" /\ removal = "none")
    /\ (~Local /\ (signals # {} \/ killTimer # "unset") => removal = "failed")
    /\ (container = "up" /\ child.state # "alive" => removal = "failed")

(* cancel() raises its flag before it waits, and close reads the flag.     *)
Stopped ==
    /\ (stop \in {"waiting", "true"} => "cancelled" \in flags)
    /\ ("cancelled" \in flags => outcome # "result")

(* Up to the limit the lines parsed are the lines written, but for one     *)
(* that waits for its newline; a result has been given all of them.        *)
Output ==
    /\ rest <= consumed /\ consumed <= Len(written)
    /\ Len(parsed) <= consumed - rest
    /\ ("outputExceeded" \notin flags => parsed = SubSeq(written, 1, consumed - rest))
Result ==
    outcome = "result" =>
        /\ child.state = "exited"
        /\ parsed = written
        /\ LastMessage(written) # 0

RunnerInv ==
    /\ RunnerTypeOK
    /\ Stages
    /\ ProxyFollows
    /\ Removal
    /\ Stopped
    /\ Output
    /\ Result

-----------------------------------------------------------------------------
(* The lines of a Runtime.                                                 *)

(* A bounded sequence is a sequence that is not too long.                   *)
LEMMA Bounded ==
    ASSUME NEW S, NEW n \in Nat
    PROVE  \A s : s \in BoundedSeq(S, n) <=> s \in Seq(S) /\ Len(s) <= n
<1>1. ASSUME NEW s \in BoundedSeq(S, n) PROVE s \in Seq(S) /\ Len(s) <= n
  <2> PICK m \in 0..n : s \in [1..m -> S]
    BY <1>1 DEF BoundedSeq, SeqOf
  <2>1. m \in Nat /\ m <= n
    OBVIOUS
  <2>2. s \in Seq(S)
    BY <2>1, SeqDef
  <2>3. Len(s) = m
    BY <2>1, <2>2, LenProperties
  <2> QED BY <2>1, <2>2, <2>3
<1>2. ASSUME NEW s \in Seq(S), Len(s) <= n PROVE s \in BoundedSeq(S, n)
  <2>1. Len(s) \in 0..n /\ s \in [1..Len(s) -> S]
    BY <1>2, LenProperties
  <2> QED BY <2>1 DEF BoundedSeq, SeqOf
<1> QED BY <1>1, <1>2

(* A line more at the end leaves the lines before it.                       *)
LEMMA PrefixOfAppend ==
    ASSUME NEW S, NEW s \in Seq(S), NEW e \in S, NEW k \in 0..Len(s)
    PROVE  SubSeq(Append(s, e), 1, k) = SubSeq(s, 1, k)
<1>1. /\ Append(s, e) \in Seq(S) /\ Len(s) \in Nat
      /\ \A i \in 1..k : s[i] \in S /\ Append(s, e)[i] = s[i]
  BY AppendProperties, LenProperties
<1>2. /\ SubSeq(s, 1, k) \in Seq(S) /\ Len(SubSeq(s, 1, k)) = k
      /\ \A i \in 1..k : SubSeq(s, 1, k)[i] = s[i]
  <2>1. k \in Int /\ 1 \in Int /\ (\A i \in 1..k : s[i] \in S)
    BY <1>1
  <2>2. /\ SubSeq(s, 1, k) \in Seq(S)
        /\ Len(SubSeq(s, 1, k)) = IF 1 <= k THEN k - 1 + 1 ELSE 0
        /\ \A i \in 1..k - 1 + 1 : SubSeq(s, 1, k)[i] = s[1 + i - 1]
    BY <2>1, SubSeqProperties
  <2>3. k - 1 + 1 = k /\ (\A i \in 1..k : 1 + i - 1 = i) /\ k \in Nat
    BY <1>1
  <2> QED BY <2>2, <2>3
<1>3. /\ SubSeq(Append(s, e), 1, k) \in Seq(S) /\ Len(SubSeq(Append(s, e), 1, k)) = k
      /\ \A i \in 1..k : SubSeq(Append(s, e), 1, k)[i] = Append(s, e)[i]
  <2>1. k \in Int /\ 1 \in Int /\ (\A i \in 1..k : Append(s, e)[i] \in S)
    BY <1>1
  <2>2. /\ SubSeq(Append(s, e), 1, k) \in Seq(S)
        /\ Len(SubSeq(Append(s, e), 1, k)) = IF 1 <= k THEN k - 1 + 1 ELSE 0
        /\ \A i \in 1..k - 1 + 1 : SubSeq(Append(s, e), 1, k)[i] = Append(s, e)[1 + i - 1]
    BY <2>1, SubSeqProperties
  <2>3. k - 1 + 1 = k /\ (\A i \in 1..k : 1 + i - 1 = i) /\ k \in Nat
    BY <1>1
  <2> QED BY <2>2, <2>3
<1> QED BY <1>1, <1>2, <1>3, SeqEqual

(* What waits for its newline comes after what is parsed.                   *)
LEMMA RestOfOutput ==
    ASSUME RunnerTypeOK, Output
    PROVE  /\ ParseRest \in Seq(Lines)
           /\ Len(ParseRest) <= consumed
           /\ "outputExceeded" \notin flags => ParseRest = SubSeq(written, 1, consumed)
<1>1. /\ written \in Seq(Lines) /\ parsed \in Seq(Lines)
      /\ Len(written) \in Nat /\ Len(parsed) \in Nat
      /\ consumed \in Nat /\ rest \in 0..1 /\ rest <= consumed /\ consumed <= Len(written)
      /\ Len(parsed) <= consumed - rest
  BY Bounded, RunnerAssumption, LenProperties DEF RunnerTypeOK, Output
<1> DEFINE from == consumed - rest + 1
<1>2. from \in 1..Len(written) + 1 /\ from - 1 = consumed - rest /\ from \in Int
  BY <1>1
<1>3. \A i \in from..consumed : written[i] \in Lines
  BY <1>1, <1>2, ElementOfSeq
<1>4. /\ SubSeq(written, from, consumed) \in Seq(Lines)
      /\ Len(SubSeq(written, from, consumed))
            = IF from <= consumed THEN consumed - from + 1 ELSE 0
  BY <1>1, <1>2, <1>3, SubSeqProperties
<1>5. Len(SubSeq(written, from, consumed)) = rest
  BY <1>1, <1>4
<1>6. /\ ParseRest \in Seq(Lines)
      /\ Len(ParseRest) = Len(parsed) + Len(SubSeq(written, from, consumed))
  BY <1>1, <1>4, ConcatProperties DEF ParseRest
<1>7. Len(ParseRest) <= consumed
  BY <1>1, <1>5, <1>6
<1>8. ASSUME "outputExceeded" \notin flags PROVE ParseRest = SubSeq(written, 1, consumed)
  <2>1. parsed = SubSeq(written, 1, consumed - rest)
    BY <1>8 DEF Output
  <2>2. /\ 1 \in 1..Len(written) + 1 /\ consumed - rest \in (1 - 1)..Len(written)
        /\ consumed \in (consumed - rest)..Len(written)
    BY <1>1
  <2>3. SubSeq(written, 1, consumed - rest) \o SubSeq(written, (consumed - rest) + 1, consumed)
            = SubSeq(written, 1, consumed)
    BY <1>1, <2>2, ConcatAdjacentSubSeq
  <2> QED BY <2>1, <2>3 DEF ParseRest
<1> QED BY <1>6, <1>7, <1>8

-----------------------------------------------------------------------------
(* The steps.                                                              *)

(* What does not touch the output leaves what is known of it.               *)
LEMMA OutputKept ==
    ASSUME Output, UNCHANGED <<written, consumed, rest, parsed>>, flags \subseteq flags'
    PROVE  Output'
BY DEF Output

LEMMA ResultKept ==
    ASSUME Result, UNCHANGED <<outcome, written, parsed>>,
           child.state = "exited" => child'.state = "exited"
    PROVE  Result'
BY DEF Result

(* No outcome is no result.                                                 *)
LEMMA NoResultYet ==
    ASSUME outcome' # "result"
    PROVE  Result' /\ ("cancelled" \in flags' => outcome' # "result")
BY DEF Result

LEMMA RunnerStarts ==
    ASSUME RunnerInit
    PROVE  RunnerInv
<1> USE DEF RunnerInit, ProxyInit
<1>1. <<>> \in Seq(Lines) /\ Len(<<>>) = 0 /\ <<>> \in BoundedSeq(Lines, MaxLines)
  <2>1. <<>> \in Seq(Lines) /\ Len(<<>>) = 0
    BY EmptySeq
  <2>2. MaxLines \in Nat /\ Len(<<>>) <= MaxLines
    BY <2>1, RunnerAssumption
  <2> QED BY <2>1, <2>2, Bounded
<1>2. ProxyTypeOK
  BY ProxyAssumption DEF ProxyTypeOK, ProxyStates, RequestStates
<1>3. RunnerTypeOK
  <2>1. consumed \in 0..MaxLines /\ rest \in 0..1
    BY RunnerAssumption
  <2>2. child \in [state : {"none", "alive", "exited"}, pipes : BOOLEAN, code : {0, 1}]
    OBVIOUS
  <2>3. written \in BoundedSeq(Lines, MaxLines) /\ parsed \in BoundedSeq(Lines, MaxLines)
    BY <1>1
  <2>4. flags \subseteq Flags /\ signals \subseteq {"SIGTERM", "SIGKILL"}
    OBVIOUS
  <2> QED BY <1>2, <2>1, <2>2, <2>3, <2>4 DEF RunnerTypeOK, Outcomes
<1>4. Stages /\ ProxyFollows /\ Removal
  BY DEF Stages, Untouched, ProxyFollows, Removal, Local
<1>5. Stopped /\ Result
  BY DEF Stopped, Result
<1>6. Output
  <2>1. SubSeq(written, 1, consumed - rest) = <<>>
    BY SubSeqEmpty
  <2> QED BY <1>1, <2>1 DEF Output
<1> QED BY <1>3, <1>4, <1>5, <1>6 DEF RunnerInv

LEMMA BeginStep ==
    ASSUME RunnerInv, Begin
    PROVE  RunnerInv'
<1> USE DEF RunnerInv, Begin
<1>1. RunnerTypeOK'
  <2>1. run' \in {"starting", "running"} /\ container' \in {"none", "absent", "up", "gone"}
        /\ timeout' \in BOOLEAN
    BY DEF RunnerTypeOK
  <2>2. child' \in [state : {"none", "alive", "exited"}, pipes : BOOLEAN, code : {0, 1}]
    BY DEF RunnerTypeOK
  <2> QED BY <2>1, <2>2 DEF RunnerTypeOK, ProxyTypeOK, proxyVars
<1>2. Stages'
  BY DEF RunnerTypeOK, Stages, Untouched, Local
<1>3. ProxyFollows'
  BY DEF RunnerTypeOK, ProxyFollows, Local, proxyVars
<1>4. Removal'
  BY DEF RunnerTypeOK, Stages, Untouched, Removal, Local
<1>5. Stopped' /\ Result'
  BY DEF Stages, Stopped, Result
<1>6. Output'
  BY OutputKept
<1> QED BY <1>1, <1>2, <1>3, <1>4, <1>5, <1>6

LEMMA SpawnStep ==
    ASSUME RunnerInv, Spawn
    PROVE  RunnerInv'
<1> USE DEF RunnerInv, Spawn, ProxyStarts
<1>1. RunnerTypeOK'
  BY DEF RunnerTypeOK, ProxyTypeOK, ProxyStates
<1>2. Stages'
  BY DEF RunnerTypeOK, Stages, Untouched, Local
<1>3. ProxyFollows'
  BY DEF RunnerTypeOK, ProxyFollows, Stages, Local
<1>4. Removal'
  BY DEF RunnerTypeOK, Stages, Untouched, Removal, Local
<1>5. Stopped' /\ Result'
  BY DEF Stages, Stopped, Result
<1>6. Output'
  BY OutputKept
<1> QED BY <1>1, <1>2, <1>3, <1>4, <1>5, <1>6

LEMMA StartFailsStep ==
    ASSUME RunnerInv, StartFails
    PROVE  RunnerInv'
<1> USE DEF RunnerInv, StartFails, ProxyStartFails
<1>1. RunnerTypeOK'
  <2>1. ProxyTypeOK'
    BY DEF RunnerTypeOK, ProxyTypeOK, ProxyStates
  <2>2. outcome' \in Outcomes
    BY DEF Outcomes
  <2> QED BY <2>1, <2>2 DEF RunnerTypeOK
<1>2. Stages'
  BY DEF RunnerTypeOK, Stages, Untouched, Local
<1>3. ProxyFollows'
  BY DEF RunnerTypeOK, ProxyFollows, Stages, Local
<1>4. Removal'
  BY DEF Stages, Untouched, Removal, Local
<1>5. Stopped' /\ Result'
  BY DEF Stopped, Result
<1>6. Output'
  BY OutputKept
<1> QED BY <1>1, <1>2, <1>3, <1>4, <1>5, <1>6

(* The first step of finally, whatever decided.                             *)
LEMMA Decided ==
    ASSUME RunnerTypeOK, ProxyFollows, Active, NEW result \in Outcomes, Decides(result),
           UNCHANGED kind, child'.state = "exited"
    PROVE  /\ ProxyTypeOK' /\ ProxyFollows'
           /\ run' \in {"closing", "over"} /\ outcome' = result /\ timeout' = FALSE
           /\ killTimer' \in {"unset", "armed", "fired"}
           /\ (run' = "closing" => Local)
           /\ killTimer' \in {"unset", killTimer} /\ (Local => killTimer' = "unset")
<1> USE DEF Decides, CloseProxy, ProxyCloses, Local, Active
<1>1. ProxyTypeOK'
  BY DEF RunnerTypeOK, ProxyTypeOK, ProxyStates, proxyVars
<1>2. ProxyFollows'
  BY DEF ProxyFollows, proxyVars
<1> QED BY <1>1, <1>2 DEF RunnerTypeOK

LEMMA SpawnFailsStep ==
    ASSUME RunnerInv, SpawnFails
    PROVE  RunnerInv'
<1> USE DEF RunnerInv, SpawnFails, Active, Alive
<1>1. /\ child'.state = "exited"
      /\ child' \in [state : {"none", "alive", "exited"}, pipes : BOOLEAN, code : {0, 1}]
      /\ container' \in {"none", "gone"}
  BY DEF RunnerTypeOK, Container
<1>2. /\ ProxyTypeOK' /\ ProxyFollows'
      /\ run' \in {"closing", "over"} /\ outcome' = "error" /\ timeout' = FALSE
      /\ killTimer' \in {"unset", "armed", "fired"}
      /\ (run' = "closing" => Local)
      /\ killTimer' \in {"unset", killTimer} /\ (Local => killTimer' = "unset")
  BY <1>1, Decided DEF Outcomes
<1>3. RunnerTypeOK'
  BY <1>1, <1>2 DEF RunnerTypeOK, Outcomes
<1>4. Stages'
  BY <1>1, <1>2 DEF Stages, Local
<1>5. Removal'
  BY <1>1, <1>2 DEF Removal, Local, Container
<1>6. Stopped' /\ Result'
  BY <1>2 DEF Stopped, Result
<1>7. Output'
  BY OutputKept
<1> QED BY <1>2, <1>3, <1>4, <1>5, <1>6, <1>7

LEMMA CloseStep ==
    ASSUME RunnerInv, Close
    PROVE  RunnerInv'
<1> USE DEF RunnerInv, Close, Active, Closed
<1> DEFINE verdict == Verdict(flags, ParseRest)
<1>1. /\ ParseRest \in Seq(Lines) /\ Len(ParseRest) <= consumed
      /\ ("outputExceeded" \notin flags => ParseRest = SubSeq(written, 1, consumed))
  BY RestOfOutput
<1>2. /\ consumed \in 0..MaxLines /\ consumed = Len(written)
      /\ written \in Seq(Lines) /\ consumed - 0 = consumed /\ Len(ParseRest) \in Nat
      /\ SubSeq(written, 1, consumed) = written
  BY <1>1, Bounded, LenProperties, SubSeqFull, RunnerAssumption DEF RunnerTypeOK
<1>3. /\ verdict \in Outcomes \ {"none"}
      /\ (verdict = "result" => /\ flags \cap {"cancelled", "outputExceeded"} = {}
                                /\ LastMessage(ParseRest) # 0)
  BY DEF Verdict, Outcomes
<1>4. parsed' = ParseRest /\ rest' = 0 /\ Decides(verdict)
  OBVIOUS
<1> HIDE DEF verdict
<1>5. /\ ProxyTypeOK' /\ ProxyFollows'
      /\ run' \in {"closing", "over"} /\ outcome' = verdict /\ timeout' = FALSE
      /\ killTimer' \in {"unset", "armed", "fired"}
      /\ (run' = "closing" => Local)
      /\ killTimer' \in {"unset", killTimer} /\ (Local => killTimer' = "unset")
  BY <1>3, <1>4, Decided
<1>6. RunnerTypeOK'
  <2>1. parsed' \in BoundedSeq(Lines, MaxLines)
    <3>1. MaxLines \in Nat /\ Len(ParseRest) <= MaxLines
      BY <1>1, <1>2, RunnerAssumption
    <3> QED BY <1>1, <1>4, <3>1, Bounded
  <2>2. outcome' \in Outcomes
    BY <1>3, <1>5
  <2>3. rest' \in 0..1
    BY <1>4
  <2> QED BY <1>5, <2>1, <2>2, <2>3 DEF RunnerTypeOK
<1>7. Stages'
  BY <1>5 DEF Stages, Local
<1>8. Removal'
  BY <1>5 DEF Removal, Local
<1>9. Stopped'
  BY <1>3, <1>5 DEF Stopped
<1>10. Output'
  BY <1>1, <1>2, <1>4 DEF Output
<1>11. Result'
  BY <1>1, <1>2, <1>3, <1>4, <1>5 DEF Result
<1> QED BY <1>5, <1>6, <1>7, <1>8, <1>9, <1>10, <1>11

LEMMA EndsStep ==
    ASSUME RunnerInv, Ends
    PROVE  RunnerInv'
<1> USE DEF RunnerInv, Ends, ProxyClosed
<1>1. RunnerTypeOK'
  <2>1. ProxyTypeOK'
    BY DEF RunnerTypeOK, ProxyTypeOK, ProxyStates
  <2> QED BY <2>1 DEF RunnerTypeOK
<1>2. Stages'
  BY DEF Stages, Local
<1>3. ProxyFollows'
  BY DEF ProxyFollows, Stages, Local
<1>4. Removal'
  BY DEF Removal, Local
<1>5. Stopped' /\ Result'
  BY ResultKept DEF Stopped
<1>6. Output'
  BY OutputKept
<1> QED BY <1>1, <1>2, <1>3, <1>4, <1>5, <1>6

(* A flag is raised while the Run is active: the child is signalled, or    *)
(* the removal of its container asked for.                                 *)
LEMMA Raised ==
    ASSUME RunnerTypeOK, Removal, NEW flag \in Flags, Raise(flag),
           UNCHANGED <<kind, child, container>>
    PROVE  /\ flags' = flags \cup {flag} /\ flags' \subseteq Flags
           /\ signals' \subseteq {"SIGTERM", "SIGKILL"}
           /\ killTimer' \in {"unset", "armed", "fired"}
           /\ removal' \in {"none", "asked", "done", "failed"}
           /\ Removal'
<1> USE DEF Raise, Terminate, RemoveContainer, Local, Alive
<1>1. CASE Local
  BY <1>1 DEF RunnerTypeOK, Removal
<1>2. CASE ~Local
  BY <1>2 DEF RunnerTypeOK, Removal
<1> QED BY <1>1, <1>2

LEMMA ConsumeStep ==
    ASSUME RunnerInv, Consume
    PROVE  RunnerInv'
<1> USE DEF RunnerInv, Consume, Active
<1>1. /\ ParseRest \in Seq(Lines) /\ Len(ParseRest) <= consumed /\ Len(ParseRest) \in Nat
      /\ ("outputExceeded" \notin flags => ParseRest = SubSeq(written, 1, consumed))
  BY RestOfOutput, LenProperties
<1>2. /\ consumed \in 0..MaxLines /\ consumed < Len(written) /\ written \in Seq(Lines)
      /\ parsed \in Seq(Lines) /\ Len(parsed) <= consumed - rest /\ rest \in 0..1
      /\ Len(parsed) \in Nat
      /\ Len(written) \in Nat /\ Len(written) <= MaxLines /\ MaxLines \in Nat
  BY Bounded, LenProperties, RunnerAssumption DEF RunnerTypeOK, Output
<1>3. outcome' = "none" /\ outcome = "none"
  BY DEF Stages
<1>4. Result' /\ Stopped'
  BY <1>3, NoResultYet DEF Stopped, Raise
<1>5. ProxyFollows'
  BY DEF ProxyFollows, Local, proxyVars
<1>6. Stages'
  BY DEF Stages, Local
<1>7. CASE consumed >= OutputLimit
  <2>1. /\ Raise("outputExceeded") /\ consumed' = Len(written) /\ rest' = 0
        /\ parsed' = parsed /\ written' = written
    BY <1>7
  <2>2. /\ "outputExceeded" \in flags' /\ flags' \subseteq Flags
        /\ signals' \subseteq {"SIGTERM", "SIGKILL"}
        /\ killTimer' \in {"unset", "armed", "fired"}
        /\ removal' \in {"none", "asked", "done", "failed"}
        /\ Removal'
    BY <2>1, Raised DEF Flags
  <2>3. Output'
    <3>1. Len(parsed) <= Len(written) - 0 /\ 0 <= Len(written) /\ Len(written) <= Len(written)
      BY <1>2
    <3> QED BY <2>1, <2>2, <3>1 DEF Output
  <2>4. consumed' \in 0..MaxLines /\ rest' \in 0..1
    BY <1>2, <2>1
  <2>5. RunnerTypeOK'
    BY <2>1, <2>2, <2>4 DEF RunnerTypeOK, ProxyTypeOK, proxyVars
  <2> QED BY <1>4, <1>5, <1>6, <2>2, <2>3, <2>5
<1>8. CASE consumed < OutputLimit
  <2>1. /\ consumed' = consumed + 1 /\ written' = written
        /\ UNCHANGED <<flags, signals, killTimer, removal>>
        /\ \/ parsed' = ParseRest \o <<written[consumed + 1]>> /\ rest' = 0
           \/ parsed' = ParseRest /\ rest' = 1
    BY <1>2, <1>8, RunnerAssumption
  <2>2. consumed + 1 \in 1..Len(written) /\ written[consumed + 1] \in Lines
    <3>1. consumed + 1 \in 1..Len(written)
      BY <1>2
    <3> QED BY <1>2, <3>1, ElementOfSeq
  <2>3. /\ parsed' \in Seq(Lines) /\ Len(parsed') <= consumed' - rest'
        /\ rest' \in 0..1 /\ rest' <= consumed'
        /\ ("outputExceeded" \notin flags => parsed' = SubSeq(written, 1, consumed' - rest'))
    <3>1. CASE parsed' = ParseRest /\ rest' = 1
      <4>1. consumed' - rest' = consumed
        BY <1>2, <2>1, <3>1
      <4> QED BY <1>1, <1>2, <2>1, <3>1, <4>1
    <3>2. CASE parsed' = ParseRest \o <<written[consumed + 1]>> /\ rest' = 0
      <4>1. <<written[consumed + 1]>> \in Seq(Lines) /\ Len(<<written[consumed + 1]>>) = 1
        BY <2>2
      <4>2. /\ parsed' \in Seq(Lines) /\ Len(parsed') = Len(ParseRest) + 1
        BY <1>1, <3>2, <4>1, ConcatProperties
      <4>3. SubSeq(written, 1, consumed) \o <<written[consumed + 1]>>
                = SubSeq(written, 1, consumed + 1)
        <5>1. 1 \in 1..Len(written) /\ consumed + 1 \in 1..Len(written)
          BY <1>2, <2>2
        <5>2. (consumed + 1) - 1 = consumed
          BY <1>2
        <5> QED BY <1>2, <5>1, <5>2, SubSeqRecursiveSecond
      <4>4. consumed' - rest' = consumed + 1 /\ Len(parsed') <= consumed + 1
        BY <1>1, <1>2, <2>1, <3>2, <4>2
      <4> QED BY <1>1, <1>2, <2>1, <3>2, <4>2, <4>3, <4>4
    <3> QED BY <2>1, <3>1, <3>2
  <2>4. consumed' \in 0..MaxLines /\ consumed' <= Len(written)
    BY <1>2, <2>1
  <2>5. parsed' \in BoundedSeq(Lines, MaxLines)
    <3>1. Len(parsed') \in Nat
      BY <2>3, LenProperties
    <3>2. Len(parsed') <= MaxLines
      BY <2>3, <2>4, <3>1, <1>2
    <3> QED BY <1>2, <2>3, <3>2, Bounded
  <2>6. RunnerTypeOK'
    BY <2>1, <2>3, <2>4, <2>5 DEF RunnerTypeOK, ProxyTypeOK, proxyVars
  <2>7. Output'
    BY <2>1, <2>3, <2>4 DEF Output
  <2>8. Removal'
    BY <2>1 DEF Removal, Local
  <2> QED BY <1>4, <1>5, <1>6, <2>6, <2>7, <2>8
<1>9. consumed >= OutputLimit \/ consumed < OutputLimit
  BY <1>2, RunnerAssumption
<1> QED BY <1>7, <1>8, <1>9

LEMMA TimeoutStep ==
    ASSUME RunnerInv, TimeoutFires, run # "crashed"
    PROVE  RunnerInv'
<1> USE DEF RunnerInv, TimeoutFires
<1>1. run = "running" /\ outcome = "none"
  BY DEF RunnerTypeOK, Stages, Untouched
<1>2. /\ flags' = flags \cup {"timedOut"} /\ flags' \subseteq Flags
      /\ signals' \subseteq {"SIGTERM", "SIGKILL"}
      /\ killTimer' \in {"unset", "armed", "fired"}
      /\ removal' \in {"none", "asked", "done", "failed"}
      /\ Removal'
  <2>1. "timedOut" \in Flags
    BY DEF Flags
  <2>2. RunnerTypeOK /\ Removal /\ Raise("timedOut") /\ UNCHANGED <<kind, child, container>>
    OBVIOUS
  <2> HIDE DEF RunnerInv, TimeoutFires
  <2> QED BY <2>1, <2>2, Raised
<1>3. RunnerTypeOK'
  <2>1. /\ RunnerTypeOK /\ timeout' = FALSE
        /\ UNCHANGED <<proxyVars, kind, run, outcome, child, container, written, consumed,
                       rest, parsed, stop>>
    OBVIOUS
  <2> HIDE DEF RunnerInv, TimeoutFires
  <2>2. ProxyTypeOK'
    BY <2>1 DEF RunnerTypeOK, ProxyTypeOK, proxyVars
  <2>3. /\ kind' \in Kinds /\ outcome' \in Outcomes
        /\ run' \in {"idle", "starting", "running", "closing", "over", "crashed"}
        /\ child' \in [state : {"none", "alive", "exited"}, pipes : BOOLEAN, code : {0, 1}]
        /\ timeout' \in BOOLEAN /\ container' \in {"none", "absent", "up", "gone"}
        /\ written' \in BoundedSeq(Lines, MaxLines) /\ parsed' \in BoundedSeq(Lines, MaxLines)
        /\ consumed' \in 0..MaxLines /\ rest' \in 0..1
        /\ stop' \in {"none", "waiting", "true", "false"}
    BY <2>1 DEF RunnerTypeOK
  <2> QED BY <1>2, <2>2, <2>3 DEF RunnerTypeOK
<1>4. Stages' /\ ProxyFollows'
  BY <1>1 DEF Stages, ProxyFollows, Local, proxyVars
<1>5. Stopped' /\ Result'
  BY <1>1, <1>2 DEF Stopped, Result
<1>6. Output'
  BY <1>2, OutputKept
<1> QED BY <1>2, <1>3, <1>4, <1>5, <1>6

LEMMA KillTimerStep ==
    ASSUME RunnerInv, KillTimerFires
    PROVE  RunnerInv'
<1> USE DEF RunnerInv, KillTimerFires
<1>1. RunnerTypeOK'
  BY DEF RunnerTypeOK, ProxyTypeOK, proxyVars
<1>2. Stages' /\ ProxyFollows'
  BY DEF Stages, Untouched, ProxyFollows, Local, proxyVars
<1>3. Removal'
  BY DEF Removal, Local, Alive
<1>4. Stopped' /\ Result'
  BY ResultKept DEF Stopped
<1>5. Output'
  BY OutputKept
<1> QED BY <1>1, <1>2, <1>3, <1>4, <1>5

LEMMA CancelStep ==
    ASSUME RunnerInv, Cancel
    PROVE  RunnerInv'
<1> USE DEF RunnerInv, Cancel
<1>1. CASE Active
  <2>1. /\ run = "running" /\ outcome = "none" /\ stop' = "waiting"
        /\ Raise("cancelled")
    BY <1>1 DEF Active, Stages
  <2>2. /\ flags' = flags \cup {"cancelled"} /\ flags' \subseteq Flags
        /\ signals' \subseteq {"SIGTERM", "SIGKILL"}
        /\ killTimer' \in {"unset", "armed", "fired"}
        /\ removal' \in {"none", "asked", "done", "failed"}
        /\ Removal'
    BY <2>1, Raised DEF Flags
  <2>3. RunnerTypeOK'
    BY <2>1, <2>2 DEF RunnerTypeOK, ProxyTypeOK, proxyVars
  <2>4. Stages' /\ ProxyFollows'
    BY <2>1 DEF Stages, ProxyFollows, Local, proxyVars
  <2>5. Stopped' /\ Result'
    BY <2>1, <2>2 DEF Stopped, Result
  <2>6. Output'
    BY <2>2, OutputKept
  <2> QED BY <2>2, <2>3, <2>4, <2>5, <2>6
<1>2. CASE ~Active
  <2>1. stop' = "false" /\ UNCHANGED <<flags, signals, killTimer, removal>>
    BY <1>2
  <2>2. RunnerTypeOK'
    BY <2>1 DEF RunnerTypeOK, ProxyTypeOK, proxyVars
  <2>3. Stages' /\ ProxyFollows'
    BY <2>1 DEF Stages, Untouched, ProxyFollows, Local, proxyVars
  <2>4. Removal'
    BY <2>1 DEF Removal, Local
  <2>5. Stopped' /\ Result'
    BY <2>1, ResultKept DEF Stopped
  <2>6. Output'
    BY <2>1, OutputKept
  <2> QED BY <2>2, <2>3, <2>4, <2>5, <2>6
<1> QED BY <1>1, <1>2

LEMMA CancelReturnsStep ==
    ASSUME RunnerInv, CancelReturns
    PROVE  RunnerInv'
<1> USE DEF RunnerInv, CancelReturns
<1>1. RunnerTypeOK'
  BY DEF RunnerTypeOK, ProxyTypeOK, proxyVars
<1>2. Stages' /\ ProxyFollows'
  BY DEF Stages, Untouched, ProxyFollows, Local, proxyVars
<1>3. Removal'
  BY DEF Removal, Local
<1>4. Stopped' /\ Result'
  BY ResultKept DEF Stopped
<1>5. Output'
  BY OutputKept
<1> QED BY <1>1, <1>2, <1>3, <1>4, <1>5

(* A removal is asked for, and answered, only in a container's Run.         *)
LEMMA EngineStep ==
    ASSUME RunnerInv, Removed \/ RemovalFails \/ ContainerAppears
    PROVE  RunnerInv'
<1> USE DEF RunnerInv
<1>1. /\ UNCHANGED <<proxyVars, kind, run, outcome, flags, child, timeout, written,
                     consumed, rest, parsed, stop>>
  BY DEF Removed, RemovalFails, ContainerAppears
<1>2. ~Local /\ run \notin {"idle", "starting"}
  BY DEF Removed, RemovalFails, ContainerAppears, Removal, Stages, Untouched
<1>3. /\ signals' \subseteq {"SIGTERM", "SIGKILL"}
      /\ killTimer' \in {"unset", "armed", "fired"}
      /\ removal' \in {"none", "asked", "done", "failed"}
      /\ container' \in {"none", "absent", "up", "gone"}
  BY DEF Removed, RemovalFails, ContainerAppears, RemovalFallback, Alive, RunnerTypeOK
<1>4. RunnerTypeOK'
  BY <1>1, <1>3 DEF RunnerTypeOK, ProxyTypeOK, proxyVars
<1>5. Stages' /\ ProxyFollows'
  BY <1>1, <1>2 DEF Stages, ProxyFollows, Local, proxyVars
<1>6. Removal'
  <2>1. CASE Removed
    BY <1>1, <1>2, <2>1 DEF Removed, Removal, Local
  <2>2. CASE RemovalFails
    BY <1>1, <1>2, <2>2 DEF RemovalFails, RemovalFallback, Alive, Removal, Local
  <2>3. CASE ContainerAppears
    BY <1>1, <1>2, <2>3 DEF ContainerAppears, Alive, Removal, Local
  <2> QED BY <2>1, <2>2, <2>3
<1>7. Stopped' /\ Result'
  BY <1>1, ResultKept DEF Stopped
<1>8. Output'
  BY <1>1, OutputKept
<1> QED BY <1>4, <1>5, <1>6, <1>7, <1>8

LEMMA ExitsStep ==
    ASSUME RunnerInv, Exits
    PROVE  RunnerInv'
<1> USE DEF RunnerInv, Exits, Alive
<1>1. /\ child'.state = "exited" /\ child.state = "alive"
      /\ child' \in [state : {"none", "alive", "exited"}, pipes : BOOLEAN, code : {0, 1}]
  BY DEF Local
<1>2. ProxyTypeOK'
  BY DEF RunnerTypeOK, ProxyTypeOK
<1>3. RunnerTypeOK'
  BY <1>1, <1>2 DEF RunnerTypeOK
<1>4. Stages'
  BY <1>1 DEF Stages, Untouched, Local
<1>5. ProxyFollows'
  BY DEF ProxyFollows, Local
<1>6. Removal'
  BY <1>1 DEF Removal, Local
<1>7. Stopped' /\ Result'
  BY <1>1, ResultKept DEF Stopped
<1>8. Output'
  BY OutputKept
<1> QED BY <1>3, <1>4, <1>5, <1>6, <1>7, <1>8

LEMMA PipesCloseStep ==
    ASSUME RunnerInv, PipesClose
    PROVE  RunnerInv'
<1> USE DEF RunnerInv, PipesClose
<1>1. /\ child'.state = child.state /\ child.state = "exited"
      /\ child' \in [state : {"none", "alive", "exited"}, pipes : BOOLEAN, code : {0, 1}]
  BY DEF RunnerTypeOK
<1>2. RunnerTypeOK'
  BY <1>1 DEF RunnerTypeOK, ProxyTypeOK, proxyVars
<1>3. Stages' /\ ProxyFollows'
  BY <1>1 DEF Stages, Untouched, ProxyFollows, Local, proxyVars
<1>4. Removal'
  BY <1>1 DEF Removal, Local
<1>5. Stopped' /\ Result'
  BY <1>1, ResultKept DEF Stopped
<1>6. Output'
  BY OutputKept
<1> QED BY <1>2, <1>3, <1>4, <1>5, <1>6

(* A line more: it is beyond what consume() has seen.                       *)
LEMMA WritesStep ==
    ASSUME RunnerInv, NEW line \in Lines, Writes(line)
    PROVE  RunnerInv'
<1> USE DEF RunnerInv, Writes, Working, Alive
<1>1. /\ written \in Seq(Lines) /\ Len(written) \in Nat /\ MaxLines \in Nat
      /\ consumed \in Nat /\ rest \in 0..1
      /\ rest <= consumed /\ consumed <= Len(written) /\ Len(written) < MaxLines
  BY Bounded, LenProperties, RunnerAssumption DEF RunnerTypeOK, Output
<1>2. written' \in Seq(Lines) /\ Len(written') = Len(written) + 1
  BY <1>1, AppendProperties
<1>3. RunnerTypeOK'
  <2>1. Len(written') <= MaxLines
    BY <1>1, <1>2
  <2>2. written' \in BoundedSeq(Lines, MaxLines)
    BY <1>1, <1>2, <2>1, Bounded
  <2> QED BY <2>2 DEF RunnerTypeOK, ProxyTypeOK, proxyVars
<1>4. Stages' /\ ProxyFollows'
  BY DEF Stages, Untouched, ProxyFollows, Local, proxyVars
<1>5. Removal'
  BY DEF Removal, Local
<1>6. outcome' # "result"
  BY DEF Result
<1>7. Stopped' /\ Result'
  BY <1>6 DEF Stopped, Result
<1>8. Output'
  <2>1. consumed - rest \in 0..Len(written) /\ consumed <= Len(written')
    BY <1>1, <1>2
  <2>2. SubSeq(written', 1, consumed - rest) = SubSeq(written, 1, consumed - rest)
    BY <1>1, <2>1, PrefixOfAppend
  <2> QED BY <2>1, <2>2 DEF Output
<1> QED BY <1>3, <1>4, <1>5, <1>7, <1>8

(* A handler of the proxy, or a request that it is asked.                   *)
LEMMA HandlerKeepsType ==
    ASSUME ProxyTypeOK, NEW q \in Requests, Handler(q) \/ Opens(q)
    PROVE  /\ ProxyTypeOK'
           /\ UNCHANGED proxy
           /\ (proxy # "listening" => connected' \subseteq connected)
<1> USE DEF ProxyTypeOK, RequestStates
<1>1. CASE Opens(q)
  BY <1>1 DEF Opens
<1>2. CASE Accepts(q)
  <2>1. 1 \in 0..MaxRetries + 1
    BY ProxyAssumption
  <2> QED BY <1>2, <2>1 DEF Accepts
<1>3. CASE RefusesRequest(q) \/ StreamEnds(q) \/ UpstreamFails(q)
  BY <1>3 DEF RefusesRequest, StreamEnds, UpstreamFails, Responds
<1>4. CASE RateLimited(q) \/ Streams(q)
  BY <1>4 DEF RateLimited, Streams
<1>5. CASE DelayEnds(q)
  <2>1. (IF attempts[q] <= MaxRetries THEN attempts[q] + 1 ELSE attempts[q]) \in 0..MaxRetries + 1
    BY ProxyAssumption
  <2>2. attempts' \in [Requests -> 0..MaxRetries + 1]
    BY <1>5, <2>1 DEF DelayEnds
  <2> QED BY <1>5, <2>2 DEF DelayEnds
<1> QED BY <1>1, <1>2, <1>3, <1>4, <1>5 DEF Handler

LEMMA RequestStep ==
    ASSUME RunnerInv, NEW q \in Requests, Serves(q) \/ Asks(q) \/ StreamBreaks(q)
    PROVE  RunnerInv'
<1> USE DEF RunnerInv
<1>1. CASE Serves(q) \/ Asks(q)
  <2>1. (Handler(q) \/ Opens(q)) /\ UNCHANGED runnerVars
    BY <1>1 DEF Serves, Asks
  <2>2. /\ ProxyTypeOK' /\ UNCHANGED proxy
        /\ (proxy # "listening" => connected' \subseteq connected)
    BY <2>1, HandlerKeepsType DEF RunnerTypeOK
  <2> USE DEF runnerVars
  <2>3. RunnerTypeOK'
    BY <2>1, <2>2 DEF RunnerTypeOK
  <2>4. Stages' /\ Removal' /\ Stopped'
    BY <2>1 DEF Stages, Untouched, Removal, Stopped, Local
  <2>5. ProxyFollows'
    BY <2>1, <2>2 DEF ProxyFollows, Local
  <2>6. Output' /\ Result'
    BY <2>1, OutputKept, ResultKept
  <2> QED BY <2>3, <2>4, <2>5, <2>6
<1>2. CASE StreamBreaks(q)
  <2> USE <1>2 DEF StreamBreaks
  <2>1. RunnerTypeOK'
    BY DEF RunnerTypeOK, ProxyTypeOK, proxyVars
  <2>2. Stages' /\ Removal' /\ Stopped'
    BY DEF Stages, Removal, Stopped, Local
  <2>3. ProxyFollows'
    BY DEF ProxyFollows, Local, proxyVars
  <2>4. Output' /\ Result'
    BY OutputKept, ResultKept
  <2> QED BY <2>1, <2>2, <2>3, <2>4
<1> QED BY <1>1, <1>2

LEMMA RunnerStutters ==
    ASSUME RunnerInv, UNCHANGED vars
    PROVE  RunnerInv'
<1> USE DEF RunnerInv, vars, proxyVars, runnerVars
<1>1. RunnerTypeOK'
  BY DEF RunnerTypeOK, ProxyTypeOK
<1>2. Stages' /\ ProxyFollows' /\ Removal' /\ Stopped'
  BY DEF Stages, Untouched, ProxyFollows, Removal, Stopped, Local
<1>3. Output' /\ Result'
  BY OutputKept, ResultKept
<1> QED BY <1>1, <1>2, <1>3

-----------------------------------------------------------------------------
(* The theorems.                                                           *)

(* The control plane, the engine, the Runtime and the upstream together    *)
(* keep the invariant.                                                     *)
THEOREM RunnerInductiveInvariant == RunnerSpec => []RunnerInv
<1>1. RunnerInit => RunnerInv
  BY RunnerStarts
<1>2. RunnerInv /\ [RunnerNext]_vars => RunnerInv'
  <2> SUFFICES ASSUME RunnerInv, [RunnerNext]_vars PROVE RunnerInv'
    OBVIOUS
  <2>1. CASE UNCHANGED vars
    BY <2>1, RunnerStutters
  <2>2. CASE ControlPlane
    <3>1. CASE Begin \/ Spawn \/ StartFails \/ SpawnFails \/ Close \/ Ends
      BY <3>1, BeginStep, SpawnStep, StartFailsStep, SpawnFailsStep, CloseStep, EndsStep
    <3>2. CASE Consume \/ TimeoutFires \/ KillTimerFires \/ Cancel \/ CancelReturns
      BY <2>2, <3>2, ConsumeStep, TimeoutStep, KillTimerStep, CancelStep, CancelReturnsStep
         DEF ControlPlane
    <3>3. CASE Removed \/ RemovalFails
      BY <3>3, EngineStep
    <3>4. CASE \E q \in Requests : Serves(q)
      BY <3>4, RequestStep
    <3> QED BY <2>2, <3>1, <3>2, <3>3, <3>4 DEF ControlPlane
  <2>3. CASE ContainerAppears \/ Exits \/ PipesClose
    BY <2>3, EngineStep, ExitsStep, PipesCloseStep
  <2>4. CASE \E line \in Lines : Writes(line)
    BY <2>4, WritesStep
  <2>5. CASE \E q \in Requests : run # "crashed" /\ (Asks(q) \/ StreamBreaks(q))
    BY <2>5, RequestStep
  <2> QED BY <2>1, <2>2, <2>3, <2>4, <2>5 DEF RunnerNext
<1> QED BY <1>1, <1>2, PTL DEF RunnerSpec

(* States of one Run stay well typed: no line is parsed that was not       *)
(* written, and no request is repeated beyond its bound.                   *)
THEOREM RunnerTypeCorrect == RunnerSpec => []RunnerTypeOK
<1>1. RunnerInv => RunnerTypeOK
  BY DEF RunnerInv
<1> QED BY <1>1, RunnerInductiveInvariant, PTL

(* A cancel() that answered true is never followed by a result: the flag   *)
(* it raised is still there when the child closes, and decides first.      *)
THEOREM StoppedRunsHaveNoResult == RunnerSpec => []StoppedRunHasNoResult
<1>1. RunnerInv => StoppedRunHasNoResult
  BY DEF RunnerInv, Stopped, StoppedRunHasNoResult
<1> QED BY <1>1, RunnerInductiveInvariant, PTL

(* A result carries the last message the Runtime wrote, however its output *)
(* was cut into chunks, and whatever came after its last newline.          *)
THEOREM ResultsAreLastMessages == RunnerSpec => []ResultIsLastMessage
<1>1. RunnerInv => ResultIsLastMessage
  BY DEF RunnerInv, Result, ResultIsLastMessage
<1> QED BY <1>1, RunnerInductiveInvariant, PTL

(* When run() has returned, no process, proxy, client, timer or container  *)
(* is left of it, unless its container could not be removed.               *)
THEOREM NothingIsLeft == RunnerSpec => []NothingLeftBehind
<1>1. RunnerInv => NothingLeftBehind
  BY DEF RunnerInv, Stages, ProxyFollows, Removal, NothingLeftBehind, Alive, Local
<1> QED BY <1>1, RunnerInductiveInvariant, PTL
=============================================================================
