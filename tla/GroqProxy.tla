------------------------------ MODULE GroqProxy ------------------------------
(***************************************************************************)
(* The Responses proxy of groq-responses.ts: a loopback server that a      *)
(* Runtime sends its model requests to.  A rate-limited request is         *)
(* repeated after a delay, a bounded number of times; the loop knows       *)
(* nothing of the client, which may have gone away meanwhile.              *)
(*                                                                         *)
(* RetriesForever is the operator after it with one plausible slip;        *)
(* nothing else uses it.                                                   *)
(***************************************************************************)
EXTENDS Naturals

CONSTANTS
    Requests,   \* requests of one Runtime
    MaxRetries  \* MAX_RATE_LIMIT_RETRIES

ASSUME ProxyAssumption == MaxRetries \in Nat

VARIABLES
    proxy,      \* the server: "off", "listening", "closing", "closed"
    requests,   \* the handler of each request
    connected,  \* the requests whose client still waits
    attempts    \* upstream attempts of each request

proxyVars == <<proxy, requests, connected, attempts>>

ProxyStates == {"off", "listening", "closing", "closed"}
RequestStates == {"none", "reading", "fetching", "delaying", "streaming", "done"}

-----------------------------------------------------------------------------
(* start: the server listens, or close() undoes what there is of it.       *)
ProxyStarts == proxy = "off" /\ proxy' = "listening" /\ UNCHANGED <<requests, connected, attempts>>
ProxyStartFails == proxy = "off" /\ proxy' = "closed" /\ UNCHANGED <<requests, connected, attempts>>

Opens(q) ==
    /\ proxy = "listening" /\ requests[q] = "none"
    /\ requests' = [requests EXCEPT ![q] = "reading"]
    /\ connected' = connected \cup {q}
    /\ UNCHANGED <<proxy, attempts>>

Responds(q) ==
    /\ requests' = [requests EXCEPT ![q] = "done"]
    /\ connected' = connected \ {q}
    /\ UNCHANGED <<proxy, attempts>>

(* readBody and sanitizeGroqResponsesRequest pass, or the answer is 404,   *)
(* 413 or 502; a client that went away while it was sending fails, too.    *)
Accepts(q) ==
    /\ requests[q] = "reading" /\ q \in connected
    /\ requests' = [requests EXCEPT ![q] = "fetching"]
    /\ attempts' = [attempts EXCEPT ![q] = 1]
    /\ UNCHANGED <<proxy, connected>>

RefusesRequest(q) == requests[q] = "reading" /\ Responds(q)

(* fetchUpstreamWithRateLimitRetry; a 429 without retry-after is an answer *)
(* like any other.                                                         *)
RetriesForever(q) == TRUE
MayRetry(q) == attempts[q] <= MaxRetries

RateLimited(q) ==
    /\ requests[q] = "fetching" /\ MayRetry(q)
    /\ requests' = [requests EXCEPT ![q] = "delaying"]
    /\ UNCHANGED <<proxy, connected, attempts>>

(* retryDelayMs caps the delay.                                            *)
DelayEnds(q) ==
    /\ requests[q] = "delaying"
    /\ requests' = [requests EXCEPT ![q] = "fetching"]
    /\ attempts' = [attempts EXCEPT ![q] = IF @ <= MaxRetries THEN @ + 1 ELSE @]
    /\ UNCHANGED <<proxy, connected>>

Streams(q) ==
    /\ requests[q] = "fetching"
    /\ requests' = [requests EXCEPT ![q] = "streaming"]
    /\ UNCHANGED <<proxy, connected, attempts>>

StreamEnds(q) == requests[q] = "streaming" /\ Responds(q)

(* 502, when there is still somebody to tell.                              *)
UpstreamFails(q) == requests[q] = "fetching" /\ Responds(q)

(* close waits for the connections, not for the handlers.                  *)
ProxyCloses ==
    /\ proxy = "listening" /\ proxy' = "closing"
    /\ UNCHANGED <<requests, connected, attempts>>
ProxyClosed ==
    /\ proxy = "closing" /\ connected = {} /\ proxy' = "closed"
    /\ UNCHANGED <<requests, connected, attempts>>

ProxyInit ==
    /\ proxy = "off"
    /\ requests = [q \in Requests |-> "none"]
    /\ connected = {}
    /\ attempts = [q \in Requests |-> 0]

Handler(q) ==
    Accepts(q) \/ RefusesRequest(q) \/ RateLimited(q) \/ DelayEnds(q)
        \/ Streams(q) \/ StreamEnds(q) \/ UpstreamFails(q)

ProxyTypeOK ==
    /\ proxy \in ProxyStates
    /\ requests \in [Requests -> RequestStates]
    /\ connected \subseteq {q \in Requests : requests[q] \notin {"none", "done"}}
    /\ attempts \in [Requests -> 0..MaxRetries + 1]
=============================================================================
