-------------------------- MODULE EndpointFailover --------------------------
(***************************************************************************)
(* A pool of endpoints and the fetch that fails over between them          *)
(* (src/src/network/endpointFailover.ts). Requests that overlap share the  *)
(* pool's cursor and its view of which endpoints are healthy, and report   *)
(* back when their answers arrive. A health monitor probes the endpoints   *)
(* in turn (one round at a time here; a slow round may be overtaken by the *)
(* next). The endpoints themselves are external: any answer is possible.   *)
(***************************************************************************)
EXTENDS Naturals

CONSTANTS
  EndpointCount,
  Requests,           \* requests under way at once
  FailureThreshold,   \* failureThreshold
  RecoveryInterval    \* recoveryIntervalMs, in ticks of the clock

VARIABLES
  cursor,
  failures,     \* consecutiveFailures of each endpoint, up to the threshold
  sinceFailure, \* now - lastFailureAt, up to the recovery interval
  requests,     \* each request's endpoint and attempt
  checking      \* the endpoint the monitor waits for, NoEndpoint when it is between rounds

vars == <<cursor, failures, sinceFailure, requests, checking>>

Endpoints == 0..(EndpointCount - 1)
NoEndpoint == EndpointCount
NoRequest  == [endpoint |-> NoEndpoint, attempt |-> 0]

TypeOK ==
  /\ cursor \in Endpoints
  /\ failures \in [Endpoints -> 0..FailureThreshold]
  /\ sinceFailure \in [Endpoints -> 0..RecoveryInterval]
  /\ requests \in [Requests -> [endpoint : Endpoints \cup {NoEndpoint}, attempt : 0..EndpointCount]]
  /\ checking \in Endpoints \cup {NoEndpoint}

Init ==
  /\ cursor = 0
  /\ failures = [e \in Endpoints |-> 0]
  /\ sinceFailure = [e \in Endpoints |-> RecoveryInterval]
  /\ requests = [r \in Requests |-> NoRequest]
  /\ checking = NoEndpoint

-----------------------------------------------------------------------------
Healthy(e) == failures[e] < FailureThreshold

\* Mutant: an unhealthy endpoint is not tried again until it is healthy.
UsableWhenHealthy(e) == Healthy(e)

Usable(e) == Healthy(e) \/ sinceFailure[e] >= RecoveryInterval

\* markSuccess and markFailure. Of a healthy endpoint only the count matters.
MarkSuccess(e) ==
  /\ failures' = [failures EXCEPT ![e] = 0]
  /\ sinceFailure' = [sinceFailure EXCEPT ![e] = RecoveryInterval]

MarkFailure(e) ==
  /\ failures' = [failures EXCEPT ![e] = IF Healthy(e) THEN @ + 1 ELSE @]
  /\ sinceFailure' = [sinceFailure EXCEPT ![e] =
       IF failures[e] + 1 >= FailureThreshold THEN 0 ELSE RecoveryInterval]

Endpoint(r) == requests[r].endpoint
Attempt(r)  == requests[r].attempt
End(r)      == requests' = [requests EXCEPT ![r] = NoRequest]

\* How far the endpoint is ahead of the cursor.
Ahead(e) == (e + EndpointCount - cursor) % EndpointCount

\* EndpointPool.current: the first usable endpoint from the cursor on, which
\* moves past it. With none usable it is the one at the cursor, which stays.
\* The mark that the same step makes is seen.
Chosen(e) ==
  \/ /\ Usable(e)'
     /\ \A f \in Endpoints : Usable(f)' => Ahead(e) <= Ahead(f)
     /\ cursor' = (e + 1) % EndpointCount
  \/ /\ \A f \in Endpoints : ~Usable(f)'
     /\ e = cursor
     /\ UNCHANGED cursor

\* One turn of the loop of createFailoverFetch.
Send(r, attempt) ==
  \E e \in Endpoints :
    /\ Chosen(e)
    /\ requests' = [requests EXCEPT ![r] = [endpoint |-> e, attempt |-> attempt]]

Request(r) ==
  /\ requests[r] = NoRequest
  /\ UNCHANGED <<failures, sinceFailure, checking>>
  /\ Send(r, 1)

Succeeds(r) ==
  /\ Endpoint(r) # NoEndpoint
  /\ MarkSuccess(Endpoint(r))
  /\ End(r)
  /\ UNCHANGED <<cursor, checking>>

\* A status that is not retried, such as 404, counts against the endpoint; so does
\* the last attempt's failure. The caller gets the response or the error.
Fails(r) ==
  /\ Endpoint(r) # NoEndpoint
  /\ MarkFailure(Endpoint(r))
  /\ End(r)
  /\ UNCHANGED <<cursor, checking>>

\* A retryable status or an error, with attempts left: on to the next endpoint.
FailsOver(r) ==
  /\ Endpoint(r) # NoEndpoint /\ Attempt(r) < EndpointCount
  /\ MarkFailure(Endpoint(r))
  /\ Send(r, Attempt(r) + 1)
  /\ UNCHANGED checking

\* check: the endpoints are probed one after the other, whatever they answer.
StartCheck ==
  /\ checking = NoEndpoint
  /\ checking' = 0
  /\ UNCHANGED <<cursor, failures, sinceFailure, requests>>

ProbeAnswers ==
  /\ checking # NoEndpoint
  /\ MarkSuccess(checking) \/ MarkFailure(checking)
  /\ checking' = checking + 1
  /\ UNCHANGED <<cursor, requests>>

Tick ==
  /\ sinceFailure' = [e \in Endpoints |->
       IF sinceFailure[e] < RecoveryInterval THEN sinceFailure[e] + 1 ELSE RecoveryInterval]
  /\ sinceFailure' # sinceFailure
  /\ UNCHANGED <<cursor, failures, requests, checking>>

Next ==
  \/ \E r \in Requests :
       Request(r) \/ Succeeds(r) \/ Fails(r) \/ FailsOver(r)
  \/ StartCheck
  \/ ProbeAnswers
  \/ Tick

Answers(r) == Succeeds(r) \/ Fails(r) \/ FailsOver(r)

\* Callers keep coming, every request is answered in the end, time passes.
Fairness ==
  /\ \A r \in Requests : WF_vars(Request(r)) /\ WF_vars(Answers(r))
  /\ WF_vars(ProbeAnswers)
  /\ WF_vars(Tick)

Spec == Init /\ [][Next]_vars /\ Fairness

-----------------------------------------------------------------------------
\* An endpoint is asked again and again, however it answered before and whatever
\* the other endpoints do: recovery needs nobody's help.
Asked(e) == checking = e \/ \E r \in Requests : Endpoint(r) = e

EveryEndpointIsRetried == \A e \in Endpoints : []<>Asked(e)
=============================================================================
