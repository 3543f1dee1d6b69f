--------------------------- MODULE SubmissionPath ---------------------------
(***************************************************************************)
(* The way of a signed transaction from client.transaction.submit to       *)
(* Horizon: the timeout guard, the rate limiter's wait, the circuit        *)
(* breaker of submitTransaction, the retry loop inside it, and the request *)
(* pool below (src/src/transaction/submitTransaction.ts with               *)
(* shared/timeout.ts, shared/utils.ts and shared/serverFactory.ts).        *)
(* CircuitBreaker and ConnectionPool are the components' own modules; each *)
(* action here is a step of them together with a step of the call.         *)
(*                                                                         *)
(* Horizon is external: an attempt may be answered in any of Answers, and  *)
(* the transaction may reach the ledger whatever the answer.               *)
(***************************************************************************)
EXTENDS Naturals, Sequences, FiniteSets

CONSTANTS
  Calls,             \* submitters, each with one submission at a time
  Guarded,           \* those made through the client; the others call the function
  FailureThreshold,
  RecoveryWindow,
  MaxAttempts,       \* retryWithBackoff's maxAttempts
  MaxPoolSize,
  States,            \* identities of the pool's OriginState objects
  NoState

ASSUME PathAssumption ==
  /\ IsFiniteSet(Calls) /\ Guarded \subseteq Calls
  /\ FailureThreshold \in Nat \ {0} /\ RecoveryWindow \in Nat
  /\ MaxAttempts \in Nat \ {0}
  /\ MaxPoolSize \in Nat \ {0} /\ NoState \notin States

VARIABLES
  breaker, inFlight,            \* CircuitBreaker
  origin, active, queue, req,   \* ConnectionPool
  pooled,     \* is a pool configured (setConnectionPool)?
  pc,         \* where submitTransaction is
  attempt,    \* failed attempts so far
  cancelled,  \* did the abort signal reach the request on the wire?
  timedOut,   \* history: an attempt of the call has timed out
  outcome,    \* what submitTransaction resolves to
  answer      \* what the caller of the client gets

breakerVars == <<breaker, inFlight>>
poolVars    == <<origin, active, queue, req>>
callVars    == <<pc, attempt, cancelled, timedOut, outcome, answer>>
vars        == <<breakerVars, poolVars, pooled, callVars>>

Breaker == INSTANCE CircuitBreaker
Pool    == INSTANCE ConnectionPool WITH Requests <- Calls

\* isTimeoutError, isNetworkConnectivityError and the 5xx statuses are transient.
Transient == {"timeout", "network", "server_error"}
Answers   == {"success", "permanent"} \cup Transient

Results == {"ok", "failed", "pending_timeout"}

TypeOK ==
  /\ Breaker!TypeOK
  /\ Pool!TypeOK
  /\ pooled \in BOOLEAN
  /\ pc \in [Calls -> {"idle", "limiter", "send", "wire", "backoff"}]
  /\ attempt \in [Calls -> 0..MaxAttempts]
  /\ cancelled \in [Calls -> BOOLEAN]
  /\ timedOut \in [Calls -> BOOLEAN]
  /\ outcome \in [Calls -> {"none"} \cup Results]
  /\ answer \in [Calls -> {"waiting", "operation_timeout"} \cup Results]

Init ==
  /\ Breaker!Init
  /\ Pool!Init
  /\ pooled \in BOOLEAN
  /\ pc = [c \in Calls |-> "idle"]
  /\ attempt = [c \in Calls |-> 0]
  /\ cancelled = [c \in Calls |-> FALSE]
  /\ timedOut = [c \in Calls |-> FALSE]
  /\ outcome = [c \in Calls |-> "none"]
  /\ answer = [c \in Calls |-> "waiting"]

-----------------------------------------------------------------------------
\* submitTransaction resolves and, unless the guard has already answered,
\* so does the caller's promise.
Finish(c, result) ==
  /\ pc' = [pc EXCEPT ![c] = "idle"]
  /\ outcome' = [outcome EXCEPT ![c] = result]
  /\ answer' = [answer EXCEPT ![c] = IF @ = "waiting" THEN result ELSE @]

\* client.transaction.submit arms the guard and asks the rate limiter.
Submit(c) ==
  /\ pc[c] = "idle"
  /\ pc' = [pc EXCEPT ![c] = "limiter"]
  /\ attempt' = [attempt EXCEPT ![c] = 0]
  /\ timedOut' = [timedOut EXCEPT ![c] = FALSE]
  /\ outcome' = [outcome EXCEPT ![c] = "none"]
  /\ answer' = [answer EXCEPT ![c] = "waiting"]
  /\ UNCHANGED <<breakerVars, poolVars, pooled, cancelled>>

\* The limiter lets the call through; the XDR or its network does not check out.
RejectLocally(c) ==
  /\ pc[c] = "limiter"
  /\ Finish(c, "failed")
  /\ UNCHANGED <<breakerVars, poolVars, pooled, attempt, cancelled, timedOut>>

\* Mutant: the call is let through without checkRecovery.
EnterUnchecked(c) ==
  /\ pc[c] = "limiter"
  /\ inFlight' = [inFlight EXCEPT ![c] = "CLOSED"]
  /\ pc' = [pc EXCEPT ![c] = "send"]
  /\ UNCHANGED <<breaker, poolVars, pooled, attempt, cancelled, timedOut, outcome, answer>>

\* The breaker admits the call, for all its attempts together.
Enter(c) ==
  /\ pc[c] = "limiter"
  /\ Breaker!Admit(c)
  /\ pc' = [pc EXCEPT ![c] = "send"]
  /\ UNCHANGED <<poolVars, pooled, attempt, cancelled, timedOut, outcome, answer>>

\* CircuitOpenError: the call fails without an attempt.
FailFast(c) ==
  /\ pc[c] = "limiter"
  /\ Breaker!Refusing
  /\ Breaker!Query
  /\ Finish(c, "failed")
  /\ UNCHANGED <<poolVars, pooled, attempt, cancelled, timedOut>>

OnWire(c) == pc[c] = "wire" /\ req[c].pc \in {"idle", "active"}

\* An attempt through the pool, when one is configured.
SendPooled(c) ==
  /\ pc[c] = "send" /\ pooled
  /\ Pool!Acquire(c)
  /\ pc' = [pc EXCEPT ![c] = "wire"]
  /\ UNCHANGED <<breakerVars, pooled, attempt, cancelled, timedOut, outcome, answer>>

\* A slot was handed over.  fetch subscribes to the caller's signal only now,
\* and never looks whether it has fired already.
ResumePooled(c) ==
  /\ Pool!Resume(c)
  /\ UNCHANGED <<breakerVars, pooled, pc, attempt, cancelled, timedOut, outcome, answer>>

\* Without a pool and without a signal the SDK's own fetch is used.
SendDirect(c) ==
  /\ pc[c] = "send" /\ ~pooled /\ c \notin Guarded
  /\ pc' = [pc EXCEPT ![c] = "wire"]
  /\ UNCHANGED <<breakerVars, poolVars, pooled, attempt, cancelled, timedOut, outcome, answer>>

\* Without a pool but with a signal createHorizonServer refers to
\* signalAwareFetch, which no module defines: the attempt throws a
\* ReferenceError, which is not transient.
SendUndefined(c) ==
  /\ pc[c] = "send" /\ ~pooled /\ c \in Guarded
  /\ Breaker!Settle(c, "permanent")
  /\ Finish(c, "failed")
  /\ UNCHANGED <<poolVars, pooled, attempt, cancelled, timedOut>>

\* Mutant: the pool is not told.
LeaveWireHoldingSlot(c) ==
  /\ OnWire(c)
  /\ UNCHANGED poolVars
  /\ cancelled' = [cancelled EXCEPT ![c] = FALSE]

\* The request's end, as far as the pool is concerned.
LeaveWire(c) ==
  /\ OnWire(c)
  /\ IF req[c].pc = "active" THEN Pool!Release(c) ELSE UNCHANGED poolVars
  /\ cancelled' = [cancelled EXCEPT ![c] = FALSE]

Succeed(c) ==
  /\ ~cancelled[c]
  /\ LeaveWire(c)
  /\ Breaker!Settle(c, "success")
  /\ Finish(c, "ok")
  /\ UNCHANGED <<pooled, attempt, timedOut>>

FailPermanently(c) ==
  /\ ~cancelled[c]
  /\ LeaveWire(c)
  /\ Breaker!Settle(c, "permanent")
  /\ Finish(c, "failed")
  /\ UNCHANGED <<pooled, attempt, timedOut>>

Noted(c, error) == timedOut' = [timedOut EXCEPT ![c] = @ \/ error = "timeout"]

\* Mutant: one attempt too many.
AttemptsLeftInclusive(c) == attempt[c] + 1 <= MaxAttempts

AttemptsLeft(c) == attempt[c] + 1 < MaxAttempts

\* A transient error with attempts left: sleep, then try again.
FailAndRetry(c, error) ==
  /\ cancelled[c] => error = "timeout"
  /\ AttemptsLeft(c)
  /\ LeaveWire(c)
  /\ Noted(c, error)
  /\ attempt' = [attempt EXCEPT ![c] = @ + 1]
  /\ pc' = [pc EXCEPT ![c] = "backoff"]
  /\ UNCHANGED <<breakerVars, pooled, outcome, answer>>

\* A transient error of the last attempt: the breaker counts one failure, and
\* only the last error decides between "failed" and a pending timeout.
FailLast(c, error) ==
  /\ cancelled[c] => error = "timeout"
  /\ ~AttemptsLeft(c)
  /\ LeaveWire(c)
  /\ Noted(c, error)
  /\ attempt' = [attempt EXCEPT ![c] = @ + 1]
  /\ Breaker!Settle(c, "transient")
  /\ Finish(c, IF error = "timeout" THEN "pending_timeout" ELSE "failed")
  /\ UNCHANGED pooled

Wake(c) ==
  /\ pc[c] = "backoff" /\ Pool!Drained
  /\ pc' = [pc EXCEPT ![c] = "send"]
  /\ UNCHANGED <<breakerVars, poolVars, pooled, attempt, cancelled, timedOut,
                 outcome, answer>>

\* The guard's timer: the caller is told, and the signal aborts the request
\* that is on the wire, if there is one.  The call itself goes on.
GuardFires(c) ==
  /\ c \in Guarded /\ pc[c] # "idle" /\ answer[c] = "waiting"
  /\ Pool!Drained
  /\ answer' = [answer EXCEPT ![c] = "operation_timeout"]
  /\ cancelled' = [cancelled EXCEPT ![c] = OnWire(c)]
  /\ UNCHANGED <<breakerVars, poolVars, pooled, pc, attempt, timedOut, outcome>>

\* setConnectionPool, for the servers created from now on.
SetPool ==
  /\ pooled' = ~pooled
  /\ UNCHANGED <<breakerVars, poolVars, callVars>>

ClosePool ==
  /\ Pool!Close \/ Pool!IdleExpire
  /\ UNCHANGED <<breakerVars, pooled, callVars>>

Tick ==
  /\ Breaker!Tick /\ Pool!Drained
  /\ UNCHANGED <<poolVars, pooled, callVars>>

Respond(c) ==
  \/ Succeed(c)
  \/ FailPermanently(c)
  \/ \E error \in Transient : FailAndRetry(c, error) \/ FailLast(c, error)

Proceed(c) ==
  \/ RejectLocally(c) \/ Enter(c) \/ FailFast(c)
  \/ SendPooled(c) \/ SendDirect(c) \/ SendUndefined(c)
  \/ ResumePooled(c)
  \/ Wake(c)

Next ==
  \/ \E c \in Calls : Submit(c) \/ Proceed(c) \/ Respond(c) \/ GuardFires(c)
  \/ SetPool
  \/ ClosePool
  \/ Tick

\* The limiter's and the retry's timers fire, promises are continued, and a
\* request ends because the pool, the guard or the server times it out.
Fairness ==
  \A c \in Calls : WF_vars(Proceed(c)) /\ WF_vars(Respond(c))

Spec == Init /\ [][Next]_vars /\ Fairness

-----------------------------------------------------------------------------
\* The breaker sees each submission as one call, however many attempts it
\* makes: the path is an implementation of the breaker's specification.
ImplementsBreaker == Breaker!SafetySpec

\* A submission that has resolved holds nothing: no pool slot, no place in the
\* pool's queue, no call the breaker still expects to hear of.
NothingLeaks ==
  \A c \in Calls :
    pc[c] = "idle" => req[c] = Pool!Idle /\ inFlight[c] = "none"

\* Every submission that was begun resolves, through retries, a full pool, an
\* open circuit and a pool replaced or closed under it.
EverySubmissionResolves == \A c \in Calls : pc[c] = "limiter" ~> pc[c] = "idle"
=============================================================================
