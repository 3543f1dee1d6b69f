------------------------ MODULE SubmissionPathProofs ------------------------
(***************************************************************************)
(* Proofs about SubmissionPath, for any calls, pool and attempts.          *)
(*                                                                         *)
(* The path implements the circuit breaker's specification.  The           *)
(* refinement mapping is the identity, breaker and inFlight being the      *)
(* breaker's own variables; what has to be shown is that every action of   *)
(* the path, retries and guard and pool included, is one step of the       *)
(* breaker or none.                                                        *)
(*                                                                         *)
(* A submission that has resolved holds nothing.  For this the invariant   *)
(* says where a call may be when it holds something, and that the queues   *)
(* hold waiting requests, since a release changes the state of another.    *)
(*                                                                         *)
(* The type is that of the breaker, which the refinement keeps, that of    *)
(* the pool, and that of the call, whose attempts stay within their limit. *)
(***************************************************************************)
EXTENDS SubmissionPath, TLAPS

\* What a call does between the guard and the pool is at most one step of the
\* breaker: it is admitted, refused, or reports the outcome of all its attempts.
LEMMA ProceedRefines ==
  ASSUME NEW c \in Calls, Proceed(c)
  PROVE  [Breaker!Next]_breakerVars
<1>1. CASE Enter(c)
  BY <1>1 DEF Enter, Breaker!Next
<1>2. CASE FailFast(c)
  BY <1>2 DEF FailFast, Breaker!Next
<1>3. CASE SendUndefined(c)
  BY <1>3 DEF SendUndefined, Breaker!Next, Breaker!Outcomes
<1>4. CASE RejectLocally(c) \/ SendPooled(c) \/ SendDirect(c) \/ ResumePooled(c) \/ Wake(c)
  BY <1>4 DEF RejectLocally, SendPooled, SendDirect, ResumePooled, Wake, breakerVars
<1>5. QED BY <1>1, <1>2, <1>3, <1>4 DEF Proceed

\* An attempt's answer reaches the breaker once, with the last attempt.
LEMMA RespondRefines ==
  ASSUME NEW c \in Calls, Respond(c)
  PROVE  [Breaker!Next]_breakerVars
<1>1. CASE Succeed(c) \/ FailPermanently(c)
  BY <1>1 DEF Succeed, FailPermanently, Breaker!Next, Breaker!Outcomes
<1>2. ASSUME NEW error \in Transient, FailAndRetry(c, error)
      PROVE  [Breaker!Next]_breakerVars
  BY <1>2 DEF FailAndRetry
<1>3. ASSUME NEW error \in Transient, FailLast(c, error)
      PROVE  [Breaker!Next]_breakerVars
  BY <1>3 DEF FailLast, Breaker!Next, Breaker!Outcomes
<1>4. QED BY <1>1, <1>2, <1>3 DEF Respond

\* Every step of the path is a step of the breaker or leaves it alone.
LEMMA NextRefines == [Next]_vars => [Breaker!Next]_breakerVars
<1> SUFFICES ASSUME [Next]_vars PROVE [Breaker!Next]_breakerVars
  OBVIOUS
<1>1. ASSUME NEW c \in Calls, Submit(c) \/ GuardFires(c) PROVE [Breaker!Next]_breakerVars
  BY <1>1 DEF Submit, GuardFires
<1>2. ASSUME NEW c \in Calls, Proceed(c) \/ Respond(c) PROVE [Breaker!Next]_breakerVars
  BY <1>2, ProceedRefines, RespondRefines
<1>3. CASE SetPool \/ ClosePool
  BY <1>3 DEF SetPool, ClosePool
<1>4. CASE Tick
  BY <1>4 DEF Tick, Breaker!Next
<1>5. CASE UNCHANGED vars
  BY <1>5 DEF vars
<1>6. QED BY <1>1, <1>2, <1>3, <1>4, <1>5 DEF Next

\* For the breaker each submission is one call, whatever its retries, its guard
\* and the pool do: the path implements the breaker's specification.
THEOREM PathImplementsBreaker == Spec => ImplementsBreaker
<1>1. Init => Breaker!Init
  BY DEF Init
<1>2. [Next]_vars => [Breaker!Next]_(Breaker!vars)
  BY NextRefines DEF breakerVars, Breaker!vars
<1>3. QED BY <1>1, <1>2, PTL DEF Spec, ImplementsBreaker, Breaker!SafetySpec

-----------------------------------------------------------------------------
(* What a submission holds.  A call that releases its slot changes the     *)
(* state of another call, the one at the head of the queue; that this one  *)
(* is on its way through the pool, and not a call that has resolved, is    *)
(* what the queues are needed for.                                         *)

Queued(s) == [pc |-> "queued", state |-> s]

\* Requests and queues are well-formed, and a queue holds requests that wait in
\* it, each once.
QueueInv ==
  /\ origin \in States \cup {NoState}
  /\ queue \in [States -> Seq(Calls)]
  /\ req \in [Calls -> {Pool!Idle} \cup
                [pc: {"queued", "granted", "active"}, state: States]]
  /\ \A s \in States : \A i \in 1..Len(queue[s]) :
       /\ req[queue[s][i]] = Queued(s)
       /\ \A j \in 1..Len(queue[s]) : queue[s][i] = queue[s][j] => i = j

\* A call in front of the breaker holds nothing; one that is not on the wire
\* has no part in the pool.
HoldInv ==
  /\ inFlight = [c \in Calls |-> inFlight[c]]
  /\ pc \in [Calls -> {"idle", "limiter", "send", "wire", "backoff"}]
  /\ \A c \in Calls : /\ pc[c] \in {"idle", "limiter"} => inFlight[c] = "none"
                      /\ pc[c] # "wire" => req[c] = Pool!Idle

\* A step of one call does not pull a call that is outside the pool into it.
Undisturbed(c) == \A d \in Calls \ {c} : req[d] = Pool!Idle => req'[d] = Pool!Idle

\* What stands in a queue is a request that waits there, and no other.
LEMMA InQueue ==
  ASSUME QueueInv, NEW s \in States, NEW i \in 1..Len(queue[s])
  PROVE  /\ queue[s][i] \in Calls
         /\ req[queue[s][i]].pc = "queued"
         /\ req[queue[s][i]].state = s
<1>1. queue[s] \in Seq(Calls)
  BY DEF QueueInv
<1>2. queue[s][i] \in Calls
  BY <1>1
<1>3. req[queue[s][i]] = Queued(s)
  BY DEF QueueInv
<1>4. QED BY <1>2, <1>3 DEF Queued

\* A request that does not wait is in no queue.
LEMMA Elsewhere ==
  ASSUME QueueInv, NEW c \in Calls, req[c].pc # "queued"
  PROVE  \A s \in States : \A i \in 1..Len(queue[s]) : queue[s][i] \in Calls \ {c}
BY InQueue

\* fetch begins: the request takes a slot or joins a queue.
LEMMA AcquireKeeps ==
  ASSUME QueueInv, NEW c \in Calls, Pool!Acquire(c)
  PROVE  QueueInv' /\ Undisturbed(c)
<1>i. req[c] = Pool!Idle
  BY DEF Pool!Acquire, Pool!AcquireNow, Pool!AcquireWait
<1>s. Pool!StateFor \subseteq States
  BY DEF QueueInv, Pool!StateFor, Pool!Unreferenced
<1>1. CASE Pool!AcquireNow(c)
  <2>1. PICK s \in States : /\ origin' = s
                            /\ req' = [req EXCEPT ![c] = [pc |-> "active", state |-> s]]
    BY <1>1, <1>s DEF Pool!AcquireNow
  <2>2. queue' = queue
    BY <1>1 DEF Pool!AcquireNow
  <2>3. \A t \in States : \A i \in 1..Len(queue[t]) : queue[t][i] \in Calls \ {c}
    BY <1>i, Elsewhere DEF Pool!Idle
  <2>4. QED BY <2>1, <2>2, <2>3 DEF QueueInv, Undisturbed
<1>2. CASE Pool!AcquireWait(c)
  <2>1. PICK s \in States : /\ origin' = s
                            /\ queue' = [queue EXCEPT ![s] = Append(@, c)]
                            /\ req' = [req EXCEPT ![c] = Queued(s)]
    BY <1>2, <1>s DEF Pool!AcquireWait, Queued
  <2>2. \A t \in States : \A i \in 1..Len(queue[t]) : queue[t][i] \in Calls \ {c}
    BY <1>i, Elsewhere DEF Pool!Idle
  <2>3. /\ queue[s] \in Seq(Calls) /\ Append(queue[s], c) \in Seq(Calls)
        /\ Len(Append(queue[s], c)) = Len(queue[s]) + 1
        /\ Append(queue[s], c)[Len(queue[s]) + 1] = c
        /\ \A i \in 1..Len(queue[s]) : Append(queue[s], c)[i] = queue[s][i]
    BY DEF QueueInv
  <2>4. /\ queue' \in [States -> Seq(Calls)]
        /\ queue'[s] = Append(queue[s], c)
        /\ \A t \in States \ {s} : queue'[t] = queue[t]
    BY <2>1, <2>3 DEF QueueInv
  <2>5. req' \in [Calls -> {Pool!Idle} \cup
                    [pc: {"queued", "granted", "active"}, state: States]]
    BY <2>1 DEF QueueInv, Queued
  <2>6. ASSUME NEW t \in States, NEW i \in 1..Len(queue'[t])
        PROVE  /\ req'[queue'[t][i]] = Queued(t)
               /\ \A j \in 1..Len(queue'[t]) : queue'[t][i] = queue'[t][j] => i = j
    <3>1. CASE t = s
      <4>1. \A k \in 1..Len(queue'[s]) : k \in 1..Len(queue[s]) \/ k = Len(queue[s]) + 1
        BY <2>3, <2>4
      <4>2. /\ Len(queue[s]) \in Nat
            /\ \A k \in 1..Len(queue[s]) : /\ queue[s][k] \in Calls \ {c}
                                           /\ req'[queue[s][k]] = Queued(s)
        BY <2>1, <2>2, <2>3 DEF QueueInv
      <4>3. req'[c] = Queued(s)
        BY <2>1 DEF QueueInv
      <4>4. req'[queue'[s][i]] = Queued(s)
        BY <2>3, <2>4, <3>1, <4>1, <4>2, <4>3
      <4>5. \A j, k \in 1..Len(queue[s]) : queue[s][j] = queue[s][k] => j = k
        BY DEF QueueInv
      <4>6. \A j \in 1..Len(queue'[s]) : queue'[s][i] = queue'[s][j] => i = j
        BY <2>3, <2>4, <3>1, <4>1, <4>2, <4>5
      <4>7. QED BY <3>1, <4>4, <4>6
    <3>2. CASE t # s
      BY <2>1, <2>2, <2>4, <3>2 DEF QueueInv
    <3>3. QED BY <3>1, <3>2
  <2>7. QED BY <2>1, <2>4, <2>5, <2>6 DEF QueueInv, Undisturbed
<1>3. QED BY <1>1, <1>2 DEF Pool!Acquire

\* The continuation of a waiter concerns that waiter only.
LEMMA ResumeKeeps ==
  ASSUME QueueInv, NEW c \in Calls, Pool!Resume(c)
  PROVE  QueueInv' /\ Undisturbed(c)
<1>1. /\ req[c].pc = "granted" /\ queue' = queue /\ origin' = origin
      /\ req' = [req EXCEPT ![c] = [pc |-> "active", state |-> req[c].state]]
  BY DEF Pool!Resume
<1>2. req[c].state \in States
  BY <1>1 DEF QueueInv, Pool!Idle
<1>3. \A t \in States : \A i \in 1..Len(queue[t]) : queue[t][i] \in Calls \ {c}
  BY <1>1, Elsewhere
<1>4. QED BY <1>1, <1>2, <1>3 DEF QueueInv, Undisturbed

\* release() turns nobody but the head of the queue, a waiting request, from one
\* state into another.
LEMMA ReleaseKeeps ==
  ASSUME QueueInv, NEW c \in Calls, Pool!Release(c)
  PROVE  QueueInv' /\ Undisturbed(c) /\ req'[c] = Pool!Idle
<1>1. PICK s \in States : req[c] = [pc |-> "active", state |-> s]
  <2>1. req[c].pc = "active"
    BY DEF Pool!Release
  <2>2. QED BY <2>1 DEF QueueInv, Pool!Idle
<1>2. origin' = origin
  BY DEF Pool!Release
<1>3. \A t \in States : \A i \in 1..Len(queue[t]) : queue[t][i] \in Calls \ {c}
  BY <1>1, Elsewhere
<1>4. CASE queue[s] = <<>>
  <2>1. req' = [req EXCEPT ![c] = Pool!Idle] /\ queue' = queue
    BY <1>1, <1>4 DEF Pool!Release
  <2>2. QED BY <1>2, <1>3, <2>1 DEF QueueInv, Undisturbed
<1>5. CASE queue[s] # <<>>
  <2> DEFINE h == queue[s][1]
  <2>1. /\ queue[s] \in Seq(Calls) /\ Head(queue[s]) = h
        /\ Len(queue[s]) \in Nat \ {0}
        /\ Tail(queue[s]) \in Seq(Calls)
        /\ Len(Tail(queue[s])) = Len(queue[s]) - 1
        /\ \A i \in 1..(Len(queue[s]) - 1) : Tail(queue[s])[i] = queue[s][i + 1]
    BY <1>5 DEF QueueInv
  <2>2. h \in Calls /\ h # c /\ req[h] = Queued(s)
    BY <1>3, <2>1 DEF QueueInv
  <2>3. /\ req' = [[req EXCEPT ![c] = Pool!Idle] EXCEPT ![h] = [pc |-> "granted", state |-> s]]
        /\ queue' = [queue EXCEPT ![s] = Tail(@)]
    BY <1>1, <1>5, <2>1 DEF Pool!Release
  <2>4. /\ queue' \in [States -> Seq(Calls)]
        /\ queue'[s] = Tail(queue[s])
        /\ \A t \in States \ {s} : queue'[t] = queue[t]
    BY <2>1, <2>3 DEF QueueInv
  <2>5. /\ req' \in [Calls -> {Pool!Idle} \cup
                       [pc: {"queued", "granted", "active"}, state: States]]
        /\ req'[c] = Pool!Idle
        /\ \A d \in Calls \ {c, h} : req'[d] = req[d]
    BY <2>2, <2>3 DEF QueueInv
  <2>6. ASSUME NEW t \in States, NEW i \in 1..Len(queue'[t])
        PROVE  /\ req'[queue'[t][i]] = Queued(t)
               /\ \A j \in 1..Len(queue'[t]) : queue'[t][i] = queue'[t][j] => i = j
    <3>1. CASE t = s
      <4>1. /\ i + 1 \in 1..Len(queue[s]) /\ i + 1 # 1
            /\ queue'[t][i] = queue[s][i + 1]
            /\ \A j \in 1..Len(queue'[t]) : /\ j + 1 \in 1..Len(queue[s])
                                            /\ queue'[t][j] = queue[s][j + 1]
        <5>1. /\ queue'[t] = Tail(queue[s]) /\ Len(queue'[t]) = Len(queue[s]) - 1
              /\ i \in 1..(Len(queue[s]) - 1)
          BY <2>1, <2>4, <3>1
        <5>2. QED BY <2>1, <5>1
      <4>2. queue[s][i + 1] \in Calls \ {c, h} /\ req[queue[s][i + 1]] = Queued(s)
        <5>1. 1 \in 1..Len(queue[s])
          BY <2>1
        <5>2. queue[s][i + 1] # h
          BY <4>1, <5>1 DEF QueueInv
        <5>3. QED BY <1>3, <4>1, <5>2 DEF QueueInv
      <4>3. \A j \in 1..Len(queue'[t]) : queue'[t][i] = queue'[t][j] => i + 1 = j + 1
        BY <4>1 DEF QueueInv
      <4>4. \A j \in 1..Len(queue'[t]) : i + 1 = j + 1 => i = j
        OBVIOUS
      <4>5. req'[queue'[t][i]] = Queued(t)
        BY <2>5, <3>1, <4>1, <4>2
      <4>6. QED BY <4>3, <4>4, <4>5
    <3>2. CASE t # s
      <4>1. queue'[t] = queue[t]
        BY <2>4, <3>2
      <4>2. queue[t][i] \in Calls \ {c, h}
        <5>1. req[h].state = s
          BY <2>2 DEF Queued
        <5>2. req[queue[t][i]].state = t
          BY <4>1, InQueue
        <5>3. QED BY <1>3, <3>2, <4>1, <5>1, <5>2
      <4>3. QED BY <2>5, <4>1, <4>2 DEF QueueInv
    <3>3. QED BY <3>1, <3>2
  <2>7. Undisturbed(c)
    BY <2>2, <2>5 DEF Undisturbed, Queued, Pool!Idle
  <2>8. QED BY <1>2, <2>4, <2>5, <2>6, <2>7 DEF QueueInv
<1>6. QED BY <1>4, <1>5

-----------------------------------------------------------------------------
PathInv == QueueInv /\ HoldInv

\* Nothing is held and nobody waits before the first submission.
LEMMA InitInv == Init => PathInv
<1> SUFFICES ASSUME Init PROVE PathInv
  OBVIOUS
<1>1. QueueInv
  BY DEF Init, Pool!Init, QueueInv
<1>2. HoldInv
  BY DEF Init, Pool!Init, Breaker!Init, HoldInv
<1>3. QED BY <1>1, <1>2 DEF PathInv

\* Steps of the call itself, up to the breaker and in the backoff.
LEMMA LocalInv ==
  ASSUME PathInv, NEW c \in Calls,
         Submit(c) \/ RejectLocally(c) \/ Enter(c) \/ FailFast(c) \/ SendDirect(c)
           \/ SendUndefined(c) \/ Wake(c) \/ GuardFires(c)
  PROVE  PathInv'
<1>1. UNCHANGED poolVars
  BY DEF Submit, RejectLocally, Enter, FailFast, SendDirect, SendUndefined, Wake, GuardFires
<1>2. QueueInv'
  BY <1>1 DEF PathInv, QueueInv, poolVars
<1>3. HoldInv'
  <2>1. CASE Enter(c)
    BY <1>1, <2>1 DEF PathInv, HoldInv, Enter, Breaker!Admit, poolVars
  <2>2. CASE Submit(c) \/ SendDirect(c) \/ Wake(c) \/ GuardFires(c)
    BY <1>1, <2>2
    DEF PathInv, HoldInv, Submit, SendDirect, Wake, GuardFires, poolVars, breakerVars
  <2>3. CASE RejectLocally(c) \/ FailFast(c)
    BY <1>1, <2>3
    DEF PathInv, HoldInv, RejectLocally, FailFast, Breaker!Query, Finish, poolVars, breakerVars
  <2>4. CASE SendUndefined(c)
    BY <1>1, <2>4 DEF PathInv, HoldInv, SendUndefined, Breaker!Settle, Finish, poolVars
  <2>5. QED BY <2>1, <2>2, <2>3, <2>4
<1>4. QED BY <1>2, <1>3 DEF PathInv

\* Steps of one call that go through the pool.
LEMMA PooledInv ==
  ASSUME PathInv, NEW c \in Calls, SendPooled(c) \/ ResumePooled(c)
  PROVE  PathInv'
<1>1. CASE SendPooled(c)
  <2>1. QueueInv' /\ Undisturbed(c)
    BY <1>1, AcquireKeeps DEF SendPooled, PathInv
  <2>2. HoldInv'
    BY <1>1, <2>1 DEF SendPooled, PathInv, HoldInv, Undisturbed, breakerVars
  <2>3. QED BY <2>1, <2>2 DEF PathInv
<1>2. CASE ResumePooled(c)
  <2>1. QueueInv' /\ Undisturbed(c)
    BY <1>2, ResumeKeeps DEF ResumePooled, PathInv
  <2>2. pc[c] = "wire"
    BY <1>2 DEF ResumePooled, Pool!Resume, Pool!Idle, PathInv, HoldInv
  <2>3. HoldInv'
    BY <1>2, <2>1, <2>2 DEF ResumePooled, PathInv, HoldInv, Undisturbed, breakerVars
  <2>4. QED BY <2>1, <2>3 DEF PathInv
<1>3. QED BY <1>1, <1>2

\* Leaving the wire gives the slot back, if the attempt had one.
LEMMA LeaveWireKeeps ==
  ASSUME QueueInv, NEW c \in Calls, LeaveWire(c)
  PROVE  QueueInv' /\ Undisturbed(c) /\ req'[c] = Pool!Idle
<1>1. CASE req[c].pc = "active"
  BY <1>1, ReleaseKeeps DEF LeaveWire
<1>2. CASE req[c].pc # "active"
  <2>1. UNCHANGED poolVars /\ req[c].pc = "idle"
    BY <1>2 DEF LeaveWire, OnWire
  <2>2. req[c] = Pool!Idle
    BY <2>1 DEF QueueInv, Pool!Idle
  <2>3. QED BY <2>1, <2>2 DEF QueueInv, Undisturbed, poolVars
<1>3. QED BY <1>1, <1>2

\* An answer ends the attempt, and with the last attempt the submission.
LEMMA RespondInv ==
  ASSUME PathInv, NEW c \in Calls, Respond(c)
  PROVE  PathInv'
<1>1. QueueInv' /\ Undisturbed(c) /\ req'[c] = Pool!Idle
  BY LeaveWireKeeps DEF PathInv, Respond, Succeed, FailPermanently, FailAndRetry, FailLast
<1>2. \/ /\ pc' = [pc EXCEPT ![c] = "backoff"]
         /\ inFlight' = inFlight
      \/ /\ pc' = [pc EXCEPT ![c] = "idle"]
         /\ inFlight' = [inFlight EXCEPT ![c] = "none"]
  BY DEF Respond, Succeed, FailPermanently, FailAndRetry, FailLast, Finish,
         Breaker!Settle, breakerVars
<1>3. HoldInv'
  BY <1>1, <1>2 DEF PathInv, HoldInv, Undisturbed
<1>4. QED BY <1>1, <1>3 DEF PathInv

\* No step of any call, of the pool's configuration or of the clock leaves
\* something behind.
LEMMA NextInv == PathInv /\ [Next]_vars => PathInv'
<1> SUFFICES ASSUME PathInv, [Next]_vars PROVE PathInv'
  OBVIOUS
<1>1. ASSUME NEW c \in Calls, Submit(c) \/ GuardFires(c) PROVE PathInv'
  BY <1>1, LocalInv
<1>2. ASSUME NEW c \in Calls, Proceed(c) PROVE PathInv'
  BY <1>2, LocalInv, PooledInv DEF Proceed
<1>3. ASSUME NEW c \in Calls, Respond(c) PROVE PathInv'
  BY <1>3, RespondInv
<1>4. CASE SetPool \/ Tick
  BY <1>4 DEF SetPool, Tick, Breaker!Tick, PathInv, QueueInv, HoldInv,
              breakerVars, poolVars, callVars
<1>5. CASE ClosePool
  BY <1>5 DEF ClosePool, Pool!Close, Pool!IdleExpire, PathInv, QueueInv, HoldInv,
              breakerVars, callVars
<1>6. CASE UNCHANGED vars
  BY <1>6 DEF vars, PathInv, QueueInv, HoldInv, breakerVars, poolVars, callVars
<1>7. QED BY <1>1, <1>2, <1>3, <1>4, <1>5, <1>6 DEF Next

\* A submission that has resolved holds no slot, stands in no queue and is not
\* expected by the breaker, whatever its retries, its guard and the pool did.
THEOREM NothingIsLeaked == Spec => []NothingLeaks
<1>1. PathInv => NothingLeaks
  BY DEF PathInv, HoldInv, NothingLeaks
<1>2. QED BY <1>1, InitInv, NextInv, PTL DEF Spec

-----------------------------------------------------------------------------
(* The types of the breaker, of the pool and of the calls.                 *)

Breakers == [state: Breaker!BreakerStates, failures: 0..FailureThreshold, age: 0..RecoveryWindow]

\* What a report makes of the breaker's record is well-formed.
LEMMA OutcomeTyped ==
  ASSUME NEW b \in Breakers, NEW report \in Breaker!Outcomes
  PROVE  Breaker!AfterOutcome(b, report) \in Breakers
<1>1. b.failures \in 0..FailureThreshold /\ FailureThreshold \in Nat \ {0}
  BY PathAssumption DEF Breakers
<1>2. Breaker!Saturated(b.failures + 1, FailureThreshold) \in 0..FailureThreshold
  BY <1>1 DEF Breaker!Saturated
<1>3. Breaker!OnFailure(b) \in Breakers
  BY <1>2, PathAssumption DEF Breaker!OnFailure, Breakers, Breaker!BreakerStates
<1>4. Breaker!OnSuccess(b) \in Breakers
  BY PathAssumption DEF Breaker!OnSuccess, Breakers, Breaker!BreakerStates
<1>5. QED
  BY <1>3, <1>4 DEF Breaker!AfterOutcome

\* The breaker's own steps keep its type, and so do those of the path.
LEMMA BreakerTyped == Breaker!TypeOK /\ [Breaker!Next]_breakerVars => Breaker!TypeOK'
<1> SUFFICES ASSUME Breaker!TypeOK, [Breaker!Next]_breakerVars PROVE Breaker!TypeOK'
  OBVIOUS
<1>b. breaker \in Breakers /\ inFlight \in [Calls -> {"none", "CLOSED", "HALF_OPEN"}]
  BY DEF Breaker!TypeOK, Breakers
<1>g. SUFFICES breaker' \in Breakers /\ inFlight' \in [Calls -> {"none", "CLOSED", "HALF_OPEN"}]
  BY DEF Breaker!TypeOK, Breakers
<1>q. Breaker!CheckRecovery(breaker) \in Breakers
  BY <1>b DEF Breaker!CheckRecovery, Breakers, Breaker!BreakerStates
<1>1. ASSUME NEW c \in Calls, Breaker!Admit(c)
      PROVE  breaker' \in Breakers /\ inFlight' \in [Calls -> {"none", "CLOSED", "HALF_OPEN"}]
  <2>1. breaker' \in Breakers /\ breaker'.state # "OPEN"
    BY <1>1, <1>q DEF Breaker!Admit
  <2>2. breaker'.state \in {"CLOSED", "HALF_OPEN"}
    BY <2>1 DEF Breakers, Breaker!BreakerStates
  <2>3. QED
    BY <1>1, <1>b, <2>1, <2>2 DEF Breaker!Admit
<1>2. ASSUME NEW c \in Calls, NEW report \in Breaker!Outcomes, Breaker!Settle(c, report)
      PROVE  breaker' \in Breakers /\ inFlight' \in [Calls -> {"none", "CLOSED", "HALF_OPEN"}]
  BY <1>2, <1>b, OutcomeTyped DEF Breaker!Settle
<1>3. CASE Breaker!Query
  BY <1>3, <1>b, <1>q DEF Breaker!Query
<1>4. CASE Breaker!Reset
  BY <1>4, <1>b, PathAssumption DEF Breaker!Reset, Breakers, Breaker!BreakerStates
<1>5. CASE Breaker!Tick
  BY <1>5, <1>b, PathAssumption DEF Breaker!Tick, Breakers
<1>6. CASE UNCHANGED breakerVars
  BY <1>6, <1>b DEF breakerVars
<1>7. QED
  BY <1>1, <1>2, <1>3, <1>4, <1>5, <1>6 DEF Breaker!Next

\* No step of the pool takes a counter below zero.
LEMMA CounterTyped ==
  ASSUME QueueInv, active \in [States -> Nat], NEW c \in Calls,
         Pool!Acquire(c) \/ Pool!Resume(c) \/ Pool!Release(c)
  PROVE  active' \in [States -> Nat]
<1>1. CASE Pool!Acquire(c)
  BY <1>1 DEF Pool!Acquire, Pool!AcquireNow, Pool!AcquireWait
<1>2. CASE Pool!Resume(c)
  <2> DEFINE counted(s) == [active EXCEPT ![s] = active[s] + 1]
  <2>1. \A s \in States : counted(s) \in [States -> Nat]
    OBVIOUS
  <2>2. \A s : s \notin States => counted(s) = active
    OBVIOUS
  <2>3. active' = counted(req[c].state)
    BY <1>2 DEF Pool!Resume
  <2>4. QED
    BY <2>1, <2>2, <2>3
<1>3. CASE Pool!Release(c)
  <2>1. \A n \in Nat : Pool!Decremented(n) \in Nat
    BY DEF Pool!Decremented
  <2>2. active' = [active EXCEPT ![req[c].state] = Pool!Decremented(@)]
    BY <1>3 DEF Pool!Release
  <2>3. QED
    BY <2>1, <2>2
<1>4. QED
  BY <1>1, <1>2, <1>3

\* A call under way has an attempt left.
CallTyped ==
  /\ pooled \in BOOLEAN
  /\ pc \in [Calls -> {"idle", "limiter", "send", "wire", "backoff"}]
  /\ attempt \in [Calls -> 0..MaxAttempts]
  /\ \A c \in Calls : pc[c] # "idle" => attempt[c] < MaxAttempts
  /\ cancelled \in [Calls -> BOOLEAN]
  /\ timedOut \in [Calls -> BOOLEAN]
  /\ outcome \in [Calls -> {"none"} \cup Results]
  /\ answer \in [Calls -> {"waiting", "operation_timeout"} \cup Results]

TypeInv == PathInv /\ Breaker!TypeOK /\ active \in [States -> Nat] /\ CallTyped

LEMMA TypeInit == Init => TypeInv
<1> SUFFICES ASSUME Init PROVE TypeInv
  OBVIOUS
<1>1. Breaker!TypeOK
  BY PathAssumption DEF Init, Breaker!Init, Breaker!InitialBreaker, Breaker!TypeOK, Breaker!BreakerStates
<1>2. active \in [States -> Nat]
  BY DEF Init, Pool!Init
<1>3. CallTyped
  BY PathAssumption DEF Init, CallTyped
<1>4. QED
  BY <1>1, <1>2, <1>3, InitInv DEF TypeInv

\* The end of a submission says what became of it.
LEMMA FinishTyped ==
  ASSUME CallTyped, NEW c \in Calls, NEW result \in Results, Finish(c, result)
  PROVE  /\ pc' \in [Calls -> {"idle", "limiter", "send", "wire", "backoff"}]
         /\ \A d \in Calls : pc'[d] # "idle" => d # c /\ pc[d] # "idle"
         /\ outcome' \in [Calls -> {"none"} \cup Results]
         /\ answer' \in [Calls -> {"waiting", "operation_timeout"} \cup Results]
BY DEF CallTyped, Finish

\* The steps of a call before and after its attempts.
LEMMA LocalTyped ==
  ASSUME CallTyped, NEW c \in Calls,
         \/ Submit(c) \/ RejectLocally(c) \/ Enter(c) \/ FailFast(c) \/ SendPooled(c)
         \/ ResumePooled(c) \/ SendDirect(c) \/ SendUndefined(c) \/ Wake(c) \/ GuardFires(c)
  PROVE  CallTyped'
<1>1. CASE Submit(c)
  BY <1>1, PathAssumption DEF Submit, CallTyped
<1>2. CASE RejectLocally(c) \/ FailFast(c) \/ SendUndefined(c)
  <2>1. Finish(c, "failed") /\ UNCHANGED <<pooled, attempt, cancelled, timedOut>>
    BY <1>2 DEF RejectLocally, FailFast, SendUndefined
  <2>2. "failed" \in Results
    BY DEF Results
  <2>3. QED
    BY <2>1, <2>2, FinishTyped DEF CallTyped
<1>3. CASE Enter(c) \/ SendPooled(c) \/ SendDirect(c) \/ Wake(c)
  BY <1>3 DEF Enter, SendPooled, SendDirect, Wake, CallTyped
<1>4. CASE ResumePooled(c)
  BY <1>4 DEF ResumePooled, CallTyped
<1>5. CASE GuardFires(c)
  <2>1. OnWire(c) \in BOOLEAN
    BY DEF OnWire
  <2>2. QED
    BY <1>5, <2>1 DEF GuardFires, CallTyped
<1>6. QED
  BY <1>1, <1>2, <1>3, <1>4, <1>5

\* A transient failure uses up an attempt, and with the last one the submission.
LEMMA RespondTyped ==
  ASSUME CallTyped, NEW c \in Calls, Respond(c)
  PROVE  CallTyped'
<1>1. cancelled' = [cancelled EXCEPT ![c] = FALSE] /\ pooled' = pooled /\ pc[c] = "wire"
  BY DEF Respond, Succeed, FailPermanently, FailAndRetry, FailLast, LeaveWire, OnWire
<1>2. {"ok", "failed", "pending_timeout"} \subseteq Results
  BY DEF Results
<1>3. CASE Succeed(c) \/ FailPermanently(c)
  <2>1. (Finish(c, "ok") \/ Finish(c, "failed")) /\ UNCHANGED <<attempt, timedOut>>
    BY <1>3 DEF Succeed, FailPermanently
  <2>2. QED
    BY <1>1, <1>2, <2>1, FinishTyped DEF CallTyped
<1>4. ASSUME NEW error \in Transient, FailAndRetry(c, error) \/ FailLast(c, error)
      PROVE  CallTyped'
  <2>1. attempt' = [attempt EXCEPT ![c] = @ + 1] /\ attempt[c] \in 0..MaxAttempts
        /\ attempt[c] < MaxAttempts /\ MaxAttempts \in Nat
    BY <1>1, <1>4, PathAssumption DEF FailAndRetry, FailLast, CallTyped
  <2>2. attempt' \in [Calls -> 0..MaxAttempts] /\ \A d \in Calls \ {c} : attempt'[d] = attempt[d]
    BY <2>1 DEF CallTyped
  <2>3. timedOut' \in [Calls -> BOOLEAN]
    <3>1. Noted(c, error)
      BY <1>4 DEF FailAndRetry, FailLast
    <3>2. (timedOut[c] \/ error = "timeout") \in BOOLEAN
      OBVIOUS
    <3>3. QED
      BY <3>1, <3>2 DEF Noted, CallTyped
  <2>4. CASE FailAndRetry(c, error)
    <3>1. attempt'[c] < MaxAttempts
      BY <2>1, <2>4 DEF FailAndRetry, AttemptsLeft, CallTyped
    <3>2. QED
      BY <1>1, <2>2, <2>3, <2>4, <3>1 DEF FailAndRetry, CallTyped
  <2>5. CASE FailLast(c, error)
    <3>1. Finish(c, IF error = "timeout" THEN "pending_timeout" ELSE "failed")
      BY <2>5 DEF FailLast
    <3>2. QED
      BY <1>1, <1>2, <2>2, <2>3, <3>1, FinishTyped DEF CallTyped
  <2>6. QED
    BY <1>4, <2>4, <2>5
<1>5. QED
  BY <1>3, <1>4 DEF Respond

\* No step leaves the types.
LEMMA TypeNext == TypeInv /\ [Next]_vars => TypeInv'
<1> SUFFICES ASSUME TypeInv, [Next]_vars PROVE TypeInv'
  OBVIOUS
<1>1. PathInv'
  BY NextInv DEF TypeInv
<1>2. Breaker!TypeOK'
  BY NextRefines, BreakerTyped DEF TypeInv
<1>3. active' \in [States -> Nat] /\ CallTyped'
  <2>1. ASSUME NEW c \in Calls, Submit(c) \/ GuardFires(c) \/ Proceed(c)
        PROVE  active' \in [States -> Nat] /\ CallTyped'
    <3>1. CallTyped'
      BY <2>1, LocalTyped DEF TypeInv, Proceed
    <3>2. active' = active \/ Pool!Acquire(c) \/ Pool!Resume(c)
      BY <2>1 DEF Proceed, Submit, GuardFires, RejectLocally, Enter, FailFast, SendPooled, SendDirect,
                  SendUndefined, ResumePooled, Wake, poolVars
    <3>3. QED
      BY <3>1, <3>2, CounterTyped DEF TypeInv, PathInv
  <2>2. ASSUME NEW c \in Calls, Respond(c)
        PROVE  active' \in [States -> Nat] /\ CallTyped'
    <3>1. active' = active \/ Pool!Release(c)
      BY <2>2 DEF Respond, Succeed, FailPermanently, FailAndRetry, FailLast, LeaveWire, poolVars
    <3>2. QED
      BY <2>2, <3>1, RespondTyped, CounterTyped DEF TypeInv, PathInv
  <2>3. CASE SetPool \/ ClosePool \/ Tick
    BY <2>3 DEF SetPool, ClosePool, Tick, Pool!Close, Pool!IdleExpire, TypeInv, CallTyped, poolVars, callVars
  <2>4. CASE UNCHANGED vars
    BY <2>4 DEF vars, TypeInv, CallTyped, poolVars, callVars
  <2>5. QED
    BY <2>1, <2>2, <2>3, <2>4 DEF Next
<1>4. QED
  BY <1>1, <1>2, <1>3 DEF TypeInv

\* The path keeps the types of the breaker and of the pool, and no submission makes
\* more attempts than it may (utils.ts: retryWithBackoff).
THEOREM TypeCorrect == Spec => []TypeOK
<1>1. TypeInv => TypeOK
  BY DEF TypeInv, PathInv, QueueInv, CallTyped, TypeOK, Pool!TypeOK
<1>2. QED
  BY <1>1, TypeInit, TypeNext, PTL DEF Spec
=============================================================================
