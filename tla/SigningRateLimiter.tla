------------------------- MODULE SigningRateLimiter -------------------------
(***************************************************************************)
(* The queue in front of the wallet (src/src/wallet/signingRateLimiter.ts).*)
(* One timer starts the first request of the queue; its callback awaits    *)
(* the wallet and looks after the queue again only when that is over.      *)
(* Meanwhile requests are queued, cancelled and cleared, and a request     *)
(* that is queued arms a timer of its own if none is armed, so that        *)
(* several requests may be under way at once.                              *)
(*                                                                         *)
(* Date.now() - _lastProcessedAt saturates at the interval, the largest    *)
(* value that makes a difference; a timer may fire late but not early.     *)
(***************************************************************************)
EXTENDS Naturals, Sequences, FiniteSets, TLAPS

CONSTANTS
  Requests,      \* request ids; an id is free again once its promise settled
  Interval,      \* _intervalMs, in clock ticks
  MaxQueueSize

ASSUME LimiterAssumption ==
  /\ IsFiniteSet(Requests)
  /\ Interval \in Nat
  /\ MaxQueueSize \in Nat

VARIABLES
  queue,      \* _queue
  armed,      \* is _timer set?
  wait,       \* ticks until it may fire
  elapsed,    \* Date.now() - _lastProcessedAt
  executing,  \* the requests whose execute() is awaited; activeCount is their number
  rest        \* history: time since the last execution started

vars == <<queue, armed, wait, elapsed, executing, rest>>

Waiting  == {queue[i] : i \in DOMAIN queue}
Position(r) == CHOOSE i \in DOMAIN queue : queue[i] = r

TypeOK ==
  /\ queue \in Seq(Requests) /\ Len(queue) <= MaxQueueSize
  /\ armed \in BOOLEAN
  /\ wait \in 0..Interval
  /\ elapsed \in 0..Interval
  /\ executing \subseteq Requests
  /\ rest \in 0..Interval

-----------------------------------------------------------------------------
Init ==
  /\ queue = <<>>
  /\ armed = FALSE
  /\ wait = 0
  /\ elapsed = Interval
  /\ executing = {}
  /\ rest = Interval

\* Mutant: the time since the last execution is not taken into account.
ProcessNextAtOnce ==
  IF armed \/ queue' = <<>> THEN UNCHANGED <<armed, wait>>
  ELSE armed' = TRUE /\ wait' = 0

\* _processNext: arm the timer, unless it is armed or there is nothing to do.
ProcessNext ==
  IF armed \/ queue' = <<>> THEN UNCHANGED <<armed, wait>>
  ELSE armed' = TRUE /\ wait' = Interval - elapsed

\* Mutant: no capacity.
EnqueueUnbounded(r) ==
  /\ r \notin Waiting \cup executing
  /\ queue' = Append(queue, r)
  /\ ProcessNext
  /\ UNCHANGED <<elapsed, executing, rest>>

Enqueue(r) ==
  /\ r \notin Waiting \cup executing
  /\ Len(queue) < MaxQueueSize
  /\ queue' = Append(queue, r)
  /\ ProcessNext
  /\ UNCHANGED <<elapsed, executing, rest>>

\* cancel(): the timer stays armed, even when nothing is left for it.
Cancel(r) ==
  /\ r \in Waiting
  /\ queue' = SubSeq(queue, 1, Position(r) - 1) \o SubSeq(queue, Position(r) + 1, Len(queue))
  /\ UNCHANGED <<armed, wait, elapsed, executing, rest>>

\* clear(): nothing is queued any more and no timer armed; what is being signed
\* goes on.
Clear ==
  /\ queue' = <<>>
  /\ armed' = FALSE /\ wait' = 0
  /\ UNCHANGED <<elapsed, executing, rest>>

\* The timer fires and finds the queue empty.
FireIdle ==
  /\ armed /\ wait = 0 /\ queue = <<>>
  /\ armed' = FALSE
  /\ UNCHANGED <<queue, wait, elapsed, executing, rest>>

\* Mutant: pop() for shift().
StartNewest ==
  /\ armed /\ wait = 0 /\ queue # <<>>
  /\ armed' = FALSE
  /\ executing' = executing \cup {queue[Len(queue)]}
  /\ queue' = SubSeq(queue, 1, Len(queue) - 1)
  /\ elapsed' = 0 /\ rest' = 0
  /\ UNCHANGED wait

\* The timer fires: from here to the await of execute().
Start ==
  /\ armed /\ wait = 0 /\ queue # <<>>
  /\ armed' = FALSE
  /\ executing' = executing \cup {Head(queue)}
  /\ queue' = Tail(queue)
  /\ elapsed' = 0 /\ rest' = 0
  /\ UNCHANGED wait

\* Mutant: the queue is looked after only when execute() resolved.
FinishUnchained(r) ==
  /\ r \in executing
  /\ executing' = executing \ {r}
  /\ UNCHANGED <<queue, armed, wait, elapsed, rest>>

\* execute() resolves or rejects: the promise settles, then the finally block.
Finish(r) ==
  /\ r \in executing
  /\ executing' = executing \ {r}
  /\ UNCHANGED queue
  /\ ProcessNext
  /\ UNCHANGED <<elapsed, rest>>

Later(n) == IF n < Interval THEN n + 1 ELSE Interval

Tick ==
  /\ elapsed < Interval \/ rest < Interval \/ wait > 0
  /\ wait' = IF wait > 0 THEN wait - 1 ELSE 0
  /\ elapsed' = Later(elapsed)
  /\ rest' = Later(rest)
  /\ UNCHANGED <<queue, armed, executing>>

Next ==
  \/ \E r \in Requests : Enqueue(r) \/ Cancel(r) \/ Finish(r)
  \/ Clear
  \/ FireIdle
  \/ Start
  \/ Tick

SafetySpec == Init /\ [][Next]_vars

\* Time passes, the timer fires, and the wallet answers in the end.
Spec ==
  /\ SafetySpec
  /\ WF_vars(Tick) /\ WF_vars(FireIdle) /\ WF_vars(Start)
  /\ \A r \in Requests : WF_vars(Finish(r))

-----------------------------------------------------------------------------
\* "Maximum signing requests per second": two executions start an interval
\* apart, also when one request is queued while another is being signed, when
\* the queue was cleared in between, or when the timer ran idle.
NeverTooFast ==
  [][executing' \ executing # {} => rest = Interval]_vars

\* A queued request is looked after: a timer is armed for the queue, or some
\* execution is under way whose end will arm it.
QueueIsServed == queue # <<>> => armed \/ executing # {}

\* Nobody is forgotten or starved: a queued request is executed, cancelled or
\* cleared, however many others keep arriving.
EveryRequestSettles == \A r \in Requests : r \in Waiting ~> r \notin Waiting

-----------------------------------------------------------------------------
(***************************************************************************)
(* Proofs, for any requests, interval and capacity.                        *)
(*                                                                         *)
(* That executions start an interval apart rests on the timer: whenever it *)
(* is armed it will not fire before the interval since the last start is   *)
(* over, and a start disarms it, so a request that is queued while another *)
(* is being signed arms it anew with the rest of the interval.             *)
(***************************************************************************)
\* The clocks agree, and an armed timer waits for what is left of the interval.
Paced ==
  /\ rest = elapsed
  /\ armed => wait >= Interval - elapsed

LimiterInv == TypeOK /\ QueueIsServed /\ Paced

\* A queue without one of its requests.
LEMMA Removed ==
  ASSUME NEW q \in Seq(Requests), NEW i \in DOMAIN q
  PROVE  /\ SubSeq(q, 1, i - 1) \o SubSeq(q, i + 1, Len(q)) \in Seq(Requests)
         /\ Len(SubSeq(q, 1, i - 1) \o SubSeq(q, i + 1, Len(q))) = Len(q) - 1
<1>1. i \in 1..Len(q) /\ Len(q) \in Nat
  OBVIOUS
<1>2. /\ SubSeq(q, 1, i - 1) \in Seq(Requests)
      /\ Len(SubSeq(q, 1, i - 1)) = i - 1
  BY <1>1
<1>3. /\ SubSeq(q, i + 1, Len(q)) \in Seq(Requests)
      /\ Len(SubSeq(q, i + 1, Len(q))) = Len(q) - i
  BY <1>1
<1>4. \A a, b \in Seq(Requests) : a \o b \in Seq(Requests) /\ Len(a \o b) = Len(a) + Len(b)
  OBVIOUS
<1>5. (i - 1) + (Len(q) - i) = Len(q) - 1
  BY <1>1
<1>6. QED BY <1>2, <1>3, <1>4, <1>5

\* Arming the timer keeps it in range and in pace, and serves the queue.
LEMMA ProcessNextSound ==
  ASSUME LimiterInv, ProcessNext, elapsed' = elapsed, rest' = rest
  PROVE  /\ armed' \in BOOLEAN /\ wait' \in 0..Interval
         /\ Paced'
         /\ queue' # <<>> => armed'
<1>1. armed \in BOOLEAN /\ wait \in 0..Interval /\ elapsed \in 0..Interval /\ Interval \in Nat
  BY LimiterAssumption DEF LimiterInv, TypeOK
<1>2. CASE armed \/ queue' = <<>>
  BY <1>1, <1>2 DEF ProcessNext, LimiterInv, Paced
<1>3. CASE ~(armed \/ queue' = <<>>)
  BY <1>1, <1>3 DEF ProcessNext, LimiterInv, Paced
<1>4. QED BY <1>2, <1>3

-----------------------------------------------------------------------------
\* A new limiter is idle and has waited long enough.
LEMMA InitInv == Init => LimiterInv
<1> SUFFICES ASSUME Init PROVE LimiterInv
  OBVIOUS
<1>1. <<>> \in Seq(Requests) /\ Len(<<>>) = 0
  OBVIOUS
<1>2. 0 \in 0..Interval /\ Interval \in 0..Interval
  BY LimiterAssumption
<1>3. TypeOK
  <2>1. queue \in Seq(Requests) /\ Len(queue) <= MaxQueueSize
    BY <1>1, LimiterAssumption DEF Init
  <2>2. QED BY <1>2, <2>1 DEF Init, TypeOK
<1>4. QED BY <1>3 DEF Init, LimiterInv, QueueIsServed, Paced

\* No step of the callers, the wallet, the timer or the clock breaks the
\* invariant.
LEMMA NextInv == LimiterInv /\ [Next]_vars => LimiterInv'
<1> SUFFICES ASSUME LimiterInv, [Next]_vars PROVE LimiterInv'
  OBVIOUS
<1>t. TypeOK /\ Interval \in Nat /\ MaxQueueSize \in Nat
  BY LimiterAssumption DEF LimiterInv
<1>1. ASSUME NEW r \in Requests, Enqueue(r) PROVE LimiterInv'
  <2>1. queue' \in Seq(Requests) /\ Len(queue') <= MaxQueueSize
    BY <1>1, <1>t DEF Enqueue, TypeOK
  <2>2. QED BY <1>1, <1>t, <2>1, ProcessNextSound
            DEF Enqueue, LimiterInv, TypeOK, QueueIsServed
<1>2. ASSUME NEW r \in Requests, Cancel(r) PROVE LimiterInv'
  <2>1. queue # <<>> /\ Position(r) \in DOMAIN queue
    BY <1>2 DEF Cancel, Waiting, Position
  <2>2. queue' \in Seq(Requests) /\ Len(queue') <= MaxQueueSize
    <3>1. queue' \in Seq(Requests) /\ Len(queue') = Len(queue) - 1
      BY <1>2, <1>t, <2>1, Removed DEF Cancel, TypeOK
    <3>2. QED BY <1>t, <3>1 DEF TypeOK
  <2>3. QED BY <1>2, <2>1, <2>2 DEF Cancel, LimiterInv, TypeOK, QueueIsServed, Paced
<1>3. ASSUME NEW r \in Requests, Finish(r) PROVE LimiterInv'
  BY <1>3, <1>t, ProcessNextSound DEF Finish, LimiterInv, TypeOK, QueueIsServed
<1>4. CASE Clear
  <2>1. <<>> \in Seq(Requests) /\ Len(<<>>) = 0 /\ 0 \in 0..Interval
    BY <1>t
  <2>2. TypeOK'
    <3>1. queue' \in Seq(Requests) /\ Len(queue') <= MaxQueueSize
      BY <1>4, <1>t, <2>1 DEF Clear
    <3>2. QED BY <1>4, <1>t, <2>1, <3>1 DEF Clear, TypeOK
  <2>3. QED BY <1>4, <2>2 DEF Clear, LimiterInv, QueueIsServed, Paced
<1>5. CASE FireIdle
  BY <1>5, <1>t DEF FireIdle, LimiterInv, TypeOK, QueueIsServed, Paced
<1>6. CASE Start
  <2>1. /\ Tail(queue) \in Seq(Requests) /\ Head(queue) \in Requests
        /\ Len(Tail(queue)) = Len(queue) - 1 /\ Len(queue) \in Nat
    BY <1>6, <1>t DEF Start, TypeOK
  <2>2. Len(queue') <= MaxQueueSize /\ 0 \in 0..Interval
    BY <1>6, <1>t, <2>1 DEF Start, TypeOK
  <2>3. TypeOK'
    BY <1>6, <1>t, <2>1, <2>2 DEF Start, TypeOK
  <2>4. QueueIsServed' /\ Paced'
    BY <1>6 DEF Start, QueueIsServed, Paced
  <2>5. QED BY <2>3, <2>4 DEF LimiterInv
<1>7. CASE Tick
  BY <1>7, <1>t DEF Tick, Later, LimiterInv, TypeOK, QueueIsServed, Paced
<1>8. CASE UNCHANGED vars
  BY <1>8 DEF vars, LimiterInv, TypeOK, QueueIsServed, Paced
<1>9. QED BY <1>1, <1>2, <1>3, <1>4, <1>5, <1>6, <1>7, <1>8 DEF Next

\* The invariant holds in every reachable state.
LEMMA LimiterCorrect == SafetySpec => []LimiterInv
BY InitInv, NextInv, PTL DEF SafetySpec

\* The queue stays within its capacity, and everything else in its range.
THEOREM TypeCorrect == SafetySpec => []TypeOK
<1>1. LimiterInv => TypeOK
  BY DEF LimiterInv
<1>2. QED BY <1>1, LimiterCorrect, PTL

\* No interleaving of callers, answers of the wallet and timers leaves a queued
\* request that nothing will look after.
THEOREM NobodyIsForgotten == SafetySpec => []QueueIsServed
<1>1. LimiterInv => QueueIsServed
  BY DEF LimiterInv
<1>2. QED BY <1>1, LimiterCorrect, PTL

\* Two executions start an interval apart, however requests overlap.
THEOREM RateIsKept == SafetySpec => NeverTooFast
<1>1. LimiterInv /\ [Next]_vars => [executing' \ executing # {} => rest = Interval]_vars
  <2> SUFFICES ASSUME LimiterInv, [Next]_vars, executing' \ executing # {}
               PROVE  rest = Interval
    OBVIOUS
  <2>1. Start
    BY DEF Next, vars, Enqueue, Cancel, Finish, Clear, FireIdle, Tick
  <2>2. QED BY <2>1, LimiterAssumption DEF Start, LimiterInv, TypeOK, Paced
<1>2. QED BY <1>1, LimiterCorrect, PTL DEF SafetySpec, NeverTooFast
=============================================================================
