----------------------------- MODULE RateLimiter -----------------------------
(***************************************************************************)
(* The token bucket of one endpoint (RateLimiter in src/shared/utils.ts):  *)
(* tokens that are refilled only when somebody looks, a queue of waiters   *)
(* and a timer that drains it. Limits change while requests wait, by call  *)
(* or by the headers of an answer. A token has Unit parts, of which every  *)
(* tick brings as many as the limit: Unit ticks are a second. The observer *)
(* of metrics (onMetricEvent) is called in the middle of it and may throw; *)
(* out of a timer nobody catches that, and the page goes on.               *)
(***************************************************************************)
EXTENDS Integers, Sequences

CONSTANTS
  Requests,
  Limits,     \* the limits an endpoint may get, at least one a second
  Unit,
  MaxIdle     \* bound on the ticks that are told apart since the last refill

VARIABLES
  limit,
  tokens,     \* in parts
  idle,       \* ticks since lastRefill
  queue,
  timer,      \* ticks until the drain, NoTimer when none is armed
  granted,    \* of every age, the grants that are no older: ticks of the last second
  steady,     \* ticks since the limit changed, up to one more than a second
  abandoned   \* the observer threw out of the last drain: not part of the code

vars == <<limit, tokens, idle, queue, timer, granted, steady, abandoned>>

NoTimer == -1
MaxLimit == CHOOSE l \in Limits : \A k \in Limits : k <= l
Smaller(a, b) == IF a < b THEN a ELSE b
InQueue == {queue[i] : i \in DOMAIN queue}

TypeOK ==
  /\ limit \in Limits
  /\ tokens \in 0..(limit * Unit)
  /\ idle \in 0..MaxIdle
  /\ queue \in Seq(Requests) /\ \A i, j \in DOMAIN queue : queue[i] = queue[j] => i = j
  /\ timer \in {NoTimer} \cup 0..Unit
  /\ granted \in [0..Unit -> Nat]
  /\ steady \in 0..(Unit + 1)
  /\ abandoned \in BOOLEAN

Init ==
  /\ limit \in Limits
  /\ tokens = limit * Unit
  /\ idle = 0 /\ queue = <<>> /\ timer = NoTimer
  /\ granted = [age \in 0..Unit |-> 0] /\ steady = Unit + 1 /\ abandoned = FALSE

Refilled == Smaller(limit * Unit, tokens + idle * limit)

Grant(count) == granted' = [age \in 0..Unit |-> granted[age] + count]

\* The timer that is armed stays, also when the limit has changed since.
ScheduleDrain(left) ==
  timer' = IF timer # NoTimer THEN timer
           ELSE IF left >= Unit THEN 0
           ELSE (Unit - left + limit - 1) \div limit

\* A newcomer that finds a token does not look at the queue. Its token is gone
\* when the observer throws, and it is refused.
Acquire(r, throws) ==
  /\ r \notin InQueue
  /\ idle' = 0
  /\ IF Refilled >= Unit
     THEN /\ tokens' = Refilled - Unit
          /\ Grant(IF throws THEN 0 ELSE 1)
          /\ UNCHANGED <<queue, timer, abandoned>>
     ELSE /\ tokens' = Refilled
          /\ queue' = Append(queue, r)
          /\ ScheduleDrain(Refilled)
          /\ abandoned' = FALSE
          /\ UNCHANGED granted
  /\ UNCHANGED <<limit, steady>>

\* A look at the metrics refills the bucket too.
GetMetrics ==
  /\ idle' = 0
  /\ tokens' = Refilled
  /\ UNCHANGED <<limit, queue, timer, granted, steady, abandoned>>

Servable == Smaller(Len(queue), Refilled \div Unit)

\* The first waiters leave the queue with a token each.
Serve(count) ==
  /\ timer = 0
  /\ idle' = 0
  /\ tokens' = Refilled - count * Unit
  /\ queue' = SubSeq(queue, count + 1, Len(queue))
  /\ UNCHANGED <<limit, steady>>

\* As many waiters as there are tokens; the rest get a new timer.
Drain ==
  LET left == Refilled - Servable * Unit
  IN  /\ Serve(Servable)
      /\ Grant(Servable)
      /\ timer' = IF Servable = Len(queue) THEN NoTimer
                  ELSE IF left >= Unit THEN 0 ELSE (Unit - left + limit - 1) \div limit
      /\ UNCHANGED abandoned

\* The observer throws when the last of count waiters is served: before its promise
\* is resolved, which then never settles, or after. The rest get no timer.
DrainThrows(count, resolved) ==
  /\ count <= Servable
  /\ Serve(count)
  /\ Grant(IF resolved THEN count ELSE count - 1)
  /\ timer' = NoTimer
  /\ abandoned' = TRUE

\* The bucket is not refilled first: the ticks since the last refill count at
\* the new rate.
SetEndpointLimit(new) ==
  /\ new # limit
  /\ limit' = new
  /\ tokens' = Smaller(tokens, new * Unit)
  /\ steady' = 0
  /\ UNCHANGED <<idle, queue, timer, granted, abandoned>>

\* The remaining requests that an answer's headers grant.
HandleRemaining(remaining) ==
  /\ remaining * Unit < tokens
  /\ tokens' = remaining * Unit
  /\ UNCHANGED <<limit, idle, queue, timer, granted, steady, abandoned>>

\* The header that announces the reset, when no token is left.
HandleReset ==
  /\ tokens < Unit
  /\ idle' = 0
  /\ UNCHANGED <<limit, tokens, queue, timer, granted, steady, abandoned>>

Tick ==
  /\ timer # 0
  /\ idle' = Smaller(idle + 1, MaxIdle)
  /\ timer' = IF timer = NoTimer THEN NoTimer ELSE timer - 1
  /\ granted' = [age \in 0..Unit |-> IF age = 0 THEN 0 ELSE granted[age - 1]]
  /\ steady' = Smaller(steady + 1, Unit + 1)
  /\ UNCHANGED <<limit, tokens, queue, abandoned>>

Next ==
  \/ \E r \in Requests, throws \in BOOLEAN : Acquire(r, throws)
  \/ GetMetrics
  \/ Drain
  \/ \E count \in 1..Len(queue), resolved \in BOOLEAN : DrainThrows(count, resolved)
  \/ \E new \in Limits : SetEndpointLimit(new)
  \/ \E remaining \in 0..MaxLimit : HandleRemaining(remaining)
  \/ HandleReset
  \/ Tick

Spec == Init /\ [][Next]_vars

-----------------------------------------------------------------------------
\* Within any second of one limit there are at most twice as many grants: a
\* full bucket and its refill, whatever the timers, newcomers and headers do.
WithinRate == steady = Unit + 1 => granted[Unit] <= 2 * limit

\* Whoever queues has a timer running for it, also after limits, headers and
\* newcomers changed what it waits for. A drain that the observer threw out of
\* leaves its rest without one, until the next request that has to queue.
WaitersHaveTimer == queue # <<>> /\ ~abandoned => timer # NoTimer
=============================================================================
