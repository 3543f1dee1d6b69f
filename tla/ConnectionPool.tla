--------------------------- MODULE ConnectionPool ---------------------------
(***************************************************************************)
(* The request pool of one origin (src/src/network/connectionPool.ts).     *)
(* An origin's entry is an object held by the map and by every request     *)
(* that acquired a slot of it; close() and the idle timer drop it from the *)
(* map while requests may still hold it, and the next request creates a    *)
(* new one.  release() resolves the promise of the first waiter, but the   *)
(* waiter counts itself only when its continuation runs: until then it is  *)
(* "granted", and other continuations may run first.                       *)
(***************************************************************************)
EXTENDS Naturals, Sequences, FiniteSets, FiniteSetTheorems, TLAPS

CONSTANTS
  Requests,     \* callers of fetch(), each has one request at most
  MaxPoolSize,  \* config.maxPoolSize
  States,       \* identities of OriginState objects; bounds how many are alive
  NoState

ASSUME PoolAssumption ==
  /\ IsFiniteSet(Requests)
  /\ MaxPoolSize \in Nat \ {0}
  /\ NoState \notin States

VARIABLES
  origin,   \* the object the map holds, NoState when it has no entry
  active,   \* per object: the active counter
  queue,    \* per object: the waiting requests, in order
  req       \* per request: [pc, state]

vars == <<origin, active, queue, req>>

Idle == [pc |-> "idle", state |-> NoState]

TypeOK ==
  /\ origin \in States \cup {NoState}
  /\ active \in [States -> Nat]
  /\ queue \in [States -> Seq(Requests)]
  /\ req \in [Requests -> {Idle} \cup
                [pc: {"queued", "granted", "active"}, state: States]]

At(pc, s) == {r \in Requests : req[r] = [pc |-> pc, state |-> s]}

Unreferenced == {s \in States : s # origin /\ \A r \in Requests : req[r].state # s}

-----------------------------------------------------------------------------
\* stateFor: the map's entry, or a new object whose counter and queue are empty.
StateFor == IF origin # NoState THEN {origin} ELSE Unreferenced

Init ==
  /\ origin = NoState
  /\ active = [s \in States |-> 0]
  /\ queue = [s \in States |-> <<>>]
  /\ req = [r \in Requests |-> Idle]

\* acquire with a free slot.
AcquireNow(r) ==
  /\ req[r] = Idle
  /\ \E s \in StateFor :
       /\ active[s] < MaxPoolSize
       /\ origin' = s
       /\ active' = [active EXCEPT ![s] = @ + 1]
       /\ req' = [req EXCEPT ![r] = [pc |-> "active", state |-> s]]
  /\ UNCHANGED queue

\* acquire with every slot taken: wait on a promise in the queue.
AcquireWait(r) ==
  /\ req[r] = Idle
  /\ \E s \in StateFor :
       /\ active[s] >= MaxPoolSize
       /\ origin' = s
       /\ queue' = [queue EXCEPT ![s] = Append(@, r)]
       /\ req' = [req EXCEPT ![r] = [pc |-> "queued", state |-> s]]
  /\ UNCHANGED active

Acquire(r) == AcquireNow(r) \/ AcquireWait(r)

\* Mutant: the waiter is taken to have inherited the count of the releaser.
ResumeUncounted(r) ==
  /\ req[r].pc = "granted"
  /\ req' = [req EXCEPT ![r].pc = "active"]
  /\ UNCHANGED <<origin, active, queue>>

\* The continuation of the awaited promise: count the request and go on.
Resume(r) ==
  /\ req[r].pc = "granted"
  /\ active' = [active EXCEPT ![req[r].state] = @ + 1]
  /\ req' = [req EXCEPT ![r] = [pc |-> "active", state |-> @.state]]
  /\ UNCHANGED <<origin, queue>>

\* Mutant: a release in both the catch and the finally block.
DecrementedTwice(n) == n - 2

Decremented(n) == IF n > 0 THEN n - 1 ELSE 0

\* Mutant: the slot is freed but nobody is told.
ReleaseUnannounced(r) ==
  /\ req[r].pc = "active"
  /\ active' = [active EXCEPT ![req[r].state] = @ - 1]
  /\ req' = [req EXCEPT ![r] = Idle]
  /\ UNCHANGED <<origin, queue>>

\* Mutant: queue.pop() for queue.shift().
ReleaseNewest(r) ==
  LET s == req[r].state
      n == Len(queue[s])
  IN  /\ req[r].pc = "active"
      /\ active' = [active EXCEPT ![s] = @ - 1]
      /\ IF n = 0
         THEN /\ req' = [req EXCEPT ![r] = Idle]
              /\ UNCHANGED queue
         ELSE /\ req' = [req EXCEPT ![r] = Idle, ![queue[s][n]].pc = "granted"]
              /\ queue' = [queue EXCEPT ![s] = SubSeq(@, 1, n - 1)]
      /\ UNCHANGED origin

\* release: the finally block of fetch, whatever the request's fate.
Release(r) ==
  LET s == req[r].state
  IN  /\ req[r].pc = "active"
      /\ active' = [active EXCEPT ![s] = Decremented(@)]
      /\ IF queue[s] = <<>>
         THEN /\ req' = [req EXCEPT ![r] = Idle]
              /\ UNCHANGED queue
         ELSE /\ req' = [[req EXCEPT ![r] = Idle]
                            EXCEPT ![Head(queue[s])] = [pc |-> "granted", state |-> s]]
              /\ queue' = [queue EXCEPT ![s] = Tail(@)]
      /\ UNCHANGED origin

\* No continuation is due: the event loop runs timers only then.
Drained == \A r \in Requests : req[r].pc # "granted"

\* The keep-alive timer of an entry left without active requests.
IdleExpire ==
  /\ origin # NoState
  /\ active[origin] = 0
  /\ Drained
  /\ origin' = NoState
  /\ UNCHANGED <<active, queue, req>>

\* close(): forgets every entry; requests under way keep their objects.
Close ==
  /\ origin # NoState
  /\ Unreferenced # {}     \* bound on the objects alive at once
  /\ origin' = NoState
  /\ UNCHANGED <<active, queue, req>>

Next ==
  \/ \E r \in Requests : Acquire(r) \/ Resume(r) \/ Release(r)
  \/ IdleExpire
  \/ Close

SafetySpec == Init /\ [][Next]_vars

\* Promises are continued, and a request ends: fetch aborts it after
\* socketTimeoutMs at the latest.
Spec == SafetySpec /\ \A r \in Requests : WF_vars(Resume(r)) /\ WF_vars(Release(r))

-----------------------------------------------------------------------------
\* The counter of an object is the number of its requests under way, so the
\* Math.max of release never hides a decrement too many, and an object that
\* nothing refers to is as good as new.
ActiveCounts == \A s \in States : active[s] = Cardinality(At("active", s))

\* A request waits only while the slots are taken by requests that will release
\* them: every release hands its slot on, so no waiter is forgotten with slots
\* free, not even in an object close() or the idle timer dropped from the map.
NoSlotIdleWhileQueued ==
  \A s \in States :
    queue[s] # <<>> => active[s] + Cardinality(At("granted", s)) >= MaxPoolSize

\* The queue holds exactly the waiting requests of its object, each once.
Waiting(q)  == {q[i] : i \in DOMAIN q}
Distinct(q) == \A i, j \in DOMAIN q : q[i] = q[j] => i = j

QueueHoldsWaiters ==
  \A s \in States : Waiting(queue[s]) = At("queued", s) /\ Distinct(queue[s])

\* Waiting ends: nobody is overtaken for ever by callers that keep coming back.
EveryWaiterIsServed ==
  \A r \in Requests : req[r].pc = "queued" ~> req[r].pc = "active"

\* connectionPool.ts: "Maximum concurrent requests per origin."
WithinPoolSize == \A s \in States : active[s] <= MaxPoolSize
-----------------------------------------------------------------------------
(***************************************************************************)
(* Proofs, for any number of requests, pool size and supply of OriginState *)
(* objects.                                                                *)
(*                                                                         *)
(* That no slot idles while somebody queues is not inductive alone: it     *)
(* needs that the counter of an object is the number of its requests under *)
(* way, so that a release really lowers it by one, and that its queue      *)
(* holds each of its waiting requests exactly once, so that the request    *)
(* which release() takes from the queue turns from waiting into granted.   *)
(***************************************************************************)
\* Joining a queue one is not in.
LEMMA Joined ==
  ASSUME NEW q \in Seq(Requests), NEW r \in Requests, r \notin Waiting(q), Distinct(q)
  PROVE  /\ Append(q, r) \in Seq(Requests)
         /\ Append(q, r) # <<>>
         /\ Waiting(Append(q, r)) = Waiting(q) \cup {r}
         /\ Distinct(Append(q, r))
<1>1. /\ Append(q, r) \in Seq(Requests)
      /\ Len(Append(q, r)) = Len(q) + 1
      /\ DOMAIN Append(q, r) = 1..(Len(q) + 1)
      /\ DOMAIN q = 1..Len(q)
      /\ Len(q) \in Nat
  OBVIOUS
<1>2. \A i \in 1..Len(q) : Append(q, r)[i] = q[i]
  OBVIOUS
<1>3. Append(q, r)[Len(q) + 1] = r
  OBVIOUS
<1>4. \A i \in 1..(Len(q) + 1) : i \in 1..Len(q) \/ i = Len(q) + 1
  BY <1>1
<1>5. Waiting(Append(q, r)) = Waiting(q) \cup {r}
  BY <1>1, <1>2, <1>3, <1>4 DEF Waiting
<1>6. Distinct(Append(q, r))
  BY <1>1, <1>2, <1>3, <1>4 DEF Distinct, Waiting
<1>7. QED BY <1>1, <1>5, <1>6

\* Taking the first of a queue.
LEMMA Served ==
  ASSUME NEW q \in Seq(Requests), q # <<>>, Distinct(q)
  PROVE  /\ Head(q) \in Waiting(q)
         /\ Head(q) \in Requests
         /\ Tail(q) \in Seq(Requests)
         /\ Waiting(Tail(q)) = Waiting(q) \ {Head(q)}
         /\ Distinct(Tail(q))
<1>1. /\ Tail(q) \in Seq(Requests)
      /\ Len(q) \in Nat \ {0}
      /\ DOMAIN q = 1..Len(q)
      /\ DOMAIN Tail(q) = 1..(Len(q) - 1)
      /\ Head(q) = q[1]
      /\ q[1] \in Requests
  OBVIOUS
<1>2. \A i \in 1..(Len(q) - 1) : Tail(q)[i] = q[i + 1]
  OBVIOUS
<1>3. \A i \in 1..Len(q) : i = 1 \/ i - 1 \in 1..(Len(q) - 1)
  BY <1>1
<1>4. \A i \in 1..(Len(q) - 1) : i + 1 \in 1..Len(q) /\ i + 1 # 1
  BY <1>1
<1>5. Waiting(Tail(q)) = Waiting(q) \ {Head(q)}
  <2>1. ASSUME NEW x \in Waiting(Tail(q)) PROVE x \in Waiting(q) \ {Head(q)}
    <3>1. PICK i \in 1..(Len(q) - 1) : x = q[i + 1]
      BY <1>1, <1>2 DEF Waiting
    <3>2. QED BY <1>1, <1>4, <3>1 DEF Waiting, Distinct
  <2>2. ASSUME NEW x \in Waiting(q) \ {Head(q)} PROVE x \in Waiting(Tail(q))
    <3>1. PICK i \in 1..Len(q) : x = q[i] /\ i # 1
      BY <1>1 DEF Waiting
    <3>2. i - 1 \in 1..(Len(q) - 1) /\ (i - 1) + 1 = i
      BY <1>1, <1>3, <3>1
    <3>3. Tail(q)[i - 1] = x
      BY <1>2, <3>1, <3>2
    <3>4. QED BY <1>1, <3>2, <3>3 DEF Waiting
  <2>3. QED BY <2>1, <2>2
<1>6. Distinct(Tail(q))
  BY <1>1, <1>2, <1>4 DEF Distinct
<1>7. Head(q) \in Waiting(q)
  <2>1. 1 \in DOMAIN q /\ Head(q) = q[1]
    BY <1>1
  <2>2. QED BY <2>1 DEF Waiting
<1>8. QED BY <1>1, <1>5, <1>6, <1>7

\* The sets that are counted are finite.
LEMMA Counted ==
  ASSUME NEW pc, NEW s
  PROVE  IsFiniteSet(At(pc, s)) /\ Cardinality(At(pc, s)) \in Nat
<1>1. At(pc, s) \subseteq Requests
  BY DEF At
<1>2. QED BY <1>1, PoolAssumption, FS_Subset, FS_CardinalityType

-----------------------------------------------------------------------------
PoolInv == TypeOK /\ ActiveCounts /\ QueueHoldsWaiters /\ NoSlotIdleWhileQueued

\* A new pool has no entry, no counter above zero and empty queues.
LEMMA InitInv == Init => PoolInv
<1> SUFFICES ASSUME Init PROVE PoolInv
  OBVIOUS
<1>1. TypeOK
  BY DEF Init, TypeOK, Idle
<1>2. \A pc \in {"queued", "granted", "active"}, s \in States : At(pc, s) = {}
  BY DEF Init, At, Idle
<1>3. ActiveCounts
  BY <1>2, FS_EmptySet DEF Init, ActiveCounts
<1>4. QueueHoldsWaiters
  BY <1>2 DEF Init, QueueHoldsWaiters, Waiting, Distinct
<1>5. NoSlotIdleWhileQueued
  BY DEF Init, NoSlotIdleWhileQueued
<1>6. QED BY <1>1, <1>3, <1>4, <1>5 DEF PoolInv

\* The object a request finds: that of the map or a fresh one.
LEMMA StateForState ==
  ASSUME TypeOK PROVE StateFor \subseteq States
BY DEF TypeOK, StateFor, Unreferenced

\* acquire() with a slot free: one more request under way, one more counted.
LEMMA AcquireNowInv ==
  ASSUME PoolInv, NEW r \in Requests, AcquireNow(r) PROVE PoolInv'
<1>1. PICK s \in States :
        /\ active[s] < MaxPoolSize
        /\ origin' = s
        /\ active' = [active EXCEPT ![s] = @ + 1]
        /\ req' = [req EXCEPT ![r] = [pc |-> "active", state |-> s]]
  BY StateForState DEF PoolInv, AcquireNow
<1>2. queue' = queue /\ req[r] = Idle
  BY DEF AcquireNow
<1>t. TypeOK
  BY DEF PoolInv
<1>3. TypeOK'
  BY <1>1, <1>2, <1>t DEF TypeOK
<1>4. \A t \in States : /\ At("queued", t)' = At("queued", t)
                        /\ At("granted", t)' = At("granted", t)
                        /\ t # s => At("active", t)' = At("active", t)
  BY <1>1, <1>2, <1>t DEF TypeOK, At, Idle
<1>5. At("active", s)' = At("active", s) \cup {r} /\ r \notin At("active", s)
  BY <1>1, <1>2, <1>t DEF TypeOK, At, Idle
<1>6. ActiveCounts'
  <2>1. Cardinality(At("active", s)') = Cardinality(At("active", s)) + 1
    BY <1>5, Counted, FS_AddElement
  <2>2. QED BY <1>1, <1>4, <1>t, <2>1 DEF PoolInv, TypeOK, ActiveCounts
<1>7. QueueHoldsWaiters'
  BY <1>2, <1>4 DEF PoolInv, QueueHoldsWaiters
<1>8. NoSlotIdleWhileQueued'
  BY <1>1, <1>2, <1>4, <1>t, Counted, PoolAssumption DEF PoolInv, TypeOK, NoSlotIdleWhileQueued
<1>9. QED BY <1>3, <1>6, <1>7, <1>8 DEF PoolInv

\* acquire() without one: the request joins the queue it waits in, once.
LEMMA AcquireWaitInv ==
  ASSUME PoolInv, NEW r \in Requests, AcquireWait(r) PROVE PoolInv'
<1>1. PICK s \in States :
        /\ active[s] >= MaxPoolSize
        /\ origin' = s
        /\ queue' = [queue EXCEPT ![s] = Append(@, r)]
        /\ req' = [req EXCEPT ![r] = [pc |-> "queued", state |-> s]]
  BY StateForState DEF PoolInv, AcquireWait
<1>2. active' = active /\ req[r] = Idle
  BY DEF AcquireWait
<1>t. TypeOK
  BY DEF PoolInv
<1>4. \A t \in States : /\ At("active", t)' = At("active", t)
                        /\ At("granted", t)' = At("granted", t)
                        /\ t # s => At("queued", t)' = At("queued", t)
  BY <1>1, <1>2, <1>t DEF TypeOK, At, Idle
<1>5. At("queued", s)' = At("queued", s) \cup {r} /\ r \notin At("queued", s)
  BY <1>1, <1>2, <1>t DEF TypeOK, At, Idle
<1>q. queue[s] \in Seq(Requests) /\ r \notin Waiting(queue[s]) /\ Distinct(queue[s])
  BY <1>5, <1>t DEF PoolInv, TypeOK, QueueHoldsWaiters
<1>a. /\ queue'[s] = Append(queue[s], r)
      /\ \A t \in States : t # s => queue'[t] = queue[t]
  BY <1>1, <1>t DEF TypeOK
<1>3. TypeOK'
  <2>1. queue' \in [States -> Seq(Requests)]
    BY <1>1, <1>q, <1>t, Joined DEF TypeOK
  <2>2. QED BY <1>1, <1>2, <1>t, <2>1 DEF TypeOK
<1>6. ActiveCounts'
  BY <1>2, <1>4 DEF PoolInv, ActiveCounts
<1>7. QueueHoldsWaiters'
  <2>1. Waiting(queue'[s]) = At("queued", s)' /\ Distinct(queue'[s])
    BY <1>5, <1>q, <1>a, Joined DEF PoolInv, QueueHoldsWaiters
  <2>2. \A t \in States : t # s => Waiting(queue'[t]) = At("queued", t)' /\ Distinct(queue'[t])
    BY <1>4, <1>a DEF PoolInv, QueueHoldsWaiters
  <2>3. QED BY <2>1, <2>2 DEF QueueHoldsWaiters
<1>8. NoSlotIdleWhileQueued'
  BY <1>1, <1>2, <1>4, <1>a, <1>t, Counted, PoolAssumption
  DEF PoolInv, TypeOK, NoSlotIdleWhileQueued
<1>9. QED BY <1>3, <1>6, <1>7, <1>8 DEF PoolInv

\* The continuation of a waiter counts the request whose slot was announced.
LEMMA ResumeInv ==
  ASSUME PoolInv, NEW r \in Requests, Resume(r) PROVE PoolInv'
<1>t. TypeOK
  BY DEF PoolInv
<1>1. PICK s \in States : req[r] = [pc |-> "granted", state |-> s]
  BY <1>t DEF Resume, TypeOK, Idle
<1>2. /\ active' = [active EXCEPT ![s] = @ + 1]
      /\ req' = [req EXCEPT ![r] = [pc |-> "active", state |-> s]]
      /\ origin' = origin /\ queue' = queue
  BY <1>1 DEF Resume
<1>3. TypeOK'
  BY <1>1, <1>2, <1>t DEF TypeOK
<1>4. \A t \in States : /\ At("queued", t)' = At("queued", t)
                        /\ t # s => /\ At("active", t)' = At("active", t)
                                    /\ At("granted", t)' = At("granted", t)
  BY <1>1, <1>2, <1>t DEF TypeOK, At, Idle
<1>5. /\ At("active", s)' = At("active", s) \cup {r} /\ r \notin At("active", s)
      /\ At("granted", s)' = At("granted", s) \ {r} /\ r \in At("granted", s)
  BY <1>1, <1>2, <1>t DEF TypeOK, At, Idle
<1>c. /\ Cardinality(At("active", s)') = Cardinality(At("active", s)) + 1
      /\ Cardinality(At("granted", s)') = Cardinality(At("granted", s)) - 1
  BY <1>5, Counted, FS_AddElement, FS_RemoveElement
<1>6. ActiveCounts'
  BY <1>1, <1>2, <1>4, <1>t, <1>c DEF PoolInv, TypeOK, ActiveCounts
<1>7. QueueHoldsWaiters'
  BY <1>2, <1>4 DEF PoolInv, QueueHoldsWaiters
<1>8. NoSlotIdleWhileQueued'
  <2>1. ASSUME NEW t \in States
        PROVE  /\ queue'[t] = queue[t]
               /\ active'[t] + Cardinality(At("granted", t)') = active[t] + Cardinality(At("granted", t))
    <3>1. /\ active[t] \in Nat /\ active'[t] = IF t = s THEN active[t] + 1 ELSE active[t]
          /\ Cardinality(At("granted", t)) \in Nat
      BY <1>2, <1>t, Counted DEF TypeOK
    <3>2. CASE t = s
      BY <1>2, <1>c, <3>1, <3>2
    <3>3. CASE t # s
      BY <1>2, <1>4, <3>1, <3>3
    <3>4. QED BY <3>2, <3>3
  <2>2. QED BY <2>1 DEF PoolInv, NoSlotIdleWhileQueued
<1>9. QED BY <1>3, <1>6, <1>7, <1>8 DEF PoolInv

\* release() with a queue: the slot's holder leaves, the first waiter is told.
LEMMA HandOverInv ==
  ASSUME PoolInv, NEW r \in Requests, Release(r), NEW s \in States,
         req[r] = [pc |-> "active", state |-> s], queue[s] # <<>>
  PROVE  PoolInv'
<1>t. TypeOK
  BY DEF PoolInv
<1> DEFINE h == Head(queue[s])
<1>q. /\ h \in Requests
      /\ req[h] = [pc |-> "queued", state |-> s]
      /\ Tail(queue[s]) \in Seq(Requests)
      /\ Waiting(Tail(queue[s])) = Waiting(queue[s]) \ {h}
      /\ Distinct(Tail(queue[s]))
  <2>1. queue[s] \in Seq(Requests) /\ Distinct(queue[s]) /\ Waiting(queue[s]) = At("queued", s)
    BY <1>t DEF PoolInv, TypeOK, QueueHoldsWaiters
  <2>2. QED BY <2>1, Served DEF At
<1>1. h # r
  BY <1>q
<1>2. /\ active' = [active EXCEPT ![s] = Decremented(@)]
      /\ req' = [[req EXCEPT ![r] = Idle] EXCEPT ![h] = [pc |-> "granted", state |-> s]]
      /\ queue' = [queue EXCEPT ![s] = Tail(@)]
      /\ origin' = origin
  BY DEF Release
<1>a. /\ queue'[s] = Tail(queue[s])
      /\ \A u \in States : u # s => queue'[u] = queue[u]
  BY <1>2, <1>t DEF TypeOK
<1>4. \A u \in States : u # s => /\ At("queued", u)' = At("queued", u)
                                 /\ At("active", u)' = At("active", u)
                                 /\ At("granted", u)' = At("granted", u)
  BY <1>q, <1>1, <1>2, <1>t DEF TypeOK, At, Idle
<1>5. /\ At("active", s)' = At("active", s) \ {r} /\ r \in At("active", s)
      /\ At("queued", s)' = At("queued", s) \ {h}
      /\ At("granted", s)' = At("granted", s) \cup {h} /\ h \notin At("granted", s)
  BY <1>q, <1>1, <1>2, <1>t DEF TypeOK, At, Idle
<1>c. /\ Cardinality(At("active", s)') = Cardinality(At("active", s)) - 1
      /\ Cardinality(At("granted", s)') = Cardinality(At("granted", s)) + 1
      /\ Cardinality(At("active", s)) # 0
  <2>1. Cardinality(At("active", s)') = Cardinality(At("active", s)) - 1
    BY <1>5, Counted, FS_RemoveElement
  <2>2. Cardinality(At("granted", s)') = Cardinality(At("granted", s)) + 1
    BY <1>5, Counted, FS_AddElement
  <2>3. Cardinality(At("active", s)) # 0
    BY <1>5, Counted, FS_EmptySet
  <2>4. QED BY <2>1, <2>2, <2>3
<1>d. active'[s] = active[s] - 1 /\ active[s] \in Nat \ {0}
  BY <1>2, <1>c, <1>t DEF PoolInv, TypeOK, ActiveCounts, Decremented
<1>3. TypeOK'
  <2>1. queue' \in [States -> Seq(Requests)]
    BY <1>2, <1>q, <1>t DEF TypeOK
  <2>2. active' \in [States -> Nat]
    BY <1>2, <1>t DEF TypeOK, Decremented
  <2>3. req' \in [Requests -> {Idle} \cup
                    [pc: {"queued", "granted", "active"}, state: States]]
    BY <1>2, <1>q, <1>t DEF TypeOK
  <2>4. QED BY <1>2, <1>t, <2>1, <2>2, <2>3 DEF TypeOK
<1>6. ActiveCounts'
  BY <1>2, <1>4, <1>t, <1>c, <1>d DEF PoolInv, TypeOK, ActiveCounts
<1>7. QueueHoldsWaiters'
  <2>1. Waiting(queue'[s]) = At("queued", s)' /\ Distinct(queue'[s])
    BY <1>5, <1>q, <1>a DEF PoolInv, QueueHoldsWaiters
  <2>2. \A u \in States : u # s => Waiting(queue'[u]) = At("queued", u)' /\ Distinct(queue'[u])
    BY <1>4, <1>a DEF PoolInv, QueueHoldsWaiters
  <2>3. QED BY <2>1, <2>2 DEF QueueHoldsWaiters
<1>8. NoSlotIdleWhileQueued'
  <2>1. active'[s] + Cardinality(At("granted", s)') >= MaxPoolSize
    BY <1>c, <1>d, Counted, PoolAssumption DEF PoolInv, NoSlotIdleWhileQueued
  <2>2. \A u \in States : u # s => active'[u] = active[u]
    BY <1>2, <1>t DEF TypeOK
  <2>3. QED BY <1>4, <1>a, <2>1, <2>2 DEF PoolInv, NoSlotIdleWhileQueued
<1>9. QED BY <1>3, <1>6, <1>7, <1>8 DEF PoolInv

\* release() without a queue.
LEMMA FreeInv ==
  ASSUME PoolInv, NEW r \in Requests, Release(r), NEW s \in States,
         req[r] = [pc |-> "active", state |-> s], queue[s] = <<>>
  PROVE  PoolInv'
<1>t. TypeOK
  BY DEF PoolInv
<1>2. /\ active' = [active EXCEPT ![s] = Decremented(@)]
      /\ req' = [req EXCEPT ![r] = Idle]
      /\ queue' = queue /\ origin' = origin
  BY DEF Release
<1>4. \A u \in States : /\ At("queued", u)' = At("queued", u)
                        /\ At("granted", u)' = At("granted", u)
                        /\ u # s => At("active", u)' = At("active", u)
  BY <1>2, <1>t DEF TypeOK, At, Idle
<1>5. At("active", s)' = At("active", s) \ {r} /\ r \in At("active", s)
  BY <1>2, <1>t DEF TypeOK, At, Idle
<1>c. /\ Cardinality(At("active", s)') = Cardinality(At("active", s)) - 1
      /\ Cardinality(At("active", s)) # 0
  BY <1>5, Counted, FS_RemoveElement, FS_EmptySet
<1>3. TypeOK'
  BY <1>2, <1>t DEF TypeOK, Decremented
<1>6. ActiveCounts'
  <2>1. active'[s] = active[s] - 1
    BY <1>2, <1>c, <1>t DEF PoolInv, TypeOK, ActiveCounts, Decremented
  <2>2. QED BY <1>2, <1>4, <1>t, <1>c, <2>1 DEF PoolInv, TypeOK, ActiveCounts
<1>7. QueueHoldsWaiters'
  BY <1>2, <1>4 DEF PoolInv, QueueHoldsWaiters
<1>8. NoSlotIdleWhileQueued'
  <2>1. \A u \in States : u # s => active'[u] = active[u]
    BY <1>2, <1>t DEF TypeOK
  <2>2. QED BY <1>2, <1>4, <2>1 DEF PoolInv, NoSlotIdleWhileQueued
<1>9. QED BY <1>3, <1>6, <1>7, <1>8 DEF PoolInv

\* No step of a request, of close() or of the idle timer breaks the invariant.
LEMMA NextInv == PoolInv /\ [Next]_vars => PoolInv'
<1> SUFFICES ASSUME PoolInv, [Next]_vars PROVE PoolInv'
  OBVIOUS
<1>1. ASSUME NEW r \in Requests, Acquire(r) PROVE PoolInv'
  BY <1>1, AcquireNowInv, AcquireWaitInv DEF Acquire
<1>2. ASSUME NEW r \in Requests, Resume(r) PROVE PoolInv'
  BY <1>2, ResumeInv
<1>3. ASSUME NEW r \in Requests, Release(r) PROVE PoolInv'
  <2>1. PICK s \in States : req[r] = [pc |-> "active", state |-> s]
    <3>1. req[r].pc = "active"
      BY <1>3 DEF Release
    <3>2. QED BY <3>1 DEF PoolInv, TypeOK, Idle
  <2>2. QED BY <1>3, <2>1, HandOverInv, FreeInv
<1>4. ASSUME IdleExpire \/ Close PROVE PoolInv'
  <2>1. origin' = NoState /\ active' = active /\ queue' = queue /\ req' = req
    BY <1>4 DEF IdleExpire, Close
  <2>2. QED BY <2>1 DEF PoolInv, TypeOK, ActiveCounts, QueueHoldsWaiters,
                      NoSlotIdleWhileQueued, At
<1>5. CASE UNCHANGED vars
  BY <1>5
  DEF vars, PoolInv, TypeOK, ActiveCounts, QueueHoldsWaiters, NoSlotIdleWhileQueued, At
<1>6. QED BY <1>1, <1>2, <1>3, <1>4, <1>5 DEF Next

-----------------------------------------------------------------------------
\* The invariant holds in every reachable state.
LEMMA PoolCorrect == SafetySpec => []PoolInv
BY InitInv, NextInv, PTL DEF SafetySpec

\* Entries, counters, queues and requests stay well-formed.
THEOREM TypeCorrect == SafetySpec => []TypeOK
<1>1. PoolInv => TypeOK
  BY DEF PoolInv
<1>2. QED BY <1>1, PoolCorrect, PTL

\* The counter of an object is the number of its requests under way.
THEOREM CountersAreExact == SafetySpec => []ActiveCounts
<1>1. PoolInv => ActiveCounts
  BY DEF PoolInv
<1>2. QED BY <1>1, PoolCorrect, PTL

\* Nobody waits in a queue while a slot is free and promised to nobody, however
\* releases, newcomers, close() and the idle timer interleave.
THEOREM SlotsAreHandedOn == SafetySpec => []NoSlotIdleWhileQueued
<1>1. PoolInv => NoSlotIdleWhileQueued
  BY DEF PoolInv
<1>2. QED BY <1>1, PoolCorrect, PTL
=============================================================================
