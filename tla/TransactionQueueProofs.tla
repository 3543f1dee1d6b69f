----------------------- MODULE TransactionQueueProofs -----------------------
(***************************************************************************)
(* Proofs about TransactionQueue, for any ids, priorities, number of       *)
(* batches in flight, batch and queue size, and retry limit above zero.    *)
(*                                                                         *)
(* How often an entry was submitted is bounded by its retry count, but not *)
(* step by step: a transaction may be reported failed twice for one        *)
(* submission, or again after it went back to pending.  What is inductive  *)
(* is that a pending entry was submitted retryCount times at most and may  *)
(* still be retried, and any other entry once more at most.                *)
(***************************************************************************)
EXTENDS TransactionQueue, FiniteSetTheorems, TLAPS

Table  == [Ids -> Entry \cup {None}]
Counts == [Ids -> Nat]

\* An entry and the number of its submissions.
InBudget(entry, n) ==
  /\ n <= MaxRetries
  /\ entry.status = "pending" => n <= entry.retryCount /\ entry.retryCount < MaxRetries
  /\ entry.retryCount < MaxRetries => n <= entry.retryCount + 1

BudgetInv ==
  /\ queue \in Table
  /\ dispatched \in Counts
  /\ \A id \in Ids : IF Queued(id) THEN InBudget(queue[id], dispatched[id])
                                   ELSE dispatched[id] = 0

\* Completing an entry uses up no submission.
LEMMA CompletedInBudget ==
  ASSUME NEW entry \in Entry, NEW n \in Nat, InBudget(entry, n)
  PROVE  Completed(entry) \in Entry /\ InBudget(Completed(entry), n)
BY DEF Entry, Statuses, Completed, InBudget

\* Counting a failure never allows a submission too many, whichever status the
\* entry had: the count goes up by one, or the entry has failed for good.
LEMMA FailedInBudget ==
  ASSUME NEW entry \in Entry, NEW n \in Nat, InBudget(entry, n)
  PROVE  Failed(entry) \in Entry /\ InBudget(Failed(entry), n)
<1>1. entry.retryCount \in 0..MaxRetries /\ MaxRetries \in Nat \ {0}
  BY QueueAssumption DEF Entry
<1>2. Failed(entry) \in Entry
  BY <1>1 DEF Entry, Statuses, Failed
<1>3. InBudget(Failed(entry), n)
  BY <1>1 DEF Failed, InBudget
<1>4. QED BY <1>2, <1>3

\* Submitting a pending entry uses up the submission its retry count leaves it.
LEMMA DispatchedInBudget ==
  ASSUME NEW entry \in Entry, NEW n \in Nat, InBudget(entry, n), entry.status = "pending"
  PROVE  /\ [entry EXCEPT !.status = "processing"] \in Entry
         /\ InBudget([entry EXCEPT !.status = "processing"], n + 1)
<1>1. entry.retryCount \in 0..MaxRetries /\ MaxRetries \in Nat \ {0}
  BY QueueAssumption DEF Entry
<1>2. QED BY <1>1 DEF Entry, Statuses, InBudget

\* Queued entries are entries.
LEMMA QueuedEntry ==
  ASSUME queue \in Table, NEW id \in Ids, Queued(id) PROVE queue[id] \in Entry
BY DEF Table, Queued

\* The sentinel is none of the entries.
LEMMA EntryQueued ==
  ASSUME NEW entry \in Entry PROVE entry # None
BY NoneIsNoEntry

-----------------------------------------------------------------------------
\* An empty queue has submitted nothing.
LEMMA InitInv == Init => BudgetInv
BY DEF Init, BudgetInv, Table, Counts, Queued

\* A fresh entry has no retries and no submissions behind it.
LEMMA EnqueueInv ==
  ASSUME BudgetInv, NEW id \in Ids, NEW level \in LevelsOf[id],
         NEW dependsOn \in SUBSET (Ids \ {id}), Enqueue(id, level, dependsOn)
  PROVE  BudgetInv'
<1> DEFINE entry == [status |-> "pending", level |-> level,
                     dependsOn |-> dependsOn, retryCount |-> 0]
<1>1. entry \in Entry
  BY QueueAssumption DEF Entry, Statuses
<1>2. queue' = [queue EXCEPT ![id] = entry] /\ dispatched' = dispatched /\ dispatched[id] = 0
  BY DEF Enqueue, BudgetInv
<1>3. InBudget(entry, 0)
  BY QueueAssumption DEF InBudget
<1> HIDE DEF entry
<1>4. QED BY <1>1, <1>2, <1>3, EntryQueued DEF BudgetInv, Table, Counts, Queued

\* cancel() and clear() forget entries together with their submissions.
LEMMA DropInv ==
  ASSUME BudgetInv, NEW ids, Drop(ids) PROVE BudgetInv'
BY DEF BudgetInv, Drop, Table, Counts, Queued

\* A single report keeps the budget, whatever status it finds.
LEMMA MarkInv ==
  ASSUME BudgetInv, NEW f \in Flights, NEW id \in Ids,
         MarkCompleted(f, id) \/ MarkFailed(f, id)
  PROVE  BudgetInv'
<1>1. queue[id] \in Entry /\ InBudget(queue[id], dispatched[id]) /\ dispatched[id] \in Nat
  BY QueuedEntry DEF BudgetInv, Counts, MarkCompleted, MarkFailed
<1>2. PICK entry \in Entry : /\ queue' = [queue EXCEPT ![id] = entry]
                             /\ InBudget(entry, dispatched[id])
  BY <1>1, CompletedInBudget, FailedInBudget DEF BudgetInv, MarkCompleted, MarkFailed
<1>3. dispatched' = dispatched
  BY DEF MarkCompleted, MarkFailed
<1>4. QED BY <1>1, <1>2, <1>3, EntryQueued DEF BudgetInv, Table, Counts, Queued

\* A batch takes pending entries only, each of which may be submitted again.
LEMMA DispatchInv ==
  ASSUME BudgetInv, NEW f \in Flights, Dispatch(f) PROVE BudgetInv'
<1>1. \A id \in NextBatch : /\ id \in Ids /\ Queued(id) /\ queue[id] \in Entry
                            /\ queue[id].status = "pending"
  BY QueuedEntry DEF BudgetInv, NextBatch, Ready, Status
<1>2. ASSUME NEW id \in Ids
      PROVE  /\ queue'[id] \in Entry \cup {None}
             /\ dispatched'[id] \in Nat
             /\ IF Queued(id)' THEN InBudget(queue'[id], dispatched'[id])
                               ELSE dispatched'[id] = 0
  <2>1. CASE id \in NextBatch
    <3>1. /\ queue'[id] = [queue[id] EXCEPT !.status = "processing"]
          /\ dispatched'[id] = dispatched[id] + 1
          /\ dispatched[id] \in Nat
      BY <2>1 DEF Dispatch, BudgetInv, Counts
    <3>2. InBudget(queue[id], dispatched[id])
      BY <1>1, <2>1 DEF BudgetInv
    <3>3. queue'[id] \in Entry /\ InBudget(queue'[id], dispatched'[id])
      BY <1>1, <2>1, <3>1, <3>2, DispatchedInBudget
    <3>4. QED BY <3>1, <3>3, EntryQueued DEF Queued
  <2>2. CASE id \notin NextBatch
    <3>1. queue'[id] = queue[id] /\ dispatched'[id] = dispatched[id]
      BY <2>2 DEF Dispatch, BudgetInv, Counts
    <3>2. QED BY <3>1 DEF BudgetInv, Table, Counts, Queued
  <2>3. QED BY <2>1, <2>2
<1>3. queue' \in Table /\ dispatched' \in Counts
  BY <1>2 DEF Dispatch, Table, Counts
<1>4. QED BY <1>2, <1>3 DEF BudgetInv

\* A rejected batch counts a failure for every transaction it still finds.
LEMMA RejectInv ==
  ASSUME BudgetInv, NEW f \in Flights, Reject(f) PROVE BudgetInv'
<1>1. ASSUME NEW id \in Ids
      PROVE  /\ queue'[id] \in Entry \cup {None}
             /\ IF Queued(id)' THEN InBudget(queue'[id], dispatched'[id])
                               ELSE dispatched'[id] = 0
  <2>1. CASE id \in flight[f] /\ Queued(id)
    <3>1. queue'[id] = Failed(queue[id]) /\ dispatched'[id] = dispatched[id]
      BY <2>1 DEF Reject
    <3>2. queue'[id] \in Entry /\ InBudget(queue'[id], dispatched'[id])
      BY <2>1, <3>1, QueuedEntry, FailedInBudget DEF BudgetInv, Counts
    <3>3. QED BY <3>2, EntryQueued DEF Queued
  <2>2. CASE ~(id \in flight[f] /\ Queued(id))
    <3>1. queue'[id] = queue[id] /\ dispatched'[id] = dispatched[id]
      BY <2>2 DEF Reject
    <3>2. QED BY <3>1 DEF BudgetInv, Table, Queued
  <2>3. QED BY <2>1, <2>2
<1>2. queue' \in Table /\ dispatched' \in Counts
  BY <1>1 DEF Reject, Table, Counts, BudgetInv
<1>3. QED BY <1>1, <1>2 DEF BudgetInv

\* No step of the application, a batch or the timer breaks the budget.
LEMMA NextInv == BudgetInv /\ [Next]_vars => BudgetInv'
<1> SUFFICES ASSUME BudgetInv, [Next]_vars PROVE BudgetInv'
  OBVIOUS
<1>1. CASE Enqueues
  BY <1>1, EnqueueInv DEF Enqueues
<1>2. ASSUME NEW id \in Ids, Cancel(id) PROVE BudgetInv'
  BY <1>2, DropInv DEF Cancel
<1>3. ASSUME NEW statuses, Clear(statuses) PROVE BudgetInv'
  BY <1>3, DropInv DEF Clear
<1>4. ASSUME NEW f \in Flights, NEW id \in Ids, MarkCompleted(f, id) \/ MarkFailed(f, id)
      PROVE  BudgetInv'
  BY <1>4, MarkInv
<1>5. ASSUME NEW f \in Flights, Dispatch(f) PROVE BudgetInv'
  BY <1>5, DispatchInv
<1>6. ASSUME NEW f \in Flights, Resolve(f) PROVE BudgetInv'
  BY <1>6 DEF Resolve, BudgetInv, Queued
<1>7. ASSUME NEW f \in Flights, Reject(f) PROVE BudgetInv'
  BY <1>7, RejectInv
<1>8. CASE UNCHANGED vars
  BY <1>8 DEF vars, BudgetInv, Queued
<1>9. QED BY <1>1, <1>2, <1>3, <1>4, <1>5, <1>6, <1>7, <1>8 DEF Next

\* The budget holds in every reachable state.
LEMMA BudgetCorrect == SafetySpec => []BudgetInv
BY InitInv, NextInv, PTL DEF SafetySpec

\* No entry is submitted more than maxRetries times, however reports, rejected
\* batches, cancellations and the reuse of ids interleave.
THEOREM RetriesAreBounded == SafetySpec => []WithinRetryBudget
<1>1. BudgetInv => WithinRetryBudget
  BY DEF BudgetInv, InBudget, WithinRetryBudget
<1>2. QED BY <1>1, BudgetCorrect, PTL

-----------------------------------------------------------------------------
\* The keys of the Map are the queued ids, and no more than it may hold.
OrderInv ==
  /\ flight \in [Flights -> SUBSET Ids]
  /\ order \in Seq(Ids) /\ Len(order) <= MaxQueueSize
  /\ \A id \in Ids : Queued(id) <=> \E i \in DOMAIN order : order[i] = id

LEMMA AgeOfQueued ==
  ASSUME OrderInv, NEW id \in Ids, Queued(id)
  PROVE  Age(id) \in 1..Len(order) /\ order[Age(id)] = id
<1>1. \E i \in DOMAIN order : order[i] = id
  BY DEF OrderInv
<1>2. Age(id) \in DOMAIN order /\ order[Age(id)] = id
  BY <1>1 DEF Age
<1>3. order \in Seq(Ids)
  BY DEF OrderInv
<1>4. QED BY <1>2, <1>3

\* What is left of the order holds the ids that stay, each of them once.
LEMMA WithoutFacts ==
  ASSUME OrderInv, NEW ids, NEW s \in Without(ids)
  PROVE  /\ s \in Seq(Ids) /\ Len(s) <= Len(order)
         /\ \A id \in Ids : (Queued(id) /\ id \notin ids) <=> \E i \in DOMAIN s : s[i] = id
<1> DEFINE stay == {id \in Ids : Queued(id) /\ id \notin ids}
           age  == [id \in stay |-> Age(id)]
           k    == Cardinality(stay)
<1>1. \A id \in stay : Age(id) \in 1..Len(order) /\ order[Age(id)] = id
  BY AgeOfQueued
<1>2. Len(order) \in Nat
  BY DEF OrderInv
<1>3. age \in Injection(stay, 1..Len(order))
  BY <1>1 DEF Injection, IsInjective
<1>4. IsFiniteSet(1..Len(order)) /\ Cardinality(1..Len(order)) = Len(order)
  <2>1. /\ IsFiniteSet(1..Len(order))
        /\ Cardinality(1..Len(order)) = IF 1 > Len(order) THEN 0 ELSE Len(order) - 1 + 1
    BY <1>2, FS_Interval
  <2>2. QED BY <1>2, <2>1
<1>5. IsFiniteSet(stay) /\ k <= Len(order)
  BY <1>3, <1>4, FS_Injection
<1>6. k \in Nat
  BY <1>5, FS_CardinalityType
<1>7. /\ s \in [1..k -> stay]
      /\ \A i, j \in 1..k : i < j => Age(s[i]) < Age(s[j])
  BY DEF Without
<1> HIDE DEF k
<1>8. s \in Seq(Ids) /\ Len(s) = k /\ DOMAIN s = 1..k
  BY <1>6, <1>7
<1>9. s \in Injection(1..k, stay)
  <2>1. ASSUME NEW i \in 1..k, NEW j \in 1..k, i < j PROVE s[i] # s[j]
    <3>1. Age(s[i]) < Age(s[j]) /\ Age(s[i]) \in Nat
      BY <1>1, <1>2, <1>7, <2>1
    <3>2. QED BY <3>1
  <2>2. \A i, j \in 1..k : i = j \/ i < j \/ j < i
    BY <1>6
  <2>3. QED BY <1>7, <2>1, <2>2 DEF Injection, IsInjective
<1>10. IsFiniteSet(1..k) /\ Cardinality(1..k) = Cardinality(stay)
  <2>1. IsFiniteSet(1..k) /\ Cardinality(1..k) = IF 1 > k THEN 0 ELSE k - 1 + 1
    BY <1>6, FS_Interval
  <2>2. QED BY <1>6, <2>1 DEF k
<1>11. s \in Surjection(1..k, stay)
  BY <1>5, <1>9, <1>10, FS_Injection
<1>12. \A id \in stay : \E i \in 1..k : s[i] = id
  BY <1>11 DEF Surjection
<1>13. QED BY <1>5, <1>7, <1>8, <1>12

LEMMA InitOrder == Init => OrderInv
<1> SUFFICES ASSUME Init PROVE OrderInv
  OBVIOUS
<1>1. order = <<>> /\ flight = [f \in Flights |-> {}] /\ \A id \in Ids : ~Queued(id)
  BY DEF Init, Queued
<1>2. order \in Seq(Ids) /\ Len(order) = 0 /\ DOMAIN order = {}
  BY <1>1
<1>3. QED BY <1>1, <1>2, QueueAssumption DEF OrderInv

LEMMA EnqueueOrder ==
  ASSUME OrderInv, BudgetInv, NEW id \in Ids, NEW level \in LevelsOf[id],
         NEW dependsOn \in SUBSET (Ids \ {id}), Enqueue(id, level, dependsOn)
  PROVE  OrderInv'
<1> DEFINE entry == [status |-> "pending", level |-> level,
                     dependsOn |-> dependsOn, retryCount |-> 0]
<1>1. /\ order' = Append(order, id) /\ Len(order) < MaxQueueSize
      /\ queue' = [queue EXCEPT ![id] = entry] /\ flight' = flight
  BY DEF Enqueue
<1>2. entry # None
  <2>1. entry \in Entry
    BY QueueAssumption DEF Entry, Statuses
  <2>2. QED BY <2>1, EntryQueued
<1> HIDE DEF entry
<1>3. \A other \in Ids : Queued(other)' <=> Queued(other) \/ other = id
  BY <1>1, <1>2 DEF Queued, BudgetInv, Table
<1>4. order \in Seq(Ids) /\ Len(order) \in Nat /\ DOMAIN order = 1..Len(order)
  <2>1. order \in Seq(Ids)
    BY DEF OrderInv
  <2>2. QED BY <2>1
<1>5. /\ order' \in Seq(Ids) /\ Len(order') = Len(order) + 1
      /\ DOMAIN order' = 1..(Len(order) + 1)
  BY <1>1, <1>4
<1>6. order'[Len(order) + 1] = id /\ \A i \in 1..Len(order) : order'[i] = order[i]
  BY <1>1, <1>4
<1>7. \A other \in Ids : Queued(other)' <=> \E i \in DOMAIN order' : order'[i] = other
  <2>1. 1..(Len(order) + 1) = (1..Len(order)) \cup {Len(order) + 1}
    BY <1>4
  <2>2. QED BY <1>3, <1>4, <1>5, <1>6, <2>1 DEF OrderInv
<1>8. Len(order') <= MaxQueueSize
  BY <1>1, <1>4, <1>5, QueueAssumption
<1>9. QED BY <1>1, <1>5, <1>7, <1>8 DEF OrderInv

LEMMA DropOrder ==
  ASSUME OrderInv, NEW ids, Drop(ids) PROVE OrderInv'
<1>1. order' \in Without(ids) /\ flight' = flight
  BY DEF Drop
<1>2. \A id \in Ids : Queued(id)' <=> Queued(id) /\ id \notin ids
  BY DEF Drop, Queued
<1>3. /\ order' \in Seq(Ids) /\ Len(order') <= Len(order)
      /\ \A id \in Ids : (Queued(id) /\ id \notin ids) <=> \E i \in DOMAIN order' : order'[i] = id
  BY <1>1, WithoutFacts
<1>4. Len(order') <= MaxQueueSize
  <2>1. Len(order') \in Nat /\ Len(order) \in Nat /\ Len(order) <= MaxQueueSize
    BY <1>3 DEF OrderInv
  <2>2. QED BY <1>3, <2>1, QueueAssumption
<1>5. QED BY <1>1, <1>2, <1>3, <1>4 DEF OrderInv

\* Reports and batches change entries, but never which ids have one.
LEMMA SameKeys ==
  ASSUME OrderInv, BudgetInv, order' = order, flight' \in [Flights -> SUBSET Ids],
         \A id \in Ids : Queued(id)' <=> Queued(id)
  PROVE  OrderInv'
BY DEF OrderInv

LEMMA NextOrder == OrderInv /\ BudgetInv /\ [Next]_vars => OrderInv'
<1> SUFFICES ASSUME OrderInv, BudgetInv, [Next]_vars PROVE OrderInv'
  OBVIOUS
<1>f. flight \in [Flights -> SUBSET Ids] /\ queue \in Table
  BY DEF OrderInv, BudgetInv
<1>1. CASE Enqueues
  BY <1>1, EnqueueOrder DEF Enqueues
<1>2. ASSUME NEW id \in Ids, Cancel(id) PROVE OrderInv'
  BY <1>2, DropOrder DEF Cancel
<1>3. ASSUME NEW statuses, Clear(statuses) PROVE OrderInv'
  BY <1>3, DropOrder DEF Clear
<1>4. ASSUME NEW f \in Flights, NEW id \in Ids, MarkCompleted(f, id) \/ MarkFailed(f, id)
      PROVE  OrderInv'
  <2>1. Queued(id) /\ order' = order /\ flight' = flight
    BY <1>4 DEF MarkCompleted, MarkFailed
  <2>2. PICK entry \in Entry : queue' = [queue EXCEPT ![id] = entry]
    <3>1. queue[id] \in Entry /\ InBudget(queue[id], dispatched[id]) /\ dispatched[id] \in Nat
      BY <2>1, QueuedEntry DEF BudgetInv, Counts
    <3>2. QED BY <1>4, <3>1, CompletedInBudget, FailedInBudget DEF MarkCompleted, MarkFailed
  <2>3. \A other \in Ids : Queued(other)' <=> Queued(other)
    BY <1>f, <2>1, <2>2, EntryQueued DEF Queued, Table
  <2>4. QED BY <1>f, <2>1, <2>3, SameKeys
<1>5. ASSUME NEW f \in Flights, Dispatch(f) PROVE OrderInv'
  <2>1. \A id \in NextBatch : id \in Ids /\ Queued(id) /\ queue[id] \in Entry
    BY QueuedEntry DEF BudgetInv, NextBatch, Ready, Status
  <2>2. flight' \in [Flights -> SUBSET Ids] /\ order' = order
    BY <1>5, <1>f, <2>1 DEF Dispatch
  <2>3. ASSUME NEW id \in Ids PROVE Queued(id)' <=> Queued(id)
    <3>1. CASE id \in NextBatch
      <4>1. queue'[id] = [queue[id] EXCEPT !.status = "processing"]
        BY <1>5, <3>1 DEF Dispatch
      <4>2. queue'[id] \in Entry
        BY <2>1, <3>1, <4>1 DEF Entry, Statuses
      <4>3. QED BY <2>1, <3>1, <4>2, EntryQueued DEF Queued
    <3>2. CASE id \notin NextBatch
      BY <1>5, <3>2 DEF Dispatch, Queued
    <3>3. QED BY <3>1, <3>2
  <2>4. QED BY <2>2, <2>3, SameKeys
<1>6. ASSUME NEW f \in Flights, Resolve(f) PROVE OrderInv'
  BY <1>6, <1>f, SameKeys DEF Resolve, Queued
<1>7. ASSUME NEW f \in Flights, Reject(f) PROVE OrderInv'
  <2>1. flight' \in [Flights -> SUBSET Ids] /\ order' = order
    BY <1>7, <1>f DEF Reject
  <2>2. ASSUME NEW id \in Ids PROVE Queued(id)' <=> Queued(id)
    <3>1. CASE id \in flight[f] /\ Queued(id)
      <4>1. queue'[id] = Failed(queue[id])
        BY <1>7, <3>1 DEF Reject
      <4>2. queue'[id] \in Entry
        BY <3>1, <4>1, QueuedEntry, FailedInBudget DEF BudgetInv, Counts
      <4>3. QED BY <3>1, <4>2, EntryQueued DEF Queued
    <3>2. CASE ~(id \in flight[f] /\ Queued(id))
      BY <1>7, <3>2 DEF Reject, Queued
    <3>3. QED BY <3>1, <3>2
  <2>3. QED BY <2>1, <2>2, SameKeys
<1>8. CASE UNCHANGED vars
  BY <1>8, <1>f, SameKeys DEF vars, Queued
<1>9. QED BY <1>1, <1>2, <1>3, <1>4, <1>5, <1>6, <1>7, <1>8 DEF Next

\* The Map and its order agree and never outgrow maxQueueSize, whichever entries
\* are cancelled, cleared, retried or queued anew.
THEOREM TypeCorrect == SafetySpec => []TypeOK
<1>1. BudgetInv /\ OrderInv => TypeOK
  BY DEF BudgetInv, OrderInv, TypeOK, Table, Counts
<1>2. Init => BudgetInv /\ OrderInv
  BY InitInv, InitOrder
<1>3. BudgetInv /\ OrderInv /\ [Next]_vars => (BudgetInv /\ OrderInv)'
  BY NextInv, NextOrder
<1>4. QED BY <1>1, <1>2, <1>3, PTL DEF SafetySpec

-----------------------------------------------------------------------------
\* A transaction that has left "pending" and is in no batch in flight.
Settled(id) ==
  Status(id) \in {"processing", "completed", "failed"} /\ ~InFlight(id)

\* What a step may do to it.
Kept(id) ==
  \/ Status(id)' = Status(id)
  \/ \A other \in Ids : Status(other) = Status(id) => ~Queued(other)'

\* One step leaves a settled transaction alone, or clears its whole status.
LEMMA SettledStep ==
  ASSUME BudgetInv, [Next]_vars, NEW id \in Ids, Settled(id) PROVE Kept(id)
<1>q. Queued(id) /\ Status(id) = queue[id].status /\ Status(id) # "pending"
  BY DEF Settled, Status
<1>s. queue'[id] = queue[id] => Kept(id)
  BY DEF Kept, Status, Queued
<1>1. CASE Enqueues
  BY <1>1, <1>q, <1>s DEF Enqueues, Enqueue, BudgetInv, Table
<1>2. ASSUME NEW other \in Ids, Cancel(other) PROVE Kept(id)
  BY <1>2, <1>q, <1>s DEF Cancel, Drop
<1>3. ASSUME NEW statuses, Clear(statuses) PROVE Kept(id)
  <2>1. CASE Status(id) \in statuses
    BY <1>3, <2>1 DEF Clear, Drop, Kept, Queued
  <2>2. CASE Status(id) \notin statuses
    BY <1>3, <2>2, <1>s DEF Clear, Drop
  <2>3. QED BY <2>1, <2>2
<1>4. ASSUME NEW f \in Flights, NEW other \in Ids,
             MarkCompleted(f, other) \/ MarkFailed(f, other)
      PROVE  Kept(id)
  <2>1. other # id
    BY <1>4 DEF Settled, InFlight, MarkCompleted, MarkFailed
  <2>2. QED BY <1>4, <2>1, <1>s DEF MarkCompleted, MarkFailed, BudgetInv, Table
<1>5. ASSUME NEW f \in Flights, Dispatch(f) PROVE Kept(id)
  BY <1>5, <1>q, <1>s DEF Dispatch, NextBatch, Ready
<1>6. ASSUME NEW f \in Flights, Resolve(f) PROVE Kept(id)
  BY <1>6, <1>s DEF Resolve
<1>7. ASSUME NEW f \in Flights, Reject(f) PROVE Kept(id)
  BY <1>7, <1>s DEF Reject, Settled, InFlight
<1>8. CASE UNCHANGED vars
  BY <1>8, <1>s DEF vars
<1>9. QED BY <1>1, <1>2, <1>3, <1>4, <1>5, <1>6, <1>7, <1>8 DEF Next

\* Once the batches a transaction was in have landed, its status is final until
\* a clear() takes it away with all the others of that status.
THEOREM SettledIsFinal == SafetySpec => SettledOnceLanded
<1>1. BudgetInv /\ [Next]_vars =>
        [\A id \in Ids :
           Status(id) \in {"processing", "completed", "failed"} /\ ~InFlight(id)
             => \/ Status(id)' = Status(id)
                \/ \A other \in Ids : Status(other) = Status(id) => ~Queued(other)']_vars
  BY SettledStep DEF Settled, Kept
<1>2. QED BY <1>1, BudgetCorrect, PTL DEF SafetySpec, SettledOnceLanded
=============================================================================
