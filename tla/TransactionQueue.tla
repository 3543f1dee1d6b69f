-------------------------- MODULE TransactionQueue --------------------------
(***************************************************************************)
(* The prioritised queue and its scheduling loop                           *)
(* (src/src/transaction/transactionQueue.ts).  Every interval the loop     *)
(* takes the next batch, marks it processing and hands it to submissionFn  *)
(* without waiting, so several batches may be in flight.  submissionFn is  *)
(* the application's: it reports single transactions through               *)
(* markCompleted and markFailed while it runs, and then resolves, which    *)
(* the loop ignores, or rejects, which fails the whole batch.              *)
(***************************************************************************)
EXTENDS Naturals, Sequences, FiniteSets

CONSTANTS
  Ids,           \* transaction ids the application uses
  LevelsOf,      \* the priorities an id may be queued with, as ranks: 0 is "critical"
  Flights,       \* batches in flight at once (the code sets no limit)
  BatchSize, MaxQueueSize, MaxRetries,
  None

ASSUME QueueAssumption ==
  /\ LevelsOf \in [Ids -> SUBSET Nat]
  /\ BatchSize \in Nat \ {0}
  /\ MaxQueueSize \in Nat
  /\ MaxRetries \in Nat \ {0}

VARIABLES
  order,       \* the keys of the Map in insertion order
  queue,       \* per id: the queued transaction, or None
  flight,      \* per flight: the batch submissionFn is working on, {} when landed
  dispatched   \* history, per id: times this entry was handed to submissionFn

vars == <<order, queue, flight, dispatched>>

Statuses == {"pending", "processing", "completed", "failed"}

\* retryCount saturates at maxRetries, the only number it is compared with.
Entry == [status: Statuses, level: Nat, dependsOn: SUBSET Ids, retryCount: 0..MaxRetries]

ASSUME NoneIsNoEntry == None \notin Entry

Queued(id)   == queue[id] # None
Status(id)   == IF Queued(id) THEN queue[id].status ELSE "absent"
InFlight(id) == \E f \in Flights : id \in flight[f]

\* The Map holds each queued id once, and no more than it may.
TypeOK ==
  /\ queue \in [Ids -> Entry \cup {None}]
  /\ flight \in [Flights -> SUBSET Ids]
  /\ dispatched \in [Ids -> Nat]
  /\ order \in Seq(Ids) /\ Len(order) <= MaxQueueSize
  /\ \A id \in Ids : Queued(id) <=> \E i \in DOMAIN order : order[i] = id

-----------------------------------------------------------------------------
(* getNextBatch: the pending transactions whose dependencies are met,      *)
(* by priority and, the sort being stable, by age; cut to the batch size.  *)

DependenciesMet(id) == \A dep \in queue[id].dependsOn : Status(dep) = "completed"

Ready(id) == Status(id) = "pending" /\ DependenciesMet(id)

Age(id) == CHOOSE i \in DOMAIN order : order[i] = id

Before(a, b) ==
  \/ queue[a].level < queue[b].level
  \/ queue[a].level = queue[b].level /\ Age(a) < Age(b)

\* Mutant: cut to the batch size first, then look at the dependencies.
NextBatchCutFirst ==
  {id \in Ids :
     /\ Ready(id)
     /\ Cardinality({a \in Ids : Status(a) = "pending" /\ Before(a, id)}) < BatchSize}

NextBatch ==
  {id \in Ids : /\ Ready(id)
                /\ Cardinality({a \in Ids : Ready(a) /\ Before(a, id)}) < BatchSize}

-----------------------------------------------------------------------------
Init ==
  /\ order = <<>>
  /\ queue = [id \in Ids |-> None]
  /\ flight = [f \in Flights |-> {}]
  /\ dispatched = [id \in Ids |-> 0]

\* Mutant: no limit.
EnqueueUnbounded(id, level, dependsOn) ==
  /\ ~Queued(id)
  /\ \A dep \in dependsOn : Queued(dep)
  /\ order' = Append(order, id)
  /\ queue' = [queue EXCEPT ![id] = [status |-> "pending", level |-> level,
                                     dependsOn |-> dependsOn, retryCount |-> 0]]
  /\ UNCHANGED <<flight, dispatched>>

Enqueue(id, level, dependsOn) ==
  /\ ~Queued(id)
  /\ Len(order) < MaxQueueSize
  /\ \A dep \in dependsOn : Queued(dep)
  /\ order' = Append(order, id)
  /\ queue' = [queue EXCEPT ![id] = [status |-> "pending", level |-> level,
                                     dependsOn |-> dependsOn, retryCount |-> 0]]
  /\ UNCHANGED <<flight, dispatched>>

\* The keys that stay, which the Map keeps in their order.
Without(ids) ==
  LET stay == {id \in Ids : Queued(id) /\ id \notin ids}
  IN  {s \in [1..Cardinality(stay) -> stay] :
         \A i, j \in DOMAIN s : i < j => Age(s[i]) < Age(s[j])}

Drop(ids) ==
  /\ order' \in Without(ids)
  /\ queue' = [id \in Ids |-> IF id \in ids THEN None ELSE queue[id]]
  /\ dispatched' = [id \in Ids |-> IF id \in ids THEN 0 ELSE dispatched[id]]
  /\ UNCHANGED flight

Cancel(id) == Status(id) = "pending" /\ Drop({id})

\* clear(status) and clear().
Clear(statuses) ==
  /\ order # <<>>
  /\ Drop({id \in Ids : Status(id) \in statuses})

\* markCompleted looks at nothing but the id.
Completed(entry) == [entry EXCEPT !.status = "completed"]

\* Mutant: one retry more.
FailedInclusive(entry) ==
  [entry EXCEPT !.retryCount = IF @ < MaxRetries THEN @ + 1 ELSE @,
                !.status = IF entry.retryCount < MaxRetries THEN "pending" ELSE "failed"]

\* markFailed: count, then retry while the count is below the maximum.
Failed(entry) ==
  [status |-> IF entry.retryCount + 1 < MaxRetries THEN "pending" ELSE "failed",
   level |-> entry.level, dependsOn |-> entry.dependsOn,
   retryCount |-> IF entry.retryCount < MaxRetries THEN entry.retryCount + 1 ELSE MaxRetries]

\* submissionFn reports on a transaction of its batch.
MarkCompleted(f, id) ==
  /\ id \in flight[f] /\ Queued(id)
  /\ queue' = [queue EXCEPT ![id] = Completed(@)]
  /\ UNCHANGED <<order, flight, dispatched>>

MarkFailed(f, id) ==
  /\ id \in flight[f] /\ Queued(id)
  /\ queue' = [queue EXCEPT ![id] = Failed(@)]
  /\ UNCHANGED <<order, flight, dispatched>>

\* The scheduling interval.
Dispatch(f) ==
  /\ flight[f] = {} /\ NextBatch # {}
  /\ queue' = [id \in Ids |-> IF id \in NextBatch
                              THEN [queue[id] EXCEPT !.status = "processing"] ELSE queue[id]]
  /\ dispatched' = [id \in Ids |-> dispatched[id] + IF id \in NextBatch THEN 1 ELSE 0]
  /\ flight' = [flight EXCEPT ![f] = NextBatch]
  /\ UNCHANGED order

\* submissionFn resolves: the result it returns is not looked at.
Resolve(f) ==
  /\ flight[f] # {}
  /\ flight' = [flight EXCEPT ![f] = {}]
  /\ UNCHANGED <<order, queue, dispatched>>

\* Mutant: the failure of a batch fails everything under way.
RejectAll(f) ==
  /\ flight[f] # {}
  /\ queue' = [id \in Ids |-> IF Queued(id) /\ Status(id) # "pending"
                              THEN Failed(queue[id]) ELSE queue[id]]
  /\ flight' = [flight EXCEPT ![f] = {}]
  /\ UNCHANGED <<order, dispatched>>

\* submissionFn rejects: every transaction of the batch that is still queued
\* is marked failed, those it had reported completed among them.
Reject(f) ==
  /\ flight[f] # {}
  /\ queue' = [id \in Ids |-> IF id \in flight[f] /\ Queued(id)
                              THEN Failed(queue[id]) ELSE queue[id]]
  /\ flight' = [flight EXCEPT ![f] = {}]
  /\ UNCHANGED <<order, dispatched>>

Enqueues ==
  \E id \in Ids : \E level \in LevelsOf[id], dependsOn \in SUBSET (Ids \ {id}) :
    Enqueue(id, level, dependsOn)

Next ==
  \/ Enqueues
  \/ \E id \in Ids : Cancel(id)
  \/ \E status \in Statuses : Clear({status})
  \/ Clear(Statuses)
  \/ \E f \in Flights, id \in Ids : MarkCompleted(f, id) \/ MarkFailed(f, id)
  \/ \E f \in Flights : Dispatch(f) \/ Resolve(f) \/ Reject(f)

SafetySpec == Init /\ [][Next]_vars

\* The interval keeps firing and every submission ends.
Spec ==
  /\ SafetySpec
  /\ \A f \in Flights : WF_vars(Dispatch(f)) /\ WF_vars(Resolve(f) \/ Reject(f))

-----------------------------------------------------------------------------
\* An entry is handed to submissionFn maxRetries times at most, however its
\* own reports and the rejections of overlapping batches are interleaved.
WithinRetryBudget == \A id \in Ids : Queued(id) => dispatched[id] <= MaxRetries

\* Only the batches a transaction is in decide its fate: once none of them is
\* in flight, a transaction that has left "pending" keeps its status until a
\* clear() takes it away together with all the others of that status.
SettledOnceLanded ==
  [][\A id \in Ids :
       Status(id) \in {"processing", "completed", "failed"} /\ ~InFlight(id)
         => \/ Status(id)' = Status(id)
            \/ \A other \in Ids : Status(other) = Status(id) => ~Queued(other)']_vars

\* Once no more transactions arrive, none that is ready waits for ever,
\* whatever its priority.
ReadyIsDispatched ==
  <>[][~Enqueues]_vars => \A id \in Ids : []<>~Ready(id)

\* transactionQueue.ts: "preservation of ordering for dependent transactions".
\* A transaction is never submitted behind one that depends on it.
NeverBehindItsDependents ==
  [][\A f \in Flights, dep \in Ids :
       dep \in flight'[f] \ flight[f] =>
         \A id \in Ids : Queued(id) /\ dep \in queue[id].dependsOn => dispatched[id] = 0]_vars
=============================================================================
