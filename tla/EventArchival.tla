---------------------------- MODULE EventArchival ----------------------------
(***************************************************************************)
(* Archiving the events of a live subscription                             *)
(* (src/src/soroban/eventArchival/eventArchivalManager.ts, with the        *)
(* storage of inMemoryStorage.ts). Events collect in a batch that is       *)
(* flushed when it is full, after a while without events, and on           *)
(* unsubscribing. A flush asks the storage event by event what it has      *)
(* already, then stores the rest; flushes overlap, and the storage may     *)
(* refuse or fail. The option deduplicate has its default. The             *)
(* subscription may deliver after it was stopped, so unsubscribing is one  *)
(* more flush.                                                             *)
(***************************************************************************)
EXTENDS Naturals, Sequences, FiniteSets

CONSTANTS
  Events,
  BatchSize,      \* batchSize
  MaxAtOnce,      \* bound: events in one delivery
  Flushes,        \* bound: flushes under way at once
  MaxDeliveries   \* bound: how often an event is delivered

VARIABLES
  pendingBatch,
  batchTimer,     \* the timer of the batch is armed
  flushes,        \* [left: to be looked up, kept: to be stored, stage]
  stored,         \* the ids the storage has
  reported,       \* events handed to onStorageError
  abandoned,      \* history: events of a flush that a failing lookup ended
  delivered       \* history: how often each event was delivered

vars == <<pendingBatch, batchTimer, flushes, stored, reported, abandoned, delivered>>

SequencesOf(length) == [1..length -> Events]
Batches == UNION {SequencesOf(n) : n \in 0..(BatchSize - 1 + MaxAtOnce)}
NoFlush == [left |-> <<>>, kept |-> {}, stage |-> "idle"]

TypeOK ==
  /\ pendingBatch \in Seq(Events) /\ Len(pendingBatch) < BatchSize
  /\ batchTimer \in BOOLEAN
  /\ flushes \in [Flushes -> [left  : Batches,
                              kept  : SUBSET Events,
                              stage : {"idle", "checking", "storing"}]]
  /\ stored \subseteq Events
  /\ reported \subseteq Events
  /\ abandoned \subseteq Events
  /\ delivered \in [Events -> 0..MaxDeliveries]

Init ==
  /\ pendingBatch = <<>> /\ batchTimer = FALSE
  /\ flushes = [f \in Flushes |-> NoFlush]
  /\ stored = {} /\ reported = {} /\ abandoned = {}
  /\ delivered = [e \in Events |-> 0]

-----------------------------------------------------------------------------
InBatch(batch) == {batch[i] : i \in DOMAIN batch}

\* flushBatch up to its first await: the batch leaves the manager, and the timer
\* with it. An empty batch leaves everything as it is, the timer too.
FlushBatch(f, batch) ==
  /\ flushes[f].stage = "idle"
  /\ flushes' = [flushes EXCEPT ![f] = [left |-> batch, kept |-> {}, stage |-> "checking"]]
  /\ pendingBatch' = <<>>
  /\ batchTimer' = FALSE

\* scheduleBatchFlush: the timer starts again.
ScheduleBatchFlush == batchTimer' = TRUE

\* Mutant: the batch is flushed when it has grown beyond its size.
Overfull(batch) == Len(batch) > BatchSize

Full(batch) == Len(batch) >= BatchSize

Occurs(e, events) == Cardinality({i \in DOMAIN events : events[i] = e})

\* handleEvents: the batch is flushed when it is full, whole.
HandleEvents(events) ==
  LET batch == pendingBatch \o events
  IN  /\ \A e \in Events : delivered[e] + Occurs(e, events) <= MaxDeliveries
      /\ delivered' = [e \in Events |-> delivered[e] + Occurs(e, events)]
      /\ \/ /\ Full(batch)
            /\ \E f \in Flushes : FlushBatch(f, batch)
         \/ /\ ~Full(batch)
            /\ pendingBatch' = batch
            /\ ScheduleBatchFlush
            /\ UNCHANGED flushes
      /\ UNCHANGED <<stored, reported, abandoned>>

\* handleEvents with events that lack an id, a contract, a ledger or a type.
HandleInvalid ==
  /\ ScheduleBatchFlush
  /\ UNCHANGED <<pendingBatch, flushes, stored, reported, abandoned, delivered>>

\* The caller unsubscribes, or the timer fires.
Flush ==
  /\ pendingBatch # <<>>
  /\ \E f \in Flushes : FlushBatch(f, pendingBatch)
  /\ UNCHANGED <<stored, reported, abandoned, delivered>>

TimerFires == batchTimer /\ Flush

TimerFindsNothing ==
  /\ batchTimer /\ pendingBatch = <<>>
  /\ batchTimer' = FALSE
  /\ UNCHANGED <<pendingBatch, flushes, stored, reported, abandoned, delivered>>

\* The rest of the batch, or the call of store() when there is something to store.
Remaining(left, kept) ==
  IF left # <<>> THEN [left |-> left, kept |-> kept, stage |-> "checking"]
  ELSE IF kept # {} THEN [left |-> <<>>, kept |-> kept, stage |-> "storing"]
  ELSE NoFlush

Duplicate(flush) == Head(flush.left) \in flush.kept \cup stored

\* Mutant: a duplicate ends the flush instead of the turn of its loop.
AfterLookUpReturning(flush) ==
  IF Duplicate(flush) THEN NoFlush
  ELSE Remaining(Tail(flush.left), flush.kept \cup {Head(flush.left)})

\* An event seen in this batch, or stored before, is a duplicate.
AfterLookUp(flush) ==
  Remaining(Tail(flush.left),
            IF Duplicate(flush) THEN flush.kept ELSE flush.kept \cup {Head(flush.left)})

\* One turn of the loop over the batch: exists() answers.
LookUp(f) ==
  /\ flushes[f].stage = "checking"
  /\ flushes' = [flushes EXCEPT ![f] = AfterLookUp(@)]
  /\ UNCHANGED <<pendingBatch, batchTimer, stored, reported, abandoned, delivered>>

\* exists() rejects outside the try: the flush ends with its whole batch. (It is not
\* asked about an event seen in this batch.)
LookUpFails(f) ==
  /\ flushes[f].stage = "checking"
  /\ Head(flushes[f].left) \notin flushes[f].kept
  /\ abandoned' = abandoned \cup InBatch(flushes[f].left) \cup flushes[f].kept
  /\ flushes' = [flushes EXCEPT ![f] = NoFlush]
  /\ UNCHANGED <<pendingBatch, batchTimer, stored, reported, delivered>>

Store(f) ==
  /\ flushes[f].stage = "storing"
  /\ stored' = stored \cup flushes[f].kept
  /\ flushes' = [flushes EXCEPT ![f] = NoFlush]
  /\ UNCHANGED <<pendingBatch, batchTimer, reported, abandoned, delivered>>

\* store() answers with an error or rejects.
StoreFails(f) ==
  /\ flushes[f].stage = "storing"
  /\ reported' = reported \cup flushes[f].kept
  /\ flushes' = [flushes EXCEPT ![f] = NoFlush]
  /\ UNCHANGED <<pendingBatch, batchTimer, stored, abandoned, delivered>>

Next ==
  \/ \E n \in 1..MaxAtOnce : \E events \in SequencesOf(n) : HandleEvents(events)
  \/ HandleInvalid
  \/ Flush
  \/ TimerFindsNothing
  \/ \E f \in Flushes : LookUp(f) \/ LookUpFails(f) \/ Store(f) \/ StoreFails(f)

\* What the storage owes: an answer to each call.
StorageAnswers == \E f \in Flushes : LookUp(f) \/ LookUpFails(f) \/ Store(f) \/ StoreFails(f)

Spec == Init /\ [][Next]_vars /\ WF_vars(TimerFires) /\ WF_vars(StorageAnswers)

-----------------------------------------------------------------------------
UnderWay(e) ==
  \/ e \in InBatch(pendingBatch)
  \/ \E f \in Flushes : e \in InBatch(flushes[f].left) \cup flushes[f].kept

\* No delivered event drops out between batch, flushes and storage: it is on its
\* way, stored, reported, or fell with the flush that a failing lookup ended.
NothingLost ==
  \A e \in Events : delivered[e] > 0 =>
    UnderWay(e) \/ e \in stored \cup reported \cup abandoned

\* A batch that waits has a timer to end its wait.
BatchHasTimer == pendingBatch # <<>> => batchTimer

\* Every event is stored, reported or abandoned in the end.
EveryEventSettles ==
  \A e \in Events : delivered[e] > 0 ~> e \in stored \cup reported \cup abandoned
=============================================================================
