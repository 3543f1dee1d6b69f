--------------------------- MODULE BatchOperations ---------------------------
(***************************************************************************)
(* The executor of batches of account operations                           *)
(* (src/src/account/batchOperations.ts, runBatchOperations): operations    *)
(* already completed are skipped, the others go through a pool of workers, *)
(* each of which retries its operation and then starts the next one of the *)
(* queue. The runners are external: they build, sign and submit anew at    *)
(* each attempt, and what they submitted may land although they report an  *)
(* error, a timeout say. The progress callback does not throw.             *)
(***************************************************************************)
EXTENDS Naturals, Sequences, SequencesExt, FiniteSets, Filtering

CONSTANTS
  Plans,         \* the sequences of operation ids that a caller passes
  Ids,
  Concurrency, MaxRetries

VARIABLES
  previouslyCompleted,   \* configuration
  operations,
  queue,                 \* ids that were not skipped up front
  nextIndex,
  attempts,              \* per index of the queue
  worker,                \* what the worker of an index does
  completedIds,
  counter,
  results,               \* pairs of id and status
  \* External:
  landed                 \* attempts that took effect, per id

vars == <<previouslyCompleted, operations, queue, nextIndex, attempts, worker, completedIds,
          counter, results, landed>>

MaxLength  == CHOOSE n \in {Len(p) : p \in Plans} : \A p \in Plans : Len(p) <= n
Indices    == 1..MaxLength
Activities == {"waiting", "running", "delaying", "gone"}
Statuses   == {"success", "failed", "skipped"}
Counters   == [planned : 0..MaxLength, running : 0..MaxLength, succeeded : 0..MaxLength,
               failed : 0..MaxLength, skipped : 0..MaxLength, completed : 0..MaxLength,
               retried : 0..(MaxLength * MaxRetries)]

TypeOK ==
  /\ previouslyCompleted \subseteq Ids /\ operations \in Plans
  /\ queue \in Seq(Ids) /\ Len(queue) <= Len(operations)
  /\ nextIndex \in 1..(MaxLength + Concurrency + 1)
  /\ attempts \in [Indices -> 0..(MaxRetries + 1)]
  /\ worker \in [Indices -> Activities]
  /\ completedIds \subseteq Ids
  /\ counter \in Counters
  /\ results \in Seq(Ids \X Statuses)
  /\ landed \in [Ids -> 0..(MaxLength * (MaxRetries + 1))]

-----------------------------------------------------------------------------
Smaller(m, n) == IF m < n THEN m ELSE n

Active    == {i \in Indices : worker[i] \in {"running", "delaying"}}
Completed == Active = {}    \* waitForWorkers returns

\* Skips up front, then as many workers as may run at once.
Init ==
  /\ operations \in Plans /\ previouslyCompleted \in SUBSET Ids
  /\ completedIds = previouslyCompleted
  /\ queue = Filtered(operations, Ids \ previouslyCompleted)
  /\ LET skipped == Filtered(operations, previouslyCompleted)
         seeded  == Smaller(Concurrency, Len(queue))
     IN  /\ results = [i \in DOMAIN skipped |-> <<skipped[i], "skipped">>]
         /\ nextIndex = seeded + 1
         /\ worker = [i \in Indices |-> IF i <= seeded THEN "running" ELSE "waiting"]
         /\ counter = [planned |-> Len(queue), running |-> seeded, succeeded |-> 0, failed |-> 0,
                       skipped |-> Len(skipped), completed |-> Len(skipped), retried |-> 0]
  /\ attempts = [i \in Indices |-> 0]
  /\ landed = [id \in Ids |-> 0]

\* A runner answers: the attempt counts, and may have taken effect.
Answers(i, lands) ==
  /\ worker[i] = "running"
  /\ attempts' = [attempts EXCEPT ![i] = @ + 1]
  /\ landed' = IF lands THEN [landed EXCEPT ![queue[i]] = @ + 1] ELSE landed

\* An error that is worth another attempt, OPERATION_TIMEOUT among them.
AttemptFails(i, lands) ==
  /\ Answers(i, lands)
  /\ attempts[i] < MaxRetries
  /\ worker' = [worker EXCEPT ![i] = "delaying"]
  /\ UNCHANGED <<previouslyCompleted, operations, queue, nextIndex, completedIds, counter, results>>

DelayEnds(i) ==
  /\ worker[i] = "delaying"
  /\ worker' = [worker EXCEPT ![i] = "running"]
  /\ UNCHANGED <<previouslyCompleted, operations, queue, nextIndex, attempts, completedIds,
                 counter, results, landed>>

Counts(status, retries) ==
  [counter EXCEPT !.running = @ - 1, !.completed = @ + 1, !.retried = @ + retries,
                  !.succeeded = IF status = "success" THEN @ + 1 ELSE @,
                  !.failed = IF status = "failed" THEN @ + 1 ELSE @]

\* The outcome of an operation is recorded and the next one of the queue starts.
\* One whose id has succeeded by then is skipped, and its worker is gone.
Settle(i, status) ==
  LET completed == IF status = "success" THEN completedIds \cup {queue[i]} ELSE completedIds
      counted   == Counts(status, attempts[i])
      result    == <<queue[i], status>>
      start     == nextIndex <= Len(queue)
      skip      == start /\ queue[nextIndex] \in completed
  IN  /\ completedIds' = completed
      /\ nextIndex' = nextIndex + 1
      /\ results' = results \o (IF skip THEN <<result, <<queue[nextIndex], "skipped">>>> ELSE <<result>>)
      /\ counter' = IF skip THEN [counted EXCEPT !.skipped = @ + 1, !.completed = @ + 1]
                    ELSE IF start THEN [counted EXCEPT !.running = @ + 1] ELSE counted
      /\ worker' = [w \in Indices |-> IF w = i THEN "gone"
                                      ELSE IF start /\ w = nextIndex THEN IF skip THEN "gone" ELSE "running"
                                      ELSE worker[w]]

Succeeds(i) ==
  /\ Answers(i, TRUE)
  /\ Settle(i, "success")
  /\ UNCHANGED <<previouslyCompleted, operations, queue>>

\* The attempts are spent, or the error is none to retry.
Fails(i, lands) ==
  /\ Answers(i, lands)
  /\ Settle(i, "failed")
  /\ UNCHANGED <<previouslyCompleted, operations, queue>>

Runs(i) ==
  \/ DelayEnds(i)
  \/ Succeeds(i)
  \/ \E lands \in BOOLEAN : AttemptFails(i, lands) \/ Fails(i, lands)

Next == \E i \in Indices : Runs(i)

\* Runners answer and delays end.
Spec == Init /\ [][Next]_vars /\ \A i \in Indices : WF_vars(Runs(i))

-----------------------------------------------------------------------------
Distinct == IsInjective(operations)

Outcomes(id) == {k \in DOMAIN results : results[k][1] = id}

\* What the caller is told adds up at every moment: no more operations under way
\* than may be, each outcome counted, and no success that a runner did not have.
CountersAddUp ==
  /\ Cardinality(Active) = counter.running /\ counter.running <= Concurrency
  /\ counter.completed = Len(results)
  /\ counter.completed = counter.succeeded + counter.failed + counter.skipped
  /\ \A id \in Ids : Cardinality({k \in Outcomes(id) : results[k][2] = "success"}) <= landed[id]

\* Where ids are distinct, the report holds one outcome of each operation, and one
\* that was completed before does not run again.
ReportIsComplete ==
  Distinct =>
    /\ \A id \in Ids : Cardinality(Outcomes(id)) <= 1
    /\ \A id \in previouslyCompleted : landed[id] = 0
    /\ Completed => \A id \in Range(operations) : Outcomes(id) # {}

\* A batch ends: every worker hands on or goes.
BatchEnds == <>[]Completed

\* batchOperations.ts: "`maxRetries` cannot duplicate a completed/possibly-submitted
\* operation."
LandsOnce == Distinct => \A id \in Ids : landed[id] <= 1
=============================================================================
