------------------------------- MODULE Streams -------------------------------
(***************************************************************************)
(* The components that promise something in the end: every event is        *)
(* archived or reported, every transaction reaches its stream, every       *)
(* endpoint is tried again, every due schedule settles. They share no      *)
(* state; as in Components one is chosen at the start and the others stay  *)
(* as they are.                                                            *)
(***************************************************************************)
EXTENDS Integers, Sequences, FiniteSets

CONSTANTS
  Events, BatchSize, MaxAtOnce, Flushes, MaxDeliveries,                   \* EventArchival
  EndpointCount, Requests, FailureThreshold, RecoveryInterval,            \* EndpointFailover
  MaxTransactions, Kept, Limit, Orders,                                   \* TransactionStream
  MaxBalance, Threshold, MinInterval, MaxInterval, BaseInterval, AdaptiveThreshold,
  MaxChanges,                                                             \* AccountStream
  MaxFailures,   \* of both streams
  Triggers, HookEvents, Urls, Channels, DefaultRetries, Retries,          \* Notifications
  OperationIds, Plans, Concurrency, MaxRetries,                           \* BatchOperations
  ScheduleIds, Recurring, Period, MaxScheduleRetries, ScheduleRuns, ObjectNames, MaxNow,
  None                                                                    \* Scheduler

VARIABLES
  part,                                                         \* the component that runs
  pendingBatch, batchTimer, flushes, stored, reported, abandoned, delivered, \* EventArchival
  endpointCursor, endpointFailures, sinceFailure, requests, checking, \* EndpointFailover
  order, autoRetry, pollsLeft, closed, stage, aborted, cursor, lastEmitted,
  retryState, nextDelay, emitted, silent,                       \* TransactionStream
  adaptive, accountPolls, account, changes, accountStage, accountAborted, accountEmitted,
  currentInterval, unchangedPolls, accountRetry, accountDelay, lastAlert, threw, \* AccountStream
  webhookRegistry, paymentWebhookRegistry, channelRegistry, calls, constant,     \* Notifications
  previouslyCompleted, operations, queue, nextIndex, attempts, worker, completedIds,
  counter, results, landed,                                     \* BatchOperations
  now, scheduleOrder, store, heap, run                          \* Scheduler

Archive == INSTANCE EventArchival

Failover == INSTANCE EndpointFailover WITH
  cursor <- endpointCursor, failures <- endpointFailures

Stream == INSTANCE TransactionStream

Account == INSTANCE AccountStream WITH
  pollsLeft <- accountPolls, stage <- accountStage, aborted <- accountAborted,
  lastEmitted <- accountEmitted, retryState <- accountRetry, nextDelay <- accountDelay

Notify == INSTANCE Notifications WITH Events <- HookEvents

Batch == INSTANCE BatchOperations WITH Ids <- OperationIds

Schedules == INSTANCE Scheduler WITH
  Ids <- ScheduleIds, Runs <- ScheduleRuns, Copies <- ObjectNames,
  MaxRetries <- MaxScheduleRetries, order <- scheduleOrder

\* Sizes, limits and intervals are numbers. The code refuses a failover without
\* endpoints, raises a failure threshold, a concurrency or an adaptive threshold to
\* one at least and keeps the interval of polls within its bounds. The batch size of
\* the archive and the failures of a stream before its cooldown it does not check:
\* here they are at least one, as their defaults are. Some plan is the longest.
ASSUME ArchiveAssumption ==
  BatchSize \in Nat \ {0} /\ MaxAtOnce \in Nat /\ MaxDeliveries \in Nat

ASSUME FailoverAssumption ==
  EndpointCount \in Nat \ {0} /\ FailureThreshold \in Nat \ {0} /\ RecoveryInterval \in Nat

ASSUME StreamAssumption ==
  /\ MaxTransactions \in Nat /\ Kept \subseteq 1..MaxTransactions
  /\ Limit \in Nat \ {0} /\ Orders \subseteq {"asc", "desc"}

ASSUME RetryAssumption == MaxFailures \in Nat \ {0}

ASSUME AccountAssumption ==
  /\ MaxBalance \in Nat /\ Threshold \in Int /\ MaxChanges \in Nat
  /\ MinInterval \in Nat /\ MaxInterval \in Nat /\ BaseInterval \in MinInterval..MaxInterval
  /\ AdaptiveThreshold \in Nat \ {0}

ASSUME NotifyAssumption == DefaultRetries \in Nat /\ Retries \subseteq Nat

ASSUME BatchAssumption ==
  /\ Plans \subseteq Seq(OperationIds) /\ \E p \in Plans : \A q \in Plans : Len(q) <= Len(p)
  /\ Concurrency \in Nat \ {0} /\ MaxRetries \in Nat

archiveVars  == <<pendingBatch, batchTimer, flushes, stored, reported, abandoned, delivered>>
failoverVars == <<endpointCursor, endpointFailures, sinceFailure, requests, checking>>
streamVars   == <<order, autoRetry, pollsLeft, closed, stage, aborted, cursor, lastEmitted,
                  retryState, nextDelay, emitted, silent>>
accountVars  == <<adaptive, accountPolls, account, changes, accountStage, accountAborted,
                  accountEmitted, currentInterval, unchangedPolls, accountRetry, accountDelay,
                  lastAlert, threw>>
notifyVars   == <<webhookRegistry, paymentWebhookRegistry, channelRegistry, calls, constant>>
batchVars    == <<previouslyCompleted, operations, queue, nextIndex, attempts, worker,
                  completedIds, counter, results, landed>>
scheduleVars == <<now, scheduleOrder, store, heap, run>>

vars == <<part, archiveVars, failoverVars, streamVars, accountVars, notifyVars, batchVars,
          scheduleVars>>

Parts == {"archive", "failover", "stream", "account", "notify", "batch", "schedule"}

\* That of the scheduler is part of Components, where the rest of its safety is.
TypeOK ==
  /\ part \in Parts
  /\ part = "archive" => Archive!TypeOK
  /\ part = "failover" => Failover!TypeOK
  /\ part = "stream" => Stream!TypeOK
  /\ part = "account" => Account!TypeOK
  /\ part = "notify" => Notify!TypeOK
  /\ part = "batch" => Batch!TypeOK

\* A component that does not run has one configuration.
Init ==
  /\ part \in Parts
  /\ Archive!Init
  /\ Failover!Init
  /\ (part # "stream" => autoRetry = TRUE /\ pollsLeft = 2 /\ closed = 0) /\ Stream!Init
  /\ (part # "account" => adaptive = TRUE /\ accountPolls = 2 /\ account = 0) /\ Account!Init
  /\ Notify!Init
  /\ (part # "batch" => previouslyCompleted = {} /\ operations = CHOOSE p \in Plans : TRUE)
  /\ Batch!Init
  /\ Schedules!Init

ArchiveStep ==
  /\ part = "archive" /\ Archive!Next
  /\ UNCHANGED <<part, failoverVars, streamVars, accountVars, notifyVars, batchVars, scheduleVars>>

FailoverStep ==
  /\ part = "failover" /\ Failover!Next
  /\ UNCHANGED <<part, archiveVars, streamVars, accountVars, notifyVars, batchVars, scheduleVars>>

StreamStep ==
  /\ part = "stream" /\ Stream!Next
  /\ UNCHANGED <<part, archiveVars, failoverVars, accountVars, notifyVars, batchVars, scheduleVars>>

AccountStep ==
  /\ part = "account" /\ Account!Next
  /\ UNCHANGED <<part, archiveVars, failoverVars, streamVars, notifyVars, batchVars, scheduleVars>>

NotifyStep ==
  /\ part = "notify" /\ Notify!Next
  /\ UNCHANGED <<part, archiveVars, failoverVars, streamVars, accountVars, batchVars, scheduleVars>>

BatchStep ==
  /\ part = "batch" /\ Batch!Next
  /\ UNCHANGED <<part, archiveVars, failoverVars, streamVars, accountVars, notifyVars, scheduleVars>>

ScheduleStep ==
  /\ part = "schedule" /\ Schedules!Next
  /\ UNCHANGED <<part, archiveVars, failoverVars, streamVars, accountVars, notifyVars, batchVars>>

Next ==
  \/ ArchiveStep
  \/ FailoverStep
  \/ StreamStep
  \/ AccountStep
  \/ NotifyStep
  \/ BatchStep
  \/ ScheduleStep

\* The fairness of the components' own specifications, for the one that runs.
Fairness ==
  /\ WF_archiveVars(part = "archive" /\ Archive!TimerFires)
  /\ WF_archiveVars(part = "archive" /\ Archive!StorageAnswers)
  /\ \A r \in Requests :
       /\ WF_failoverVars(part = "failover" /\ Failover!Request(r))
       /\ WF_failoverVars(part = "failover" /\ Failover!Answers(r))
  /\ WF_failoverVars(part = "failover" /\ Failover!ProbeAnswers)
  /\ WF_failoverVars(part = "failover" /\ Failover!Tick)
  /\ WF_streamVars(part = "stream" /\ Stream!Wake)
  /\ WF_streamVars(part = "stream" /\ Stream!Answer)
  /\ SF_streamVars(part = "stream" /\ Stream!PageArrives)
  /\ WF_accountVars(part = "account" /\ Account!Wake)
  /\ WF_accountVars(part = "account" /\ Account!Answer)
  /\ SF_accountVars(part = "account" /\ Account!PollSucceeds)
  /\ \A t \in Triggers : WF_notifyVars(part = "notify" /\ Notify!Proceed(t))
  /\ \A i \in Batch!Indices : WF_batchVars(part = "batch" /\ Batch!Runs(i))
  /\ WF_scheduleVars(part = "schedule" /\ Schedules!Tick)
  /\ \A r \in ScheduleRuns :
       /\ WF_scheduleVars(part = "schedule" /\ Schedules!Begin(r))
       /\ WF_scheduleVars(part = "schedule" /\ (Schedules!Succeed(r) \/ Schedules!Fail(r)))

Spec == Init /\ [][Next]_vars /\ Fairness

-----------------------------------------------------------------------------
\* Nothing drops out on its way: events between batch, flushes and storage
\* (eventArchivalManager.ts), transactions between pages and errors behind
\* retries (streamTransactions.ts), crossings of a balance between polls
\* (balanceAlerts.ts), deliveries between attempts (webhooks.ts,
\* paymentNotifications.ts) and operations between workers (batchOperations.ts).
NothingFallsBetween ==
  /\ part = "archive" => Archive!NothingLost /\ Archive!BatchHasTimer
  /\ part = "stream" => Stream!NothingSkipped /\ Stream!SilenceIsBounded
  /\ part = "account" => Account!AlertsFit
  /\ part = "notify" => Notify!ReportsAreTrue
  /\ part = "batch" => Batch!CountersAddUp /\ Batch!ReportIsComplete

\* What was handed over is dealt with in the end: an archived event, a new
\* transaction of the account, a changed balance, an endpoint that was given up
\* (endpointFailover.ts), a trigger's endpoints, a batch, a schedule that is due
\* (scheduler.ts).
EverythingHasItsTurn ==
  /\ part = "archive" => Archive!EveryEventSettles
  /\ part = "failover" => Failover!EveryEndpointIsRetried
  /\ part = "stream" => Stream!NewTransactionsArrive
  /\ part = "account" => Account!AccountIsShown
  /\ part = "notify" => Notify!TriggersReturn
  /\ part = "batch" => Batch!BatchEnds
  /\ part = "schedule" => Schedules!DueSchedulesSettle

\* batchOperations.ts: "`maxRetries` cannot duplicate a completed/possibly-submitted
\* operation."
LandsOnce == part = "batch" => Batch!LandsOnce
=============================================================================
