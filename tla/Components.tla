----------------------------- MODULE Components -----------------------------
(***************************************************************************)
(* The components that decide whether something may happen (sign and       *)
(* execute, spend, finalise, recover, unlock, connect), those that order   *)
(* what happens (sequence numbers, prices, schedules, mixed batches,       *)
(* dependent transactions, the steps of bundles) and those that remember   *)
(* what was read (networks, sessions, contract state, tokens of a rate,    *)
(* cached sequence numbers). They share no state, so that a behaviour of   *)
(* all of them is a behaviour of each. One is chosen at the start and the  *)
(* others stay as they are: the states to check are the sum of the         *)
(* components' states and not their product.                               *)
(***************************************************************************)
EXTENDS Integers, Sequences, FiniteSets

CONSTANTS
  Payloads, Signers, Weight, Thresholds, Expiries, Never, Times, MaxSequence,  \* MultiSigExecution
  RequestIds, Amounts, Ceilings, NoLimit, Days, MonthStart, Approvers, Policies, \* SpendingPolicy
  Participants, NoConsensus,                                              \* Consensus
  Contacts, Configs, Threshold, Delay, Window, Copies, NoCopy, MaxTime,   \* RecoveryWorkflow
  Secrets, NoSecret, NoSession, SessionTimeout, MaxFailedAttempts, RateLimitDuration, \* Authentication
  MaxAttempts, TimeWindow, MaxAuthFailures, BlockDuration, RuleDuration, MaxHistory, \* ConnectionThrottling
  MaxContextSequence, Unreachable,                                        \* TransactionContext
  ProviderCounts, Sockets, NoSocket, MaxTimers,                           \* PriceSubscription
  Ids, Recurring, Period, Runs, ObjectNames, None, MaxNow,                \* Scheduler
  Transactions, Members, Owner, MinBatchSize, MaxBatchSize, AllowPartialBatches,
  MaxPoolTime, NotPooled,                                                 \* MixingPool
  NodeCount, Graphs,                                                      \* DependencyGraph
  StepCount, Dependencies,                                                \* ExecutionOrder, Bundles
  Recoverers,                                                             \* Bundles
  Presets, Testnet, Customs, Up, Checks,                                  \* NetworkSwitcher
  Sessions,                                                               \* WalletConnectSession
  MaxVersion, NoRead, NotCached,                                          \* ContractReads
  RateRequests, Limits, Unit, MaxIdle,                                    \* RateLimiter
  Builds, KindSets, AtOnce, Offline, NoOverride,                          \* SequenceCache
  Calls,         \* that overlap: of Authentication, TransactionContext,
                 \* WalletConnectSession and ContractReads
  MaxRetries,    \* of PriceSubscription and Scheduler
  Ttl            \* of MixingPool and SequenceCache

VARIABLES
  part,                                               \* the component that runs
  requests, sequence, assembled,                      \* MultiSigExecution
  limits, policy, records,                            \* SpendingPolicy
  consensus,                                          \* Consensus
  permissions, copies, clock,                         \* RecoveryWorkflow
  credential, session, call, sinceSuccess,            \* Authentication
  history, authFailures, blocked, blockLeft, rule, ruleLeft, quiet,  \* ConnectionThrottling
  nextSequence, expired, ledger, calls, handed, first,               \* TransactionContext
  providerCount, unsubscribed, retryCount, providerIndex, timers, activeProvider,
  sockets, ws, quit,                                                 \* PriceSubscription
  scheduleTime, scheduleOrder, store, heap, run,                     \* Scheduler
  transactions, participants, poolTime, refused, out,                \* MixingPool
  dependsOn, phase, colour, stack, cycles, remaining, ready, ordered,
  parallelGroups,                                                    \* DependencyGraph
  dependencies,                                                      \* ExecutionOrder, Bundles
  visiting, executionOrder, orderOutcome,                            \* ExecutionOrder
  stepStatus, recoverable, bundleStatus, failedSteps, hasCompleted, overlapped, \* Bundles
  customNetworks, current, networkStatus, stored, checks, moved,     \* NetworkSwitcher
  client, walletSession, live, used, walletCalls, revived,           \* WalletConnectSession
  version, indexed, submitted, marked, tracker, cache, inflight, readCalls, mishap, \* ContractReads
  limit, tokens, idle, queue, timer, granted, steady, abandoned,     \* RateLimiter
  kinds, ledgerSequence, sequenceCache, composer, build, numbers     \* SequenceCache

MultiSig == INSTANCE MultiSigExecution

Spending == INSTANCE SpendingPolicy

Verdict == INSTANCE Consensus

Recovery == INSTANCE RecoveryWorkflow

Access == INSTANCE Authentication

Throttle == INSTANCE ConnectionThrottling

Context == INSTANCE TransactionContext WITH MaxSequence <- MaxContextSequence

Prices == INSTANCE PriceSubscription

Schedules == INSTANCE Scheduler WITH
  Copies <- ObjectNames, now <- scheduleTime, order <- scheduleOrder

Mixing == INSTANCE MixingPool WITH
  Participants <- Members, MaxTime <- MaxPoolTime, now <- poolTime

Planning == INSTANCE DependencyGraph

Order == INSTANCE ExecutionOrder WITH outcome <- orderOutcome

Bundle == INSTANCE Bundles WITH status <- stepStatus

Networks == INSTANCE NetworkSwitcher WITH status <- networkStatus

Wallet == INSTANCE WalletConnectSession WITH session <- walletSession, calls <- walletCalls

Reads == INSTANCE ContractReads WITH calls <- readCalls

Rate == INSTANCE RateLimiter WITH Requests <- RateRequests

Builders == INSTANCE SequenceCache WITH cache <- sequenceCache, record <- numbers

\* The numbers are numbers and the absent values none of those that are stored.
ASSUME MultiSigAssumption == MaxSequence \in Nat /\ Weight \in [Signers -> Nat]

ASSUME SpendingAssumption ==
  /\ Amounts \subseteq Nat /\ Days \subseteq Nat /\ Ceilings \ {NoLimit} \subseteq Nat
  /\ NoLimit \in Ceilings
  /\ MonthStart \in [Days -> Nat] /\ \A day \in Days : MonthStart[day] <= day
  /\ \A t \in Policies : t.required \in Nat

ASSUME VerdictAssumption == IsFiniteSet(Participants)

ASSUME RecoveryAssumption ==
  /\ Configs \subseteq [Contacts -> SUBSET {"initiate", "approve", "cancel"}]
  /\ Delay \in Nat /\ Window \in Nat /\ MaxTime \in Nat

ASSUME AccessAssumption ==
  /\ SessionTimeout \in Nat /\ MaxFailedAttempts \in Nat /\ RateLimitDuration \in Nat
  /\ NoSession \notin Access!Session

ASSUME ThrottleAssumption ==
  /\ MaxAttempts \in Nat \ {0} /\ TimeWindow \in Nat /\ MaxAuthFailures \in Nat
  /\ BlockDuration \in Nat /\ RuleDuration \in Nat /\ MaxHistory \in Nat

ASSUME ContextAssumption == MaxContextSequence \in Nat \ {0} /\ Unreachable \notin Nat

ASSUME PriceAssumption ==
  /\ ProviderCounts \subseteq Nat \ {0} /\ MaxRetries \in Nat /\ MaxTimers \in Nat \ {0}
  /\ Sockets # {}

ASSUME ScheduleAssumption ==
  /\ Period \in Nat /\ MaxRetries \in Nat /\ MaxNow \in Nat
  /\ IsFiniteSet(Runs) /\ IsFiniteSet(ObjectNames)
  /\ Cardinality(ObjectNames) >= Cardinality(Runs) + 2
  /\ None \notin Schedules!Schedule /\ None \notin Schedules!Objects

ASSUME MixingAssumption ==
  /\ IsFiniteSet(Transactions) /\ Owner \in [Transactions -> Members]
  /\ MaxPoolTime \in Nat /\ Ttl \in Nat
  /\ NotPooled \notin [state : Mixing!States, expiresAt : 0..(MaxPoolTime + Ttl)]
  /\ NotPooled \notin [pendingCount : Nat, totalValue : Nat, hasFailed : BOOLEAN]

ASSUME PlanAssumption ==
  NodeCount \in Nat /\ Graphs \subseteq [1..NodeCount -> SUBSET (1..(NodeCount + 1))]

ASSUME BundleAssumption ==
  StepCount \in Nat /\ Dependencies \subseteq [1..StepCount -> SUBSET (1..StepCount)]

ASSUME NetworkAssumption == Testnet \in Presets

ASSUME ReadsAssumption == MaxVersion \in Nat \ {0} /\ NotCached \notin Nat

ASSUME RateAssumption == Limits \subseteq Nat \ {0} /\ Unit \in Nat \ {0} /\ MaxIdle \in Nat

ASSUME SequenceAssumption ==
  /\ Ttl \in Nat /\ MaxSequence \in Nat /\ Offline \in Nat
  /\ NotCached \notin [account : Builders!Accounts, age : Builders!Ages]

multiSigVars == <<requests, sequence, assembled>>
spendingVars == <<limits, policy, records>>
verdictVars  == <<consensus>>
recoveryVars == <<permissions, copies, clock>>
accessVars   == <<credential, session, call, sinceSuccess>>
throttleVars == <<history, authFailures, blocked, blockLeft, rule, ruleLeft, quiet>>
contextVars  == <<nextSequence, expired, ledger, calls, handed, first>>
priceVars    == <<providerCount, unsubscribed, retryCount, providerIndex, timers, activeProvider,
                  sockets, ws, quit>>
scheduleVars == <<scheduleTime, scheduleOrder, store, heap, run>>
mixingVars   == <<transactions, participants, poolTime, refused, out>>
planVars     == <<dependsOn, phase, colour, stack, cycles, remaining, ready, ordered, parallelGroups>>
orderVars    == <<dependencies, visiting, executionOrder, orderOutcome>>
bundleVars   == <<dependencies, stepStatus, recoverable, bundleStatus, failedSteps, hasCompleted,
                  overlapped>>
networkVars  == <<customNetworks, current, networkStatus, stored, checks, moved>>
walletVars   == <<client, walletSession, live, used, walletCalls, revived>>
readsVars    == <<version, indexed, submitted, marked, tracker, cache, inflight, readCalls, mishap>>
rateVars     == <<limit, tokens, idle, queue, timer, granted, steady, abandoned>>
sequenceVars == <<kinds, ledgerSequence, sequenceCache, composer, build, numbers>>

deciding    == <<multiSigVars, spendingVars, verdictVars, recoveryVars, accessVars, throttleVars>>
ordering    == <<contextVars, priceVars, scheduleVars, mixingVars, planVars, orderVars, bundleVars>>
remembering == <<networkVars, walletVars, readsVars, rateVars, sequenceVars>>

vars == <<part, deciding, ordering, remembering>>

Parts == {"multisig", "spending", "consensus", "recovery", "access", "throttle",
          "context", "price", "schedule", "mixing", "plan", "order", "bundle",
          "network", "wallet", "reads", "rate", "sequences"}

TypeOK ==
  /\ part \in Parts \cup {"none"}
  /\ part = "multisig" => MultiSig!TypeOK
  /\ part = "spending" => Spending!TypeOK
  /\ part = "consensus" => Verdict!TypeOK
  /\ part = "recovery" => Recovery!TypeOK
  /\ part = "access" => Access!TypeOK
  /\ part = "throttle" => Throttle!TypeOK
  /\ part = "context" => Context!TypeOK
  /\ part = "price" => Prices!TypeOK
  /\ part = "schedule" => Schedules!TypeOK
  /\ part = "mixing" => Mixing!TypeOK
  /\ part = "plan" => Planning!TypeOK
  /\ part = "order" => Order!TypeOK
  /\ part = "bundle" => Bundle!TypeOK
  /\ part = "network" => Networks!TypeOK
  /\ part = "wallet" => Wallet!TypeOK
  /\ part = "reads" => Reads!TypeOK
  /\ part = "rate" => Rate!TypeOK
  /\ part = "sequences" => Builders!TypeOK

\* A component that does not run has one configuration. None of them runs while
\* something beside them does.
Init ==
  /\ part \in Parts \cup {"none"}
  /\ MultiSig!Init
  /\ Spending!Init
  /\ Verdict!Init
  /\ Recovery!Init
  /\ Access!Init
  /\ Throttle!Init
  /\ (part # "context" => ledger = 0) /\ Context!Init
  /\ (part # "price" => providerCount = CHOOSE n \in ProviderCounts : TRUE) /\ Prices!Init
  /\ Schedules!Init
  /\ Mixing!Init
  /\ (part # "plan" => dependsOn = CHOOSE g \in Graphs : TRUE) /\ Planning!Init
  /\ (part \notin {"order", "bundle"} => dependencies = CHOOSE d \in Dependencies : TRUE)
  /\ Order!Init
  /\ (part # "bundle" => recoverable = {}) /\ Bundle!Init
  /\ (part # "network" => stored = Testnet /\ customNetworks = {}) /\ Networks!Init
  /\ (part # "wallet" => live = {}) /\ Wallet!Init
  /\ version = (IF part = "reads" THEN 1 ELSE 0) /\ Reads!Init
  /\ (part # "rate" => limit = CHOOSE l \in Limits : TRUE) /\ Rate!Init
  /\ (part # "sequences" => kinds = CHOOSE k \in KindSets : TRUE) /\ Builders!Init

MultiSigStep ==
  /\ part = "multisig" /\ MultiSig!Next
  /\ UNCHANGED <<part, spendingVars, verdictVars, recoveryVars, accessVars, throttleVars, ordering, remembering>>

SpendingStep ==
  /\ part = "spending" /\ Spending!Next
  /\ UNCHANGED <<part, multiSigVars, verdictVars, recoveryVars, accessVars, throttleVars, ordering, remembering>>

VerdictStep ==
  /\ part = "consensus" /\ Verdict!Next
  /\ UNCHANGED <<part, multiSigVars, spendingVars, recoveryVars, accessVars, throttleVars, ordering, remembering>>

RecoveryStep ==
  /\ part = "recovery" /\ Recovery!Next
  /\ UNCHANGED <<part, multiSigVars, spendingVars, verdictVars, accessVars, throttleVars, ordering, remembering>>

AccessStep ==
  /\ part = "access" /\ Access!Next
  /\ UNCHANGED <<part, multiSigVars, spendingVars, verdictVars, recoveryVars, throttleVars, ordering, remembering>>

ThrottleStep ==
  /\ part = "throttle" /\ Throttle!Next
  /\ UNCHANGED <<part, multiSigVars, spendingVars, verdictVars, recoveryVars, accessVars, ordering, remembering>>

ContextStep ==
  /\ part = "context" /\ Context!Next
  /\ UNCHANGED <<part, priceVars, scheduleVars, mixingVars, planVars, orderVars, bundleVars, deciding, remembering>>

PriceStep ==
  /\ part = "price" /\ Prices!Next
  /\ UNCHANGED <<part, contextVars, scheduleVars, mixingVars, planVars, orderVars, bundleVars, deciding, remembering>>

ScheduleStep ==
  /\ part = "schedule" /\ Schedules!Next
  /\ UNCHANGED <<part, contextVars, priceVars, mixingVars, planVars, orderVars, bundleVars, deciding, remembering>>

MixingStep ==
  /\ part = "mixing" /\ Mixing!Next
  /\ UNCHANGED <<part, contextVars, priceVars, scheduleVars, planVars, orderVars, bundleVars, deciding, remembering>>

PlanStep ==
  /\ part = "plan" /\ Planning!Next
  /\ UNCHANGED <<part, contextVars, priceVars, scheduleVars, mixingVars, orderVars, bundleVars, deciding, remembering>>

OrderStep ==
  /\ part = "order" /\ Order!Next
  /\ UNCHANGED <<part, contextVars, priceVars, scheduleVars, mixingVars, planVars, bundleVars, deciding, remembering>>

BundleStep ==
  /\ part = "bundle" /\ Bundle!Next
  /\ UNCHANGED <<part, contextVars, priceVars, scheduleVars, mixingVars, planVars, orderVars, deciding, remembering>>

NetworkStep ==
  /\ part = "network" /\ Networks!Next
  /\ UNCHANGED <<part, walletVars, readsVars, rateVars, sequenceVars, deciding, ordering>>

WalletStep ==
  /\ part = "wallet" /\ Wallet!Next
  /\ UNCHANGED <<part, networkVars, readsVars, rateVars, sequenceVars, deciding, ordering>>

ReadsStep ==
  /\ part = "reads" /\ Reads!Next
  /\ UNCHANGED <<part, networkVars, walletVars, rateVars, sequenceVars, deciding, ordering>>

RateStep ==
  /\ part = "rate" /\ Rate!Next
  /\ UNCHANGED <<part, networkVars, walletVars, readsVars, sequenceVars, deciding, ordering>>

SequenceStep ==
  /\ part = "sequences" /\ Builders!Next
  /\ UNCHANGED <<part, networkVars, walletVars, readsVars, rateVars, deciding, ordering>>

Next ==
  \/ MultiSigStep
  \/ SpendingStep
  \/ VerdictStep
  \/ RecoveryStep
  \/ AccessStep
  \/ ThrottleStep
  \/ ContextStep
  \/ PriceStep
  \/ ScheduleStep
  \/ MixingStep
  \/ PlanStep
  \/ OrderStep
  \/ BundleStep
  \/ NetworkStep
  \/ WalletStep
  \/ ReadsStep
  \/ RateStep
  \/ SequenceStep

Spec == Init /\ [][Next]_vars

-----------------------------------------------------------------------------
\* Behind every verdict stands its quorum: different declared signers behind a
\* request that is ready or executed, different approvers behind an authorised
\* payment, the threshold and no rejection behind a final consensus, contacts
\* who still have their say behind a recovery.
QuorumBehindEveryVerdict ==
  /\ part = "multisig" => MultiSig!SignaturesSuffice
  /\ part = "spending" => Spending!ApprovedByEnough
  /\ part = "consensus" => Verdict!FinalHasQuorum
  /\ part = "recovery" => Recovery!CompletedHasQuorum

\* An authorisation is assembled once (multiSigExecution.ts).
AssembledOnce == MultiSig!AssembledOnce

\* A period's spending never grows beyond its limit (spendingPolicy.ts).
WithinLimits == Spending!WithinLimits

\* What is trusted is recent: no stale copy of a session keeps a wallet open
\* longer (authenticationManager.ts), a health verdict is about the network it is
\* shown for unless that changed meanwhile or a listener threw at the verdict
\* (networkSwitcher.ts), the session to sign with still exists (walletconnect.ts), a
\* read shows our own writes unless it overlapped them (contractStateTracker.ts), and
\* a cached sequence number rests on a recent answer (buildTransaction.ts, compose.ts).
NothingStaleIsTrusted ==
  /\ part = "access" => Access!AccessIsRecent
  /\ part = "network" => Networks!VerdictFits
  /\ part = "wallet" => Wallet!HeldIsLive
  /\ part = "reads" => Reads!ReadYourWrites
  /\ part = "sequences" => Builders!CacheIsHonest

\* Overlapping builds use each sequence number once and leave no gap behind,
\* however late an answer of Horizon is adopted (transactionContext.ts), and builds
\* that follow one another do not repeat a number (buildTransaction.ts, compose.ts),
\* but for those that note none: a payment with its trustline, and a swap.
SequencesInOrder ==
  /\ part = "context" => Context!NoSequenceTwice /\ Context!NoGap
  /\ part = "sequences" => Builders!NumbersGoOn

\* What depends on something comes after it: the search for cycles and the levels
\* of a plan agree on every graph (dependencyGraph.ts), an order of execution has
\* every step behind its dependencies, and the steps of a bundle run in that order,
\* through failures and recoveries, and wait or end for a reason (bundles.ts).
DependenciesComeFirst ==
  /\ part = "plan" => Planning!PlanIsSound
  /\ part = "order" => Order!OrderIsTopological
  /\ part = "bundle" =>
       Bundle!RunBehindDependencies /\ Bundle!WaitingHasReason /\ Bundle!CompletedForGood

\* An origin that waits is let in again (throttlingCore.ts), a price
\* subscription does not fall silent between the events of its old sockets and
\* of its new ones (priceSubscriptions.ts), a network that is being checked has a
\* check under way (networkSwitcher.ts), and who queues for a token has a timer
\* (shared/utils.ts): in both until an observer of the application throws, and
\* then until the next check, or the next request that queues.
NobodyIsStuck ==
  /\ part = "throttle" => Throttle!WaitingHelps
  /\ part = "price" => Prices!NeverSilent
  /\ part = "network" => Networks!CheckingEnds
  /\ part = "rate" => Rate!WaitersHaveTimer

\* What is counted is what there is: the transactions of a mixing pool and of its
\* participants (transactionMixing.ts), the grants of a second (shared/utils.ts).
BooksBalance ==
  /\ part = "mixing" => Mixing!HandedOutOnce /\ Mixing!ParticipantsCount
  /\ part = "rate" => Rate!WithinRate

\* A schedule that is done stays done once no run holds it (scheduler.ts).
DoneIsDone == Schedules!DoneIsDone
=============================================================================
