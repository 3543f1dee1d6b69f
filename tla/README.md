# Verification of sorokit-core

TLA+ models, TLC runs and TLAPS proofs for sorokit-core, a TypeScript SDK for
Stellar and Soroban (`src/`). All paths below are relative to the repository.
`PROJECT.json` lists the runs, the lines each definition stands for, the
hazards of the code and the theorems.

The SDK runs on one JavaScript event loop. Code between two `await`s is atomic;
everything else interleaves: overlapping calls, timers, promise continuations,
answers of Horizon and of wallets that come late or not at all, and callbacks
of the application that throw. That is where the models look. Little survives a
restart: the selected network in the browser's storage (`NetworkSwitcher` has a
restart), the ids that the caller of a batch says are completed
(`BatchOperations`), and the copies of a recovery that an application keeps
(`RecoveryWorkflow`).

## Inventory

| Component (source under `src/src/`) | State it keeps | Operations | What is hard | What makes it correct |
|---|---|---|---|---|
| Circuit breaker (`network/circuitBreaker.ts`) | state, consecutive failures, `lastOpenedAt` | `call`, `currentState`, `reset` | outcomes arrive after the circuit has changed | a closed circuit can still trip; once it has tripped, a whole window passes before anything but `reset()` touches it; it reopens for callers |
| Connection pool (`network/connectionPool.ts`) | per origin an object with a counter, a queue, an idle timer | `fetch` (acquire, release), `close` | waiters are promised a slot before they count themselves; objects outlive their map entry | slots are counted and handed on, waiters are served |
| Submission path (`client/createSorokitClient.ts`, `transaction/submitTransaction.ts`, `shared/{timeout,utils,serverFactory}.ts`) | breaker, pool, the progress of each call | `client.transaction.submit` | the guard answers while the call goes on; retries; pools replaced meanwhile | it resolves, leaks nothing, one submission is one call of the breaker |
| Transaction queue (`transaction/transactionQueue.ts`) | a `Map` of entries with status, priority, dependencies, retry count | `enqueue`, `cancel`, `clear`, `markCompleted`, `markFailed`, the interval | batches overlap; reports race with the rejection of a batch; ids are reused | retries bounded, outcomes final, ready transactions dispatched, dependencies respected |
| Event subscription (`soroban/subscribeContractEvents.ts`) | last ledger, seen ids, a timer | polls, gap recovery, unsubscribe | ledgers close between requests; any request fails; the callback throws; the cache evicts | no event twice, none out of order, none lost without a reason; polling continues |
| Multi-signature execution (`soroban/multiSigExecution.ts`) | requests, signatures, status, a sequence for ids | create, sign, execute, cancel, clear | status is recomputed from the caller's clock, ids start again after `clear` | assembled once, behind the threshold of different declared signers |
| Scheduler (`transaction/scheduler.ts`) | schedules in a store that hands out its objects | schedule, cancel, process due | `await` between reading and updating a schedule; objects shared by runs | what is done stays done; nothing stays due for ever |
| Consensus, bundles, planning (`transaction/{consensusCore,bundles,dependencyGraph}.ts`) | approvals, step status, the stacks of a search | approve, reject, finalise; run, skip and recover steps; plan | any order of approvals; a recovery that works through an old list | final means the threshold; steps follow dependencies; a plan leaves nothing out and no cycle is missed |
| Spending policy (`transaction/spendingPolicy.ts`) | usage and reservations by period | evaluate, approve, complete, fail | release of what has completed | a period's limit is never exceeded |
| Webhooks, notifications (`transaction/{webhooks,paymentNotifications}.ts`) | registrations, deliveries | register, trigger, attempt | registrations change while attempts are under way | every endpoint is tried, a report is true, every trigger ends |
| Streams (`transaction/{priceSubscriptions,streamTransactions,subscriptions}.ts`, `streaming/`) | cursor, connection, timers, failures | subscribe, poll, reconnect, unsubscribe | close and error both reconnect; filtered pages; retries | never silent for no reason; no record passed over, repeated or out of order |
| Transaction status (`transaction/status.ts`, `shared/cache.ts`) | cached status | poll | stale answers are cached late | a final status is not hidden |
| Wallet authentication (`wallet/authentication/`) | failed attempts, lock, session, in an asynchronous store | set up, unlock, lock, access, reset | calls overlap: each writes back what it read | access only for so long after a secret was shown |
| Signing limiter (`wallet/signingRateLimiter.ts`) | queue, timer, time of the last execution | enqueue, cancel, clear, the timer | its callback awaits the wallet while others arm the timer | executions keep their distance, no request is forgotten |
| Connection throttling (`wallet/throttlingCore.ts`) | history of attempts, failures, block, rule | attempt, report, reset | windows and blocks overlap | who waits is let in again |
| Wallet sessions (`wallet/`) | session, client, delegations | connect, approve, disconnect, sign | the wallet ends sessions; calls overlap | the session to sign with still exists |
| Network selection (`network/{networkSwitcher,endpointFailover,fallback,adaptiveRateLimiter}.ts`) | current network, its health, endpoint cursor and failures | switch, add, remove, check health, fetch with failover | a switch during a health check; requests that overlap | a verdict is about the network it is shown for; every endpoint is tried again |
| Retry, limiter, deduplication (`shared/utils.ts`, `network/requestDedup.ts`) | tokens, promises under way | acquire, dedupe | entries deleted by a predecessor | one request per key; the rate holds |
| Contract state (`soroban/{contractStateTracker,readContract,contractStateOptimization,executeContract}.ts`) | revisions, cached results, shared requests, encoded states | read, mark modified, invalidate, compress, restore | a check in flight overlaps markings and readers; boundary values | a read shows our own writes; what is read back is what was written, or is refused |
| Accounts (`account/`) | streams with alerts, recovery requests, batches | stream, approve and execute a recovery, run a batch | throwing callbacks, stale copies, retries of what took effect | crossings are reported, contacts' threshold holds, every operation has one outcome |
| Event archival (`soroban/eventArchival/`) | batch, timer, flushes under way | archive, flush, stop | flushes overlap, the storage fails | an event is stored, reported or still to be stored |
| Transaction construction (`transaction/{transactionContext,buildTransaction,buildHelpers,compose,claimableBalance,pathPayment}.ts`) | next sequence number, two caches of sequence numbers, the fluent builder | build, reset, validate; compose; split a payment; convert a claim's condition | builds overlap and hold accounts through awaits; rounding; nested conditions | numbers are used once and without a gap; a cached number is recent; the plan is cheapest; the condition is the one meant |
| Transaction history (`transaction/{queryTransactionHistory,exportTransactionHistory}.ts`) | cursor and rows of a reading | query, export | pages fall anywhere, transactions arrive meanwhile | no row missing or twice |
| Mixing pool (`transaction/transactionMixing.ts`) | transactions and participants | add, take a batch, report, expire | what is refused after it was counted | nothing handed out twice; participants count what they have |
| Fees, governance, privacy, validation, logging, metrics, test doubles | statistics, configuration | functions over them | little of it concurrent | not modelled |

How they interact: the client wraps every operation in `runWithTimeout`, which
hands an abort signal down; `transaction.submit` then waits for the rate limiter
and calls `submitTransaction`, which runs `retryWithBackoff` inside the circuit
breaker; each attempt creates a Horizon server whose `fetch` is that of the
pool that is configured at that moment. The queue and the event subscription
stand by themselves and call back into the application.

## Modules

**CircuitBreaker.** `breaker` is the object's fields, `inFlight[c]` the state in
which the call of `c` was admitted. `Admit` is `call()` up to `await fn()`,
`Settle` the rest of it, `Query` the lazy transition made by `currentState`,
`getMetrics` and a refused call. `failures` saturates at the threshold and `age`
(`Date.now() - lastOpenedAt`) at the window, the only values the code compares
them with. So the state space is finite without a bound on the behaviours. `WindowIsServed`
speaks of the window only: once it is over the circuit is HALF_OPEN, and any outcome
that arrives decides, a straggler's as well as a probe's (see below).

**ConnectionPool.** `origin` is the map's entry, `active` and `queue` are the
fields of each `OriginState` object, `req[r]` where a request is and which object
it holds. A waiter that `release()` has resolved is `granted` until its
continuation (`Resume`) counts it: between the two other continuations run, but
no timers (`Drained`). `Close` and `IdleExpire` drop the entry only. `States`
bounds how many objects are alive at once.

**SubmissionPath** composes both: `Breaker == INSTANCE CircuitBreaker`,
`Pool == INSTANCE ConnectionPool WITH Requests <- Calls`, and each of its actions
is a step of the call conjoined with the step it causes in them. Calls in
`Guarded` come through the client with a timeout; the others call
`submitTransaction` directly. Horizon is external: any attempt may be answered
with success, a permanent error, or one of the transient errors, and the guard
may fire at any moment.

**TransactionQueue** (**MCTransactionQueue** gives its constants values).
`order` is the insertion order of the `Map`, `queue` its entries, `flight[f]` a
batch that `submissionFn` works on, `dispatched` a history variable. The reports
`markCompleted` and `markFailed` come from the flight that has the transaction
in its batch, which is how the interface's documentation has it used.
`LevelsOf` says which priorities each id is queued with.

**EventSubscription.** `pc` is where `poll()` awaits, `lastProcessed`, `seen` and
`active` are its closure's variables, `delivered` and `excused` history
variables: what the callback got, and the ledgers whose events it may miss
(older than the subscription or the recovery window, not readable, or dropped
because the callback threw). One event per ledger at most, so that a ledger's
number names its event. Horizon (`CloseLedger`) moves on at any time.

**SigningRateLimiter.** `queue` is `_queue`, `armed` and `wait` are the timer, `elapsed`
is `Date.now() - _lastProcessedAt` saturated at the interval, `executing` the
requests whose `execute()` is awaited. `Start` is the timer's callback up to that
await, `Finish` the rest with its `finally`. `rest` is a history variable, the real
time since the last start, so that the rate is not judged by the code's own clock.

**Scheduler.** `store` and `order` are the in-memory store's `Map`, `heap` the contents
of the schedule objects, `run[r]` a call of `processDueSchedules` with its `now` and
the set of objects it has not done with, of which the first in the `Map`'s order is
being executed. Identities matter: `list` and `get` hand out the
stored objects, `save` stores a copy, so a run may work on an object that others
see, or on one that the store has replaced. An object is a schedule's id and one
of `Copies`; with one in the store, one held by each run and one being made, two more
than there are runs are always enough (this is `ScheduleAssumption`, and is proved).

**Components that decide whether something may happen.** In **MultiSigExecution**
every operation brings its own clock and stores the status it finds by it;
`assembled` is a history variable. **SpendingPolicy** keeps usage and
reservations by day and month, and lets requests be dated at will.
**Consensus** is one entry of the store with its three sets of participants.
**RecoveryWorkflow** lets the application go on with any copy of a request and
with a configuration in which contacts lost their say. **Authentication** splits
each call at its awaits: what it read is in `call`, what it writes back is
made of that. **ConnectionThrottling** is one origin, its ages saturated at the
window.

**Components that order what happens.** **TransactionContext** is a builder
context whose fetches (`StartFetch`, `Serve`, `Refresh`) overlap its builds
(`StartBuild`, `Allocate`); `handed` holds the numbers that transactions were
given. **SequenceCache** is one of the two caches of `buildTransaction.ts` and
`buildHelpers.ts` with the builds that use it, each split at its request and at
its fee estimate; builds of kind "silent" are the two that take a number from the
cache and note none; `composer` is the fluent builder's state, which its caller
changes meanwhile, and `record` a history variable. **PriceSubscription** lets
the events of every socket that was ever opened arrive at any time.
**MixingPool** has the refused amount that is counted before it is parsed.

**Components that put things behind what they depend on.** **DependencyGraph** takes
one turn of a loop per action: a frame of the search's stack holds the dependencies
that are still to be followed, a cycle is the set of its edges (the same wherever the
search entered it, as the rotated list of the code is), and the levels follow. **ExecutionOrder**
is `resolveExecutionOrder` with the stack of its recursive calls in a variable.
**Bundles** takes one operation per action; `failedSteps[r]` is the rest of the list
that a call of `recoverBundle` works through, whatever becomes of its steps meanwhile.

**Components that remember what was read.** **NetworkSwitcher** (health checks
that look at the current network again after each await, and whose listeners may
throw at each status they set; restarts from the storage), **WalletConnectSession**
(the adapter's session beside the client's store), **ContractReads** (tracker,
result cache, shared requests and executions of one contract), **RateLimiter**
(token bucket, waiters, timer, headers of answers, and an `onMetricEvent` that may
throw out of the middle of `acquire` and of the drain) and **StateCodec** (a value
encoded, perhaps damaged, and decoded; `behind` is what lies in the buffer after a
payload that is a view of it, where the code's reader of doubles goes on).

**Components that promise something in the end.** **EventArchival**,
**EndpointFailover**, **TransactionStream** and **AccountStream** (which share
**StreamingRetry**, the answer to a failing poll), **Notifications**,
**BatchOperations**, and the scheduler again, for its liveness.

**Algorithms.** **SplitPayment** (rank quotes, fill them, round up),
**ClaimPredicates** (check a condition and convert it) and **HistoryPages** (read
a history page by page, for the export and for the query) are compared with what
their results mean: every other allocation, the truth of a condition at every
instant, the rows of the whole history.

**Components** puts the eighteen that decide, order, put in order and remember (but
for the codec) side by side, with all their parameters as its own, and
states what the proofs assume of them. They share
no state that changes, so that any behaviour of all of them is a behaviour of each; `part` says which
one runs, and the others keep one initial state. States add up instead of
multiplying, and one property asks the same question of several components
(`NothingStaleIsTrusted`, `NobodyIsStuck`). **MCComponents** gives the parameters their
values and adds the algorithms, one of which runs when `part` is "none". **Streams**
does the same as Components for those that promise something in the end
(`EverythingHasItsTurn`), and **MCStreams** gives it its values. The instances
and their bounds are in the MC modules and their configurations, each with the reason
beside it.

**Filtering** is the order-preserving filter that the stream of transactions and the
batches share, written without recursion so that it can be proved about.

**SubmissionPathProofs, TransactionQueueProofs, EventSubscriptionProofs,
ComponentsProofs** and **StreamsProofs** hold the theorems; CircuitBreaker,
ConnectionPool and SigningRateLimiter hold their own.

## Runs that pass

| Run | Question | Bounds, and why they suffice |
|---|---|---|
| `circuit_breaker` | Do the threshold and the recovery window survive calls that overlap the transitions? Does the circuit stop refusing once transient failures stop? | Three calls: one trips the circuit, one is a straggler, one probes. Threshold 2, so that a count below it exists; window 2, so that the clock can be restarted half way. |
| `connection_pool` | Are slots counted and handed on, also in dropped objects; is every waiter served? | Three requests on one slot: a holder, a waiter and a newcomer that overtakes. Two objects: one dropped, one in the map. |
| `submission_path` | Is the path an implementation of the breaker (`ImplementsBreaker`), does every submission resolve and leave nothing held? | A guarded and an unguarded call sharing one slot, two attempts each, with the pool configured, removed and closed at any time. |
| `transaction_queue` | Do retries stay in budget and outcomes stay put; are ready transactions dispatched? | Two batches in flight, three ids in a queue of two (so ids are refused and reused), one of low priority that others overtake, one retry, every dependency set. |
| `event_subscription` | No duplicate, no reordering, no gap without a reason; does polling go on? | Five ledgers against a recovery window of two: gaps of one, within the window and beyond it; a cache of three entries, so it evicts. |
| `signing_limiter` | Do executions keep their distance; is any queued request forgotten or starved? | Four requests with three places: one being signed, others queued, cancelled, cleared and coming back. An interval of two ticks, so that part of it may have passed. |
| `components` | Is a quorum behind every verdict; is what is trusted recent; do numbers, steps and books stay in order; is nobody stuck; do the algorithms give what they mean? | Two overlapping calls of each kind, two signers and three contacts, windows and lifetimes of one or two ticks, all graphs of three nodes and bundles of three steps (one of which may depend on itself), a pool of two transactions in batches of one, values on either side of each boundary of the codec, up to three quotes, conditions up to depth two, histories of up to four transactions read by pages of two. |
| `streams` | Is nothing lost without a cause, and does everything have its turn? | Two events and two flushes; three endpoints; three transactions, one of them filtered, in pages of two; balances below, on and above a threshold; two endpoints and a channel; three operations on two workers, with and without an id used twice; two overlapping runs of a scheduler. |

`components` uses symmetry over the overlapping calls, which no module tells apart
or chooses among; it checks no liveness. `streams` has
liveness and no symmetry.

What the properties of `components` stand for:

| Property | Parts |
|---|---|
| `QuorumBehindEveryVerdict` | `SignaturesSuffice`, `ApprovedByEnough`, `FinalHasQuorum`, `CompletedHasQuorum` |
| `NothingStaleIsTrusted` | `AccessIsRecent`, `VerdictFits`, `HeldIsLive`, `ReadYourWrites`, `CacheIsHonest` |
| `SequencesInOrder` | `NoSequenceTwice`, `NoGap`, `NumbersGoOn` |
| `NobodyIsStuck` | `WaitingHelps`, `NeverSilent`, `CheckingEnds`, `WaitersHaveTimer` |
| `AlgorithmsAreSound` | `RestoredOrRefused`, `PlanIsGood`, `MeaningIsKept`, `PagesAreComplete` |
| `DependenciesComeFirst` | `PlanIsSound`, `OrderIsTopological`, `RunBehindDependencies`, `WaitingHasReason`, `CompletedForGood` |
| `BooksBalance` | `HandedOutOnce`, `ParticipantsCount`, `WithinRate` |
| `AssembledOnce`, `WithinLimits`, `DoneIsDone` | of multi-signature execution, spending policy, scheduler |

Bounds of the models are the constants `States`, `Flights`, `MaxLedger`,
`Copies`, `MaxNow`, `MaxTime`, `MaxSequence`, `MaxVersion`, `MaxHistory`, `MaxTimers`,
`MaxIdle`, `MaxChanges`, `MaxTransactions`, `MaxDeliveries`, `MaxAtOnce`, `MaxFailures`
and `MaxRecords`; all other counters saturate or are reset by the code. Deadlock is
not checked where a system may stop for good: an unsubscribed subscription or
stream, a plan that is made, a batch or a schedule that is done. In the runs of
breaker, pool, path, queue and limiter a deadlock would be an error.

The cache size of `event_subscription` is a condition of `NeverTwice`, not only a
bound: with `DedupMaxSize = 2` and the same window TLC finds an event delivered
twice. A poll whose callback throws is repeated from the old ledger, and by then
its own recovered events may have pushed each other out. Applications that lower
`deduplicationMaxSize` below what one recovery can bring lose the guarantee.

Every property has a mutant (an operator whose comment starts with "Mutant:",
before the definition that it takes the place of): a plausible slip of the code in
whose presence TLC finds the property violated.

## Runs that are violated

Each states what a comment or document of the repository says.

| Run | The text | What the code does |
|---|---|---|
| `scheduled_twice` | "Execution is idempotent: re-running a schedule that has already completed is a no-op." (`scheduler.ts:5`) | overlapping calls of `processDueSchedules` execute a one-time schedule twice |
| `lost_subscription` | "keep the subscription alive" (`subscribeContractEvents.ts:431`) | an error status ends the polling |
| `stream_backwards` | "Useful for streaming only new transactions." (`streamTransactions.ts:96`) | in the default order "desc" the cursor becomes the oldest record of a page: the next polls walk into the past and a new transaction is never yielded |
| `timed_out_twice` | "`maxRetries` cannot duplicate a completed/possibly-submitted operation" (`batchOperations.ts:16`) | an operation that timed out but took effect is built, signed and submitted again |

## Read off the code

Modelled as the code has it or met while reading, without a run of their own.

*Submission.* While the circuit is HALF_OPEN `call()` admits every call, not "one probe"
(`circuitBreaker.ts:142` and `:147`); the proved properties hold for any number. Nor
does it have to be a probe that decides: after the window `currentState` or `getMetrics`
makes the circuit HALF_OPEN without admitting anybody, and a call that was admitted
while it was CLOSED then closes it by its success (`:192`) or opens it for another
window by its failure (`:207`). An `onStateChange` that throws is not modelled: out of
`reset()` it leaves the count of failures as it was (`:168`), and out of a success it
makes the call fail. A newcomer takes the slot that was announced to a waiter, which
counts itself on top (`connectionPool.ts:69`; "Maximum concurrent requests per origin.",
`:2`). A call that waits in the limiter, the backoff or the pool's queue when the guard
fires is sent afterwards, since nobody reads `signal.aborted` (`connectionPool.ts:95`).
A timeout followed by a retry with another error is reported as failed
(`submitTransaction.ts:181`). With a signal and without a pool, `createHorizonServer`
refers to a function that is defined nowhere (`serverFactory.ts:109`; the action
`SendUndefined`). A rejected batch returns a completed transaction to pending, behind
its dependents (`transactionQueue.ts:471`), and a dependency that failed or was
cancelled leaves its dependents pending for ever (`:290`). Reports are looked up by id,
so that a late `markCompleted` of a transaction that was cleared and queued again
completes the new entry (`:315`). A run of the scheduler saves the object that it
listed, and what an overlapping run recorded in another one of the schedule is lost
(`scheduler.ts:219`). A schedule that is cancelled while a run executes an earlier one
is executed nevertheless (`scheduler.ts:192`).

*Approvals.* After `clear()` the multi-signature sequence starts again and ids are
reused; an expired request is revived by an older clock. `rejectRequest` and
`markFailed` release the capacity of completed requests too
(`spendingPolicy.ts:489`). One participant may approve and reject, and a
finalised transaction may still be rejected (`consensusCore.ts:164`). Older copies
of a recovery stay pending and can be executed again. Overlapping unlocks lose
failed attempts, and a failed unlock writes an unlocked session back over a later
lock. `resetOriginState` removes one entry of the history of an origin.

*Sequence numbers.* `compose().estimateFee(mode).build()` counts the account twice: the
transaction it returns has the account's sequence plus two (`compose.ts:721` and `:745`,
although `:778` says "used only for fee estimation"). The fluent builder reads its state
again after its awaits: an override that is cleared under a build gets the given number
cached. Builders of `buildTransaction.ts` and of `buildHelpers.ts` have a cache each,
although the comment says "shared across builders" (`buildTransaction.ts:52`): used in
turn they hand out the same number. `buildPaymentWithTrustline` and
`buildSwapTransaction` take the cached number and never note theirs
(`buildTransaction.ts:718` and `:791`): with a warm cache two of them in a row, or one
and any other build, get the same number. `NumbersGoOn` says so: after them the cache is
one behind. Overlapping builds with `autoFetchSequence` get the same number, and the
straggler takes the cache back. `invalidate()` during a refresh of a transaction context
is undone; a transaction that is handed out and never submitted leaves a gap for those
behind it.

*Payments, claims, history.* The first leg of a split may be below the smallest
leg (`pathPayment.ts:500`; "Reject plans containing a leg smaller", `:420`), a
limit on paths may report too little liquidity though other routes have it, and a
malformed minimum throws. An `or` of disjoint times is refused though it can be met,
and absolute times are compared with relative ones (`claimableBalance.ts:309`).
`hasMore` stays true once a full page was read; a page sorted by anything but the
date, or the ledger, is cut out of a sorted prefix of the history; an early exit
makes `nextCursor` skip records (`queryTransactionHistory.ts:265`); an export with
limit 0 has a row.

*Contract state.* A date, a map or an instance of a class is encoded by its own keys,
of which it may have none, and comes back as a plain object
(`contractStateOptimization.ts:319`), although "unsupported values fail safely instead
of producing corrupted output" (`:12`). A double is read through a view of the whole
buffer (`:229`): a payload that is cut short as a view of a larger buffer may be read
to the end with bytes that do not belong to it, and only the fingerprint notices.
gzip ignores what follows its end and part of its header. That a double may be read as
NaN is left out.

*Mixing pool.* A participant's `pendingCount` and `totalValue` go up with every
transaction and down when one expires; taking a batch and reporting it as submitted
leave them alone. So they count shuffled and submitted transactions too, while they
are documented as "Number of pending transactions" and "Total value of pending
transactions" (`transactionMixing.ts:56` and `:58`). `ParticipantsCount` is about what
they count, not about that text; only the cleanup reads them, and `getPoolState()`
counts pending transactions by their state.

*Streams and storage.* A throwing callback of the account stream makes the poll a
failed one and repeats events. `exists()` is asked outside the `try` of a flush: if
it rejects, the batch is gone without a report. After unsubscribing, an event of a
poll in flight is still delivered (`subscribeContractEvents.ts:421`). Error and
close of a price socket both schedule a reconnection, and a clean close ends the
subscription silently. The failover pool rotates, although its documentation has the
first endpoint as the primary (`endpointFailover.ts:41`). A notification channel gets
one attempt (`paymentNotifications.ts:403`), although its interface says that a failed
one "is retried like a failed webhook delivery" (`:135`); `EverythingHasItsTurn` asks
that the channel's outcome is reported, not that it is retried.

*Caches and networks.* A check of a contract's revision that is in flight when the
contract is marked writes its old entry back; after a marking, results of the old
revision may be read if the tracker's entry expires before they do. A health verdict
lands on the network that is current when it arrives. A listener that throws at
"checking" rejects the check before its `try` and leaves the status there until the
next check or switch (`networkSwitcher.ts:190`); one that throws at the verdict makes
it "down", whatever the network answered (`:210`). `session_delete` of any
WalletConnect session clears the current one, and an approval after `disconnect()`
brings a session back. A limit below one request a second never yields a token, and
newcomers pass the queue of the token bucket. An `onMetricEvent` that throws loses a
newcomer its token (`shared/utils.ts:331`), or a waiter its turn for good: the function
that would resolve it has left the queue (`:344`). The drain ends there,
before it would arm the timer again (`:317`), and those behind have none until the
next request that has to queue.
A transaction whose amount is no
number stays in the mixing pool after it was refused, and its expiry makes the
cleanup throw. `findCycles` does not find every cycle ("Find every dependency
cycle", `dependencyGraph.ts:99`), only one where there is any. Lone surrogates and
the key `__proto__` are compressed but refused on reading. A duplicate id in a batch
with one worker leaves the rest of the queue unrun (`batchOperations.ts:297`). A
bundle's step behind a skipped one never becomes executable (`bundles.ts:183`).

## Fairness

Only what the event loop and the code's own timers guarantee is fair. Time
passes (`Tick`). Promise continuations run (`Resume`, `Proceed`). A request ends,
because the pool aborts it after `socketTimeoutMs`, the guard aborts it, or the
server times it out (`Release`, `Respond`, `PollEnds`, `RecoveryEnds`, `Answers`,
`ProbeAnswers`, `Answer`); an attempt of a notification has a timeout of its own, and
the storage of an archive settles (`StorageAnswers`), without which a flush
would never end. The timers of the queue, the subscription, the signing limiter, the
archive and the streams fire (`Dispatch`, `Poll`, `Start`, `FireIdle`, `TimerFires`,
`Wake`), `processDueSchedules` is called periodically, as its comment has it
(`Begin`), and the wallet, `execute` and the runners of batches settle (`Finish`,
`Succeed \/ Fail`, `Runs`): a wallet prompt that nobody ever answers does hold back
those queued behind it. `submissionFn` ends: the queue hands a batch over and has no
use for a function that never settles (`Resolve \/ Reject`). That every endpoint is tried
again supposes that an application keeps asking (`Request`).

Fairness is weak, with one exception. `PageArrives` and `PollSucceeds` are strongly
fair: Horizon does not fail for ever, though it may fail any number of times between
two answers. Nothing obliges an application to call otherwise, a ledger to close, a pool to
be replaced or a circuit to be reset.

## Proofs

TLAPS proves for every value of the constants, under the modules' assumptions
(thresholds and sizes are naturals, those that must be are not zero, the set of
requests is finite, sentinels are none of the values they stand apart from):

* **CircuitBreaker**: `TypeOK`, `ClosedBelowThreshold`, `WindowIsServed`. A failure
  that brings a closed circuit to its threshold trips it in the same step, and
  every way to CLOSED clears the count. For the window the invariant adds
  `HalfOpenHasWaited`: HALF_OPEN has a whole window behind it, so that what is not
  closed and has waited less is OPEN, which outcomes leave alone (`WaitingStep`).
* **ConnectionPool**: `TypeOK`, `ActiveCounts`, `NoSlotIdleWhileQueued`. The
  inductive invariant adds `QueueHoldsWaiters`, that a queue holds exactly the
  waiting requests of its object, once each. Without it the request `release()`
  takes from the queue need not turn from waiting into granted; without
  `ActiveCounts` the decrement under `Math.max` need not free a slot.
* **TransactionQueue**: `TypeOK`, `WithinRetryBudget` and `SettledOnceLanded`. The
  number of submissions is not tied to the retry count step by step, because a
  transaction may be reported failed twice for one submission. `BudgetInv` says
  that a pending entry was submitted `retryCount` times at most and may be retried,
  and another entry once more; `OrderInv`, that the insertion order lists each
  queued id once.
* **SubmissionPath**: `TypeOK`; `ImplementsBreaker`, the refinement of the breaker's
  specification with the identity as its mapping, each action of the path being a
  step of the breaker or none; and `NothingLeaks`. For the latter the invariant
  says where a call may be while it holds something (`HoldInv`), and that queues hold
  requests that wait in them, each once (`QueueInv`), because a release changes the
  state of another call. `TypeOK` takes the type of the breaker from the steps the
  refinement finds, and needs that a call under way has an attempt left (`CallTyped`)
  for the count of attempts to stay within `MaxAttempts`.
* **SigningRateLimiter**: `TypeOK`, `QueueIsServed`, `NeverTooFast`. The invariant adds
  `Paced`: an armed timer does not fire before the rest of the interval is over.
* **EventSubscription**: `TypeOK`, `NothingSkipped`, `NeverTwice`, `InLedgerOrder`.
  `Complete` says of every moment of a poll which ledgers are delivered, excused or
  still to come, and gives `NothingSkipped`. `Memory` says which delivered events
  are still in the cache, and gives the other two, under `WindowFits`: the cache
  holds the events of one recovery and of those that a repeated one may bring
  (`2 * RecoveryLedgers - 1 <= DedupMaxSize`). The defaults satisfy it by far, and it
  is tight: a window of two with a cache of two gives a duplicate.
* **Streams** (in StreamsProofs): `TypeOK` and `NothingFallsBetween`, of which
  `ArchiveInv` ... `BatchInv` are the inductive invariants (see below).
* **Components** (in ComponentsProofs): `TypeOK`, `QuorumBehindEveryVerdict`,
  `NothingStaleIsTrusted`, `SequencesInOrder`, `NobodyIsStuck`, `DependenciesComeFirst`,
  `BooksBalance`, `AssembledOnce`, `WithinLimits` and `DoneIsDone`. Each component has an inductive
  invariant of its own (`MultiSigInv`, `SpendingInv` ... `SequenceInv`), and
  `EveryInv` says that the component that runs satisfies its own. What the invariants
  add to the properties they imply:

  | Component | What is needed, and why |
  |---|---|
  | MultiSigExecution | `IdsAreBehind`: no id that is stored or was assembled is ahead of the sequence, without which an id could be given out again after a cancellation. `AssembledIsExecuted`: `recompute()` with any clock leaves an executed request alone. `RequestsAreGenuine`: a request's signatures are those of different declared signers, and their weights add up to the threshold once it is ready. |
  | SpendingPolicy | `RecordsAreApproved`: approvals are of different people, and those that were asked for. That the sum of a period grows only by the amount that was evaluated is shown of every way to change one record (`SumInc`, `PointwiseNeg`, `SumLe`). |
  | Consensus, RecoveryWorkflow | Nothing beside the type. |
  | Authentication | `SoundCall`, `SoundStatus`: every copy of the session that a call has read, and will write back, has aged as the stored one, and says unlocked only if a secret was shown within the timeout. |
  | ConnectionThrottling | `Aged`, `EndsInTime`: attempts are no younger than the quiet, and the rest of a block and the quiet that went before fit in a window and a block. |
  | TransactionContext | `AnswersArePast`: an answer under way is no higher than the ledger, so that what is adopted does not pass what was handed out. |
  | PriceSubscription | Nothing beside the type: every handler that gives up a socket arms a timer, tries the next one or ends the subscription in the same step. |
  | Scheduler | `HeldIsListedOnce`, `CreatedIsStored`, `FailuresCounted`: what runs hold exists, one object of a schedule each; so there is a fresh object for `save` and the failures stay in range. |
  | MixingPool | `BooksAgree`: a participant's counts are the cardinalities of the sets they stand for, the refused amounts taken out of one of them. |
  | DependencyGraph | `SearchPath`: while no cycle is found, a dependency that a frame has followed is black or is the next frame. `CyclesFound`: then no set of nodes each of which depends on one of the set has a black node, so that a search which ends without a cycle has shown that there is none, without any induction over paths. `Levelled`: the counters are the dependencies outside the groups, what is ready is what has none, and the members of a group depend on the one before it; the nodes that would be left over depend on each other in a circle. |
  | ExecutionOrder | `PathFits`, `VisitedInOrder`: the same of the recursive visit, and each step is behind its dependencies from the moment it is appended. |
  | Bundles | `RanBehind`: what is on a recovery's list has its dependencies completed too. `RecoveredAlone`: while no two recoveries overlap, the first of the list is in recovery, the others are failed, and what completed is completed. That waiting has a reason is shown of the waiting step that has the fewest steps before it. |
  | NetworkSwitcher, WalletConnectSession | `AsksCurrent`: a check that no change of the network overtook asks the current one, and what it heard from Horizon is about it. Listeners that threw are in `moved.thrown`, so that the "down" and the "checking" which they leave are told apart. Of the adapter: a session that a `disconnect()` is ending was not taken up again, or is known to have been. |
  | ContractReads | `LedgerIsAhead`: revisions count events that were seen and modifications that were marked, none of them ahead of the ledger. `RevisionsAreTrue`: nothing is known under a revision that is still to come, what is known under the present one shows all that is marked, and what is known under a reader's revision shows what that reader has to see. |
  | RateLimiter | `PaidFor(age)`, of every age in the window: what was granted since, and what could be granted now, is paid for by a full bucket and the refill since. An observer that throws takes tokens without a grant, which keeps the inequality. |
  | SequenceCache | `RestsOnAnswer`, `FollowsCache`, `OneAtATime`: what a build under way holds rests on an answer as recent as a fresh entry of the cache, and, when builds follow one another, has the cache's number, or a later one once a fee was estimated. With it the number that a build notes is the next one. |

The theorems of Components are about its `Spec`; `MCSpec` adds the algorithms, whose
steps leave its variables alone. Sums over finite sets (weights of signatures,
spending of a period) are folds in the models; their laws are proved from the
definition of the fold by looking at a smallest set for which they would fail (the
strict subset ordering of finite sets is well-founded), because the library's
induction theorems cannot be applied.

What the theorems of Components assume is beside its instances (`MultiSigAssumption`
... `SequenceAssumption`), and TLC evaluates it. Sizes, times, amounts and weights are
naturals; what is absent is none of the values it stands apart from; participants,
runs, objects and transactions are finite. Beyond that: a month begins no later than
its days (`MonthStart[day] <= day`); a limit lets at least one request through in a
second (`Limits \subseteq Nat \ {0}`: below it the bucket never holds a token, see
above); throttling admits at least one attempt in a window; the configurations of a
recovery map contacts to permissions; a graph's dependencies are its nodes and one
unknown identifier, a bundle's are its steps (`createTransactionBundle` refuses others);
there is a provider of prices and a socket; the
selected network at first is one of the presets; there are two more objects than runs
of the scheduler. The bounds (`MaxSequence`, `MaxContextSequence`, `MaxVersion`,
`MaxTimers`, `MaxNow`, `MaxTime`, `MaxIdle`, `MaxHistory`) are any naturals, those of
the context, the versions and the timers not zero.

The theorems of **Streams** follow the same plan. What its invariants add to the parts
of `NothingFallsBetween`:

| Component | What is needed, and why |
|---|---|
| EventArchival | `FlushesFit`: a flush that asks the storage whether an event exists has one to ask about, one that stores has asked about all, and an idle one holds none; without it an event could leave a flush unseen when it ends. |
| EndpointFailover | Nothing beside the type. |
| TransactionStream | The cursor is at a transaction that is there, and in ascending order no cursor that was seen is ahead of it, so that a page that brings something new is not mistaken for the last one again. Hidden failures are counted (`silent <= retryState.failures`), and before a cooldown there are fewer than `MaxFailures`. That what was emitted is what passes the filter up to the cursor needs a law of the filter: filtering a list and its continuation is filtering each (`FilteredConcat`). |
| AccountStream | The same count of failures; a poll under way has one left to make. |
| Notifications | `CallFits`: an endpoint's outcome fits its attempts at every moment of a call, and until the channels are looked up, a channel that stayed registered is still in the registry. |
| BatchOperations | `QueueFits`: the queue is the plan without what was completed before. `WorkersFit`: operations wait exactly behind `nextIndex`, and of distinct ones some is under way while others wait. `CountersFit`: the report has a row for everything that was skipped or is done with. `ReportFits`: which rows. `LandedFits`: an operation took effect no more often than it was tried, and was reported successful no more often than it took effect. The cases of a step that settles an operation and takes several from the queue are proved by what the passage leaves behind (`ContinuesInv`, `SettleMoves` ... `SettleSucceeds`). |

They assume (`ArchiveAssumption` ... `BatchAssumption`, evaluated by TLC) that sizes,
limits and intervals are naturals, and those that have to be are not zero: the code
refuses a failover without endpoints and raises the failure threshold, the
concurrency and the adaptive threshold to one; a batch size and a number of failures
before the cooldown of at least one are assumed, as their defaults are (the code does
not check them). The interval of polls is between its bounds, where the code puts it.
Of the plans of batches some is the longest; there may be infinitely many.

Only model-checked: all liveness, such as `EverythingHasItsTurn` (out of the prover's
reach), and `AlgorithmsAreSound`: the codec, the split of payments, the conditions of
claims and the pages of histories use recursive operators and folds over sequences, so
that their results could only be proved by induction over data. The findings are counterexamples and need no proof.

## Plan

Done: all components above, each with its properties checked, and proofs of the
breaker, the pool, their composition, the queue, the signing limiter, the event
subscription, the eighteen components of Components and those of Streams. What would
add most from here:

1. The subscription handle (`transaction/subscriptions.ts`), the SSE variant of the
   stream, and `requestDedup` with `clearInflightRequests`.
2. The status of a transaction, whose cached "pending" can hide a later success
   (`status.ts:45`), against a register that does not go back.
3. The other orders of a queried history, the cost basis of an export.

## Not modelled

Most of the repository's lines are not control: builders of single operations that
check their parameters and call the Stellar SDK (`buildTransaction.ts`,
`contractInteractionBuilder.ts`; the network is the judge of the result), validators,
types, re-exports, fee and congestion statistics (arithmetic on external data),
formatting, logging, metrics, tracing and configuration (nothing else depends on
their state), and the documentation in comments. The share of lines that the models
stand for is therefore small, though the stateful parts are in it but for those named
in the plan. Test doubles are not modelled.
