------------------------- MODULE EventSubscription -------------------------
(***************************************************************************)
(* subscribeContractEvents (src/src/soroban/subscribeContractEvents.ts):   *)
(* a timer polls Horizon for the latest ledger, a gap since the last poll  *)
(* is filled ledger by ledger, and what has not been seen before goes to   *)
(* the application's callback.                                             *)
(*                                                                         *)
(* Horizon is external: ledgers close while the subscription awaits an     *)
(* answer, any request may fail, and a ledger holds at most one event that *)
(* matches the filter, so an event is the number of its ledger.  The       *)
(* callback is the application's and may throw.                            *)
(***************************************************************************)
EXTENDS Integers, Sequences, FiniteSets

CONSTANTS
  MaxLedger,        \* bound on the ledgers that close
  RecoveryLedgers,  \* recoveryWindowMs in ledgers of 5.5 s
  DedupMaxSize      \* options.deduplicationMaxSize

ASSUME SubscriptionAssumption ==
  /\ MaxLedger \in Nat \ {0}
  /\ RecoveryLedgers \in Nat \ {0}
  /\ DedupMaxSize \in Nat

VARIABLES
  matching,       \* the ledgers that hold a matching event
  height,         \* the latest ledger of the network
  pc,             \* where poll() is
  active,
  lastProcessed,  \* lastProcessedLedger, 0 for undefined
  latest,         \* latestSequence, while the gap before it is recovered
  seen,           \* the keys of seenEventIds in insertion order
  delivered,      \* history: the events given to the callback
  excused         \* history: the ledgers whose events there is a reason to miss

vars == <<matching, height, pc, active, lastProcessed, latest, seen, delivered, excused>>

Ledgers == 1..MaxLedger

Events(s) == {s[i] : i \in DOMAIN s}

TypeOK ==
  /\ matching \subseteq Ledgers
  /\ height \in Ledgers
  /\ pc \in {"waiting", "latest", "recovering", "stopped", "refused"}
  /\ active \in BOOLEAN
  /\ lastProcessed \in 0..height
  /\ latest \in 0..height
  /\ seen \in Seq(Ledgers)
  /\ Len(seen) <= DedupMaxSize + RecoveryLedgers
  /\ delivered \in Seq(Ledgers)
  /\ excused \subseteq Ledgers

-----------------------------------------------------------------------------
\* evictSeenEvents: the time to live, an hour, is over for any of the oldest
\* entries, but not for the ledger the last poll found to be the latest.
Expired(s) ==
  {k \in 0..Len(s) : \A i \in 1..k : s[i] < lastProcessed}

\* Mutant: the entries are sorted the other way round.
CappedNewest(s) == IF Len(s) > DedupMaxSize THEN SubSeq(s, 1, DedupMaxSize) ELSE s

\* Above the cap the oldest entries go.
Capped(s) ==
  IF Len(s) > DedupMaxSize THEN SubSeq(s, Len(s) - DedupMaxSize + 1, Len(s)) ELSE s

Evicted == {Capped(SubSeq(seen, k + 1, Len(seen))) : k \in Expired(seen)}

\* Mutant: ids are recorded but not looked up.
UnseenAny(s, ledgers) == ledgers \cap matching

\* deduplicateEvents: the matching events of some ledgers that are not known yet.
Unseen(s, ledgers) == (ledgers \cap matching) \ Events(s)

\* The one sequence of a set's events in ledger order.
InOrder(events) ==
  {s \in [1..Cardinality(events) -> events] :
     /\ Events(s) = events
     /\ \A i, j \in DOMAIN s : i < j => s[i] < s[j]}

\* Mutant: a gap of one ledger is taken for none.
GapOfTwo(sequence) == lastProcessed # 0 /\ sequence > lastProcessed + 2

Gap(sequence) == lastProcessed # 0 /\ sequence > lastProcessed + 1

\* fromLedger + 1 .. latestSequence
RecoveryRange(sequence) ==
  {l \in Ledgers : l > lastProcessed /\ l > sequence - RecoveryLedgers /\ l <= sequence}

-----------------------------------------------------------------------------
Init ==
  /\ matching \in SUBSET Ledgers
  /\ height = 1
  /\ pc = "waiting"
  /\ active = TRUE
  /\ lastProcessed = 0
  /\ latest = 0
  /\ seen = <<>>
  /\ delivered = <<>>
  /\ excused = {}

CloseLedger ==
  /\ height < MaxLedger
  /\ height' = height + 1
  /\ UNCHANGED <<matching, pc, active, lastProcessed, latest, seen, delivered, excused>>

\* The timer fires and the latest ledger is asked for.
Poll ==
  /\ pc = "waiting"
  /\ pc' = "latest"
  /\ UNCHANGED <<matching, height, active, lastProcessed, latest, seen, delivered, excused>>

\* The end of poll(): another timer, unless unsubscribed meanwhile.
ScheduleNextPoll == pc' = IF active THEN "waiting" ELSE "stopped"

\* Mutant: the timer is set before the catch.
LatestFailsForGood ==
  /\ pc = "latest"
  /\ pc' = "stopped"
  /\ UNCHANGED <<matching, height, active, lastProcessed, latest, seen, delivered, excused>>

\* fetch rejects, the body is no JSON, or there is no ledger record in it.
LatestFails ==
  /\ pc = "latest"
  /\ ScheduleNextPoll
  /\ UNCHANGED <<matching, height, active, lastProcessed, latest, seen, delivered, excused>>

\* An error status: poll() returns before it comes to the next timer.
LatestRefused ==
  /\ pc = "latest"
  /\ pc' = "refused"
  /\ UNCHANGED <<matching, height, active, lastProcessed, latest, seen, delivered, excused>>

\* Mutant: the current ledger's event first.
DeliveryCurrentFirst(current, recovered) == current \o recovered

\* Recovered events go first, though the current ones were marked first.
Delivery(current, recovered) == recovered \o current

\* Evict, deduplicate, call back.  If the callback throws, the rest of the
\* delivery is dropped and the poll does not count, but its events stay seen.
Deliver(sequence, recoveredLedgers, missed) ==
  /\ \E kept \in Evicted :
     \E current \in InOrder(Unseen(kept, {sequence})) :
     \E recovered \in InOrder(Unseen(kept \o current, recoveredLedgers)) :
       /\ seen' = kept \o current \o recovered
       /\ \/ /\ delivered' = delivered \o Delivery(current, recovered)
             /\ lastProcessed' = sequence
             /\ excused' = excused \cup missed
          \/ /\ recovered # <<>>
             /\ delivered' = delivered \o recovered
             /\ excused' = excused \cup missed \cup Events(current)
             /\ UNCHANGED lastProcessed
          \/ /\ current # <<>>
             /\ delivered' = delivered \o Delivery(current, recovered)
             /\ excused' = excused \cup missed
             /\ UNCHANGED lastProcessed
  /\ latest' = 0
  /\ ScheduleNextPoll
  /\ UNCHANGED <<matching, height, active>>

\* The latest ledger, next to the last one or the first of the subscription.
LatestArrives ==
  /\ pc = "latest" /\ ~Gap(height)
  /\ Deliver(height, {}, IF lastProcessed = 0 THEN 1..(height - 1) ELSE {})

\* A later ledger: the ones between are asked for.
GapDetected ==
  /\ pc = "latest" /\ Gap(height)
  /\ latest' = height
  /\ pc' = "recovering"
  /\ UNCHANGED <<matching, height, active, lastProcessed, seen, delivered, excused>>

\* recoverMissedEvents returns: a ledger whose request failed counts as empty.
RecoveryEnds ==
  /\ pc = "recovering"
  /\ \E failed \in SUBSET RecoveryRange(latest) :
       Deliver(latest, RecoveryRange(latest) \ failed,
               failed \cup {l \in Ledgers : l > lastProcessed /\ l <= latest - RecoveryLedgers})

Unsubscribe ==
  /\ active
  /\ active' = FALSE
  /\ pc' = IF pc = "waiting" THEN "stopped" ELSE pc
  /\ UNCHANGED <<matching, height, lastProcessed, latest, seen, delivered, excused>>

PollEnds == LatestFails \/ LatestRefused \/ LatestArrives \/ GapDetected

Next == CloseLedger \/ Poll \/ PollEnds \/ RecoveryEnds \/ Unsubscribe

\* The timer fires, and requests end in one way or another.
Spec ==
  /\ Init /\ [][Next]_vars
  /\ WF_vars(Poll) /\ WF_vars(PollEnds) /\ WF_vars(RecoveryEnds)

-----------------------------------------------------------------------------
\* No event is given to the callback twice: not while its ledger stays the
\* latest, not when a gap is recovered, not when a poll is repeated because the
\* callback threw.
NeverTwice ==
  \A i, j \in DOMAIN delivered : delivered[i] = delivered[j] => i = j

\* Events arrive in ledger order, across polls, recoveries and callbacks that
\* throw; only one whose ledger could not be read in time may come late.
InLedgerOrder ==
  \A i, j \in DOMAIN delivered :
    i < j /\ delivered[i] > delivered[j] => delivered[j] \in excused

\* An event at or before the ledger the subscription has got to was delivered,
\* unless it is older than the subscription or than the recovery window, the
\* request for its ledger failed, or the callback threw before its turn.
NothingSkipped ==
  \A l \in matching : l <= lastProcessed => l \in Events(delivered) \cup excused

\* Requests that fail without an answer, payloads that cannot be read and a
\* callback that throws do not end the subscription: it polls for ever unless it
\* is ended by unsubscribing or by an error status.
SurvivesLostPolls ==
  []<>(pc = "latest") \/ <>(pc = "refused") \/ <>~active

\* "Ignore polling failures and keep the subscription alive."
KeptAlive == active => pc \notin {"stopped", "refused"}
=============================================================================
