----------------------------- MODULE MixingPool -----------------------------
(***************************************************************************)
(* The pool that batches transactions of several participants              *)
(* (src/src/transaction/transactionMixing.ts). Envelopes, hashes and the   *)
(* shuffle, which permutes a batch, are left out; amounts are units, save  *)
(* one that is no number. A caller takes a batch, submits it and reports   *)
(* how it went; a timer clears what has expired.                           *)
(***************************************************************************)
EXTENDS Naturals, FiniteSets, FiniteSetsExt

CONSTANTS
  Transactions,       \* transaction ids
  Participants,
  Owner,              \* participant that adds a transaction
  MinBatchSize, MaxBatchSize, AllowPartialBatches,
  Ttl, MaxTime,       \* MaxTime is a bound on the clock
  NotPooled

VARIABLES
  transactions,       \* per id: NotPooled, or its record in the pool
  participants,       \* per participant: NotPooled, or its record
  now,
  refused,            \* history: ids whose addition ended in an error
  out                 \* history: ids handed out and not reported as failed since

vars == <<transactions, participants, now, refused, out>>

States  == {"pending", "shuffled", "submitted"}
Pooled  == {t \in Transactions : transactions[t] # NotPooled}
In(state) == {t \in Pooled : transactions[t].state = state}
OwnedBy(p) == {t \in Pooled : Owner[t] = p}

TypeOK ==
  /\ \A t \in Pooled : transactions[t] \in [state : States, expiresAt : 0..(MaxTime + Ttl)]
  /\ \A p \in Participants : participants[p] # NotPooled =>
       participants[p] \in [pendingCount : 0..Cardinality(Transactions),
                            totalValue : 0..Cardinality(Transactions), hasFailed : BOOLEAN]
  /\ now \in 0..MaxTime
  /\ refused \subseteq Transactions /\ out \subseteq Transactions

Init ==
  /\ transactions = [t \in Transactions |-> NotPooled]
  /\ participants = [p \in Participants |-> NotPooled]
  /\ now = 0 /\ refused = {} /\ out = {}

-----------------------------------------------------------------------------
Joined(p) ==
  IF participants[p] = NotPooled THEN [pendingCount |-> 0, totalValue |-> 0, hasFailed |-> FALSE]
  ELSE participants[p]

\* An amount that is no number is found out last: the caller gets an error, but
\* the transaction is in the pool and is counted, except for its value.
AddTransaction(t, numeric) ==
  LET joined == Joined(Owner[t])
  IN  /\ t \notin Pooled
      /\ transactions' = [transactions EXCEPT ![t] = [state |-> "pending", expiresAt |-> now + Ttl]]
      /\ participants' = [participants EXCEPT ![Owner[t]] =
           [pendingCount |-> joined.pendingCount + 1, hasFailed |-> joined.hasFailed,
            totalValue |-> IF numeric THEN joined.totalValue + 1 ELSE joined.totalValue]]
      /\ refused' = IF numeric THEN refused \ {t} ELSE refused \cup {t}
      /\ UNCHANGED <<now, out>>

Eligible == {t \in In("pending") : transactions[t].expiresAt > now}

\* Of the Map's order nothing but the number taken matters.
GetNextBatch(batch) ==
  /\ Cardinality(Eligible) >= MinBatchSize \/ AllowPartialBatches
  /\ batch \subseteq Eligible
  /\ Cardinality(batch) = Min({Cardinality(Eligible), MaxBatchSize})
  /\ transactions' = [t \in Transactions |->
       IF t \in batch THEN [transactions[t] EXCEPT !.state = "shuffled"] ELSE transactions[t]]
  /\ out' = out \cup batch
  /\ UNCHANGED <<participants, now, refused>>

Submitted(done) ==
  [t \in Transactions |-> IF t \in done THEN [transactions[t] EXCEPT !.state = "submitted"] ELSE transactions[t]]

\* What it marks of the list that it is given: a transaction that is no longer
\* pooled ends the loop with an error, and so does one whose amount is no number,
\* which is marked itself by then.
MarkBatchSubmitted(done) ==
  /\ Cardinality(done \cap refused) <= 1
  /\ transactions' = Submitted(done)
  /\ UNCHANGED <<participants, now, refused, out>>

\* Whatever their state, the transactions go back to the pool.
MarkBatchFailed(ids) ==
  /\ transactions' = [t \in Transactions |->
       IF t \in ids \cap Pooled THEN [transactions[t] EXCEPT !.state = "pending"] ELSE transactions[t]]
  /\ participants' = [p \in Participants |->
       IF ids \cap OwnedBy(p) # {} /\ participants[p] # NotPooled
       THEN [participants[p] EXCEPT !.hasFailed = TRUE] ELSE participants[p]]
  /\ out' = out \ ids
  /\ UNCHANGED <<now, refused>>

RemoveParticipant(p) ==
  /\ transactions' = [t \in Transactions |-> IF Owner[t] = p THEN NotPooled ELSE transactions[t]]
  /\ participants' = [participants EXCEPT ![p] = NotPooled]
  /\ out' = {t \in out : Owner[t] # p} /\ refused' = {t \in refused : Owner[t] # p}
  /\ UNCHANGED now

Expired == {t \in In("pending") : transactions[t].expiresAt < now}

\* The value of a participant whose refused transaction expires cannot be taken
\* off: the cleanup ends there, by an exception. Transactions before it in the
\* Map are gone by then, and so is it.
Cleared(gone, p) ==
  LET owned == {t \in gone : Owner[t] = p}
      left  == [participants[p] EXCEPT !.pendingCount = @ - Cardinality(owned),
                                       !.totalValue = @ - Cardinality(owned \ refused)]
  IN  IF participants[p] = NotPooled THEN NotPooled ELSE left

\* Mutant: whoever failed leaves, transactions or not.
LeavesAfterFailure(record) == record # NotPooled /\ record.hasFailed

Leaves(record) == record # NotPooled /\ record.pendingCount = 0 /\ record.hasFailed

CleanupExpiredTransactions(gone) ==
  /\ \/ gone = Expired /\ gone \cap refused = {}
     \/ gone \subseteq Expired /\ Cardinality(gone \cap refused) = 1
  /\ transactions' = [t \in Transactions |-> IF t \in gone THEN NotPooled ELSE transactions[t]]
  /\ participants' = [p \in Participants |->
       IF gone \cap refused = {} /\ Leaves(Cleared(gone, p)) THEN NotPooled ELSE Cleared(gone, p)]
  /\ refused' = refused \ gone
  /\ UNCHANGED <<now, out>>

Tick ==
  /\ now < MaxTime /\ now' = now + 1
  /\ UNCHANGED <<transactions, participants, refused, out>>

Next ==
  \/ \E t \in Transactions, numeric \in BOOLEAN : AddTransaction(t, numeric)
  \/ \E batch \in SUBSET Transactions : GetNextBatch(batch)
  \/ \E ids \in SUBSET Transactions : MarkBatchFailed(ids)
  \/ \E done \in SUBSET Pooled : MarkBatchSubmitted(done)
  \/ \E p \in Participants : RemoveParticipant(p)
  \/ \E gone \in SUBSET Expired : CleanupExpiredTransactions(gone)
  \/ Tick

Spec == Init /\ [][Next]_vars

-----------------------------------------------------------------------------
\* A transaction that was handed out is not handed out again unless its batch was
\* reported as failed or its participant was removed meanwhile.
HandedOutOnce == out \cap Eligible = {}

\* A participant stands for exactly the transactions it has in the pool, through
\* failures, refusals and expiry, and leaves the pool only without any. pendingCount
\* is the number of them all: those that were shuffled or submitted count, although
\* transactionMixing.ts:56 has it as the "Number of pending transactions".
ParticipantsCount ==
  \A p \in Participants :
    IF participants[p] = NotPooled THEN OwnedBy(p) = {}
    ELSE participants[p].pendingCount = Cardinality(OwnedBy(p))
=============================================================================
