-------------------------- MODULE TransactionStream --------------------------
(***************************************************************************)
(* The stream of an account's transactions that polls Horizon              *)
(* (src/src/transaction/streamTransactions.ts) and its answer to failing   *)
(* polls (retryStreamingPoll in src/src/shared/utils.ts). Each page moves  *)
(* the cursor to its last record, in the order asked for; filters drop     *)
(* transactions of a page. Horizon is external: transactions are numbered  *)
(* in the order their ledgers close.                                       *)
(***************************************************************************)
EXTENDS Naturals, Sequences, Filtering, StreamingRetry

CONSTANTS
  MaxTransactions,   \* bound: transactions of the account
  Kept,              \* those that applyTransactionFilters lets pass
  Limit,             \* limit; the offset is 0
  Orders             \* the orders configured, of {"asc", "desc"}

VARIABLES
  order, autoRetry, pollsLeft,    \* configuration, and maxPolls - polls
  closed,                         \* external: the transactions there are
  stage, aborted, cursor, lastEmitted, retryState, nextDelay,
  emitted,                        \* history: the transactions yielded
  silent                          \* history: failed polls since a page or an error was due

config == <<order, autoRetry>>
vars   == <<config, pollsLeft, closed, stage, aborted, cursor, lastEmitted,
            retryState, nextDelay, emitted, silent>>

Transactions == 1..MaxTransactions
Start        == 0          \* no cursor
Unlimited    == 3          \* maxPolls omitted
Nothing      == [transactions |-> <<>>, nextCursor |-> MaxTransactions + 1]

Pages == UNION {[1..n -> Transactions] : n \in 0..Limit}

TypeOK ==
  /\ order \in Orders /\ autoRetry \in BOOLEAN
  /\ pollsLeft \in 0..Unlimited
  /\ closed \in 0..MaxTransactions
  /\ stage \in {"sleeping", "polling", "ended"}
  /\ aborted \in BOOLEAN
  /\ cursor \in Transactions \cup {Start}
  /\ lastEmitted \in [transactions : Pages, nextCursor : 0..(MaxTransactions + 1)]
  /\ retryState \in RetryStates
  /\ nextDelay \in Delays
  /\ emitted \in Seq(Kept)
  /\ silent \in Nat

Init ==
  /\ order \in Orders /\ autoRetry \in BOOLEAN
  /\ pollsLeft \in {2, Unlimited}
  /\ closed \in 0..MaxTransactions
  /\ stage = "sleeping" /\ aborted = FALSE
  /\ cursor = Start /\ lastEmitted = Nothing
  /\ retryState = NoFailure /\ nextDelay = "interval"
  /\ emitted = <<>> /\ silent = 0

-----------------------------------------------------------------------------
Smaller(m, n) == IF m < n THEN m ELSE n

\* External: the records of a page after the cursor, in the order asked for.
Records ==
  IF order = "asc"
  THEN [i \in 1..Smaller(Limit, closed - cursor) |-> cursor + i]
  ELSE LET newest == IF cursor = Start THEN closed ELSE cursor - 1
       IN  [i \in 1..Smaller(Limit, newest) |-> newest + 1 - i]

\* The paging token of the last record, null for an empty page.
NextCursor(records) ==
  IF records = <<>> THEN Start ELSE records[Len(records)]

\* The top of the loop, then the sleep, and the look at the signal after it.
Wake ==
  /\ stage = "sleeping"
  /\ stage' = IF aborted \/ pollsLeft = 0 THEN "ended" ELSE "polling"
  /\ UNCHANGED <<config, pollsLeft, closed, aborted, cursor, lastEmitted,
                 retryState, nextDelay, emitted, silent>>

PollEnds ==
  /\ stage = "polling" /\ stage' = "sleeping"
  /\ pollsLeft' = IF pollsLeft = Unlimited THEN Unlimited ELSE pollsLeft - 1
  /\ UNCHANGED <<config, closed, aborted>>

\* A page is yielded when it differs from the last one that was.
PageArrives ==
  LET page == [transactions |-> Filtered(Records, Kept), nextCursor |-> NextCursor(Records)]
  IN  /\ PollEnds
      /\ cursor' = IF page.nextCursor = Start THEN cursor ELSE page.nextCursor
      /\ lastEmitted' = page
      /\ emitted' = IF page = lastEmitted THEN emitted ELSE emitted \o page.transactions
      /\ retryState' = NoFailure /\ nextDelay' = "interval"
      /\ silent' = 0

\* The caller is told of an error that no retry will hide.
PollFails(transient) ==
  /\ PollEnds
  /\ retryState' = Counted(autoRetry, retryState)
  /\ nextDelay' = DelayAfterFailure(autoRetry, retryState, transient)
  /\ silent' = IF ErrorIsHidden(autoRetry, retryState, transient) THEN silent + 1 ELSE 0
  /\ UNCHANGED <<cursor, lastEmitted, emitted>>

Abort ==
  /\ ~aborted /\ aborted' = TRUE
  /\ UNCHANGED <<config, pollsLeft, closed, stage, cursor, lastEmitted,
                 retryState, nextDelay, emitted, silent>>

\* External: a transaction of the account is applied.
LedgerCloses ==
  /\ closed < MaxTransactions /\ closed' = closed + 1
  /\ UNCHANGED <<config, pollsLeft, stage, aborted, cursor, lastEmitted,
                 retryState, nextDelay, emitted, silent>>

Next ==
  \/ Wake
  \/ PageArrives
  \/ \E transient \in BOOLEAN : PollFails(transient)
  \/ Abort
  \/ LedgerCloses

Answer == PageArrives \/ \E transient \in BOOLEAN : PollFails(transient)

\* Sleeps and polls end, and Horizon does not fail for ever.
Spec == Init /\ [][Next]_vars /\ WF_vars(Wake) /\ WF_vars(Answer) /\ SF_vars(PageArrives)

-----------------------------------------------------------------------------
Emitted(t) == \E i \in DOMAIN emitted : emitted[i] = t

\* An ascending stream yields exactly the transactions up to its cursor that pass
\* the filters, in order, whatever failed in between.
NothingSkipped ==
  order = "asc" => emitted = Filtered([i \in 1..cursor |-> i], Kept)

\* Failures are hidden from the caller for fewer than maxConsecutiveFailures
\* polls in a row.
SilenceIsBounded == silent < MaxFailures

\* A transaction that passes the filters reaches the caller of a stream that goes on.
NewTransactionsArrive ==
  \A t \in Kept : closed >= t /\ pollsLeft = Unlimited ~> Emitted(t) \/ aborted
=============================================================================
