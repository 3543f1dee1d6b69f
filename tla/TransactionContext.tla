------------------------- MODULE TransactionContext -------------------------
(***************************************************************************)
(* A builder context that fetches the account's sequence number once and   *)
(* then counts on its own (src/src/transaction/transactionContext.ts).     *)
(* Builds, resets and validations overlap: each may wait for Horizon,      *)
(* whose answers are as old as the request was long, and arrive in any     *)
(* order. The account's sequence on the ledger is external: it grows when  *)
(* a transaction of this context, or of somebody else, is applied.         *)
(***************************************************************************)
EXTENDS Naturals

CONSTANTS
  Calls,          \* calls of the context's methods that overlap
  MaxSequence,    \* bound: the sequence numbers of the model
  Unreachable     \* the answer of a Horizon that cannot be reached

VARIABLES
  nextSequence,   \* the base sequence the next build consumes
  expired,        \* Date.now() - cachedAt > TRANSACTION_CONTEXT_TTL_MS
  ledger,         \* external: the account's sequence number
  calls,          \* what each caller waits for
  handed,         \* history: the sequences given to transactions
  first           \* history: the sequence the context was created with

vars == <<nextSequence, expired, ledger, calls, handed, first>>

Sequences == 0..MaxSequence
Methods   == {"build", "reset", "validate"}
Requests  == [method : Methods \cup {"none"}, stage : {"idle", "asked", "answered", "fresh"},
              answer : Sequences \cup {Unreachable}]

NoCall              == [method |-> "none", stage |-> "idle", answer |-> Unreachable]
Asked(method)       == [method |-> method, stage |-> "asked", answer |-> Unreachable]
Answered(call, seq) == [method |-> call.method, stage |-> "answered", answer |-> seq]
Fresh               == [method |-> "build", stage |-> "fresh", answer |-> Unreachable]

TypeOK ==
  /\ nextSequence \in Sequences
  /\ expired \in BOOLEAN
  /\ ledger \in Sequences
  /\ calls \in [Calls -> Requests]
  /\ handed \subseteq Sequences
  /\ first \in Sequences

\* createTransactionContext: the account is loaded once.
Init ==
  /\ ledger \in {0, 1} /\ nextSequence = ledger /\ first = ledger
  /\ expired = FALSE
  /\ calls = [c \in Calls |-> NoCall]
  /\ handed = {}

-----------------------------------------------------------------------------
Set(c, call) == calls' = [calls EXCEPT ![c] = call]
Idle(c)      == calls[c].stage = "idle"
Answer(c)    == calls[c].answer

Larger(s, t) == IF s > t THEN s ELSE t

\* Mutant: the fetched sequence is taken as it is.
AdoptFetched(seq) == seq

\* Never below what the context has handed out.
Adopt(seq) == Larger(seq, nextSequence)

\* Five minutes pass, or invalidate().
Expire ==
  /\ expired' = TRUE
  /\ UNCHANGED <<nextSequence, ledger, calls, handed, first>>

\* buildPayment, buildCreateAccount, buildTrustline: ensureFresh decides whether
\* to ask Horizon.
StartBuild(c) ==
  /\ Idle(c)
  /\ Set(c, IF expired THEN Asked("build") ELSE Fresh)
  /\ UNCHANGED <<nextSequence, expired, ledger, handed, first>>

StartFetch(c, method) ==
  /\ Idle(c)
  /\ Set(c, Asked(method))
  /\ UNCHANGED <<nextSequence, expired, ledger, handed, first>>

\* Horizon reads the account, or fails; the answer is on its way.
Serve(c, seq) ==
  /\ calls[c].stage = "asked"
  /\ Set(c, Answered(calls[c], seq))
  /\ UNCHANGED <<nextSequence, expired, ledger, handed, first>>

\* The answer is an error: the context stays as it is.
FetchFails(c) ==
  /\ calls[c].stage = "answered" /\ Answer(c) = Unreachable
  /\ Set(c, NoCall)
  /\ UNCHANGED <<nextSequence, expired, ledger, handed, first>>

\* refresh and reset adopt the answer; a build goes on from there.
Refresh(c) ==
  /\ calls[c].stage = "answered" /\ calls[c].method \in {"build", "reset"}
  /\ Answer(c) \in Sequences
  /\ nextSequence' = Adopt(Answer(c))
  /\ expired' = FALSE
  /\ Set(c, IF calls[c].method = "build" THEN Fresh ELSE NoCall)
  /\ UNCHANGED <<ledger, handed, first>>

\* validateFreshSequence compares the answer and changes nothing.
Validate(c) ==
  /\ calls[c].stage = "answered" /\ calls[c].method = "validate"
  /\ Answer(c) \in Sequences
  /\ Set(c, NoCall)
  /\ UNCHANGED <<nextSequence, expired, ledger, handed, first>>

\* The transaction is built in one go with the sequence.
Allocate(c) ==
  /\ calls[c].stage = "fresh"
  /\ nextSequence < MaxSequence
  /\ handed' = handed \cup {nextSequence}
  /\ nextSequence' = nextSequence + 1
  /\ Set(c, NoCall)
  /\ UNCHANGED <<expired, ledger, first>>

\* Bad parameters, or a builder that throws: no sequence is consumed.
BuildFails(c) ==
  /\ calls[c].stage = "fresh"
  /\ Set(c, NoCall)
  /\ UNCHANGED <<nextSequence, expired, ledger, handed, first>>

\* External: a transaction of the account is applied.
Apply ==
  /\ ledger < MaxSequence
  /\ ledger' = ledger + 1
  /\ UNCHANGED <<nextSequence, expired, calls, handed, first>>

Next ==
  \/ Expire
  \/ Apply
  \/ \E c \in Calls :
       \/ StartBuild(c)
       \/ \E method \in {"reset", "validate"} : StartFetch(c, method)
       \/ \E seq \in {ledger, Unreachable} : Serve(c, seq)
       \/ FetchFails(c)
       \/ Refresh(c)
       \/ Validate(c)
       \/ Allocate(c)
       \/ BuildFails(c)

Spec == Init /\ [][Next]_vars

-----------------------------------------------------------------------------
\* No sequence is handed out twice: whatever late answer is adopted, the next
\* one is above all that transactions carry.
NoSequenceTwice == \A s \in handed : s < nextSequence

\* No gap that would hold up every later transaction: a sequence below the next
\* one was handed out, or the ledger has passed it.
NoGap ==
  \A s \in Sequences : first <= s /\ s < nextSequence => s \in handed \/ s < ledger
=============================================================================
