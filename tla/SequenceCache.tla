---------------------------- MODULE SequenceCache ----------------------------
(***************************************************************************)
(* The sequence numbers of the transaction builders. buildTransaction.ts   *)
(* and buildHelpers.ts keep a cache each, of five seconds: a build takes   *)
(* the account from there or from Horizon, counts its transaction and      *)
(* notes the new number; a payment with its trustline and a swap, "silent" *)
(* here, note nothing. The fluent builder (compose.ts) is a build of the   *)
(* helpers whose state its caller may change while it is under way, and    *)
(* which may stop in the middle to have its fee estimated.                 *)
(* This is one of the two caches, and one account; its other users move    *)
(* its sequence on the ledger.                                             *)
(***************************************************************************)
EXTENDS Integers, FiniteSets

CONSTANTS
  Builds,
  KindSets,     \* for each cache the kinds of builds that use it: {"builder",
                \* "silent"} and {"helper", "compose"}
  AtOnce,       \* bound: how many of the kinds are under way at once
  Ttl,          \* SEQUENCE_CACHE_TTL_MS, in ticks
  MaxSequence,  \* bound: nothing starts from a higher number
  Offline,      \* a sequence number that callers give themselves
  NotCached, NoOverride

VARIABLES
  kinds,           \* which of the caches it is
  ledgerSequence,  \* the account's, on the ledger
  cache,           \* _sequenceCache, with the age of cachedAt
  composer,        \* the state of the fluent builder: operations, feeMode, sequenceOverride
  build,           \* where each build is, and the account it holds
  record           \* what became of the numbers: not part of the code

vars == <<kinds, ledgerSequence, cache, composer, build, record>>

\* An account as it was read: its sequence, how long ago Horizon answered, and
\* whether Horizon answered at all.
Ages     == 0 .. Ttl + 1
Accounts == [sequence : Nat, basis : Ages, answered : BOOLEAN]
Given(n) == [sequence |-> n, basis |-> 0, answered |-> FALSE]

Composers == [operations : BOOLEAN, feeMode : BOOLEAN, override : {NoOverride, Offline}]
Blank     == [operations |-> FALSE, feeMode |-> FALSE, override |-> NoOverride]

Idle == [stage |-> "idle", kind |-> "none", auto |-> FALSE, account |-> Given(0), alone |-> TRUE]

TypeOK ==
  /\ kinds \in KindSets
  /\ ledgerSequence \in 0 .. MaxSequence
  /\ cache \in [account : Accounts, age : Ages] \cup {NotCached}
  /\ composer \in Composers
  /\ build \in [Builds -> [stage : {"idle", "loading", "resolved", "estimating"},
                           kind : kinds \cup {"none"}, auto : BOOLEAN, account : Accounts,
                           alone : BOOLEAN]]
  /\ record \in [top : Nat, raced : BOOLEAN, excused : BOOLEAN, silent : BOOLEAN]

Unraced == [top |-> 0, raced |-> FALSE, excused |-> FALSE, silent |-> FALSE]

Init ==
  /\ kinds \in KindSets
  /\ ledgerSequence = 0
  /\ cache = NotCached
  /\ composer = Blank
  /\ build = [b \in Builds |-> Idle]
  /\ record = Unraced

Active(b)   == build[b].stage # "idle"
Others(b)   == {o \in Builds \ {b} : Active(o)}
Fresh       == cache # NotCached /\ cache.age <= Ttl
WithinBound == cache # NotCached => cache.account.sequence < MaxSequence
Room(b)     == Cardinality(Others(b)) < AtOnce[kinds]
Holding     == {b \in Builds : build[b].stage \in {"resolved", "estimating"}}

-----------------------------------------------------------------------------
\* A number given by the caller, one from the cache, or a request to Horizon. A
\* build that starts alone and finds nothing begins a new record.
Resolve(b, kind, auto, override) ==
  LET started(stage, account) ==
        [stage |-> stage, kind |-> kind, auto |-> auto, account |-> account, alone |-> Others(b) = {}]
  IN /\ IF override # NoOverride
        THEN cache' = cache /\ build' = [build EXCEPT ![b] = started("resolved", Given(override))]
        ELSE IF auto /\ Fresh
        THEN cache' = cache /\ build' = [build EXCEPT ![b] = started("resolved", cache.account)]
        ELSE /\ cache' = IF auto THEN NotCached ELSE cache
             /\ build' = [build EXCEPT ![b] = started("loading", Given(0))]
     /\ record' = IF Others(b) # {} THEN [record EXCEPT !.raced = TRUE]
                  ELSE IF cache' = NotCached THEN Unraced
                  ELSE record

\* A builder of a single operation.
Build(b, kind, auto, override) ==
  /\ ~Active(b) /\ Room(b) /\ WithinBound
  /\ kind # "compose"
  /\ Resolve(b, kind, auto, override)
  /\ UNCHANGED <<kinds, ledgerSequence, composer>>

\* The fluent builder: its override is read now and, in the end, again.
Compose(b, auto) ==
  /\ ~Active(b) /\ Room(b) /\ WithinBound
  /\ "compose" \in kinds
  /\ Resolve(b, "compose", auto, composer.override)
  /\ UNCHANGED <<kinds, ledgerSequence, composer>>

Loaded(b) ==
  /\ build[b].stage = "loading"
  /\ build' = [build EXCEPT ![b].stage = "resolved",
                            ![b].account = [sequence |-> ledgerSequence, basis |-> 0, answered |-> TRUE]]
  /\ UNCHANGED <<kinds, ledgerSequence, cache, composer, record>>

LoadFails(b) ==
  /\ build[b].stage = "loading"
  /\ build' = [build EXCEPT ![b] = Idle]
  /\ UNCHANGED <<kinds, ledgerSequence, cache, composer, record>>

\* TransactionBuilder.build() counts the account it was made with.
Counted(account) == [account EXCEPT !.sequence = @ + 1]

\* updateSequenceCache keeps the time at which an entry was made.
Noted(account) == [account |-> account, age |-> IF cache = NotCached THEN 0 ELSE cache.age]

Completed(b, notes) ==
  LET number == Counted(build[b].account)
  IN /\ build' = [build EXCEPT ![b] = Idle]
     /\ IF notes
        THEN /\ cache' = Noted(number)
             /\ record' = [record EXCEPT
                  !.top = IF cache = NotCached \/ number.sequence > @ THEN number.sequence ELSE @,
                  !.raced = @ \/ ~build[b].alone \/ Others(b) # {},
                  !.silent = FALSE]
        ELSE UNCHANGED <<cache, record>>

\* The end of a builder of a single operation: an offline number is not noted.
Complete(b) ==
  /\ build[b].stage = "resolved" /\ build[b].kind \notin {"compose", "silent"}
  /\ Completed(b, build[b].auto /\ build[b].account.answered)
  /\ UNCHANGED <<kinds, ledgerSequence, composer>>

\* A payment with its trustline, a swap: the number is used all the same.
CompleteSilently(b) ==
  LET number == Counted(build[b].account)
  IN /\ build[b].stage = "resolved" /\ build[b].kind = "silent"
     /\ build' = [build EXCEPT ![b] = Idle]
     /\ record' = IF build[b].auto /\ build[b].account.answered /\ cache # NotCached
                  THEN [record EXCEPT
                          !.top = IF number.sequence > @ THEN number.sequence ELSE @,
                          !.silent = TRUE]
                  ELSE record
     /\ UNCHANGED <<kinds, ledgerSequence, cache, composer>>

\* The fluent builder notes its number unless it has an override by then.
CompleteCompose(b) == Completed(b, build[b].auto /\ composer.override = NoOverride)

\* Without a fee mode nothing is estimated.
ComposeAtOnce(b) ==
  /\ build[b].stage = "resolved" /\ build[b].kind = "compose"
  /\ composer.operations /\ ~composer.feeMode
  /\ CompleteCompose(b)
  /\ UNCHANGED <<kinds, ledgerSequence, composer>>

\* The preliminary transaction counts the account, too.
ComposePreliminary(b) ==
  /\ build[b].stage = "resolved" /\ build[b].kind = "compose"
  /\ composer.operations /\ composer.feeMode
  /\ build' = [build EXCEPT ![b].stage = "estimating", ![b].account = Counted(@)]
  /\ UNCHANGED <<kinds, ledgerSequence, cache, composer, record>>

\* An estimate that fails leaves the default fee.
ComposeEstimated(b) ==
  /\ build[b].stage = "estimating"
  /\ CompleteCompose(b)
  /\ UNCHANGED <<kinds, ledgerSequence, composer>>

\* The SDK refuses, or the fluent builder has nothing to build.
BuildFails(b) ==
  /\ b \in Holding
  /\ build' = [build EXCEPT ![b] = Idle]
  /\ UNCHANGED <<kinds, ledgerSequence, cache, composer, record>>

\* addPayment and the like, estimateFee, setSequenceNumber and clear. An override
\* that changes under a build makes its number pass for Horizon's, or for none.
Composed(to) ==
  /\ "compose" \in kinds
  /\ composer # to /\ composer' = to
  /\ record' = [record EXCEPT !.excused = @ \/
       (composer.override # to.override /\ \E b \in Builds : build[b].kind = "compose")]
  /\ UNCHANGED <<kinds, ledgerSequence, cache, build>>

ChangeComposer ==
  \/ Composed([composer EXCEPT !.operations = TRUE])
  \/ Composed([composer EXCEPT !.feeMode = TRUE])
  \/ Composed([composer EXCEPT !.override = Offline])
  \/ Composed(Blank)

\* clearSequenceCache and clearBuildSequenceCache.
ClearCache ==
  /\ cache # NotCached
  /\ cache' = NotCached
  /\ record' = [record EXCEPT !.excused = @ \/ Holding # {}]
  /\ UNCHANGED <<kinds, ledgerSequence, composer, build>>

\* A transaction of the account is applied.
Apply ==
  /\ ledgerSequence < MaxSequence
  /\ ledgerSequence' = ledgerSequence + 1
  /\ UNCHANGED <<kinds, cache, composer, build, record>>

Older(age)    == IF age > Ttl THEN age ELSE age + 1
Aged(account) == IF account.answered THEN [account EXCEPT !.basis = Older(@)] ELSE account

\* A build that has its account goes on before time does, unless it waits for an
\* estimate.
Tick ==
  /\ \A b \in Builds : build[b].stage # "resolved"
  /\ cache' = IF cache = NotCached THEN NotCached
              ELSE [account |-> Aged(cache.account), age |-> Older(cache.age)]
  /\ build' = [b \in Builds |-> [build[b] EXCEPT !.account = Aged(@)]]
  /\ record' = [record EXCEPT !.excused = @ \/ Holding # {}]
  /\ UNCHANGED <<kinds, ledgerSequence, composer>>

Next ==
  \/ \E b \in Builds, kind \in kinds, auto \in BOOLEAN, override \in {NoOverride, Offline} :
       Build(b, kind, auto, override)
  \/ \E b \in Builds, auto \in BOOLEAN : Compose(b, auto)
  \/ \E b \in Builds :
       \/ Loaded(b)
       \/ LoadFails(b)
       \/ Complete(b)
       \/ CompleteSilently(b)
       \/ ComposeAtOnce(b)
       \/ ComposePreliminary(b)
       \/ ComposeEstimated(b)
       \/ BuildFails(b)
  \/ ChangeComposer
  \/ ClearCache
  \/ Apply
  \/ Tick

Spec == Init /\ [][Next]_vars

-----------------------------------------------------------------------------
\* What the cache holds rests on an answer of Horizon, never on a number that a
\* caller gave, and the answer is no older than the entry shows: builds that
\* follow one another cannot keep an old answer alive. It is excused when an
\* override changes under the fluent builder, or when the cache is cleared or
\* time passes while a build holds an account.
CacheIsHonest ==
  cache # NotCached /\ ~record.excused =>
    cache.account.answered /\ cache.account.basis <= cache.age

\* While no two builds overlap, and with the same excuses, the cache holds the
\* highest number that it led to: the next build does not repeat one. After builds
\* that note nothing it is one behind, however many they were: they and the build
\* that follows them all get the same number.
NumbersGoOn ==
  cache # NotCached /\ ~record.raced /\ ~record.excused =>
    record.top = cache.account.sequence + (IF record.silent THEN 1 ELSE 0)
=============================================================================
