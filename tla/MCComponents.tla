---------------------------- MODULE MCComponents ----------------------------
(***************************************************************************)
(* The components of Components on small instances, and beside them the    *)
(* algorithms that encode contract state, and those that make or list      *)
(* transactions (split payments, conditions of claims, pages of a          *)
(* history). One component or one algorithm runs; its constants and the    *)
(* rest of the configuration's are here and in the configuration file.     *)
(***************************************************************************)
EXTENDS Components, TLC

CONSTANTS a, b, c, tx1, tx2, c1, c2, pin1, pin2, NotStored, Error

\* Two signers, one of whom counts twice; with threshold 3 both are needed.
SignerWeights == (a :> 1) @@ (b :> 2)

\* Two days of a month, and a threshold of two approvals.
TwoDays     == <<1, 1>>
TwoApprove  == {[amount |-> 1, required |-> 2, approvers |-> {a, b}]}

\* The second configuration takes the say from b.
ContactConfigs ==
  {(a :> {"initiate"}) @@ (b :> {"approve"}) @@ (c :> {"approve", "cancel"}),
   (a :> {"initiate"}) @@ (b :> {"cancel"}) @@ (c :> {"approve"})}

\* Every graph of three transactions, unknown dependencies among them, and every
\* bundle of three steps, those with circles among them; a step that depends on
\* itself is the first.
AllGraphs       == [1..3 -> SUBSET (1..4)]
AllDependencies == {d \in [1..3 -> SUBSET (1..3)] : 2 \notin d[2] /\ 3 \notin d[3]}

\* A participant with more than a batch holds.
Owners == (tx1 :> a) @@ (tx2 :> a)

\* One network that is well, one that answers in part, one whose node alone does.
Endpoints == {<<"testnet", "horizon">>, <<"testnet", "rpc">>, <<"mainnet", "horizon">>, <<"own", "rpc">>}

\* Two builders of single operations at once; and, one after another, builders of
\* contract calls and the fluent builder. Callers may give the number that the
\* account has anyway.
Caches    == {{"builder", "silent"}, {"helper", "compose"}}
AtOnceOf  == ({"builder", "silent"} :> 2) @@ ({"helper", "compose"} :> 1)

VARIABLES
  algorithm,                                          \* the algorithm that runs
  state, data, behind, metadata, damage, result,                     \* StateCodec
  quotes, target, maxPaths, minLeg, plan,                            \* SplitPayment
  predicate, outcome,                                                \* ClaimPredicates
  accountHistory, request, reading                                   \* HistoryPages

\* Values of every kind, integers on either side of what a byte holds, texts that
\* cannot be encoded, and entries that sort before and after one another.
Leaves == {<<"null">>, <<"true">>, <<"false">>, <<"negative zero">>, <<"unsupported">>, <<"opaque">>,
           <<"int", -5>>, <<"int", 4>>, <<"bigint", -1>>, <<"string", <<>>>>, <<"string", <<3>>>>,
           <<"string", <<2>>>>, <<"bytes", <<9>>>>, <<"double", <<1, 12>>>>}
Few    == {<<"int", -5>>, <<"string", <<2>>>>, <<"false">>}
Values == Leaves \cup {<<"array", items>> : items \in {<<>>} \cup [1..1 -> Few] \cup [1..2 -> Few]}
                 \cup {<<"object", f>> : f \in [{<<1>>} -> Few] \cup [{<<4>>} -> Few]}
ContractStates ==
  [{<<1>>} -> Values] \cup
  UNION {[keys -> Few] : keys \in {{}, {<<4>>}, {<<2>>}, {<<1>>, <<1, 3>>}, {<<2>>, <<3>>}}}

Codec == INSTANCE StateCodec WITH
  Base <- 8, States <- ContractStates, Modes <- {"none", "auto"}, MinCompressBytes <- 12,
  Lone <- 2, Replacement <- 3, Proto <- <<4>>, Bytes <- {0, 5, 9, 10},
  Remainders <- {<<>>, <<5, 9>>}

\* Up to three quotes: two of one rate, and capacities that a target ends within.
Quotes == {[capacity |-> q[1], source |-> q[2]] : q \in {<<0, 1>>, <<1, 1>>, <<2, 3>>, <<3, 4>>, <<2, 1>>}}

Splitting == INSTANCE SplitPayment WITH
  QuoteLists <- UNION {[1..n -> Quotes] : n \in 0..3}, Targets <- {0, 3, 5},
  PathLimits <- {0, 2, 3}, MinLegs <- {0, 2}

\* All pairs of times, some triples, and some that are nested.
ClaimTimes == {<<"unconditional", <<>>>>, <<"beforeAbsoluteTime", Error>>, <<"afterRelativeTime", Error>>} \cup
  ({"beforeAbsoluteTime", "afterAbsoluteTime", "beforeRelativeTime", "afterRelativeTime"} \X {1, 2})
FewTimes == {<<"unconditional", <<>>>>, <<"afterAbsoluteTime", 1>>, <<"beforeAbsoluteTime", 2>>,
             <<"beforeAbsoluteTime", 1>>}
Joint(over, n) == {"and", "or"} \X UNION {[1..k -> over] : k \in 0..n}
Nested == Joint(FewTimes, 2) \cup ({"not"} \X FewTimes)
ClaimConditions ==
  ClaimTimes \cup Joint(ClaimTimes, 2) \cup Joint(FewTimes, 3)
        \cup ({"not"} \X (ClaimTimes \cup Joint(FewTimes, 2) \cup {<<>>}))
        \cup ({"and", "or"} \X (FewTimes \X Nested))

Claims == INSTANCE ClaimPredicates WITH
  Predicates <- ClaimConditions, Malformed <- Error, Instants <- 0..3

\* Three transactions on up to two days, without, with one and with two rows, and
\* one more meanwhile; a page of Horizon holds two.
Histories == {[i \in 1..3 |-> [day |-> day[i], matches |-> matches[i]]] :
                day \in {<<1, 1, 2>>, <<1, 2, 2>>},
                matches \in {<<1, 0, 2>>, <<2, 1, 1>>, <<0, 1, 1>>, <<1, 1, 0>>}}
DayRanges == {<<None, None>>, <<2, None>>, <<None, 1>>, <<2, 2>>}
Asked(kind, rowLimits, pages) ==
  {[kind |-> kind, order |-> o, from |-> r[1], to |-> r[2], limit |-> l, page |-> p[1], perPage |-> p[2]] :
     o \in {"asc", "desc"}, r \in DayRanges, l \in rowLimits, p \in pages}

ExportAll == CHOOSE r \in Asked("export", {None}, {<<1, 1>>}) : r.order = "asc" /\ r.from = None /\ r.to = None

Pages == INSTANCE HistoryPages WITH
  Histories <- Histories, PageLimit <- 2, MaxRecords <- 4, history <- accountHistory,
  Requests <- Asked("export", {None, 0, 2}, {<<1, 1>>}) \cup
              Asked("query", {None}, {<<1, 1>>, <<2, 1>>, <<1, 2>>, <<2, 2>>})

codecVars   == <<state, data, behind, metadata, damage, result>>
splitVars   == <<quotes, target, maxPaths, minLeg, plan>>
claimVars   == <<predicate, outcome>>
historyVars == <<accountHistory, request, reading>>

algorithmVars == <<algorithm, codecVars, splitVars, claimVars, historyVars>>
mcVars        == <<vars, algorithmVars>>

Algorithms == {"codec", "split", "claims", "pages"}

\* An algorithm that does not run has one input.
MCInit ==
  /\ Init
  /\ algorithm \in IF part = "none" THEN Algorithms ELSE {"none"}
  /\ (algorithm # "codec" => state = <<>>) /\ Codec!Init
  /\ (algorithm # "split" => quotes = <<>> /\ target = 0 /\ maxPaths = 0 /\ minLeg = 0) /\ Splitting!Init
  /\ (algorithm # "claims" => predicate = <<"unconditional", <<>>>>) /\ Claims!Init
  /\ (algorithm # "pages" => accountHistory \in {h \in Histories : h[2].day = 2 /\ h[1].matches = 2} /\ request = ExportAll) /\ Pages!Init

CodecStep ==
  /\ algorithm = "codec" /\ Codec!Next
  /\ UNCHANGED <<algorithm, splitVars, claimVars, historyVars, vars>>

SplitStep ==
  /\ algorithm = "split" /\ Splitting!Next
  /\ UNCHANGED <<algorithm, codecVars, claimVars, historyVars, vars>>

ClaimStep ==
  /\ algorithm = "claims" /\ Claims!Next
  /\ UNCHANGED <<algorithm, codecVars, splitVars, historyVars, vars>>

PageStep ==
  /\ algorithm = "pages" /\ Pages!Next
  /\ UNCHANGED <<algorithm, codecVars, splitVars, claimVars, vars>>

MCNext ==
  \/ Next /\ UNCHANGED algorithmVars
  \/ CodecStep
  \/ SplitStep
  \/ ClaimStep
  \/ PageStep

MCSpec == MCInit /\ [][MCNext]_mcVars

\* Calls are alike: nothing tells them apart.
Symmetry == Permutations({c1, c2})

-----------------------------------------------------------------------------
\* The codec gives back what it was given or refuses
\* (contractStateOptimization.ts), a payment is split as cheaply as rounding allows
\* (pathPayment.ts), the ledger's condition of a claim is the caller's
\* (claimableBalance.ts), and a history has no row missing or twice
\* (exportTransactionHistory.ts, queryTransactionHistory.ts).
AlgorithmsAreSound ==
  /\ algorithm = "codec" => Codec!TypeOK /\ Codec!RestoredOrRefused
  /\ algorithm = "split" => Splitting!TypeOK /\ Splitting!PlanIsGood
  /\ algorithm = "claims" => Claims!TypeOK /\ Claims!MeaningIsKept
  /\ algorithm = "pages" => Pages!TypeOK /\ Pages!PagesAreComplete
=============================================================================
