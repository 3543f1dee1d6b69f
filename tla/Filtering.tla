------------------------------ MODULE Filtering ------------------------------
(***************************************************************************)
(* The elements of a list that pass, in the order of the list: what        *)
(* applyTransactionFilters does with a page                                *)
(* (src/src/transaction/streamTransactions.ts) and the first loop of       *)
(* runBatchOperations with its operations                                  *)
(* (src/src/account/batchOperations.ts). Unlike SelectSeq it is written    *)
(* without recursion, so that it can be proved about.                      *)
(***************************************************************************)
EXTENDS Naturals, FiniteSets

\* How many of the places come no later than one of them.
Rank(places, i) == Cardinality({j \in places : j <= i})

\* The places in ascending order.
InOrder(places) == [k \in 1..Cardinality(places) |-> CHOOSE i \in places : Rank(places, i) = k]

Filtered(list, kept) ==
  LET places == InOrder({i \in DOMAIN list : list[i] \in kept})
  IN  [k \in DOMAIN places |-> list[places[k]]]
=============================================================================
