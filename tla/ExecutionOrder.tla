--------------------------- MODULE ExecutionOrder ---------------------------
(***************************************************************************)
(* The order in which a bundle's steps would be executed                   *)
(* (src/src/transaction/bundles.ts, resolveExecutionOrder): a depth-first  *)
(* visit that puts a step behind its dependencies. One action is a call of *)
(* visit, a turn of its loop or its return; `visiting` is the stack of the *)
(* calls. Steps are numbered in the order of the bundle; a step lists its  *)
(* dependencies in any order.                                              *)
(***************************************************************************)
EXTENDS Naturals, Sequences

CONSTANTS
  StepCount,
  Dependencies    \* the dependency functions a bundle can be created with

VARIABLES
  dependencies,
  visiting,       \* the calls of visit: a step, and dependencies left to visit
  executionOrder, \* the steps visited, in the order of the answer
  outcome         \* "visiting", "ordered", or "circular" when it threw

vars == <<dependencies, visiting, executionOrder, outcome>>

Steps == 1..StepCount

TypeOK ==
  /\ dependencies \in Dependencies
  /\ visiting \in Seq([id : Steps, left : SUBSET Steps])
  /\ executionOrder \in Seq(Steps)
  /\ outcome \in {"visiting", "ordered", "circular"}

Init ==
  /\ dependencies \in Dependencies
  /\ visiting = <<>> /\ executionOrder = <<>> /\ outcome = "visiting"

Visited(s) == \E i \in DOMAIN executionOrder : executionOrder[i] = s
InStack(s) == \E i \in DOMAIN visiting : visiting[i].id = s

Top      == visiting[Len(visiting)]
BelowTop == SubSeq(visiting, 1, Len(visiting) - 1)
Call(s)  == [id |-> s, left |-> dependencies[s]]

\* The loop over the bundle's steps comes to the next one that is not visited.
VisitStep ==
  \E s \in Steps :
    /\ outcome = "visiting" /\ visiting = <<>>
    /\ ~Visited(s) /\ \A t \in Steps : t < s => Visited(t)
    /\ visiting' = <<Call(s)>>
    /\ UNCHANGED <<dependencies, executionOrder, outcome>>

\* A dependency that was visited is passed over, one whose visit is under way is a
\* circle.
VisitDependency ==
  \E d \in Steps :
    LET advanced == Append(BelowTop, [Top EXCEPT !.left = @ \ {d}])
    IN  /\ outcome = "visiting" /\ visiting # <<>> /\ d \in Top.left
        /\ IF Visited(d) THEN visiting' = advanced /\ UNCHANGED outcome
           ELSE IF InStack(d) THEN outcome' = "circular" /\ UNCHANGED visiting
           ELSE visiting' = Append(advanced, Call(d)) /\ UNCHANGED outcome
        /\ UNCHANGED <<dependencies, executionOrder>>

Return ==
  /\ outcome = "visiting" /\ visiting # <<>> /\ Top.left = {}
  /\ visiting' = BelowTop
  /\ executionOrder' = Append(executionOrder, Top.id)
  /\ UNCHANGED <<dependencies, outcome>>

OrderEnds ==
  /\ outcome = "visiting" /\ visiting = <<>> /\ \A s \in Steps : Visited(s)
  /\ outcome' = "ordered"
  /\ UNCHANGED <<dependencies, visiting, executionOrder>>

Next == VisitStep \/ VisitDependency \/ Return \/ OrderEnds

Spec == Init /\ [][Next]_vars

-----------------------------------------------------------------------------
\* Some steps depend on each other in a circle.
Circular == \E S \in SUBSET Steps : S # {} /\ \A s \in S : dependencies[s] \cap S # {}

\* The order has every step once and behind its dependencies, and there is none
\* exactly for a circle.
OrderIsTopological ==
  /\ outcome = "circular" => Circular
  /\ outcome = "ordered" =>
       /\ ~Circular
       /\ \A s \in Steps : \E i \in DOMAIN executionOrder :
            /\ \A j \in DOMAIN executionOrder : executionOrder[j] = s <=> j = i
            /\ \A d \in dependencies[s] : \E j \in 1..(i - 1) : executionOrder[j] = d
=============================================================================
