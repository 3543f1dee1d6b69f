---------------------------- MODULE SplitPayment ----------------------------
(***************************************************************************)
(* The plan that splits a strict-receive payment over several routes       *)
(* (buildOptimizedSplitPaymentPlan in src/transaction/pathPayment.ts):     *)
(* quotes are ranked by their rate and filled one after another.           *)
(* Amounts are in their smallest unit. Rates are compared as fractions;    *)
(* the code divides doubles, which tell small fractions apart.             *)
(***************************************************************************)
EXTENDS Integers, SequencesExt

CONSTANTS
  QuoteLists,   \* sequences of [capacity, source]
  Targets, PathLimits, MinLegs

VARIABLES quotes, target, maxPaths, minLeg, plan

vars == <<quotes, target, maxPaths, minLeg, plan>>

\* A leg names the quote that it uses.
Legs == [quote : Nat, destination : Nat, source : Nat]

Without(outcome) == [outcome |-> outcome, legs |-> <<>>, total |-> 0]

TypeOK ==
  /\ quotes \in QuoteLists /\ target \in Targets /\ maxPaths \in PathLimits /\ minLeg \in MinLegs
  /\ plan.outcome \in {"none", "invalid", "insufficient", "planned"}
  /\ plan.legs \in Seq(Legs) /\ plan.total \in Nat

Init ==
  /\ quotes \in QuoteLists /\ target \in Targets /\ maxPaths \in PathLimits /\ minLeg \in MinLegs
  /\ plan = Without("none")

Invalid ==
  \/ target <= 0 \/ quotes = <<>> \/ maxPaths <= 0
  \/ \E i \in DOMAIN quotes : quotes[i].capacity <= 0 \/ quotes[i].source <= 0

\* The sort is stable.
Cheaper(i, j) ==
  LET l == quotes[i].source * quotes[j].capacity
      r == quotes[j].source * quotes[i].capacity
  IN l < r \/ (l = r /\ i < j)

Ranked == SetToSortSeq(DOMAIN quotes, Cheaper)

Cost(quote, destination) == (quote.source * destination + quote.capacity - 1) \div quote.capacity

\* The first leg may be smaller than the smallest allowed.
Fill(filled, i) ==
  LET destination == IF filled.remaining < quotes[i].capacity THEN filled.remaining
                     ELSE quotes[i].capacity
  IN IF filled.remaining = 0 \/ (destination < minLeg /\ filled.remaining # target) THEN filled
     ELSE [remaining |-> filled.remaining - destination,
           legs |-> Append(filled.legs, [quote |-> i, destination |-> destination,
                                         source |-> Cost(quotes[i], destination)])]

Filled ==
  FoldLeft(Fill, [remaining |-> target, legs |-> <<>>],
           SubSeq(Ranked, 1, IF maxPaths < Len(Ranked) THEN maxPaths ELSE Len(Ranked)))

Planned(filled) ==
  IF filled.remaining > 0 THEN Without("insufficient")
  ELSE [outcome |-> "planned", legs |-> filled.legs,
        total |-> FoldLeft(LAMBDA sum, leg : sum + leg.source, 0, filled.legs)]

BuildPlan ==
  /\ plan.outcome = "none"
  /\ plan' = IF Invalid THEN Without("invalid") ELSE Planned(Filled)
  /\ UNCHANGED <<quotes, target, maxPaths, minLeg>>

Next == BuildPlan

Spec == Init /\ [][Next]_vars

-----------------------------------------------------------------------------
Total(f) == FoldFunction(+, 0, f)

\* Every way to take the target from the quotes.
Allocations == {f \in [DOMAIN quotes -> 0 .. target] :
                  /\ \A i \in DOMAIN f : f[i] <= quotes[i].capacity
                  /\ Total(f) = target}

Price(f) == Total([i \in DOMAIN f |-> Cost(quotes[i], f[i])])

\* A plan delivers the target, with different routes and none beyond its capacity,
\* as few as allowed, none but the first below the smallest leg; it pays for each
\* leg what its quote demands; and no other way is cheaper by more than what
\* rounding adds, a unit for every leg but one, unless legs were passed over.
\* Without limits, a plan is refused only if there is none.
PlanIsGood ==
  /\ plan.outcome = "planned" =>
       LET of(i) == plan.legs[i] IN
       /\ Total([i \in DOMAIN plan.legs |-> of(i).destination]) = target
       /\ Len(plan.legs) \in 1 .. maxPaths
       /\ \A i, j \in DOMAIN plan.legs : i # j => of(i).quote # of(j).quote
       /\ \A i \in DOMAIN plan.legs :
            LET quote == quotes[of(i).quote] IN
            /\ of(i).destination \in 1 .. quote.capacity
            /\ i > 1 => of(i).destination >= minLeg
            /\ of(i).source * quote.capacity >= quote.source * of(i).destination
       /\ minLeg = 0 => \A f \in Allocations : plan.total <= Price(f) + Len(plan.legs) - 1
  /\ plan.outcome = "insufficient" /\ minLeg = 0 /\ maxPaths >= Len(quotes) => Allocations = {}
=============================================================================
