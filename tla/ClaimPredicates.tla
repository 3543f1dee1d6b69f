--------------------------- MODULE ClaimPredicates ---------------------------
(***************************************************************************)
(* The conditions under which a balance may be claimed                     *)
(* (src/transaction/claimableBalance.ts): what callers write is checked    *)
(* and turned into what the ledger knows, which has no "after" and joins   *)
(* two conditions at a time. A predicate is <<type, content>>; amounts,    *)
(* addresses and assets, which are checked by themselves, are left out.    *)
(***************************************************************************)
EXTENDS Integers, SequencesExt

CONSTANTS
  Predicates,  \* what callers write
  Malformed,   \* a time that is missing, no number or too large
  Instants     \* the times at which a balance is made, and how long it waits

VARIABLES predicate, outcome

vars == <<predicate, outcome>>

Type(p)    == p[1]
Content(p) == p[2]

Unbuilt == [kind |-> "none", condition |-> <<>>]

TypeOK ==
  /\ predicate \in Predicates
  /\ outcome.kind \in {"none", "invalid", "unconvertible", "built"}

Init == predicate \in Predicates /\ outcome = Unbuilt

Befores == {"beforeAbsoluteTime", "beforeRelativeTime"}
Afters  == {"afterAbsoluteTime", "afterRelativeTime"}

IsTime(t) == t # Malformed

\* The latest start and the earliest end among the direct children, whichever
\* clock they are about.
Bounds(children, types) == {Content(children[i]) : i \in {j \in DOMAIN children : Type(children[j]) \in types}}

WindowIsOpen(children) ==
  LET starts == Bounds(children, Afters)
      ends   == Bounds(children, Befores)
  IN starts # {} /\ ends # {} => Min(ends) > Max(starts)

RECURSIVE Valid(_)
Valid(p) ==
  CASE Type(p) = "unconditional" -> TRUE
    [] Type(p) \in Befores \cup Afters -> IsTime(Content(p))
    [] Type(p) \in {"and", "or"} ->
         /\ Len(Content(p)) >= 2
         /\ \A i \in DOMAIN Content(p) : Valid(Content(p)[i])
         /\ WindowIsOpen(Content(p))
    [] Type(p) = "not" -> Content(p) # <<>> /\ Valid(Content(p))

-----------------------------------------------------------------------------
\* The ledger's conditions.
Before(clock, t) == <<clock, t>>
Not(c)           == <<"not", c>>
Joined(how, l, r) == <<how, l, r>>

Unconvertible == <<"unconvertible">>

Clock(type) == IF type \in {"beforeAbsoluteTime", "afterAbsoluteTime"} THEN "absolute" ELSE "relative"

Timed(p) ==
  CASE ~IsTime(Content(p)) -> Unconvertible
    [] IsTime(Content(p)) /\ Type(p) \in Befores -> Before(Clock(Type(p)), Content(p))
    [] IsTime(Content(p)) /\ Type(p) \in Afters  -> Not(Before(Clock(Type(p)), Content(p)))

\* Children are joined from the left, and the first that cannot be converted ends it.
Folded(how, conditions) ==
  IF Len(conditions) < 2 \/ Unconvertible \in ToSet(conditions) THEN Unconvertible
  ELSE FoldLeft(LAMBDA l, r : Joined(how, l, r), Head(conditions), Tail(conditions))

RECURSIVE ToClaimPredicate(_)
ToClaimPredicate(p) ==
  CASE Type(p) = "unconditional" -> <<"unconditional">>
    [] Type(p) \in Befores \cup Afters -> Timed(p)
    [] Type(p) \in {"and", "or"} ->
         Folded(Type(p), [i \in DOMAIN Content(p) |-> ToClaimPredicate(Content(p)[i])])
    [] Type(p) = "not" ->
         IF Content(p) = <<>> THEN Unconvertible
         ELSE LET child == ToClaimPredicate(Content(p))
              IN IF child = Unconvertible THEN Unconvertible ELSE Not(child)

Built ==
  LET condition == ToClaimPredicate(predicate)
  IN IF condition = Unconvertible THEN [kind |-> "unconvertible", condition |-> <<>>]
     ELSE [kind |-> "built", condition |-> condition]

BuildCreateClaimableBalance ==
  /\ outcome.kind = "none"
  /\ outcome' = IF Valid(predicate) THEN Built ELSE [kind |-> "invalid", condition |-> <<>>]
  /\ UNCHANGED predicate

Next == BuildCreateClaimableBalance

Spec == Init /\ [][Next]_vars

-----------------------------------------------------------------------------
\* What the caller means, and what the ledger makes of it, when a balance made at
\* one time is claimed so much later.
RECURSIVE Means(_, _, _)
Means(p, made, waited) ==
  CASE Type(p) = "unconditional"      -> TRUE
    [] Type(p) = "beforeAbsoluteTime" -> made + waited < Content(p)
    [] Type(p) = "afterAbsoluteTime"  -> made + waited >= Content(p)
    [] Type(p) = "beforeRelativeTime" -> waited < Content(p)
    [] Type(p) = "afterRelativeTime"  -> waited >= Content(p)
    [] Type(p) = "and" -> \A i \in DOMAIN Content(p) : Means(Content(p)[i], made, waited)
    [] Type(p) = "or"  -> \E i \in DOMAIN Content(p) : Means(Content(p)[i], made, waited)
    [] Type(p) = "not" -> ~Means(Content(p), made, waited)

RECURSIVE Holds(_, _, _)
Holds(c, made, waited) ==
  CASE c[1] = "unconditional" -> TRUE
    [] c[1] = "absolute" -> made + waited < c[2]
    [] c[1] = "relative" -> waited < c[2]
    [] c[1] = "and" -> Holds(c[2], made, waited) /\ Holds(c[3], made, waited)
    [] c[1] = "or"  -> Holds(c[2], made, waited) \/ Holds(c[3], made, waited)
    [] c[1] = "not" -> ~Holds(c[2], made, waited)

\* An "and" of times of one clock, perhaps with the unconditional.
Leaf(p) == Type(p) \notin {"and", "or", "not"}
OneClock(p) ==
  /\ Type(p) = "and"
  /\ \A i \in DOMAIN Content(p) : Leaf(Content(p)[i])
  /\ Cardinality({Clock(Type(Content(p)[i])) :
       i \in {j \in DOMAIN Content(p) : Type(Content(p)[j]) # "unconditional"}}) <= 1

\* A predicate that is accepted can be converted, and the ledger lets a balance be
\* claimed exactly when the caller meant it to; and when times of one clock are
\* joined by "and", those accepted are those that can be met at all. (An "or" is
\* refused on the same grounds though it could be met, and so is an "and" of
\* two clocks.)
MeaningIsKept ==
  /\ outcome.kind # "unconvertible"
  /\ outcome.kind = "built" =>
       \A made, waited \in Instants :
         Holds(outcome.condition, made, waited) = Means(predicate, made, waited)
  /\ outcome.kind \in {"built", "invalid"} /\ OneClock(predicate) /\ Len(Content(predicate)) >= 2
       /\ (\A i \in DOMAIN Content(predicate) : Valid(Content(predicate)[i])) =>
         (outcome.kind = "built" <=> \E made, waited \in Instants : Means(predicate, made, waited))
=============================================================================
