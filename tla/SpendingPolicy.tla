--------------------------- MODULE SpendingPolicy ---------------------------
(***************************************************************************)
(* Spending limits and approvals for one asset                             *)
(* (src/src/transaction/spendingPolicy.ts). A request that is evaluated    *)
(* reserves its amount in every period it falls in; the reservation stays  *)
(* when it completes and ends when it is rejected or failed, which the     *)
(* code allows in every status. A request may be dated at will, so a       *)
(* period is not over when a later one has begun.                          *)
(***************************************************************************)
EXTENDS Naturals, Sequences, FiniteSets, FiniteSetsExt

CONSTANTS
  RequestIds,
  Amounts,      \* of requests
  Ceilings,     \* of limits, NoLimit included
  NoLimit,
  Days,         \* dates of requests: numbers
  MonthStart,   \* the first day of a day's month
  Approvers,
  Policies      \* values of the approval threshold: [amount, required, approvers]

VARIABLES
  limits,       \* the ceiling of each period
  policy,       \* the approval threshold, {} or the set of one
  records

vars == <<limits, policy, records>>

Statuses == {"pending_approval", "authorized", "completed", "rejected", "failed"}

Record == [amount: Amounts, day: Days, status: Statuses,
           approvals: Seq(Approvers), required: Nat]

TypeOK ==
  /\ limits \in [{"per_transaction", "daily", "monthly"} -> Ceilings]
  /\ policy \subseteq Policies /\ Cardinality(policy) <= 1
  /\ DOMAIN records \subseteq RequestIds
  /\ \A id \in DOMAIN records : records[id] \in Record

Init ==
  /\ limits = [p \in {"per_transaction", "daily", "monthly"} |-> NoLimit]
  /\ policy = {}
  /\ records = <<>>

-----------------------------------------------------------------------------
\* Mutant: what waits for approval reserves nothing.
ConsumesWhenAuthorized(status) == status \in {"authorized", "completed"}

ConsumesCapacity(status) == status \in {"authorized", "pending_approval", "completed"}

Total(S) == MapThenSumSet(LAMBDA id : records[id].amount, S)

Reserved == {id \in DOMAIN records : ConsumesCapacity(records[id].status)}

PeriodStart(p, day) == IF p = "daily" THEN day ELSE MonthStart[day]

\* getSpendingUsage: everything dated from the start of the period on, what is
\* dated after its end included.
Usage(p, day) == Total({id \in Reserved : records[id].day >= PeriodStart(p, day)})

Exceeds(n, limit) == limit # NoLimit /\ n > limit

WithinCeilings(amount, day) ==
  /\ ~Exceeds(amount, limits["per_transaction"])
  /\ \A p \in {"daily", "monthly"} : ~Exceeds(Usage(p, day) + amount, limits[p])

RequiredApprovers(amount) ==
  IF \E t \in policy : amount > t.amount THEN (CHOOSE t \in policy : TRUE).required ELSE 0

Put(id, r) ==
  /\ records' = [i \in DOMAIN records \cup {id} |-> IF i = id THEN r ELSE records[i]]
  /\ UNCHANGED <<limits, policy>>

\* evaluate(): a request that is denied is recorded too, and its id used up.
\* listed says whether the destination passes checkDestination.
Evaluate(id, amount, day, listed) ==
  /\ id \notin DOMAIN records
  /\ LET required == IF listed /\ WithinCeilings(amount, day)
                     THEN RequiredApprovers(amount) ELSE 0
     IN  Put(id, [amount |-> amount, day |-> day, approvals |-> <<>>, required |-> required,
                  status |-> IF ~listed \/ ~WithinCeilings(amount, day) THEN "rejected"
                             ELSE IF required > 0 THEN "pending_approval"
                             ELSE "authorized"])

ApprovedBy(r) == {r.approvals[i] : i \in DOMAIN r.approvals}

\* Asked of the threshold of now, which may not be that of the evaluation.
Permitted(id, a) ==
  /\ a \notin ApprovedBy(records[id])
  /\ \A t \in policy : a \in t.approvers

ApproveRequest(id, a) ==
  /\ records[id].status = "pending_approval"
  /\ Permitted(id, a)
  /\ Put(id, [records[id] EXCEPT
       !.approvals = Append(@, a),
       !.status = IF Len(records[id].approvals) + 1 >= records[id].required
                  THEN "authorized" ELSE "pending_approval"])

\* rejectRequest and markFailed look at no status.
RejectRequest(id) == Put(id, [records[id] EXCEPT !.status = "rejected"])
MarkFailed(id)    == Put(id, [records[id] EXCEPT !.status = "failed"])

MarkCompleted(id) ==
  /\ records[id].status = "authorized"
  /\ Put(id, [records[id] EXCEPT !.status = "completed"])

\* setSpendingLimit, and removeSpendingLimit with NoLimit.
SetLimit(p, limit) ==
  /\ limits' = [limits EXCEPT ![p] = limit]
  /\ UNCHANGED <<policy, records>>

SetApprovalThreshold(t) ==
  /\ policy' = {t}
  /\ UNCHANGED <<limits, records>>

Reset ==
  /\ records' = <<>>
  /\ UNCHANGED <<limits, policy>>

Next ==
  \/ \E id \in RequestIds, amount \in Amounts, day \in Days, listed \in BOOLEAN :
       Evaluate(id, amount, day, listed)
  \/ \E id \in DOMAIN records :
       \/ \E a \in Approvers : ApproveRequest(id, a)
       \/ RejectRequest(id)
       \/ MarkFailed(id)
       \/ MarkCompleted(id)
  \/ \E p \in {"per_transaction", "daily", "monthly"}, limit \in Ceilings :
       SetLimit(p, limit)
  \/ \E t \in Policies : SetApprovalThreshold(t)
  \/ Reset

Spec == Init /\ [][Next]_vars

-----------------------------------------------------------------------------
\* What is reserved or spent in a period, counted by the calendar.
SpentIn(p, day) ==
  Total({id \in Reserved : PeriodStart(p, records[id].day) = PeriodStart(p, day)})

\* Two evaluations do not both fit below a ceiling that has room for one, in
\* whatever order requests are evaluated, dated, approved and released: a
\* period's spending never grows beyond the limit of the moment. (It may be
\* above it when the limit is lowered.)
WithinLimits ==
  [][\A p \in {"daily", "monthly"}, day \in Days :
       SpentIn(p, day)' > SpentIn(p, day) => ~Exceeds(SpentIn(p, day), limits[p])']_vars

\* An authorised request has as many different approvers as its evaluation asked
\* for, also if the threshold was replaced meanwhile.
ApprovedByEnough ==
  \A id \in DOMAIN records :
    records[id].status \in {"authorized", "completed"} =>
      Cardinality(ApprovedBy(records[id])) >= records[id].required
=============================================================================
