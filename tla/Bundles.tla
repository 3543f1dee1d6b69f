------------------------------ MODULE Bundles ------------------------------
(***************************************************************************)
(* Bundles of dependent steps (src/src/transaction/bundles.ts): the next   *)
(* step that can run, and recovery of failed steps. A caller runs the      *)
(* steps that findNextExecutableStep hands it and reports how they went;   *)
(* recoverBundle collects the failed steps first and then works through    *)
(* the list, awaiting the recovery action of each. The order of execution  *)
(* is in ExecutionOrder.                                                   *)
(***************************************************************************)
EXTENDS Naturals, Functions

CONSTANTS
  StepCount,
  Dependencies,   \* the dependency functions a bundle can be created with
  Recoverers      \* overlapping calls of recoverBundle

Steps == 1..StepCount

VARIABLES
  dependencies,
  status,       \* of every step
  recoverable,  \* steps with a recovery action
  bundleStatus, \* as last recalculated
  failedSteps,  \* what a recovery has still to do; the first is being recovered
  \* History variables:
  hasCompleted, \* steps that completed at some time
  overlapped    \* recoveries have overlapped

vars == <<dependencies, status, recoverable, bundleStatus, failedSteps, hasCompleted, overlapped>>

Statuses == {"pending", "running", "completed", "failed", "skipped", "recovery"}

TypeOK ==
  /\ dependencies \in Dependencies
  /\ status \in [Steps -> Statuses]
  /\ recoverable \subseteq Steps
  /\ bundleStatus \in {"pending", "running", "completed", "partial_failure", "failed", "recovery"}
  /\ failedSteps \in [Recoverers -> SUBSET recoverable]
  /\ hasCompleted \subseteq Steps /\ overlapped \in BOOLEAN

Init ==
  /\ dependencies \in Dependencies
  /\ status = [s \in Steps |-> "pending"]
  /\ recoverable \in SUBSET Steps
  /\ bundleStatus = "pending"
  /\ failedSteps = [r \in Recoverers |-> {}]
  /\ hasCompleted = {} /\ overlapped = FALSE

-----------------------------------------------------------------------------
\* Mutant: a step that was skipped counts as done.
AreDependenciesMetBySkipped(s) == \A d \in dependencies[s] : status[d] \in {"completed", "skipped"}

AreDependenciesMet(s) == \A d \in dependencies[s] : status[d] = "completed"

Executable(s) == status[s] = "pending" /\ AreDependenciesMet(s)

\* The first executable step whose condition holds; those before it whose
\* condition fails are skipped, and all of them when there is none.
Skipped(refused, upTo) == {s \in refused : s < upTo /\ Executable(s)}

RunNext(s, refused) ==
  /\ Executable(s) /\ s \notin refused
  /\ \A earlier \in Steps : earlier < s /\ Executable(earlier) => earlier \in refused
  /\ status' = [x \in Steps |-> IF x = s THEN "running"
                                ELSE IF x \in Skipped(refused, s) THEN "skipped" ELSE status[x]]
  /\ UNCHANGED <<dependencies, recoverable, bundleStatus, failedSteps, hasCompleted, overlapped>>

NothingToRun(refused) ==
  /\ \A s \in Steps : Executable(s) => s \in refused
  /\ status' = [x \in Steps |-> IF x \in Skipped(refused, StepCount + 1) THEN "skipped" ELSE status[x]]
  /\ UNCHANGED <<dependencies, recoverable, bundleStatus, failedSteps, hasCompleted, overlapped>>

UpdateStepStatus(s, outcome) ==
  /\ status[s] = "running"
  /\ status' = [status EXCEPT ![s] = outcome]
  /\ hasCompleted' = IF outcome = "completed" THEN hasCompleted \cup {s} ELSE hasCompleted
  /\ UNCHANGED <<dependencies, recoverable, bundleStatus, failedSteps, overlapped>>

-----------------------------------------------------------------------------
RecalculateBundleStatus(statuses) ==
  LET some(x)  == x \in Range(statuses)
      only(xs) == Range(statuses) \subseteq xs
      partial  == some("failed") /\ some("completed")
  IN  CASE only({"completed", "skipped"})                       -> "completed"
        [] partial                                              -> "partial_failure"
        [] only({"failed"})                                     -> "failed"
        [] some("recovery") /\ ~partial                         -> "recovery"
        [] some("running") /\ ~some("recovery") /\ ~partial     -> "running"
        [] OTHER                                                -> "pending"

First(s, S) == s \in S /\ \A t \in S : s <= t

Failed == {s \in recoverable : status[s] = "failed"}

RecoverNothing(r) ==
  /\ failedSteps[r] = {} /\ Failed = {}
  /\ bundleStatus' = RecalculateBundleStatus(status)
  /\ UNCHANGED <<dependencies, status, recoverable, failedSteps, hasCompleted, overlapped>>

RecoverBundle(r) ==
  \E s \in Failed :
    /\ failedSteps[r] = {} /\ First(s, Failed)
    /\ failedSteps' = [failedSteps EXCEPT ![r] = Failed]
    /\ status' = [status EXCEPT ![s] = "recovery"]
    /\ overlapped' = (overlapped \/ \E other \in Recoverers : failedSteps[other] # {})
    /\ UNCHANGED <<dependencies, recoverable, bundleStatus, hasCompleted>>

\* The recovery action of the first of the list has answered; the next one starts
\* whatever its step has become meanwhile, and after the last one the bundle's
\* status is recalculated.
RecoveryAnswers(r, outcome) ==
  \E s \in failedSteps[r] :
    LET rest      == failedSteps[r] \ {s}
        recovered == [status EXCEPT ![s] = outcome]
    IN  /\ First(s, failedSteps[r])
        /\ failedSteps' = [failedSteps EXCEPT ![r] = rest]
        /\ \/ /\ rest = {}
              /\ status' = recovered /\ bundleStatus' = RecalculateBundleStatus(recovered)
           \/ \E next \in rest :
                /\ First(next, rest)
                /\ status' = [recovered EXCEPT ![next] = "recovery"] /\ UNCHANGED bundleStatus
        /\ UNCHANGED <<dependencies, recoverable, hasCompleted, overlapped>>

Next ==
  \/ \E refused \in SUBSET {s \in Steps : Executable(s)} :
       NothingToRun(refused) \/ \E s \in Steps : RunNext(s, refused)
  \/ \E s \in Steps, outcome \in {"completed", "failed"} : UpdateStepStatus(s, outcome)
  \/ \E r \in Recoverers :
       \/ RecoverNothing(r)
       \/ RecoverBundle(r)
       \/ \E outcome \in {"pending", "failed"} : RecoveryAnswers(r, outcome)

Spec == Init /\ [][Next]_vars

-----------------------------------------------------------------------------
\* A set of steps that has with each of them those that it depends on.
Closed(S) == \A s \in S : dependencies[s] \subseteq S

\* Steps that a step waits for, directly or through others.
AllBefore(s) == {d \in Steps : \A S \in SUBSET Steps : dependencies[s] \subseteq S /\ Closed(S) => d \in S}

\* A step that has run had its dependencies completed before it; and a step that
\* completed runs again only where two recoveries overlapped.
RunBehindDependencies ==
  \A s \in Steps :
    /\ status[s] \in {"running", "completed", "failed", "recovery"} =>
         dependencies[s] \subseteq hasCompleted
    /\ s \in hasCompleted /\ status[s] # "completed" => overlapped

\* When nothing can run and nothing is under way, a step that waits is on a
\* cycle or behind one that failed, was skipped or is on a cycle.
WaitingHasReason ==
  (\A s \in Steps : ~Executable(s) /\ status[s] \notin {"running", "recovery"}) =>
     \A s \in Steps : status[s] = "pending" =>
       \E d \in AllBefore(s) : status[d] \in {"failed", "skipped"} \/ d \in AllBefore(d)

\* A bundle reported as completed is: no step of it waits, runs or fails any more.
CompletedForGood ==
  bundleStatus = "completed" /\ ~overlapped => Range(status) \subseteq {"completed", "skipped"}
=============================================================================
