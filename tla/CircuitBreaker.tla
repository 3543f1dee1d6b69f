--------------------------- MODULE CircuitBreaker ---------------------------
(***************************************************************************)
(* The breaker of one endpoint (src/src/network/circuitBreaker.ts) and the *)
(* calls that pass through it.  call() reads the state, awaits fn and only *)
(* then reports the outcome, so between admission and outcome the breaker  *)
(* may have been tripped, probed, closed or reset by the other calls.      *)
(*                                                                         *)
(* Two numbers of the code are kept only as far as it can tell them apart: *)
(* consecutiveFailures saturates at the threshold it is compared with, and *)
(* Date.now() - lastOpenedAt saturates at the recovery window.  Neither    *)
(* needs a bound of its own, and behaviours are infinite.                  *)
(***************************************************************************)
EXTENDS Naturals, TLAPS

CONSTANTS
  Calls,             \* callers of call(), each has one call in flight at most
  FailureThreshold,  \* config.failureThreshold
  RecoveryWindow     \* config.recoveryWindowMs, in clock ticks

ASSUME BreakerAssumption ==
  /\ FailureThreshold \in Nat \ {0}
  /\ RecoveryWindow \in Nat

VARIABLES
  breaker,   \* [state, failures, age]: age is the time since lastOpenedAt
  inFlight   \* the state each call was admitted in, "none" when not running

vars == <<breaker, inFlight>>

BreakerStates == {"CLOSED", "OPEN", "HALF_OPEN"}
Outcomes      == {"success", "transient", "permanent"}

TypeOK ==
  /\ breaker \in [state: BreakerStates, failures: 0..FailureThreshold, age: 0..RecoveryWindow]
  /\ inFlight \in [Calls -> {"none", "CLOSED", "HALF_OPEN"}]

InitialBreaker == [state |-> "CLOSED", failures |-> 0, age |-> RecoveryWindow]

Saturated(n, bound) == IF n > bound THEN bound ELSE n

-----------------------------------------------------------------------------
(* The private helpers, as functions on the breaker's record.              *)

\* Mutant: asking an open circuit extends its window.
CheckRecoverySliding(b) ==
  IF b.state # "OPEN" THEN b
  ELSE IF b.age >= RecoveryWindow THEN [b EXCEPT !.state = "HALF_OPEN"]
  ELSE [b EXCEPT !.age = 0]

CheckRecovery(b) ==
  IF b.state = "OPEN" /\ b.age >= RecoveryWindow
  THEN [b EXCEPT !.state = "HALF_OPEN"] ELSE b

\* Mutant: the probe closes the circuit without clearing the count.
OnSuccessKeepsCount(b) ==
  IF b.state = "HALF_OPEN" THEN [b EXCEPT !.state = "CLOSED"] ELSE [b EXCEPT !.failures = 0]

OnSuccess(b) ==
  [state |-> IF b.state = "HALF_OPEN" THEN "CLOSED" ELSE b.state,
   failures |-> 0, age |-> b.age]

\* Mutant: the state is not looked at before the count.
TripsWhenever(b) == b.state = "HALF_OPEN" \/ b.failures + 1 >= FailureThreshold

Trips(b) ==
  \/ b.state = "HALF_OPEN"
  \/ b.state = "CLOSED" /\ b.failures + 1 >= FailureThreshold

OnFailure(b) ==
  LET failures == Saturated(b.failures + 1, FailureThreshold)
  IN  IF Trips(b)
      THEN [state |-> "OPEN", failures |-> failures, age |-> 0]
      ELSE [b EXCEPT !.failures = failures]

\* isTransientError decides which rejections the breaker counts.
CountsAsFailure(outcome) == outcome = "transient"

AfterOutcome(b, outcome) ==
  IF outcome = "success" THEN OnSuccess(b)
  ELSE IF CountsAsFailure(outcome) THEN OnFailure(b)
  ELSE b

-----------------------------------------------------------------------------
Init ==
  /\ breaker = InitialBreaker
  /\ inFlight = [c \in Calls |-> "none"]

\* Mutant: no fail-fast.
AdmitAlways(c) ==
  /\ inFlight[c] = "none"
  /\ breaker' = CheckRecovery(breaker)
  /\ inFlight' = [inFlight EXCEPT ![c] = breaker'.state]

\* call(): the breaker admits the call and fn starts.
Admit(c) ==
  /\ inFlight[c] = "none"
  /\ CheckRecovery(breaker).state # "OPEN"
  /\ breaker' = CheckRecovery(breaker)
  /\ inFlight' = [inFlight EXCEPT ![c] = breaker'.state]

\* fn settles: onSuccess, onFailure, or a permanent error that passes through.
Settle(c, outcome) ==
  /\ inFlight[c] # "none"
  /\ breaker' = AfterOutcome(breaker, outcome)
  /\ inFlight' = [inFlight EXCEPT ![c] = "none"]

\* currentState, getMetrics(), and a call() that is refused: checkRecovery only.
Query ==
  /\ breaker' = CheckRecovery(breaker)
  /\ UNCHANGED inFlight

Reset ==
  /\ breaker' = [state |-> "CLOSED", failures |-> 0, age |-> breaker.age]
  /\ UNCHANGED inFlight

Tick ==
  /\ breaker.age < RecoveryWindow
  /\ breaker' = [breaker EXCEPT !.age = @ + 1]
  /\ UNCHANGED inFlight

Next ==
  \/ \E c \in Calls : Admit(c)
  \/ \E c \in Calls, outcome \in Outcomes : Settle(c, outcome)
  \/ Query
  \/ Reset
  \/ Tick

SafetySpec == Init /\ [][Next]_vars

\* Time passes.  Nothing obliges a call to settle or anybody to call again.
Spec == SafetySpec /\ WF_vars(Tick)

-----------------------------------------------------------------------------
\* While the circuit is CLOSED the failure count stays below the threshold: no
\* straggler, probe or reset leaves a closed circuit that should have tripped.
ClosedBelowThreshold ==
  breaker.state = "CLOSED" => breaker.failures < FailureThreshold

\* Once the circuit is no longer CLOSED, nothing happens to it before a whole
\* recovery window has passed since it last tripped, unless reset() is called: it
\* stays OPEN, its clock is not set back and no call is let through, whatever
\* calls that were admitted earlier report and whoever asks for its state.  After
\* the window this protection ends: in HALF_OPEN the first outcome to arrive
\* decides, be it a probe's or that of a call admitted while CLOSED.
WindowIsServed ==
  [][breaker.state # "CLOSED" /\ breaker.age < RecoveryWindow =>
       \/ Reset
       \/ /\ breaker'.state = "OPEN" /\ breaker'.age >= breaker.age
          /\ \A c \in Calls : inFlight'[c] \in {"none", inFlight[c]}]_vars

\* What currentState answers: would a new call be refused?
Refusing == CheckRecovery(breaker).state = "OPEN"

\* Once transient failures stop, the circuit eventually never refuses a call
\* again: neither permanent errors of the caller's own making nor callers that
\* keep asking hold it open.
StopsRefusing ==
  <>[][\A c \in Calls : ~Settle(c, "transient")]_vars => <>[]~Refusing

-----------------------------------------------------------------------------
(***************************************************************************)
(* Proofs, for any calls, threshold and window.                            *)
(*                                                                         *)
(* What is checked of the closed circuit is inductive together with the    *)
(* type invariant, because every transition to CLOSED clears the count and *)
(* a count that reaches the threshold trips a closed circuit in the same   *)
(* step.  That the window is served needs one fact more: a circuit is      *)
(* HALF_OPEN only with the whole window behind it, however many stragglers *)
(* tripped and closed it before.                                           *)
(***************************************************************************)
\* A failure is counted up to the threshold and no further.
LEMMA SaturatedInRange ==
  ASSUME NEW n \in 0..FailureThreshold
  PROVE  /\ Saturated(n + 1, FailureThreshold) \in 0..FailureThreshold
         /\ n + 1 < FailureThreshold => Saturated(n + 1, FailureThreshold) = n + 1
BY BreakerAssumption DEF Saturated

Breakers == [state: BreakerStates, failures: 0..FailureThreshold, age: 0..RecoveryWindow]

\* The closed circuit has room for a failure, and the half-open one has waited.
Sound(b) ==
  /\ b.state = "CLOSED" => b.failures < FailureThreshold
  /\ b.state = "HALF_OPEN" => b.age = RecoveryWindow

\* The lazy transition to HALF_OPEN changes the state only, and only from OPEN.
LEMMA CheckRecoverySound ==
  ASSUME NEW b \in Breakers
  PROVE  /\ CheckRecovery(b) \in Breakers
         /\ CheckRecovery(b).age = b.age
         /\ CheckRecovery(b).failures = b.failures
         /\ CheckRecovery(b).state = "CLOSED" <=> b.state = "CLOSED"
         /\ b.age < RecoveryWindow => CheckRecovery(b) = b
         /\ Sound(b) => Sound(CheckRecovery(b))
BY BreakerAssumption DEF Sound, Breakers, CheckRecovery, BreakerStates

\* Whatever a call reports and whenever it does, the breaker stays well-formed,
\* a closed circuit stays below its threshold, and an open one is left alone but
\* for its count.
LEMMA AfterOutcomeSound ==
  ASSUME NEW b \in Breakers, NEW outcome \in Outcomes
  PROVE  /\ AfterOutcome(b, outcome) \in Breakers
         /\ Sound(b) => Sound(AfterOutcome(b, outcome))
         /\ b.state = "OPEN" => /\ AfterOutcome(b, outcome).state = "OPEN"
                                /\ AfterOutcome(b, outcome).age = b.age
<1>1. CASE outcome = "success"
  BY <1>1, BreakerAssumption
  DEF AfterOutcome, OnSuccess, Breakers, Sound, BreakerStates
<1>2. CASE outcome = "transient"
  <2>1. AfterOutcome(b, outcome) = OnFailure(b)
    BY <1>2 DEF AfterOutcome, CountsAsFailure
  <2>2. b.failures \in 0..FailureThreshold
    BY DEF Breakers
  <2>3. CASE Trips(b)
    BY <2>1, <2>2, <2>3, SaturatedInRange, BreakerAssumption
    DEF OnFailure, Breakers, Sound, BreakerStates, Trips
  <2>4. CASE ~Trips(b)
    BY <2>1, <2>2, <2>4, SaturatedInRange, BreakerAssumption
    DEF OnFailure, Breakers, Sound, BreakerStates, Trips
  <2>5. QED BY <2>3, <2>4
<1>3. CASE outcome = "permanent"
  BY <1>3 DEF AfterOutcome, CountsAsFailure
<1>4. QED BY <1>1, <1>2, <1>3 DEF Outcomes

-----------------------------------------------------------------------------
\* HALF_OPEN is reached by checkRecovery only, with the whole window behind it.
HalfOpenHasWaited ==
  breaker.state = "HALF_OPEN" => breaker.age = RecoveryWindow

Inv == TypeOK /\ ClosedBelowThreshold /\ HalfOpenHasWaited

\* A new breaker is closed, well-formed and below its threshold.
LEMMA InitInv == Init => Inv
BY BreakerAssumption
DEF Init, InitialBreaker, Inv, TypeOK, ClosedBelowThreshold, HalfOpenHasWaited, BreakerStates

\* No step of a call, an observer or the clock breaks the invariant.
LEMMA NextInv == Inv /\ [Next]_vars => Inv'
<1> SUFFICES ASSUME Inv, [Next]_vars PROVE Inv'
  OBVIOUS
<1>b. breaker \in Breakers /\ Sound(breaker)
  BY DEF Inv, TypeOK, ClosedBelowThreshold, HalfOpenHasWaited, Breakers, Sound
<1>f. inFlight \in [Calls -> {"none", "CLOSED", "HALF_OPEN"}]
  BY DEF Inv, TypeOK
<1>g. SUFFICES /\ breaker' \in Breakers /\ Sound(breaker')
               /\ inFlight' \in [Calls -> {"none", "CLOSED", "HALF_OPEN"}]
  BY DEF Inv, TypeOK, ClosedBelowThreshold, HalfOpenHasWaited, Breakers, Sound
<1>1. ASSUME NEW c \in Calls, Admit(c)
      PROVE  breaker' \in Breakers /\ Sound(breaker')
             /\ inFlight' \in [Calls -> {"none", "CLOSED", "HALF_OPEN"}]
  <2>1. breaker' \in Breakers /\ Sound(breaker')
    BY <1>1, <1>b, CheckRecoverySound DEF Admit, Sound
  <2>2. breaker'.state \in {"CLOSED", "HALF_OPEN"}
    BY <1>1, <2>1 DEF Admit, Breakers, BreakerStates
  <2>3. QED BY <1>1, <1>f, <2>1, <2>2 DEF Admit
<1>2. ASSUME NEW c \in Calls, NEW outcome \in Outcomes, Settle(c, outcome)
      PROVE  breaker' \in Breakers /\ Sound(breaker')
             /\ inFlight' \in [Calls -> {"none", "CLOSED", "HALF_OPEN"}]
  <2>1. breaker' \in Breakers /\ Sound(breaker')
    BY <1>2, <1>b, AfterOutcomeSound DEF Settle
  <2>2. QED BY <1>2, <1>f, <2>1 DEF Settle
<1>3. CASE Query
  BY <1>3, <1>b, <1>f, CheckRecoverySound DEF Query, Sound
<1>4. CASE Reset
  BY <1>4, <1>b, <1>f, BreakerAssumption DEF Reset, Breakers, Sound, BreakerStates
<1>5. CASE Tick
  BY <1>5, <1>b, <1>f, BreakerAssumption DEF Tick, Breakers, Sound
<1>6. CASE UNCHANGED vars
  BY <1>6, <1>b, <1>f DEF vars
<1>7. QED BY <1>1, <1>2, <1>3, <1>4, <1>5, <1>6 DEF Next

\* The breaker's record and the calls in flight stay well-formed.
THEOREM TypeCorrect == SafetySpec => []TypeOK
<1>1. Inv => TypeOK
  BY DEF Inv
<1>2. QED BY <1>1, InitInv, NextInv, PTL DEF SafetySpec

\* No interleaving of calls leaves a closed circuit that should have tripped.
THEOREM ClosedStaysBelowThreshold == SafetySpec => []ClosedBelowThreshold
<1>1. Inv => ClosedBelowThreshold
  BY DEF Inv
<1>2. QED BY <1>1, InitInv, NextInv, PTL DEF SafetySpec

-----------------------------------------------------------------------------
\* One step of a circuit that has tripped and not waited yet: it goes on waiting,
\* or somebody calls reset().
LEMMA WaitingStep ==
  ASSUME Inv, [Next]_vars, breaker.state # "CLOSED", breaker.age < RecoveryWindow
  PROVE  \/ Reset
         \/ /\ breaker'.state = "OPEN" /\ breaker'.age >= breaker.age
            /\ \A c \in Calls : inFlight'[c] \in {"none", inFlight[c]}
<1>b. breaker \in Breakers /\ breaker.age \in Nat
  BY BreakerAssumption DEF Inv, TypeOK, Breakers
<1>f. inFlight \in [Calls -> {"none", "CLOSED", "HALF_OPEN"}]
  BY DEF Inv, TypeOK
<1>o. breaker.state = "OPEN"
  BY <1>b, BreakerAssumption DEF Inv, HalfOpenHasWaited, Breakers, BreakerStates
<1>1. ASSUME NEW c \in Calls, Admit(c)
      PROVE  FALSE
  BY <1>1, <1>b, <1>o, CheckRecoverySound DEF Admit
<1>2. ASSUME NEW c \in Calls, NEW outcome \in Outcomes, Settle(c, outcome)
      PROVE  /\ breaker'.state = "OPEN" /\ breaker'.age >= breaker.age
             /\ \A d \in Calls : inFlight'[d] \in {"none", inFlight[d]}
  <2>1. breaker'.state = "OPEN" /\ breaker'.age = breaker.age
    BY <1>2, <1>b, <1>o, AfterOutcomeSound DEF Settle
  <2>2. \A d \in Calls : inFlight'[d] \in {"none", inFlight[d]}
    BY <1>2, <1>f DEF Settle
  <2>3. QED BY <2>1, <2>2, <1>b
<1>3. CASE Query
  BY <1>3, <1>b, <1>o, CheckRecoverySound DEF Query
<1>4. CASE Reset
  BY <1>4
<1>5. CASE Tick
  BY <1>5, <1>b, <1>o DEF Tick, Breakers
<1>6. CASE UNCHANGED vars
  BY <1>6, <1>b, <1>o DEF vars
<1>7. QED BY <1>1, <1>2, <1>3, <1>4, <1>5, <1>6 DEF Next

\* Whatever the calls admitted before report and whenever they do, a circuit that
\* has tripped refuses every call for a whole recovery window, unless reset().
THEOREM WindowAlwaysServed == SafetySpec => WindowIsServed
<1>1. Inv /\ [Next]_vars =>
        [breaker.state # "CLOSED" /\ breaker.age < RecoveryWindow =>
           \/ Reset
           \/ /\ breaker'.state = "OPEN" /\ breaker'.age >= breaker.age
              /\ \A c \in Calls : inFlight'[c] \in {"none", inFlight[c]}]_vars
  BY WaitingStep
<1>2. QED BY <1>1, InitInv, NextInv, PTL DEF SafetySpec, WindowIsServed
=============================================================================
