---------------------------- MODULE AccountStream ----------------------------
(***************************************************************************)
(* The stream of an account that polls Horizon                             *)
(* (src/src/account/streamAccount.ts) with its balance alerts              *)
(* (src/src/account/balanceAlerts.ts): snapshots that differ are yielded,  *)
(* the interval adapts, callbacks hear of balances that change and of      *)
(* thresholds that are crossed, and a callback that throws makes the poll  *)
(* a failed one. The account is external: one asset, absent or with a      *)
(* balance.                                                                *)
(***************************************************************************)
EXTENDS Integers, StreamingRetry

CONSTANTS
  MaxBalance,
  Threshold,           \* of a rule "below" and of a rule "above"
  MinInterval, MaxInterval, BaseInterval,  \* in steps of ADAPTIVE_INTERVAL_STEP_MS
  AdaptiveThreshold,
  MaxChanges           \* bound: changes of the account

Absent == -1
NotYet == -2           \* nothing was emitted
Balances == {Absent} \cup 0..MaxBalance

VARIABLES
  adaptive, pollsLeft,            \* configuration, and maxPolls - polls
  account, changes,               \* external
  stage, aborted, lastEmitted, currentInterval, unchangedPolls, retryState, nextDelay,
  lastAlert,                      \* history: the last alert
  threw                           \* history: a callback has thrown

vars == <<adaptive, pollsLeft, account, changes, stage, aborted, lastEmitted, currentInterval,
          unchangedPolls, retryState, nextDelay, lastAlert, threw>>

Unlimited == 3
Alerts    == {"below", "above"}

TypeOK ==
  /\ adaptive \in BOOLEAN /\ pollsLeft \in 0..Unlimited
  /\ account \in Balances /\ changes \in 0..MaxChanges
  /\ stage \in {"sleeping", "polling", "ended"} /\ aborted \in BOOLEAN
  /\ lastEmitted \in Balances \cup {NotYet}
  /\ currentInterval \in MinInterval..MaxInterval
  /\ unchangedPolls \in 0..(AdaptiveThreshold - 1)
  /\ retryState \in RetryStates /\ nextDelay \in Delays
  /\ lastAlert \in Alerts \cup {"none"} /\ threw \in BOOLEAN

Init ==
  /\ adaptive \in BOOLEAN /\ pollsLeft \in {2, Unlimited}
  /\ account \in Balances /\ changes = 0
  /\ stage = "sleeping" /\ aborted = FALSE
  /\ lastEmitted = NotYet
  /\ currentInterval = BaseInterval /\ unchangedPolls = 0
  /\ retryState = NoFailure /\ nextDelay = "interval"
  /\ lastAlert = "none" /\ threw = FALSE

-----------------------------------------------------------------------------
\* With no baseline the new balance alone decides; a balance that is gone alerts
\* nobody.
Crosses(rule, old, new) ==
  LET past(b) == IF rule = "below" THEN b < Threshold ELSE b > Threshold
  IN  /\ new # Absent /\ past(new)
      /\ old \in {NotYet, Absent} \/ ~past(old)

Fired(new) == {rule \in Alerts : Crosses(rule, lastEmitted, new)}

AdjustInterval(changed) ==
  IF ~adaptive THEN UNCHANGED <<currentInterval, unchangedPolls>>
  ELSE IF changed
  THEN /\ unchangedPolls' = 0
       /\ currentInterval' = IF currentInterval > MinInterval THEN currentInterval - 1 ELSE MinInterval
  ELSE IF unchangedPolls + 1 < AdaptiveThreshold
  THEN unchangedPolls' = unchangedPolls + 1 /\ UNCHANGED currentInterval
  ELSE /\ unchangedPolls' = 0
       /\ currentInterval' = IF currentInterval < MaxInterval THEN currentInterval + 1 ELSE MaxInterval

\* The top of the loop, then the sleep, which an abort does not cut short, and
\* the look at the signal after it.
Wake ==
  /\ stage = "sleeping"
  /\ stage' = IF aborted \/ pollsLeft = 0 THEN "ended" ELSE "polling"
  /\ UNCHANGED <<adaptive, pollsLeft, account, changes, aborted, lastEmitted, currentInterval,
                 unchangedPolls, retryState, nextDelay, lastAlert, threw>>

PollEnds ==
  /\ stage = "polling" /\ stage' = "sleeping"
  /\ pollsLeft' = IF pollsLeft = Unlimited THEN Unlimited ELSE pollsLeft - 1
  /\ UNCHANGED <<adaptive, account, changes, aborted>>

Alert(fired) == lastAlert' = IF fired = {} THEN lastAlert ELSE CHOOSE rule \in fired : TRUE

PollSucceeds ==
  /\ PollEnds
  /\ Alert(Fired(account))
  /\ IF lastEmitted = NotYet THEN UNCHANGED <<currentInterval, unchangedPolls>>
     ELSE AdjustInterval(account # lastEmitted)
  /\ lastEmitted' = account
  /\ retryState' = NoFailure /\ nextDelay' = "interval"
  /\ UNCHANGED threw

\* enableAutoRetry is on, the default.
Failed(transient) ==
  /\ retryState' = Counted(TRUE, retryState)
  /\ nextDelay' = DelayAfterFailure(TRUE, retryState, transient)

\* Horizon answers with an error.
PollFails(transient) ==
  /\ PollEnds
  /\ AdjustInterval(FALSE)
  /\ Failed(transient)
  /\ UNCHANGED <<lastEmitted, lastAlert, threw>>

\* A callback throws: one of those for balances, which come first, or that for
\* alerts. The snapshot counts as never seen. (Bound: once.)
CallbackThrows(atAlert, transient) ==
  /\ PollEnds
  /\ ~threw /\ threw' = TRUE
  /\ IF atAlert THEN Fired(account) # {} /\ Alert(Fired(account))
     ELSE lastEmitted # NotYet /\ account # lastEmitted /\ UNCHANGED lastAlert
  /\ Failed(transient)
  /\ UNCHANGED <<lastEmitted, currentInterval, unchangedPolls>>

Abort ==
  /\ ~aborted /\ aborted' = TRUE
  /\ UNCHANGED <<adaptive, pollsLeft, account, changes, stage, lastEmitted, currentInterval,
                 unchangedPolls, retryState, nextDelay, lastAlert, threw>>

AccountChanges(balance) ==
  /\ changes < MaxChanges /\ changes' = changes + 1
  /\ balance # account /\ account' = balance
  /\ UNCHANGED <<adaptive, pollsLeft, stage, aborted, lastEmitted, currentInterval,
                 unchangedPolls, retryState, nextDelay, lastAlert, threw>>

Answer ==
  \/ PollSucceeds
  \/ \E transient \in BOOLEAN :
       PollFails(transient) \/ \E atAlert \in BOOLEAN : CallbackThrows(atAlert, transient)

Next ==
  \/ Wake
  \/ Answer
  \/ Abort
  \/ \E balance \in Balances : AccountChanges(balance)

\* Sleeps and polls end, and Horizon does not fail for ever.
Spec == Init /\ [][Next]_vars /\ WF_vars(Wake) /\ WF_vars(Answer) /\ SF_vars(PollSucceeds)

-----------------------------------------------------------------------------
\* The last alert tells on which side of the threshold the balance last seen is,
\* however many polls failed and whatever vanished in between: no crossing goes
\* unreported unless a callback threw.
AlertsFit ==
  ~threw /\ lastEmitted >= 0 =>
    /\ lastEmitted < Threshold => lastAlert = "below"
    /\ lastEmitted > Threshold => lastAlert = "above"

\* A stream that goes on shows the account as it is in the end, also after a
\* callback threw.
AccountIsShown ==
  []<>(lastEmitted = account \/ stage = "ended" \/ aborted \/ pollsLeft # Unlimited)
=============================================================================
