------------------------ MODULE ConnectionThrottling ------------------------
(***************************************************************************)
(* Throttling of the connection attempts of an origin                      *)
(* (src/src/wallet/throttlingCore.ts). Attempts are recorded in a history, *)
(* which is never pruned; too many in a window, or too many failed         *)
(* authentications, block the origin for a while. Origins do not share     *)
(* state, so there is one. Ages saturate at the window, which is the       *)
(* largest value that makes a difference.                                  *)
(***************************************************************************)
EXTENDS Naturals, Sequences, FiniteSets

CONSTANTS
  MaxAttempts,      \* maxAttemptsPerWindow
  TimeWindow,       \* timeWindowMs
  MaxAuthFailures,
  BlockDuration,    \* blockDurationMs
  RuleDuration,     \* expirationMs of a rule that expires
  MaxHistory        \* bound: attempts recorded between two resets

VARIABLES
  history,        \* connectionHistory: the age of each attempt
  authFailures,
  blocked,
  blockLeft,      \* blockExpiresAt - Date.now()
  rule,           \* rateLimitRules: "none", "allow" or "block"
  ruleLeft,       \* time until the rule is past its expiresAt
  quiet           \* history: time since an attempt was recorded

vars == <<history, authFailures, blocked, blockLeft, rule, ruleLeft, quiet>>

Patience == TimeWindow + BlockDuration
Forever  == RuleDuration + 1

TypeOK ==
  /\ history \in Seq(0..TimeWindow) /\ Len(history) <= MaxHistory
  /\ authFailures \in 0..MaxAuthFailures
  /\ blocked \in BOOLEAN
  /\ blockLeft \in 0..BlockDuration
  /\ rule \in {"none", "allow", "block"}
  /\ ruleLeft \in 0..Forever
  /\ quiet \in 0..Patience

Init ==
  /\ history = <<>>
  /\ authFailures = 0 /\ blocked = FALSE /\ blockLeft = 0
  /\ rule = "none" /\ ruleLeft = Forever
  /\ quiet = Patience

-----------------------------------------------------------------------------
ruleVars  == <<rule, ruleLeft>>
stateVars == <<authFailures, blocked, blockLeft>>

\* A rule that has expired is deleted by the check that finds it.
RuleApplies(type) == rule = type /\ ruleLeft > 0

Recent == Cardinality({i \in DOMAIN history : history[i] < TimeWindow})

StillBlocked ==
  /\ blocked /\ blockLeft > 0
  /\ UNCHANGED stateVars

\* checkThrottle, when no rule decides: a block that is over is lifted, and the
\* attempts of the window may start the next one at once.
Block == /\ blocked' = TRUE /\ blockLeft' = BlockDuration

CheckWindow ==
  /\ ~blocked \/ blockLeft = 0
  /\ authFailures' = IF blocked THEN 0 ELSE authFailures
  /\ IF Recent >= MaxAttempts THEN Block
     ELSE blocked' = FALSE /\ blockLeft' = 0

CheckThrottle ==
  /\ IF rule # "none" /\ ruleLeft = 0
     THEN rule' = "none" /\ ruleLeft' = Forever
     ELSE UNCHANGED ruleVars
  /\ IF rule # "none" /\ ruleLeft > 0
     THEN UNCHANGED stateVars
     ELSE StillBlocked \/ CheckWindow
  /\ UNCHANGED <<history, quiet>>

\* recordConnectionAttempt: outcome is "success", "failure" or, for a reason that
\* mentions AUTH, "auth_failure". A success does not lift a block.
RecordAttempt(outcome) ==
  LET failures == authFailures + 1
  IN  /\ Len(history) < MaxHistory
      /\ history' = Append(history, 0)
      /\ authFailures' = CASE outcome = "success" -> 0
                           [] outcome = "failure" -> authFailures
                           [] outcome = "auth_failure" ->
                                IF failures < MaxAuthFailures THEN failures ELSE MaxAuthFailures
      /\ IF outcome = "auth_failure" /\ failures >= MaxAuthFailures THEN Block
         ELSE UNCHANGED <<blocked, blockLeft>>
      /\ quiet' = 0
      /\ UNCHANGED ruleVars

\* addToAllowlist, addToBlocklist and removeRateLimitRule.
SetRule(type, left) ==
  /\ rule' = type /\ ruleLeft' = left
  /\ UNCHANGED <<history, stateVars, quiet>>

\* resetOriginState takes one attempt only out of the history, the oldest.
ResetOriginState ==
  /\ history' = IF history = <<>> THEN <<>> ELSE Tail(history)
  /\ authFailures' = 0 /\ blocked' = FALSE /\ blockLeft' = 0
  /\ UNCHANGED <<ruleVars, quiet>>

ClearThrottlingState ==
  /\ history' = <<>>
  /\ authFailures' = 0 /\ blocked' = FALSE /\ blockLeft' = 0
  /\ rule' = "none" /\ ruleLeft' = Forever
  /\ UNCHANGED quiet

Down(n) == IF n > 0 THEN n - 1 ELSE 0

Tick ==
  /\ history' = [i \in DOMAIN history |->
                   IF history[i] < TimeWindow THEN history[i] + 1 ELSE TimeWindow]
  /\ blockLeft' = Down(blockLeft)
  /\ ruleLeft' = IF ruleLeft = Forever THEN Forever ELSE Down(ruleLeft)
  /\ quiet' = IF quiet < Patience THEN quiet + 1 ELSE Patience
  /\ UNCHANGED <<authFailures, blocked, rule>>

Next ==
  \/ CheckThrottle
  \/ \E outcome \in {"success", "failure", "auth_failure"} : RecordAttempt(outcome)
  \/ \E type \in {"allow", "block"}, left \in {RuleDuration, Forever} : SetRule(type, left)
  \/ SetRule("none", Forever)
  \/ ResetOriginState
  \/ ClearThrottlingState
  \/ Tick

Spec == Init /\ [][Next]_vars

-----------------------------------------------------------------------------
\* What checkThrottle would answer now.
Allowed ==
  \/ RuleApplies("allow")
  \/ ~RuleApplies("block") /\ (~blocked \/ blockLeft = 0) /\ Recent < MaxAttempts

\* Waiting helps: an origin that has been quiet for a window and a block is let
\* in, however often it was checked and refused in the meantime, unless it is
\* on the blocklist.
WaitingHelps == quiet = Patience /\ ~RuleApplies("block") => Allowed
=============================================================================
