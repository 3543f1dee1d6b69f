--------------------------- MODULE StreamingRetry ---------------------------
(***************************************************************************)
(* What a polling stream does after a poll: retryStreamingPoll of          *)
(* src/src/shared/utils.ts, which the stream of an account and that of its *)
(* transactions share. The delays are those of the code up to their kind:  *)
(* the configured interval, the growing backoff, the cooldown.             *)
(***************************************************************************)
EXTENDS Naturals

CONSTANT MaxFailures   \* maxConsecutiveFailures

RetryStates == [failures : 0..MaxFailures, inCooldown : BOOLEAN]

NoFailure == [failures |-> 0, inCooldown |-> FALSE]

LimitReached(n) == n >= MaxFailures

\* The state after a failed poll.
Counted(enabled, state) ==
  IF ~enabled \/ state.inCooldown THEN state
  ELSE [failures |-> state.failures + 1, inCooldown |-> LimitReached(state.failures + 1)]

ShouldRetry(enabled, state) == enabled /\ ~state.inCooldown /\ ~LimitReached(state.failures + 1)

\* The streams hide a failure that is retried: the error of any other is yielded.
ErrorIsHidden(enabled, state, transient) == transient /\ ShouldRetry(enabled, state)

Delays == {"interval", "backoff", "cooldown"}

DelayAfterFailure(enabled, state, transient) ==
  CASE ErrorIsHidden(enabled, state, transient) -> "backoff"
    [] Counted(enabled, state).inCooldown       -> "cooldown"
    [] OTHER                                    -> "interval"
=============================================================================
