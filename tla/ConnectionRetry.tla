--------------------------- MODULE ConnectionRetry ---------------------------
(***************************************************************************)
(* ConnectionRetryController of worker/src/connection-retry.ts, as         *)
(* functions from a controller to a controller.  A controller is a record: *)
(* attempt is retryAttempt, handle says that retryTimer is set, timers     *)
(* counts the timers that will really fire, delay is that of the last one. *)
(* Attempts beyond 16 change nothing any more and are not counted.         *)
(***************************************************************************)
EXTENDS Integers, FiniteSetsExt

CONSTANTS BaseDelay, MaxDelay,   \* milliseconds
          Randoms                \* values of Math.random(), in percent

ASSUME RetryAssumption ==
  /\ BaseDelay \in Nat \ {0} /\ MaxDelay \in Nat \ {0}
  /\ Randoms \subseteq 0 .. 100 /\ Randoms # {}

MaxAttempt == 16

ExponentialDelay(attempt) == Min({BaseDelay * 2 ^ Min({attempt, MaxAttempt}), MaxDelay})

\* A slip: the jitter is added after the cut.
Delay_CutBefore(attempt, random) ==
  (ExponentialDelay(attempt) * (8000 + 40 * random) + 5000) \div 10000

\* GetConnectionRetryDelayMs: 80% to 120% of it, rounded, and cut at the maximum.
Delay(attempt, random) ==
  LET jittered == (ExponentialDelay(attempt) * (8000 + 40 * random) + 5000) \div 10000
  IN  Max({1, Min({MaxDelay, jittered})})

NewController == [attempt |-> 0, handle |-> FALSE, timers |-> 0, delay |-> 0, stopped |-> FALSE]

ClearTimer(c) ==
  IF c.handle THEN [c EXCEPT !.handle = FALSE, !.timers = @ - 1] ELSE c

\* A slip: the counter of attempts survives a connection.
Restored_KeepsAttempt(c) == ClearTimer(c)

\* connected()
Restored(c) == [ClearTimer(c) EXCEPT !.attempt = 0]

\* A slip: a pending timer is not looked at.
Failed_Again(c, random) ==
  IF c.stopped THEN c
  ELSE [c EXCEPT !.attempt = Min({@ + 1, MaxAttempt}), !.handle = TRUE,
                 !.timers = @ + 1, !.delay = Delay(c.attempt, random)]

\* failed(): one connection may fail in several ways, but only the first counts.
Failed(c, random) ==
  IF c.stopped \/ c.handle THEN c
  ELSE [c EXCEPT !.attempt = Min({@ + 1, MaxAttempt}), !.handle = TRUE,
                 !.timers = @ + 1, !.delay = Delay(c.attempt, random)]

\* A slip: the timer of a stopped controller keeps running.
Stop_LeavesTimer(c) == [c EXCEPT !.stopped = TRUE]

\* stop()
Stop(c) == [ClearTimer(c) EXCEPT !.stopped = TRUE]

\* The callback of a timer, up to attemptConnection.
Fires(c) == [c EXCEPT !.handle = FALSE, !.timers = @ - 1]

=============================================================================
