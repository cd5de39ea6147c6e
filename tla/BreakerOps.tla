----------------------------- MODULE BreakerOps -----------------------------
(***************************************************************************)
(* The transitions of the circuit breaker of enhanced/circuit_breaker.rs   *)
(* as functions from a breaker value to a breaker value.  In the code each *)
(* of them runs under the write lock of `state`, so each is one step.      *)
(*                                                                         *)
(* Time is discrete.  The two Instants of CircuitState are kept as ages    *)
(* (ticks since the Instant).  An age is only ever compared with a probe   *)
(* interval, and MaxInterval is the longest one, so ages stop growing at   *)
(* MaxInterval without losing anything.  probe_failures is only read       *)
(* through min(probe_failures, BackoffCap) and is kept saturated at        *)
(* BackoffCap.  The `successes` counter is only reported and is left out.  *)
(***************************************************************************)
EXTENDS Naturals, Sequences, FiniteSets

CONSTANTS
    FailureThreshold,   \* consecutive failures that open the circuit
    SuccessNum,         \* success_threshold is the fraction
    SuccessDen,         \*   SuccessNum / SuccessDen
    Timeout,            \* base probe interval, in ticks
    WindowSize,         \* capacity of recent_results
    BackoffCap,         \* 6 in the code
    NoTime              \* last_failure_time = None

ASSUME BreakerAssumption ==
    /\ FailureThreshold \in Nat
    /\ SuccessNum \in Nat /\ SuccessDen \in Nat \ {0} /\ SuccessNum <= SuccessDen
    /\ Timeout \in Nat
    /\ WindowSize \in Nat \ {0}
    /\ BackoffCap \in 0..6
    /\ NoTime \notin Nat

Statuses == {"Closed", "Open", "HalfOpen"}

Least(m, n) == IF m <= n THEN m ELSE n

\* 1u32 << probe_failures.min(6)
BackoffFactor(p) == <<1, 2, 4, 8, 16, 32, 64>>[Least(p, BackoffCap) + 1]

ProbeIntervalFlat(b) == Timeout                \* mutant: no back-off

ProbeInterval(b) == Timeout * BackoffFactor(b.probe_failures)

MaxInterval == Timeout * BackoffFactor(BackoffCap)

Ages == 0..MaxInterval

\* The window never holds more outcomes than its capacity.
Windows == {w \in Seq(BOOLEAN) : Len(w) <= WindowSize}

Breakers == [ status         : Statuses,
              failures       : Nat,
              last_failure   : Ages \cup {NoTime},
              in_state       : Ages,
              recent_results : Windows,
              probe_failures : 0..BackoffCap ]

NewBreaker == [ status         |-> "Closed",
                failures       |-> 0,
                last_failure   |-> NoTime,
                in_state       |-> 0,
                recent_results |-> << >>,
                probe_failures |-> 0 ]

-----------------------------------------------------------------------------
Older(age) == IF age = NoTime THEN NoTime ELSE Least(age + 1, MaxInterval)

\* One tick of the clock seen by this breaker.
Aged(b) == [b EXCEPT !.last_failure = Older(@), !.in_state = Older(@)]

ProbeDue(b) == b.last_failure # NoTime /\ b.last_failure >= ProbeInterval(b)

\* `call` refuses the request without changing anything.
Rejects(b) == b.status = "Open" /\ b.last_failure # NoTime /\ ~ProbeDue(b)

\* The breaker after `call` has let the request in.  An open circuit with
\* no failure time falls through `if let Some(..)` and admits the request.
Admitted(b) ==
    IF b.status = "Open" /\ ProbeDue(b)
    THEN [b EXCEPT !.status = "HalfOpen", !.recent_results = << >>,
                   !.failures = 0, !.in_state = 0]
    ELSE b

\* push_back, then pop_front when the window is over its capacity.
Pushed(w, r) == IF Len(w) + 1 > WindowSize THEN Tail(Append(w, r)) ELSE Append(w, r)

SuccessCount(w) == Cardinality({i \in 1..Len(w) : w[i]})

\* mutant: the rate must exceed the threshold
RateExceeded(w) == Len(w) > 0 /\ SuccessCount(w) * SuccessDen > SuccessNum * Len(w)

RateReached(w) == Len(w) > 0 /\ SuccessCount(w) * SuccessDen >= SuccessNum * Len(w)

Succeeded(b) ==
    LET w == Pushed(b.recent_results, TRUE)
    IN  CASE b.status = "HalfOpen" /\ RateReached(w) ->
               [b EXCEPT !.recent_results = w, !.status = "Closed", !.failures = 0,
                         !.probe_failures = 0, !.in_state = 0]
          [] b.status = "Closed" ->
               [b EXCEPT !.recent_results = w, !.failures = 0]
          [] OTHER ->
               [b EXCEPT !.recent_results = w]

ThresholdExceeded(n) == n > FailureThreshold   \* mutant: one failure too late

ThresholdReached(n) == n >= FailureThreshold

Failed(b) ==
    LET f == [b EXCEPT !.recent_results = Pushed(@, FALSE),
                       !.failures = @ + 1,
                       !.last_failure = 0]
    IN  CASE b.status = "Closed" /\ ThresholdReached(f.failures) ->
               [f EXCEPT !.status = "Open", !.in_state = 0]
          [] b.status = "HalfOpen" ->
               [f EXCEPT !.status = "Open", !.in_state = 0,
                         !.probe_failures = Least(@ + 1, BackoffCap)]
          [] OTHER -> f

\* reset(): the failure time survives.
WasReset(b) == [NewBreaker EXCEPT !.last_failure = b.last_failure]

\* mutant: the back-off clock is not restarted
TrippedKeepsTime(b) == [b EXCEPT !.status = "Open", !.in_state = 0]

\* trip(): counters, window and back-off survive.
Tripped(b) == [b EXCEPT !.status = "Open", !.last_failure = 0, !.in_state = 0]

\* retry_after_sync(): the wait announced to a refused client.
RetryAfter(b) ==
    IF b.status # "Open" \/ b.last_failure = NoTime THEN NoTime
    ELSE IF b.last_failure >= Timeout * BackoffFactor(b.probe_failures) THEN 0
         ELSE Timeout * BackoffFactor(b.probe_failures) - b.last_failure
=============================================================================
