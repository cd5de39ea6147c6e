--------------------------- MODULE CircuitBreaker ---------------------------
(***************************************************************************)
(* Concurrent callers of one CircuitBreaker (enhanced/circuit_breaker.rs). *)
(*                                                                         *)
(* `call` takes the lock to decide on admission, releases it while the     *)
(* wrapped operation runs, and takes it again to record the outcome.  Any  *)
(* number of other calls, resets and trips may happen in between, so an    *)
(* outcome is recorded against whatever state the breaker is in by then.   *)
(***************************************************************************)
EXTENDS BreakerOps

CONSTANT Callers

ASSUME CallersAssumption == IsFiniteSet(Callers)

VARIABLES
    breaker,    \* the CircuitState behind the lock
    running     \* callers whose operation is executing, lock released

vars == <<breaker, running>>

TypeOK ==
    /\ breaker \in Breakers
    /\ running \subseteq Callers

Init ==
    /\ breaker = NewBreaker
    /\ running = {}

-----------------------------------------------------------------------------
\* call(): the first critical section, when the request is let in.
Admit(c) ==
    /\ c \notin running
    /\ ~Rejects(breaker)
    /\ breaker' = Admitted(breaker)
    /\ running' = running \cup {c}

\* The operation of c returns Ok: record_success().
Succeed(c) ==
    /\ c \in running
    /\ breaker' = Succeeded(breaker)
    /\ running' = running \ {c}

\* The operation of c returns Err: record_failure().
Fail(c) ==
    /\ c \in running
    /\ breaker' = Failed(breaker)
    /\ running' = running \ {c}

\* The future returned by call() is dropped while the operation runs (its
\* task is aborted, or a select or a timeout around it fires): no outcome is
\* recorded.
Abandon(c) ==
    /\ c \in running
    /\ running' = running \ {c}
    /\ UNCHANGED breaker

Reset == breaker' = WasReset(breaker) /\ UNCHANGED running

Trip == breaker' = Tripped(breaker) /\ UNCHANGED running

Tick == breaker' = Aged(breaker) /\ UNCHANGED running

Next ==
    \/ \E c \in Callers : Admit(c) \/ Succeed(c) \/ Fail(c) \/ Abandon(c)
    \/ Reset
    \/ Trip
    \/ Tick

Spec == Init /\ [][Next]_vars

\* Time passes, callers keep coming, and a caller that keeps trying is not
\* cancelled or failed every single time.
Fairness ==
    /\ WF_vars(Tick)
    /\ \A c \in Callers : WF_vars(Admit(c)) /\ SF_vars(Succeed(c))

FairSpec == Spec /\ Fairness

-----------------------------------------------------------------------------
\* An open circuit always knows when the failure that keeps it open happened,
\* and that is no longer ago than it opened.  Without the time, `call` would
\* fall through its `if let Some(last_failure)` and admit every request while
\* the status says Open.
OpenSinceAFailure ==
    breaker.status = "Open" =>
        breaker.last_failure # NoTime /\ breaker.last_failure <= breaker.in_state

\* A closed circuit is always short of the number of failures that opens it,
\* whatever calls from earlier periods recorded while it was open or being
\* probed.
ClosedBelowThreshold ==
    breaker.status = "Closed" =>
        breaker.failures = 0 \/ breaker.failures < FailureThreshold

\* While the circuit is half-open its window is empty: the first outcome
\* recorded, success or failure, ends the period.  So the success rate that
\* success_threshold is compared with is always that of a single call.
HalfOpenWindowEmpty ==
    breaker.status = "HalfOpen" => breaker.recent_results = << >>

\* The status fits what was recorded under it, however calls admitted in
\* earlier periods, resets and trips are mixed with those of this one.
StatusSound == OpenSinceAFailure /\ ClosedBelowThreshold /\ HalfOpenWindowEmpty

\* An open circuit lets nobody in before Timeout has passed since it opened
\* (reset() closes it and is the operator's own doing).
OpenLastsTimeout ==
    [][breaker.status = "Open" /\ breaker'.status = "HalfOpen"
         => breaker.in_state >= Timeout]_vars

\* The wait that retry_after_sync() announces is honest: it is zero exactly
\* when the next call is let in, and while the circuit stays open it never
\* grows unless a failure is recorded or the circuit is tripped.
RetryAfterHonest ==
    [][breaker.status = "Open" =>
         /\ (RetryAfter(breaker) = 0) <=> ~Rejects(breaker)
         /\ breaker'.status = "Open" =>
              \/ RetryAfter(breaker') <= RetryAfter(breaker)
              \/ breaker'.last_failure = 0]_vars

\* What keeps a circuit from settling.
Disturbance == Trip \/ \E c \in Callers : Fail(c)

\* Once the service has recovered (no more failures and no manual trips), the
\* circuit closes and stays closed, however long the back-off has grown,
\* whatever calls were still running and whichever ones are dropped.
Recovers == <>[][~Disturbance]_vars => <>[](breaker.status = "Closed")

=============================================================================
