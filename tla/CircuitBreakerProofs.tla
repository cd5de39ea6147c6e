------------------------ MODULE CircuitBreakerProofs ------------------------
(***************************************************************************)
(* What holds of CircuitBreaker for every number of callers, threshold,    *)
(* timeout, window and back-off cap.                                       *)
(***************************************************************************)
EXTENDS CircuitBreaker, FiniteSetTheorems, TLAPS

\* The back-off factor is a positive number for every reachable exponent
\* (the shift 1u32 << probe_failures.min(6)).
LEMMA FactorType ==
    ASSUME NEW p \in 0..BackoffCap
    PROVE  /\ BackoffFactor(p) \in Nat \ {0}
           /\ BackoffFactor(p) <= BackoffFactor(BackoffCap)
<1>1. BackoffCap \in 0..6
  BY BreakerAssumption
<1>2. Least(p, BackoffCap) = p /\ Least(BackoffCap, BackoffCap) = BackoffCap
  BY <1>1 DEF Least
<1>3. /\ BackoffFactor(p) = <<1, 2, 4, 8, 16, 32, 64>>[p + 1]
      /\ BackoffFactor(BackoffCap) = <<1, 2, 4, 8, 16, 32, 64>>[BackoffCap + 1]
  BY <1>2 DEF BackoffFactor
<1>4. /\ p \in {0, 1, 2, 3, 4, 5, 6}
      /\ BackoffCap \in {0, 1, 2, 3, 4, 5, 6}
      /\ p <= BackoffCap
  BY <1>1
<1>. QED  BY <1>3, <1>4

\* Probe intervals are times between Timeout and MaxInterval.
LEMMA IntervalType ==
    ASSUME NEW b \in Breakers
    PROVE  /\ ProbeInterval(b) \in Nat
           /\ MaxInterval \in Nat
           /\ Timeout <= ProbeInterval(b)
           /\ ProbeInterval(b) <= MaxInterval
<1>. DEFINE f == BackoffFactor(b.probe_failures)
            g == BackoffFactor(BackoffCap)
<1>1. f \in Nat \ {0} /\ f <= g /\ g \in Nat \ {0}
  <2>1. b.probe_failures \in 0..BackoffCap /\ BackoffCap \in 0..BackoffCap
    BY BreakerAssumption DEF Breakers
  <2>. QED  BY <2>1, FactorType
<1>2. Timeout \in Nat
  BY BreakerAssumption
<1>. HIDE DEF f, g
<1>3. /\ Timeout * f \in Nat /\ Timeout * g \in Nat
      /\ Timeout <= Timeout * f
      /\ Timeout * f <= Timeout * g
  BY <1>1, <1>2
<1>. QED  BY <1>3 DEF ProbeInterval, MaxInterval, f, g

-----------------------------------------------------------------------------
(* The invariant as a predicate on one breaker value, so that each          *)
(* operation is a lemma of its own: it maps good values to good values.     *)

OpenOK(b) ==
    b.status = "Open" => b.last_failure # NoTime /\ b.last_failure <= b.in_state

ClosedOK(b) ==
    b.status = "Closed" => b.failures = 0 \/ b.failures < FailureThreshold

HalfOpenOK(b) == b.status = "HalfOpen" => b.recent_results = << >>

Good(b) == b \in Breakers /\ OpenOK(b) /\ ClosedOK(b) /\ HalfOpenOK(b)

\* The values the operations assign are values of their fields.
LEMMA FieldValues ==
    /\ MaxInterval \in Nat
    /\ 0 \in Ages
    /\ Ages \subseteq Nat
    /\ NoTime \notin Nat
    /\ {"Closed", "Open", "HalfOpen"} = Statuses
    /\ 0 \in 0..BackoffCap
    /\ BackoffCap \in 0..BackoffCap
    /\ << >> \in Windows
<1>1. BackoffCap \in Nat /\ Timeout \in Nat /\ NoTime \notin Nat
  BY BreakerAssumption
<1>2. 0 \in 0..BackoffCap /\ BackoffCap \in 0..BackoffCap
  BY <1>1
<1>3. BackoffFactor(BackoffCap) \in Nat
  BY <1>2, FactorType
<1>4. MaxInterval \in Nat
  BY <1>1, <1>3 DEF MaxInterval
<1>5. << >> \in Windows
  <2>1. << >> \in Seq(BOOLEAN) /\ Len(<< >>) = 0
    OBVIOUS
  <2>. QED  BY <2>1, BreakerAssumption DEF Windows
<1>. QED  BY <1>1, <1>2, <1>4, <1>5 DEF Ages, Statuses

LEMMA NewBreakerGood == Good(NewBreaker)
<1>1. NewBreaker \in Breakers
  BY FieldValues DEF NewBreaker, Breakers
<1>. QED  BY <1>1 DEF Good, OpenOK, ClosedOK, HalfOpenOK, NewBreaker

\* Ages keep their order: they grow together and saturate at the same value.
LEMMA AgedGood == ASSUME NEW b, Good(b) PROVE Good(Aged(b))
<1>1. b \in Breakers /\ MaxInterval \in Nat /\ NoTime \notin Nat
  BY FieldValues DEF Good
<1>2. \A age \in Ages : Older(age) \in Ages
  BY <1>1 DEF Ages, Older, Least
<1>3. \A m, n \in Ages : m <= n => Older(m) <= Older(n) /\ Older(m) # NoTime
  BY <1>1 DEF Ages, Older, Least
<1>4. Older(NoTime) = NoTime
  BY DEF Older
<1>5. b.last_failure \in Ages \cup {NoTime} /\ b.in_state \in Ages
  BY <1>1 DEF Breakers
<1>6. Aged(b) \in Breakers
  BY <1>1, <1>2, <1>4 DEF Aged, Breakers
<1>7. /\ Aged(b).status = b.status
      /\ Aged(b).failures = b.failures
      /\ Aged(b).recent_results = b.recent_results
      /\ Aged(b).last_failure = Older(b.last_failure)
      /\ Aged(b).in_state = Older(b.in_state)
  BY <1>1 DEF Aged, Breakers
<1>. QED
  BY <1>3, <1>5, <1>6, <1>7 DEF Good, OpenOK, ClosedOK, HalfOpenOK

LEMMA AdmittedGood == ASSUME NEW b, Good(b) PROVE Good(Admitted(b))
<1>1. b \in Breakers
  BY DEF Good
<1>2. CASE b.status = "Open" /\ ProbeDue(b)
  <2>1. Admitted(b) = [b EXCEPT !.status = "HalfOpen", !.recent_results = << >>,
                                !.failures = 0, !.in_state = 0]
    BY <1>2 DEF Admitted
  <2>2. Admitted(b) \in Breakers
    BY <1>1, <2>1, FieldValues DEF Breakers
  <2>3. Admitted(b).status = "HalfOpen" /\ Admitted(b).recent_results = << >>
    BY <1>1, <2>1 DEF Breakers
  <2>. QED  BY <2>2, <2>3 DEF Good, OpenOK, ClosedOK, HalfOpenOK
<1>3. CASE ~(b.status = "Open" /\ ProbeDue(b))
  BY <1>3 DEF Admitted
<1>. QED  BY <1>2, <1>3

\* Pushing an outcome keeps the window within its capacity.
LEMMA PushedType ==
    ASSUME NEW w \in Windows, NEW r \in BOOLEAN
    PROVE  Pushed(w, r) \in Windows
<1>. DEFINE a == Append(w, r)
<1>1. w \in Seq(BOOLEAN) /\ Len(w) <= WindowSize /\ WindowSize \in Nat \ {0}
  BY BreakerAssumption DEF Windows
<1>2. a \in Seq(BOOLEAN) /\ Len(a) = Len(w) + 1 /\ a # << >>
  BY <1>1
<1>3. Tail(a) \in Seq(BOOLEAN) /\ Len(Tail(a)) = Len(w)
  <2>. HIDE DEF a
  <2>. QED  BY <1>1, <1>2
<1>. HIDE DEF a
<1>4. CASE Len(w) + 1 > WindowSize
  BY <1>1, <1>3, <1>4 DEF Pushed, Windows, a
<1>5. CASE ~(Len(w) + 1 > WindowSize)
  BY <1>1, <1>2, <1>5 DEF Pushed, Windows, a
<1>. QED  BY <1>4, <1>5

\* The first success after the circuit became half-open meets any success
\* threshold: the rate is that of a window with one success.
LEMMA FirstSuccessSuffices ==
    /\ Pushed(<< >>, TRUE) = <<TRUE>>
    /\ RateReached(<<TRUE>>)
<1>1. Len(<< >>) + 1 = 1 /\ Append(<< >>, TRUE) = <<TRUE>>
  OBVIOUS
<1>2. Pushed(<< >>, TRUE) = <<TRUE>>
  <2>1. ~(Len(<< >>) + 1 > WindowSize)
    BY <1>1, BreakerAssumption
  <2>. QED  BY <1>1, <2>1, Zenon DEF Pushed
<1>3. ASSUME NEW r PROVE Len(<<r>>) = 1 /\ <<r>>[1] = r
  OBVIOUS
<1>4. Len(<<TRUE>>) = 1 /\ <<TRUE>>[1]
  BY <1>3, Zenon
<1>5. {i \in 1..Len(<<TRUE>>) : <<TRUE>>[i]} = {1}
  <2>1. 1..Len(<<TRUE>>) = {1}
    BY <1>4
  <2>. QED  BY <1>4, <2>1, Zenon
<1>6. SuccessCount(<<TRUE>>) = 1
  BY <1>5, FS_Singleton DEF SuccessCount
<1>7. RateReached(<<TRUE>>)
  <2>1. 1 * SuccessDen >= SuccessNum * 1
    BY BreakerAssumption
  <2>. QED  BY <1>4, <1>6, <2>1 DEF RateReached
<1>. QED  BY <1>2, <1>7

LEMMA SucceededGood == ASSUME NEW b, Good(b) PROVE Good(Succeeded(b))
<1>. DEFINE w == Pushed(b.recent_results, TRUE)
            s == Succeeded(b)
<1>1. b \in Breakers
  BY DEF Good
<1>2. w \in Windows
  BY <1>1, PushedType DEF Breakers
<1>3. CASE b.status = "HalfOpen"
  <2>1. RateReached(w)
    BY <1>3, FirstSuccessSuffices DEF Good, HalfOpenOK
  <2>2. s = [b EXCEPT !.recent_results = w, !.status = "Closed", !.failures = 0,
                      !.probe_failures = 0, !.in_state = 0]
    BY <1>3, <2>1, Zenon DEF Succeeded
  <2>. HIDE DEF w, s
  <2>3. s \in Breakers
    BY <1>1, <1>2, <2>2, FieldValues DEF Breakers
  <2>4. s.status = "Closed" /\ s.failures = 0
    BY <1>1, <2>2 DEF Breakers
  <2>. QED  BY <2>3, <2>4 DEF Good, OpenOK, ClosedOK, HalfOpenOK, s
<1>4. CASE b.status = "Closed"
  <2>1. s = [b EXCEPT !.recent_results = w, !.failures = 0]
    BY <1>4, Zenon DEF Succeeded
  <2>. HIDE DEF w, s
  <2>2. s \in Breakers
    BY <1>1, <1>2, <2>1, FieldValues DEF Breakers
  <2>3. s.status = "Closed" /\ s.failures = 0
    BY <1>1, <1>4, <2>1 DEF Breakers
  <2>. QED  BY <2>2, <2>3 DEF Good, OpenOK, ClosedOK, HalfOpenOK, s
<1>5. CASE b.status = "Open"
  <2>1. s = [b EXCEPT !.recent_results = w]
    BY <1>5, Zenon DEF Succeeded
  <2>. HIDE DEF w, s
  <2>2. s \in Breakers
    BY <1>1, <1>2, <2>1 DEF Breakers
  <2>3. /\ s.status = b.status
        /\ s.last_failure = b.last_failure
        /\ s.in_state = b.in_state
    BY <1>1, <2>1 DEF Breakers
  <2>. QED  BY <1>5, <2>2, <2>3 DEF Good, OpenOK, ClosedOK, HalfOpenOK, s
<1>. QED  BY <1>1, <1>3, <1>4, <1>5, FieldValues DEF Breakers

LEMMA FailedGood == ASSUME NEW b, Good(b) PROVE Good(Failed(b))
<1>. DEFINE w == Pushed(b.recent_results, FALSE)
            f == [b EXCEPT !.recent_results = w, !.failures = @ + 1,
                           !.last_failure = 0]
            g == Failed(b)
<1>1. b \in Breakers /\ b.failures + 1 \in Nat
  BY DEF Good, Breakers
<1>2. w \in Windows
  BY <1>1, PushedType DEF Breakers
<1>3. /\ f \in Breakers
      /\ f.status = b.status /\ f.in_state = b.in_state
      /\ f.failures = b.failures + 1 /\ f.last_failure = 0
  <2>. HIDE DEF w
  <2>. QED  BY <1>1, <1>2, FieldValues DEF Breakers
<1>4. CASE b.status = "Closed" /\ ThresholdReached(f.failures)
  <2>1. g = [f EXCEPT !.status = "Open", !.in_state = 0]
    BY <1>4, Zenon DEF Failed
  <2>. HIDE DEF f, g
  <2>2. g \in Breakers
    BY <1>3, <2>1, FieldValues DEF Breakers
  <2>3. g.status = "Open" /\ g.last_failure = 0 /\ g.in_state = 0
    BY <1>3, <2>1 DEF Breakers
  <2>. QED
    BY <2>2, <2>3, FieldValues DEF Good, OpenOK, ClosedOK, HalfOpenOK, g
<1>5. CASE b.status = "HalfOpen"
  <2>1. g = [f EXCEPT !.status = "Open", !.in_state = 0,
                      !.probe_failures = Least(@ + 1, BackoffCap)]
    BY <1>5, Zenon DEF Failed
  <2>. HIDE DEF f, g
  <2>2. Least(f.probe_failures + 1, BackoffCap) \in 0..BackoffCap
    BY <1>3, BreakerAssumption DEF Breakers, Least
  <2>3. g \in Breakers
    BY <1>3, <2>1, <2>2, FieldValues DEF Breakers
  <2>4. g.status = "Open" /\ g.last_failure = 0 /\ g.in_state = 0
    BY <1>3, <2>1 DEF Breakers
  <2>. QED
    BY <2>3, <2>4, FieldValues DEF Good, OpenOK, ClosedOK, HalfOpenOK, g
<1>6. CASE /\ b.status # "HalfOpen"
           /\ ~(b.status = "Closed" /\ ThresholdReached(f.failures))
  <2>1. g = f
    BY <1>6, Zenon DEF Failed
  <2>. HIDE DEF f, g
  <2>2. f.failures \in Nat /\ b.in_state \in Nat /\ FailureThreshold \in Nat
    BY <1>1, <1>3, FieldValues, BreakerAssumption DEF Breakers
  <2>. QED
    BY <1>3, <1>6, <2>1, <2>2, FieldValues
       DEF Good, OpenOK, ClosedOK, HalfOpenOK, ThresholdReached, g
<1>. QED  BY <1>4, <1>5, <1>6

\* reset() keeps the failure time, which only matters to an open circuit.
LEMMA WasResetGood == ASSUME NEW b, Good(b) PROVE Good(WasReset(b))
<1>1. b.last_failure \in Ages \cup {NoTime} /\ NewBreaker \in Breakers
  BY NewBreakerGood DEF Good, Breakers
<1>2. NewBreaker.status = "Closed" /\ NewBreaker.failures = 0
  BY DEF NewBreaker
<1>3. /\ WasReset(b) \in Breakers
      /\ WasReset(b).status = "Closed" /\ WasReset(b).failures = 0
  BY <1>1, <1>2 DEF WasReset, Breakers
<1>. QED  BY <1>3 DEF Good, OpenOK, ClosedOK, HalfOpenOK

LEMMA TrippedGood == ASSUME NEW b, Good(b) PROVE Good(Tripped(b))
<1>1. b \in Breakers
  BY DEF Good
<1>2. Tripped(b) \in Breakers
  BY <1>1, FieldValues DEF Tripped, Breakers
<1>3. /\ Tripped(b).status = "Open"
      /\ Tripped(b).last_failure = 0 /\ Tripped(b).in_state = 0
  BY <1>1 DEF Tripped, Breakers
<1>. QED  BY <1>2, <1>3, FieldValues DEF Good, OpenOK, ClosedOK, HalfOpenOK

-----------------------------------------------------------------------------
(* The theorems of the specification.                                       *)

IInv == TypeOK /\ Good(breaker)

LEMMA InitIInv == Init => IInv
BY NewBreakerGood DEF Init, IInv, TypeOK, Good

LEMMA NextIInv == IInv /\ [Next]_vars => IInv'
<1>. SUFFICES ASSUME IInv, [Next]_vars PROVE IInv'
  OBVIOUS
<1>1. Good(breaker) /\ running \subseteq Callers
  BY DEF IInv, TypeOK
<1>2. ASSUME NEW c \in Callers, Admit(c) PROVE IInv'
  <2>1. Good(breaker')
    BY <1>1, <1>2, AdmittedGood DEF Admit
  <2>2. running' \subseteq Callers
    BY <1>1, <1>2 DEF Admit
  <2>. QED  BY <2>1, <2>2 DEF IInv, TypeOK, Good
<1>3. ASSUME NEW c \in Callers, Succeed(c) PROVE IInv'
  <2>1. Good(breaker')
    BY <1>1, <1>3, SucceededGood DEF Succeed
  <2>. QED  BY <1>1, <1>3, <2>1 DEF Succeed, IInv, TypeOK, Good
<1>4. ASSUME NEW c \in Callers, Fail(c) PROVE IInv'
  <2>1. Good(breaker')
    BY <1>1, <1>4, FailedGood DEF Fail
  <2>. QED  BY <1>1, <1>4, <2>1 DEF Fail, IInv, TypeOK, Good
<1>5. ASSUME NEW c \in Callers, Abandon(c) PROVE IInv'
  BY <1>1, <1>5 DEF Abandon, IInv, TypeOK, Good
<1>6. CASE Reset
  <2>1. Good(breaker')
    BY <1>1, <1>6, WasResetGood DEF Reset
  <2>. QED  BY <1>1, <1>6, <2>1 DEF Reset, IInv, TypeOK, Good
<1>7. CASE Trip
  <2>1. Good(breaker')
    BY <1>1, <1>7, TrippedGood DEF Trip
  <2>. QED  BY <1>1, <1>7, <2>1 DEF Trip, IInv, TypeOK, Good
<1>8. CASE Tick
  <2>1. Good(breaker')
    BY <1>1, <1>8, AgedGood DEF Tick
  <2>. QED  BY <1>1, <1>8, <2>1 DEF Tick, IInv, TypeOK, Good
<1>9. CASE UNCHANGED vars
  BY <1>1, <1>9 DEF vars, IInv, TypeOK, Good
<1>. QED  BY <1>2, <1>3, <1>4, <1>5, <1>6, <1>7, <1>8, <1>9 DEF Next

LEMMA AlwaysIInv == Spec => []IInv
BY InitIInv, NextIInv, PTL DEF Spec

\* Every reachable breaker value is well-formed: ages and the back-off
\* exponent stay within their ranges.
THEOREM TypeCorrect == Spec => []TypeOK
<1>1. IInv => TypeOK
  BY DEF IInv
<1>. QED  BY <1>1, AlwaysIInv, PTL

\* For any number of concurrent callers, resets and trips, an open circuit
\* knows the failure that keeps it open: `call` never falls through its
\* `if let Some(last_failure)`.
THEOREM OpenKnowsItsFailure == Spec => []OpenSinceAFailure
<1>1. IInv => OpenSinceAFailure
  BY DEF IInv, Good, OpenOK, OpenSinceAFailure
<1>. QED  BY <1>1, AlwaysIInv, PTL

\* No mix of outcomes from earlier periods leaves a closed circuit with the
\* failures that should have opened it.
THEOREM ClosedIsBelowThreshold == Spec => []ClosedBelowThreshold
<1>1. IInv => ClosedBelowThreshold
  BY DEF IInv, Good, ClosedOK, ClosedBelowThreshold
<1>. QED  BY <1>1, AlwaysIInv, PTL

\* The first outcome ends every half-open period, for every success threshold
\* up to 1.0: the rate is never that of more than one call.
THEOREM FirstOutcomeDecides == Spec => []HalfOpenWindowEmpty
<1>1. IInv => HalfOpenWindowEmpty
  BY DEF IInv, Good, HalfOpenOK, HalfOpenWindowEmpty
<1>. QED  BY <1>1, AlwaysIInv, PTL

\* The three together: whatever periods the outcomes come from, the status
\* of the circuit is one that its record allows.
THEOREM StatusFitsRecord == Spec => []StatusSound
<1>1. OpenSinceAFailure /\ ClosedBelowThreshold /\ HalfOpenWindowEmpty => StatusSound
  BY DEF StatusSound
<1>. QED
  BY <1>1, OpenKnowsItsFailure, ClosedIsBelowThreshold, FirstOutcomeDecides, PTL

\* An open circuit admits no call before a full Timeout has passed since it
\* opened, however many stragglers fail or trips happen meanwhile.
THEOREM OpenPeriod == Spec => OpenLastsTimeout
<1>. DEFINE Step == breaker.status = "Open" /\ breaker'.status = "HalfOpen"
                      => breaker.in_state >= Timeout
<1>1. IInv /\ [Next]_vars => Step
  <2>. SUFFICES ASSUME IInv, [Next]_vars,
                       breaker.status = "Open", breaker'.status = "HalfOpen"
                PROVE  breaker.in_state >= Timeout
    OBVIOUS
  <2>1. breaker \in Breakers /\ OpenOK(breaker)
    BY DEF IInv, Good
  <2>2. PICK c \in Callers : Admit(c)
    <3>1. \A c \in Callers : ~Succeed(c)
      <4>1. Succeeded(breaker).status = "Open"
        BY <2>1, Zenon DEF Succeeded, Breakers
      <4>. QED  BY <4>1 DEF Succeed
    <3>2. \A c \in Callers : ~Fail(c)
      <4>1. Failed(breaker).status = "Open"
        BY <2>1, Zenon DEF Failed, Breakers
      <4>. QED  BY <4>1 DEF Fail
    <3>3. \A c \in Callers : ~Abandon(c)
      BY DEF Abandon
    <3>4. ~Reset
      <4>1. WasReset(breaker).status = "Closed"
        BY <2>1 DEF WasReset, NewBreaker, Breakers
      <4>. QED  BY <4>1 DEF Reset
    <3>5. ~Trip
      <4>1. Tripped(breaker).status = "Open"
        BY <2>1 DEF Tripped, Breakers
      <4>. QED  BY <4>1 DEF Trip
    <3>6. ~Tick
      <4>1. Aged(breaker).status = "Open"
        BY <2>1 DEF Aged, Breakers
      <4>. QED  BY <4>1 DEF Tick
    <3>7. ~UNCHANGED vars
      BY DEF vars
    <3>. QED  BY <3>1, <3>2, <3>3, <3>4, <3>5, <3>6, <3>7 DEF Next
  <2>3. breaker.last_failure >= ProbeInterval(breaker)
    BY <2>1, <2>2 DEF Admit, Rejects, ProbeDue, OpenOK
  <2>4. /\ breaker.last_failure \in Nat /\ breaker.in_state \in Nat
        /\ breaker.last_failure <= breaker.in_state
    BY <2>1, FieldValues DEF OpenOK, Breakers
  <2>5. ProbeInterval(breaker) \in Nat /\ Timeout <= ProbeInterval(breaker)
    BY <2>1, IntervalType
  <2>. QED  BY <2>3, <2>4, <2>5, BreakerAssumption
<1>2. IInv /\ [Next]_vars => [Step]_vars
  BY <1>1
<1>. QED  BY <1>2, AlwaysIInv, PTL DEF Spec, OpenLastsTimeout

-----------------------------------------------------------------------------
(* The announced wait.                                                      *)

\* The wait announced for an open circuit is what is left of its probe
\* interval, and there is nothing left exactly when the next call is let in.
LEMMA AnnouncedWait ==
    ASSUME NEW b, Good(b), b.status = "Open"
    PROVE  /\ b.last_failure \in Nat /\ ProbeInterval(b) \in Nat
           /\ RetryAfter(b) \in Nat
           /\ b.last_failure >= ProbeInterval(b) => RetryAfter(b) = 0
           /\ b.last_failure < ProbeInterval(b)
                => RetryAfter(b) = ProbeInterval(b) - b.last_failure
           /\ RetryAfter(b) = 0 <=> ~Rejects(b)
<1>1. b \in Breakers /\ b.last_failure # NoTime
  BY DEF Good, OpenOK
<1>2. b.last_failure \in Nat /\ ProbeInterval(b) \in Nat
  BY <1>1, IntervalType, FieldValues DEF Breakers
<1>3. RetryAfter(b) = IF b.last_failure >= ProbeInterval(b) THEN 0
                      ELSE ProbeInterval(b) - b.last_failure
  BY <1>1 DEF RetryAfter, ProbeInterval
<1>4. Rejects(b) <=> ~(b.last_failure >= ProbeInterval(b))
  BY <1>1 DEF Rejects, ProbeDue
<1>. HIDE DEF ProbeInterval, RetryAfter, Rejects
<1>. QED  BY <1>2, <1>3, <1>4

\* A failure time that only gets older, under the same back-off, shortens the
\* wait.
LEMMA WaitShrinks ==
    ASSUME NEW b, NEW c, Good(b), Good(c), b.status = "Open", c.status = "Open",
           c.probe_failures = b.probe_failures,
           c.last_failure >= b.last_failure
    PROVE  RetryAfter(c) <= RetryAfter(b)
<1>1. ProbeInterval(c) = ProbeInterval(b)
  BY DEF ProbeInterval
<1>. QED  BY <1>1, AnnouncedWait

\* One tick makes the failure time of an open circuit no younger.
LEMMA AgedWait ==
    ASSUME NEW b, Good(b), b.status = "Open"
    PROVE  /\ Aged(b).status = "Open"
           /\ Aged(b).probe_failures = b.probe_failures
           /\ Aged(b).last_failure >= b.last_failure
<1>1. b \in Breakers /\ b.last_failure # NoTime
  BY DEF Good, OpenOK
<1>2. b.last_failure \in 0..MaxInterval /\ MaxInterval \in Nat
  BY <1>1, FieldValues DEF Breakers, Ages
<1>3. Older(b.last_failure) >= b.last_failure
  BY <1>1, <1>2 DEF Older, Least
<1>. QED  BY <1>1, <1>3 DEF Aged, Breakers

\* What retry_after_sync() tells a refused client is true: zero exactly when
\* the next call is admitted, and shrinking with time for as long as no failure
\* or trip restarts the back-off clock, whatever late successes of earlier
\* periods are recorded meanwhile.
THEOREM AnnouncedWaitHonest == Spec => RetryAfterHonest
<1>. DEFINE Step == breaker.status = "Open" =>
                      /\ (RetryAfter(breaker) = 0) <=> ~Rejects(breaker)
                      /\ breaker'.status = "Open" =>
                           \/ RetryAfter(breaker') <= RetryAfter(breaker)
                           \/ breaker'.last_failure = 0
<1>1. IInv /\ IInv' /\ [Next]_vars => Step
  <2>. SUFFICES ASSUME IInv, IInv', [Next]_vars, breaker.status = "Open"
                PROVE  /\ (RetryAfter(breaker) = 0) <=> ~Rejects(breaker)
                       /\ breaker'.status = "Open" =>
                            \/ RetryAfter(breaker') <= RetryAfter(breaker)
                            \/ breaker'.last_failure = 0
    OBVIOUS
  <2>1. Good(breaker) /\ Good(breaker') /\ breaker \in Breakers
    BY DEF IInv, Good
  <2>2. (RetryAfter(breaker) = 0) <=> ~Rejects(breaker)
    BY <2>1, AnnouncedWait
  <2>3. ASSUME breaker'.status = "Open"
        PROVE  \/ /\ breaker'.probe_failures = breaker.probe_failures
                  /\ breaker'.last_failure >= breaker.last_failure
               \/ breaker'.last_failure = 0
    <3>1. breaker.last_failure \in Nat
      BY <2>1, AnnouncedWait
    <3>2. ASSUME NEW c \in Callers, Admit(c) PROVE breaker' = breaker
      <4>1. CASE ProbeDue(breaker)
        <5>1. Admitted(breaker).status = "HalfOpen"
          BY <2>1, <4>1 DEF Admitted, Breakers
        <5>. QED  BY <2>3, <3>2, <5>1 DEF Admit
      <4>2. CASE ~ProbeDue(breaker)
        BY <3>2, <4>2 DEF Admit, Admitted
      <4>. QED  BY <4>1, <4>2
    <3>3. ASSUME NEW c \in Callers, Succeed(c)
          PROVE  /\ breaker'.probe_failures = breaker.probe_failures
                 /\ breaker'.last_failure = breaker.last_failure
      <4>. DEFINE w == Pushed(breaker.recent_results, TRUE)
      <4>1. breaker' = [breaker EXCEPT !.recent_results = w]
        BY <3>3, Zenon DEF Succeed, Succeeded
      <4>. HIDE DEF w
      <4>. QED  BY <2>1, <4>1 DEF Breakers
    <3>4. ASSUME NEW c \in Callers, Fail(c) PROVE breaker'.last_failure = 0
      <4>. DEFINE w == Pushed(breaker.recent_results, FALSE)
      <4>1. breaker' = [breaker EXCEPT !.recent_results = w, !.failures = @ + 1,
                                       !.last_failure = 0]
        BY <3>4, Zenon DEF Fail, Failed
      <4>. HIDE DEF w
      <4>. QED  BY <2>1, <4>1 DEF Breakers
    <3>5. ~Reset
      <4>1. WasReset(breaker).status = "Closed"
        BY <2>1 DEF WasReset, NewBreaker, Breakers
      <4>. QED  BY <2>3, <4>1 DEF Reset
    <3>6. ASSUME Trip PROVE breaker'.last_failure = 0
      BY <2>1, <3>6 DEF Trip, Tripped, Breakers
    <3>7. ASSUME Tick
          PROVE  /\ breaker'.probe_failures = breaker.probe_failures
                 /\ breaker'.last_failure >= breaker.last_failure
      BY <2>1, <3>7, AgedWait DEF Tick
    <3>8. ASSUME breaker' = breaker
          PROVE  /\ breaker'.probe_failures = breaker.probe_failures
                 /\ breaker'.last_failure >= breaker.last_failure
      BY <3>1, <3>8
    <3>9. \/ \E c \in Callers : Admit(c) \/ Succeed(c) \/ Fail(c)
          \/ Trip \/ Tick \/ breaker' = breaker
      BY <3>5 DEF Next, Abandon, vars
    <3>. QED  BY <3>1, <3>2, <3>3, <3>4, <3>6, <3>7, <3>8, <3>9
  <2>4. ASSUME breaker'.status = "Open"
        PROVE  \/ RetryAfter(breaker') <= RetryAfter(breaker)
               \/ breaker'.last_failure = 0
    <3>1. CASE /\ breaker'.probe_failures = breaker.probe_failures
               /\ breaker'.last_failure >= breaker.last_failure
      BY <2>1, <2>4, <3>1, WaitShrinks
    <3>. QED  BY <2>3, <2>4, <3>1
  <2>. QED  BY <2>2, <2>4
<1>2. IInv /\ IInv' /\ [Next]_vars => [Step]_vars
  BY <1>1
<1>. QED  BY <1>2, AlwaysIInv, PTL DEF Spec, RetryAfterHonest
=============================================================================
