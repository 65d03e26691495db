--------------------------- MODULE CircuitBreaker ---------------------------
(***************************************************************************)
(* One circuit breaker and the guarded calls that share it                 *)
(* (src/assistant/core/resilience.py, and the non-retrying POST of         *)
(* src/assistant/core/graph_client.py, which drives the breaker by hand).  *)
(*                                                                         *)
(* A caller is an asyncio task.  A task runs without interruption between  *)
(* two awaits that suspend, and the breaker's asyncio.Lock never suspends  *)
(* (its critical sections contain no await, so it is always free), so the  *)
(* steps of this module are: the admission, the end of one attempt (with   *)
(* the record_success or record_failure and the `finally' of the admission *)
(* that follow it), the end of a backoff sleep, and a cancellation at      *)
(* either suspension point.                                                *)
(***************************************************************************)
EXTENDS Naturals, FiniteSets

CONSTANTS
    Callers,           \* the tasks that make guarded calls through this breaker
    Modes,             \* subset of {"retry", "single"}: resilient_http, _post_no_retry
    Outcomes,          \* how an attempt may end (see AttemptOutcomes)
    FailureThreshold,  \* CircuitBreaker(failure_threshold=...)
    CooldownSeconds,   \* CircuitBreaker(cooldown_seconds=...)
    MaxAttempts,       \* RetryPolicy.max_attempts
    MaxTime,           \* bound: the clock stops here
    MaxFailures        \* bound: no attempt fails once this many failures are counted

AttemptOutcomes == {"ok", "retryable", "fatal", "nested_open", "cancelled"}

ASSUME ConstantsAssumption ==
    /\ Modes \subseteq {"retry", "single"}
    /\ Outcomes \subseteq AttemptOutcomes
    /\ FailureThreshold \in Nat \ {0}
    /\ CooldownSeconds \in Nat \ {0}
    /\ MaxAttempts \in Nat \ {0}
    /\ MaxTime \in Nat
    /\ MaxFailures \in Nat

VARIABLES
    state,                 \* _BreakerState.state
    consecutive_failures,  \* _BreakerState.consecutive_failures
    next_probe_at,         \* _BreakerState.next_probe_at (opened_at is CooldownSeconds earlier)
    in_flight_probe,       \* _BreakerState.in_flight_probe
    now,                   \* datetime.now(UTC)
    call,                  \* what each caller's guarded call is doing
    probed_at              \* history: when the last probe was admitted

breaker == <<state, consecutive_failures, next_probe_at, in_flight_probe>>
vars == <<breaker, now, call, probed_at>>

\* A caller with no guarded call in progress.
Idle == [pc |-> "idle", attempt |-> 0, probe |-> FALSE, mode |-> "retry"]

Call == [pc : {"idle", "attempt", "backoff"}, attempt : 0..MaxAttempts,
         probe : BOOLEAN, mode : {"retry", "single"}]

InFlight(c) == call[c].pc # "idle"

\* resilient_http tries MaxAttempts times, the non-retrying POST once.
Attempts(mode) == IF mode = "single" THEN 1 ELSE MaxAttempts

Init ==
    /\ state = "closed"
    /\ consecutive_failures = 0
    /\ next_probe_at = 0
    /\ in_flight_probe = FALSE
    /\ now = 0
    /\ call = [c \in Callers |-> Idle]
    /\ probed_at = 0

-----------------------------------------------------------------------------
(* The three methods of the breaker that change its state.                 *)

\* _open_locked: open, with a fresh cooldown from the current time.
OpenLocked ==
    /\ state' = "open"
    /\ next_probe_at' = now + CooldownSeconds

\* record_failure: in half_open any failure re-opens, in closed the threshold
\* does; in open the failure is only counted.  The probe flag is cleared always.
RecordFailure ==
    /\ consecutive_failures' = consecutive_failures + 1
    /\ in_flight_probe' = FALSE
    /\ IF \/ state = "half_open"
          \/ state = "closed" /\ consecutive_failures + 1 >= FailureThreshold
       THEN OpenLocked
       ELSE UNCHANGED <<state, next_probe_at>>

\* Mutant of RecordSuccess: a late success of a call admitted before the breaker
\* opened resets the counter but does not close.
RecordSuccessOnlyProbeCloses ==
    /\ consecutive_failures' = 0
    /\ state' = IF state = "half_open" THEN "closed" ELSE state
    /\ next_probe_at' = IF state = "half_open" THEN 0 ELSE next_probe_at
    /\ in_flight_probe' = FALSE

\* record_success closes the breaker from whatever state it is in.
RecordSuccess ==
    /\ consecutive_failures' = 0
    /\ state' = "closed"
    /\ next_probe_at' = 0
    /\ in_flight_probe' = FALSE

\* Mutant of ReleaseProbe: no `finally'.
ReleaseProbeMissing(c) == UNCHANGED breaker

\* The `finally' of acquire_admission when neither of the above was called.
ReleaseProbe(c) ==
    /\ in_flight_probe' = (in_flight_probe /\ ~call[c].probe)
    /\ UNCHANGED <<state, consecutive_failures, next_probe_at>>

\* Mutant of CooldownElapsed: off by one.
CooldownElapsedEarly == now + 1 >= next_probe_at

CooldownElapsed == now >= next_probe_at

-----------------------------------------------------------------------------
(* acquire_admission                                                       *)

Start(c, mode, probe) ==
    call' = [call EXCEPT ![c] = [pc |-> "attempt", attempt |-> 1,
                                 probe |-> probe, mode |-> mode]]

AdmitClosed(c, mode) ==
    /\ ~InFlight(c)
    /\ state = "closed"
    /\ Start(c, mode, FALSE)
    /\ UNCHANGED <<breaker, now, probed_at>>

AdmitProbe(c, mode) ==
    /\ ~InFlight(c)
    /\ state = "open" /\ CooldownElapsed /\ ~in_flight_probe
    /\ state' = "half_open"
    /\ in_flight_probe' = TRUE
    /\ Start(c, mode, TRUE)
    /\ probed_at' = now
    /\ UNCHANGED <<consecutive_failures, next_probe_at, now>>

\* CircuitBreakerOpenError, before the wrapped function is called.
Reject(c) ==
    /\ ~InFlight(c)
    /\ \/ state = "open" /\ ~(CooldownElapsed /\ ~in_flight_probe)
       \/ state = "half_open"
    /\ UNCHANGED vars

-----------------------------------------------------------------------------
(* _run_with_retry, and the body of _post_no_retry                         *)

\* The call is over: the task leaves the admission and returns or raises.
Leave(c) == call' = [call EXCEPT ![c] = Idle]

AttemptSucceeds(c) ==
    /\ "ok" \in Outcomes
    /\ call[c].pc = "attempt"
    /\ RecordSuccess
    /\ Leave(c)
    /\ UNCHANGED <<now, probed_at>>

\* Mutant of AttemptRetried: one attempt too many.
AttemptRetriedOnceMore(c) ==
    /\ "retryable" \in Outcomes
    /\ call[c].pc = "attempt" /\ call[c].attempt <= Attempts(call[c].mode)
    /\ call' = [call EXCEPT ![c].pc = "backoff"]
    /\ UNCHANGED <<breaker, now, probed_at>>

\* A retryable error with attempts left: sleep for the backoff delay.
AttemptRetried(c) ==
    /\ "retryable" \in Outcomes
    /\ call[c].pc = "attempt" /\ call[c].attempt < Attempts(call[c].mode)
    /\ call' = [call EXCEPT ![c].pc = "backoff"]
    /\ UNCHANGED <<breaker, now, probed_at>>

BackoffEnds(c) ==
    /\ call[c].pc = "backoff"
    /\ call' = [call EXCEPT ![c].pc = "attempt", ![c].attempt = @ + 1]
    /\ UNCHANGED <<breaker, now, probed_at>>

\* A retryable error on the last attempt: one availability failure is recorded
\* for the whole retried call.
RetriesExhausted(c) ==
    /\ "retryable" \in Outcomes
    /\ consecutive_failures < MaxFailures
    /\ call[c].pc = "attempt" /\ call[c].attempt = Attempts(call[c].mode)
    /\ RecordFailure
    /\ Leave(c)
    /\ UNCHANGED <<now, probed_at>>

\* The wrapped function met another, open, breaker: never retried, but counted,
\* except by _post_no_retry, which counts status codes and transport errors only.
AttemptHitsOpenBreaker(c) ==
    /\ "nested_open" \in Outcomes
    /\ consecutive_failures < MaxFailures
    /\ call[c].pc = "attempt"
    /\ IF call[c].mode = "retry" THEN RecordFailure ELSE ReleaseProbe(c)
    /\ Leave(c)
    /\ UNCHANGED <<now, probed_at>>

\* An error that is no availability failure (401, a body over the size cap...):
\* raised at once, neither retried nor recorded.
AttemptFatal(c) ==
    /\ "fatal" \in Outcomes
    /\ call[c].pc = "attempt"
    /\ ReleaseProbe(c)
    /\ Leave(c)
    /\ UNCHANGED <<now, probed_at>>

\* CancelledError is a BaseException: it passes both except clauses, at the
\* await of the wrapped function or of the backoff sleep.
Cancelled(c) ==
    /\ "cancelled" \in Outcomes
    /\ InFlight(c)
    /\ ReleaseProbe(c)
    /\ Leave(c)
    /\ UNCHANGED <<now, probed_at>>

Tick ==
    /\ now < MaxTime
    /\ now' = now + 1
    /\ UNCHANGED <<breaker, call, probed_at>>

AttemptEnds(c) ==
    \/ AttemptSucceeds(c)
    \/ AttemptRetried(c)
    \/ RetriesExhausted(c)
    \/ AttemptHitsOpenBreaker(c)
    \/ AttemptFatal(c)

Next ==
    \/ \E c \in Callers, mode \in Modes : AdmitClosed(c, mode) \/ AdmitProbe(c, mode)
    \/ \E c \in Callers : Reject(c)
    \/ \E c \in Callers : AttemptEnds(c)
    \/ \E c \in Callers : BackoffEnds(c)
    \/ \E c \in Callers : Cancelled(c)
    \/ Tick

Spec == Init /\ [][Next]_vars

\* An attempt is an HTTP request with a timeout and a backoff is a bounded
\* sleep, so neither suspends a task for ever.  The clock runs, and every caller
\* keeps calling: what fails under this demand fails under any smaller one.
Fairness ==
    /\ \A c \in Callers : WF_vars(AttemptEnds(c)) /\ WF_vars(BackoffEnds(c))
    /\ \A c \in Callers : WF_vars(\E mode \in Modes : AdmitClosed(c, mode) \/ AdmitProbe(c, mode))
    /\ WF_vars(Tick)

FairSpec == Spec /\ Fairness

-----------------------------------------------------------------------------
(* Properties                                                              *)

\* Type invariant.
TypeOK ==
    /\ state \in {"closed", "open", "half_open"}
    /\ consecutive_failures \in Nat
    /\ next_probe_at \in Nat
    /\ in_flight_probe \in BOOLEAN
    /\ now \in Nat
    /\ call \in [Callers -> Call]
    /\ probed_at \in Nat

\* A guarded call tries the wrapped function at most MaxAttempts times, and the
\* non-idempotent POST of _post_no_retry exactly once, backing off in between.
RetryBudget ==
    \A c \in Callers :
        /\ call[c].pc = "attempt" => call[c].attempt \in 1..Attempts(call[c].mode)
        /\ call[c].pc = "backoff" => call[c].attempt \in 1..(Attempts(call[c].mode) - 1)

\* Calls are only ever short-circuited after at least FailureThreshold
\* availability failures with no success since, whatever calls admitted before
\* the breaker opened report in the meantime and however often a probe failed.
OpensOnlyOnThreshold ==
    state \in {"open", "half_open"} => consecutive_failures >= FailureThreshold

\* The probe flag is held only while a call admitted as a probe is in flight, and
\* only in half_open: no end of a probe, recorded or not, leaves it behind, so
\* an open breaker whose cooldown has elapsed always admits the next caller.
ProbeFlagHasOwner ==
    in_flight_probe => /\ state = "half_open"
                       /\ \E c \in Callers : InFlight(c) /\ call[c].probe

\* A struggling backend sees at most one probe per cooldown: two probes are
\* admitted at least CooldownSeconds apart, even when late calls admitted before
\* the breaker opened close it or re-open it in between.
ProbesSpaced ==
    [][probed_at' # probed_at => probed_at' >= probed_at + CooldownSeconds]_vars

\* Every re-opening after a probe was admitted moves next_probe_at strictly
\* forward ("Half-open probe fails and re-opens" of the error-resilience spec).
ReopenPostponesProbe ==
    [][state = "half_open" /\ state' = "open" => next_probe_at' > next_probe_at]_vars

\* A half-open breaker is released: it closes or re-opens.
HalfOpenReleased == (state = "half_open") ~> (state # "half_open")

=============================================================================
