----------------------------- MODULE HttpProofs -----------------------------
(***************************************************************************)
(* Safety of outgoing requests.  Of CircuitBreaker, for any set of         *)
(* callers, any threshold, cooldown and number of attempts, and with the   *)
(* clock and the failure counter bounded by any natural number.  Of        *)
(* GraphClient, a call that runs behind such a breaker, for any number of  *)
(* attempts, any page ceiling and any length of a listing.                 *)
(***************************************************************************)
EXTENDS CircuitBreaker, GraphClient, TLAPS

-----------------------------------------------------------------------------
(* CircuitBreaker                                                          *)

\* What holds between the breaker's fields and the calls in flight.
ProbeInv ==
    /\ OpensOnlyOnThreshold
    /\ ProbeFlagHasOwner
    /\ state = "half_open" => now >= next_probe_at

\* The time of the last probe is in the past, and a breaker that re-opened since
\* has its next probe a whole cooldown after it.
SpacingInv ==
    /\ probed_at <= now
    /\ state = "open" => next_probe_at >= probed_at + CooldownSeconds

IInv == TypeOK /\ RetryBudget /\ ProbeInv /\ SpacingInv

LEMMA AttemptsBound ==
    \A mode \in {"retry", "single"} : Attempts(mode) \in 1..MaxAttempts
BY ConstantsAssumption DEF Attempts

\* Initially nothing is in flight and the breaker is closed.
LEMMA InitInv == Init => IInv
<1> SUFFICES ASSUME Init PROVE IInv
  OBVIOUS
<1>1. Idle \in Call /\ Idle.pc = "idle"
  BY ConstantsAssumption DEF Idle, Call
<1>2. TypeOK
  BY <1>1 DEF Init, TypeOK
<1>3. RetryBudget
  BY <1>1 DEF Init, RetryBudget
<1>4. ProbeInv /\ SpacingInv
  BY DEF Init, ProbeInv, SpacingInv, OpensOnlyOnThreshold, ProbeFlagHasOwner
<1> QED BY <1>2, <1>3, <1>4 DEF IInv

\* The changes the actions make to one call's record keep every record well
\* typed and within its retry budget, and leave the other calls alone.
LEMMA StartCall ==
    ASSUME TypeOK, RetryBudget, NEW c \in Callers, NEW mode \in Modes, NEW probe \in BOOLEAN,
           Start(c, mode, probe)
    PROVE  /\ call' \in [Callers -> Call]
           /\ RetryBudget'
           /\ call'[c].pc = "attempt" /\ call'[c].probe = probe
           /\ \A d \in Callers \ {c} : call'[d] = call[d]
<1>1. mode \in {"retry", "single"} /\ Attempts(mode) \in 1..MaxAttempts
  BY AttemptsBound, ConstantsAssumption
<1> QED
  BY <1>1, ConstantsAssumption DEF TypeOK, RetryBudget, Start, Call

LEMMA LeaveCall ==
    ASSUME TypeOK, RetryBudget, NEW c \in Callers, Leave(c)
    PROVE  /\ call' \in [Callers -> Call]
           /\ RetryBudget'
           /\ \A d \in Callers \ {c} : call'[d] = call[d]
BY ConstantsAssumption DEF TypeOK, RetryBudget, Leave, Call, Idle

\* record_failure, then the task leaves.
LEMMA RecordFailureInv ==
    ASSUME IInv, NEW c \in Callers, RecordFailure, Leave(c), UNCHANGED <<now, probed_at>>
    PROVE  IInv'
<1>1. call' \in [Callers -> Call] /\ RetryBudget'
  BY LeaveCall DEF IInv
<1>2. TypeOK'
  <2>1. state' \in {"closed", "open", "half_open"} /\ next_probe_at' \in Nat
    BY ConstantsAssumption DEF IInv, TypeOK, RecordFailure, OpenLocked
  <2>2. consecutive_failures' \in Nat /\ now' \in Nat /\ probed_at' \in Nat
    BY DEF IInv, TypeOK, RecordFailure
  <2>3. in_flight_probe' \in BOOLEAN
    BY DEF RecordFailure
  <2> QED BY <1>1, <2>1, <2>2, <2>3 DEF TypeOK
<1>3. ProbeInv'
  BY ConstantsAssumption
  DEF IInv, TypeOK, ProbeInv, RecordFailure, OpenLocked, OpensOnlyOnThreshold, ProbeFlagHasOwner
<1>4. SpacingInv'
  BY ConstantsAssumption DEF IInv, TypeOK, SpacingInv, RecordFailure, OpenLocked
<1> QED BY <1>1, <1>2, <1>3, <1>4 DEF IInv

\* The admission's `finally' with nothing recorded: if the flag is still held, it
\* is held by another probe.
LEMMA ReleaseProbeInv ==
    ASSUME IInv, NEW c \in Callers, ReleaseProbe(c), Leave(c), UNCHANGED <<now, probed_at>>
    PROVE  IInv'
<1>1. TypeOK' /\ RetryBudget'
  BY LeaveCall DEF IInv, TypeOK, ReleaseProbe, Call
<1>2. ProbeFlagHasOwner'
  <2> SUFFICES ASSUME in_flight_probe'
               PROVE  /\ state' = "half_open"
                      /\ \E d \in Callers : call'[d].pc # "idle" /\ call'[d].probe
    BY DEF ProbeFlagHasOwner, InFlight
  <2>1. in_flight_probe /\ ~call[c].probe
    BY DEF ReleaseProbe
  <2>2. PICK d \in Callers : InFlight(d) /\ call[d].probe
    BY <2>1 DEF IInv, ProbeInv, ProbeFlagHasOwner
  <2>3. d # c /\ call'[d] = call[d]
    BY <2>1, <2>2, LeaveCall DEF IInv
  <2> QED
    BY <2>1, <2>2, <2>3 DEF IInv, ProbeInv, ProbeFlagHasOwner, ReleaseProbe, InFlight
<1>3. ProbeInv'
  BY <1>2 DEF IInv, ProbeInv, ReleaseProbe, OpensOnlyOnThreshold
<1>4. SpacingInv'
  BY DEF IInv, SpacingInv, ReleaseProbe
<1> QED BY <1>1, <1>3, <1>4 DEF IInv

\* A call moves between attempt and backoff and the breaker is untouched.
LEMMA RetryInv ==
    ASSUME IInv, NEW c \in Callers, AttemptRetried(c) \/ BackoffEnds(c)
    PROVE  IInv'
<1>1. /\ call[c] \in Call /\ call[c].pc \in {"attempt", "backoff"}
      /\ Attempts(call[c].mode) \in 1..MaxAttempts
      /\ call[c].attempt \in Nat
  BY AttemptsBound, ConstantsAssumption
  DEF IInv, TypeOK, Call, AttemptRetried, BackoffEnds
<1>2. PICK new \in Call :
         /\ call' = [call EXCEPT ![c] = new]
         /\ new.probe = call[c].probe /\ new.mode = call[c].mode
         /\ new.pc = "attempt" => new.attempt \in 1..Attempts(new.mode)
         /\ new.pc = "backoff" => new.attempt \in 1..(Attempts(new.mode) - 1)
         /\ new.pc # "idle"
  <2>1. CASE AttemptRetried(c)
    <3> DEFINE new == [call[c] EXCEPT !.pc = "backoff"]
    <3>1. /\ new \in Call /\ new.pc = "backoff" /\ new.attempt = call[c].attempt
          /\ new.mode = call[c].mode /\ new.probe = call[c].probe
      BY <1>1 DEF Call
    <3>2. call' = [call EXCEPT ![c] = new]
      BY <2>1 DEF AttemptRetried
    <3>3. call[c].attempt \in 1..(Attempts(call[c].mode) - 1)
      BY <1>1, <2>1 DEF AttemptRetried, IInv, RetryBudget
    <3> HIDE DEF new
    <3> QED BY <3>1, <3>2, <3>3
  <2>2. CASE BackoffEnds(c)
    <3> DEFINE new == [call[c] EXCEPT !.pc = "attempt", !.attempt = @ + 1]
    <3>1. call[c].attempt \in 1..(Attempts(call[c].mode) - 1)
      BY <2>2 DEF BackoffEnds, IInv, RetryBudget
    <3>2. call[c].attempt + 1 \in 0..MaxAttempts
      BY <1>1, <3>1, ConstantsAssumption
    <3>3. /\ new \in Call /\ new.pc = "attempt" /\ new.attempt = call[c].attempt + 1
          /\ new.mode = call[c].mode /\ new.probe = call[c].probe
      BY <1>1, <3>2 DEF Call
    <3>4. call' = [call EXCEPT ![c] = new]
      BY <2>2 DEF BackoffEnds
    <3>5. new.attempt \in 1..Attempts(new.mode) /\ new.pc # "backoff" /\ new.pc # "idle"
      BY <1>1, <3>1, <3>3
    <3> HIDE DEF new
    <3> QED BY <3>3, <3>4, <3>5
  <2> QED BY <2>1, <2>2
<1>3. UNCHANGED <<breaker, now, probed_at>>
  BY DEF AttemptRetried, BackoffEnds
<1>4. TypeOK'
  BY <1>2, <1>3 DEF IInv, TypeOK, breaker
<1>5. RetryBudget'
  <2> SUFFICES ASSUME NEW d \in Callers
               PROVE  /\ call'[d].pc = "attempt" => call'[d].attempt \in 1..Attempts(call'[d].mode)
                      /\ call'[d].pc = "backoff" => call'[d].attempt \in 1..(Attempts(call'[d].mode) - 1)
    BY DEF RetryBudget
  <2>1. CASE d = c
    BY <1>2, <2>1 DEF IInv, TypeOK
  <2>2. CASE d # c
    BY <1>2, <2>2 DEF IInv, TypeOK, RetryBudget
  <2> QED BY <2>1, <2>2
<1>6. \A d \in Callers : InFlight(d) /\ call[d].probe => InFlight(d)' /\ call'[d].probe
  BY <1>2 DEF IInv, TypeOK, InFlight
<1>7. ProbeInv' /\ SpacingInv'
  BY <1>3, <1>6
  DEF IInv, ProbeInv, SpacingInv, OpensOnlyOnThreshold, ProbeFlagHasOwner, breaker
<1> QED BY <1>4, <1>5, <1>7 DEF IInv

\* Every step keeps the inductive invariant.
LEMMA NextInv == IInv /\ [Next]_vars => IInv'
<1> SUFFICES ASSUME IInv, [Next]_vars
             PROVE  IInv'
  OBVIOUS
<1>1. ASSUME NEW c \in Callers, NEW mode \in Modes, AdmitClosed(c, mode)
      PROVE  IInv'
  <2>1. /\ TypeOK' /\ RetryBudget'
        /\ \A d \in Callers \ {c} : call'[d] = call[d]
    BY <1>1, StartCall DEF IInv, TypeOK, AdmitClosed, breaker
  <2> QED
    BY <1>1, <2>1 DEF IInv, AdmitClosed, ProbeInv, SpacingInv, OpensOnlyOnThreshold,
       ProbeFlagHasOwner, InFlight, breaker
<1>2. ASSUME NEW c \in Callers, NEW mode \in Modes, AdmitProbe(c, mode)
      PROVE  IInv'
  <2>1. call' \in [Callers -> Call] /\ RetryBudget' /\ call'[c].pc = "attempt" /\ call'[c].probe
    BY <1>2, StartCall DEF IInv, AdmitProbe
  <2>2. TypeOK'
    BY <1>2, <2>1 DEF IInv, TypeOK, AdmitProbe
  <2>3. ProbeInv'
    BY <1>2, <2>1 DEF IInv, TypeOK, AdmitProbe, ProbeInv, OpensOnlyOnThreshold,
       ProbeFlagHasOwner, InFlight, CooldownElapsed
  <2>4. SpacingInv'
    BY <1>2 DEF IInv, TypeOK, AdmitProbe, SpacingInv
  <2> QED BY <2>1, <2>2, <2>3, <2>4 DEF IInv
<1>3. ASSUME NEW c \in Callers, AttemptSucceeds(c)
      PROVE  IInv'
  <2>1. TypeOK' /\ RetryBudget'
    BY <1>3, LeaveCall DEF IInv, TypeOK, AttemptSucceeds, RecordSuccess
  <2> QED
    BY <1>3, <2>1 DEF IInv, TypeOK, AttemptSucceeds, RecordSuccess, ProbeInv, SpacingInv,
       OpensOnlyOnThreshold, ProbeFlagHasOwner
<1>4. ASSUME NEW c \in Callers, AttemptRetried(c) \/ BackoffEnds(c)
      PROVE  IInv'
  BY <1>4, RetryInv
<1>5. ASSUME NEW c \in Callers,
             RetriesExhausted(c) \/ AttemptHitsOpenBreaker(c) \/ AttemptFatal(c) \/ Cancelled(c)
      PROVE  IInv'
  BY <1>5, RecordFailureInv, ReleaseProbeInv
  DEF RetriesExhausted, AttemptHitsOpenBreaker, AttemptFatal, Cancelled
<1>6. CASE Tick
  BY <1>6 DEF IInv, TypeOK, RetryBudget, Tick, ProbeInv, SpacingInv, OpensOnlyOnThreshold,
     ProbeFlagHasOwner, InFlight, breaker
<1>7. CASE UNCHANGED vars
  BY <1>7 DEF IInv, TypeOK, RetryBudget, ProbeInv, SpacingInv, OpensOnlyOnThreshold,
     ProbeFlagHasOwner, InFlight, breaker, vars
<1> QED
  BY <1>1, <1>2, <1>3, <1>4, <1>5, <1>6, <1>7 DEF Next, AttemptEnds, Reject

LEMMA Invariance == Spec => []IInv
BY InitInv, NextInv, PTL DEF Spec

-----------------------------------------------------------------------------
\* Every variable keeps its type.
THEOREM TypeCorrect == Spec => []TypeOK
BY Invariance, PTL DEF IInv

\* No call exceeds its attempts, and the non-retrying POST is sent once.
THEOREM RetriesBounded == Spec => []RetryBudget
BY Invariance, PTL DEF IInv

\* A breaker that is not closed has counted FailureThreshold failures since the
\* last success.
THEOREM OpeningJustified == Spec => []OpensOnlyOnThreshold
BY Invariance, PTL DEF IInv, ProbeInv

\* The probe flag always belongs to a probe in flight.
THEOREM ProbeFlagOwned == Spec => []ProbeFlagHasOwner
BY Invariance, PTL DEF IInv, ProbeInv

\* Probes are admitted at least a cooldown apart.
THEOREM ProbesAreSpaced == Spec => ProbesSpaced
<1>1. IInv /\ [Next]_vars => [probed_at' # probed_at => probed_at' >= probed_at + CooldownSeconds]_vars
  <2> SUFFICES ASSUME IInv, Next, probed_at' # probed_at
               PROVE  probed_at' >= probed_at + CooldownSeconds
    OBVIOUS
  <2>1. \E c \in Callers, mode \in Modes : AdmitProbe(c, mode)
    BY DEF Next, AdmitClosed, Reject, AttemptEnds, AttemptSucceeds, AttemptRetried, RetriesExhausted,
       AttemptHitsOpenBreaker, AttemptFatal, BackoffEnds, Cancelled, Tick, vars
  <2>2. state = "open" /\ now >= next_probe_at /\ probed_at' = now
    BY <2>1 DEF AdmitProbe, CooldownElapsed
  <2> QED
    BY <2>2, ConstantsAssumption DEF IInv, TypeOK, SpacingInv
<1> QED BY <1>1, Invariance, PTL DEF Spec, ProbesSpaced

\* A breaker that re-opens after a probe does so for a fresh cooldown.
THEOREM ReopeningPostpones == Spec => ReopenPostponesProbe
<1>1. IInv /\ [Next]_vars
      => [state = "half_open" /\ state' = "open" => next_probe_at' > next_probe_at]_vars
  <2> SUFFICES ASSUME IInv, Next, state = "half_open", state' = "open"
               PROVE  next_probe_at' > next_probe_at
    OBVIOUS
  <2>1. RecordFailure
    BY DEF Next, AdmitClosed, AdmitProbe, Reject, AttemptEnds, AttemptSucceeds, RecordSuccess,
       AttemptRetried, RetriesExhausted, AttemptHitsOpenBreaker, AttemptFatal, BackoffEnds,
       Cancelled, ReleaseProbe, Tick, vars, breaker
  <2> QED
    BY <2>1, ConstantsAssumption DEF IInv, TypeOK, ProbeInv, RecordFailure, OpenLocked
<1> QED BY <1>1, Invariance, PTL DEF Spec, ReopenPostponesProbe

\* A half-open breaker with no probe on its way: nobody is left to give a verdict.
Abandoned ==
    state = "half_open" /\ ~\E c \in Callers : InFlight(c) /\ call[c].probe

\* The call of c ends, and the breaker is not told how.
EndsUnrecorded(c) ==
    \/ AttemptFatal(c)
    \/ Cancelled(c)
    \/ AttemptHitsOpenBreaker(c) /\ call[c].mode = "single"

OnlySilentProbesAbandon ==
    [][Abandoned' /\ ~Abandoned =>
         \E c \in Callers : call[c].probe /\ EndsUnrecorded(c)]_vars

\* The one way to abandon a half-open breaker is the end of a probe that
\* acquire_admission does not record: an error that is no availability failure, a
\* cancellation, or another breaker met by _post_no_retry.
THEOREM AbandonedBySilentProbes == Spec => OnlySilentProbesAbandon
<1>1. IInv /\ [Next]_vars
      => [Abandoned' /\ ~Abandoned =>
            \E c \in Callers : call[c].probe /\ EndsUnrecorded(c)]_vars
  <2> SUFFICES ASSUME IInv, Next, Abandoned', ~Abandoned
               PROVE  \E c \in Callers : call[c].probe /\ EndsUnrecorded(c)
    OBVIOUS
  <2>1. state' = "half_open" /\ call \in [Callers -> Call]
    BY DEF Abandoned, IInv, TypeOK
  <2>2. ~RecordFailure /\ ~RecordSuccess
    BY <2>1 DEF RecordFailure, OpenLocked, RecordSuccess, IInv, TypeOK
  <2>3. ASSUME NEW c \in Callers, NEW mode \in Modes, AdmitClosed(c, mode) \/ AdmitProbe(c, mode)
        PROVE  FALSE
    BY <2>1, <2>3 DEF AdmitClosed, AdmitProbe, Start, Abandoned, InFlight, breaker
  <2>4. ASSUME NEW c \in Callers, ReleaseProbe(c), Leave(c)
        PROVE  call[c].probe
    <3>1. PICK d \in Callers : InFlight(d) /\ call[d].probe
      BY <2>1, <2>4 DEF Abandoned, ReleaseProbe
    <3>2. d # c => call'[d] = call[d]
      BY <2>1, <2>4 DEF Leave
    <3> QED BY <3>1, <3>2 DEF Abandoned, InFlight
  <2>5. ASSUME NEW c \in Callers, AttemptRetried(c) \/ BackoffEnds(c)
        PROVE  FALSE
    <3>1. PICK d \in Callers : InFlight(d) /\ call[d].probe
      BY <2>1, <2>5 DEF Abandoned, AttemptRetried, BackoffEnds, breaker
    <3>2. call'[d].probe = call[d].probe /\ InFlight(d)'
      BY <2>1, <2>5, <3>1 DEF AttemptRetried, BackoffEnds, InFlight, Call
    <3> QED BY <3>1, <3>2 DEF Abandoned
  <2>6. ~Tick /\ \A c \in Callers : ~Reject(c)
    BY DEF Tick, Reject, Abandoned, InFlight, breaker, vars
  <2>7. PICK c \in Callers : AttemptHitsOpenBreaker(c) \/ AttemptFatal(c) \/ Cancelled(c)
    BY <2>2, <2>3, <2>5, <2>6 DEF Next, AttemptEnds, AttemptSucceeds, RetriesExhausted
  <2>8. EndsUnrecorded(c) /\ ReleaseProbe(c) /\ Leave(c)
    <3>1. call[c].mode \in {"retry", "single"}
      BY <2>1 DEF Call
    <3> QED BY <2>2, <2>7, <3>1
            DEF EndsUnrecorded, AttemptHitsOpenBreaker, AttemptFatal, Cancelled
  <2> QED BY <2>4, <2>8
<1> QED BY <1>1, Invariance, PTL DEF Spec, OnlySilentProbesAbandon

\* The breaker is half-open, and every call it ever admitted is over.
Held == state = "half_open" /\ \A c \in Callers : ~InFlight(c)

\* A breaker that is held stays so, and rejects every call, for the life of the
\* process: the admission of a half-open breaker has no way to another state.
THEOREM HeldForGood == Spec => [](Held => []Held)
<1>1. Held /\ [Next]_vars => Held'
  BY DEF Held, Next, AdmitClosed, AdmitProbe, Reject, AttemptEnds, AttemptSucceeds, AttemptRetried,
     RetriesExhausted, AttemptHitsOpenBreaker, AttemptFatal, BackoffEnds, Cancelled, Tick,
     InFlight, breaker, vars
<1> QED BY <1>1, PTL DEF Spec

-----------------------------------------------------------------------------
(* GraphClient: what a call has done, delivered and left behind, for every *)
(* retry policy, page ceiling and length of the listing.                   *)

\* A listing under way has delivered the pages before the one at hand; an error
\* answer taken for a success ends the call.
PageInv ==
    /\ page <= pages /\ page <= PageCeiling
    /\ mistaken => at = "returned"
    /\ kind = "listing" /\ ~mistaken =>
          /\ Len(delivered) \in {page - 1, page}
          /\ at \notin Over => Len(delivered) = page - 1
          /\ \A i \in 1..Len(delivered) : delivered[i] = i
          /\ at = "returned" => Len(delivered) = pages

\* Each attempt but the one under way was performed at most once, and the only
\* attempt of what may not be repeated is the first.
AttemptInv ==
    /\ kind = "once" => attempt = 1
    /\ kind \in {"once", "repeatable"} =>
          performed <= attempt /\ (at \notin Over => performed < attempt)
    /\ at = "body" => kind = "download" /\ performed > 0
    /\ at = "returned" => performed > 0 \/ mistaken

\* Only a download leaves Graph, and it does so without the token; its file is that
\* of the attempt, from the request on until the attempt fails.
PlaceInv ==
    /\ at \in {"first", "second", "refresh"} \/ kind # "download" => host = "graph"
    /\ at = "redirected" => kind = "download" /\ ~bearer
    /\ files \subseteq {attempt}
    /\ kind # "download" \/ at \in {"ready", "raised"} => files = {}
    /\ kind = "download" /\ at \notin {"ready", "raised", "cancelled"} => files = {attempt}

GraphInv == GraphTypeOK /\ PageInv /\ AttemptInv /\ PlaceInv

LEMMA GraphInitInv == GraphInit => GraphInv
<1> SUFFICES ASSUME GraphInit PROVE GraphInv
  OBVIOUS
<1> USE DEF GraphInit
<1>1. GraphTypeOK
  <2>1. attempt \in 1..PolicyAttempts /\ page \in 1..MaxPages /\ 1 <= PageCeiling
    BY GraphAssumption
  <2>2. delivered \in Seq(0..MaxPages) /\ files \subseteq 1..PolicyAttempts
    OBVIOUS
  <2> QED BY <2>1, <2>2 DEF GraphTypeOK
<1>2. PageInv
  BY GraphAssumption DEF GraphTypeOK, PageInv, Over
<1>3. AttemptInv /\ PlaceInv
  BY DEF AttemptInv, PlaceInv
<1> QED BY <1>1, <1>2, <1>3 DEF GraphInv

\* What the end of a failed attempt does to the parts of the invariant.
LEMMA EndAttemptInv ==
    ASSUME GraphInv, at \notin Over, NEW retryable \in BOOLEAN, EndAttempt(retryable),
           UNCHANGED <<kind, pages, page, host, bearer, delivered, mistaken>>,
           MaybePerformed \/ UNCHANGED performed
    PROVE  GraphInv'
<1> USE GraphAssumption DEF GraphInv, EndAttempt, MaybePerformed, Over, Answering
<1>1. GraphTypeOK'
  BY DEF GraphTypeOK, AttemptsAllowed, Kinds
<1>2. PageInv'
  BY DEF GraphTypeOK, PageInv
<1>3. AttemptInv'
  BY DEF GraphTypeOK, AttemptInv, AttemptsAllowed, Kinds
<1>4. PlaceInv'
  BY DEF GraphTypeOK, PlaceInv
<1> QED BY <1>1, <1>2, <1>3, <1>4

\* A page is handed over: the next one is at hand, or the call is over.
LEMMA DeliverInv ==
    ASSUME GraphInv, kind = "listing", at \in Answering, NEW link \in Links, Deliver(link),
           performed' = performed + 1, UNCHANGED <<kind, pages, bearer, files, mistaken>>
    PROVE  GraphInv'
<1> USE GraphAssumption DEF GraphInv, Over, Answering
<1>1. /\ page \in 1..pages /\ page <= PageCeiling /\ pages \in 1..MaxPages /\ ~mistaken
      /\ delivered \in Seq(0..MaxPages) /\ Len(delivered) = page - 1
      /\ delivered' = Append(delivered, page) /\ page \in 0..MaxPages
  BY DEF GraphTypeOK, PageInv, Deliver
<1>2. /\ delivered' \in Seq(0..MaxPages) /\ Len(delivered') = page
      /\ \A i \in 1..page : delivered'[i] = IF i = page THEN page ELSE delivered[i]
  BY <1>1
<1>3. \A i \in 1..page : delivered'[i] = i
  BY <1>1, <1>2 DEF PageInv
<1>4. \/ at' = "returned" /\ page = pages /\ UNCHANGED <<page, attempt>>
      \/ at' = "raised" /\ UNCHANGED <<page, attempt>>
      \/ at' = "ready" /\ page < pages /\ page < PageCeiling /\ page' = page + 1 /\ attempt' = 1
  BY <1>1 DEF Deliver, Links
<1>5. GraphTypeOK'
  BY <1>1, <1>2, <1>4 DEF GraphTypeOK, Deliver
<1>6. PageInv'
  BY <1>1, <1>2, <1>3, <1>4 DEF PageInv
<1>7. AttemptInv' /\ PlaceInv'
  BY <1>1, <1>4 DEF GraphTypeOK, AttemptInv, PlaceInv, Deliver
<1> QED BY <1>5, <1>6, <1>7

LEMMA GraphNextInv == GraphInv /\ [GraphNext]_graphVars => GraphInv'
<1> SUFFICES ASSUME GraphInv, [GraphNext]_graphVars PROVE GraphInv'
  OBVIOUS
<1> USE GraphAssumption DEF Answering, Over
<1>1. CASE Send
  BY <1>1 DEF Send, GraphInv, GraphTypeOK, PageInv, AttemptInv, PlaceInv
<1>2. CASE Refused
  BY <1>2 DEF Refused, GraphInv, GraphTypeOK, PageInv, AttemptInv, PlaceInv
<1>3. CASE Success
  <2>1. CASE kind = "listing"
    BY <1>3, <2>1, DeliverInv DEF Success
  <2>2. CASE kind # "listing"
    BY <1>3, <2>2 DEF Success, GraphInv, GraphTypeOK, PageInv, AttemptInv, PlaceInv, Kinds
  <2> QED BY <2>1, <2>2
<1>4. CASE Unauthorized
  <2>1. CASE EndAttempt(FALSE)
    BY <1>4, <2>1, EndAttemptInv DEF Unauthorized
  <2>2. CASE at = "first" /\ at' = "refresh" /\ UNCHANGED <<attempt, files>>
    BY <1>4, <2>2 DEF Unauthorized, GraphInv, GraphTypeOK, PageInv, AttemptInv, PlaceInv
  <2> QED BY <1>4, <2>1, <2>2 DEF Unauthorized
<1>5. CASE Refreshed
  BY <1>5 DEF Refreshed, GraphInv, GraphTypeOK, PageInv, AttemptInv, PlaceInv
<1>6. CASE ErrorAnswer
  BY <1>6, EndAttemptInv DEF ErrorAnswer
<1>7. CASE MistakenAnswer
  <2>1. delivered' \in Seq(0..MaxPages)
    <3>1. delivered \in Seq(0..MaxPages) /\ 0 \in 0..MaxPages
      BY GraphAssumption DEF GraphInv, GraphTypeOK
    <3>2. Append(delivered, 0) \in Seq(0..MaxPages)
      BY <3>1
    <3> QED BY <1>7, <3>1, <3>2 DEF MistakenAnswer
  <2> QED
    BY <1>7, <2>1
    DEF MistakenAnswer, MaybePerformed, GraphInv, GraphTypeOK, PageInv, AttemptInv, PlaceInv
<1>8. CASE Lost
  BY <1>8, EndAttemptInv DEF Lost
<1>9. CASE Redirected
  BY <1>9 DEF Redirected, GraphInv, GraphTypeOK, PageInv, AttemptInv, PlaceInv
<1>10. CASE Downloaded
  BY <1>10 DEF Downloaded, GraphInv, GraphTypeOK, PageInv, AttemptInv, PlaceInv
<1>11. CASE TooLarge
  BY <1>11, EndAttemptInv DEF TooLarge
<1>12. CASE Cancel
  BY <1>12 DEF Cancel, GraphInv, GraphTypeOK, PageInv, AttemptInv, PlaceInv
<1>13. CASE UNCHANGED graphVars
  BY <1>13 DEF graphVars, GraphInv, GraphTypeOK, PageInv, AttemptInv, PlaceInv
<1> QED
  BY <1>1, <1>2, <1>3, <1>4, <1>5, <1>6, <1>7, <1>8, <1>9, <1>10, <1>11, <1>12, <1>13
  DEF GraphNext

LEMMA GraphInvariant == GraphSpec => []GraphInv
BY GraphInitInv, GraphNextInv, PTL DEF GraphSpec

\* Every reachable state of a call is well typed.
THEOREM GraphTypeCorrect == GraphSpec => []GraphTypeOK
BY GraphInvariant, PTL DEF GraphInv

\* post(retry_safe=False) has its request performed once at most, post once an attempt,
\* and a call that returns has had it performed or took an error for a success.
THEOREM MailSentOnce == GraphSpec => []DoneOnce
<1>1. GraphInv => DoneOnce
  BY DEF GraphInv, GraphTypeOK, AttemptInv, DoneOnce
<1> QED BY <1>1, GraphInvariant, PTL

\* A listing delivers the first pages in order, within the ceiling, and returns after
\* the last one only.
THEOREM ListingsComplete == GraphSpec => []PagesInOrder
<1>1. GraphInv => PagesInOrder
  BY GraphAssumption DEF GraphInv, GraphTypeOK, PageInv, PagesInOrder
<1> QED BY <1>1, GraphInvariant, PTL

\* The token goes to Graph only, and no attempt leaves a file but the one under way, the
\* one returned, and a cancelled one.
THEOREM NothingLeaks == GraphSpec => []NothingAstray
<1>1. GraphInv => NothingAstray
  BY DEF GraphInv, PlaceInv, NothingAstray, Answering
<1> QED BY <1>1, GraphInvariant, PTL

\* The places of an attempt, in the order it can pass them.
Place(where) ==
    CASE where = "ready"      -> 0
      [] where = "first"      -> 1
      [] where = "refresh"    -> 2
      [] where = "second"     -> 3
      [] where = "redirected" -> 4
      [] where = "body"       -> 5
      [] OTHER                -> 6

\* On to the next page, the next attempt of the page, or a later place of the attempt.
Onward ==
    \/ page' > page
    \/ page' = page /\ attempt' > attempt
    \/ page' = page /\ attempt' = attempt /\ Place(at') > Place(at)

\* No refresh, redirect, retry or link makes a call go round: each step leads on, through
\* at most PageCeiling pages, at most the policy's attempts of each (one, for what must
\* not be repeated), and at most six steps of an attempt.
THEOREM CallsLeadOn ==
    GraphSpec => /\ [](page <= PageCeiling /\ attempt <= AttemptsAllowed)
                 /\ [][Onward]_graphVars
<1>1. GraphInv => page <= PageCeiling /\ attempt <= AttemptsAllowed
  BY GraphAssumption DEF GraphInv, GraphTypeOK, PageInv, AttemptInv, AttemptsAllowed
<1>2. ASSUME GraphInv, GraphNext PROVE Onward
  <2> USE <1>2 DEF GraphInv, GraphTypeOK, Answering, Over, Onward
  <2>1. ASSUME NEW retryable \in BOOLEAN, EndAttempt(retryable), at \notin Over, page' = page
        PROVE  Onward
    BY <2>1, GraphAssumption DEF EndAttempt, Place
  <2>2. CASE Success
    <3>1. ASSUME NEW link \in Links, Deliver(link), at \in Answering PROVE Onward
      BY <3>1 DEF Deliver, Place
    <3> QED BY <2>2, <3>1 DEF Success, Place
  <2>3. CASE Unauthorized
    <3>1. CASE EndAttempt(FALSE)
      BY <2>1, <2>3, <3>1 DEF Unauthorized
    <3>2. CASE at = "first" /\ at' = "refresh" /\ UNCHANGED <<attempt, files>>
      BY <2>3, <3>2 DEF Unauthorized, Place
    <3> QED BY <2>3, <3>1, <3>2 DEF Unauthorized
  <2>4. CASE ErrorAnswer \/ Lost \/ TooLarge
    BY <2>1, <2>4 DEF ErrorAnswer, Lost, TooLarge
  <2>5. ASSUME page' = page, attempt' = attempt, Place(at') > Place(at) PROVE Onward
    BY <2>5
  <2>6. CASE Send \/ Refused \/ Refreshed
    BY <2>5, <2>6 DEF Send, Refused, Refreshed, Place
  <2>7. CASE MistakenAnswer \/ Redirected \/ Downloaded
    BY <2>5, <2>7 DEF MistakenAnswer, Redirected, Downloaded, Place
  <2>8. CASE Cancel
    BY <2>5, <2>8 DEF Cancel, Place
  <2> QED BY <2>2, <2>3, <2>4, <2>6, <2>7, <2>8 DEF GraphNext
<1>3. GraphInv /\ [GraphNext]_graphVars => [Onward]_graphVars
  BY <1>2
<1> QED BY <1>1, <1>3, GraphInvariant, PTL DEF GraphSpec

=============================================================================
