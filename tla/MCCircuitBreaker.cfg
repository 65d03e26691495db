CONSTANTS
    c1 = c1
    c2 = c2
    c3 = c3
    Callers = {c1, c2, c3}
    Modes = {"retry", "single"}
    Outcomes = {"ok", "retryable", "fatal", "nested_open", "cancelled"}
    FailureThreshold = 2
    CooldownSeconds = 2
    MaxAttempts = 2
    MaxTime = 5
    MaxFailures = 4
SPECIFICATION Spec
INVARIANTS TypeOK OpensOnlyOnThreshold ProbeFlagHasOwner
PROPERTY ProbesSpaced
