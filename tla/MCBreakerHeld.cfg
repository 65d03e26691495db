CONSTANTS
    c1 = c1
    c2 = c2
    c3 = c3
    Callers = {c1, c2}
    Modes = {"retry", "single"}
    Outcomes = {"ok", "retryable", "fatal", "cancelled"}
    FailureThreshold = 1
    CooldownSeconds = 1
    MaxAttempts = 2
    MaxTime = 3
    MaxFailures = 2
SPECIFICATION FairSpec
PROPERTY HalfOpenReleased
