\* Each of the two is violated; tlc -continue shows both.
SPECIFICATION Spec
CONSTANTS
    AttemptWindow = 3
    Retention = 3
    MaxAttempts = 1
    MinCooldown = 1
    MaxBackoff = 1
    HealthyReset = 2
    FailureLimit = 1000
    ConfirmDelay = 1
    ProbeBound = 1
    MaxClock = 3
    MaxAge = 1
    StableChecks = 1
    VerifyTimeout = 1
    MaxFaults = 1
PROPERTY
    CancelledIsNotFailed
INVARIANT
    IntelligenceIsPostRestart
