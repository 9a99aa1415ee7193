\* The monitor restarts between a start command and its result.
SPECIFICATION AuditSpec
CONSTANTS
    AttemptWindow = 5
    Retention = 6
    MaxAttempts = 2
    MinCooldown = 3
    MaxBackoff = 3
    HealthyReset = 3
    FailureLimit = 1000
    ConfirmDelay = 1
    ProbeBound = 1
    MaxClock = 6
INVARIANTS
    DelayAfterEveryStart
