\* The file is damaged, the node unhealthy, the file put back: one healthy period.
SPECIFICATION AuditSpec
CONSTANTS
    AttemptWindow = 5
    Retention = 6
    MaxAttempts = 2
    MinCooldown = 2
    MaxBackoff = 3
    HealthyReset = 3
    FailureLimit = 1000
    ConfirmDelay = 1
    ProbeBound = 1
    MaxClock = 8
PROPERTIES
    ForgivenessIsUninterrupted
