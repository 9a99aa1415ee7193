\* Maintenance Mode is switched on while an attempt is reserved.
SPECIFICATION AuditSpec
CONSTANTS
    AttemptWindow = 5
    Retention = 6
    MaxAttempts = 2
    MinCooldown = 1
    MaxBackoff = 3
    HealthyReset = 3
    FailureLimit = 1000
    ConfirmDelay = 1
    ProbeBound = 1
    MaxClock = 4
PROPERTIES
    NoStartInMaintenance
