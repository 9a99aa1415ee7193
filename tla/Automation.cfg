\* Two attempts in a window of five ticks; results, crashes, damage in any order.
SPECIFICATION AuditSpec
CONSTANTS
    AttemptWindow = 5
    Retention = 6
    MaxAttempts = 2
    MinCooldown = 2
    MaxBackoff = 3
    HealthyReset = 3
    FailureLimit = 1000
    ConfirmDelay = 1
    ProbeBound = 1
    MaxClock = 8
INVARIANTS
    AuditTypeOK BudgetRespected StartsAreOnFile CooldownHonoured FailuresCounted
PROPERTIES
    StampsAreNew ForgivenessIsEarned DamageInhibits
