SPECIFICATION Spec
CONSTANTS
    Day = 2
    Seen <- Outage
    MaxAttempts = 1
    MaxClock = 4
    MaxFaults = 0
INVARIANT RecoveryIsCredited
CHECK_DEADLOCK FALSE
