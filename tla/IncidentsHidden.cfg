SPECIFICATION Spec
CONSTANTS
    Day = 2
    Seen <- Disk
    MaxAttempts = 0
    MaxClock = 4
    MaxFaults = 1
INVARIANT AbnormalIsListed
CHECK_DEADLOCK FALSE
