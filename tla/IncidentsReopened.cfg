SPECIFICATION ReopeningSpec
CONSTANTS
    Day = 2
    Seen <- Outage
    MaxAttempts = 0
    MaxClock = 9
    MaxFaults = 9
PROPERTY ResolvedStaysResolved
CHECK_DEADLOCK FALSE
