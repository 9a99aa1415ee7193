SPECIFICATION Spec
CONSTANTS
    Day = 2
    Seen <- MCSeen
    MaxAttempts = 1
    MaxClock = 4
    MaxFaults = 1
INVARIANTS UnresolvedIsCurrent EnginesAgree RecentAreCounted AdviceIsSound
PROPERTY ResolvedStaysResolved
CHECK_DEADLOCK FALSE
