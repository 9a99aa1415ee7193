SPECIFICATION Spec
CONSTANTS
    a = a
    b = b
    Self = self
    Nodes <- MCNodes
    Heard <- MCHeard
    Stale = 1
    MaxClock = 5
    MaxGap = 2
    MaxFaults = 1
INVARIANTS TimerSpansNoGap EventsArePaired HistoryIsGenuine SessionsAreCounted
CHECK_DEADLOCK FALSE
