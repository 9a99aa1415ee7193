CONSTANTS
  Peers = {n1}
  EventWindow = 60
  Settle = 1
  Notice <- Notices
  Warning <- Warnings
  MaxClock = 8
  MaxLog = 8
SPECIFICATION Spec
INVARIANT VerifiedIsNotFailed
