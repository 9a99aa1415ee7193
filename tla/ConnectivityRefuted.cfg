\* Each of the three is violated; tlc -continue shows all.
CONSTANTS
  FailureThreshold = 2
  RecoveryThreshold = 2
  Loop = loop
  Updaters = {loop}
  Observable <- EveryDomain
  MaxFaults = 1
SPECIFICATION Spec
INVARIANTS RecoveryIsVerified OutageIsOffline
PROPERTY NoSilentTransition
