CONSTANTS
  FailureThreshold = 2
  RecoveryThreshold = 2
  Loop = loop
  Updaters = {loop}
  Observable <- EveryDomain
  MaxFaults = 2
SPECIFICATION Spec
INVARIANTS EscalationIsConfirmed OfflineIsConfirmed ServiceFailureLeavesInternet
PROPERTY TransitionsAreAnnounced
