CONSTANTS
  FailureThreshold = 2
  RecoveryThreshold = 2
  Loop = loop
  Updaters = {loop, refresh}
  Observable <- FewDomains
  MaxFaults = 1
SPECIFICATION FairSpec
PROPERTY EventuallyDiagnosed
