CONSTANTS
  FailureThreshold = 2
  RecoveryThreshold = 2
SPECIFICATION ChecksSpec
INVARIANTS DomainIsACause HealthyMeansAllLayers
