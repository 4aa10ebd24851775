CONSTANTS
  Job <- TwoJobs
  MaxParallelFlows = 2
  CompleteAttempts = 2
  GracePeriod = TRUE
  MaxClaims = 2
SPECIFICATION Spec
INVARIANT
  HeartbeatsEveryClaimedJob
