CONSTANTS
  Job <- TwoJobs
  MaxParallelFlows = 2
  CompleteAttempts = 2
  GracePeriod = FALSE
  MaxClaims = 2
SPECIFICATION Spec
INVARIANTS
  SlotsAreAccounted
  ActiveUntilDecided
  RejectionStopsRun
  DrainsBeforeReturning
