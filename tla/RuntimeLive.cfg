CONSTANTS
  Job <- OneJob
  MaxParallelFlows = 2
  CompleteAttempts = 2
  GracePeriod = FALSE
  MaxClaims = 2
SPECIFICATION FairSpec
PROPERTIES
  ShutdownReturns
  WorkersEnd
