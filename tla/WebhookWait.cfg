CONSTANTS
  Setups <- WaitSetups
  Requests <- RequestKinds
  MaxRequests = 3
  Overrun = 0
  PollInterval = 2
  Kept = 2
SPECIFICATION FairSpec
INVARIANTS
  PassIsJustified
PROPERTIES
  CreditsAreKept
  WaitEnds
