CONSTANTS
  MaxBatchEvents = 2
  MaxBatchBytes = 4
  FlushRetries = 2
  Sizes <- EventSizes
  MaxEvents = 3
SPECIFICATION FairSpec
INVARIANTS
  TypeOK
  NoEventLost
  BytesMatchQueue
  BatchFits
PROPERTIES
  Closes
