CONSTANTS
  Node <- TwoNodes
  Setups <- Mixes
  BudgetSize = 4
  MaxResponseBytes = 2
  ReportedBytes = 1
  FirstRead = 1
  BodySizes = {0, 2, 3}
  Slack = 1
  CallLimit = 2
  Interval = 1
  MaxEvents = 2
SPECIFICATION FairSpec
INVARIANTS
  MemoryBounded
  CallsAccounted
PROPERTIES
  StartsSpaced
  NodesEnd
