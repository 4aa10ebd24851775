CONSTANTS
  Setups <- NestedSetups
SPECIFICATION FairSpec
INVARIANTS
  NestingBounded
PROPERTIES
  DeadlineDiscards
  NestedEnds
