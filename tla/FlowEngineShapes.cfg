CONSTANTS
  Node <- Nodes4
  Flows <- AllShapes
SPECIFICATION FairSpec
INVARIANTS
  FailureSkipsDependents
  CyclesNeverSucceed
PROPERTIES
  Termination
