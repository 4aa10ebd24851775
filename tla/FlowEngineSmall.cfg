CONSTANTS
  Node <- Nodes3
  Flows <- SmallFlows
SPECIFICATION Spec
INVARIANTS
  TypeOK
  SchedulerInv
  StartsAfterPredecessors
  NothingStranded
  VerdictsAreStable
  ViewCoversUpstream
  EventsFollowEdges
  EventsComplete
  SuccessMeansNoFailure
PROPERTIES
  ResultsAreFinal
  ExecutorOrder
