CONSTANTS
  Setups <- SameIds
SPECIFICATION Spec
INVARIANTS
  CycleMeansCycle
