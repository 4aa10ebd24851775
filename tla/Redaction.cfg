CONSTANTS
  Node <- Nodes
  Value <- Values
  Length <- Lengths
  Numeric <- Numbers
  Scientific <- BigNumbers
  Within <- Contained
  Setups <- Scenes
  MinLearned = 6
  MaxLearned = 2
SPECIFICATION Spec
INVARIANTS
  EventsHideSecrets
  ResultHidesSecrets
