CONSTANTS
  Libraries <- AllLibraries
  FlowIds <- Ids4
  Numerals <- Numbers
  Spaced <- SpacedTexts
  Bare <- BareTexts
SPECIFICATION Spec
INVARIANTS
  CyclesReported
  OutputsTrace
  RoundTrip
