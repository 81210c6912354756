SPECIFICATION FairSpec
CONSTANTS
  c1 = c1
  c2 = c2
  none = none
  Call = {c1, c2}
  NoCall = none
  Steps = 2
  Compensating = 1
  Reversible <- ReversibleSteps
  MaxTokens = 2
  MaxFaults = 1
PROPERTY UncertainStepsAreContained
CHECK_DEADLOCK FALSE
