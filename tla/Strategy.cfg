SPECIFICATION Spec
CONSTANTS
  Call = {c1, c2}
  MaxPlans = 2
  MaxIssues = 1
  MaxWrites = 10
  Proposals = 2
  Ceiling = 2
  MaxDesigns = 2
  MaxActions = 1
  Scenarios = 2
  MaxRuns = 2
  MaxRoutes = 3
  MaxEvaluations = 1
  MaxActivations = 2
SYMMETRY Interchangeable
INVARIANTS TypeOK SpendingIsAccounted ChoicesRestOnEvidence
PROPERTY ImplementsGate
CHECK_DEADLOCK FALSE
