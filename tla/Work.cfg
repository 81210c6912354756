SPECIFICATION WorkSpec
CONSTANTS
  c1 = c1
  c2 = c2
  Call = {c1, c2}
  Nodes = 2
  Ceiling = 2
  MaxRevisions = 1
  MaxPlans = 2
  MaxIssues = 2
  MaxFaults = 1
  k1 = k1
  k2 = k2
  i1 = i1
  i2 = i2
  x1 = x1
  p1 = p1
  NoOwner = NoOwner
  NoWorker = NoWorker
  NoWork = NoWork
  MaxAttempts = 3
  MaxClaims = 3
SYMMETRY Interchangeable
INVARIANTS TypeOK ProgramIsAccounted
PROPERTIES ImplementsGate ClaimsDoNotStick
CHECK_DEADLOCK FALSE
