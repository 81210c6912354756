SPECIFICATION DispatchSpec
CONSTANTS
  k1 = k1
  k2 = k2
  i1 = i1
  i2 = i2
  x1 = x1
  x2 = x2
  p1 = p1
  Worker = {k1, k2}
  Owner = {i1, i2}
  NoOwner = NoOwner
  Work = {x1, x2}
  Dependent = {}
  Pausable = {p1}
  home <- TwoProcesses
  projectOf <- OneProject
  ProjectLimit <- LimitOne
  NoWorker = NoWorker
  NoWork = NoWork
  GlobalLimit = 2
  MaxAttempts = 2
  MaxClaims = 2
  a = a
  b = b
  Contenders = {a, b}
  weight <- FiveToTen
  Class = {"HIGH", "NORMAL"}
  Deadline <- SomeHaveDeadlines
  Step = 20
  MaxBacklog = 2
SYMMETRY Interchangeable
INVARIANTS TypesOK CapacityRespected ClaimIsExclusive BypassIsBounded
PROPERTIES OnlyTheClaimSettles
