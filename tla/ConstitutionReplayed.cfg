SPECIFICATION Constitutional
CONSTANTS
  a = a
  b = b
  d = d
  r1 = r1
  r2 = r2
  i1 = i1
  i2 = i2
  i3 = i3
  i4 = i4
  unit = unit
  project = project
  Call = {c1, c2}
  Principal = {a, b, d}
  Role = {r1, r2}
  Grants <- OneEach
  RequiredRole = r1
  Requirements <- EitherQuorum
  Proposals <- ToDThenB
  Voters <- Voting
  Separated <- NotBoth
  MaxDepth = 2
  MaxDelegations = 2
  MaxRevocations = 1
  MaxHolds = 1
  NoOne = NoOne
  Unit = {unit}
  Project = {project}
  Plans <- OneStep
  MaxProposals = 1
  Required = 1
  MaxChanges = 3
  MaxReviews = 1
  MaxVersions = 3
  Institution = {i1, i2, i3, i4}
  participants <- Rotating
  Intent = {w}
  MaxWithdrawals = 1
SYMMETRY Interchangeable
INVARIANT AppliedOnce
CHECK_DEADLOCK FALSE
