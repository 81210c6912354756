SPECIFICATION Spec
CONSTANTS
  c1 = c1
  c2 = c2
  c3 = c3
  p1 = p1
  p2 = p2
  e1 = e1
  e2 = e2
  v1 = v1
  v2 = v2
  None = None
  Call = {c1, c2, c3}
  Project = {p1, p2}
  Environment = {e1, e2}
  Content = {v1, v2}
  MaxRuns = 3
  MaxFaults = 2
SYMMETRY Interchangeable
PROPERTY CompensationReleases
CHECK_DEADLOCK FALSE
