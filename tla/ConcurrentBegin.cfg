SPECIFICATION Spec
CONSTANTS
  r1 = r1
  r2 = r2
  r3 = r3
  i1 = i1
  i2 = i2
  NoOwner = NoOwner
  Owner = {i1, i2}
  Request = {r1, r2, r3}
  home <- SharedProcess
  Phases = {"ingestion"}
  MaxToken = 3
PROPERTIES ConcurrentBeginFailsClosed
CHECK_DEADLOCK FALSE
