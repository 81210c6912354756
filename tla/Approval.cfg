SPECIFICATION Spec
CONSTANTS
  c1 = c1
  c2 = c2
  d1 = d1
  d2 = d2
  Nobody = Nobody
  Caller = {c1, c2}
  Dispatcher = {d1, d2}
  Limit = 1
  MaxRequests = 2
  MaxBusy = 2
  Decision = {"APPROVED", "MODIFICATION_REQUESTED"}
SYMMETRY Interchangeable
INVARIANTS TypeOK DecisionIsSingle AcknowledgedMeansRegistered
PROPERTIES AwaitingWasDelivered DecidedRunIsFinal
CHECK_DEADLOCK FALSE
