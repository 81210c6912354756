SPECIFICATION RunSpec
CONSTANTS
  r1 = r1
  r2 = r2
  r3 = r3
  i1 = i1
  i2 = i2
  NoOwner = NoOwner
  Owner = {i1, i2}
  Request = {r1, r2, r3}
  home <- SharedProcess
  Phases = {"ingestion", "planning", "validation", "execution", "verification", "learning"}
  MaxToken = 3
  c1 = c1
  c2 = c2
  Caller = {c1, c2}
  Nobody = Nobody
  Steps = 2
  Reversible = {1}
  Compensating = 2
  MaxTokens = 2
  MaximumLlmCalls = 2
  MaximumTotalTokens = 4
  Reservation = 2
  Overrun = 1
  MaxRecords = 3
  MaxAttempts = 1
  MaxRuns = 3
  MaxFaults = 1
SYMMETRY Interchangeable
INVARIANTS TypesOK FenceInv DoneFenceHasRecord ReplayIsTheVerdict ActuatedOnceInOrder ExecutionIsRecorded InferenceIsAccounted RecoveryIsGoverned
PROPERTIES ImplementsContract TakeoverIncrementsAttempt HolderIsDisplacedByItsOwn
CHECK_DEADLOCK FALSE
