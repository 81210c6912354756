SPECIFICATION Spec
CONSTANTS
  Call = {"c1", "c2"}
  MaximumLlmCalls = 3
  MaximumTotalTokens = 4
  Reservation = 2
  Overrun = 1
  MaxRecords = 4
  MaxFaults = 1
INVARIANT BudgetIsKept
CHECK_DEADLOCK FALSE
