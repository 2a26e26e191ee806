SPECIFICATION Spec
CONSTANTS
  Tasks = {}
  MaxBranches = 3
  MaxExchanges = 0
  MaxCalls = 0
  NoBranch = NoBranch
INVARIANT OperationsAvailable
CHECK_DEADLOCK FALSE
