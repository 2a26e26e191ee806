SPECIFICATION Spec
CONSTANTS
  Tasks = {t1}
  MaxBranches = 3
  MaxExchanges = 1
  MaxCalls = 0
  NoBranch = NoBranch
INVARIANTS SystemFirst DefaultIsMember
CHECK_DEADLOCK FALSE
