SPECIFICATION BranchSpec
CONSTANTS
  Tasks = {t1, t2}
  MaxBranches = 1
  MaxExchanges = 3
  MaxCalls = 1
INVARIANTS ExchangesWhole SystemFirst PromptFaithful OutputsIntegrated
CHECK_DEADLOCK FALSE
