SPECIFICATION BranchSpec
CONSTANTS
  Tasks = {t1, t2}
  MaxBranches = 1
  MaxExchanges = 2
  MaxCalls = 2
INVARIANTS ExchangesWhole SystemFirst PromptFaithful OutputsIntegrated
CHECK_DEADLOCK FALSE
