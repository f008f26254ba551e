SPECIFICATION FairSpec
CHECK_DEADLOCK FALSE
CONSTANTS
  Calls = {c1, c2}
  Names = {api, broken}
  WithFallback = {api, broken}
  Misconfigured = {broken}
  MaxTotalAttempts = 4
  MaxRetries = 1
  MaxToolRounds = 2
  RetryBudget = 1
  MaxBreakers = 2
INVARIANTS BudgetBalanced
PROPERTIES ImplementsService CallsWindDown EveryCallEnds
