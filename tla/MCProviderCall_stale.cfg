SPECIFICATION Spec
CHECK_DEADLOCK FALSE
CONSTANTS
  Calls = {c1, c2}
  Names = {api}
  WithFallback = {api}
  Misconfigured = {}
  MaxTotalAttempts = 6
  MaxRetries = 2
  MaxToolRounds = 1
  RetryBudget = 1
  MaxBreakers = 2
INVARIANTS OwnRequestAnswered
