CONSTANTS
  MaxAttempts = 3
  DrainAttempts = 30
SPECIFICATION RetrySpec
INVARIANT NetworkErrorsStayInBudget
CHECK_DEADLOCK FALSE
