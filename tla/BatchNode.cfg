SPECIFICATION BatchSpecFair
CONSTANTS
  MaxItems = 3
  MaxConcurrency = 2
  MaxRetries = 1
  HookCount = 2
  Failures = {f1}
  Aborted = Aborted
  Timeout = Timeout
  None = None
INVARIANTS
  BatchTypeOK
  OkAccountsForEveryItem
  RetryBudgetPerItem
  SettledStopsOnlyForHooks
PROPERTIES
  UsesMapper
  FailFastReturns
