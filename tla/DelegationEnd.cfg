SPECIFICATION DelegationSpec
CONSTANTS
  MaxItems = 2
  MaxConcurrency = 2
  MaxRetries = 0
  HookCount = 1
  Failures = {f1}
  Aborted = Aborted
  Timeout = Timeout
  None = None
INVARIANTS
  EndAlwaysTold
