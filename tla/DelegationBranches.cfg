SPECIFICATION DelegationSpec
CONSTANTS
  MaxItems = 1
  MaxConcurrency = 2
  MaxRetries = 0
  HookCount = 0
  Failures = {f1}
  Aborted = Aborted
  Timeout = Timeout
  None = None
PROPERTIES
  BranchesOfThisRun
