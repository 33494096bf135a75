SPECIFICATION DelegationSpecFair
CONSTANTS
  MaxItems = 2
  MaxConcurrency = 2
  MaxRetries = 1
  HookCount = 1
  Failures = {f1}
  Aborted = Aborted
  Timeout = Timeout
  None = None
INVARIANTS
  DelegationTypeOK
  JoinHearsLastAttempt
  SettledForkIsNotRetried
PROPERTIES
  NoWorkAfterStop
  CancelEndsDelegation
