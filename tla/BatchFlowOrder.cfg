SPECIFICATION BatchFlowSpec
CONSTANTS
  MaxItems = 2
  MaxConcurrency = 2
  MaxSteps = 1
  HookCount = 0
  Failures = {Cycle, NoStart}
  Aborted = Aborted
  Cycle = Cycle
  NoStart = NoStart
  None = None
INVARIANTS
  MergeInOrder
