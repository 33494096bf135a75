SPECIFICATION BatchFlowSpecFair
CONSTANTS
  MaxItems = 3
  MaxConcurrency = 2
  MaxSteps = 3
  HookCount = 2
  Failures = {Cycle, NoStart}
  Aborted = Aborted
  Cycle = Cycle
  NoStart = NoStart
  None = None
INVARIANTS
  BundleTypeOK
  MergeGetsEveryBundle
  BundlesShareBudget
  FailedBundlesReported
PROPERTIES
  StopsAreFinal
  BundlesUseMapper
  CancelEndsBundles
