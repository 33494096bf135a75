SPECIFICATION SpecStopFair
CONSTANTS
  a = a
  b = b
  Sub = Sub
  Root = Root
  Nodes <- MCNodes
  Flows <- MCFlows
  Home <- MCHome
  MaxSteps = 2
  HookCount = 2
  Actions = {go}
  Failures = {}
  Aborted = Aborted
  Cycle = Cycle
  NoStart = NoStart
  None = None
INVARIANTS
  TypeOK
  BudgetPerFlow
  ResultIsLastError
PROPERTIES
  CancelIsHeeded
  Terminates
  CancelReturns
