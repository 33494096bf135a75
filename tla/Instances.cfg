SPECIFICATION InstancesSpec
CONSTANTS
  Templates = 3
  Wirings <- MCWirings
  Actions <- MCActions
  Bundles = {1, 2}
  MaxSteps = 2
INVARIANTS
  InstancesTypeOK
  ClonesAreIsomorphic
  VisitSeesItsRun
