SPECIFICATION SpecEngineFair
CONSTANTS
  MaxItems = 3
  MaxConcurrency = 3
  Failures = {f1}
  Aborted = Aborted
  None = None
INVARIANTS
  TypeOK
  CompleteUnlessCancelled
  ExclusiveClaim
  ErrorHasCause
PROPERTIES
  StopAfterFailure
  Returns
  ImplementsMap
