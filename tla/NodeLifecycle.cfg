SPECIFICATION SpecFair
CONSTANTS
  HookCount = 2
  MaxRetries = 2
  Failures = {f1}
  Actions = {go}
  Aborted = Aborted
  Timeout = Timeout
  None = None
INVARIANTS
  TypeOK
  ActionHasOneAuthor
  HooksHearBothEnds
PROPERTIES
  NothingLate
  ImplementsVisit
  LostRaceReturns
