\* Two batches in flight at once, one retry.
SPECIFICATION Spec
CONSTANTS
  a = a
  b = b
  c = c
  Ids <- MCIds
  LevelsOf <- MCLevelsOf
  Flights = {f1, f2}
  BatchSize = 1
  MaxQueueSize = 2
  MaxRetries = 2
  None = None
INVARIANTS
  TypeOK
  WithinRetryBudget
PROPERTIES
  SettledOnceLanded
  ReadyIsDispatched
