\* A submission of the client and one of the plain function, sharing one slot.
SPECIFICATION Spec
CONSTANTS
  Calls = {c1, c2}
  Guarded = {c1}
  FailureThreshold = 2
  RecoveryWindow = 1
  MaxAttempts = 2
  MaxPoolSize = 1
  States = {s1, s2}
  NoState = NoState
INVARIANTS
  TypeOK
  NothingLeaks
PROPERTIES
  ImplementsBreaker
  EverySubmissionResolves
