\* Three callers: one trips the circuit, one is still in flight, one probes.
SPECIFICATION Spec
CONSTANTS
  Calls = {c1, c2, c3}
  FailureThreshold = 2
  RecoveryWindow = 2
INVARIANTS
  TypeOK
  ClosedBelowThreshold
PROPERTIES
  WindowIsServed
  StopsRefusing
CHECK_DEADLOCK TRUE
