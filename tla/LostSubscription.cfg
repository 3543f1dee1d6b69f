SPECIFICATION Spec
CONSTANTS
  MaxLedger = 3
  RecoveryLedgers = 2
  DedupMaxSize = 3
INVARIANT KeptAlive
CHECK_DEADLOCK FALSE
