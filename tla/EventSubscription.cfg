\* Gaps of up to four ledgers against a recovery window of two.
SPECIFICATION Spec
CONSTANTS
  MaxLedger = 5
  RecoveryLedgers = 2
  DedupMaxSize = 3
INVARIANTS
  TypeOK
  NeverTwice
  InLedgerOrder
  NothingSkipped
PROPERTIES
  SurvivesLostPolls
\* An unsubscribed subscription stops for good.
CHECK_DEADLOCK FALSE
