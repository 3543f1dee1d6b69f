\* The default order. Three transactions, pages of two, the second filtered out.
SPECIFICATION Spec
CONSTANTS
  MaxTransactions = 3
  Kept = {1, 3}
  Limit = 2
  Orders = {"desc"}
  MaxFailures = 2
PROPERTIES
  NewTransactionsArrive
CHECK_DEADLOCK FALSE
