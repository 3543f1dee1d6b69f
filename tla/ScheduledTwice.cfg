SPECIFICATION Spec
CONSTANTS
  Ids = {a}
  Recurring = {}
  Period = 1
  MaxRetries = 2
  Runs = {r1, r2}
  Copies = {1, 2, 3, 4}
  None = None
  MaxNow = 1
PROPERTY ExecutesOnce
CHECK_DEADLOCK FALSE
