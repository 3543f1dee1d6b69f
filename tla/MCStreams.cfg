\* One component at a time. The second transaction does not pass the filters, the
\* balances lie on either side of the threshold and on it, a schedule recurs and two
\* runs of it may overlap.
\* A stream or a batch that has ended and an archive without events stop for good.
SPECIFICATION Spec
CONSTANTS
  x = x
  y = y
  z = z
  None = None
  Events = {e1, e2}
  BatchSize = 2
  MaxAtOnce = 2
  Flushes = {f1, f2}
  MaxDeliveries = 2
  EndpointCount = 3
  Requests = {r1, r2}
  FailureThreshold = 2
  RecoveryInterval = 1
  MaxTransactions = 3
  Kept = {1, 3}
  Limit = 2
  Orders = {"asc"}
  MaxBalance = 2
  Threshold = 1
  MinInterval = 1
  MaxInterval = 2
  BaseInterval = 2
  AdaptiveThreshold = 2
  MaxChanges = 3
  MaxFailures = 2
  Triggers = {t1}
  HookEvents = {e1}
  Urls = {u1, u2}
  Channels = {ch}
  DefaultRetries = 1
  Retries = {1}
  OperationIds = {x, y, z}
  Plans <- BatchPlans
  Concurrency = 2
  MaxRetries = 1
  ScheduleIds = {a}
  Recurring = {a}
  Period = 1
  MaxScheduleRetries = 2
  ScheduleRuns = {r1, r2}
  ObjectNames = {1, 2, 3, 4}
  MaxNow = 1
INVARIANTS
  TypeOK
  NothingFallsBetween
PROPERTIES
  EverythingHasItsTurn
CHECK_DEADLOCK FALSE
