\* One component or algorithm at a time; definitions of constants are in the module.
\* A plan that is made and a subscription that has ended stop for good.
SPECIFICATION MCSpec
CONSTANTS
  a = a
  b = b
  c = c
  tx1 = tx1
  tx2 = tx2
  c1 = c1
  c2 = c2
  pin1 = pin1
  pin2 = pin2
  Never = Never
  NoLimit = NoLimit
  NoConsensus = NoConsensus
  NoCopy = NoCopy
  NoSecret = NoSecret
  NoSession = NoSession
  Unreachable = Unreachable
  NoSocket = NoSocket
  None = None
  NotPooled = NotPooled
  NoRead = NoRead
  NotCached = NotCached
  NotStored = NotStored
  Error = Error
  NoOverride = NoOverride
  Payloads = {payload}
  Signers = {a, b}
  Weight <- SignerWeights
  Thresholds = {1, 3}
  Expiries = {Never, 1}
  Times = {0, 1}
  MaxSequence = 2
  RequestIds = {tx1, tx2}
  Amounts = {1, 2}
  Ceilings = {NoLimit, 2}
  Days = {1, 2}
  MonthStart <- TwoDays
  Approvers = {a, b}
  Policies <- TwoApprove
  Participants = {a, b, c}
  Contacts = {a, b, c}
  Configs <- ContactConfigs
  Threshold = 2
  Delay = 1
  Window = 1
  Copies = {o1, o2, o3}
  MaxTime = 3
  Secrets = {pin1, pin2}
  SessionTimeout = 2
  MaxFailedAttempts = 2
  RateLimitDuration = 1
  MaxAttempts = 2
  TimeWindow = 2
  MaxAuthFailures = 2
  BlockDuration = 2
  RuleDuration = 1
  MaxHistory = 3
  MaxContextSequence = 3
  ProviderCounts = {1, 2}
  Sockets = {s1, s2, s3}
  MaxTimers = 3
  Ids = {a, b}
  Recurring = {b}
  Period = 1
  Runs = {c1, c2}
  ObjectNames = {1, 2, 3, 4}
  MaxNow = 1
  Transactions = {tx1, tx2}
  Members = {a, b}
  Owner <- Owners
  MinBatchSize = 1
  MaxBatchSize = 1
  AllowPartialBatches = FALSE
  MaxPoolTime = 2
  NodeCount = 3
  Graphs <- AllGraphs
  StepCount = 3
  Dependencies <- AllDependencies
  Recoverers = {c1, c2}
  Presets = {"testnet", "mainnet"}
  Testnet = "testnet"
  Customs = {"own"}
  Up <- Endpoints
  Checks = {c1, c2}
  Sessions = {s1, s2, s3}
  MaxVersion = 2
  RateRequests = {a, b, c}
  Limits = {1, 2}
  Unit = 2
  MaxIdle = 4
  Builds = {c1, c2}
  KindSets <- Caches
  AtOnce <- AtOnceOf
  Offline = 0
  Calls = {c1, c2}
  MaxRetries = 2
  Ttl = 1
SYMMETRY Symmetry
INVARIANTS
  TypeOK
  QuorumBehindEveryVerdict
  NothingStaleIsTrusted
  SequencesInOrder
  NobodyIsStuck
  AlgorithmsAreSound
  DependenciesComeFirst
  BooksBalance
PROPERTIES
  AssembledOnce
  WithinLimits
  DoneIsDone
CHECK_DEADLOCK FALSE
