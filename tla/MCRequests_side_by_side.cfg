SPECIFICATION RequestsSpec
CONSTANTS
  a1 = a1  a2 = a2  a3 = a3  b1 = b1  b2 = b2  A = A  B = B
  first = first  second = second  again = again
  left = left  right = right  double = double  op1 = op1  op2 = op2
  Buckets = {A, B}
  Events <- EventSet
  Bucket <- BucketOf
  Occurred <- OccurredAt
  Batches = {first, second, again}
  Content <- ContentOf
  AgentKey <- KeyOf
  Threshold = 2
  Window = 5
  Callers = {left, right, double}
  Scope <- ScopeOf
  Requests <- RequestSet
  MaxIncident = 3
  PageIds = {1, 2, 3}
  MaxAt = 2
  PageSizes = {1, 2}
  MaxActiveRules = 2
  Limit <- LimitOf
  WindowTicks <- WindowOf
  MaxBuckets = 1
  Subjects = {"u", "v"}
  CredentialMixes <- Mixes
  LimitThreads = {"left", "right"}
  MaxLag = 1
  LimitTime = 4
  OutputLimit = 1
  MaxChunks = 2
INVARIANTS
  HistoryChain OneActiveIncident CrossingSeen AnsweredOnce
  PagesExact LimitsHold CommandOutcome
PROPERTIES ImplementsAtomicIncidents
