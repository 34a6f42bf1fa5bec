SPECIFICATION ProgressSpec
CONSTANTS
  i1 = i1
  d1 = d1
  w1 = w1
  w2 = w2
  NoRow = NoRow
  Incidents = {i1}
  Destinations = {d1}
  Workers = {w1, w2}
  Ranks <- TwoRanks
  SeverityOf <- SeverityOne
  AttemptLimit = 3
  InitialAttempts = 2
  MaxAdditional = 2
  LeaseTicks = 2
  AdapterTicks = 1
  MaxDelay = 1
  RecoveryTicks = 1
  a1 = a1  a2 = a2  a3 = a3  b1 = b1  b2 = b2  A = A  B = B
  first = first  second = second  again = again
  left = left  right = right  double = double  op1 = op1  op2 = op2
  Buckets = {A, B}
  Events <- EventSet
  Bucket <- BucketOf
  Occurred <- OccurredAt
  Batches = {first, second}
  Content <- ContentOf
  AgentKey <- KeyOf
  Threshold = 2
  Window = 5
  Callers = {left, right}
  Scope <- ScopeOf
  Requests <- RequestSet
  MaxIncident = 3
INVARIANTS OneOwner
PROPERTIES LeaseRespected ImplementsLifecycle EventuallySettled EventuallyStored
