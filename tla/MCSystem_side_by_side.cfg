SPECIFICATION SystemSpec
CONSTANTS
  k1 = k1  k2 = k2  s1 = s1   r1 = r1  r2 = r2  c1 = c1  ann = ann
  NoKey = NoKey
  NoSession = NoSession
  Keys = {k1, k2}
  Owner <- OwnerOf
  Sessions = {s1}
  Requests = {r1, r2}
  Commands = {c1}
  FirstKey = k1
  Expiries <- TwoEnds
  IdleTicks = 2
  AbsoluteTicks = 4
  TouchTicks = 1
  MaxTime = 2
  RuleUniverse <- SmallRules
  EventUniverse <- SmallHistory
  a = a  b = b
  Sources = {a, b}
  MaxLine <- LinesOfTwo
  Kind <- KindsOfTwo
  Capacity = 1
  BatchSize = 2
  MaxBody = 2
  SkewedClock = FALSE
SYMMETRY SessionSymmetry
INVARIANTS
  NoSessionOutlivesItsKey StaysSignedIn ChangeUnderLiveSession
  SequenceComplete EvidenceSuffices
  NothingLost SpoolBounded
