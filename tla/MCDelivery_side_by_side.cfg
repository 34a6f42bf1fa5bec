SPECIFICATION DeliverySpec
CONSTANTS
  a = a
  b = b
  Sources = {a}
  MaxLine <- ThreeLines
  Kind <- PoisonFirst
  Capacity = 2
  BatchSize = 2
  MaxBody = 1
  SkewedClock = FALSE
  RuleUniverse = {}
  EventUniverse = {}
  GateRules = 13
  MaxAttempts = 2
  MaxGateFaults = 2
INVARIANTS OnlyGuiltySetAside NoSilentGap CatalogExact VerifiedExact
PROPERTIES EventuallySettled
\* The gate comes to an end, and so may the agent.
CHECK_DEADLOCK FALSE
