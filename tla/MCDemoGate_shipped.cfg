SPECIFICATION DemoGateSpec
CONSTANTS
  RuleUniverse = {}
  EventUniverse = {}
  GateRules = 8
  MaxAttempts = 2
  MaxGateFaults = 0
PROPERTIES GateCompletes
\* The run of the gate ends.
CHECK_DEADLOCK FALSE
