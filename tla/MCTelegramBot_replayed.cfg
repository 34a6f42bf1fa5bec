\* A message sent before the button that asks for it, and one interruption.
SPECIFICATION BotSpec
CONSTANTS
  Incidents = {"leak", "scan"}
  Addresses = {"host"}
  Operators = {"ann", "bob"}
  SourceIp <- MCSourceIp
  NeverBlock = {}
  SecondOperator = TRUE
  MaxPlan = 1
  Menus <- MCMenus
  Moves <- MCMoves
  Approvers = {"bob"}
  Batch = 2
  MaxLong = 1
  MaxUpdates = 2
  MaxFailures = 1
  MaxOutside = 0
INVARIANTS ReasonFollowsPrompt
CHECK_DEADLOCK FALSE
