SPECIFICATION RestartsSpec
CONSTANTS
  Incidents = {"leak", "scan"}
  Addresses = {"host"}
  Operators = {"ann", "bob"}
  SourceIp <- MCSourceIp
  NeverBlock = {}
  SecondOperator = TRUE
  MaxPlan = 2
  Menus <- MCMenus
  Moves <- MCMoves
  Approvers = {"bob"}
  Batch = 2
  MaxLong = 1
  MaxUpdates = 3
  MaxFailures = 1
  MaxOutside = 2
  Foundation <- MCFoundation
  ControlPlane <- MCControlPlane
  Restored <- MCRestored
  Foreign <- MCForeign
  Networks <- MCNetworks
  MaxFaults = 2
INVARIANTS
  NoUpdateLost ChangesOnce CancelledStaysOpen ApprovedBySecond
  NoOrphans
PROPERTIES
  AllowlistWins CatchesUp
  DeletesOnlyRecorded RecoverySucceeds
\* The bot may have answered everything, a run may have ended.
CHECK_DEADLOCK FALSE
