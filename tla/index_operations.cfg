CONSTANTS
  Confirmations = 1
  Contents = {"matching"}
  Decisions = {"UnderReview","Approved"}
  MaxHead = 3
  MaxLogs = 3
  MaxClaims = 3
  Listeners = {l1}
  MaxBlockRange = 2
  StartBlocks = {0,2}
  NoRow = NoRow
  MaxFailures = 1
  PageSize = 1
SPECIFICATION OpsSpec
INVARIANTS NoFalseMissing ReconciliationExact WalkComplete
PROPERTIES HealthyMeansCaughtUp
CHECK_DEADLOCK FALSE
