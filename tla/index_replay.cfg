CONSTANTS
  Confirmations = 1
  Contents = {"matching","altered"}
  Decisions = {"UnderReview","Approved"}
  MaxHead = 3
  MaxLogs = 2
  MaxClaims = 2
  Listeners = {l1,l2}
  MaxBlockRange = 1
  StartBlocks = {1,2}
  NoRow = NoRow
  MaxFailures = 1
SPECIFICATION FairSpec
INVARIANTS CheckpointComplete RowsAreNewest OnlyFinalLogs
PROPERTIES ImplementsAnchors SubmissionsSettled
CHECK_DEADLOCK FALSE
