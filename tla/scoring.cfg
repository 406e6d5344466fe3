CONSTANTS
  c1 = c1
  c2 = c2
  Workers = {w1, w2}
  Claims = {c1, c2}
  Topics <- OnePartition
  Outputs <- OneOutput
  HumanDecisions <- Human
  NoRecord = NoRecord
  MaxFailures = 2
  MaxRebalances = 1
SPECIFICATION FairSpec
INVARIANTS TypeOK CommittedSettled CompletedAnchored
 
CHECK_DEADLOCK FALSE
