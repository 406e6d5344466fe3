CONSTANTS
  c1 = c1
  c2 = c2
  Workers = {w1, w2}
  Claims = {c1, c2}
  Topics <- OneEvent
  Outputs <- OneOutput
  HumanDecisions <- Human
  NoRecord = NoRecord
  MaxFailures = 0
  MaxRebalances = 1
SPECIFICATION Spec
PROPERTY CompletedIsImmutable
CHECK_DEADLOCK FALSE
