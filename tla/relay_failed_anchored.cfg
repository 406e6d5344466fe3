CONSTANTS
  MaxSubs = 1
  Signers = {s1}
  NoSigner = NoSigner
  Workers = {w1}
  MaxFee = 1
  BatchLimit = 1
  Confirmations = 0
  MaxReorgs = 0
  StallAllowed = FALSE
SPECIFICATION Spec
INVARIANT FailedNotAnchored
CHECK_DEADLOCK FALSE
