CONSTANTS
  MaxSubs = 2
  Signers = {s1,s2}
  NoSigner = NoSigner
  Workers = {w1}
  MaxFee = 1
  BatchLimit = 2
  Confirmations = 1
  MaxReorgs = 0
  StallAllowed = FALSE
SPECIFICATION Spec
SYMMETRY Symmetry
INVARIANTS OneActivePerSigner NoncesOwned ExpiredUnsigned
CHECK_DEADLOCK FALSE
