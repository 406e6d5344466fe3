CONSTANTS
  MaxSubs = 1
  Signers = {s1}
  NoSigner = NoSigner
  Workers = {w1,w2}
  MaxFee = 2
  BatchLimit = 2
  Confirmations = 1
  MaxReorgs = 1
  StallAllowed = FALSE
SPECIFICATION FairSpec
INVARIANTS TypeOK PersistedBeforeSent OneMinedAttempt ConfirmedIsFinal
PROPERTIES ImplementsLifecycle AuthorizedTerminates WalletFreed
CHECK_DEADLOCK FALSE
