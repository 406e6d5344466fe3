CONSTANTS
  Workloads <- Intake
  Tokens <- OpenTokens
  Indexed = {"c1", "c2"}
  Screened = {"c1"}
  ChallengeClientLimit = 2
  ChallengeWalletLimit = 1
  ClaimantLimit = 1
  ClientMinuteLimit = 2
  Minute = 2
  Day = 6
  ChallengeTtl = 3
  SessionTtl = 2
  Lease = 3
  MaxCrashes = 1
SPECIFICATION FairSpec
INVARIANTS TypeOK ChallengeLimits SessionOnce ClaimantLimits DuplicatesSeen HistoryIsAnOrder OutcomesKept
PROPERTIES RequestsAnswered
CHECK_DEADLOCK FALSE
