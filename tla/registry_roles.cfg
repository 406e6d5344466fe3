CONSTANTS
  Accounts = {a1, a2, a3, a4}
  NoAccount = NoAccount
  PermitIds = {p1}
  NoPermit = NoPermit
  Scores = {0, 10000}
  MaxClaims = 0
  MaxScopes = 2
  MaxProposals = 2
SPECIFICATION Spec
SYMMETRY Symmetry
INVARIANTS TypeOK RoleSeparation ScopesCounted
CHECK_DEADLOCK FALSE
