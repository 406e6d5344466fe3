CONSTANTS
  Accounts = {a1, a2, a3, a4}
  NoAccount = NoAccount
  PermitIds = {p1}
  NoPermit = NoPermit
  Scores = {0, 10000}
  MaxClaims = 2
  MaxScopes = 1
  MaxProposals = 0
SPECIFICATION Spec
SYMMETRY Symmetry
PROPERTIES ImplementsAnchors RevocationStopsIntake
CHECK_DEADLOCK FALSE
