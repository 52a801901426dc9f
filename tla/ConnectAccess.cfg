SPECIFICATION Spec
CONSTANTS
  Callers = {c1, c2}
  Skew = 2
  Patience = 1
  ClerkLife = 1
  RelayLife = 4
  CredLife = 3
  EnvLife = 3
  MaxTime = 5
  MaxRefresh = 3
  None = None
SYMMETRY Symmetry
INVARIANTS TypeOK TokensAlive RefreshNotLost
