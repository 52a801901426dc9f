SPECIFICATION Spec
CONSTANTS
  Callers = {c1}
  Skew = 2
  Patience = 0
  ClerkLife = 1
  RelayLife = 4
  CredLife = 3
  EnvLife = 3
  MaxTime = 6
  MaxRefresh = 2
  None = None
PROPERTIES RefusedOnlyIfSignedOut
