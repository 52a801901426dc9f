SPECIFICATION FairSpec
CONSTANTS
  Callers = {c1, c2}
  Conns = {k1}
  MaxIds = 2
  MaxChunks = 1
  None = None
PROPERTIES LostCallsEnd
