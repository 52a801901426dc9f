SPECIFICATION Spec
CONSTANTS
  Callers = {c1, c2}
  Conns = {k1, k2}
  MaxIds = 2
  MaxChunks = 2
  None = None
SYMMETRY Symmetry
INVARIANTS TypeOK NoStrandedCall Correlated NeverHeldBack OneSocket
