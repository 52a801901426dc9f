SPECIFICATION Spec
CONSTANTS
  Watches = {w1}
  Callers = {c1}
  Readers = {r1, r2}
  MaxSeq = 1
  OnLoop = TRUE
  NoOne = NoOne
INVARIANTS LiveEntryHasReader
